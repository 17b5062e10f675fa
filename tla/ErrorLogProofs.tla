---------------------------- MODULE ErrorLogProofs ----------------------------
(***************************************************************************)
(* The throttle keeps its promises for any window and any mixture of       *)
(* events.  What its two fields mean depends on whether the connection was *)
(* restored since allow last said yes (Agrees): then they are reset, and   *)
(* otherwise they are what the history says.                               *)
(***************************************************************************)
EXTENDS ErrorLog, TLAPS

Agrees ==
    /\ recovered => last = 0
    /\ ~recovered => last = spoken /\ suppressed = hidden

Inv == TypeOK /\ Agrees /\ RateLimited /\ CountIsTold

-----------------------------------------------------------------------------
\* A throttle as newThrottle builds it satisfies the invariant.
LEMMA InitInv == Init => Inv
<1> SUFFICES ASSUME Init PROVE Inv
  OBVIOUS
<1>1. latest \in [gap : Nat, hidden : Nat, told : Nat, reset : BOOLEAN]
  BY ErrorLogAssumption DEF Init
<1>2. connected \in BOOLEAN /\ recovered \in BOOLEAN  BY DEF Init
<1>3. now \in 1..MaxTime /\ last \in 0..now /\ spoken \in 0..now
  BY ErrorLogAssumption DEF Init
<1>4. TypeOK  BY <1>1, <1>2, <1>3, ErrorLogAssumption DEF Init, TypeOK
<1>5. Agrees  BY DEF Init, Agrees
<1>6. RateLimited /\ CountIsTold
  BY ErrorLogAssumption DEF Init, RateLimited, CountIsTold
<1> QED  BY <1>4, <1>5, <1>6 DEF Inv

\* While the window is open its line is in the history, with no recovery since.
LEMMA OpenMeans ==
    ASSUME Agrees, Open
    PROVE  ~recovered /\ last = spoken /\ spoken # 0 /\ now - spoken < Every
BY DEF Agrees, Open

\* An error that is not logged is counted.
LEMMA SuppressInv ==
    ASSUME Inv, Suppress, now' = now, connected' \in BOOLEAN
    PROVE  Inv'
<1>1. ~recovered  BY OpenMeans DEF Inv, Suppress
<1>2. TypeOK'
  BY ErrorLogAssumption DEF Inv, TypeOK, Suppress
<1>3. Agrees'  BY <1>1 DEF Inv, TypeOK, Agrees, Suppress
<1>4. RateLimited' /\ CountIsTold'
  BY DEF Inv, Suppress, RateLimited, CountIsTold
<1> QED  BY <1>2, <1>3, <1>4 DEF Inv

\* A line is logged a whole window after the one before it, and tells what
\* was suppressed in between, unless there was a recovery.
LEMMA AllowInv ==
    ASSUME Inv, NEW l \in {"unreachable", "error"}, Allow(l),
           now' = now, connected' \in BOOLEAN
    PROVE  Inv'
<1>1. now - spoken \in Nat /\ now \in Nat  BY ErrorLogAssumption DEF Inv, TypeOK
<1>2. TypeOK'
  <2>1. latest' \in [gap : Nat, hidden : Nat, told : Nat, reset : BOOLEAN]
    <3>1. (recovered \/ spoken = 0) \in BOOLEAN  BY DEF Inv, TypeOK
    <3>2. hidden \in Nat /\ suppressed \in Nat
      BY ErrorLogAssumption DEF Inv, TypeOK
    <3> QED  BY <1>1, <3>1, <3>2 DEF Allow
  <2>2. recovered' \in BOOLEAN  BY DEF Allow
  <2>3. now' \in 1..MaxTime /\ last' \in 0..now' /\ spoken' \in 0..now'
    BY ErrorLogAssumption DEF Inv, TypeOK, Allow
  <2>4. suppressed' \in Nat /\ hidden' \in 0..MaxHidden
    BY ErrorLogAssumption DEF Allow
  <2>5. line' \in {"unreachable", "error"}  BY DEF Allow
  <2> QED  BY <2>1, <2>2, <2>3, <2>4, <2>5 DEF TypeOK
<1>3. Agrees'  BY DEF Agrees, Allow
<1>4. ASSUME ~recovered, spoken # 0
      PROVE  latest'.gap >= Every /\ latest'.told = latest'.hidden
  <2>1. last # 0 /\ last = spoken /\ suppressed = hidden  BY <1>4 DEF Inv, Agrees
  <2>2. now - spoken >= Every
    BY <2>1, <1>1, ErrorLogAssumption DEF Allow, Open
  <2> QED  BY <2>1, <2>2 DEF Allow
<1>5. ~latest'.reset => ~recovered /\ spoken # 0  BY DEF Allow
<1>6. RateLimited' /\ CountIsTold'
  BY <1>4, <1>5 DEF RateLimited, CountIsTold
<1> QED  BY <1>2, <1>3, <1>6 DEF Inv

\* Every event and every tick keeps the invariant.
LEMMA NextInv == Inv /\ [Next]_vars => Inv'
<1> SUFFICES ASSUME Inv, [Next]_vars PROVE Inv'
  OBVIOUS
<1> USE ErrorLogAssumption
<1>1. CASE TransportError
  <2>1. CASE Suppress \/ Allow("unreachable")
    <3>1. now' = now /\ connected' \in BOOLEAN
      BY <1>1, ErrorLogAssumption DEF TransportError, Inv, TypeOK
    <3> QED  BY <2>1, <3>1, SuppressInv, AllowInv
  <2>2. CASE connected /\ connected' = FALSE /\ line' = "lost"
             /\ UNCHANGED <<throttleVars, historyVars>>
    BY <1>1, <2>2 DEF TransportError, throttleVars, historyVars, Inv, TypeOK,
                      Agrees, RateLimited, CountIsTold
  <2> QED  BY <1>1, <2>1, <2>2 DEF TransportError
<1>2. CASE OtherError
  <2>1. now' = now /\ connected' \in BOOLEAN
    BY <1>2 DEF OtherError, Inv, TypeOK
  <2> QED  BY <1>2, <2>1, SuppressInv, AllowInv DEF OtherError
<1>3. CASE FatalError
  BY <1>3 DEF FatalError, throttleVars, historyVars, Inv, TypeOK, Agrees,
              RateLimited, CountIsTold
<1>4. CASE Arrival
  <2>1. TypeOK'
    <3>1. last' \in 0..now' /\ suppressed' \in Nat
      BY <1>4 DEF Arrival, throttleVars, Inv, TypeOK
    <3>2. recovered' \in BOOLEAN /\ connected' \in BOOLEAN
      BY <1>4 DEF Arrival, Inv, TypeOK
    <3>3. line' \in {"none", "restored"}  BY <1>4 DEF Arrival
    <3> QED  BY <1>4, <3>1, <3>2, <3>3 DEF Arrival, Inv, TypeOK
  <2>2. Agrees'
    <3>1. CASE connected
      BY <1>4, <3>1 DEF Arrival, throttleVars, Inv, Agrees
    <3>2. CASE ~connected
      BY <1>4, <3>2 DEF Arrival, Agrees
    <3> QED  BY <3>1, <3>2
  <2>3. RateLimited' /\ CountIsTold'
    BY <1>4 DEF Arrival, Inv, RateLimited, CountIsTold
  <2> QED  BY <2>1, <2>2, <2>3 DEF Inv
<1>5. CASE Tick
  BY <1>5 DEF Tick, throttleVars, historyVars, Inv, TypeOK, Agrees,
              RateLimited, CountIsTold
<1>6. CASE UNCHANGED vars
  BY <1>6 DEF vars, throttleVars, historyVars, Inv, TypeOK, Agrees,
              RateLimited, CountIsTold
<1> QED  BY <1>1, <1>2, <1>3, <1>4, <1>5, <1>6 DEF Next

-----------------------------------------------------------------------------
\* The invariant holds throughout (throttle.go:16-61).
THEOREM InvHolds == Spec => []Inv
BY InitInv, NextInv, PTL DEF Spec

\* Every variable keeps its type.
THEOREM TypeCorrect == Spec => []TypeOK
<1>1. Inv => TypeOK  BY DEF Inv
<1> QED  BY <1>1, InvHolds, PTL

\* Lines of the throttle are a whole window apart (throttle.go:50-53).
THEOREM Limited == Spec => []RateLimited
<1>1. Inv => RateLimited  BY DEF Inv
<1> QED  BY <1>1, InvHolds, PTL

\* Each of them tells how many errors were suppressed before it
\* (throttle.go:28-30).
THEOREM Told == Spec => []CountIsTold
<1>1. Inv => CountIsTold  BY DEF Inv
<1> QED  BY <1>1, InvHolds, PTL

\* An error is passed over only inside the window of a recent line.
THEOREM Heard == Spec => NeverMute
<1> DEFINE Muted == hidden' > hidden =>
                        spoken # 0 /\ ~recovered /\ now - spoken < Every
<1>1. Inv /\ [Next]_vars => [Muted]_vars
  <2> SUFFICES ASSUME Inv, Next, hidden' > hidden
               PROVE  spoken # 0 /\ ~recovered /\ now - spoken < Every
    BY DEF vars
  <2>1. hidden \in Int  BY ErrorLogAssumption DEF Inv, TypeOK
  <2>2. Suppress
    BY <2>1, ErrorLogAssumption
       DEF Next, TransportError, OtherError, FatalError, Arrival, Tick, Allow,
           historyVars, throttleVars, Inv, TypeOK
  <2> QED  BY <2>2, OpenMeans DEF Inv, Suppress
<1> QED  BY <1>1, InvHolds, PTL DEF Spec, NeverMute

=============================================================================
