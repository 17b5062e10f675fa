------------------------------- MODULE ErrorLog -------------------------------
(***************************************************************************)
(* What one consumer logs of its Kafka errors: the connected flag and the  *)
(* throttle (classifyError and noteConnected in                            *)
(* internal/driver/consumer.go, internal/driver/throttle.go).  All of it   *)
(* runs inside Poll, under handleMu, so an event is one step.              *)
(***************************************************************************)
EXTENDS Integers

CONSTANTS
    Every,      \* throttle.every, in ticks of the clock
    MaxTime,    \* bound: the clock
    MaxHidden   \* bound: errors in a row that are not logged

ASSUME ErrorLogAssumption == Every \in Nat \ {0} /\ MaxTime \in Nat \ {0} /\ MaxHidden \in Nat

VARIABLES
    now,        \* the clock; 0 is the zero time.Time
    connected,  \* c.connected
    last,       \* throttle.last
    suppressed, \* throttle.suppressed
    line,       \* the line the latest event logged, or "none"
    hidden,     \* history: errors that logged nothing since allow said yes
    spoken,     \* history: when that was
    recovered,  \* history: the connection was restored since
    latest      \* history: of the yes before the latest one, how long ago it
                \* was, how many errors had logged nothing since, how many of
                \* those it reported, and whether there was a recovery between

throttleVars == <<last, suppressed>>
historyVars  == <<hidden, spoken, recovered, latest>>
vars == <<now, connected, throttleVars, line, historyVars>>

TypeOK ==
    /\ now \in 1..MaxTime
    /\ connected \in BOOLEAN
    /\ last \in 0..now
    /\ suppressed \in Nat
    /\ line \in {"none", "lost", "restored", "fatal", "unreachable", "error"}
    /\ hidden \in 0..MaxHidden
    /\ spoken \in 0..now
    /\ recovered \in BOOLEAN
    /\ latest \in [gap : Nat, hidden : Nat, told : Nat, reset : BOOLEAN]

Init ==
    /\ now = 1
    /\ connected = TRUE
    /\ last = 0
    /\ suppressed = 0
    /\ line = "none"
    /\ hidden = 0
    /\ spoken = 0
    /\ recovered = FALSE
    /\ latest = [gap |-> Every, hidden |-> 0, told |-> 0, reset |-> FALSE]

\* Mutant: a window once opened is never left.
Open_Forever == last # 0

\* The throttle's window is open: nothing may be logged.
Open == last # 0 /\ now - last < Every

\* allow says no, and counts.
Suppress ==
    /\ Open
    /\ hidden < MaxHidden
    /\ suppressed' = suppressed + 1
    /\ hidden' = hidden + 1
    /\ line' = "none"
    /\ UNCHANGED <<last, spoken, recovered, latest>>

\* Mutant: the time of the line is not kept.
Allow_NoWindow(l) ==
    /\ ~Open
    /\ line' = l
    /\ suppressed' = 0
    /\ hidden' = 0
    /\ spoken' = now
    /\ recovered' = FALSE
    /\ latest' = [gap |-> now - spoken, hidden |-> hidden, told |-> suppressed,
                  reset |-> recovered \/ spoken = 0]
    /\ UNCHANGED last

\* Mutant: the count is not taken back.
Allow_KeepsCount(l) ==
    /\ ~Open
    /\ line' = l
    /\ last' = now
    /\ hidden' = 0
    /\ spoken' = now
    /\ recovered' = FALSE
    /\ latest' = [gap |-> now - spoken, hidden |-> hidden, told |-> suppressed,
                  reset |-> recovered \/ spoken = 0]
    /\ UNCHANGED suppressed

\* allow says yes: the line tells how many were suppressed.
Allow(l) ==
    /\ ~Open
    /\ line' = l
    /\ suppressed' = 0
    /\ last' = now
    /\ hidden' = 0
    /\ spoken' = now
    /\ recovered' = FALSE
    /\ latest' = [gap |-> now - spoken, hidden |-> hidden, told |-> suppressed,
                  reset |-> recovered \/ spoken = 0]

\* ErrTransport or ErrAllBrokersDown: the first one is the loss of the
\* connection, and is logged without the throttle.
TransportError ==
    /\ \/ /\ connected
          /\ connected' = FALSE
          /\ line' = "lost"
          /\ UNCHANGED <<throttleVars, historyVars>>
       \/ /\ ~connected
          /\ Suppress \/ Allow("unreachable")
          /\ UNCHANGED connected
    /\ UNCHANGED now

OtherError ==
    /\ Suppress \/ Allow("error")
    /\ UNCHANGED <<now, connected>>

FatalError ==
    /\ line' = "fatal"
    /\ UNCHANGED <<now, connected, throttleVars, historyVars>>

\* noteConnected: a record or an end of partition shows that the broker
\* answers.  Recovering resets the throttle.
Arrival ==
    /\ connected' = TRUE
    /\ \/ /\ connected
          /\ line' = "none"
          /\ UNCHANGED <<throttleVars, recovered>>
       \/ /\ ~connected
          /\ line' = "restored"
          /\ last' = 0
          /\ suppressed' = 0
          /\ recovered' = TRUE
    /\ UNCHANGED <<now, hidden, spoken, latest>>

Tick ==
    /\ now < MaxTime
    /\ now' = now + 1
    /\ UNCHANGED <<connected, throttleVars, line, historyVars>>

Next == TransportError \/ OtherError \/ FatalError \/ Arrival \/ Tick

Spec == Init /\ [][Next]_vars

-----------------------------------------------------------------------------
\* Two lines of the throttle are a whole window apart, whatever mixture of
\* errors asked for them, unless the connection came back in between
\* (throttle.go:50-53).
RateLimited == ~latest.reset => latest.gap >= Every

\* So is each line's count exact (throttle.go:28-30).
CountIsTold == ~latest.reset => latest.told = latest.hidden

\* An error is passed over only within a window of a line that was logged since
\* the connection last came back: a broker that stays down is heard of again.
NeverMute ==
    [][hidden' > hidden => spoken # 0 /\ ~recovered /\ now - spoken < Every]_vars

=============================================================================
