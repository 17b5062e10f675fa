---------------------------- MODULE ConsumerProofs ----------------------------
(***************************************************************************)
(* The handle of a driver consumer is safe for any number of goroutines,   *)
(* each calling as often as it likes.                                      *)
(*                                                                         *)
(* HandleSafe rests on the mutex (Locked) and on the flag, which lets one  *)
(* call of Close past its Swap (OneCloser) and is up when the handle goes  *)
(* (Gone).  LateCallRefused follows once a call is known to be late only   *)
(* when the handle is gone (LateAfter).                                    *)
(***************************************************************************)
EXTENDS Consumer, FiniteSetTheorems, TLAPS

\* Past its Swap, this call of Close tears the handle down.
Closing(c) == op[c] = "Close" /\ pc[c] \in {"lock", "inside"}

Locked == \A c \in Caller : pc[c] \in {"check", "inside"} <=> handleMu = c

Placed ==
    \A c \in Caller :
        /\ pc[c] = "swap" => op[c] = "Close"
        /\ pc[c] = "check" => op[c] # "Close"

OneCloser ==
    /\ \A c, d \in Caller : Closing(c) /\ Closing(d) => c = d
    /\ \A c \in Caller : Closing(c) => closed /\ ~released

Gone ==
    /\ handle = "released" <=> released
    /\ released => closed
    /\ released => \A c \in Caller : pc[c] # "inside"

LateAfter ==
    \A c \in Caller :
        late[c] => /\ released
                   /\ pc[c] = "idle" => ret[c] \in {"ok", "ErrClosed"}
                   /\ pc[c] = "idle" /\ op[c] # "Close" => ret[c] = "ErrClosed"

Inv == TypeOK /\ Locked /\ Placed /\ OneCloser /\ Gone /\ LateAfter

-----------------------------------------------------------------------------
(***************************************************************************)
(* Every step keeps the invariant.                                         *)
(***************************************************************************)

\* A consumer as New builds it satisfies the invariant.
LEMMA InitInv == Init => Inv
<1> SUFFICES ASSUME Init PROVE Inv
  OBVIOUS
<1>1. TypeOK
  <2>1. late \in [Caller -> BOOLEAN]  BY Zenon DEF Init
  <2>2. handleMu \in Caller \cup {Nobody} /\ closed \in BOOLEAN
        /\ assigned \in BOOLEAN /\ released \in BOOLEAN
    BY DEF Init
  <2>3. op \in [Caller -> Methods] /\ ret \in [Caller -> Results]
    BY DEF Init, Methods, Exclusive, Queries, Results
  <2>4. pc \in [Caller -> {"idle", "swap", "lock", "check", "inside"}]
        /\ calls \in [Caller -> 0..MaxCalls] /\ handle \in {"open", "released"}
    BY ConsumerAssumption DEF Init
  <2> QED  BY <2>1, <2>2, <2>3, <2>4 DEF TypeOK
<1>2. Locked  BY ConsumerAssumption DEF Init, Locked
<1>3. Placed /\ OneCloser /\ Gone /\ LateAfter
  BY DEF Init, Placed, OneCloser, Closing, Gone, LateAfter
<1> QED  BY <1>1, <1>2, <1>3 DEF Inv

\* A goroutine that calls a method holds nothing yet.
LEMMA CallInv ==
    ASSUME Inv, NEW c \in Caller, NEW method \in Methods, Call(c, method)
    PROVE  Inv'
<1> USE DEF Inv, Call, Goto, consumerVars
<1>1. TypeOK'  BY ConsumerAssumption DEF TypeOK
<1>2. Locked'  BY DEF TypeOK, Locked
<1>3. Placed'  BY DEF TypeOK, Placed
<1>4. OneCloser'  BY DEF TypeOK, OneCloser, Closing
<1>5. Gone'  BY DEF TypeOK, Gone
<1>6. LateAfter'  BY DEF TypeOK, LateAfter
<1> QED  BY <1>1, <1>2, <1>3, <1>4, <1>5, <1>6

\* The first Swap makes the one call that closes; every other call returns.
LEMMA CloseSwapInv ==
    ASSUME Inv, NEW c \in Caller, CloseSwap(c)
    PROVE  Inv'
<1> USE DEF Inv, CloseSwap
<1>1. CASE closed /\ pc[c] = "swap" /\ Return(c, "ok")
  <2> USE <1>1 DEF Return
  <2>1. TypeOK'  BY DEF TypeOK, Results
  <2>2. Locked'  BY ConsumerAssumption DEF TypeOK, Locked
  <2>3. Placed'  BY DEF TypeOK, Placed
  <2>4. OneCloser'  BY DEF TypeOK, OneCloser, Closing
  <2>5. Gone'  BY DEF TypeOK, Gone
  <2>6. LateAfter'  BY DEF TypeOK, LateAfter, Placed
  <2> QED  BY <2>1, <2>2, <2>3, <2>4, <2>5, <2>6
<1>2. CASE ~closed /\ Goto(c, "swap", "lock") /\ UNCHANGED <<ret, handleMu>>
  <2> USE <1>2 DEF Goto
  <2>1. TypeOK'  BY DEF TypeOK
  <2>2. Locked'  BY DEF TypeOK, Locked
  <2>3. Placed'  BY DEF TypeOK, Placed
  <2>4. ~released /\ \A d \in Caller : ~Closing(d)  BY DEF OneCloser, Gone
  <2>5. OneCloser'  BY <2>4 DEF TypeOK, OneCloser, Closing
  <2>6. Gone'  BY <2>4 DEF TypeOK, Gone
  <2>7. LateAfter'  BY <2>4 DEF TypeOK, LateAfter
  <2> QED  BY <2>1, <2>2, <2>3, <2>5, <2>6, <2>7
<1> QED  BY <1>1, <1>2

\* Whoever gets the lock is the only one to hold it; a Close that gets it is
\* the one that releases, and has not yet.
LEMMA LockInv ==
    ASSUME Inv, NEW c \in Caller, Lock(c)
    PROVE  Inv'
<1> USE DEF Inv, Lock, Goto
<1>1. TypeOK'  BY DEF TypeOK
<1>2. Locked'  BY ConsumerAssumption DEF TypeOK, Locked
<1>3. Placed'  BY DEF TypeOK, Placed
<1>4. OneCloser'  BY DEF TypeOK, OneCloser, Closing
<1>5. Gone'  BY DEF TypeOK, Gone, OneCloser, Closing
<1>6. LateAfter'  BY DEF TypeOK, LateAfter
<1> QED  BY <1>1, <1>2, <1>3, <1>4, <1>5, <1>6

\* A call that returns without having closed gives the lock back and leaves
\* the flag and the handle alone.
LEMMA ReturnInv ==
    ASSUME Inv, NEW c \in Caller, NEW r \in Results, Return(c, r),
           handleMu = c, op[c] # "Close", late[c] => r = "ErrClosed",
           assigned' \in BOOLEAN,
           UNCHANGED <<closed, handle, op, calls, released, late>>
    PROVE  Inv'
<1> USE DEF Inv, Return
<1>1. TypeOK'  BY DEF TypeOK
<1>2. Locked'  BY ConsumerAssumption DEF TypeOK, Locked
<1>3. Placed'  BY DEF TypeOK, Placed
<1>4. OneCloser'  BY DEF TypeOK, OneCloser, Closing
<1>5. Gone'  BY DEF TypeOK, Gone
<1>6. LateAfter'  BY DEF TypeOK, LateAfter
<1> QED  BY <1>1, <1>2, <1>3, <1>4, <1>5, <1>6

\* The flag is looked at under the lock, so what goes on finds it down.
LEMMA CheckInv ==
    ASSUME Inv, NEW c \in Caller, Check(c)
    PROVE  Inv'
<1>1. handleMu = c /\ op[c] # "Close" /\ assigned \in BOOLEAN
  BY DEF Inv, Check, Locked, Placed, TypeOK
<1>2. late[c] => closed  BY DEF Inv, LateAfter, Gone
<1>3. {"ErrClosed", "ErrNotAssigned", "context"} \subseteq Results  BY DEF Results
<1>4. CASE closed /\ Return(c, "ErrClosed")
  BY <1>1, <1>3, <1>4, ReturnInv DEF Check
<1>5. CASE ~closed /\ Return(c, "ErrNotAssigned")
  BY <1>1, <1>2, <1>3, <1>5, ReturnInv DEF Check
<1>6. CASE ~closed /\ Return(c, "context")
  BY <1>1, <1>2, <1>3, <1>6, ReturnInv DEF Check
<1>7. CASE ~closed /\ Goto(c, "check", "inside") /\ UNCHANGED <<ret, handleMu>>
  <2> USE <1>7 DEF Inv, Check, Goto
  <2>1. TypeOK'  BY DEF TypeOK
  <2>2. Locked'  BY <1>1 DEF TypeOK, Locked
  <2>3. Placed'  BY DEF TypeOK, Placed
  <2>4. OneCloser'  BY <1>1 DEF TypeOK, OneCloser, Closing
  <2>5. Gone'  BY DEF TypeOK, Gone
  <2>6. LateAfter'  BY DEF TypeOK, LateAfter
  <2> QED  BY <2>1, <2>2, <2>3, <2>4, <2>5, <2>6
<1> QED  BY <1>4, <1>5, <1>6, <1>7 DEF Check

\* A call comes back from librdkafka, where no late call got.
LEMMA AnswerInv ==
    ASSUME Inv, NEW c \in Caller, Answer(c)
    PROVE  Inv'
<1>1. handleMu = c /\ op[c] # "Close" /\ assigned' \in BOOLEAN
  BY DEF Inv, Answer, Locked, TypeOK
<1>2. ~late[c]  BY DEF Inv, Answer, LateAfter, Gone
<1>3. {"ok", "failed"} \subseteq Results  BY DEF Results
<1>4. PICK r \in {"ok", "failed"} : Return(c, r)  BY DEF Answer
<1> QED  BY <1>1, <1>2, <1>3, <1>4, ReturnInv DEF Answer

\* The handle goes while its lock keeps everyone else out of librdkafka.
LEMMA ReleaseInv ==
    ASSUME Inv, NEW c \in Caller, Release(c)
    PROVE  Inv'
<1> USE DEF Inv, Release, Return
<1>1. handleMu = c /\ closed /\ ~released /\ ~late[c]
  BY DEF Locked, OneCloser, Closing, LateAfter
<1>2. TypeOK'  BY DEF TypeOK, Results
<1>3. Locked'  BY <1>1, ConsumerAssumption DEF TypeOK, Locked
<1>4. Placed'  BY DEF TypeOK, Placed
<1>5. \A d \in Caller : d # c => ~Closing(d) /\ pc[d] # "inside"
  BY <1>1 DEF OneCloser, Closing, Locked
<1>6. OneCloser'  BY <1>5 DEF TypeOK, OneCloser, Closing
<1>7. Gone'  BY <1>1, <1>5 DEF TypeOK, Gone
<1>8. LateAfter'  BY <1>1 DEF TypeOK, LateAfter
<1> QED  BY <1>2, <1>3, <1>4, <1>6, <1>7, <1>8

\* Every step of the consumer keeps the invariant.
LEMMA NextInv == Inv /\ [Next]_vars => Inv'
<1> SUFFICES ASSUME Inv, [Next]_vars PROVE Inv'
  OBVIOUS
<1>1. ASSUME NEW c \in Caller, NEW method \in Methods, Call(c, method) PROVE Inv'
  BY <1>1, CallInv
<1>2. ASSUME NEW c \in Caller, Lock(c) PROVE Inv'  BY <1>2, LockInv
<1>3. ASSUME NEW c \in Caller, CloseSwap(c) PROVE Inv'  BY <1>3, CloseSwapInv
<1>4. ASSUME NEW c \in Caller, Check(c) PROVE Inv'  BY <1>4, CheckInv
<1>5. ASSUME NEW c \in Caller, Answer(c) PROVE Inv'  BY <1>5, AnswerInv
<1>6. ASSUME NEW c \in Caller, Release(c) PROVE Inv'  BY <1>6, ReleaseInv
<1>7. CASE UNCHANGED vars
  BY <1>7 DEF vars, consumerVars, callerVars, Inv, TypeOK, Locked, Placed,
              OneCloser, Closing, Gone, LateAfter
<1> QED
  BY <1>1, <1>2, <1>3, <1>4, <1>5, <1>6, <1>7 DEF Next, Step, Terminated

-----------------------------------------------------------------------------
(***************************************************************************)
(* The theorems.                                                           *)
(***************************************************************************)

\* The invariant holds throughout (consumer.go:59-101).
THEOREM InvHolds == Spec => []Inv
BY InitInv, NextInv, PTL DEF Spec

\* Every variable keeps its type, whatever the goroutines do.
THEOREM TypeCorrect == Spec => []TypeOK
<1>1. Inv => TypeOK  BY DEF Inv
<1> QED  BY <1>1, InvHolds, PTL

\* No call runs in librdkafka on a released handle or beside another call,
\* however many goroutines hold the consumer (consumer.go:59-101).
THEOREM Safe == Spec => []HandleSafe
<1>1. ASSUME Inv PROVE HandleSafe
  <2>1. Inside \subseteq {handleMu}
    BY <1>1 DEF Inv, Inside, Locked
  <2>2. IsFiniteSet({handleMu}) /\ Cardinality({handleMu}) = 1
    BY FS_Singleton
  <2>3. Cardinality(Inside) <= 1
    BY <2>1, <2>2, FS_Subset
  <2>4. handle = "released" => Inside = {}
    BY <1>1 DEF Inv, Gone, Inside
  <2> QED  BY <2>3, <2>4 DEF HandleSafe
<1> QED  BY <1>1, InvHolds, PTL

\* A call that begins once the handle is gone is refused (consumer.go:95-97).
THEOREM Refused == Spec => []LateCallRefused
<1>1. Inv => LateCallRefused
  BY DEF Inv, Gone, LateAfter, LateCallRefused
<1> QED  BY <1>1, InvHolds, PTL

-----------------------------------------------------------------------------
(***************************************************************************)
(* What EveryCallReturns rests on: a call has few steps to take, and one   *)
(* that waits for the mutex waits for a call that needs nothing more.      *)
(***************************************************************************)

\* How many steps a call has left.
CallLeft == [swap |-> 4, lock |-> 3, check |-> 2, inside |-> 1, idle |-> 0]

\* Every step of a call takes it nearer to its return, whatever librdkafka
\* answers and whoever else calls (consumer.go:59-103).
CallsWindDown ==
    [][\A c \in Caller :
         pc[c] # "idle" /\ pc'[c] # pc[c] => CallLeft[pc'[c]] < CallLeft[pc[c]]]_vars

\* A call that wants the mutex finds it free, or held by another call that only
\* librdkafka's answer keeps from giving it back (consumer.go:103).
LockComesBack ==
    \A c \in Caller : pc[c] = "lock" =>
        \/ handleMu = Nobody
        \/ \E d \in Caller \ {c} : handleMu = d /\ pc[d] \in {"check", "inside"}

\* Any call returns within four steps of its own.
THEOREM WindsDown == Spec => CallsWindDown
<1>1. ASSUME Inv, [Next]_vars, NEW c \in Caller, pc[c] # "idle", pc'[c] # pc[c]
      PROVE  CallLeft[pc'[c]] < CallLeft[pc[c]]
  <2>1. pc \in [Caller -> {"idle", "swap", "lock", "check", "inside"}]
    BY <1>1 DEF Inv, TypeOK
  <2>2. PICK d \in Caller, s \in {"idle", "swap", "lock", "check", "inside"} :
          /\ pc' = [pc EXCEPT ![d] = s]
          /\ \/ pc[d] = "idle"
             \/ pc[d] = "swap" /\ s \in {"idle", "lock"}
             \/ pc[d] = "lock" /\ s \in {"check", "inside"}
             \/ pc[d] = "check" /\ s \in {"idle", "inside"}
             \/ pc[d] = "inside" /\ s = "idle"
    <3>1. ASSUME NEW d \in Caller, NEW method \in Methods, Call(d, method)
          PROVE  pc[d] = "idle" /\ \/ pc' = [pc EXCEPT ![d] = "swap"]
                                   \/ pc' = [pc EXCEPT ![d] = "lock"]
      BY <3>1 DEF Call, Goto
    <3>2. ASSUME NEW d \in Caller, Lock(d)
          PROVE  pc[d] = "lock" /\ \/ pc' = [pc EXCEPT ![d] = "check"]
                                   \/ pc' = [pc EXCEPT ![d] = "inside"]
      BY <3>2 DEF Lock, Goto
    <3>3. ASSUME NEW d \in Caller, CloseSwap(d)
          PROVE  pc[d] = "swap" /\ \/ pc' = [pc EXCEPT ![d] = "idle"]
                                   \/ pc' = [pc EXCEPT ![d] = "lock"]
      BY <3>3 DEF CloseSwap, Goto, Return
    <3>4. ASSUME NEW d \in Caller, Check(d)
          PROVE  pc[d] = "check" /\ \/ pc' = [pc EXCEPT ![d] = "idle"]
                                    \/ pc' = [pc EXCEPT ![d] = "inside"]
      BY <3>4 DEF Check, Goto, Return
    <3>5. ASSUME NEW d \in Caller, Answer(d) \/ Release(d)
          PROVE  pc[d] = "inside" /\ pc' = [pc EXCEPT ![d] = "idle"]
      BY <3>5 DEF Answer, Release, Return
    <3>6. ~(Terminated \/ UNCHANGED vars)
      BY <1>1 DEF Terminated, vars, callerVars
    <3>7. PICK d \in Caller :
            \/ \E method \in Methods : Call(d, method)
            \/ Lock(d) \/ CloseSwap(d) \/ Check(d) \/ Answer(d) \/ Release(d)
      BY <1>1, <3>6 DEF Next, Step
    <3> QED  BY <3>1, <3>2, <3>3, <3>4, <3>5, <3>7
  <2> QED  BY <1>1, <2>1, <2>2 DEF CallLeft
<1>2. Inv /\ [Next]_vars =>
        [\A c \in Caller : pc[c] # "idle" /\ pc'[c] # pc[c] =>
                             CallLeft[pc'[c]] < CallLeft[pc[c]]]_vars
  BY <1>1
<1> QED  BY <1>2, InvHolds, PTL DEF Spec, CallsWindDown

\* The mutex is never lost, so nobody waits for a call that waits for him.
THEOREM NoDeadlock == Spec => []LockComesBack
<1>1. ASSUME Inv PROVE LockComesBack
  <2> SUFFICES ASSUME NEW c \in Caller, pc[c] = "lock", handleMu # Nobody
               PROVE  \E d \in Caller \ {c} :
                        handleMu = d /\ pc[d] \in {"check", "inside"}
    BY DEF LockComesBack
  <2>1. handleMu \in Caller  BY <1>1 DEF Inv, TypeOK
  <2> QED  BY <1>1, <2>1 DEF Inv, Locked
<1> QED  BY <1>1, InvHolds, PTL

=============================================================================
