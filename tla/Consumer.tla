------------------------------- MODULE Consumer -------------------------------
(***************************************************************************)
(* One driver consumer (internal/driver/consumer.go): calls from several   *)
(* goroutines on one librdkafka handle, kept apart by handleMu, and Close, *)
(* which releases the handle.                                              *)
(*                                                                         *)
(* A call enters librdkafka at "inside" and comes back at some later step. *)
(***************************************************************************)
EXTENDS Integers, FiniteSets

CONSTANTS
    Caller,     \* goroutines that hold the consumer
    Nobody,     \* no goroutine
    MaxCalls    \* bound: calls each goroutine makes

ASSUME ConsumerAssumption ==
    /\ IsFiniteSet(Caller)
    /\ Nobody \notin Caller
    /\ MaxCalls \in Nat

VARIABLES
    handleMu,   \* who holds the mutex
    closed,     \* c.closed
    assigned,   \* c.assigned is not empty
    handle,     \* the librdkafka handle: "open" or "released"
    pc,         \* per goroutine, where its call is
    op,         \* per goroutine, the method it called
    ret,        \* per goroutine, what its latest call returned
    calls,      \* per goroutine, how many calls it made
    released,   \* history: a call of Close has released the handle
    late        \* history: per goroutine, its call began after that

consumerVars == <<handleMu, closed, assigned, handle>>
callerVars   == <<pc, op, ret, calls, late>>
vars == <<consumerVars, callerVars, released>>

Exclusive == {"AssignAll", "Poll"}
Queries   == {"Watermarks", "Positions"}
Methods   == Exclusive \cup Queries \cup {"Close"}

Results == {"none", "ok", "failed", "ErrClosed", "ErrNotAssigned", "context"}

TypeOK ==
    /\ handleMu \in Caller \cup {Nobody}
    /\ closed \in BOOLEAN
    /\ assigned \in BOOLEAN
    /\ handle \in {"open", "released"}
    /\ pc \in [Caller -> {"idle", "swap", "lock", "check", "inside"}]
    /\ op \in [Caller -> Methods]
    /\ ret \in [Caller -> Results]
    /\ calls \in [Caller -> 0..MaxCalls]
    /\ released \in BOOLEAN
    /\ late \in [Caller -> BOOLEAN]

Init ==
    /\ handleMu = Nobody
    /\ closed = FALSE
    /\ assigned = FALSE
    /\ handle = "open"
    /\ pc = [c \in Caller |-> "idle"]
    /\ op = [c \in Caller |-> "Poll"]
    /\ ret = [c \in Caller |-> "none"]
    /\ calls = [c \in Caller |-> 0]
    /\ released = FALSE
    /\ late = [c \in Caller |-> FALSE]

Goto(c, here, there) ==
    /\ pc[c] = here
    /\ pc' = [pc EXCEPT ![c] = there]

\* The call returns r, and the deferred Unlock runs.
Return(c, r) ==
    /\ pc' = [pc EXCEPT ![c] = "idle"]
    /\ ret' = [ret EXCEPT ![c] = r]
    /\ handleMu' = IF handleMu = c THEN Nobody ELSE handleMu

\* A goroutine calls a method.  One at a time assigns and polls, as the
\* interface demands; anyone may query, and anyone may close.
Call(c, method) ==
    /\ calls[c] < MaxCalls
    /\ method \in Exclusive =>
         \A d \in Caller : pc[d] # "idle" => op[d] \notin Exclusive
    /\ Goto(c, "idle", IF method = "Close" THEN "swap" ELSE "lock")
    /\ op' = [op EXCEPT ![c] = method]
    /\ calls' = [calls EXCEPT ![c] = @ + 1]
    /\ late' = [late EXCEPT ![c] = released]
    /\ UNCHANGED <<consumerVars, ret, released>>

\* Close, up to its Swap: whoever finds the flag up has nothing to do.
CloseSwap(c) ==
    /\ closed' = TRUE
    /\ \/ /\ closed
          /\ pc[c] = "swap"
          /\ Return(c, "ok")
       \/ /\ ~closed
          /\ Goto(c, "swap", "lock")
          /\ UNCHANGED <<ret, handleMu>>
    /\ UNCHANGED <<assigned, handle, op, calls, released, late>>

\* Mutant: the flag is checked before the lock is taken.
Lock_AfterCheck(c) ==
    /\ handleMu = Nobody
    /\ handleMu' = c
    /\ Goto(c, "lock", "inside")
    /\ UNCHANGED <<closed, assigned, handle, op, ret, calls, released, late>>

Lock(c) ==
    /\ handleMu = Nobody
    /\ handleMu' = c
    /\ Goto(c, "lock", IF op[c] = "Close" THEN "inside" ELSE "check")
    /\ UNCHANGED <<closed, assigned, handle, op, ret, calls, released, late>>

\* Mutant: the refusal returns without the Unlock.
Check_KeepsLock(c) ==
    /\ \/ /\ closed
          /\ Goto(c, "check", "idle")
          /\ ret' = [ret EXCEPT ![c] = "ErrClosed"]
          /\ UNCHANGED handleMu
       \/ /\ ~closed
          /\ Goto(c, "check", "inside")
          /\ UNCHANGED <<ret, handleMu>>
    /\ UNCHANGED <<closed, assigned, handle, op, calls, released, late>>

\* Under the lock: a closed consumer refuses, Positions needs an assignment,
\* AssignAll gives up on a context that is done, and librdkafka is called.
Check(c) ==
    /\ pc[c] = "check"
    /\ \/ /\ closed
          /\ Return(c, "ErrClosed")
       \/ /\ ~closed /\ op[c] = "Positions" /\ ~assigned
          /\ Return(c, "ErrNotAssigned")
       \/ /\ ~closed /\ op[c] = "AssignAll"
          /\ Return(c, "context")
       \/ /\ ~closed /\ (op[c] = "Positions" => assigned)
          /\ Goto(c, "check", "inside")
          /\ UNCHANGED <<ret, handleMu>>
    /\ UNCHANGED <<closed, assigned, handle, op, calls, released, late>>

\* librdkafka has answered a poll, a query or an assignment, well or badly.
\* Only an assignment that succeeded is kept.
Answer(c) ==
    /\ pc[c] = "inside"
    /\ op[c] # "Close"
    /\ \E r \in {"ok", "failed"} :
         /\ Return(c, r)
         /\ assigned' = (assigned \/ (op[c] = "AssignAll" /\ r = "ok"))
    /\ UNCHANGED <<closed, handle, op, calls, released, late>>

\* Mutant: the flag comes down when librdkafka has closed the consumer.
Release_Reopens(c) ==
    /\ pc[c] = "inside"
    /\ op[c] = "Close"
    /\ closed' = FALSE
    /\ handle' = "released"
    /\ Return(c, "ok")
    /\ released' = TRUE
    /\ UNCHANGED <<assigned, op, calls, late>>

\* librdkafka has closed the consumer and destroyed its handle, or has failed
\* to, which leaves it as it is.
Release(c) ==
    /\ pc[c] = "inside"
    /\ op[c] = "Close"
    /\ \/ /\ handle' = "released"
          /\ Return(c, "ok")
          /\ released' = TRUE
       \/ /\ Return(c, "failed")
          /\ UNCHANGED <<handle, released>>
    /\ UNCHANGED <<closed, assigned, op, calls, late>>

Step(c) == CloseSwap(c) \/ Check(c) \/ Answer(c) \/ Release(c)

\* Every goroutine has made its calls.
Terminated ==
    /\ \A c \in Caller : pc[c] = "idle" /\ calls[c] = MaxCalls
    /\ UNCHANGED vars

Next ==
    \/ \E c \in Caller :
         \/ \E method \in Methods : Call(c, method)
         \/ Lock(c)
         \/ Step(c)
    \/ Terminated

Spec == Init /\ [][Next]_vars

\* librdkafka answers every call - each is bounded by a timeout - and the
\* mutex of Go starves nobody.
FairSpec ==
    /\ Spec
    /\ \A c \in Caller : WF_vars(Step(c)) /\ SF_vars(Lock(c))

-----------------------------------------------------------------------------
Inside == {c \in Caller : pc[c] = "inside"}

\* No call is in librdkafka on a handle that Close has released, and no two
\* calls are in it together, a Close that is tearing the handle down included
\* (consumer.go:59-101).
HandleSafe ==
    /\ Cardinality(Inside) <= 1
    /\ handle = "released" => Inside = {}

\* A call that began after the handle was released is refused, and does not get
\* as far as librdkafka (consumer.go:95-97).
LateCallRefused ==
    \A c \in Caller :
        late[c] => /\ pc[c] # "inside"
                   /\ pc[c] = "idle" => ret[c] \in {"ok", "ErrClosed"}
                   /\ pc[c] = "idle" /\ op[c] # "Close" => ret[c] = "ErrClosed"

\* Every call returns, Close among them: it waits for the call in flight and
\* for nothing else (consumer.go:103).
EveryCallReturns == \A c \in Caller : (pc[c] # "idle") ~> (pc[c] = "idle")

=============================================================================
