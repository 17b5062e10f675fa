------------------------------ MODULE Lifecycle ------------------------------
(***************************************************************************)
(* What an application can tell of a loader from the methods it calls and  *)
(* what they return: a loader is configured, warms up, serves and stops,   *)
(* the only way to serve is to have warmed up completely, and the only way *)
(* to stop is a cancelled context or a fatal error.                        *)
(*                                                                         *)
(* No goroutine, WaitGroup or consumer appears.  Loader is shown to        *)
(* implement it.                                                           *)
(***************************************************************************)
EXTENDS Naturals

CONSTANTS
    Binding,    \* the bindings the service wires
    Waiter,     \* goroutines that wait for the loader to stop
    Nil         \* no error

VARIABLES
    state,      \* where the loader is in its life
    bound,      \* the bindings registered
    loaded,     \* those whose topic has been read to its end
    live,       \* while serving: those still applying changes
    cancelled,  \* the context is cancelled
    reason,     \* what Err reports
    answered    \* what each WaitUntilStopped that returned reported

vars == <<state, bound, loaded, live, cancelled, reason, answered>>

Unanswered == [w \in Waiter |-> "none"]

Init ==
    /\ state = "Configured"
    /\ bound = {}
    /\ loaded = {}
    /\ live = {}
    /\ cancelled = FALSE
    /\ reason = Nil
    /\ answered = Unanswered

Bind(b) ==
    /\ state = "Configured"
    /\ bound' = bound \cup {b}
    /\ UNCHANGED <<state, loaded, live, cancelled, reason, answered>>

Start ==
    /\ state = "Configured"
    /\ bound # {}
    /\ state' = "WarmingUp"
    /\ UNCHANGED <<bound, loaded, live, cancelled, reason, answered>>

Load(b) ==
    /\ state = "WarmingUp"
    /\ b \in bound
    /\ loaded' = loaded \cup {b}
    /\ UNCHANGED <<state, bound, live, cancelled, reason, answered>>

Fail ==
    /\ state = "WarmingUp"
    /\ state' = "Failed"
    /\ UNCHANGED <<bound, loaded, live, cancelled, reason, answered>>

\* All or nothing.
Serve ==
    /\ state = "WarmingUp"
    /\ loaded = bound
    /\ state' = "Serving"
    /\ live' = bound
    /\ UNCHANGED <<bound, loaded, cancelled, reason, answered>>

Cancel ==
    /\ cancelled' = TRUE
    /\ UNCHANGED <<state, bound, loaded, live, reason, answered>>

\* The first fatal error is the one kept.
Die(b) ==
    /\ state = "Serving"
    /\ b \in live
    /\ reason = Nil
    /\ reason' = b
    /\ UNCHANGED <<state, bound, loaded, live, cancelled, answered>>

Leave(b) ==
    /\ state = "Serving"
    /\ cancelled \/ reason # Nil
    /\ b \in live
    /\ live' = live \ {b}
    /\ state' = IF live' = {} THEN "Stopped" ELSE "Serving"
    /\ UNCHANGED <<bound, loaded, cancelled, reason, answered>>

\* A wait that began after Start returned.
Answer(w) ==
    /\ state \in {"Failed", "Stopped"}
    /\ answered[w] = "none"
    /\ answered' = [answered EXCEPT ![w] = reason]
    /\ UNCHANGED <<state, bound, loaded, live, cancelled, reason>>

Next ==
    \/ \E b \in Binding : Bind(b) \/ Load(b) \/ Die(b) \/ Leave(b)
    \/ Start \/ Fail \/ Serve \/ Cancel
    \/ \E w \in Waiter : Answer(w)

Spec == Init /\ [][Next]_vars

\* Once it is going down, a loader does stop.
FairSpec == Spec /\ WF_vars(\E b \in Binding : Leave(b))

=============================================================================
