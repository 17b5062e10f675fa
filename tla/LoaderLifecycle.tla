--------------------------- MODULE LoaderLifecycle ---------------------------
(***************************************************************************)
(* Loader implements Lifecycle.  The state of the life cycle is a function *)
(* of where Start and the serving goroutines are: the loader serves from   *)
(* the moment the warm-up barrier is passed, and has stopped once the last *)
(* serving goroutine has exited.                                           *)
(***************************************************************************)
EXTENDS Loader

Failed     == \E c \in Starter : start[c] = "failed"
HandedOver == \E c \in Starter : start[c] \in {"handover", "ok"}

liveBar == IF HandedOver THEN {b \in claimed : serve[b] # "exited"} ELSE {}

stateBar ==
    CASE ~started                      -> "Configured"
      [] started /\ Failed             -> "Failed"
      [] started /\ ~Failed /\ ~HandedOver -> "WarmingUp"
      [] started /\ ~Failed /\ HandedOver ->
           IF liveBar = {} THEN "Stopped" ELSE "Serving"

loadedBar == {b \in Binding : result[b] = "nil"}

\* Only the waits that began after Start had returned are promised an answer.
answeredBar == [w \in Waiter |->
    IF orderly[w] /\ wait[w] = "returned" THEN waitErr[w] ELSE "none"]

Abstract == INSTANCE Lifecycle WITH
    state <- stateBar, bound <- regs, loaded <- loadedBar, live <- liveBar,
    cancelled <- ctxDone, reason <- err, answered <- answeredBar

\* Every step of a loader is a step of the life cycle, or is not visible in it
\* (loader.go:107-228, 385-443; developer-doc.md, the diagram of section 2).
ImplementsLifecycle == Abstract!Spec

\* So is every fair behaviour: a loader that is going down stops.
ImplementsFairLifecycle == Abstract!FairSpec

=============================================================================
