----------------------------- MODULE LoaderInv -----------------------------
(***************************************************************************)
(* The inductive invariant behind Loader's safety properties.              *)
(***************************************************************************)
EXTENDS LoaderLifecycle

Claiming == InStart \cup Returned

\* l.started is up exactly while one call of Start has claimed the loader.
OneClaim ==
    /\ \A c, d \in Starter :
          start[c] \in Claiming /\ start[d] \in Claiming => c = d
    /\ started <=> \E c \in Starter : start[c] \in Claiming
    /\ ~started => claimed = {}
    /\ started => claimed = regs /\ regs # {}

\* Nothing has been built yet.
Untouched ==
    /\ consumers = {}
    /\ \A b \in Binding : warm[b] = "none" /\ serve[b] = "none" /\ closes[b] = 0

\* What holds at each position of the call that claimed the loader.
Stage ==
    /\ ~started => Untouched
    /\ \A c \in Starter :
         /\ start[c] = "building" => Untouched
         /\ start[c] = "warming" =>
              /\ consumers = claimed
              /\ \A b \in Binding : /\ warm[b] # "none" <=> b \in claimed
                                    /\ serve[b] = "none"
                                    /\ closes[b] = 0
         /\ start[c] = "closing" =>
              \A b \in Binding : /\ warm[b] \in {"none", "done"}
                                 /\ serve[b] = "none"
                                 /\ closes[b] = 0
         /\ start[c] = "failed" =>
              \A b \in Binding : /\ warm[b] \in {"none", "done"}
                                 /\ serve[b] = "none"
                                 /\ closes[b] = IF b \in consumers THEN 1 ELSE 0
         /\ start[c] \in {"handover", "ok"} =>
              /\ consumers = claimed
              /\ \A b \in Binding :
                   /\ warm[b] = IF b \in claimed THEN "done" ELSE "none"
                   /\ b \in claimed => result[b] = "nil"
                   /\ b \notin claimed => serve[b] = "none"
                   /\ closes[b] = IF serve[b] \in {"exiting", "exited"}
                                    THEN 1 ELSE 0
         /\ start[c] = "ok" => \A b \in claimed : serve[b] # "none"

\* A binding's outcome is nil only for a topic read whole.
ReadWhole ==
    \A b \in Binding :
        /\ result[b] # "none" <=> warm[b] = "done"
        /\ result[b] = "nil" => /\ remaining[b] = {}
                                /\ applied[b] > 0 \/ b \in AllowEmpty

\* A binding blames the deadline, or the cancellation, only for the one that
\* ended the warm-up (loader.go:377-383).
BlamesRightly ==
    \A b \in Binding :
        /\ result[b] = "timeout" => warmCtx = "deadline"
        /\ result[b] = "canceled" => warmCtx = "canceled"

\* The WaitGroup counts the goroutines between serving.Go and its Done.
Running == {b \in Binding : serve[b] \notin {"none", "exited"}}
Counted == serving = Cardinality(Running)

\* A binding past its last check has a signal to show for it, and the handler
\* is still to run only for the binding that won the compare-and-swap.
Signalled ==
    \A b \in Binding :
        /\ serve[b] = "handler" => err = b /\ handled = <<>>
        /\ serve[b] \in {"stopping", "closing", "exiting", "exited"} => StopSignal
        /\ phase[b] = "stopped" => StopSignal

Reported == handled = <<>> \/ (err # Nil /\ handled = <<err>>)

\* The one record that came late was the last.
LateOnce ==
    \A b \in Binding :
        /\ late[b] <= 1
        /\ late[b] = 1 => StopSignal /\ serve[b] # "poll"

\* A wait that began after Start and was let through found nothing running.
Waited ==
    \A w \in Waiter :
        /\ wait[w] = "idle" => ~orderly[w]
        /\ orderly[w] =>
             /\ StartReturned
             /\ wait[w] # "panicked"
             /\ wait[w] \in {"woken", "passed", "returned"} => Running = {}
             /\ wait[w] = "returned" => waitErr[w] = err

IInv ==
    /\ TypeOK
    /\ OneClaim
    /\ Stage
    /\ ReadWhole
    /\ BlamesRightly
    /\ Counted
    /\ Signalled
    /\ Reported
    /\ LateOnce
    /\ Waited

=============================================================================
