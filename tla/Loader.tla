------------------------------- MODULE Loader -------------------------------
(***************************************************************************)
(* The lifecycle of a Loader (loader.go): Bind, Start, the warm-up         *)
(* goroutines, the hand-over to the serving goroutines, a fatal Kafka      *)
(* error, cancellation, and WaitUntilStopped.                              *)
(*                                                                         *)
(* What a record holds is left out: a poll delivers a record that counts   *)
(* as applied, one that is skipped, an end-of-partition, a fatal failure,  *)
(* or nothing to act on.  A goroutine's position is its program counter;   *)
(* everything between two of its positions touches only its own binding,   *)
(* an atomic or a WaitGroup, so it is one step.                            *)
(***************************************************************************)
EXTENDS Integers, Sequences, FiniteSets

CONSTANTS
    Binding,        \* the bindings the service wires
    Partition,      \* the partitions of a topic
    AllowEmpty,     \* the bindings declared with AllowEmpty
    Starter,        \* goroutines that call Start
    Waiter,         \* goroutines that call WaitUntilStopped
    WarmupTimeout,  \* TRUE iff WithWarmupTimeout gave a positive bound
    FatalHandler,   \* TRUE iff WithFatalHandler was given
    MaxRecords,     \* bound: records one warm-up applies
    Nil             \* no error

ASSUME ConstantsAssumption ==
    /\ IsFiniteSet(Binding)
    /\ Partition # {}
    /\ AllowEmpty \subseteq Binding
    /\ WarmupTimeout \in BOOLEAN
    /\ FatalHandler \in BOOLEAN
    /\ MaxRecords \in Nat
    /\ Nil \notin Binding

VARIABLES
    \* the Loader struct
    regs,       \* l.regs and l.byName: the bindings registered
    started,    \* l.started
    err,        \* l.err: Nil, or the binding whose fatal error was recorded
    serving,    \* l.serving: the counter of the WaitGroup
    \* one call of Start, per goroutine, and the winning call's locals
    start,      \* where the call is, or what it returned
    claimed,    \* the private copy of l.regs
    consumers,  \* the bindings a consumer was built for
    warmCtx,    \* warmCtx.Err(): "live", "canceled" or "deadline"
    \* one warm-up goroutine per binding
    warm,       \* its program counter
    remaining,  \* eofDetection.remaining
    applied,    \* reg.warmupApplied
    result,     \* its slot of results
    \* one serving goroutine per binding
    serve,      \* its program counter
    late,       \* history: records applied although the stop signal was up
    \* per binding
    phase,      \* reg.phase
    closes,     \* how often Close was called on its consumer
    \* the application
    ctxDone,    \* the context given to Start is cancelled
    handled,    \* the errors the fatal handler was given, in order
    wait,       \* per goroutine, where its WaitUntilStopped is
    waitErr,    \* what WaitUntilStopped returned
    orderly     \* history: that call began after a Start had returned

loaderVars == <<regs, started, err, serving>>
startVars  == <<start, claimed, consumers>>
warmVars   == <<warm, remaining, applied, result>>
serveVars  == <<serve, late>>
appVars    == <<wait, waitErr, orderly>>
vars == <<loaderVars, startVars, warmCtx, warmVars, serveVars, phase, closes,
          ctxDone, handled, appVars>>

(***************************************************************************)
(* Start's positions and outcomes.  Exactly one call claims the loader.    *)
(***************************************************************************)
InStart     == {"building", "warming", "closing", "handover"}
Returned    == {"ok", "failed"}
StartStates == {"idle", "rejected"} \cup InStart \cup Returned

WarmStates  == {"none", "assign", "check", "poll", "done"}
WarmErrors  == {"canceled", "timeout", "assign", "fatal", "empty"}
Warming     == {"assign", "check", "poll"}

\* A serving goroutine, in program order.  It uses its consumer in Looping
\* and Leaving, and is counted by the WaitGroup until it has exited.
Looping     == {"check", "poll"}
Leaving     == {"dying", "handler", "stopping", "closing"}
ServeStates == {"none", "exiting", "exited"} \cup Looping \cup Leaving

\* serving.Wait passes a zero counter at once; otherwise it queues, and is
\* woken by the Done that brings the counter to zero.
WaitStates  == {"idle", "queued", "woken", "passed", "returned", "panicked"}

TypeOK ==
    /\ regs \subseteq Binding
    /\ started \in BOOLEAN
    /\ err \in Binding \cup {Nil}
    /\ serving \in Int
    /\ start \in [Starter -> StartStates]
    /\ claimed \subseteq Binding
    /\ consumers \subseteq Binding
    /\ warmCtx \in {"live", "canceled"} \cup (IF WarmupTimeout THEN {"deadline"} ELSE {})
    /\ warm \in [Binding -> WarmStates]
    /\ remaining \in [Binding -> SUBSET Partition]
    /\ applied \in [Binding -> Nat]
    /\ result \in [Binding -> WarmErrors \cup {"none", "nil"}]
    /\ serve \in [Binding -> ServeStates]
    /\ late \in [Binding -> Nat]
    /\ phase \in [Binding -> {"warmup", "steady", "stopped"}]
    /\ closes \in [Binding -> Nat]
    /\ ctxDone \in BOOLEAN
    /\ handled \in Seq(Binding)
    /\ wait \in [Waiter -> WaitStates]
    /\ waitErr \in [Waiter -> Binding \cup {Nil}]
    /\ orderly \in [Waiter -> BOOLEAN]

Init ==
    /\ regs = {}
    /\ started = FALSE
    /\ err = Nil
    /\ serving = 0
    /\ start = [c \in Starter |-> "idle"]
    /\ claimed = {}
    /\ consumers = {}
    /\ warmCtx = "live"
    /\ warm = [b \in Binding |-> "none"]
    /\ remaining = [b \in Binding |-> {}]
    /\ applied = [b \in Binding |-> 0]
    /\ result = [b \in Binding |-> "none"]
    /\ serve = [b \in Binding |-> "none"]
    /\ late = [b \in Binding |-> 0]
    /\ phase = [b \in Binding |-> "warmup"]
    /\ closes = [b \in Binding |-> 0]
    /\ ctxDone = FALSE
    /\ handled = <<>>
    /\ wait = [w \in Waiter |-> "idle"]
    /\ waitErr = [w \in Waiter |-> Nil]
    /\ orderly = [w \in Waiter |-> FALSE]

-----------------------------------------------------------------------------
(***************************************************************************)
(* Wiring, and Start up to the warm-up.                                    *)
(***************************************************************************)

\* Bind after Start and a duplicate name panic, which changes nothing.
Bind(b) ==
    /\ ~started
    /\ b \notin regs
    /\ regs' = regs \cup {b}
    /\ UNCHANGED <<started, err, serving, startVars, warmCtx, warmVars,
                   serveVars, phase, closes, ctxDone, handled, appVars>>

\* The claim: the check and the flag are one critical section of l.mu.
Claim(c) ==
    /\ start[c] = "idle"
    /\ ~started
    /\ regs # {}
    /\ started' = TRUE
    /\ claimed' = regs
    /\ start' = [start EXCEPT ![c] = "building"]
    /\ UNCHANGED <<regs, err, serving, consumers, warmCtx, warmVars,
                   serveVars, phase, closes, ctxDone, handled, appVars>>

\* ErrAlreadyStarted, or ErrNoBindings.
StartRejected(c) ==
    /\ start[c] = "idle"
    /\ started \/ regs = {}
    /\ start' = [start EXCEPT ![c] = "rejected"]
    /\ UNCHANGED <<loaderVars, claimed, consumers, warmCtx, warmVars,
                   serveVars, phase, closes, ctxDone, handled, appVars>>

\* newConsumers: every factory call is made, whichever of them fail.
NewConsumers(c) ==
    /\ start[c] = "building"
    /\ \E failed \in SUBSET claimed :
         /\ consumers' = claimed \ failed
         /\ \/ /\ failed # {}
               /\ start' = [start EXCEPT ![c] = "closing"]
               /\ UNCHANGED warm
            \/ /\ failed = {}
               /\ start' = [start EXCEPT ![c] = "warming"]
               /\ warm' = [b \in Binding |->
                             IF b \in claimed THEN "assign" ELSE warm[b]]
    /\ UNCHANGED <<loaderVars, claimed, warmCtx, remaining, applied, result,
                   serveVars, phase, closes, ctxDone, handled, appVars>>

-----------------------------------------------------------------------------
(***************************************************************************)
(* The first generation: one warm-up goroutine per claimed binding.        *)
(***************************************************************************)

\* Anyone holding the process context may cancel it, the fatal handler
\* included; warmCtx is its child, so it is cancelled too.
CancelContext ==
    /\ ~ctxDone
    /\ ctxDone' = TRUE
    /\ warmCtx' = IF warmCtx = "live" THEN "canceled" ELSE warmCtx
    /\ UNCHANGED <<loaderVars, startVars, warmVars, serveVars, phase, closes,
                   handled, appVars>>

WarmupDeadline ==
    /\ WarmupTimeout
    /\ \E c \in Starter : start[c] = "warming"
    /\ warmCtx = "live"
    /\ warmCtx' = "deadline"
    /\ UNCHANGED <<loaderVars, startVars, warmVars, serveVars, phase, closes,
                   ctxDone, handled, appVars>>

\* Mutant: whatever ended a bounded warm-up is called its timeout.
NameTimeout_Any(e) == IF WarmupTimeout THEN "timeout" ELSE e

NameTimeout(e) == IF WarmupTimeout /\ e = "deadline" THEN "timeout" ELSE e

\* warmUpBinding returns r, which is "nil" or its error.
Finish(b, r) ==
    /\ warm' = [warm EXCEPT ![b] = "done"]
    /\ result' = [result EXCEPT ![b] = r]

\* The detection starts from the partitions assigned, and drops each one that
\* reports its end.
Begin == Partition
Observe(b, p) == remaining[b] \ {p}

\* noteRecord: a record that is applied counts as long as the phase is warm-up.
NoteRecord(b) ==
    applied' = [applied EXCEPT ![b] = IF phase[b] = "warmup" THEN @ + 1 ELSE @]

\* AssignAll and the detector's begin: the context is looked at once, before
\* the metadata request.
WarmAssign(b) ==
    /\ warm[b] = "assign"
    /\ \/ /\ warmCtx # "live"
          /\ Finish(b, NameTimeout(warmCtx))
          /\ UNCHANGED remaining
       \/ /\ warmCtx = "live"
          /\ Finish(b, "assign")
          /\ UNCHANGED remaining
       \/ /\ warmCtx = "live"
          /\ remaining' = [remaining EXCEPT ![b] = Begin]
          /\ warm' = [warm EXCEPT ![b] = "check"]
          /\ UNCHANGED result
    /\ UNCHANGED <<loaderVars, startVars, warmCtx, applied, serveVars, phase,
                   closes, ctxDone, handled, appVars>>

\* Mutant: warm-up polls under the caller's context, which has no deadline.
WarmCheck_CallersContext(b) ==
    /\ warm[b] = "check"
    /\ \/ /\ ctxDone
          /\ Finish(b, "canceled")
       \/ /\ ~ctxDone
          /\ warm' = [warm EXCEPT ![b] = "poll"]
          /\ UNCHANGED result
    /\ UNCHANGED <<loaderVars, startVars, warmCtx, remaining, applied,
                   serveVars, phase, closes, ctxDone, handled, appVars>>

WarmCheck(b) ==
    /\ warm[b] = "check"
    /\ \/ /\ warmCtx # "live"
          /\ Finish(b, NameTimeout(warmCtx))
       \/ /\ warmCtx = "live"
          /\ warm' = [warm EXCEPT ![b] = "poll"]
          /\ UNCHANGED result
    /\ UNCHANGED <<loaderVars, startVars, warmCtx, remaining, applied,
                   serveVars, phase, closes, ctxDone, handled, appVars>>

\* A record that is applied.  An event that is no end of partition leaves the
\* detection as it is, and incomplete.
WarmRecord(b) ==
    /\ warm[b] = "poll"
    /\ applied[b] < MaxRecords
    /\ NoteRecord(b)
    /\ warm' = [warm EXCEPT ![b] = "check"]
    /\ UNCHANGED <<loaderVars, startVars, warmCtx, remaining, result,
                   serveVars, phase, closes, ctxDone, handled, appVars>>

\* A record that is skipped, an idle poll, or an error librdkafka recovers
\* from by itself.
WarmQuiet(b) ==
    /\ warm[b] = "poll"
    /\ warm' = [warm EXCEPT ![b] = "check"]
    /\ UNCHANGED <<loaderVars, startVars, warmCtx, remaining, applied, result,
                   serveVars, phase, closes, ctxDone, handled, appVars>>

\* Mutant: the first end of partition counts as the end of the topic.
WarmEOF_FirstPartition(b, p) ==
    /\ warm[b] = "poll"
    /\ remaining' = [remaining EXCEPT ![b] = Observe(b, p)]
    /\ \/ /\ applied[b] = 0 /\ b \notin AllowEmpty
          /\ Finish(b, "empty")
          /\ UNCHANGED phase
       \/ /\ applied[b] > 0 \/ b \in AllowEmpty
          /\ Finish(b, "nil")
          /\ phase' = [phase EXCEPT ![b] = "steady"]
    /\ UNCHANGED <<loaderVars, startVars, warmCtx, applied, serveVars, closes,
                   ctxDone, handled, appVars>>

\* End of partition p, whether its first or a later one.  Once every
\* partition has reported, the topic counts as read: an empty one is an error
\* unless allowed, and otherwise the binding becomes steady.
WarmEOF(b, p) ==
    /\ warm[b] = "poll"
    /\ remaining' = [remaining EXCEPT ![b] = Observe(b, p)]
    /\ \/ /\ Observe(b, p) # {}
          /\ warm' = [warm EXCEPT ![b] = "check"]
          /\ UNCHANGED <<result, phase>>
       \/ /\ Observe(b, p) = {}
          /\ applied[b] = 0 /\ b \notin AllowEmpty
          /\ Finish(b, "empty")
          /\ UNCHANGED phase
       \/ /\ Observe(b, p) = {}
          /\ applied[b] > 0 \/ b \in AllowEmpty
          /\ Finish(b, "nil")
          /\ phase' = [phase EXCEPT ![b] = "steady"]
    /\ UNCHANGED <<loaderVars, startVars, warmCtx, applied, serveVars, closes,
                   ctxDone, handled, appVars>>

WarmFatal(b) ==
    /\ warm[b] = "poll"
    /\ Finish(b, "fatal")
    /\ UNCHANGED <<loaderVars, startVars, warmCtx, remaining, applied,
                   serveVars, phase, closes, ctxDone, handled, appVars>>

\* Mutant: Start returns at the first failure instead of hearing all out.
WarmupWait_FirstFailure(c) ==
    /\ start[c] = "warming"
    /\ \/ /\ \A b \in claimed : warm[b] = "done" /\ result[b] = "nil"
          /\ start' = [start EXCEPT ![c] = "handover"]
       \/ /\ \E b \in claimed : warm[b] = "done" /\ result[b] # "nil"
          /\ start' = [start EXCEPT ![c] = "closing"]
    /\ UNCHANGED <<loaderVars, claimed, consumers, warmCtx, warmVars,
                   serveVars, phase, closes, ctxDone, handled, appVars>>

\* warmup.Wait and errors.Join: every binding is heard out first.
WarmupWait(c) ==
    /\ start[c] = "warming"
    /\ \A b \in claimed : warm[b] = "done"
    /\ start' = [start EXCEPT ![c] =
                   IF \A b \in claimed : result[b] = "nil" THEN "handover"
                                                           ELSE "closing"]
    /\ UNCHANGED <<loaderVars, claimed, consumers, warmCtx, warmVars,
                   serveVars, phase, closes, ctxDone, handled, appVars>>

\* Mutant: only the consumers of the bindings that failed are closed.
CloseAll_FailedOnly(c) ==
    /\ start[c] = "closing"
    /\ closes' = [b \in Binding |->
                    IF b \in consumers /\ result[b] # "nil"
                      THEN closes[b] + 1 ELSE closes[b]]
    /\ start' = [start EXCEPT ![c] = "failed"]
    /\ UNCHANGED <<loaderVars, claimed, consumers, warmCtx, warmVars,
                   serveVars, phase, ctxDone, handled, appVars>>

\* closeAll, for a failed construction and for a failed warm-up alike.  The
\* consumers have no other user by then, so closing them in turn is one step.
CloseAll(c) ==
    /\ start[c] = "closing"
    /\ closes' = [b \in Binding |->
                    IF b \in consumers THEN closes[b] + 1 ELSE closes[b]]
    /\ start' = [start EXCEPT ![c] = "failed"]
    /\ UNCHANGED <<loaderVars, claimed, consumers, warmCtx, warmVars,
                   serveVars, phase, ctxDone, handled, appVars>>

-----------------------------------------------------------------------------
(***************************************************************************)
(* The second generation: one serving goroutine per binding.               *)
(***************************************************************************)

\* Mutant: a plain go statement, which the WaitGroup does not count.
Handover_Uncounted(c, b) ==
    /\ start[c] = "handover"
    /\ b \in claimed
    /\ serve[b] = "none"
    /\ serve' = [serve EXCEPT ![b] = "check"]
    /\ UNCHANGED <<loaderVars, startVars, warmCtx, warmVars, late, phase,
                   closes, ctxDone, handled, appVars>>

\* One turn of the loop around serving.Go.
Handover(c, b) ==
    /\ start[c] = "handover"
    /\ b \in claimed
    /\ serve[b] = "none"
    /\ serve' = [serve EXCEPT ![b] = "check"]
    /\ serving' = serving + 1
    /\ UNCHANGED <<regs, started, err, startVars, warmCtx, warmVars, late,
                   phase, closes, ctxDone, handled, appVars>>

StartOK(c) ==
    /\ start[c] = "handover"
    /\ \A b \in claimed : serve[b] # "none"
    /\ start' = [start EXCEPT ![c] = "ok"]
    /\ UNCHANGED <<loaderVars, claimed, consumers, warmCtx, warmVars,
                   serveVars, phase, closes, ctxDone, handled, appVars>>

StopSignal == ctxDone \/ err # Nil

Serve(b, from, to) ==
    /\ serve[b] = from
    /\ serve' = [serve EXCEPT ![b] = to]

\* Mutant: only the context is checked.
ServeCheck_ContextOnly(b) ==
    /\ Serve(b, "check", IF ctxDone THEN "stopping" ELSE "poll")
    /\ UNCHANGED <<loaderVars, startVars, warmCtx, warmVars, late, phase,
                   closes, ctxDone, handled, appVars>>

\* The between-poll check.  Both signals only ever rise, so reading one after
\* the other is as good as reading them together.
ServeCheck(b) ==
    /\ Serve(b, "check", IF StopSignal THEN "stopping" ELSE "poll")
    /\ UNCHANGED <<loaderVars, startVars, warmCtx, warmVars, late, phase,
                   closes, ctxDone, handled, appVars>>

\* A poll cannot be interrupted, so its record is applied even when the signal
\* has risen meanwhile.
ServeRecord(b) ==
    /\ Serve(b, "poll", "check")
    /\ NoteRecord(b)
    /\ late' = [late EXCEPT ![b] = IF StopSignal THEN @ + 1 ELSE @]
    /\ UNCHANGED <<loaderVars, startVars, warmCtx, warm, remaining, result, phase,
                   closes, ctxDone, handled, appVars>>

ServeQuiet(b) ==
    /\ Serve(b, "poll", "check")
    /\ UNCHANGED <<loaderVars, startVars, warmCtx, warmVars, late, phase,
                   closes, ctxDone, handled, appVars>>

\* Mutant: a fatal error ends the goroutine without being recorded.
ServeFatal_Unrecorded(b) ==
    /\ Serve(b, "poll", "stopping")
    /\ UNCHANGED <<loaderVars, startVars, warmCtx, warmVars, late, phase,
                   closes, ctxDone, handled, appVars>>

ServeFatal(b) ==
    /\ Serve(b, "poll", "dying")
    /\ UNCHANGED <<loaderVars, startVars, warmCtx, warmVars, late, phase,
                   closes, ctxDone, handled, appVars>>

\* Mutant: the answer of the compare-and-swap is ignored.
BindingDied_SwapIgnored(b) ==
    /\ Serve(b, "dying", IF FatalHandler THEN "handler" ELSE "stopping")
    /\ err' = IF err = Nil THEN b ELSE err
    /\ UNCHANGED <<regs, started, serving, startVars, warmCtx, warmVars, late,
                   phase, closes, ctxDone, handled, appVars>>

\* bindingDied: only the first error recorded goes to the handler.
BindingDied(b) ==
    /\ Serve(b, "dying",
             IF err = Nil /\ FatalHandler THEN "handler" ELSE "stopping")
    /\ err' = IF err = Nil THEN b ELSE err
    /\ UNCHANGED <<regs, started, serving, startVars, warmCtx, warmVars, late,
                   phase, closes, ctxDone, handled, appVars>>

RunFatalHandler(b) ==
    /\ Serve(b, "handler", "stopping")
    /\ handled' = Append(handled, b)
    /\ UNCHANGED <<loaderVars, startVars, warmCtx, warmVars, late, phase,
                   closes, ctxDone, appVars>>

\* The deferred function, then the Done of serving.Go.
ServeStop(b) ==
    /\ Serve(b, "stopping", "closing")
    /\ phase' = [phase EXCEPT ![b] = "stopped"]
    /\ UNCHANGED <<loaderVars, startVars, warmCtx, warmVars, late, closes,
                   ctxDone, handled, appVars>>

ServeClose(b) ==
    /\ Serve(b, "closing", "exiting")
    /\ closes' = [closes EXCEPT ![b] = @ + 1]
    /\ UNCHANGED <<loaderVars, startVars, warmCtx, warmVars, late, phase,
                   ctxDone, handled, appVars>>

\* Mutant: the goroutine that died never reports Done.
ServeExit_NotDone(b) ==
    /\ Serve(b, "exiting", "exited")
    /\ serving' = IF err = b THEN serving ELSE serving - 1
    /\ wait' = [w \in Waiter |->
                  IF wait[w] = "queued" /\ serving' = 0 THEN "woken" ELSE wait[w]]
    /\ UNCHANGED <<regs, started, err, startVars, warmCtx, warmVars, late,
                   phase, closes, ctxDone, handled, waitErr, orderly>>

ServeExit(b) ==
    /\ Serve(b, "exiting", "exited")
    /\ serving' = serving - 1
    /\ wait' = [w \in Waiter |->
                  IF wait[w] = "queued" /\ serving = 1 THEN "woken" ELSE wait[w]]
    /\ UNCHANGED <<regs, started, err, startVars, warmCtx, warmVars, late,
                   phase, closes, ctxDone, handled, waitErr, orderly>>

-----------------------------------------------------------------------------
(***************************************************************************)
(* WaitUntilStopped.                                                       *)
(***************************************************************************)

StartReturned == \E c \in Starter : start[c] \in Returned

WaitCall(w) ==
    /\ wait[w] = "idle"
    /\ wait' = [wait EXCEPT ![w] = IF serving = 0 THEN "passed" ELSE "queued"]
    /\ orderly' = [orderly EXCEPT ![w] = StartReturned]
    /\ UNCHANGED <<loaderVars, startVars, warmCtx, warmVars, serveVars, phase,
                   closes, ctxDone, handled, waitErr>>

\* Mutant: a cancelled context is taken for a clean stop.
WaitReturn_ContextFirst(w) ==
    /\ wait[w] \in {"woken", "passed"}
    /\ ~(wait[w] = "woken" /\ serving # 0)
    /\ wait' = [wait EXCEPT ![w] = "returned"]
    /\ waitErr' = [waitErr EXCEPT ![w] = IF ctxDone THEN Nil ELSE err]
    /\ UNCHANGED <<loaderVars, startVars, warmCtx, warmVars, serveVars, phase,
                   closes, ctxDone, handled, orderly>>

\* A goroutine that was woken looks at the counter again, and sync.WaitGroup
\* panics if it was raised from zero meanwhile.
WaitReturn(w) ==
    /\ wait[w] \in {"woken", "passed"}
    /\ ~(wait[w] = "woken" /\ serving # 0)
    /\ wait' = [wait EXCEPT ![w] = "returned"]
    /\ waitErr' = [waitErr EXCEPT ![w] = err]
    /\ UNCHANGED <<loaderVars, startVars, warmCtx, warmVars, serveVars, phase,
                   closes, ctxDone, handled, orderly>>

WaitPanics(w) ==
    /\ wait[w] = "woken"
    /\ serving # 0
    /\ wait' = [wait EXCEPT ![w] = "panicked"]
    /\ UNCHANGED <<loaderVars, startVars, warmCtx, warmVars, serveVars, phase,
                   closes, ctxDone, handled, waitErr, orderly>>

-----------------------------------------------------------------------------
WarmStep(b) ==
    \/ WarmAssign(b)
    \/ WarmCheck(b)
    \/ WarmRecord(b)
    \/ WarmQuiet(b)
    \/ \E p \in Partition : WarmEOF(b, p)
    \/ WarmFatal(b)

ServeStep(b) ==
    \/ ServeCheck(b)
    \/ ServeRecord(b)
    \/ ServeQuiet(b)
    \/ ServeFatal(b)
    \/ BindingDied(b)
    \/ RunFatalHandler(b)
    \/ ServeStop(b)
    \/ ServeClose(b)
    \/ ServeExit(b)

StartStep(c) ==
    \/ NewConsumers(c)
    \/ WarmupWait(c)
    \/ CloseAll(c)
    \/ \E b \in Binding : Handover(c, b)
    \/ StartOK(c)

WaitStep(w) == WaitReturn(w) \/ WaitPanics(w)

\* Every call has returned and every goroutine is gone.
Terminated ==
    /\ \A c \in Starter : start[c] \in {"rejected"} \cup Returned
    /\ \A b \in Binding : serve[b] \in {"none", "exited"}
    /\ \A w \in Waiter : wait[w] \in {"returned", "panicked"}
    /\ UNCHANGED vars

Next ==
    \/ \E b \in Binding : Bind(b) \/ WarmStep(b) \/ ServeStep(b)
    \/ \E c \in Starter : Claim(c) \/ StartRejected(c) \/ StartStep(c)
    \/ \E w \in Waiter : WaitCall(w) \/ WaitStep(w)
    \/ CancelContext
    \/ WarmupDeadline
    \/ Terminated

Spec == Init /\ [][Next]_vars

(***************************************************************************)
(* Goroutines run, a poll returns within its timeout, Close returns, the   *)
(* fatal handler returns and an armed timer fires.  Nothing makes the      *)
(* application bind, start, cancel or wait, the broker report the end of a *)
(* partition, or a poll fail.                                              *)
(***************************************************************************)
FairSpec ==
    /\ Spec
    /\ \A b \in Binding : WF_vars(WarmStep(b)) /\ WF_vars(ServeStep(b))
    /\ \A c \in Starter : WF_vars(StartStep(c))
    /\ \A w \in Waiter : WF_vars(WaitStep(w))
    /\ WF_vars(WarmupDeadline)

-----------------------------------------------------------------------------
(***************************************************************************)
(* Safety.                                                                 *)
(***************************************************************************)

\* The two generations never overlap, a consumer is closed at most once, and
\* never while a goroutine may still be polling it (loader.go:34-47, 259-262,
\* 391-393).
ExclusiveConsumer ==
    /\ (\E b \in Binding : warm[b] \in Warming) =>
          \A b \in Binding : serve[b] = "none"
    /\ \A b \in Binding :
          /\ closes[b] <= 1
          /\ closes[b] > 0 => /\ warm[b] \notin Warming
                              /\ serve[b] \notin Looping \cup Leaving

\* A Start that returned an error has left no goroutine running, has closed
\* every consumer it built, and no other Start can succeed after it
\* (developer-doc.md:83-85).
FailedOwnsNothing ==
    (\E c \in Starter : start[c] = "failed") =>
        /\ \A b \in Binding : /\ warm[b] \notin Warming
                              /\ serve[b] = "none"
                              /\ b \in consumers => closes[b] = 1
        /\ \A c \in Starter : start[c] \notin InStart \cup {"ok"}

\* A Start that returned nil has read every partition of every binding the
\* service wired, and no topic is empty unless that was allowed
\* (loader.go:107-114, doc.go).
CompleteOrError ==
    (\E c \in Starter : start[c] = "ok") =>
        \A b \in regs : /\ remaining[b] = {}
                        /\ applied[b] > 0 \/ b \in AllowEmpty

\* However many bindings die together the handler runs once, and what it is
\* told is what Err reports (loader.go:429-432).
FatalReportedOnce ==
    /\ Len(handled) <= 1
    /\ Len(handled) = 1 => handled[1] = err

\* No binding leaves service, or shows itself stopped, unless the whole loader
\* is going down: there is no degraded state (developer-doc.md:78-81).
NoSilentDeath ==
    \A b \in Binding :
        (\/ phase[b] = "stopped"
         \/ serve[b] \in {"stopping", "closing", "exiting", "exited"}) => StopSignal

\* Once the stop signal is up a binding applies at most the one record its
\* poll already had in flight (loader.go:300-305, developer-doc.md:182).
FrozenAfterStop == \A b \in Binding : late[b] <= 1

\* Nothing polls, nothing can write a store and no handle is open.
NothingRuns ==
    \A b \in Binding : /\ warm[b] \notin Warming
                       /\ serve[b] \in {"none", "exited"}
                       /\ b \in consumers => closes[b] = 1

\* A WaitUntilStopped that began after Start returned establishes what its
\* comment promises and reports the reason Err keeps (loader.go:474-489).
WaitMeansStopped ==
    \A w \in Waiter : orderly[w] =>
        /\ wait[w] # "panicked"
        /\ wait[w] = "returned" => NothingRuns

WaitReportsReason ==
    \A w \in Waiter : (orderly[w] /\ wait[w] = "returned") => waitErr[w] = err

(***************************************************************************)
(* Liveness, under FairSpec.                                               *)
(***************************************************************************)

\* A Start that got to work returns, if it is bounded or its context is
\* cancelled, even when a partition never reports its end (detect.go:64-66).
StartBounded ==
    \A c \in Starter :
        (start[c] \in InStart /\ (WarmupTimeout \/ ctxDone))
            ~> (start[c] \in Returned)

\* Once the stop signal is up, an orderly WaitUntilStopped returns
\* (loader.go:484-486).
WaitReturns ==
    \A w \in Waiter :
        (orderly[w] /\ StopSignal) ~> (wait[w] = "returned")

(***************************************************************************)
(* What the documentation promises of every call.                          *)
(***************************************************************************)

\* "no polling goroutine is running, every librdkafka handle has been
\* released, and no store is being written any more" (loader.go:480-482), at
\* the moment any WaitUntilStopped returns.
WaitEstablishesStop ==
    [][\A w \in Waiter :
         (wait[w] # "returned" /\ wait'[w] = "returned") => NothingRuns]_vars

\* "PhaseSteady means the topic has been read whole and the binding is now
\* applying live changes" (observer.go:13-14).
SteadyMeansLive ==
    (\E c \in Starter : start[c] = "failed") =>
        \A b \in Binding : phase[b] # "steady"

=============================================================================
