---------------------------- MODULE ServiceProofs ----------------------------
(***************************************************************************)
(* Proofs about Service.  Its process takes only steps a loader may take   *)
(* with one caller of Start and of WaitUntilStopped, so all that is proved *)
(* of a loader holds of the loader in it (ImplementsLoader).  What is left *)
(* is the order in which main goes through its calls.                      *)
(***************************************************************************)
EXTENDS Service, LoaderProofs

ProcessOK ==
    /\ main \in {"wiring", "starting", "watching", "waiting", "leaving", "exited"}
    /\ status \in {0, 1}
    /\ listener \in {"listening", "cancelling", "gone"}

\* Where the loader is while main is at each of its calls.
AtCall ==
    /\ main = "wiring" => start[Main] = "idle"
    /\ main = "starting" => start[Main] \in Claiming
    /\ main \in {"watching", "waiting"} => start[Main] = "ok"
    /\ main \in {"wiring", "starting", "watching"} => wait[Main] = "idle"
    /\ main = "waiting" => orderly[Main] /\ ctxDone
    /\ main \in {"wiring", "starting", "watching", "waiting"} => status = 0

\* Nobody but the listener cancels the context of a loader that is well: the
\* fatal handler has an error to show for it, and main one to return.
WhoCancels ==
    ctxDone /\ err = Nil => listener = "gone" \/ (main = "exited" /\ status = 1)

\* Why main left: a Start that failed, or a loader that had stopped, with the
\* error that is kept from then on.
WhyLeft ==
    main \in {"leaving", "exited"} =>
        \/ start[Main] = "failed" /\ status = 1
        \/ /\ start[Main] = "ok" /\ orderly[Main] /\ wait[Main] = "returned"
           /\ ctxDone
           /\ status = IF err = Nil THEN 0 ELSE 1

ServiceInv == IInv /\ ProcessOK /\ AtCall /\ WhoCancels /\ WhyLeft

-----------------------------------------------------------------------------
(***************************************************************************)
(* A service implements a loader.                                          *)
(***************************************************************************)

LEMMA CancelIsLoader == Cancel => [Next]_vars
BY DEF Cancel, Next

LEMMA StepIsLoader == [ServiceNext]_serviceVars => [Next]_vars
<1> SUFFICES ASSUME [ServiceNext]_serviceVars PROVE [Next]_vars
  OBVIOUS
<1>1. Main \in Starter /\ Main \in Waiter
  BY ServiceAssumption
<1>2. CASE MainStep
  <2>1. ASSUME NEW b \in Binding, Wire(b) PROVE Next
    BY <2>1 DEF Wire, Next
  <2>2. CASE CallStart  BY <1>1, <2>2 DEF CallStart, Next
  <2>3. CASE RunStart  BY <1>1, <2>3 DEF RunStart, Next
  <2>4. CASE CallWait  BY <1>1, <2>4 DEF CallWait, Next
  <2>5. CASE RunWait  BY <1>1, <2>5 DEF RunWait, Next
  <2>6. CASE Leave  BY <2>6, CancelIsLoader DEF Leave
  <2> QED  BY <1>2, <2>1, <2>2, <2>3, <2>4, <2>5, <2>6 DEF MainStep
<1>3. CASE Signal  BY <1>3 DEF Signal
<1>4. CASE Listen  BY <1>4, CancelIsLoader DEF Listen
<1>5. ASSUME NEW b \in Binding, LoaderStep(b) PROVE Next
  <2>1. CASE WarmStep(b)  BY <2>1 DEF Next
  <2>2. CASE ServeStep(b)  BY <2>2 DEF Next
  <2>3. CASE Handle(b)  BY <2>3 DEF Handle, Next, ServeStep
  <2> QED  BY <1>5, <2>1, <2>2, <2>3 DEF LoaderStep
<1>6. CASE Exited  BY <1>6 DEF Exited, serviceVars
<1>7. CASE UNCHANGED serviceVars  BY <1>7 DEF serviceVars
<1> QED  BY <1>2, <1>3, <1>4, <1>5, <1>6, <1>7 DEF ServiceNext

\* What a process does with its loader is what a loader allows, so its every
\* safety property holds there (examples/quickstart/main.go:51-116).
THEOREM ImplementsLoader == ServiceSpec => Spec
<1>1. ServiceInit => Init  BY DEF ServiceInit
<1> QED  BY <1>1, StepIsLoader, PTL DEF ServiceSpec, Spec

\* The process goes through the documented life cycle as well.
THEOREM ServiceLifecycle == ServiceSpec => ImplementsLifecycle
BY ImplementsLoader, Refines, PTL

-----------------------------------------------------------------------------
(***************************************************************************)
(* What main can tell of the loader.                                       *)
(***************************************************************************)

\* A step of a binding touches neither the call of Start nor that of
\* WaitUntilStopped, except that it may wake the latter; it cancels nothing;
\* and an error comes only from a binding that dies.
LEMMA BindingFrame ==
    ASSUME TypeOK, NEW b \in Binding, WarmStep(b) \/ ServeStep(b)
    PROVE  /\ UNCHANGED <<start, orderly, waitErr, ctxDone>>
           /\ err' = err \/ (serve[b] = "dying" /\ err' # Nil)
           /\ \A w \in Waiter : wait'[w] = wait[w] \/ wait[w] = "queued"
<1> USE DEF loaderVars, startVars, warmVars, serveVars, appVars
<1>1. CASE WarmStep(b)
  <2>1. UNCHANGED <<start, orderly, waitErr, ctxDone, err, wait>>
    BY <1>1, ZenonT(60) DEF WarmStep, WarmAssign, WarmCheck, WarmRecord, WarmQuiet,
       WarmEOF, WarmFatal
  <2> QED  BY <2>1
<1>2. CASE ServeExit(b)
  BY <1>2 DEF ServeExit
<1>3. CASE BindingDied(b)
  BY <1>3, ConstantsAssumption DEF BindingDied, Serve
<1>4. CASE ServeStep(b) /\ ~ServeExit(b) /\ ~BindingDied(b)
  <2>1. UNCHANGED <<start, orderly, waitErr, ctxDone, err, wait>>
    BY <1>4, ZenonT(60) DEF ServeStep, ServeCheck, ServeRecord, ServeQuiet, ServeFatal,
       RunFatalHandler, ServeStop, ServeClose
  <2> QED  BY <2>1
<1> QED  BY <1>1, <1>2, <1>3, <1>4

\* A loader that has stopped has no binding left that could die.
LEMMA StoppedIsQuiet ==
    ASSUME IInv, NEW b \in Binding, orderly[Main], wait[Main] = "returned"
    PROVE  serve[b] \in {"none", "exited"}
BY ServiceAssumption DEF IInv, Waited, Running

LEMMA InitService == ServiceInit => ServiceInv
<1> SUFFICES ASSUME ServiceInit PROVE ServiceInv
  OBVIOUS
<1>1. IInv  BY InitIInv DEF ServiceInit
<1>2. Main \in Starter /\ Main \in Waiter  BY ServiceAssumption
<1> QED
  BY <1>1, <1>2 DEF ServiceInit, Init, ServiceInv, ProcessOK, AtCall, WhoCancels, WhyLeft

\* A context that is cancelled by somebody the invariant accounts for.
LEMMA CancelKeeps ==
    ASSUME Cancel
    PROVE  /\ UNCHANGED <<start, orderly, wait, waitErr, err>>
           /\ ctxDone' = TRUE
BY DEF Cancel, CancelContext, vars, loaderVars, startVars, appVars

LEMMA MainKeeps ==
    ASSUME ServiceInv, MainStep
    PROVE  ProcessOK' /\ AtCall' /\ WhoCancels' /\ WhyLeft'
<1> USE DEF ServiceInv, ProcessOK
<1>1. Main \in Starter /\ Main \in Waiter /\ TypeOK
  BY ServiceAssumption DEF IInv
<1>2. ASSUME NEW b \in Binding, Wire(b)
      PROVE  ProcessOK' /\ AtCall' /\ WhoCancels' /\ WhyLeft'
  <2>1. UNCHANGED <<processVars, start, orderly, wait, waitErr, err, ctxDone>>
    BY <1>2 DEF Wire, Bind, startVars, appVars
  <2> QED  BY <2>1 DEF processVars, AtCall, WhoCancels, WhyLeft
<1>3. CASE CallStart
  <2>1. /\ UNCHANGED <<status, signals, listener, orderly, wait, waitErr, err, ctxDone>>
        /\ main = "wiring" /\ main' = "starting" /\ start'[Main] = "building"
    BY <1>1, <1>3 DEF CallStart, Claim, appVars, TypeOK
  <2> QED
    BY <2>1 DEF AtCall, WhoCancels, WhyLeft, Claiming, InStart
<1>4. CASE RunStart
  <2>1. CASE StartStep(Main) /\ UNCHANGED processVars /\ main = "starting"
    <3>1. /\ UNCHANGED <<orderly, wait, waitErr, err, ctxDone>>
          /\ start'[Main] \in Claiming
      <4>1. UNCHANGED <<orderly, wait, waitErr, err, ctxDone>>
        BY <2>1, ZenonT(60) DEF StartStep, NewConsumers, WarmupWait, CloseAll, Handover,
           StartOK, appVars, loaderVars
      <4>2. start'[Main] \in {start[Main], "closing", "warming", "handover", "failed", "ok"}
        <5>1. CASE NewConsumers(Main)  BY <1>1, <5>1 DEF NewConsumers, TypeOK
        <5>2. CASE WarmupWait(Main)  BY <1>1, <5>2 DEF WarmupWait, TypeOK
        <5>3. CASE CloseAll(Main)  BY <1>1, <5>3 DEF CloseAll, TypeOK
        <5>4. CASE \E b \in Binding : Handover(Main, b)
          BY <5>4 DEF Handover, startVars
        <5>5. CASE StartOK(Main)  BY <1>1, <5>5 DEF StartOK, TypeOK
        <5> QED  BY <2>1, <5>1, <5>2, <5>3, <5>4, <5>5 DEF StartStep
      <4> QED  BY <2>1, <4>1, <4>2 DEF AtCall, Claiming, InStart, Returned
    <3> QED  BY <2>1, <3>1 DEF processVars, AtCall, WhoCancels, WhyLeft
  <2>2. CASE /\ main = "starting" /\ start[Main] = "ok" /\ main' = "watching"
             /\ UNCHANGED <<vars, status, signals, listener>>
    BY <2>2 DEF AtCall, WhoCancels, WhyLeft, vars, startVars, appVars, loaderVars
  <2>3. CASE /\ main = "starting" /\ start[Main] = "failed" /\ main' = "leaving"
             /\ status' = 1 /\ UNCHANGED <<vars, signals, listener>>
    BY <2>3 DEF AtCall, WhoCancels, WhyLeft, vars, startVars, appVars, loaderVars
  <2> QED  BY <1>4, <2>1, <2>2, <2>3 DEF RunStart
<1>5. CASE CallWait
  <2>1. /\ UNCHANGED <<status, signals, listener, start, err, ctxDone>> /\ ctxDone
        /\ main = "watching" /\ main' = "waiting"
        /\ orderly'[Main] = StartReturned
    BY <1>1, <1>5 DEF CallWait, WaitCall, loaderVars, startVars, TypeOK
  <2>2. StartReturned  BY <1>1, <2>1 DEF AtCall, StartReturned, Returned
  <2> QED  BY <2>1, <2>2 DEF AtCall, WhoCancels, WhyLeft
<1>6. CASE RunWait
  <2>1. CASE WaitStep(Main) /\ UNCHANGED processVars /\ main = "waiting"
    <3>1. UNCHANGED <<start, orderly, err, ctxDone>>
      BY <2>1 DEF WaitStep, WaitReturn, WaitPanics, loaderVars, startVars
    <3> QED  BY <2>1, <3>1 DEF processVars, AtCall, WhoCancels, WhyLeft
  <2>2. CASE /\ main = "waiting" /\ wait[Main] = "returned" /\ main' = "leaving"
             /\ status' = IF waitErr[Main] = Nil THEN 0 ELSE 1
             /\ UNCHANGED <<vars, signals, listener>>
    <3>1. orderly[Main] /\ start[Main] = "ok"  BY <2>2 DEF AtCall
    <3>2. waitErr[Main] = err  BY <1>1, <2>2, <3>1 DEF IInv, Waited
    <3>3. UNCHANGED <<start, orderly, wait, err, ctxDone>>
      BY <2>2 DEF vars, startVars, appVars, loaderVars
    <3>4. ctxDone  BY <2>2 DEF AtCall
    <3> QED  BY <2>2, <3>1, <3>2, <3>3, <3>4 DEF AtCall, WhoCancels, WhyLeft
  <2> QED  BY <1>6, <2>1, <2>2 DEF RunWait
<1>7. CASE Leave
  <2>1. /\ UNCHANGED <<start, orderly, wait, waitErr, err, status, signals, listener>>
        /\ ctxDone' = TRUE /\ main = "leaving" /\ main' = "exited"
    BY <1>7, CancelKeeps DEF Leave
  <2>2. status = 0 => ctxDone /\ err = Nil  BY <2>1 DEF WhyLeft
  <2>3. status = 0 => listener = "gone"  BY <2>1, <2>2 DEF WhoCancels
  <2> QED  BY <2>1, <2>3 DEF AtCall, WhoCancels, WhyLeft
<1> QED  BY <1>2, <1>3, <1>4, <1>5, <1>6, <1>7 DEF MainStep

LEMMA OthersKeep ==
    ASSUME ServiceInv, Signal \/ Listen \/ Exited \/ UNCHANGED serviceVars
    PROVE  ProcessOK' /\ AtCall' /\ WhoCancels' /\ WhyLeft'
<1> USE DEF ServiceInv, ProcessOK
<1>1. ASSUME UNCHANGED <<vars, main, status, listener>>
      PROVE  ProcessOK' /\ AtCall' /\ WhoCancels' /\ WhyLeft'
  BY <1>1 DEF AtCall, WhoCancels, WhyLeft, vars, startVars, appVars, loaderVars
<1>2. CASE Signal  BY <1>1, <1>2 DEF Signal
<1>3. CASE Exited \/ UNCHANGED serviceVars
  BY <1>1, <1>3 DEF Exited, serviceVars, processVars
<1>4. CASE Listen
  <2>1. main # "exited" /\ UNCHANGED <<main, status>>  BY <1>4 DEF Listen
  <2>2. CASE listener' = "cancelling" /\ listener = "listening" /\ UNCHANGED vars
    BY <2>1, <2>2 DEF AtCall, WhoCancels, WhyLeft, vars, startVars, appVars, loaderVars
  <2>3. CASE Cancel /\ listener' = "gone"
    <3>1. UNCHANGED <<start, orderly, wait, waitErr, err>> /\ ctxDone' = TRUE
      BY <2>3, CancelKeeps
    <3> QED  BY <2>1, <2>3, <3>1 DEF AtCall, WhoCancels, WhyLeft
  <2> QED  BY <1>4, <2>2, <2>3 DEF Listen
<1> QED  BY <1>2, <1>3, <1>4

LEMMA LoaderKeeps ==
    ASSUME ServiceInv, NEW b \in Binding, LoaderStep(b)
    PROVE  ProcessOK' /\ AtCall' /\ WhoCancels' /\ WhyLeft'
<1> USE DEF ServiceInv, ProcessOK
<1>1. Main \in Starter /\ Main \in Waiter /\ TypeOK
  BY ServiceAssumption DEF IInv
<1>2. main # "exited" /\ UNCHANGED <<main, status, signals, listener>>
  BY DEF LoaderStep, processVars
<1>3. CASE WarmStep(b) \/ ServeStep(b)
  <2>1. /\ UNCHANGED <<start, orderly, waitErr, ctxDone>>
        /\ err' = err \/ (serve[b] = "dying" /\ err' # Nil)
        /\ wait'[Main] = wait[Main] \/ wait[Main] = "queued"
    BY <1>1, <1>3, BindingFrame
  <2>2. AtCall'  BY <1>2, <2>1 DEF AtCall
  <2>3. WhoCancels'  BY <1>2, <2>1 DEF WhoCancels
  <2>4. WhyLeft'
    <3>1. CASE start[Main] = "failed"  BY <1>2, <2>1, <3>1 DEF WhyLeft
    <3>2. CASE main = "leaving" /\ orderly[Main] /\ wait[Main] = "returned"
      <4>1. err' = err  BY <2>1, <3>2, StoppedIsQuiet
      <4> QED  BY <1>2, <2>1, <3>2, <4>1 DEF WhyLeft
    <3>3. CASE main \notin {"leaving", "exited"}  BY <1>2, <3>3 DEF WhyLeft
    <3> QED  BY <1>2, <3>1, <3>2, <3>3 DEF WhyLeft
  <2> QED  BY <1>2, <2>2, <2>3, <2>4
<1>4. CASE Handle(b) /\ ~ServeStep(b)
  <2>1. serve[b] = "handler" /\ CancelContext
    BY <1>4 DEF Handle, ServeStep
  <2>2. /\ UNCHANGED <<start, orderly, wait, waitErr, err>> /\ ctxDone' = TRUE
    BY <2>1, CancelKeeps DEF Cancel
  <2>3. err # Nil
    <3>1. err = b  BY <2>1 DEF IInv, Signalled
    <3> QED  BY <3>1, ConstantsAssumption
  <2> QED  BY <1>2, <2>2, <2>3 DEF AtCall, WhoCancels, WhyLeft
<1> QED  BY <1>3, <1>4 DEF LoaderStep

\* Every reachable state of a process satisfies the invariant.
THEOREM ServiceInductive == ServiceSpec => []ServiceInv
<1>1. ASSUME ServiceInv, [ServiceNext]_serviceVars PROVE ServiceInv'
  <2>1. IInv'  BY <1>1, StepIsLoader, NextIInv DEF ServiceInv
  <2> QED
    BY <1>1, <2>1, MainKeeps, OthersKeep, LoaderKeeps DEF ServiceInv, ServiceNext
<1> QED  BY <1>1, InitService, PTL DEF ServiceSpec

\* When the process ends nothing of the loader is in the middle of anything,
\* whichever way it came to that (examples/quickstart/main.go:112-116).
THEOREM IdleAtExit == ServiceSpec => []ExitsIdle
<1>1. ASSUME ServiceInv, main = "exited" PROVE NothingRuns
  <2>1. Main \in Starter /\ Main \in Waiter  BY ServiceAssumption
  <2>2. CASE start[Main] = "failed"
    BY <1>1, <2>1, <2>2 DEF ServiceInv, IInv, Stage, NothingRuns, Warming
  <2>3. CASE start[Main] = "ok" /\ orderly[Main] /\ wait[Main] = "returned"
    <3>1. \A b \in Binding : serve[b] \in {"none", "exited"}
      BY <1>1, <2>3, StoppedIsQuiet DEF ServiceInv
    <3> QED
      BY <1>1, <2>1, <2>3, <3>1 DEF ServiceInv, IInv, Stage, NothingRuns, Warming
  <2> QED  BY <1>1, <2>2, <2>3 DEF ServiceInv, WhyLeft
<1>2. ServiceInv => ExitsIdle  BY <1>1 DEF ExitsIdle
<1> QED  BY <1>2, ServiceInductive, PTL

\* The status a process exits with says why: success only of a loader that was
\* asked to stop and had lost no binding (examples/quickstart/main.go:94-116).
THEOREM TellsWhy == ServiceSpec => []ExitTellsWhy
<1>1. ServiceInv => ExitTellsWhy
  BY DEF ServiceInv, ProcessOK, WhyLeft, WhoCancels, ExitTellsWhy
<1> QED  BY <1>1, ServiceInductive, PTL

-----------------------------------------------------------------------------
(***************************************************************************)
(* What GoesDown rests on: a reason to stop is never left with nobody to   *)
(* act on it.                                                              *)
(***************************************************************************)

\* Until the context is cancelled a binding that died has its fatal handler at
\* work, which is about to cancel it, a signal has its listener, and the
\* process is there (examples/quickstart/main.go:59-64).
SomebodyCancels ==
    ~ctxDone =>
        /\ err # Nil => \E b \in Binding : serve[b] = "handler"
        /\ listener # "gone"
        /\ main # "exited"

\* A step that may not be the handler's own leaves every handler at work.
LEMMA HandlersStay ==
    ASSUME TypeOK, NEW d \in Binding, serve[d] = "handler",
           [ServiceNext]_serviceVars
    PROVE  serve'[d] = "handler" \/ ctxDone
<1> USE DEF loaderVars, startVars, warmVars, serveVars, appVars
<1>1. ASSUME NEW b \in Binding, LoaderStep(b), ~ctxDone
      PROVE  serve'[d] = "handler"
  <2>1. CASE WarmStep(b)
    <3>1. serve' = serve
      BY <2>1, ZenonT(60) DEF WarmStep, WarmAssign, WarmCheck, WarmRecord, WarmQuiet,
         WarmEOF, WarmFatal
    <3> QED  BY <3>1
  <2>2. CASE serve[b] # "handler" /\ ServeStep(b)
    <3>1. \E from, to : Serve(b, from, to)
      BY <2>2, ZenonT(60) DEF ServeStep, ServeCheck, ServeRecord, ServeQuiet, ServeFatal,
         BindingDied, RunFatalHandler, ServeStop, ServeClose, ServeExit
    <3>2. d # b  BY <2>2
    <3> QED  BY <3>1, <3>2 DEF TypeOK, Serve
  <2>3. CASE Handle(b)
    BY <1>1, <2>3 DEF Handle, CancelContext
  <2> QED  BY <1>1, <2>1, <2>2, <2>3 DEF LoaderStep
<1>2. CASE MainStep \/ Signal \/ Listen \/ Exited \/ UNCHANGED serviceVars
  <2>1. CASE RunStart /\ StartStep(Main)
    <3>1. serve' = serve \/ \E b \in Binding : Handover(Main, b)
      BY <2>1, ZenonT(60) DEF StartStep, NewConsumers, WarmupWait, CloseAll, StartOK
    <3>2. ASSUME NEW b \in Binding, Handover(Main, b) PROVE serve'[d] = "handler"
      BY <3>2 DEF Handover, TypeOK
    <3> QED  BY <3>1, <3>2
  <2>2. CASE ~(RunStart /\ StartStep(Main))
    <3>1. Cancel => serve' = serve
      BY DEF Cancel, CancelContext, vars
    <3>2. MainStep => serve' = serve
      BY <2>2, <3>1, ZenonT(60) DEF MainStep, Wire, CallStart, RunStart, CallWait, RunWait,
         Leave, Bind, Claim, WaitCall, WaitStep, WaitReturn, WaitPanics, vars
    <3>3. Signal \/ Listen \/ Exited \/ UNCHANGED serviceVars => serve' = serve
      BY <3>1 DEF Signal, Listen, Exited, serviceVars, vars
    <3> QED  BY <1>2, <3>2, <3>3
  <2> QED  BY <2>1, <2>2
<1> QED  BY <1>1, <1>2 DEF ServiceNext

\* An error is new only when the step hands it to the fatal handler.
LEMMA ErrorIsHandled ==
    ASSUME TypeOK, [ServiceNext]_serviceVars, err = Nil, err' # Nil
    PROVE  \E b \in Binding : serve'[b] = "handler"
<1> USE DEF loaderVars, startVars, warmVars, serveVars, appVars
<1>1. ASSUME NEW b \in Binding, BindingDied(b)
      PROVE  serve'[b] = "handler"
  BY <1>1, ServiceAssumption DEF BindingDied, Serve, TypeOK
<1>2. ASSUME NEW b \in Binding, LoaderStep(b), ~BindingDied(b) PROVE err' = err
  BY <1>2, ZenonT(60) DEF LoaderStep, Handle, WarmStep, WarmAssign, WarmCheck, WarmRecord,
     WarmQuiet, WarmEOF, WarmFatal, ServeStep, ServeCheck, ServeRecord, ServeQuiet,
     ServeFatal, RunFatalHandler, ServeStop, ServeClose, ServeExit, CancelContext
<1>3. Cancel => err' = err  BY CancelKeeps
<1>4. MainStep => err' = err
  BY <1>3, ZenonT(60) DEF MainStep, Wire, CallStart, RunStart, CallWait, RunWait, Leave,
     Bind, Claim, StartStep, NewConsumers, WarmupWait, CloseAll, Handover, StartOK,
     WaitCall, WaitStep, WaitReturn, WaitPanics, vars
<1>5. Signal \/ Listen \/ Exited \/ UNCHANGED serviceVars => err' = err
  BY <1>3 DEF Signal, Listen, Exited, serviceVars, vars
<1> QED  BY <1>1, <1>2, <1>4, <1>5 DEF ServiceNext

\* Nothing lowers the flag of the context, and whoever leaves raises it.
LEMMA ContextStays ==
    ASSUME TypeOK, [ServiceNext]_serviceVars
    PROVE  /\ ctxDone => ctxDone'
           /\ listener' = "gone" => listener = "gone" \/ ctxDone'
           /\ main' = "exited" => main = "exited" \/ ctxDone'
<1> USE DEF loaderVars, startVars, warmVars, serveVars, appVars
<1>1. Cancel => ctxDone'  BY CancelKeeps
<1>2. CASE \E b \in Binding : LoaderStep(b)
  <2>1. PICK b \in Binding : LoaderStep(b)  BY <1>2
  <2>2. UNCHANGED <<main, listener>>  BY <2>1 DEF LoaderStep, processVars
  <2>3. WarmStep(b) \/ ServeStep(b) \/ CancelContext
    BY <2>1 DEF LoaderStep, Handle, ServeStep
  <2>4. ctxDone => ctxDone'
    BY <2>3, BindingFrame DEF CancelContext
  <2> QED  BY <2>2, <2>4
<1>3. CASE MainStep
  <2>1. ctxDone' = ctxDone \/ Leave
    BY <1>3, ZenonT(60) DEF MainStep, Wire, CallStart, RunStart, CallWait, RunWait,
       Bind, Claim, StartStep, NewConsumers, WarmupWait, CloseAll, Handover, StartOK,
       WaitCall, WaitStep, WaitReturn, WaitPanics, vars
  <2>2. listener' = listener
    BY <1>3, ZenonT(60) DEF MainStep, Wire, CallStart, RunStart, CallWait, RunWait, Leave,
       processVars
  <2>3. Leave \/ (main' = "exited" => main = "exited")
    BY <1>3 DEF MainStep, Wire, CallStart, RunStart, CallWait, RunWait, processVars
  <2>4. Leave => ctxDone'  BY <1>1 DEF Leave
  <2> QED  BY <2>1, <2>2, <2>3, <2>4
<1>4. CASE Signal \/ Listen \/ Exited \/ UNCHANGED serviceVars
  BY <1>1, <1>4 DEF Signal, Listen, Exited, serviceVars, processVars, vars
<1> QED  BY <1>2, <1>3, <1>4 DEF ServiceNext

\* Nobody's death and no signal goes unheard (examples/quickstart/main.go:59-64).
THEOREM NobodyOrphaned == ServiceSpec => []SomebodyCancels
<1>1. ServiceInit => SomebodyCancels
  BY DEF ServiceInit, Init, SomebodyCancels
<1>2. ASSUME ServiceInv, SomebodyCancels, [ServiceNext]_serviceVars
      PROVE  SomebodyCancels'
  <2>1. TypeOK  BY <1>2 DEF ServiceInv, IInv
  <2> SUFFICES ASSUME ~ctxDone'
               PROVE  /\ err' # Nil => \E b \in Binding : serve'[b] = "handler"
                      /\ listener' # "gone" /\ main' # "exited"
    BY DEF SomebodyCancels
  <2>2. ~ctxDone /\ listener' # "gone" /\ main' # "exited"
    BY <1>2, <2>1, ContextStays DEF SomebodyCancels
  <2>3. CASE err # Nil
    <3>1. PICK d \in Binding : serve[d] = "handler"
      BY <1>2, <2>2, <2>3 DEF SomebodyCancels
    <3>2. serve'[d] = "handler"  BY <1>2, <2>1, <2>2, <3>1, HandlersStay
    <3> QED  BY <2>2, <3>2
  <2>4. CASE err = Nil  BY <1>2, <2>1, <2>2, <2>4, ErrorIsHandled
  <2> QED  BY <2>3, <2>4
<1> QED  BY <1>1, <1>2, ServiceInductive, PTL DEF ServiceSpec

=============================================================================
