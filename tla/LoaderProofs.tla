---------------------------- MODULE LoaderProofs ----------------------------
(***************************************************************************)
(* Proofs about Loader, for every set of bindings, partitions and callers. *)
(***************************************************************************)
EXTENDS LoaderInv, FiniteSetTheorems, TLAPS

\* The initial states have the right types.
LEMMA InitTypeOK == Init => TypeOK
<1> SUFFICES ASSUME Init PROVE TypeOK
  OBVIOUS
<1>1. handled \in Seq(Binding)
  BY DEF Init
<1>2. start \in [Starter -> StartStates]
  BY DEF Init, StartStates
<1>3. warm \in [Binding -> WarmStates] /\ serve \in [Binding -> ServeStates]
  BY DEF Init, WarmStates, ServeStates
<1>4. /\ wait \in [Waiter -> WaitStates]
      /\ waitErr \in [Waiter -> Binding \cup {Nil}]
      /\ orderly \in [Waiter -> BOOLEAN]
  BY DEF Init, WaitStates
<1>5. remaining \in [Binding -> SUBSET Partition]
  BY DEF Init
<1>6. /\ applied \in [Binding -> Nat]
      /\ late \in [Binding -> Nat]
      /\ closes \in [Binding -> Nat]
  BY DEF Init
<1>7. /\ result \in [Binding -> WarmErrors \cup {"none", "nil"}]
      /\ phase \in [Binding -> {"warmup", "steady", "stopped"}]
  BY DEF Init
<1>8. /\ regs \subseteq Binding /\ claimed \subseteq Binding
      /\ consumers \subseteq Binding
      /\ err \in Binding \cup {Nil} /\ serving \in Int
  BY DEF Init
<1>9. started \in BOOLEAN /\ ctxDone \in BOOLEAN
  BY DEF Init
<1>10. warmCtx \in {"live", "canceled"} \cup (IF WarmupTimeout THEN {"deadline"} ELSE {})
  BY DEF Init
<1>11. QED
  BY <1>1, <1>2, <1>3, <1>4, <1>5, <1>6, <1>7, <1>8, <1>9, <1>10 DEF TypeOK

-----------------------------------------------------------------------------
(***************************************************************************)
(* Types: every action keeps TypeOK.                                       *)
(***************************************************************************)
LEMMA NextTypeOK == TypeOK /\ [Next]_vars => TypeOK'
<1> SUFFICES ASSUME TypeOK, [Next]_vars PROVE TypeOK'
  OBVIOUS
<1> USE DEF TypeOK, loaderVars, startVars, warmVars, serveVars, appVars
<1>1. ASSUME NEW b \in Binding, Bind(b) PROVE TypeOK'
  BY <1>1 DEF Bind
<1>2. ASSUME NEW c \in Starter, Claim(c) PROVE TypeOK'
  BY <1>2 DEF Claim, StartStates, InStart
<1>3. ASSUME NEW c \in Starter, StartRejected(c) PROVE TypeOK'
  BY <1>3 DEF StartRejected, StartStates
<1>4. ASSUME NEW c \in Starter, NewConsumers(c) PROVE TypeOK'
  <2>1. consumers' \subseteq Binding
    BY <1>4 DEF NewConsumers
  <2>2. start' \in [Starter -> StartStates]
    BY <1>4, ZenonT(60) DEF NewConsumers, StartStates, InStart
  <2>3. warm' \in [Binding -> WarmStates]
    BY <1>4 DEF NewConsumers, WarmStates
  <2>4. QED
    BY <1>4, <2>1, <2>2, <2>3 DEF NewConsumers
<1>5. CASE CancelContext
  BY <1>5 DEF CancelContext
<1>6. CASE WarmupDeadline
  BY <1>6 DEF WarmupDeadline
<1>7. ASSUME NEW b \in Binding, WarmAssign(b) PROVE TypeOK'
  <2>1. warmCtx # "live" => NameTimeout(warmCtx) \in WarmErrors
    BY DEF NameTimeout, WarmErrors
  <2>2. warm' \in [Binding -> WarmStates]
    BY <1>7 DEF WarmAssign, Begin, Finish, WarmStates
  <2>3. result' \in [Binding -> WarmErrors \cup {"none", "nil"}]
    BY <1>7, <2>1 DEF WarmAssign, Begin, Finish, WarmErrors
  <2>4. remaining' \in [Binding -> SUBSET Partition]
    BY <1>7 DEF WarmAssign, Begin
  <2>5. QED
    BY <1>7, <2>2, <2>3, <2>4 DEF WarmAssign, Begin
<1>8. ASSUME NEW b \in Binding, WarmCheck(b) PROVE TypeOK'
  <2>1. warmCtx # "live" => NameTimeout(warmCtx) \in WarmErrors
    BY DEF NameTimeout, WarmErrors
  <2>2. warm' \in [Binding -> WarmStates]
    BY <1>8 DEF WarmCheck, Finish, WarmStates
  <2>3. result' \in [Binding -> WarmErrors \cup {"none", "nil"}]
    BY <1>8, <2>1 DEF WarmCheck, Finish, WarmErrors
  <2>4. QED
    BY <1>8, <2>2, <2>3 DEF WarmCheck
<1>9. ASSUME NEW b \in Binding, WarmRecord(b) PROVE TypeOK'
  BY <1>9 DEF WarmRecord, NoteRecord, WarmStates
<1>10. ASSUME NEW b \in Binding, WarmQuiet(b) PROVE TypeOK'
  BY <1>10 DEF WarmQuiet, WarmStates
<1>11. ASSUME NEW b \in Binding, NEW p \in Partition, WarmEOF(b, p) PROVE TypeOK'
  <2>1. warm' \in [Binding -> WarmStates]
    <3>1. \/ warm' = [warm EXCEPT ![b] = "check"]
          \/ warm' = [warm EXCEPT ![b] = "done"]
      BY <1>11 DEF WarmEOF, Observe, Finish
    <3>2. QED
      BY <3>1 DEF WarmStates
  <2>2. result' \in [Binding -> WarmErrors \cup {"none", "nil"}]
    BY <1>11 DEF WarmEOF, Observe, Finish, WarmErrors
  <2>3. phase' \in [Binding -> {"warmup", "steady", "stopped"}]
    BY <1>11 DEF WarmEOF, Observe, Finish
  <2>4. remaining' \in [Binding -> SUBSET Partition]
    BY <1>11 DEF WarmEOF, Observe
  <2>5. QED
    BY <1>11, <2>1, <2>2, <2>3, <2>4 DEF WarmEOF, Observe
<1>12. ASSUME NEW b \in Binding, WarmFatal(b) PROVE TypeOK'
  BY <1>12 DEF WarmFatal, Finish, WarmStates, WarmErrors
<1>13. ASSUME NEW c \in Starter, WarmupWait(c) PROVE TypeOK'
  BY <1>13 DEF WarmupWait, StartStates, InStart
<1>14. ASSUME NEW c \in Starter, CloseAll(c) PROVE TypeOK'
  BY <1>14 DEF CloseAll, StartStates, Returned
<1>15. ASSUME NEW c \in Starter, NEW b \in Binding, Handover(c, b) PROVE TypeOK'
  BY <1>15 DEF Handover, ServeStates, Looping
<1>16. ASSUME NEW c \in Starter, StartOK(c) PROVE TypeOK'
  BY <1>16 DEF StartOK, StartStates, Returned
<1>17. ASSUME NEW b \in Binding, ServeCheck(b) PROVE TypeOK'
  BY <1>17 DEF ServeCheck, Serve, ServeStates, Looping, Leaving
<1>18. ASSUME NEW b \in Binding, ServeRecord(b) PROVE TypeOK'
  BY <1>18 DEF ServeRecord, NoteRecord, Serve, ServeStates, Looping, Leaving
<1>19. ASSUME NEW b \in Binding, ServeQuiet(b) PROVE TypeOK'
  BY <1>19 DEF ServeQuiet, Serve, ServeStates, Looping, Leaving
<1>20. ASSUME NEW b \in Binding, ServeFatal(b) PROVE TypeOK'
  BY <1>20 DEF ServeFatal, Serve, ServeStates, Looping, Leaving
<1>21. ASSUME NEW b \in Binding, BindingDied(b) PROVE TypeOK'
  BY <1>21 DEF BindingDied, Serve, ServeStates, Looping, Leaving
<1>22. ASSUME NEW b \in Binding, RunFatalHandler(b) PROVE TypeOK'
  BY <1>22 DEF RunFatalHandler, Serve, ServeStates, Looping, Leaving
<1>23. ASSUME NEW b \in Binding, ServeStop(b) PROVE TypeOK'
  BY <1>23 DEF ServeStop, Serve, ServeStates, Looping, Leaving
<1>24. ASSUME NEW b \in Binding, ServeClose(b) PROVE TypeOK'
  BY <1>24 DEF ServeClose, Serve, ServeStates, Looping, Leaving
<1>25. ASSUME NEW b \in Binding, ServeExit(b) PROVE TypeOK'
  BY <1>25 DEF ServeExit, Serve, ServeStates, WaitStates
<1>26. ASSUME NEW w \in Waiter, WaitCall(w) PROVE TypeOK'
  BY <1>26 DEF WaitCall, WaitStates, StartReturned
<1>27. ASSUME NEW w \in Waiter, WaitReturn(w) PROVE TypeOK'
  BY <1>27 DEF WaitReturn, WaitStates
<1>28. ASSUME NEW w \in Waiter, WaitPanics(w) PROVE TypeOK'
  BY <1>28 DEF WaitPanics, WaitStates
<1>29. CASE UNCHANGED vars
  BY <1>29 DEF vars
<1>30. QED
  BY <1>1, <1>2, <1>3, <1>4, <1>5, <1>6, <1>7, <1>8, <1>9, <1>10, <1>11, <1>12, <1>13,
     <1>14, <1>15, <1>16, <1>17, <1>18, <1>19, <1>20, <1>21, <1>22, <1>23, <1>24, <1>25,
     <1>26, <1>27, <1>28, <1>29 DEF Next, WarmStep, ServeStep, StartStep, WaitStep,
     Terminated

\* A Start that claims the loader is the only one ever to do so.
LEMMA NextOneClaim ==
  ASSUME TypeOK, OneClaim, [Next]_vars
  PROVE  OneClaim'
<1> USE DEF TypeOK, OneClaim, Claiming, InStart, Returned,
            loaderVars, startVars, warmVars, serveVars, appVars
<1>1. \/ UNCHANGED <<start, started, claimed, regs>>
      \/ \E b \in Binding : Bind(b)
      \/ \E c \in Starter : Claim(c)
      \/ \E c \in Starter : StartRejected(c)
      \/ \E c \in Starter : NewConsumers(c)
      \/ \E c \in Starter : WarmupWait(c)
      \/ \E c \in Starter : CloseAll(c)
      \/ \E c \in Starter : StartOK(c)
  BY DEF Next, WarmStep, ServeStep, StartStep, WaitStep, Terminated, vars,
     BindingDied, CancelContext, Finish, Handover, RunFatalHandler, Serve,
     ServeCheck, ServeClose, ServeExit, ServeFatal, ServeQuiet,
     ServeRecord, ServeStop, WaitCall, WaitPanics, WaitReturn, WarmAssign,
     WarmCheck, WarmEOF, WarmFatal, WarmQuiet, WarmRecord, WarmupDeadline
<1>2. CASE UNCHANGED <<start, started, claimed, regs>>
  BY <1>2
<1>3. ASSUME NEW b \in Binding, Bind(b)
      PROVE  OneClaim'
  BY <1>3 DEF Bind
<1>4. ASSUME NEW c \in Starter, Claim(c)
      PROVE  OneClaim'
  BY <1>4 DEF Claim
<1>5. ASSUME NEW c \in Starter, StartRejected(c)
      PROVE  OneClaim'
  BY <1>5 DEF StartRejected
<1>6. ASSUME NEW c \in Starter, NewConsumers(c)
      PROVE  OneClaim'
  <2>1. /\ start[c] = "building" /\ start'[c] \in {"closing", "warming"}
        /\ \A d \in Starter : d # c => start'[d] = start[d]
        /\ UNCHANGED <<started, claimed, regs>>
    BY <1>6 DEF NewConsumers
  <2>2. \A d \in Starter : start'[d] \in Claiming <=> start[d] \in Claiming
    BY <2>1
  <2> QED  BY <2>1, <2>2
<1>7. ASSUME NEW c \in Starter, WarmupWait(c)
      PROVE  OneClaim'
  BY <1>7 DEF WarmupWait
<1>8. ASSUME NEW c \in Starter, CloseAll(c)
      PROVE  OneClaim'
  BY <1>8 DEF CloseAll
<1>9. ASSUME NEW c \in Starter, StartOK(c)
      PROVE  OneClaim'
  BY <1>9 DEF StartOK
<1>10. QED
  BY <1>1, <1>2, <1>3, <1>4, <1>5, <1>6, <1>7, <1>8, <1>9

\* A nil outcome means a topic read whole.
LEMMA NextReadWhole ==
  ASSUME TypeOK, Stage, ReadWhole, [Next]_vars
  PROVE  ReadWhole'
<1> USE DEF TypeOK, ReadWhole,
            loaderVars, startVars, warmVars, serveVars, appVars
<1>1. \/ UNCHANGED <<warm, result, remaining, applied>>
      \/ \E c \in Starter : NewConsumers(c)
      \/ \E b \in Binding : WarmAssign(b)
      \/ \E b \in Binding : WarmCheck(b)
      \/ \E b \in Binding : WarmRecord(b)
      \/ \E b \in Binding : WarmQuiet(b)
      \/ \E b \in Binding : \E p \in Partition : WarmEOF(b, p)
      \/ \E b \in Binding : WarmFatal(b)
      \/ \E b \in Binding : ServeRecord(b)
  BY DEF Next, WarmStep, ServeStep, StartStep, WaitStep, Terminated, vars,
     Bind, BindingDied, CancelContext, Claim, CloseAll, Handover,
     RunFatalHandler, Serve, ServeCheck, ServeClose, ServeExit,
     ServeFatal, ServeQuiet, ServeStop, StartOK,
     StartRejected, WaitCall, WaitPanics, WaitReturn, WarmupDeadline,
     WarmupWait
<1>2. CASE UNCHANGED <<warm, result, remaining, applied>>
  BY <1>2
<1>3. ASSUME NEW c \in Starter, NewConsumers(c)
      PROVE  ReadWhole'
  <2>1. Untouched
    BY <1>3 DEF NewConsumers, Stage
  <2>2. \A b \in Binding : result[b] = "none" /\ warm'[b] # "done"
    BY <1>3, <2>1 DEF NewConsumers, Untouched
  <2>3. QED
    BY <1>3, <2>2 DEF NewConsumers
<1>4. ASSUME NEW b \in Binding, WarmAssign(b)
      PROVE  ReadWhole'
  BY <1>4 DEF WarmAssign, Begin, Finish, NameTimeout
<1>5. ASSUME NEW b \in Binding, WarmCheck(b)
      PROVE  ReadWhole'
  BY <1>5 DEF WarmCheck, Finish, NameTimeout
<1>6. ASSUME NEW b \in Binding, WarmRecord(b)
      PROVE  ReadWhole'
  BY <1>6 DEF WarmRecord, NoteRecord
<1>7. ASSUME NEW b \in Binding, WarmQuiet(b)
      PROVE  ReadWhole'
  BY <1>7 DEF WarmQuiet
<1>8. ASSUME NEW b \in Binding, NEW p \in Partition, WarmEOF(b, p)
      PROVE  ReadWhole'
  BY <1>8 DEF WarmEOF, Observe, Finish
<1>9. ASSUME NEW b \in Binding, WarmFatal(b)
      PROVE  ReadWhole'
  BY <1>9 DEF WarmFatal, Finish
<1>10. ASSUME NEW b \in Binding, ServeRecord(b)
      PROVE  ReadWhole'
  BY <1>10 DEF ServeRecord, NoteRecord
<1>11. QED
  BY <1>1, <1>2, <1>3, <1>4, <1>5, <1>6, <1>7, <1>8, <1>9, <1>10

\* Nobody blames a deadline that did not strike: warmCtx ends once, and keeps
\* what ended it.
LEMMA NextBlamesRightly ==
  ASSUME TypeOK, BlamesRightly, [Next]_vars
  PROVE  BlamesRightly'
<1> USE DEF TypeOK, BlamesRightly,
            loaderVars, startVars, warmVars, serveVars, appVars
<1>1. \/ UNCHANGED <<result, warmCtx>>
      \/ CancelContext \/ WarmupDeadline
      \/ \E b \in Binding : WarmAssign(b)
      \/ \E b \in Binding : WarmCheck(b)
      \/ \E b \in Binding : \E p \in Partition : WarmEOF(b, p)
      \/ \E b \in Binding : WarmFatal(b)
  BY DEF Next, WarmStep, ServeStep, StartStep, WaitStep, Terminated, vars,
     Bind, BindingDied, Claim, CloseAll, Handover, NewConsumers,
     RunFatalHandler, Serve, ServeCheck, ServeClose, ServeExit,
     ServeFatal, ServeQuiet, ServeRecord, ServeStop, StartOK,
     StartRejected, WaitCall, WaitPanics, WaitReturn, WarmRecord,
     WarmQuiet, WarmupWait
<1>2. CASE CancelContext
  BY <1>2 DEF CancelContext
<1>3. CASE WarmupDeadline
  BY <1>3 DEF WarmupDeadline
<1>4. /\ NameTimeout(warmCtx) = "timeout" => warmCtx = "deadline"
      /\ NameTimeout(warmCtx) = "canceled" => warmCtx = "canceled"
  BY DEF NameTimeout
<1>5. ASSUME NEW b \in Binding, WarmAssign(b)
      PROVE  BlamesRightly'
  BY <1>4, <1>5 DEF WarmAssign, Finish
<1>6. ASSUME NEW b \in Binding, WarmCheck(b)
      PROVE  BlamesRightly'
  BY <1>4, <1>6 DEF WarmCheck, Finish
<1>7. ASSUME NEW b \in Binding, NEW p \in Partition, WarmEOF(b, p)
      PROVE  BlamesRightly'
  BY <1>7 DEF WarmEOF, Finish
<1>8. ASSUME NEW b \in Binding, WarmFatal(b)
      PROVE  BlamesRightly'
  BY <1>8 DEF WarmFatal, Finish
<1>9. QED
  BY <1>1, <1>2, <1>3, <1>5, <1>6, <1>7, <1>8

\* The handler has been told what Err reports.
LEMMA NextReported ==
  ASSUME TypeOK, Reported, Signalled, [Next]_vars
  PROVE  Reported'
<1> USE DEF TypeOK, Reported,
            loaderVars, startVars, warmVars, serveVars, appVars
<1>1. \/ UNCHANGED <<err, handled>>
      \/ \E b \in Binding : BindingDied(b)
      \/ \E b \in Binding : RunFatalHandler(b)
  BY DEF Next, WarmStep, ServeStep, StartStep, WaitStep, Terminated, vars,
     Bind, CancelContext, Claim, CloseAll, Finish, Handover, NewConsumers,
     Serve, ServeCheck, ServeClose, ServeExit, ServeFatal, ServeQuiet,
     ServeRecord, ServeStop, StartOK, StartRejected, WaitCall, WaitPanics,
     WaitReturn, WarmAssign, WarmCheck, WarmEOF, WarmFatal, WarmQuiet,
     WarmRecord, WarmupDeadline, WarmupWait
<1>2. CASE UNCHANGED <<err, handled>>
  BY <1>2
<1>3. ASSUME NEW b \in Binding, BindingDied(b)
      PROVE  Reported'
  BY <1>3 DEF BindingDied, Serve
<1>4. ASSUME NEW b \in Binding, RunFatalHandler(b)
      PROVE  Reported'
  <2>1. err = b /\ handled = <<>>
    BY <1>4 DEF RunFatalHandler, Serve, Signalled
  <2>2. err' = b /\ handled' = <<b>>
    BY <1>4, <2>1 DEF RunFatalHandler, loaderVars
  <2>3. QED
    BY <2>2, ConstantsAssumption
<1>5. QED
  BY <1>1, <1>2, <1>3, <1>4

\* A binding that leaves service has a stop signal to show for it.
LEMMA NextSignalled ==
  ASSUME TypeOK, Reported, Signalled, [Next]_vars
  PROVE  Signalled'
<1> USE DEF TypeOK, Signalled, StopSignal,
            loaderVars, startVars, warmVars, serveVars, appVars
<1>1. \/ UNCHANGED <<err, handled, serve, phase, ctxDone>>
      \/ CancelContext
      \/ \E b \in Binding : \E p \in Partition : WarmEOF(b, p)
      \/ \E c \in Starter : \E b \in Binding : Handover(c, b)
      \/ \E b \in Binding : ServeCheck(b)
      \/ \E b \in Binding : ServeRecord(b)
      \/ \E b \in Binding : ServeQuiet(b)
      \/ \E b \in Binding : ServeFatal(b)
      \/ \E b \in Binding : BindingDied(b)
      \/ \E b \in Binding : RunFatalHandler(b)
      \/ \E b \in Binding : ServeStop(b)
      \/ \E b \in Binding : ServeClose(b)
      \/ \E b \in Binding : ServeExit(b)
  BY DEF Next, WarmStep, ServeStep, StartStep, WaitStep, Terminated, vars,
     Bind, Claim, CloseAll, Finish, NewConsumers, StartOK, StartRejected,
     WaitCall, WaitPanics, WaitReturn, WarmAssign, WarmCheck, WarmFatal,
     WarmQuiet, WarmRecord, WarmupDeadline, WarmupWait
<1>2. CASE UNCHANGED <<err, handled, serve, phase, ctxDone>>
  BY <1>2
<1>3. CASE CancelContext
  BY <1>3 DEF CancelContext
<1>4. ASSUME NEW b \in Binding, NEW p \in Partition, WarmEOF(b, p)
      PROVE  Signalled'
  BY <1>4 DEF WarmEOF, Observe, Finish
<1>5. ASSUME NEW c \in Starter, NEW b \in Binding, Handover(c, b)
      PROVE  Signalled'
  BY <1>5 DEF Handover
<1>6. ASSUME NEW b \in Binding, ServeCheck(b)
      PROVE  Signalled'
  BY <1>6 DEF ServeCheck, Serve
<1>7. ASSUME NEW b \in Binding, ServeRecord(b)
      PROVE  Signalled'
  BY <1>7 DEF ServeRecord, NoteRecord, Serve
<1>8. ASSUME NEW b \in Binding, ServeQuiet(b)
      PROVE  Signalled'
  BY <1>8 DEF ServeQuiet, Serve
<1>9. ASSUME NEW b \in Binding, ServeFatal(b)
      PROVE  Signalled'
  BY <1>9 DEF ServeFatal, Serve
<1>10. ASSUME NEW b \in Binding, BindingDied(b)
      PROVE  Signalled'
  <2>1. err' # Nil /\ UNCHANGED <<handled, phase>>
    BY <1>10, ConstantsAssumption DEF BindingDied
  <2>2. CASE err = Nil
    <3>1. handled = <<>> /\ \A d \in Binding : serve[d] # "handler"
      BY <2>2, ConstantsAssumption DEF Reported
    <3>2. QED
      BY <1>10, <2>1, <2>2, <3>1 DEF BindingDied, Serve
  <2>3. CASE err # Nil
    BY <1>10, <2>1, <2>3 DEF BindingDied, Serve
  <2>4. QED
    BY <2>2, <2>3
<1>11. ASSUME NEW b \in Binding, RunFatalHandler(b)
      PROVE  Signalled'
  <2>1. err = b /\ err # Nil
    BY <1>11, ConstantsAssumption DEF RunFatalHandler, Serve
  <2>2. \A d \in Binding : serve'[d] # "handler"
    BY <1>11, <2>1 DEF RunFatalHandler, Serve
  <2>3. QED
    BY <1>11, <2>1, <2>2 DEF RunFatalHandler, Serve, loaderVars
<1>12. ASSUME NEW b \in Binding, ServeStop(b)
      PROVE  Signalled'
  BY <1>12 DEF ServeStop, Serve
<1>13. ASSUME NEW b \in Binding, ServeClose(b)
      PROVE  Signalled'
  BY <1>13 DEF ServeClose, Serve
<1>14. ASSUME NEW b \in Binding, ServeExit(b)
      PROVE  Signalled'
  BY <1>14 DEF ServeExit, Serve
<1>15. QED
  BY <1>1, <1>2, <1>3, <1>4, <1>5, <1>6, <1>7, <1>8, <1>9, <1>10, <1>11, <1>12, <1>13, <1>14

\* A stopped binding applies at most one more record.
LEMMA NextLateOnce ==
  ASSUME TypeOK, LateOnce, [Next]_vars
  PROVE  LateOnce'
<1> USE DEF TypeOK, LateOnce, StopSignal,
            loaderVars, startVars, warmVars, serveVars, appVars
<1>1. \/ UNCHANGED <<err, late, serve, ctxDone>>
      \/ CancelContext
      \/ \E c \in Starter : \E b \in Binding : Handover(c, b)
      \/ \E b \in Binding : ServeCheck(b)
      \/ \E b \in Binding : ServeRecord(b)
      \/ \E b \in Binding : ServeQuiet(b)
      \/ \E b \in Binding : ServeFatal(b)
      \/ \E b \in Binding : BindingDied(b)
      \/ \E b \in Binding : RunFatalHandler(b)
      \/ \E b \in Binding : ServeStop(b)
      \/ \E b \in Binding : ServeClose(b)
      \/ \E b \in Binding : ServeExit(b)
  BY DEF Next, WarmStep, ServeStep, StartStep, WaitStep, Terminated, vars,
     Bind, Claim, CloseAll, Finish, NewConsumers, StartOK, StartRejected,
     WaitCall, WaitPanics, WaitReturn, WarmAssign, WarmCheck, WarmEOF,
     WarmFatal, WarmQuiet, WarmRecord, WarmupDeadline, WarmupWait
<1>2. CASE UNCHANGED <<err, late, serve, ctxDone>>
  BY <1>2
<1>3. CASE CancelContext
  BY <1>3 DEF CancelContext
<1>4. ASSUME NEW c \in Starter, NEW b \in Binding, Handover(c, b)
      PROVE  LateOnce'
  BY <1>4 DEF Handover
<1>5. ASSUME NEW b \in Binding, ServeCheck(b)
      PROVE  LateOnce'
  BY <1>5 DEF ServeCheck, Serve
<1>6. ASSUME NEW b \in Binding, ServeRecord(b)
      PROVE  LateOnce'
  BY <1>6 DEF ServeRecord, NoteRecord, Serve
<1>7. ASSUME NEW b \in Binding, ServeQuiet(b)
      PROVE  LateOnce'
  BY <1>7 DEF ServeQuiet, Serve
<1>8. ASSUME NEW b \in Binding, ServeFatal(b)
      PROVE  LateOnce'
  BY <1>8 DEF ServeFatal, Serve
<1>9. ASSUME NEW b \in Binding, BindingDied(b)
      PROVE  LateOnce'
  BY <1>9 DEF BindingDied, Serve
<1>10. ASSUME NEW b \in Binding, RunFatalHandler(b)
      PROVE  LateOnce'
  BY <1>10 DEF RunFatalHandler, Serve
<1>11. ASSUME NEW b \in Binding, ServeStop(b)
      PROVE  LateOnce'
  BY <1>11 DEF ServeStop, Serve
<1>12. ASSUME NEW b \in Binding, ServeClose(b)
      PROVE  LateOnce'
  BY <1>12 DEF ServeClose, Serve
<1>13. ASSUME NEW b \in Binding, ServeExit(b)
      PROVE  LateOnce'
  BY <1>13 DEF ServeExit, Serve
<1>14. QED
  BY <1>1, <1>2, <1>3, <1>4, <1>5, <1>6, <1>7, <1>8, <1>9, <1>10, <1>11, <1>12, <1>13

-----------------------------------------------------------------------------
\* A goroutine that still warms up belongs to a Start that waits for it.
LEMMA WarmingStage ==
  ASSUME TypeOK, OneClaim, Stage, NEW b \in Binding, warm[b] \in Warming
  PROVE  /\ started
         /\ b \in claimed
         /\ \A c \in Starter : start[c] \in Claiming => start[c] = "warming"
<1>1. started
  BY DEF Stage, Untouched, Warming
<1>2. ASSUME NEW c \in Starter, start[c] \in Claiming PROVE start[c] = "warming"
  BY <1>2 DEF Stage, Untouched, Warming, Claiming, InStart, Returned
<1>3. PICK c \in Starter : start[c] \in Claiming
  BY <1>1, SMTT(30) DEF OneClaim
<1>4. QED
  BY <1>1, <1>2, <1>3 DEF Stage, Warming

\* Each position of Start keeps what it has built.
LEMMA NextStage ==
  ASSUME TypeOK, OneClaim, Stage, ReadWhole, [Next]_vars
  PROVE  Stage'
<1> USE DEF TypeOK, Stage, Untouched, OneClaim, Claiming, InStart, Returned,
            loaderVars, startVars, warmVars, serveVars, appVars
<1>1. \/ UNCHANGED <<started, start, claimed, consumers, warm, serve, closes, result>>
      \/ \E b \in Binding : Bind(b)
      \/ \E c \in Starter : Claim(c)
      \/ \E c \in Starter : StartRejected(c)
      \/ \E c \in Starter : NewConsumers(c)
      \/ \E b \in Binding : WarmAssign(b)
      \/ \E b \in Binding : WarmCheck(b)
      \/ \E b \in Binding : WarmRecord(b)
      \/ \E b \in Binding : WarmQuiet(b)
      \/ \E b \in Binding : \E p \in Partition : WarmEOF(b, p)
      \/ \E b \in Binding : WarmFatal(b)
      \/ \E c \in Starter : WarmupWait(c)
      \/ \E c \in Starter : CloseAll(c)
      \/ \E c \in Starter : \E b \in Binding : Handover(c, b)
      \/ \E c \in Starter : StartOK(c)
      \/ \E b \in Binding : ServeCheck(b)
      \/ \E b \in Binding : ServeRecord(b)
      \/ \E b \in Binding : ServeQuiet(b)
      \/ \E b \in Binding : ServeFatal(b)
      \/ \E b \in Binding : BindingDied(b)
      \/ \E b \in Binding : RunFatalHandler(b)
      \/ \E b \in Binding : ServeStop(b)
      \/ \E b \in Binding : ServeClose(b)
      \/ \E b \in Binding : ServeExit(b)
  BY DEF Next, WarmStep, ServeStep, StartStep, WaitStep, Terminated, vars,
     CancelContext, WaitCall, WaitPanics, WaitReturn, WarmupDeadline
<1>2. CASE UNCHANGED <<started, start, claimed, consumers, warm, serve, closes, result>>
  BY <1>2
<1>3. ASSUME NEW b \in Binding, Bind(b)
      PROVE  Stage'
  BY <1>3 DEF Bind
<1>4. ASSUME NEW c \in Starter, Claim(c)
      PROVE  Stage'
  BY <1>4 DEF Claim
<1>5. ASSUME NEW c \in Starter, StartRejected(c)
      PROVE  Stage'
  BY <1>5 DEF StartRejected
<1>6. ASSUME NEW c \in Starter, NewConsumers(c)
      PROVE  Stage'
  <2>1. Untouched
    BY <1>6 DEF NewConsumers
  <2>2. /\ started' /\ UNCHANGED <<claimed, serve, closes, result>>
        /\ \A d \in Starter : d # c => start'[d] = start[d] /\ start[d] \notin Claiming
    BY <1>6 DEF NewConsumers, loaderVars, serveVars
  <2>3. \/ start'[c] = "closing" /\ UNCHANGED warm
        \/ /\ start'[c] = "warming" /\ consumers' = claimed
           /\ warm' = [d \in Binding |->
                         IF d \in claimed THEN "assign" ELSE warm[d]]
    BY <1>6 DEF NewConsumers
  <2>4. CASE start'[c] = "closing" /\ UNCHANGED warm
    <3>1. \A d \in Binding : warm'[d] = "none" /\ serve'[d] = "none" /\ closes'[d] = 0
      BY <2>1, <2>2, <2>4
    <3>2. \A d \in Starter : start'[d] \notin Claiming \/ start'[d] = "closing"
      BY <2>2, <2>4
    <3>3. QED
      BY <2>2, <3>1, <3>2
  <2>5. CASE /\ start'[c] = "warming" /\ consumers' = claimed
             /\ warm' = [d \in Binding |->
                           IF d \in claimed THEN "assign" ELSE warm[d]]
    <3>1. \A d \in Binding : /\ warm'[d] # "none" <=> d \in claimed'
                             /\ serve'[d] = "none" /\ closes'[d] = 0
      BY <2>1, <2>2, <2>5
    <3>2. \A d \in Starter : start'[d] \notin Claiming \/ start'[d] = "warming"
      BY <2>2, <2>5
    <3>3. consumers' = claimed'
      BY <2>2, <2>5
    <3>4. QED
      BY <2>2, <3>1, <3>2, <3>3
  <2>6. QED
    BY <2>3, <2>4, <2>5
<1>7. ASSUME NEW b \in Binding, WarmAssign(b)
      PROVE  Stage'
  BY <1>7 DEF WarmAssign, Begin, Finish
<1>8. ASSUME NEW b \in Binding, WarmCheck(b)
      PROVE  Stage'
  <2>1. warm[b] \in Warming
    BY <1>8 DEF WarmCheck, Warming
  <2>2. started /\ \A c \in Starter : start[c] \in Claiming => start[c] = "warming"
    BY <2>1, WarmingStage
  <2>3. \A d \in Binding : warm'[d] # "none" <=> warm[d] # "none"
    <3>1. \/ warm' = [warm EXCEPT ![b] = "poll"]
          \/ warm' = [warm EXCEPT ![b] = "done"]
      BY <1>8 DEF WarmCheck, Finish
    <3>2. QED
      BY <2>1, <3>1 DEF Warming
  <2>4. UNCHANGED <<started, start, claimed, consumers, serve, closes>>
    BY <1>8 DEF WarmCheck, loaderVars, startVars, serveVars
  <2>5. QED
    BY <2>2, <2>3, <2>4
<1>9. ASSUME NEW b \in Binding, WarmRecord(b)
      PROVE  Stage'
  BY <1>9 DEF WarmRecord, NoteRecord
<1>10. ASSUME NEW b \in Binding, WarmQuiet(b)
      PROVE  Stage'
  BY <1>10 DEF WarmQuiet
<1>11. ASSUME NEW b \in Binding, NEW p \in Partition, WarmEOF(b, p)
      PROVE  Stage'
  <2>1. warm[b] \in Warming
    BY <1>11 DEF WarmEOF, Observe, Warming
  <2>2. started /\ \A c \in Starter : start[c] \in Claiming => start[c] = "warming"
    BY <2>1, WarmingStage
  <2>3. \A d \in Binding : warm'[d] # "none" <=> warm[d] # "none"
    <3>1. \/ warm' = [warm EXCEPT ![b] = "check"]
          \/ warm' = [warm EXCEPT ![b] = "done"]
      BY <1>11 DEF WarmEOF, Observe, Finish
    <3>2. QED
      BY <2>1, <3>1 DEF Warming
  <2>4. UNCHANGED <<started, start, claimed, consumers, serve, closes>>
    BY <1>11 DEF WarmEOF, Observe, loaderVars, startVars, serveVars
  <2>5. QED
    BY <2>2, <2>3, <2>4
<1>12. ASSUME NEW b \in Binding, WarmFatal(b)
      PROVE  Stage'
  BY <1>12 DEF WarmFatal, Finish
<1>13. ASSUME NEW c \in Starter, WarmupWait(c)
      PROVE  Stage'
  BY <1>13 DEF WarmupWait
<1>14. ASSUME NEW c \in Starter, CloseAll(c)
      PROVE  Stage'
  BY <1>14 DEF CloseAll
<1>15. ASSUME NEW c \in Starter, NEW b \in Binding, Handover(c, b)
      PROVE  Stage'
  BY <1>15 DEF Handover
<1>16. ASSUME NEW c \in Starter, StartOK(c)
      PROVE  Stage'
  BY <1>16 DEF StartOK
<1>17. ASSUME NEW b \in Binding, ServeCheck(b)
      PROVE  Stage'
  BY <1>17 DEF ServeCheck, Serve
<1>18. ASSUME NEW b \in Binding, ServeRecord(b)
      PROVE  Stage'
  BY <1>18, SMTT(30) DEF ServeRecord, NoteRecord, Serve
<1>19. ASSUME NEW b \in Binding, ServeQuiet(b)
      PROVE  Stage'
  BY <1>19 DEF ServeQuiet, Serve
<1>20. ASSUME NEW b \in Binding, ServeFatal(b)
      PROVE  Stage'
  BY <1>20 DEF ServeFatal, Serve
<1>21. ASSUME NEW b \in Binding, BindingDied(b)
      PROVE  Stage'
  BY <1>21 DEF BindingDied, Serve
<1>22. ASSUME NEW b \in Binding, RunFatalHandler(b)
      PROVE  Stage'
  BY <1>22 DEF RunFatalHandler, Serve
<1>23. ASSUME NEW b \in Binding, ServeStop(b)
      PROVE  Stage'
  BY <1>23, SMTT(30) DEF ServeStop, Serve
<1>24. ASSUME NEW b \in Binding, ServeClose(b)
      PROVE  Stage'
  BY <1>24 DEF ServeClose, Serve
<1>25. ASSUME NEW b \in Binding, ServeExit(b)
      PROVE  Stage'
  BY <1>25 DEF ServeExit, Serve
<1>26. QED
  BY <1>1, <1>2, <1>3, <1>4, <1>5, <1>6, <1>7, <1>8, <1>9, <1>10, <1>11, <1>12, <1>13,
     <1>14, <1>15, <1>16, <1>17, <1>18, <1>19, <1>20, <1>21, <1>22, <1>23, <1>24, <1>25

\* Only finitely many goroutines run.
LEMMA RunningFinite == IsFiniteSet(Running)
BY ConstantsAssumption, FS_Subset DEF Running

\* The WaitGroup counts the running goroutines.
LEMMA NextCounted ==
  ASSUME TypeOK, Counted, [Next]_vars
  PROVE  Counted'
<1> USE DEF TypeOK, Counted, Running,
            loaderVars, startVars, warmVars, serveVars, appVars
<1>1. \/ UNCHANGED <<serving, serve>>
      \/ \E c \in Starter : \E b \in Binding : Handover(c, b)
      \/ \E b \in Binding : ServeCheck(b)
      \/ \E b \in Binding : ServeRecord(b)
      \/ \E b \in Binding : ServeQuiet(b)
      \/ \E b \in Binding : ServeFatal(b)
      \/ \E b \in Binding : BindingDied(b)
      \/ \E b \in Binding : RunFatalHandler(b)
      \/ \E b \in Binding : ServeStop(b)
      \/ \E b \in Binding : ServeClose(b)
      \/ \E b \in Binding : ServeExit(b)
  BY ZenonT(60) DEF Next, WarmStep, ServeStep, StartStep, WaitStep, Terminated, vars,
     Bind, CancelContext, Claim, CloseAll, Finish, NewConsumers, StartOK,
     StartRejected, WaitCall, WaitPanics, WaitReturn, WarmAssign,
     WarmCheck, WarmEOF, WarmFatal, WarmQuiet, WarmRecord, WarmupDeadline,
     WarmupWait
<1>2. CASE UNCHANGED <<serving, serve>>
  BY <1>2
<1>3. ASSUME NEW c \in Starter, NEW b \in Binding, Handover(c, b)
      PROVE  Counted'
  <2>1. b \notin Running /\ Running' = Running \cup {b}
    BY <1>3 DEF Handover
  <2>2. QED
    BY <1>3, <2>1, RunningFinite, FS_AddElement DEF Handover
<1>4. ASSUME NEW b \in Binding, ServeCheck(b)
      PROVE  Counted'
  BY <1>4 DEF ServeCheck, Serve
<1>5. ASSUME NEW b \in Binding, ServeRecord(b)
      PROVE  Counted'
  BY <1>5 DEF ServeRecord, NoteRecord, Serve
<1>6. ASSUME NEW b \in Binding, ServeQuiet(b)
      PROVE  Counted'
  BY <1>6 DEF ServeQuiet, Serve
<1>7. ASSUME NEW b \in Binding, ServeFatal(b)
      PROVE  Counted'
  BY <1>7 DEF ServeFatal, Serve
<1>8. ASSUME NEW b \in Binding, BindingDied(b)
      PROVE  Counted'
  BY <1>8 DEF BindingDied, Serve
<1>9. ASSUME NEW b \in Binding, RunFatalHandler(b)
      PROVE  Counted'
  BY <1>9 DEF RunFatalHandler, Serve
<1>10. ASSUME NEW b \in Binding, ServeStop(b)
      PROVE  Counted'
  BY <1>10 DEF ServeStop, Serve
<1>11. ASSUME NEW b \in Binding, ServeClose(b)
      PROVE  Counted'
  BY <1>11 DEF ServeClose, Serve
<1>12. ASSUME NEW b \in Binding, ServeExit(b)
      PROVE  Counted'
  <2>1. b \in Running /\ Running' = Running \ {b}
    BY <1>12 DEF ServeExit, Serve
  <2>2. Cardinality(Running \ {b}) = Cardinality(Running) - 1
    BY <2>1, RunningFinite, FS_RemoveElement, ZenonT(60)
  <2>3. serving' = serving - 1
    BY <1>12 DEF ServeExit
  <2>4. QED
    BY <2>1, <2>2, <2>3
<1>13. QED
  BY <1>1, <1>2, <1>3, <1>4, <1>5, <1>6, <1>7, <1>8, <1>9, <1>10, <1>11, <1>12

\* Counting to zero: the WaitGroup is at zero only when nothing runs.
LEMMA NothingCounted == TypeOK /\ Counted => (serving = 0 <=> Running = {})
BY RunningFinite, FS_EmptySet, FS_CardinalityType DEF Counted

\* An orderly wait that was let through found everything stopped.
LEMMA NextWaited ==
  ASSUME TypeOK, OneClaim, Stage, Counted, Waited, [Next]_vars
  PROVE  Waited'
<1> USE DEF TypeOK, Waited,
            loaderVars, startVars, warmVars, serveVars, appVars
<1>1. \/ UNCHANGED <<wait, waitErr, orderly, start, serve, err>>
      \/ \E c \in Starter : Claim(c)
      \/ \E c \in Starter : StartRejected(c)
      \/ \E c \in Starter : NewConsumers(c)
      \/ \E c \in Starter : WarmupWait(c)
      \/ \E c \in Starter : CloseAll(c)
      \/ \E c \in Starter : StartOK(c)
      \/ \E c \in Starter : \E b \in Binding : Handover(c, b)
      \/ \E b \in Binding : ServeCheck(b)
      \/ \E b \in Binding : ServeRecord(b)
      \/ \E b \in Binding : ServeQuiet(b)
      \/ \E b \in Binding : ServeFatal(b)
      \/ \E b \in Binding : BindingDied(b)
      \/ \E b \in Binding : RunFatalHandler(b)
      \/ \E b \in Binding : ServeStop(b)
      \/ \E b \in Binding : ServeClose(b)
      \/ \E b \in Binding : ServeExit(b)
      \/ \E w \in Waiter : WaitCall(w)
      \/ \E w \in Waiter : WaitReturn(w)
      \/ \E w \in Waiter : WaitPanics(w)
  BY DEF Next, WarmStep, ServeStep, StartStep, WaitStep, Terminated, vars,
     Bind, CancelContext, Finish, WarmAssign, WarmCheck, WarmEOF,
     WarmFatal, WarmQuiet, WarmRecord, WarmupDeadline
<1>2. CASE UNCHANGED <<wait, waitErr, orderly, start, serve, err>>
  BY <1>2 DEF StartReturned, Running
<1>3. ASSUME NEW c \in Starter, Claim(c)
      PROVE  Waited'
  <2>1. StartReturned => StartReturned'
    BY <1>3 DEF Claim, StartReturned, Returned
  <2>2. UNCHANGED <<wait, waitErr, orderly, serve, err>>
    BY <1>3 DEF Claim, loaderVars, serveVars, appVars
  <2>3. QED
    BY <2>1, <2>2 DEF Running
<1>4. ASSUME NEW c \in Starter, StartRejected(c)
      PROVE  Waited'
  <2>1. StartReturned => StartReturned'
    BY <1>4 DEF StartRejected, StartReturned, Returned
  <2>2. UNCHANGED <<wait, waitErr, orderly, serve, err>>
    BY <1>4 DEF StartRejected, loaderVars, serveVars, appVars
  <2>3. QED
    BY <2>1, <2>2 DEF Running
<1>5. ASSUME NEW c \in Starter, NewConsumers(c)
      PROVE  Waited'
  <2>1. StartReturned => StartReturned'
    BY <1>5 DEF NewConsumers, StartReturned, Returned
  <2>2. UNCHANGED <<wait, waitErr, orderly, serve, err>>
    BY <1>5 DEF NewConsumers, loaderVars, serveVars, appVars
  <2>3. QED
    BY <2>1, <2>2 DEF Running
<1>6. ASSUME NEW c \in Starter, WarmupWait(c)
      PROVE  Waited'
  <2>1. StartReturned => StartReturned'
    BY <1>6 DEF WarmupWait, StartReturned, Returned
  <2>2. UNCHANGED <<wait, waitErr, orderly, serve, err>>
    BY <1>6 DEF WarmupWait, loaderVars, serveVars, appVars
  <2>3. QED
    BY <2>1, <2>2 DEF Running
<1>7. ASSUME NEW c \in Starter, CloseAll(c)
      PROVE  Waited'
  <2>1. StartReturned => StartReturned'
    BY <1>7 DEF CloseAll, StartReturned, Returned
  <2>2. UNCHANGED <<wait, waitErr, orderly, serve, err>>
    BY <1>7 DEF CloseAll, loaderVars, serveVars, appVars
  <2>3. QED
    BY <2>1, <2>2 DEF Running
<1>8. ASSUME NEW c \in Starter, StartOK(c)
      PROVE  Waited'
  <2>1. StartReturned => StartReturned'
    BY <1>8 DEF StartOK, StartReturned, Returned
  <2>2. UNCHANGED <<wait, waitErr, orderly, serve, err>>
    BY <1>8 DEF StartOK, loaderVars, serveVars, appVars
  <2>3. QED
    BY <2>1, <2>2 DEF Running
<1>9. ASSUME NEW c \in Starter, NEW b \in Binding, Handover(c, b)
      PROVE  Waited'
  <2>1. ~StartReturned
    BY <1>9 DEF Handover, OneClaim, StartReturned, Claiming, InStart, Returned
  <2>2. UNCHANGED <<wait, waitErr, orderly, start>>
    BY <1>9 DEF Handover, startVars, appVars
  <2>3. QED
    BY <2>1, <2>2
<1>10. ASSUME NEW b \in Binding, ServeCheck(b)
      PROVE  Waited'
  <2>1. b \in Running
    BY <1>10 DEF ServeCheck, Serve, Running
  <2>2. UNCHANGED <<wait, waitErr, orderly, start>>
    BY <1>10 DEF ServeCheck, startVars, appVars
  <2>3. StartReturned' = StartReturned
    BY <2>2 DEF StartReturned
  <2>4. QED
    BY <2>1, <2>2, <2>3
<1>11. ASSUME NEW b \in Binding, ServeRecord(b)
      PROVE  Waited'
  <2>1. b \in Running
    BY <1>11 DEF ServeRecord, NoteRecord, Serve, Running
  <2>2. UNCHANGED <<wait, waitErr, orderly, start>>
    BY <1>11 DEF ServeRecord, NoteRecord, startVars, appVars
  <2>3. StartReturned' = StartReturned
    BY <2>2 DEF StartReturned
  <2>4. QED
    BY <2>1, <2>2, <2>3
<1>12. ASSUME NEW b \in Binding, ServeQuiet(b)
      PROVE  Waited'
  <2>1. b \in Running
    BY <1>12 DEF ServeQuiet, Serve, Running
  <2>2. UNCHANGED <<wait, waitErr, orderly, start>>
    BY <1>12 DEF ServeQuiet, startVars, appVars
  <2>3. StartReturned' = StartReturned
    BY <2>2 DEF StartReturned
  <2>4. QED
    BY <2>1, <2>2, <2>3
<1>13. ASSUME NEW b \in Binding, ServeFatal(b)
      PROVE  Waited'
  <2>1. b \in Running
    BY <1>13 DEF ServeFatal, Serve, Running
  <2>2. UNCHANGED <<wait, waitErr, orderly, start>>
    BY <1>13 DEF ServeFatal, startVars, appVars
  <2>3. StartReturned' = StartReturned
    BY <2>2 DEF StartReturned
  <2>4. QED
    BY <2>1, <2>2, <2>3
<1>14. ASSUME NEW b \in Binding, BindingDied(b)
      PROVE  Waited'
  <2>1. b \in Running
    BY <1>14 DEF BindingDied, Serve, Running
  <2>2. UNCHANGED <<wait, waitErr, orderly, start>>
    BY <1>14 DEF BindingDied, startVars, appVars
  <2>3. StartReturned' = StartReturned
    BY <2>2 DEF StartReturned
  <2>4. QED
    BY <2>1, <2>2, <2>3
<1>15. ASSUME NEW b \in Binding, RunFatalHandler(b)
      PROVE  Waited'
  <2>1. b \in Running
    BY <1>15 DEF RunFatalHandler, Serve, Running
  <2>2. UNCHANGED <<wait, waitErr, orderly, start>>
    BY <1>15 DEF RunFatalHandler, startVars, appVars
  <2>3. StartReturned' = StartReturned
    BY <2>2 DEF StartReturned
  <2>4. QED
    BY <2>1, <2>2, <2>3
<1>16. ASSUME NEW b \in Binding, ServeStop(b)
      PROVE  Waited'
  <2>1. b \in Running
    BY <1>16 DEF ServeStop, Serve, Running
  <2>2. UNCHANGED <<wait, waitErr, orderly, start>>
    BY <1>16 DEF ServeStop, startVars, appVars
  <2>3. StartReturned' = StartReturned
    BY <2>2 DEF StartReturned
  <2>4. QED
    BY <2>1, <2>2, <2>3
<1>17. ASSUME NEW b \in Binding, ServeClose(b)
      PROVE  Waited'
  <2>1. b \in Running
    BY <1>17 DEF ServeClose, Serve, Running
  <2>2. UNCHANGED <<wait, waitErr, orderly, start>>
    BY <1>17 DEF ServeClose, startVars, appVars
  <2>3. StartReturned' = StartReturned
    BY <2>2 DEF StartReturned
  <2>4. QED
    BY <2>1, <2>2, <2>3
<1>18. ASSUME NEW b \in Binding, ServeExit(b)
      PROVE  Waited'
  <2>1. b \in Running /\ Running' = Running \ {b}
    BY <1>18 DEF ServeExit, Serve, Running
  <2>2. serving = 1 => Running' = {}
    <3>1. Cardinality(Running \ {b}) = Cardinality(Running) - 1
      BY <2>1, RunningFinite, FS_RemoveElement
    <3>2. serving = 1 => Cardinality(Running \ {b}) = 0
      BY <3>1 DEF Counted
    <3>3. IsFiniteSet(Running \ {b})
      BY RunningFinite, FS_RemoveElement
    <3>4. QED
      BY <2>1, <3>2, <3>3, FS_EmptySet
  <2>3. /\ UNCHANGED <<start, err, waitErr, orderly>>
        /\ \A w \in Waiter :
             \/ wait'[w] = wait[w]
             \/ wait[w] = "queued" /\ serving = 1 /\ wait'[w] = "woken"
    BY <1>18 DEF ServeExit, startVars
  <2>4. StartReturned' = StartReturned
    BY <2>3 DEF StartReturned
  <2>5. QED
    BY <2>1, <2>2, <2>3, <2>4
<1>19. ASSUME NEW w \in Waiter, WaitCall(w)
      PROVE  Waited'
  <2>1. StartReturned' = StartReturned /\ Running' = Running /\ err' = err
    BY <1>19 DEF WaitCall, StartReturned, Running, startVars, serveVars, loaderVars
  <2>2. serving = 0 <=> Running = {}
    BY NothingCounted
  <2>3. QED
    BY <1>19, <2>1, <2>2 DEF WaitCall
<1>20. ASSUME NEW w \in Waiter, WaitReturn(w)
      PROVE  Waited'
  <2>1. StartReturned' = StartReturned /\ Running' = Running /\ err' = err
    BY <1>20 DEF WaitReturn, StartReturned, Running, startVars, serveVars, loaderVars
  <2>2. serving = 0 <=> Running = {}
    BY NothingCounted
  <2>3. QED
    BY <1>20, <2>1, <2>2 DEF WaitReturn
<1>21. ASSUME NEW w \in Waiter, WaitPanics(w)
      PROVE  Waited'
  <2>1. StartReturned' = StartReturned /\ Running' = Running /\ err' = err
    BY <1>21 DEF WaitPanics, StartReturned, Running, startVars, serveVars, loaderVars
  <2>2. serving = 0 <=> Running = {}
    BY NothingCounted
  <2>3. QED
    BY <1>21, <2>1, <2>2 DEF WaitPanics
<1>22. QED
  BY <1>1, <1>2, <1>3, <1>4, <1>5, <1>6, <1>7, <1>8, <1>9, <1>10, <1>11, <1>12, <1>13,
     <1>14, <1>15, <1>16, <1>17, <1>18, <1>19, <1>20, <1>21

-----------------------------------------------------------------------------
(***************************************************************************)
(* The inductive invariant, and what follows from it.                      *)
(***************************************************************************)

LEMMA InitIInv == Init => IInv
<1> SUFFICES ASSUME Init PROVE IInv
  OBVIOUS
<1>1. TypeOK
  BY InitTypeOK
<1>2. OneClaim
  BY DEF Init, OneClaim, Claiming, InStart, Returned
<1>3. Stage
  BY DEF Init, Stage, Untouched
<1>4. ReadWhole /\ BlamesRightly /\ Signalled /\ Reported
  BY DEF Init, ReadWhole, BlamesRightly, Signalled, Reported
<1>5. Counted
  <2>1. Running = {}
    BY DEF Init, Running
  <2>2. QED
    BY <2>1, FS_EmptySet DEF Init, Counted
<1>6. LateOnce
  BY DEF Init, LateOnce
<1>7. Waited
  BY DEF Init, Waited
<1>8. QED
  BY <1>1, <1>2, <1>3, <1>4, <1>5, <1>6, <1>7 DEF IInv

LEMMA NextIInv == IInv /\ [Next]_vars => IInv'
BY NextTypeOK, NextOneClaim, NextStage, NextReadWhole, NextBlamesRightly,
   NextCounted, NextSignalled, NextReported, NextLateOnce, NextWaited DEF IInv

\* Every reachable state satisfies the inductive invariant.
THEOREM Inductive == Spec => []IInv
<1>1. Init => IInv
  BY InitIInv
<1>2. IInv /\ [Next]_vars => IInv'
  BY NextIInv
<1>3. QED
  BY <1>1, <1>2, PTL DEF Spec

\* Every variable keeps its type: in particular a deadline is only ever
\* reported under the name ErrWarmupTimeout.
THEOREM TypeCorrect == Spec => []TypeOK
<1>1. IInv => TypeOK
  BY DEF IInv
<1>2. QED
  BY <1>1, Inductive, PTL

\* The generations never overlap and no consumer is closed twice or in use.
THEOREM Exclusive == Spec => []ExclusiveConsumer
<1>1. IInv => ExclusiveConsumer
  <2> SUFFICES ASSUME IInv PROVE ExclusiveConsumer
    OBVIOUS
  <2> USE DEF IInv
  <2>1. ASSUME NEW b \in Binding, warm[b] \in Warming
        PROVE  \A d \in Binding : serve[d] = "none" /\ closes[d] = 0
    <3>1. PICK c \in Starter : start[c] = "warming"
      BY <2>1, WarmingStage DEF OneClaim
    <3>2. QED
      BY <3>1 DEF Stage
  <2>2. ASSUME NEW b \in Binding
        PROVE  /\ closes[b] <= 1
               /\ closes[b] > 0 => serve[b] \notin Looping \cup Leaving
    <3>1. CASE ~started
      BY <3>1 DEF Stage, Untouched
    <3>2. CASE started
      BY <3>2 DEF OneClaim, Stage, Untouched, Claiming, InStart, Returned,
                  Looping, Leaving
    <3>3. QED
      BY <3>1, <3>2
  <2>3. QED
    BY <2>1, <2>2 DEF ExclusiveConsumer, TypeOK
<1>2. QED
  BY <1>1, Inductive, PTL

\* A failed Start leaves nothing running and nothing open.
THEOREM FailedClean == Spec => []FailedOwnsNothing
<1>1. IInv => FailedOwnsNothing
  BY DEF IInv, FailedOwnsNothing, Stage, OneClaim, Claiming, InStart, Returned,
         Warming
<1>2. QED
  BY <1>1, Inductive, PTL

\* Start returns nil only for complete configuration.
THEOREM Complete == Spec => []CompleteOrError
<1>1. IInv => CompleteOrError
  BY DEF IInv, CompleteOrError, Stage, OneClaim, ReadWhole, Claiming, InStart,
         Returned, TypeOK
<1>2. QED
  BY <1>1, Inductive, PTL

\* The fatal handler hears once of the error that Err keeps.
THEOREM HandlerOnce == Spec => []FatalReportedOnce
<1>1. IInv => FatalReportedOnce
  <2>1. ASSUME handled = <<>> PROVE FatalReportedOnce
    BY <2>1 DEF FatalReportedOnce
  <2>2. ASSUME handled = <<err>> PROVE FatalReportedOnce
    BY <2>2 DEF FatalReportedOnce
  <2>3. QED
    BY <2>1, <2>2 DEF IInv, Reported
<1>2. QED
  BY <1>1, Inductive, PTL

\* No binding goes out of service by itself.
THEOREM NoDegradedState == Spec => []NoSilentDeath
<1>1. IInv => NoSilentDeath
  BY DEF IInv, NoSilentDeath, Signalled
<1>2. QED
  BY <1>1, Inductive, PTL

\* A stopping binding applies at most the record that was in flight.
THEOREM Frozen == Spec => []FrozenAfterStop
<1>1. IInv => FrozenAfterStop
  BY DEF IInv, FrozenAfterStop, LateOnce
<1>2. QED
  BY <1>1, Inductive, PTL

\* A WaitUntilStopped called after Start returned establishes a clean stop...
THEOREM CleanStop == Spec => []WaitMeansStopped
<1>1. IInv => WaitMeansStopped
  <2> SUFFICES ASSUME IInv, NEW w \in Waiter, orderly[w]
               PROVE  /\ wait[w] # "panicked"
                      /\ wait[w] = "returned" => NothingRuns
    BY DEF WaitMeansStopped
  <2> USE DEF IInv
  <2>1. wait[w] # "panicked"
    BY DEF Waited
  <2>2. ASSUME wait[w] = "returned" PROVE NothingRuns
    <3>1. StartReturned /\ \A b \in Binding : serve[b] \in {"none", "exited"}
      BY <2>2 DEF Waited, Running
    <3>2. PICK c \in Starter : start[c] \in Returned
      BY <3>1 DEF StartReturned
    <3>3. CASE start[c] = "failed"
      BY <3>1, <3>3 DEF NothingRuns, Stage, Warming
    <3>4. CASE start[c] = "ok"
      BY <3>1, <3>4 DEF NothingRuns, Stage, Warming
    <3>5. QED
      BY <3>2, <3>3, <3>4 DEF Returned
  <2>3. QED
    BY <2>1, <2>2
<1>2. QED
  BY <1>1, Inductive, PTL

\* ... and returns what Err reports from then on.
THEOREM ReasonReported == Spec => []WaitReportsReason
<1>1. IInv => WaitReportsReason
  BY DEF IInv, WaitReportsReason, Waited
<1>2. QED
  BY <1>1, Inductive, PTL

-----------------------------------------------------------------------------
(***************************************************************************)
(* Loader implements Lifecycle: the initial states correspond, and every   *)
(* step is a step of the documented life cycle or is invisible in it.      *)
(***************************************************************************)

barVars == <<stateBar, regs, loadedBar, liveBar, ctxDone, err, answeredBar>>

\* The mapping sees nothing but these variables.
LEMMA BarFrame ==
  ASSUME UNCHANGED <<regs, started, err, start, claimed, ctxDone, wait, waitErr, orderly>>,
         loadedBar' = loadedBar, liveBar' = liveBar
  PROVE  UNCHANGED barVars
BY DEF barVars, stateBar, answeredBar, Failed, HandedOver

\* The documented state, by the position of the call that claimed the loader.
Mapped ==
    \A c \in Starter :
        /\ start[c] \in Claiming => started
        /\ start[c] \in {"building", "warming", "closing"} =>
              stateBar = "WarmingUp" /\ liveBar = {}
        /\ start[c] = "failed" => stateBar = "Failed"
        /\ start[c] \in {"handover", "ok"} =>
              /\ liveBar = {b \in claimed : serve[b] # "exited"}
              /\ stateBar = IF liveBar = {} THEN "Stopped" ELSE "Serving"

LEMMA StateAt == OneClaim => Mapped
<1> SUFFICES ASSUME OneClaim, NEW c \in Starter
             PROVE  /\ start[c] \in Claiming => started
                    /\ start[c] \in {"building", "warming", "closing"} =>
                          stateBar = "WarmingUp" /\ liveBar = {}
                    /\ start[c] = "failed" => stateBar = "Failed"
                    /\ start[c] \in {"handover", "ok"} =>
                          /\ liveBar = {b \in claimed : serve[b] # "exited"}
                          /\ stateBar = IF liveBar = {} THEN "Stopped" ELSE "Serving"
  BY DEF Mapped
<1>1. ASSUME start[c] \in Claiming
      PROVE  started /\ \A d \in Starter : start[d] \in Claiming => d = c
  BY <1>1 DEF OneClaim
<1>2. start[c] \in {"building", "warming", "closing"} => ~Failed /\ ~HandedOver
  BY <1>1 DEF Failed, HandedOver, Claiming, InStart, Returned
<1>3. start[c] = "failed" => Failed
  BY DEF Failed
<1>4. start[c] \in {"handover", "ok"} => ~Failed /\ HandedOver
  BY <1>1 DEF Failed, HandedOver, Claiming, InStart, Returned
<1>5. start[c] \in {"building", "warming", "closing", "failed", "handover", "ok"} => started
  BY <1>1 DEF Claiming, InStart, Returned
<1>6. QED
  BY <1>1, <1>2, <1>3, <1>4, <1>5 DEF stateBar, liveBar

LEMMA StateAtNext == OneClaim' => Mapped'
<1>1. (OneClaim => Mapped)'
  BY StateAt, PTL
<1>2. QED
  BY <1>1

\* A goroutine of the second generation runs only after the hand-over.
LEMMA ServingStage ==
  ASSUME TypeOK, OneClaim, Stage, NEW b \in Binding, serve[b] # "none"
  PROVE  /\ b \in claimed
         /\ \E c \in Starter : start[c] \in {"handover", "ok"}
<1>1. started
  BY DEF Stage, Untouched
<1>2. PICK c \in Starter : start[c] \in Claiming
  BY <1>1 DEF OneClaim
<1>3. start[c] \in {"handover", "ok"}
  BY <1>2 DEF Stage, Untouched, Claiming, InStart, Returned
<1>4. QED
  BY <1>3 DEF Stage

LEMMA InitRefines == Init => Abstract!Init
<1> SUFFICES ASSUME Init PROVE Abstract!Init
  OBVIOUS
<1>1. stateBar = "Configured" /\ liveBar = {} /\ loadedBar = {}
  BY DEF Init, stateBar, liveBar, loadedBar, HandedOver
<1>2. answeredBar = [w \in Waiter |-> "none"]
  BY DEF Init, answeredBar
<1>3. QED
  BY <1>1, <1>2 DEF Init, Abstract!Init, Abstract!Unanswered

LEMMA NextRefines ==
  ASSUME IInv, [Next]_vars
  PROVE  [Abstract!Next]_barVars
<1> USE DEF IInv
<1>0. Mapped /\ Mapped'
  BY StateAt, StateAtNext, NextOneClaim
<1>1. ASSUME NEW b \in Binding, Bind(b)
      PROVE  [Abstract!Next]_barVars
  <2>1. stateBar = "Configured" /\ stateBar' = "Configured"
    BY <1>1 DEF Bind, stateBar
  <2>2. liveBar' = liveBar
    BY <1>1 DEF Bind, liveBar, HandedOver, startVars, serveVars
  <2>3. loadedBar' = loadedBar /\ answeredBar' = answeredBar
    BY <1>1 DEF Bind, loadedBar, answeredBar, warmVars, appVars
  <2>4. Abstract!Bind(b)
    BY <1>1, <2>1, <2>2, <2>3 DEF Bind, Abstract!Bind
  <2>5. QED
    BY <2>4 DEF Abstract!Next
<1>2. ASSUME NEW c \in Starter, Claim(c)
      PROVE  [Abstract!Next]_barVars
  <2>1. stateBar = "Configured" /\ liveBar = {}
    BY <1>2 DEF Claim, stateBar, liveBar, HandedOver, OneClaim, Claiming, InStart,
              Returned
  <2>2. stateBar' = "WarmingUp" /\ liveBar' = {}
    <3>1. start'[c] = "building"
      BY <1>2 DEF Claim, TypeOK
    <3>2. QED
      BY <1>0, <3>1 DEF Mapped
  <2>3. loadedBar' = loadedBar /\ answeredBar' = answeredBar
    BY <1>2 DEF Claim, loadedBar, answeredBar, warmVars, appVars
  <2>4. Abstract!Start
    BY <1>2, <2>1, <2>2, <2>3 DEF Claim, Abstract!Start
  <2>5. QED
    BY <2>4 DEF Abstract!Next
<1>3. ASSUME NEW c \in Starter, StartRejected(c)
      PROVE  [Abstract!Next]_barVars
  <2>1. UNCHANGED <<Failed, HandedOver>>
    BY <1>3 DEF StartRejected, Failed, HandedOver
  <2>2. UNCHANGED <<loaderVars, claimed, warmVars, serveVars, ctxDone, appVars>>
    BY <1>3 DEF StartRejected
  <2>3. QED
    BY <2>1, <2>2 DEF barVars, stateBar, loadedBar, liveBar, answeredBar,
                      loaderVars, warmVars, serveVars, appVars
<1>4. ASSUME NEW c \in Starter, NewConsumers(c)
      PROVE  [Abstract!Next]_barVars
  <2>1. start[c] = "building" /\ start'[c] \in {"warming", "closing"}
    BY <1>4 DEF NewConsumers, TypeOK
  <2>2. stateBar = "WarmingUp" /\ stateBar' = "WarmingUp" /\ liveBar = {} /\ liveBar' = {}
    BY <1>0, <2>1 DEF Mapped
  <2>3. UNCHANGED <<loaderVars, result, ctxDone, appVars>>
    BY <1>4 DEF NewConsumers
  <2>4. QED
    BY <2>2, <2>3 DEF barVars, loadedBar, answeredBar, loaderVars, appVars
<1>5. CASE CancelContext
  <2>1. UNCHANGED <<stateBar, liveBar, loadedBar, answeredBar, regs, err>>
    BY <1>5 DEF CancelContext, stateBar, Failed, liveBar, HandedOver, loadedBar,
              answeredBar, loaderVars, startVars, warmVars, serveVars, appVars
  <2>2. Abstract!Cancel
    BY <1>5, <2>1 DEF CancelContext, Abstract!Cancel
  <2>3. QED
    BY <2>2 DEF Abstract!Next
<1>6. CASE WarmupDeadline
  <2>1. UNCHANGED <<regs, started, err, start, claimed, ctxDone, wait, waitErr, orderly>>
    BY <1>6 DEF WarmupDeadline, loaderVars, startVars, appVars
  <2>2. loadedBar' = loadedBar
    BY <1>6 DEF WarmupDeadline, loadedBar, warmVars
  <2>3. liveBar' = liveBar
    BY <1>6 DEF WarmupDeadline, liveBar, HandedOver, startVars, serveVars
  <2>4. QED
    BY <2>1, <2>2, <2>3, BarFrame
<1>7. ASSUME NEW b \in Binding, WarmRecord(b)
      PROVE  [Abstract!Next]_barVars
  <2>1. UNCHANGED <<regs, started, err, start, claimed, ctxDone, wait, waitErr, orderly>>
    BY <1>7 DEF WarmRecord, NoteRecord, loaderVars, startVars, appVars
  <2>2. loadedBar' = loadedBar
    BY <1>7 DEF WarmRecord, NoteRecord, loadedBar, warmVars
  <2>3. liveBar' = liveBar
    BY <1>7 DEF WarmRecord, NoteRecord, liveBar, HandedOver, startVars, serveVars
  <2>4. QED
    BY <2>1, <2>2, <2>3, BarFrame
<1>8. ASSUME NEW b \in Binding, WarmQuiet(b)
      PROVE  [Abstract!Next]_barVars
  <2>1. UNCHANGED <<regs, started, err, start, claimed, ctxDone, wait, waitErr, orderly>>
    BY <1>8 DEF WarmQuiet, loaderVars, startVars, appVars
  <2>2. loadedBar' = loadedBar
    BY <1>8 DEF WarmQuiet, loadedBar, warmVars
  <2>3. liveBar' = liveBar
    BY <1>8 DEF WarmQuiet, liveBar, HandedOver, startVars, serveVars
  <2>4. QED
    BY <2>1, <2>2, <2>3, BarFrame
<1>9. ASSUME NEW b \in Binding, WarmAssign(b)
      PROVE  [Abstract!Next]_barVars
  <2>1. UNCHANGED <<regs, started, err, start, claimed, ctxDone, wait, waitErr, orderly>>
    BY <1>9 DEF WarmAssign, Begin, Finish, loaderVars, startVars, appVars
  <2>2. loadedBar' = loadedBar
    <3>1. result[b] # "nil"
      BY <1>9 DEF WarmAssign, Begin, ReadWhole
    <3>2. \A d \in Binding : result'[d] = "nil" <=> result[d] = "nil"
      BY <1>9, <3>1 DEF WarmAssign, Begin, Finish, NameTimeout, TypeOK
    <3>3. QED
      BY <3>2 DEF loadedBar
  <2>3. liveBar' = liveBar
    BY <1>9 DEF WarmAssign, Begin, Finish, liveBar, HandedOver, startVars, serveVars
  <2>4. QED
    BY <2>1, <2>2, <2>3, BarFrame
<1>10. ASSUME NEW b \in Binding, WarmCheck(b)
      PROVE  [Abstract!Next]_barVars
  <2>1. UNCHANGED <<regs, started, err, start, claimed, ctxDone, wait, waitErr, orderly>>
    BY <1>10 DEF WarmCheck, Finish, loaderVars, startVars, appVars
  <2>2. loadedBar' = loadedBar
    <3>1. result[b] # "nil"
      BY <1>10 DEF WarmCheck, ReadWhole
    <3>2. \A d \in Binding : result'[d] = "nil" <=> result[d] = "nil"
      BY <1>10, <3>1 DEF WarmCheck, Finish, NameTimeout, TypeOK
    <3>3. QED
      BY <3>2 DEF loadedBar
  <2>3. liveBar' = liveBar
    BY <1>10 DEF WarmCheck, Finish, liveBar, HandedOver, startVars, serveVars
  <2>4. QED
    BY <2>1, <2>2, <2>3, BarFrame
<1>11. ASSUME NEW b \in Binding, WarmFatal(b)
      PROVE  [Abstract!Next]_barVars
  <2>1. UNCHANGED <<regs, started, err, start, claimed, ctxDone, wait, waitErr, orderly>>
    BY <1>11 DEF WarmFatal, Finish, loaderVars, startVars, appVars
  <2>2. loadedBar' = loadedBar
    <3>1. result[b] # "nil"
      BY <1>11 DEF WarmFatal, ReadWhole
    <3>2. \A d \in Binding : result'[d] = "nil" <=> result[d] = "nil"
      BY <1>11, <3>1 DEF WarmFatal, Finish, NameTimeout, TypeOK
    <3>3. QED
      BY <3>2 DEF loadedBar
  <2>3. liveBar' = liveBar
    BY <1>11 DEF WarmFatal, Finish, liveBar, HandedOver, startVars, serveVars
  <2>4. QED
    BY <2>1, <2>2, <2>3, BarFrame
<1>12. ASSUME NEW b \in Binding, NEW p \in Partition, WarmEOF(b, p)
      PROVE  [Abstract!Next]_barVars
  <2>1. result[b] # "nil" /\ warm[b] \in Warming
    BY <1>12 DEF WarmEOF, Observe, ReadWhole, Warming
  <2>2. stateBar = "WarmingUp" /\ b \in regs
    <3>1. PICK c \in Starter : start[c] \in Claiming /\ b \in claimed
      BY <2>1, WarmingStage DEF OneClaim
    <3>2. start[c] = "warming" /\ started
      BY <2>1, <3>1, WarmingStage
    <3>3. QED
      BY <1>0, <3>1, <3>2 DEF Mapped, OneClaim
  <2>3. UNCHANGED <<regs, started, err, start, claimed, ctxDone, wait, waitErr, orderly, serve>>
    BY <1>12 DEF WarmEOF, Observe, loaderVars, startVars, serveVars, appVars
  <2>4. liveBar' = liveBar
    BY <2>3 DEF liveBar, HandedOver
  <2>5. UNCHANGED <<stateBar, answeredBar>>
    BY <2>3, <2>4 DEF stateBar, answeredBar, Failed, HandedOver
  <2>6. CASE result' = [result EXCEPT ![b] = "nil"]
    <3>1. loadedBar' = loadedBar \cup {b}
      BY <2>6 DEF loadedBar, TypeOK
    <3>2. Abstract!Load(b)
      BY <2>2, <2>3, <2>4, <2>5, <3>1 DEF Abstract!Load
    <3>3. QED
      BY <3>2 DEF Abstract!Next
  <2>7. CASE result' = result \/ result' = [result EXCEPT ![b] = "empty"]
    <3>1. loadedBar' = loadedBar
      BY <2>1, <2>7 DEF loadedBar, TypeOK
    <3>2. QED
      BY <2>3, <2>4, <3>1, BarFrame
  <2>8. QED
    BY <1>12, <2>6, <2>7 DEF WarmEOF, Observe, Finish
<1>13. ASSUME NEW c \in Starter, WarmupWait(c)
      PROVE  [Abstract!Next]_barVars
  <2>1. start[c] = "warming" /\ start'[c] \in {"handover", "closing"}
    BY <1>13 DEF WarmupWait, TypeOK
  <2>2. started /\ stateBar = "WarmingUp" /\ liveBar = {}
    BY <1>0, <2>1 DEF Mapped, Claiming, InStart
  <2>3. UNCHANGED <<loaderVars, claimed, result, serve, ctxDone, loadedBar, answeredBar>>
    BY <1>13 DEF WarmupWait, loadedBar, answeredBar, warmVars, serveVars, appVars
  <2>4. CASE start'[c] = "closing"
    <3>1. stateBar' = "WarmingUp" /\ liveBar' = {}
      BY <1>0, <2>4 DEF Mapped
    <3>2. QED
      BY <2>2, <2>3, <3>1 DEF barVars, loaderVars
  <2>5. CASE start'[c] = "handover"
    <3>1. \A b \in claimed : result[b] = "nil"
      BY <1>13, <2>5 DEF WarmupWait, TypeOK
    <3>2. \A b \in Binding : result[b] = "nil" => b \in claimed
      BY <2>1 DEF Stage, ReadWhole
    <3>3. loadedBar = regs
      BY <2>2, <3>1, <3>2 DEF loadedBar, OneClaim, TypeOK
    <3>4. liveBar' = {b \in claimed' : serve'[b] # "exited"}
      BY <1>0, <2>5 DEF Mapped
    <3>5. \A b \in Binding : serve[b] = "none"
      BY <2>1 DEF Stage
    <3>6. liveBar' = regs
      BY <2>2, <2>3, <3>4, <3>5 DEF OneClaim, TypeOK
    <3>7. stateBar' = "Serving"
      BY <1>0, <2>2, <2>5, <3>6 DEF Mapped, OneClaim
    <3>8. Abstract!Serve
      BY <2>2, <2>3, <3>3, <3>6, <3>7 DEF Abstract!Serve, loaderVars
    <3>9. QED
      BY <3>8 DEF Abstract!Next
  <2>6. QED
    BY <2>1, <2>4, <2>5
<1>14. ASSUME NEW c \in Starter, CloseAll(c)
      PROVE  [Abstract!Next]_barVars
  <2>1. start[c] = "closing" /\ start'[c] = "failed"
    BY <1>14 DEF CloseAll, TypeOK
  <2>2. stateBar = "WarmingUp" /\ stateBar' = "Failed" /\ liveBar = {}
    BY <1>0, <2>1 DEF Mapped
  <2>3. liveBar' = {}
    BY <1>14, <2>1 DEF CloseAll, liveBar, HandedOver, OneClaim, Claiming, InStart,
                    Returned
  <2>4. UNCHANGED <<loaderVars, ctxDone, loadedBar, answeredBar>>
    BY <1>14 DEF CloseAll, loadedBar, answeredBar, warmVars, appVars
  <2>5. Abstract!Fail
    BY <2>2, <2>3, <2>4 DEF Abstract!Fail, loaderVars
  <2>6. QED
    BY <2>5 DEF Abstract!Next
<1>15. ASSUME NEW c \in Starter, NEW b \in Binding, Handover(c, b)
      PROVE  [Abstract!Next]_barVars
  <2>1. UNCHANGED <<regs, started, err, start, claimed, ctxDone, wait, waitErr, orderly, result>>
    BY <1>15 DEF Handover, startVars, appVars, warmVars
  <2>2. \A d \in Binding : serve'[d] # "exited" <=> serve[d] # "exited"
    BY <1>15 DEF Handover, TypeOK
  <2>3. liveBar' = liveBar /\ loadedBar' = loadedBar
    BY <2>1, <2>2 DEF liveBar, HandedOver, loadedBar, TypeOK
  <2>4. QED
    BY <2>1, <2>3, BarFrame
<1>16. ASSUME NEW c \in Starter, StartOK(c)
      PROVE  [Abstract!Next]_barVars
  <2>1. start[c] = "handover" /\ start'[c] = "ok"
    BY <1>16 DEF StartOK, TypeOK
  <2>2. UNCHANGED <<loaderVars, claimed, warmVars, serveVars, ctxDone, appVars>>
    BY <1>16 DEF StartOK
  <2>3. liveBar' = liveBar
    BY <1>0, <2>1, <2>2 DEF Mapped, serveVars
  <2>4. stateBar' = stateBar
    BY <1>0, <2>1, <2>3 DEF Mapped
  <2>5. QED
    BY <2>2, <2>3, <2>4 DEF barVars, loadedBar, answeredBar, loaderVars, warmVars,
                            appVars
<1>17. ASSUME NEW b \in Binding, ServeCheck(b)
      PROVE  [Abstract!Next]_barVars
  <2>1. UNCHANGED <<regs, started, err, start, claimed, ctxDone, wait, waitErr, orderly, result>>
    BY <1>17 DEF ServeCheck, loaderVars, startVars, appVars, warmVars
  <2>2. \A d \in Binding : serve'[d] # "exited" <=> serve[d] # "exited"
    BY <1>17 DEF ServeCheck, Serve, TypeOK
  <2>3. liveBar' = liveBar /\ loadedBar' = loadedBar
    BY <2>1, <2>2 DEF liveBar, HandedOver, loadedBar, TypeOK
  <2>4. QED
    BY <2>1, <2>3, BarFrame
<1>18. ASSUME NEW b \in Binding, ServeRecord(b)
      PROVE  [Abstract!Next]_barVars
  <2>1. UNCHANGED <<regs, started, err, start, claimed, ctxDone, wait, waitErr, orderly, result>>
    BY <1>18 DEF ServeRecord, NoteRecord, loaderVars, startVars, appVars, warmVars
  <2>2. \A d \in Binding : serve'[d] # "exited" <=> serve[d] # "exited"
    BY <1>18 DEF ServeRecord, NoteRecord, Serve, TypeOK
  <2>3. liveBar' = liveBar /\ loadedBar' = loadedBar
    BY <2>1, <2>2 DEF liveBar, HandedOver, loadedBar, TypeOK
  <2>4. QED
    BY <2>1, <2>3, BarFrame
<1>19. ASSUME NEW b \in Binding, ServeQuiet(b)
      PROVE  [Abstract!Next]_barVars
  <2>1. UNCHANGED <<regs, started, err, start, claimed, ctxDone, wait, waitErr, orderly, result>>
    BY <1>19 DEF ServeQuiet, loaderVars, startVars, appVars, warmVars
  <2>2. \A d \in Binding : serve'[d] # "exited" <=> serve[d] # "exited"
    BY <1>19 DEF ServeQuiet, Serve, TypeOK
  <2>3. liveBar' = liveBar /\ loadedBar' = loadedBar
    BY <2>1, <2>2 DEF liveBar, HandedOver, loadedBar, TypeOK
  <2>4. QED
    BY <2>1, <2>3, BarFrame
<1>20. ASSUME NEW b \in Binding, ServeFatal(b)
      PROVE  [Abstract!Next]_barVars
  <2>1. UNCHANGED <<regs, started, err, start, claimed, ctxDone, wait, waitErr, orderly, result>>
    BY <1>20 DEF ServeFatal, loaderVars, startVars, appVars, warmVars
  <2>2. \A d \in Binding : serve'[d] # "exited" <=> serve[d] # "exited"
    BY <1>20 DEF ServeFatal, Serve, TypeOK
  <2>3. liveBar' = liveBar /\ loadedBar' = loadedBar
    BY <2>1, <2>2 DEF liveBar, HandedOver, loadedBar, TypeOK
  <2>4. QED
    BY <2>1, <2>3, BarFrame
<1>21. ASSUME NEW b \in Binding, RunFatalHandler(b)
      PROVE  [Abstract!Next]_barVars
  <2>1. UNCHANGED <<regs, started, err, start, claimed, ctxDone, wait, waitErr, orderly, result>>
    BY <1>21 DEF RunFatalHandler, loaderVars, startVars, appVars, warmVars
  <2>2. \A d \in Binding : serve'[d] # "exited" <=> serve[d] # "exited"
    BY <1>21 DEF RunFatalHandler, Serve, TypeOK
  <2>3. liveBar' = liveBar /\ loadedBar' = loadedBar
    BY <2>1, <2>2 DEF liveBar, HandedOver, loadedBar, TypeOK
  <2>4. QED
    BY <2>1, <2>3, BarFrame
<1>22. ASSUME NEW b \in Binding, ServeStop(b)
      PROVE  [Abstract!Next]_barVars
  <2>1. UNCHANGED <<regs, started, err, start, claimed, ctxDone, wait, waitErr, orderly, result>>
    BY <1>22 DEF ServeStop, loaderVars, startVars, appVars, warmVars
  <2>2. \A d \in Binding : serve'[d] # "exited" <=> serve[d] # "exited"
    BY <1>22 DEF ServeStop, Serve, TypeOK
  <2>3. liveBar' = liveBar /\ loadedBar' = loadedBar
    BY <2>1, <2>2 DEF liveBar, HandedOver, loadedBar, TypeOK
  <2>4. QED
    BY <2>1, <2>3, BarFrame
<1>23. ASSUME NEW b \in Binding, ServeClose(b)
      PROVE  [Abstract!Next]_barVars
  <2>1. UNCHANGED <<regs, started, err, start, claimed, ctxDone, wait, waitErr, orderly, result>>
    BY <1>23 DEF ServeClose, loaderVars, startVars, appVars, warmVars
  <2>2. \A d \in Binding : serve'[d] # "exited" <=> serve[d] # "exited"
    BY <1>23 DEF ServeClose, Serve, TypeOK
  <2>3. liveBar' = liveBar /\ loadedBar' = loadedBar
    BY <2>1, <2>2 DEF liveBar, HandedOver, loadedBar, TypeOK
  <2>4. QED
    BY <2>1, <2>3, BarFrame
<1>24. ASSUME NEW b \in Binding, BindingDied(b)
      PROVE  [Abstract!Next]_barVars
  <2>1. UNCHANGED <<regs, started, start, claimed, ctxDone, wait, waitErr, orderly, result>>
    BY <1>24 DEF BindingDied, startVars, appVars, warmVars
  <2>2. \A d \in Binding : serve'[d] # "exited" <=> serve[d] # "exited"
    BY <1>24 DEF BindingDied, Serve, TypeOK
  <2>3. liveBar' = liveBar /\ loadedBar' = loadedBar
    BY <2>1, <2>2 DEF liveBar, HandedOver, loadedBar, TypeOK
  <2>4. CASE err # Nil
    <3>1. err' = err
      BY <1>24, <2>4 DEF BindingDied
    <3>2. QED
      BY <2>1, <2>3, <3>1, BarFrame
  <2>5. CASE err = Nil
    <3>1. err' = b /\ serve[b] = "dying"
      BY <1>24, <2>5 DEF BindingDied, Serve
    <3>2. stateBar = "Serving" /\ b \in liveBar
      BY <1>0, <3>1, ServingStage DEF Mapped
    <3>3. UNCHANGED <<stateBar, answeredBar>>
      BY <2>1, <2>3 DEF stateBar, answeredBar, Failed, HandedOver
    <3>4. Abstract!Die(b)
      BY <2>1, <2>3, <2>5, <3>1, <3>2, <3>3 DEF Abstract!Die
    <3>5. QED
      BY <3>4 DEF Abstract!Next
  <2>6. QED
    BY <2>4, <2>5
<1>25. ASSUME NEW b \in Binding, ServeExit(b)
      PROVE  [Abstract!Next]_barVars
  <2>1. UNCHANGED <<regs, started, err, start, claimed, ctxDone, waitErr, orderly, result>>
    BY <1>25 DEF ServeExit, startVars, warmVars
  <2>2. serve[b] = "exiting" /\ serve' = [serve EXCEPT ![b] = "exited"]
    BY <1>25 DEF ServeExit, Serve
  <2>3. PICK c \in Starter : start[c] \in {"handover", "ok"} /\ b \in claimed
    BY <2>2, ServingStage
  <2>4. stateBar = "Serving" /\ b \in liveBar /\ liveBar' = liveBar \ {b}
    BY <1>0, <2>1, <2>2, <2>3 DEF Mapped, TypeOK
  <2>5. stateBar' = IF liveBar' = {} THEN "Stopped" ELSE "Serving"
    BY <1>0, <2>1, <2>3 DEF Mapped
  <2>6. loadedBar' = loadedBar
    BY <2>1 DEF loadedBar
  <2>7. answeredBar' = answeredBar
    <3>1. \A w \in Waiter : wait'[w] = "returned" <=> wait[w] = "returned"
      BY <1>25 DEF ServeExit
    <3>2. QED
      BY <2>1, <3>1 DEF answeredBar
  <2>8. ctxDone \/ err # Nil
    BY <2>2 DEF Signalled, StopSignal
  <2>9. Abstract!Leave(b)
    BY <2>1, <2>4, <2>5, <2>6, <2>7, <2>8 DEF Abstract!Leave
  <2>10. QED
    BY <2>9 DEF Abstract!Next
<1>26. ASSUME NEW w \in Waiter, WaitCall(w)
      PROVE  [Abstract!Next]_barVars
  <2>1. UNCHANGED <<loaderVars, startVars, warmVars, serveVars, ctxDone, waitErr>>
    BY <1>26 DEF WaitCall
  <2>2. UNCHANGED <<stateBar, loadedBar, liveBar>>
    BY <2>1 DEF stateBar, Failed, HandedOver, loadedBar, liveBar, loaderVars,
                startVars, warmVars, serveVars
  <2>3. wait[w] # "returned" /\ wait'[w] # "returned"
    BY <1>26 DEF WaitCall, TypeOK
  <2>4. \A v \in Waiter : v # w => wait'[v] = wait[v] /\ orderly'[v] = orderly[v]
    BY <1>26 DEF WaitCall, TypeOK
  <2>5. answeredBar' = answeredBar
    BY <2>1, <2>3, <2>4 DEF answeredBar
  <2>6. QED
    BY <2>1, <2>2, <2>5 DEF barVars, loaderVars
<1>27. ASSUME NEW w \in Waiter, WaitPanics(w)
      PROVE  [Abstract!Next]_barVars
  <2>1. UNCHANGED <<loaderVars, startVars, warmVars, serveVars, ctxDone, waitErr>>
    BY <1>27 DEF WaitPanics
  <2>2. UNCHANGED <<stateBar, loadedBar, liveBar>>
    BY <2>1 DEF stateBar, Failed, HandedOver, loadedBar, liveBar, loaderVars,
                startVars, warmVars, serveVars
  <2>3. wait[w] # "returned" /\ wait'[w] # "returned"
    BY <1>27 DEF WaitPanics, TypeOK
  <2>4. \A v \in Waiter : v # w => wait'[v] = wait[v] /\ orderly'[v] = orderly[v]
    BY <1>27 DEF WaitPanics, TypeOK
  <2>5. answeredBar' = answeredBar
    BY <2>1, <2>3, <2>4 DEF answeredBar
  <2>6. QED
    BY <2>1, <2>2, <2>5 DEF barVars, loaderVars
<1>28. ASSUME NEW w \in Waiter, WaitReturn(w)
      PROVE  [Abstract!Next]_barVars
  <2>1. UNCHANGED <<loaderVars, startVars, warmVars, serveVars, ctxDone, orderly>>
    BY <1>28 DEF WaitReturn
  <2>2. UNCHANGED <<stateBar, loadedBar, liveBar>>
    BY <2>1 DEF stateBar, Failed, HandedOver, loadedBar, liveBar, loaderVars,
                startVars, warmVars, serveVars
  <2>3. /\ wait[w] \in {"woken", "passed"}
        /\ wait' = [wait EXCEPT ![w] = "returned"]
        /\ waitErr' = [waitErr EXCEPT ![w] = err]
    BY <1>28 DEF WaitReturn
  <2>4. CASE ~orderly[w]
    <3>1. answeredBar' = answeredBar
      BY <2>1, <2>3, <2>4 DEF answeredBar, TypeOK
    <3>2. QED
      BY <2>1, <2>2, <3>1 DEF barVars, loaderVars
  <2>5. CASE orderly[w]
    <3>1. answeredBar[w] = "none" /\ answeredBar' = [answeredBar EXCEPT ![w] = err]
      BY <2>1, <2>3, <2>5 DEF answeredBar, TypeOK
    <3>2. StartReturned /\ \A b \in Binding : serve[b] \in {"none", "exited"}
      BY <2>3, <2>5 DEF Waited, Running
    <3>3. PICK c \in Starter : start[c] \in Returned
      BY <3>2 DEF StartReturned
    <3>4. stateBar \in {"Failed", "Stopped"}
      <4>1. CASE start[c] = "failed"
        BY <1>0, <4>1 DEF Mapped
      <4>2. CASE start[c] = "ok"
        <5>1. \A b \in claimed : serve[b] = "exited"
          BY <3>2, <4>2 DEF Stage, TypeOK
        <5>2. QED
          BY <1>0, <4>2, <5>1 DEF Mapped
      <4>3. QED
        BY <3>3, <4>1, <4>2 DEF Returned
    <3>5. Abstract!Answer(w)
      BY <2>1, <2>2, <3>1, <3>4 DEF Abstract!Answer, loaderVars
    <3>6. QED
      BY <3>5 DEF Abstract!Next
  <2>6. QED
    BY <2>4, <2>5
<1>29. CASE UNCHANGED vars
  BY <1>29 DEF vars, barVars, stateBar, loadedBar, liveBar, answeredBar, Failed,
     HandedOver, loaderVars, startVars, warmVars, serveVars, appVars
<1>30. QED
  BY <1>1, <1>2, <1>3, <1>4, <1>5, <1>6, <1>7, <1>8, <1>9, <1>10, <1>11, <1>12, <1>13,
     <1>14, <1>15, <1>16, <1>17, <1>18, <1>19, <1>20, <1>21, <1>22, <1>23, <1>24, <1>25,
     <1>26, <1>27, <1>28, <1>29
     DEF Next, WarmStep, ServeStep, StartStep, WaitStep, Terminated

\* Every behaviour of a loader is one the documented life cycle allows.
THEOREM Refines == Spec => ImplementsLifecycle
<1>1. Init => Abstract!Init
  BY InitRefines
<1>2. IInv /\ [Next]_vars => [Abstract!Next]_barVars
  BY NextRefines
<1>3. barVars = Abstract!vars
  BY DEF barVars, Abstract!vars
<1>4. IInv /\ [Next]_vars => [Abstract!Next]_Abstract!vars
  BY <1>2, <1>3 DEF barVars, Abstract!vars
<1>5. Spec => Abstract!Spec
  BY <1>1, <1>4, Inductive, PTL DEF Spec, Abstract!Spec
<1>6. QED
  BY <1>5 DEF ImplementsLifecycle

-----------------------------------------------------------------------------
(***************************************************************************)
(* What the liveness properties rest on: no goroutine can put off its end, *)
(* and nobody waits for one that is not there.                             *)
(***************************************************************************)

\* How many steps a goroutine has left at most, once it has been told to stop.
ServeLeft == [none |-> 8, poll |-> 7, check |-> 6, dying |-> 5, handler |-> 4,
              stopping |-> 3, closing |-> 2, exiting |-> 1, exited |-> 0]

WarmLeft == [none |-> 4, assign |-> 3, poll |-> 2, check |-> 1, done |-> 0]

\* Once the stop signal is up every step of a serving goroutine takes it nearer
\* to its exit, and once the warm-up's context is over every step of a warm-up
\* goroutine takes it nearer to its end, whatever the polls bring
\* (loader.go:300-305, 391-404, developer-doc.md:182).
WindsDown ==
    [][\A b \in Binding :
         /\ StopSignal /\ serve'[b] # serve[b] =>
              ServeLeft[serve'[b]] < ServeLeft[serve[b]]
         /\ warmCtx # "live" /\ warm'[b] # warm[b] =>
              WarmLeft[warm'[b]] < WarmLeft[warm[b]]]_vars

\* A Start that waits for the warm-up can go on or has a goroutine to hear
\* from, and whoever waits for the loader to stop waits for one that is
\* running: no wake-up was lost (loader.go:144-162, 474-489).
NobodyWaitsInVain ==
    /\ \A c \in Starter : start[c] = "warming" =>
         \/ \A b \in claimed : warm[b] = "done"
         \/ \E b \in claimed : warm[b] \in Warming
    /\ \A w \in Waiter : wait[w] = "queued" => Running # {}

\* Every step of one goroutine takes it down, and moves no other.
LEMMA NextWinds ==
    ASSUME TypeOK, Stage, [Next]_vars, NEW b \in Binding
    PROVE  /\ StopSignal /\ serve'[b] # serve[b] =>
                ServeLeft[serve'[b]] < ServeLeft[serve[b]]
           /\ warmCtx # "live" /\ warm'[b] # warm[b] =>
                WarmLeft[warm'[b]] < WarmLeft[warm[b]]
<1> USE DEF loaderVars, startVars, warmVars, serveVars, appVars
<1>1. ASSUME NEW d \in Binding, WarmStep(d)
      PROVE  /\ serve' = serve
             /\ warmCtx # "live" /\ warm'[b] # warm[b] =>
                  WarmLeft[warm'[b]] < WarmLeft[warm[b]]
  <2>1. serve' = serve
    BY <1>1, ZenonT(60) DEF WarmStep, WarmAssign, WarmCheck, WarmRecord, WarmQuiet,
       WarmEOF, WarmFatal
  <2>2. ASSUME warmCtx # "live" PROVE
          \E s \in {<<"assign", "done">>, <<"check", "done">>, <<"poll", "check">>,
                    <<"poll", "done">>} :
            warm[d] = s[1] /\ warm' = [warm EXCEPT ![d] = s[2]]
    <3>1. CASE WarmAssign(d)
      BY <2>2, <3>1 DEF WarmAssign, Finish
    <3>2. CASE WarmCheck(d)
      BY <2>2, <3>2 DEF WarmCheck, Finish
    <3>3. CASE WarmRecord(d) \/ WarmQuiet(d)
      BY <3>3 DEF WarmRecord, WarmQuiet
    <3>4. CASE (\E p \in Partition : WarmEOF(d, p)) \/ WarmFatal(d)
      BY <3>4 DEF WarmEOF, WarmFatal, Finish
    <3> QED  BY <1>1, <3>1, <3>2, <3>3, <3>4 DEF WarmStep
  <2>3. ASSUME warmCtx # "live", warm'[b] # warm[b]
        PROVE  WarmLeft[warm'[b]] < WarmLeft[warm[b]]
    BY <2>2, <2>3 DEF TypeOK, WarmLeft
  <2> QED  BY <2>1, <2>3
<1>2. ASSUME NEW d \in Binding, ServeStep(d)
      PROVE  /\ warm' = warm
             /\ StopSignal /\ serve'[b] # serve[b] =>
                  ServeLeft[serve'[b]] < ServeLeft[serve[b]]
  <2>1. warm' = warm
    BY <1>2, ZenonT(60) DEF ServeStep, ServeCheck, ServeRecord, ServeQuiet, ServeFatal,
       BindingDied, RunFatalHandler, ServeStop, ServeClose, ServeExit
  <2>2. ASSUME StopSignal PROVE
          \E s \in {<<"check", "stopping">>, <<"poll", "check">>, <<"poll", "dying">>,
                    <<"dying", "handler">>, <<"dying", "stopping">>,
                    <<"handler", "stopping">>, <<"stopping", "closing">>,
                    <<"closing", "exiting">>, <<"exiting", "exited">>} :
            serve[d] = s[1] /\ serve' = [serve EXCEPT ![d] = s[2]]
    <3>1. CASE ServeCheck(d)  BY <2>2, <3>1 DEF ServeCheck, Serve
    <3>2. CASE ServeRecord(d) \/ ServeQuiet(d)
      BY <3>2 DEF ServeRecord, ServeQuiet, Serve
    <3>3. CASE ServeFatal(d)  BY <3>3 DEF ServeFatal, Serve
    <3>4. CASE BindingDied(d)  BY <3>4 DEF BindingDied, Serve
    <3>5. CASE RunFatalHandler(d)  BY <3>5 DEF RunFatalHandler, Serve
    <3>6. CASE ServeStop(d)  BY <3>6 DEF ServeStop, Serve
    <3>7. CASE ServeClose(d)  BY <3>7 DEF ServeClose, Serve
    <3>8. CASE ServeExit(d)  BY <3>8 DEF ServeExit, Serve
    <3> QED
      BY <1>2, <3>1, <3>2, <3>3, <3>4, <3>5, <3>6, <3>7, <3>8 DEF ServeStep
  <2>3. ASSUME StopSignal, serve'[b] # serve[b]
        PROVE  ServeLeft[serve'[b]] < ServeLeft[serve[b]]
    BY <2>2, <2>3 DEF TypeOK, ServeLeft
  <2> QED  BY <2>1, <2>3
<1>3. ASSUME NEW c \in Starter, StartStep(c)
      PROVE  /\ serve'[b] # serve[b] => serve[b] = "none" /\ serve'[b] = "check"
             /\ warm'[b] # warm[b] => warm[b] = "none" /\ warm'[b] = "assign"
  <2>1. CASE NewConsumers(c)
    <3>1. Untouched  BY <2>1 DEF NewConsumers, Stage
    <3> QED  BY <2>1, <3>1 DEF NewConsumers, Untouched
  <2>2. CASE WarmupWait(c) \/ CloseAll(c) \/ StartOK(c)
    BY <2>2 DEF WarmupWait, CloseAll, StartOK
  <2>3. ASSUME NEW d \in Binding, Handover(c, d)
        PROVE  /\ serve'[b] # serve[b] => serve[b] = "none" /\ serve'[b] = "check"
               /\ warm'[b] = warm[b]
    BY <2>3 DEF Handover, TypeOK
  <2> QED  BY <1>3, <2>1, <2>2, <2>3 DEF StartStep
<1>4. CASE \/ \E d \in Binding : Bind(d)
           \/ \E c \in Starter : Claim(c) \/ StartRejected(c)
           \/ \E w \in Waiter : WaitCall(w) \/ WaitStep(w)
           \/ CancelContext \/ WarmupDeadline \/ Terminated \/ UNCHANGED vars
  <2>1. serve' = serve /\ warm' = warm
    BY <1>4, ZenonT(60) DEF Bind, Claim, StartRejected, WaitCall, WaitStep, WaitReturn,
       WaitPanics, CancelContext, WarmupDeadline, Terminated, vars
  <2> QED  BY <2>1
<1>5. /\ ServeLeft["check"] < ServeLeft["none"]
      /\ WarmLeft["assign"] < WarmLeft["none"]
  BY DEF ServeLeft, WarmLeft
<1> QED  BY <1>1, <1>2, <1>3, <1>4, <1>5 DEF Next

\* A goroutine that was told to stop has at most eight steps left.
THEOREM Winds == Spec => WindsDown
<1>1. IInv /\ [Next]_vars =>
        [\A b \in Binding :
           /\ StopSignal /\ serve'[b] # serve[b] =>
                ServeLeft[serve'[b]] < ServeLeft[serve[b]]
           /\ warmCtx # "live" /\ warm'[b] # warm[b] =>
                WarmLeft[warm'[b]] < WarmLeft[warm[b]]]_vars
  BY NextWinds DEF IInv
<1> QED  BY <1>1, Inductive, PTL DEF Spec, WindsDown

\* The Done that brings the counter to zero wakes everyone who is queued, and
\* nobody queues at zero.
QueuedCounted == \A w \in Waiter : wait[w] = "queued" => serving # 0

LEMMA NextQueued ==
    ASSUME IInv, QueuedCounted, [Next]_vars
    PROVE  QueuedCounted'
<1> USE DEF QueuedCounted, loaderVars, startVars, warmVars, serveVars, appVars
<1>1. serving \in Nat
  BY RunningFinite, FS_CardinalityType DEF IInv, Counted
<1>2. wait \in [Waiter -> WaitStates]  BY DEF IInv, TypeOK
<1>3. CASE UNCHANGED <<serving, wait>>  BY <1>3
<1>4. ASSUME NEW c \in Starter, NEW b \in Binding, Handover(c, b)
      PROVE  QueuedCounted'
  BY <1>1, <1>4 DEF Handover
<1>5. ASSUME NEW b \in Binding, ServeExit(b) PROVE QueuedCounted'
  <2> SUFFICES ASSUME NEW w \in Waiter, wait'[w] = "queued" PROVE serving' # 0
    OBVIOUS
  <2>1. wait[w] = "queued" /\ serving # 1  BY <1>5 DEF ServeExit
  <2>2. serving' = serving - 1  BY <1>5 DEF ServeExit
  <2> QED  BY <1>1, <2>1, <2>2
<1>6. ASSUME NEW w \in Waiter, WaitCall(w) \/ WaitStep(w) PROVE QueuedCounted'
  BY <1>2, <1>6 DEF WaitCall, WaitStep, WaitReturn, WaitPanics
<1>7. \/ UNCHANGED <<serving, wait>>
      \/ \E c \in Starter : \E b \in Binding : Handover(c, b)
      \/ \E b \in Binding : ServeExit(b)
      \/ \E w \in Waiter : WaitCall(w) \/ WaitStep(w)
  BY ZenonT(60) DEF Next, WarmStep, ServeStep, StartStep, Terminated, vars,
     Bind, CancelContext, Claim, CloseAll, NewConsumers, StartOK, StartRejected,
     WarmAssign, WarmCheck, WarmEOF, WarmFatal, WarmQuiet, WarmRecord,
     WarmupDeadline, WarmupWait, ServeCheck, ServeRecord, ServeQuiet, ServeFatal,
     BindingDied, RunFatalHandler, ServeStop, ServeClose
<1> QED  BY <1>3, <1>4, <1>5, <1>6, <1>7

\* Whoever waits has somebody to wait for.
THEOREM NoLostWakeup == Spec => []NobodyWaitsInVain
<1>1. Init => QueuedCounted  BY DEF Init, QueuedCounted
<1>2. Spec => [](IInv /\ QueuedCounted)
  BY <1>1, InitIInv, NextIInv, NextQueued, PTL DEF Spec
<1>3. ASSUME IInv, QueuedCounted PROVE NobodyWaitsInVain
  <2>1. \A c \in Starter : start[c] = "warming" =>
          \A b \in claimed : warm[b] # "none" /\ warm[b] \in WarmStates
    BY <1>3 DEF IInv, Stage, TypeOK
  <2>2. \A w \in Waiter : wait[w] = "queued" => Running # {}
    BY <1>3, NothingCounted DEF IInv, QueuedCounted
  <2> QED  BY <2>1, <2>2 DEF NobodyWaitsInVain, WarmStates, Warming
<1> QED  BY <1>2, <1>3, PTL

=============================================================================
