------------------------------- MODULE Service -------------------------------
(***************************************************************************)
(* A process around a loader (examples/quickstart/main.go): main wires it, *)
(* starts it, waits for its context to be cancelled and then for the       *)
(* loader to stop.  A goroutine cancels the context on the first SIGINT or *)
(* SIGTERM, and so does the fatal handler on the goroutine of a binding    *)
(* that died.  Nothing runs once main has left the process.                *)
(***************************************************************************)
EXTENDS Loader

CONSTANT Main   \* the goroutine of main: it starts the loader and waits for it

ASSUME ServiceAssumption ==
    /\ Starter = {Main} /\ Waiter = {Main}
    /\ Binding # {} /\ AllowEmpty = Binding
    /\ ~WarmupTimeout
    /\ FatalHandler

VARIABLES
    main,       \* where run is: "wiring", "starting", "watching", "waiting",
                \* "leaving" or "exited"
    status,     \* the exit status run's error amounts to
    signals,    \* the buffer of the signal channel: 0 or 1
    listener    \* the goroutine that receives from it: "listening",
                \* "cancelling" or "gone"

processVars == <<main, status, signals, listener>>
serviceVars == <<vars, processVars>>

ServiceInit ==
    /\ Init
    /\ main = "wiring"
    /\ status = 0
    /\ signals = 0
    /\ listener = "listening"

\* cancel(), which does nothing the second time.
Cancel == CancelContext \/ (ctxDone /\ UNCHANGED vars)

-----------------------------------------------------------------------------
(***************************************************************************)
(* The goroutine of main.                                                  *)
(***************************************************************************)

Wire(b) ==
    /\ main = "wiring"
    /\ Bind(b)
    /\ UNCHANGED processVars

CallStart ==
    /\ main = "wiring"
    /\ regs = Binding
    /\ Claim(Main)
    /\ main' = "starting"
    /\ UNCHANGED <<status, signals, listener>>

\* Start is at work, or has returned: an error ends run.
RunStart ==
    /\ main = "starting"
    /\ \/ StartStep(Main) /\ UNCHANGED processVars
       \/ /\ start[Main] = "ok"
          /\ main' = "watching"
          /\ UNCHANGED <<vars, status, signals, listener>>
       \/ /\ start[Main] = "failed"
          /\ main' = "leaving"
          /\ status' = 1
          /\ UNCHANGED <<vars, signals, listener>>

\* Mutant: run returns as soon as the context is done.
CallWait_Left ==
    /\ main = "watching"
    /\ ctxDone
    /\ main' = "leaving"
    /\ UNCHANGED <<vars, status, signals, listener>>

CallWait ==
    /\ main = "watching"
    /\ ctxDone
    /\ WaitCall(Main)
    /\ main' = "waiting"
    /\ UNCHANGED <<status, signals, listener>>

\* Mutant: what WaitUntilStopped reports is not looked at.
RunWait_Unchecked ==
    /\ main = "waiting"
    /\ \/ WaitStep(Main) /\ UNCHANGED processVars
       \/ /\ wait[Main] = "returned"
          /\ main' = "leaving"
          /\ UNCHANGED <<vars, status, signals, listener>>

RunWait ==
    /\ main = "waiting"
    /\ \/ WaitStep(Main) /\ UNCHANGED processVars
       \/ /\ wait[Main] = "returned"
          /\ main' = "leaving"
          /\ status' = IF waitErr[Main] = Nil THEN 0 ELSE 1
          /\ UNCHANGED <<vars, signals, listener>>

\* The deferred cancel, and the end of the process.
Leave ==
    /\ main = "leaving"
    /\ Cancel
    /\ main' = "exited"
    /\ UNCHANGED <<status, signals, listener>>

MainStep ==
    \/ \E b \in Binding : Wire(b)
    \/ CallStart \/ RunStart \/ CallWait \/ RunWait \/ Leave

-----------------------------------------------------------------------------
(***************************************************************************)
(* The signal, and who else cancels the context.                           *)
(***************************************************************************)

\* Notify never blocks: a signal that finds the buffer full is dropped.
Signal ==
    /\ main # "exited"
    /\ signals' = 1
    /\ UNCHANGED <<vars, main, status, listener>>

Listen ==
    /\ main # "exited"
    /\ \/ /\ listener = "listening" /\ signals = 1
          /\ listener' = "cancelling"
          /\ signals' = 0
          /\ UNCHANGED vars
       \/ /\ listener = "cancelling"
          /\ Cancel
          /\ listener' = "gone"
          /\ UNCHANGED signals
    /\ UNCHANGED <<main, status>>

\* Mutant: the fatal handler only prints.
Handle_PrintOnly(b) ==
    /\ serve[b] = "handler"
    /\ RunFatalHandler(b)

\* The fatal handler cancels the context before it returns to the goroutine of
\* the binding that called it.
Handle(b) ==
    /\ serve[b] = "handler"
    /\ CancelContext \/ (ctxDone /\ RunFatalHandler(b))

LoaderStep(b) ==
    /\ main # "exited"
    /\ \/ WarmStep(b)
       \/ serve[b] # "handler" /\ ServeStep(b)
       \/ Handle(b)
    /\ UNCHANGED processVars

Exited == main = "exited" /\ UNCHANGED serviceVars

ServiceNext ==
    \/ MainStep
    \/ Signal
    \/ Listen
    \/ \E b \in Binding : LoaderStep(b)
    \/ Exited

\* Every goroutine is scheduled.  Nobody has to send a signal.
ServiceSpec ==
    /\ ServiceInit
    /\ [][ServiceNext]_serviceVars
    /\ WF_serviceVars(MainStep)
    /\ WF_serviceVars(Listen)
    /\ \A b \in Binding : WF_serviceVars(LoaderStep(b))

-----------------------------------------------------------------------------
\* When the process ends no goroutine of the loader is in the middle of
\* anything and every consumer has been closed, whichever way it came to that
\* (main.go:112-116).
ExitsIdle == main = "exited" => NothingRuns

\* A process reports success only when it was asked to stop, had loaded every
\* topic, and no binding had died by the time the loader stopped; and it
\* reports a failure for one of the reasons run names (main.go:94-116).
ExitTellsWhy ==
    main = "exited" =>
        /\ status = 0 => /\ listener = "gone"
                         /\ start[Main] = "ok"
                         /\ err = Nil
        /\ status = 1 => start[Main] = "failed" \/ err # Nil

\* A signal, whenever it comes, and the death of a binding, whether or not a
\* signal comes as well, take the process down (main.go:59-64).
GoesDown == (signals = 1 \/ err # Nil) ~> (main = "exited")

=============================================================================
