---------------------------- MODULE AgentProcess ----------------------------
(***************************************************************************)
(* The life of the agent's Windows service (cmd/drowsyfriend): the service *)
(* handler, the runtime it starts in a goroutine, the local UI server with *)
(* the goroutine that stops it, the registry and the components of the     *)
(* KidControl module, the only module of this build.                       *)
(*                                                                         *)
(* Any part may fail to start, fail to stop, or not return from Stop.  No  *)
(* call here returns a context error: StopStarted is given a context that  *)
(* is never cancelled, and starting a component does not look at its own.  *)
(***************************************************************************)
EXTENDS Naturals, Sequences, SequencesExt

CONSTANTS NoCode,
          Order,     \* the components, in the order in which startRuntime starts them
          Policies   \* the sets of components a policy may enable

ASSUME AgentProcessAssumption ==
    /\ Order \in Seq(ToSet(Order)) /\ IsInjective(Order)
    /\ \A p \in Policies : p \subseteq ToSet(Order)
    /\ NoCode \notin {0, 1}

VARIABLES status, code,   \* as reported to the service control manager
          cancelled,      \* the context of the runtime
          enabled,        \* the components the policy enables
          runtime,        \* where the runtime's goroutine is
          started,        \* Module.started, what StopStarted still has to stop
          component,      \* component[c]
          failed,         \* the runtime has an error to return
          server,         \* UIAPIServer.server is set
          listening,      \* the UI server takes requests
          watcher,        \* the goroutine that stops the server with the context
          request         \* a UI request is being served

execute == <<status, code, cancelled>>
ui == <<server, listening, watcher>>
vars == <<execute, enabled, runtime, started, component, failed, ui, request>>

Components == ToSet(Order)
RuntimeSteps ==
    {"none", "ui", "load", "start", "wait", "stop", "stopping", "stop ui", "shut down", "done"}
Watcher == {"none", "waiting", "shut down", "done"}

Init ==
    /\ status = "start_pending" /\ code = NoCode /\ cancelled = FALSE
    /\ enabled \in Policies
    /\ runtime = "none"
    /\ started = <<>>
    /\ component = [c \in Components |-> "off"]
    /\ failed = FALSE
    /\ server = FALSE /\ listening = FALSE /\ watcher = "none"
    /\ request = FALSE

Alive == status # "stopped"

-----------------------------------------------------------------------------
(* The service handler                                                     *)

Parts == UNCHANGED <<enabled, started, component, failed, ui, request>>

BeginService ==
    /\ status = "start_pending"
    /\ status' = "running" /\ runtime' = "ui"
    /\ UNCHANGED <<code, cancelled>> /\ Parts

ReturnCode(c) == status' = "stopped" /\ code' = c /\ UNCHANGED <<cancelled, runtime>> /\ Parts
ErrorCode == IF failed THEN 1 ELSE 0

\* The runtime has returned without having been asked to.
RuntimeEnds == status = "running" /\ runtime = "done" /\ ReturnCode(ErrorCode)

\* Stop or Shutdown, or the end of the request channel.
StopRequest ==
    /\ status = "running"
    /\ status' = "stop_pending" /\ cancelled' = TRUE
    /\ UNCHANGED <<code, runtime>> /\ Parts

\* Slip: an error of the runtime is lost once it was asked to stop.
StopReturnsClean == status = "stop_pending" /\ runtime = "done" /\ ReturnCode(0)

StopReturns == status = "stop_pending" /\ runtime = "done" /\ ReturnCode(ErrorCode)

\* Slip: the handler waits for the runtime as long as it takes.
StopTimesOutNever == FALSE /\ UNCHANGED vars

\* Slip: running out of time has an exit code of its own.
StopTimesOutOtherwise == status = "stop_pending" /\ ReturnCode(2)

\* Thirty seconds later.
StopTimesOut == status = "stop_pending" /\ ReturnCode(1)

-----------------------------------------------------------------------------
(* The runtime                                                             *)

GotoStep(step) == runtime' = step /\ UNCHANGED <<execute, enabled>>
AtStep(step) == Alive /\ runtime = step

StartUI ==
    /\ AtStep("ui")
    /\ \/ /\ server' = TRUE /\ listening' = TRUE /\ watcher' = "waiting"
          /\ GotoStep("load") /\ UNCHANGED failed
       \/ failed' = TRUE /\ GotoStep("done") /\ UNCHANGED ui
    /\ UNCHANGED <<started, component, request>>

\* load and validate
LoadPolicy ==
    /\ AtStep("load")
    /\ \/ GotoStep("start") /\ UNCHANGED failed
       \/ failed' = TRUE /\ GotoStep("stop ui")
    /\ UNCHANGED <<started, component, ui, request>>

\* The places in the order of the components still to be started.
ToStart == {i \in DOMAIN Order : Order[i] \in enabled /\ component[Order[i]] = "off"}

\* A component that fails to start leaves the earlier ones started: the
\* module is not running then, and the registry does not know it.
StartComponent ==
    /\ AtStep("start")
    /\ \E i \in ToStart :
         /\ \A j \in ToStart : i <= j
         /\ \/ /\ component' = [component EXCEPT ![Order[i]] = "on"]
               /\ started' = Append(started, Order[i])
               /\ GotoStep("start") /\ UNCHANGED failed
            \/ /\ failed' = TRUE
               /\ GotoStep("stop ui") /\ UNCHANGED <<component, started>>
    /\ UNCHANGED <<ui, request>>

Started ==
    /\ AtStep("start") /\ ToStart = {}
    /\ GotoStep("wait")
    /\ UNCHANGED <<started, component, failed, ui, request>>

ShutdownRequested ==
    /\ AtStep("wait") /\ cancelled
    /\ GotoStep("stop")
    /\ UNCHANGED <<started, component, failed, ui, request>>

StopComponent ==
    /\ AtStep("stop") /\ started # <<>>
    /\ component' = [component EXCEPT ![Last(started)] = "stopping"]
    /\ started' = Front(started)
    /\ GotoStep("stopping")
    /\ UNCHANGED <<failed, ui, request>>

Stopping == {c \in Components : component[c] = "stopping"}
Stopped(end) == [c \in Components |-> IF c \in Stopping THEN end ELSE component[c]]

ComponentStops ==
    /\ AtStep("stopping")
    /\ \/ component' = Stopped("stopped") /\ UNCHANGED failed
       \/ component' = Stopped("error") /\ failed' = TRUE
    /\ GotoStep("stop")
    /\ UNCHANGED <<started, ui, request>>

ModulesStopped ==
    /\ AtStep("stop") /\ started = <<>>
    /\ GotoStep("stop ui")
    /\ UNCHANGED <<started, component, failed, ui, request>>

-----------------------------------------------------------------------------
(* The local UI server                                                     *)

\* UIAPIServer.Stop, called by the runtime: the server may have been taken.
StopUI ==
    /\ AtStep("stop ui")
    /\ GotoStep(IF server THEN "shut down" ELSE "done")
    /\ server' = FALSE
    /\ listening' = (listening /\ ~server)
    /\ UNCHANGED <<watcher, started, component, failed, request>>

\* Shutdown waits for the requests being served.
ShutDownUI ==
    /\ AtStep("shut down") /\ ~request
    /\ GotoStep("done")
    /\ UNCHANGED <<ui, started, component, failed, request>>

Runtime == UNCHANGED <<execute, enabled, runtime, started, component, failed>>

\* The same Stop, called by the goroutine that waits for the context.
WatcherStopsUI ==
    /\ Alive /\ watcher = "waiting" /\ cancelled
    /\ watcher' = IF server THEN "shut down" ELSE "done"
    /\ server' = FALSE
    /\ listening' = (listening /\ ~server)
    /\ Runtime /\ UNCHANGED request

WatcherDone ==
    /\ Alive /\ watcher = "shut down" /\ ~request
    /\ watcher' = "done"
    /\ Runtime /\ UNCHANGED <<server, listening, request>>

ServeRequest ==
    /\ Alive /\ listening /\ ~request /\ request' = TRUE
    /\ Runtime /\ UNCHANGED ui

AnswerRequest ==
    /\ Alive /\ request /\ request' = FALSE
    /\ Runtime /\ UNCHANGED ui

-----------------------------------------------------------------------------
Execute == BeginService \/ RuntimeEnds \/ StopReturns \/ StopTimesOut
RunStep ==
    \/ StartUI \/ LoadPolicy \/ StartComponent \/ Started \/ ShutdownRequested
    \/ StopComponent \/ ModulesStopped \/ StopUI \/ ShutDownUI

Next ==
    \/ Execute \/ StopRequest
    \/ RunStep \/ ComponentStops
    \/ WatcherStopsUI \/ WatcherDone
    \/ ServeRequest \/ AnswerRequest

Spec == Init /\ [][Next]_vars

\* The stop timer fires, the goroutines run and UI requests are answered.  A
\* component may still not return from Stop.
Fairness ==
    /\ WF_vars(StopTimesOut) /\ WF_vars(RuntimeEnds)
    /\ WF_vars(RunStep) /\ WF_vars(AnswerRequest)

-----------------------------------------------------------------------------
TypeOK ==
    /\ status \in {"start_pending", "running", "stop_pending", "stopped"}
    /\ code \in {NoCode, 0, 1}
    /\ cancelled \in BOOLEAN /\ failed \in BOOLEAN /\ request \in BOOLEAN
    /\ enabled \in Policies
    /\ runtime \in RuntimeSteps
    /\ started \in Seq(Components)
    /\ component \in [Components -> {"off", "on", "stopping", "stopped", "error"}]
    /\ server \in BOOLEAN /\ listening \in BOOLEAN /\ watcher \in Watcher

\* The process behaves to the service control manager as ServiceProcess says:
\* above all it ends once it was asked to, also when a component does not return
\* from Stop (service_windows.go:54-74, runtime_host.go:34-49).
AsService == INSTANCE ServiceProcess
IsServiceProcess == AsService!Spec

\* Exit code 0 is the truth: the process was asked to stop, everything that was
\* started has been stopped, and without an error (runtime_host.go:34-49,
\* registry.go:98-110, kidcontrol/runtime.go:95-107).
CleanExit ==
    code = 0 => /\ cancelled /\ ~failed
                /\ \A c \in Components : component[c] \in {"off", "stopped"}
=============================================================================
