--------------------------- MODULE ServiceControl ---------------------------
(***************************************************************************)
(* Installing, starting and removing the agent's Windows service           *)
(* (internal/servicecontrol, called by drowsyfriendctl service), with the  *)
(* service control manager and the service's process, which behaves as     *)
(* ServiceProcess says and, asked to stop, ends within its own timeout     *)
(* (AgentProcess).  One administrator calls at a time; between any two     *)
(* steps of a call the service may fail, be started or stopped by others   *)
(* with the tools of Windows, and Windows may restart.                     *)
(***************************************************************************)
EXTENDS Naturals

CONSTANTS NoExitCode,
          StopTicks,   \* serviceStopTimeout, 30 s, in clock ticks
          WaitTicks,   \* uninstallStopTimeout, 45 s
          MaxControls  \* bound on calls

ASSUME ServiceControlAssumption ==
    /\ NoExitCode \notin {0, 1} /\ MaxControls \in Nat
    /\ StopTicks \in Nat /\ WaitTicks \in Nat

VARIABLES installed,                \* the service control manager knows the service
          serviceStatus, exitCode,  \* of its process: see ServiceProcess
          age,                      \* ticks since it was asked to stop
          controlCall, controls,
          startedDuring  \* history: where uninstall was when others started the service

controlVars == <<installed, serviceStatus, exitCode, age, controlCall, controls, startedDuring>>
scm == <<installed, serviceStatus, exitCode, age>>

Process == INSTANCE ServiceProcess
             WITH NoCode <- NoExitCode, status <- serviceStatus, code <- exitCode

NoCall == [step |-> "idle"]
CallOver(end) == [step |-> "over", end |-> end]
Ends == {"installed", "uninstalled", "started", "error", "timed_out"}
ControlCalls ==
    {NoCall} \cup [step : {"create", "query", "control", "delete", "query_to_start", "start"}]
      \cup [step : {"poll"}, waited : 0 .. WaitTicks] \cup [step : {"over"}, end : Ends]

ControlInit ==
    /\ installed = FALSE
    /\ serviceStatus = "stopped" /\ exitCode = NoExitCode /\ age = 0
    /\ controlCall = NoCall /\ controls = 0 /\ startedDuring = {}

-----------------------------------------------------------------------------
(* The service and the machine                                             *)

Apart == UNCHANGED <<installed, age, controlCall, controls, startedDuring>>

Runs == Process!Run /\ Apart
Fail == Process!Fail /\ Apart
Stop == Process!Stop /\ Apart

\* Anybody may, who is allowed to, with the tools of Windows.
ConsoleStop ==
    /\ Process!AskToStop /\ age' = 0
    /\ UNCHANGED <<installed, controlCall, controls, startedDuring>>

StartProcess ==
    /\ installed /\ serviceStatus = "stopped"
    /\ serviceStatus' = "start_pending" /\ exitCode' = NoExitCode
    /\ UNCHANGED <<installed, age>>

ConsoleStart ==
    /\ StartProcess
    /\ startedDuring' = startedDuring \cup ({controlCall.step} \cap {"poll", "delete"})
    /\ UNCHANGED <<controlCall, controls>>

\* Windows starts again: the service starts automatically.
Boot ==
    /\ serviceStatus' = IF installed THEN "start_pending" ELSE "stopped"
    /\ exitCode' = NoExitCode /\ age' = 0
    /\ controlCall' = NoCall
    /\ UNCHANGED <<installed, controls, startedDuring>>

\* The process has ended before its timeout is over, and uninstall looks four
\* times a second.
ControlTick ==
    /\ serviceStatus = "stop_pending" => age < StopTicks
    /\ controlCall.step = "poll" => controlCall.waited < WaitTicks /\ serviceStatus # "stopped"
    /\ serviceStatus = "stop_pending" \/ controlCall.step = "poll"
    /\ age' = IF serviceStatus = "stop_pending" THEN age + 1 ELSE age
    /\ controlCall' = IF controlCall.step = "poll" THEN [controlCall EXCEPT !.waited = @ + 1]
                      ELSE controlCall
    /\ UNCHANGED <<installed, serviceStatus, exitCode, controls, startedDuring>>

-----------------------------------------------------------------------------
(* The calls, which Windows may refuse at any step                         *)

\* A service that is removed while its process runs is known until that ends.
Known == installed \/ serviceStatus # "stopped"

BeginCall(known, unknown) ==
    /\ controlCall.step \in {"idle", "over"} /\ controls < MaxControls
    /\ controls' = controls + 1
    /\ controlCall' \in {IF Known THEN known ELSE unknown, CallOver("error")}
    /\ startedDuring' = {}
    /\ UNCHANGED scm

AtCall(step) == controlCall.step = step /\ UNCHANGED <<controls, startedDuring>>
GotoCall(next) == controlCall' = next /\ UNCHANGED scm
To(step) == GotoCall([step |-> step])
Refused == GotoCall(CallOver("error"))
Keep == UNCHANGED <<serviceStatus, exitCode, age>>

Install == BeginCall(CallOver("error"), [step |-> "create"])

CreateService ==
    /\ AtCall("create")
    /\ \/ Refused
       \/ installed' = TRUE /\ controlCall' = CallOver("installed") /\ Keep

Uninstall == BeginCall([step |-> "query"], CallOver("error"))

Query ==
    /\ AtCall("query")
    /\ Refused \/ To(IF serviceStatus = "stopped" THEN "delete" ELSE "control")

Poll == [step |-> "poll", waited |-> 0]

\* A stop control is taken only by a running service; that it is not active
\* any more is no error.
Control ==
    /\ AtCall("control")
    /\ \/ Refused
       \/ serviceStatus = "stopped" /\ GotoCall(Poll)
       \/ Process!AskToStop /\ age' = 0 /\ controlCall' = Poll /\ UNCHANGED installed

PollFails == AtCall("poll") /\ Refused

PollStopped == AtCall("poll") /\ serviceStatus = "stopped" /\ To("delete")

\* Slip: uninstall does not wait as long as the service may take.
PollTimesOutEarly ==
    /\ AtCall("poll") /\ controlCall.waited >= StopTicks - 1
    /\ GotoCall(CallOver("timed_out"))

\* The loop ends without another look.
PollTimesOut ==
    /\ AtCall("poll") /\ controlCall.waited = WaitTicks
    /\ GotoCall(CallOver("timed_out"))

\* A service is removed once.
Delete ==
    /\ AtCall("delete")
    /\ \/ Refused
       \/ installed /\ installed' = FALSE /\ controlCall' = CallOver("uninstalled") /\ Keep

Start == BeginCall([step |-> "query_to_start"], CallOver("error"))

QueryToStart ==
    /\ AtCall("query_to_start")
    /\ \/ Refused
       \/ serviceStatus \in {"running", "start_pending"} /\ GotoCall(CallOver("started"))
       \/ serviceStatus \in {"stopped", "stop_pending"} /\ To("start")

\* The manager refuses while the process has not ended.
StartService ==
    /\ AtCall("start")
    /\ \/ Refused
       \/ StartProcess /\ controlCall' = CallOver("started")

-----------------------------------------------------------------------------
ControlNext ==
    \/ Runs \/ Fail \/ Stop \/ ConsoleStop \/ ConsoleStart \/ Boot \/ ControlTick
    \/ Install \/ CreateService
    \/ Uninstall \/ Query \/ Control \/ PollFails \/ PollStopped \/ PollTimesOut \/ Delete
    \/ Start \/ QueryToStart \/ StartService

ControlSpec == ControlInit /\ [][ControlNext]_controlVars

-----------------------------------------------------------------------------
ControlTypeOK ==
    /\ installed \in BOOLEAN
    /\ serviceStatus \in Process!Statuses /\ exitCode \in Process!Codes \cup {NoExitCode}
    /\ age \in 0 .. StopTicks
    /\ controlCall \in ControlCalls /\ controls \in 0 .. MaxControls
    /\ startedDuring \subseteq {"poll", "delete"}

\* An uninstall that reports success leaves no process of the service behind,
\* unless somebody else started the service between the query that saw it
\* stopped and Delete (service_windows.go:74-77); and it gives up on a service
\* only if somebody else started it again while uninstall waited for it to stop:
\* it waits longer (:18, :178-190) than the service lets its runtime take
\* (cmd/drowsyfriend/run_windows.go:19).
UninstallStops ==
    /\ controlCall = CallOver("uninstalled") =>
          serviceStatus = "stopped" \/ "delete" \in startedDuring
    /\ controlCall = CallOver("timed_out") => "poll" \in startedDuring
=============================================================================
