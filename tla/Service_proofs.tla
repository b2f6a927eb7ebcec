--------------------------- MODULE Service_proofs ---------------------------
(***************************************************************************)
(* Proofs about the agent's Windows service: what its exit code says of    *)
(* the components, that its process reports to the service control manager *)
(* as ServiceProcess says, and that its removal works for every pair of    *)
(* time-outs of which the service's own is the shorter one.  With the      *)
(* proofs about the agent's other parts, the types of all of them.         *)
(***************************************************************************)
EXTENDS MCAgent, PolicySync_proofs, Session_proofs, SequenceTheorems, TLAPS

-----------------------------------------------------------------------------
(* The process                                                             *)

Shutting == {"stop ui", "shut down", "done"}

\* What the runtime knows of its components while nothing has failed: those that
\* run are in "started", so that StopStarted reaches them; none is left behind
\* once it is past that.  Only a process that was asked to stop gets there.
PartsKnown ==
    /\ \A c \in Components : component[c] = "stopping" => runtime = "stopping"
    /\ ~failed =>
         /\ \A c \in Components :
              /\ component[c] # "error"
              /\ component[c] = "on" =>
                   /\ runtime \in {"start", "wait", "stop", "stopping"}
                   /\ \E i \in 1 .. Len(started) : started[i] = c
         /\ runtime \in Shutting => cancelled
    /\ runtime \in {"stop", "stopping"} => cancelled

\* What the service control manager was told.
ReportsKnown ==
    /\ status = "start_pending" => runtime = "none"
    /\ cancelled => status \notin {"start_pending", "running"}
    /\ code # NoCode <=> status = "stopped"
    /\ CleanExit

ProcessSound == TypeOK /\ PartsKnown /\ ReportsKnown

\* The initial state is sound.
LEMMA ProcessInitSound == Init => ProcessSound
<1> SUFFICES ASSUME Init PROVE ProcessSound
  OBVIOUS
<1>1. TypeOK
  BY EmptySeq DEF Init, TypeOK, RuntimeSteps, Watcher
<1> QED
  BY <1>1, AgentProcessAssumption
  DEF Init, ProcessSound, PartsKnown, ReportsKnown, CleanExit, Shutting

\* The service handler.
LEMMA ExecuteSound ==
    ASSUME ProcessSound, Execute \/ StopRequest
    PROVE  ProcessSound'
<1>1. CASE StopTimesOut
  <2>1. /\ status' = "stopped" /\ code' = 1
        /\ UNCHANGED <<cancelled, enabled, runtime, started, component, failed, ui, request>>
    BY <1>1 DEF StopTimesOut, ReturnCode, Parts
  <2>2. status = "stop_pending" /\ 1 # NoCode /\ code' # 0
    BY <1>1, <2>1, AgentProcessAssumption DEF StopTimesOut
  <2>3. TypeOK'
    BY <2>1 DEF ProcessSound, TypeOK, ui
  <2>4. PartsKnown'
    BY <2>1 DEF ProcessSound, PartsKnown
  <2>5. ReportsKnown'
    BY <2>1, <2>2 DEF ReportsKnown, CleanExit
  <2> QED
    BY <2>3, <2>4, <2>5 DEF ProcessSound
<1> USE AgentProcessAssumption
    DEF ProcessSound, TypeOK, PartsKnown, ReportsKnown, CleanExit, Parts, Shutting, ui
<1>2. CASE BeginService
  BY <1>2 DEF BeginService, RuntimeSteps
<1>3. CASE StopRequest
  BY <1>3 DEF StopRequest
\* Only an error lets the runtime return without having been asked to.
<1>4. CASE RuntimeEnds
  BY <1>4 DEF RuntimeEnds, ReturnCode, ErrorCode
<1>5. CASE StopReturns
  BY <1>5 DEF StopReturns, ReturnCode, ErrorCode
<1> QED
  BY <1>1, <1>2, <1>3, <1>4, <1>5 DEF Execute

\* The steps of the runtime that start or stop no component.
LEMMA RuntimeStepSound ==
    ASSUME ProcessSound,
           StartUI \/ LoadPolicy \/ Started \/ ShutdownRequested \/ ModulesStopped
             \/ StopUI \/ ShutDownUI
    PROVE  ProcessSound'
<1> DEFINE Moves == UNCHANGED <<execute, enabled, started, component, request>>
<1>1. ASSUME Moves, runtime \notin {"none", "stopping"}, status # "stopped",
             TypeOK', PartsKnown'
      PROVE  ProcessSound'
  <2>1. UNCHANGED <<status, code, cancelled, component>> /\ code # 0
    BY <1>1, AgentProcessAssumption DEF execute, ProcessSound, ReportsKnown
  <2>2. ReportsKnown'
    BY <1>1, <2>1 DEF ProcessSound, ReportsKnown, CleanExit
  <2> QED
    BY <1>1, <2>2 DEF ProcessSound
<1>2. CASE StartUI
  <2>1. /\ runtime = "ui" /\ runtime' \in {"load", "done"} /\ status # "stopped" /\ Moves
        /\ (UNCHANGED failed /\ runtime' = "load") \/ failed'
    BY <1>2 DEF StartUI, AtStep, Alive, GotoStep, ui, execute
  <2>2. TypeOK'
    BY <1>2, <2>1 DEF StartUI, ProcessSound, TypeOK, RuntimeSteps, Watcher, ui, execute
  <2>3. PartsKnown'
    <3>1. UNCHANGED component /\ runtime' \notin {"stop", "stopping"}
      BY <2>1
    <3>2. CASE failed'
      BY <2>1, <3>1, <3>2 DEF ProcessSound, PartsKnown
    <3>3. CASE ~failed'
      <4>1. \A c \in Components : component[c] \notin {"stopping", "error", "on"}
        <5>1. ~failed
          BY <2>1, <3>3
        <5>2. runtime \notin {"start", "wait", "stop", "stopping"}
          BY <2>1
        <5> QED
          BY <5>1, <5>2 DEF ProcessSound, PartsKnown
      <4>2. runtime' \notin Shutting
        BY <2>1, <3>3 DEF Shutting
      <4> QED
        BY <3>1, <4>1, <4>2 DEF PartsKnown
    <3> QED
      BY <3>2, <3>3
  <2> QED
    BY <1>1, <2>1, <2>2, <2>3
<1>3. CASE LoadPolicy
  <2>1. /\ runtime = "load" /\ runtime' \in {"start", "stop ui"} /\ status # "stopped" /\ Moves
        /\ (UNCHANGED failed /\ runtime' = "start") \/ failed'
    BY <1>3 DEF LoadPolicy, AtStep, Alive, GotoStep, ui, execute
  <2>2. TypeOK'
    BY <1>3, <2>1 DEF LoadPolicy, ProcessSound, TypeOK, RuntimeSteps, Watcher, ui, execute
  <2>3. PartsKnown'
    <3>1. UNCHANGED component /\ runtime' \notin {"stop", "stopping"}
      BY <2>1
    <3>2. CASE failed'
      BY <2>1, <3>1, <3>2 DEF ProcessSound, PartsKnown
    <3>3. CASE ~failed'
      <4>1. \A c \in Components : component[c] \notin {"stopping", "error", "on"}
        <5>1. ~failed
          BY <2>1, <3>3
        <5>2. runtime \notin {"start", "wait", "stop", "stopping"}
          BY <2>1
        <5> QED
          BY <5>1, <5>2 DEF ProcessSound, PartsKnown
      <4>2. runtime' \notin Shutting
        BY <2>1, <3>3 DEF Shutting
      <4> QED
        BY <3>1, <4>1, <4>2 DEF PartsKnown
    <3> QED
      BY <3>2, <3>3
  <2> QED
    BY <1>1, <2>1, <2>2, <2>3
<1>4. CASE Started
  <2>1. /\ runtime = "start" /\ runtime' \in {"wait"} /\ status # "stopped" /\ Moves
        /\ UNCHANGED failed
    BY <1>4 DEF Started, AtStep, Alive, GotoStep, ui, execute
  <2>2. TypeOK'
    BY <1>4, <2>1 DEF Started, ProcessSound, TypeOK, RuntimeSteps, Watcher, ui, execute
  <2>3. PartsKnown'
    BY <2>1 DEF ProcessSound, TypeOK, PartsKnown, Shutting, execute
  <2> QED
    BY <1>1, <2>1, <2>2, <2>3
<1>5. CASE ShutdownRequested
  <2>1. /\ runtime = "wait" /\ runtime' \in {"stop"} /\ status # "stopped" /\ Moves /\ cancelled
        /\ UNCHANGED failed
    BY <1>5 DEF ShutdownRequested, AtStep, Alive, GotoStep, ui, execute
  <2>2. TypeOK'
    BY <1>5, <2>1 DEF ShutdownRequested, ProcessSound, TypeOK, RuntimeSteps, Watcher, ui, execute
  <2>3. PartsKnown'
    BY <2>1 DEF ProcessSound, TypeOK, PartsKnown, Shutting, execute
  <2> QED
    BY <1>1, <2>1, <2>2, <2>3
<1>6. CASE ModulesStopped
  <2>1. /\ runtime = "stop" /\ runtime' \in {"stop ui"} /\ status # "stopped"
        /\ Moves /\ started = <<>>
        /\ UNCHANGED failed
    BY <1>6 DEF ModulesStopped, AtStep, Alive, GotoStep, ui, execute
  <2>2. TypeOK'
    BY <1>6, <2>1 DEF ModulesStopped, ProcessSound, TypeOK, RuntimeSteps, Watcher, ui, execute
  <2>3. PartsKnown'
    <3>1. /\ UNCHANGED <<component, cancelled, failed>>
          /\ Len(started) = 0 /\ cancelled
      BY <2>1 DEF ProcessSound, PartsKnown, execute
    <3>2. \A c \in Components : component[c] # "stopping"
      BY <2>1 DEF ProcessSound, PartsKnown
    <3>3. ~failed => \A c \in Components : component[c] \notin {"error", "on"}
      <4>1. 1 .. Len(started) = {}
        BY <3>1
      <4> QED
        BY <4>1 DEF ProcessSound, PartsKnown
    <3>4. runtime' \notin {"stop", "stopping"}
      BY <2>1
    <3>5. (~failed => \A c \in Components : component[c] \notin {"error", "on"})'
      BY <3>1, <3>3
    <3>6. cancelled'
      BY <3>1
    <3> QED
      BY <3>1, <3>2, <3>4, <3>5, <3>6 DEF PartsKnown
  <2> QED
    BY <1>1, <2>1, <2>2, <2>3
<1>7. CASE StopUI
  <2>1. /\ runtime = "stop ui" /\ runtime' \in {"shut down", "done"} /\ status # "stopped" /\ Moves
        /\ UNCHANGED failed
    BY <1>7 DEF StopUI, AtStep, Alive, GotoStep, ui, execute
  <2>2. TypeOK'
    BY <1>7, <2>1 DEF StopUI, ProcessSound, TypeOK, RuntimeSteps, Watcher, ui, execute
  <2>3. PartsKnown'
    BY <2>1 DEF ProcessSound, TypeOK, PartsKnown, Shutting, execute
  <2> QED
    BY <1>1, <2>1, <2>2, <2>3
<1>8. CASE ShutDownUI
  <2>1. /\ runtime = "shut down" /\ runtime' \in {"done"} /\ status # "stopped" /\ Moves
        /\ UNCHANGED failed
    BY <1>8 DEF ShutDownUI, AtStep, Alive, GotoStep, ui, execute
  <2>2. TypeOK'
    BY <1>8, <2>1 DEF ShutDownUI, ProcessSound, TypeOK, RuntimeSteps, Watcher, ui, execute
  <2>3. PartsKnown'
    BY <2>1 DEF ProcessSound, TypeOK, PartsKnown, Shutting, execute
  <2> QED
    BY <1>1, <2>1, <2>2, <2>3
<1> QED
  BY <1>2, <1>3, <1>4, <1>5, <1>6, <1>7, <1>8

\* A component that is started is put on the list of those to stop.
LEMMA StartComponentSound ==
    ASSUME ProcessSound, StartComponent
    PROVE  ProcessSound'
<1>1. PICK i \in ToStart :
        \/ /\ component' = [component EXCEPT ![Order[i]] = "on"]
           /\ started' = Append(started, Order[i])
           /\ GotoStep("start") /\ UNCHANGED failed
        \/ /\ failed' = TRUE
           /\ GotoStep("stop ui") /\ UNCHANGED <<component, started>>
  BY DEF StartComponent
<1>2. runtime = "start" /\ status # "stopped" /\ UNCHANGED <<ui, request>>
  BY DEF StartComponent, AtStep, Alive
<1>3. Order[i] \in Components
  BY AgentProcessAssumption DEF ToStart, Components, ToSet
<1>4. CASE failed' /\ GotoStep("stop ui") /\ UNCHANGED <<component, started>>
  BY <1>2, <1>4, AgentProcessAssumption
  DEF ProcessSound, TypeOK, PartsKnown, ReportsKnown, CleanExit, Shutting, RuntimeSteps, ui,
      execute, GotoStep
<1>5. CASE /\ component' = [component EXCEPT ![Order[i]] = "on"]
           /\ started' = Append(started, Order[i])
           /\ GotoStep("start") /\ UNCHANGED failed
  <2>1. UNCHANGED <<execute, enabled, runtime, failed, ui, request>>
    BY <1>2, <1>5 DEF GotoStep
  <2>2. started \in Seq(Components) /\ started' \in Seq(Components)
    BY <1>3, <1>5, AppendProperties DEF ProcessSound, TypeOK
  <2>3. TypeOK'
    BY <1>3, <1>5, <2>1, <2>2 DEF ProcessSound, TypeOK, ui, execute
  <2>4. \A c \in Components : (\E k \in 1 .. Len(started) : started[k] = c) \/ c = Order[i]
          => \E k \in 1 .. Len(started') : started'[k] = c
    BY <1>3, <1>5, <2>2
  <2>5. PartsKnown'
    BY <1>2, <1>3, <1>5, <2>1, <2>4 DEF ProcessSound, TypeOK, PartsKnown, Shutting, execute
  <2>6. ReportsKnown'
    BY <1>2, <2>1, AgentProcessAssumption DEF ProcessSound, ReportsKnown, CleanExit, execute
  <2> QED
    BY <2>3, <2>5, <2>6 DEF ProcessSound
<1> QED
  BY <1>1, <1>4, <1>5

\* Stopping takes the last one off the list ...
LEMMA StopComponentSound ==
    ASSUME ProcessSound, StopComponent
    PROVE  ProcessSound'
<1> DEFINE n == Len(started)
<1>1. /\ runtime = "stop" /\ runtime' = "stopping" /\ status # "stopped"
      /\ UNCHANGED <<execute, enabled, failed, ui, request>>
      /\ started # <<>> /\ started' = Front(started)
      /\ component' = [component EXCEPT ![Last(started)] = "stopping"]
  BY DEF StopComponent, AtStep, Alive, GotoStep
<1>2. started \in Seq(Components) /\ n \in Nat \ {0} /\ started[n] \in Components
  <2>1. started \in Seq(Components)
    BY DEF ProcessSound, TypeOK
  <2> QED
    BY <1>1, <2>1, EmptySeq, LenProperties, ElementOfSeq
<1>3. Last(started) = started[n]
  BY DEF Last
<1>4. /\ started' \in Seq(Components) /\ Len(started') = n - 1
      /\ \A k \in 1 .. (n - 1) : started'[k] = started[k]
  <2>1. /\ n - 1 \in Int /\ 1 \in Int /\ \A k \in 1 .. (n - 1) : started[k] \in Components
    BY <1>2, ElementOfSeq
  <2>2. Front(started) = SubSeq(started, 1, n - 1)
    BY DEF Front
  <2> HIDE DEF n
  <2>3. /\ SubSeq(started, 1, n - 1) \in Seq(Components)
        /\ Len(SubSeq(started, 1, n - 1)) = IF 1 <= n - 1 THEN n - 1 - 1 + 1 ELSE 0
        /\ \A k \in 1 .. n - 1 - 1 + 1 : SubSeq(started, 1, n - 1)[k] = started[1 + k - 1]
    BY <2>1, SubSeqProperties
  <2> QED
    BY <1>1, <1>2, <2>2, <2>3
<1>5. TypeOK'
  BY <1>1, <1>2, <1>3, <1>4 DEF ProcessSound, TypeOK, RuntimeSteps, ui, execute
\* A component that still runs is not the last one that was started.
<1>6. \A c \in Components : component'[c] = "on" /\ (\E k \in 1 .. n : started[k] = c)
        => \E k \in 1 .. Len(started') : started'[k] = c
  BY <1>1, <1>2, <1>3, <1>4 DEF ProcessSound, TypeOK
<1>7. PartsKnown'
  BY <1>1, <1>2, <1>3, <1>6 DEF ProcessSound, TypeOK, PartsKnown, Shutting, execute
<1>8. ReportsKnown'
  BY <1>1, AgentProcessAssumption DEF ProcessSound, ReportsKnown, CleanExit, execute
<1> QED
  BY <1>5, <1>7, <1>8 DEF ProcessSound

\* ... and it is off when it stops, unless that fails.
LEMMA ComponentStopsSound ==
    ASSUME ProcessSound, ComponentStops
    PROVE  ProcessSound'
<1>1. /\ runtime = "stopping" /\ runtime' = "stop" /\ status # "stopped"
      /\ UNCHANGED <<execute, enabled, started, ui, request>>
      /\ \/ component' = Stopped("stopped") /\ UNCHANGED failed
         \/ component' = Stopped("error") /\ failed' = TRUE
  BY DEF ComponentStops, AtStep, Alive, GotoStep
<1>2. TypeOK'
  BY <1>1 DEF ProcessSound, TypeOK, RuntimeSteps, Stopped, ui, execute
<1>3. PartsKnown'
  BY <1>1 DEF ProcessSound, TypeOK, PartsKnown, Shutting, Stopped, Stopping, execute
<1>4. ReportsKnown'
  BY <1>1, AgentProcessAssumption DEF ProcessSound, ReportsKnown, CleanExit, execute
<1> QED
  BY <1>2, <1>3, <1>4 DEF ProcessSound

\* The goroutine of the UI server and its requests touch nothing else.
LEMMA ServerSound ==
    ASSUME ProcessSound, WatcherStopsUI \/ WatcherDone \/ ServeRequest \/ AnswerRequest
    PROVE  ProcessSound'
<1> USE DEF WatcherStopsUI, WatcherDone, ServeRequest, AnswerRequest, Runtime, ui, execute
<1>1. UNCHANGED <<execute, enabled, runtime, started, component, failed>>
  OBVIOUS
<1>2. TypeOK'
  BY <1>1 DEF ProcessSound, TypeOK, Watcher
<1>3. PartsKnown' /\ ReportsKnown'
  BY <1>1 DEF ProcessSound, PartsKnown, ReportsKnown, CleanExit
<1> QED
  BY <1>2, <1>3 DEF ProcessSound

\* Every step keeps the invariant.
LEMMA ProcessStepSound == ProcessSound /\ [Next]_vars => ProcessSound'
<1> SUFFICES ASSUME ProcessSound, [Next]_vars PROVE ProcessSound'
  OBVIOUS
<1>1. CASE UNCHANGED vars
  BY <1>1 DEF vars, ui, execute, ProcessSound, TypeOK, PartsKnown, ReportsKnown, CleanExit
<1>2. CASE Next
  BY <1>2, ExecuteSound, RuntimeStepSound, StartComponentSound, StopComponentSound,
     ComponentStopsSound, ServerSound
  DEF Next, RunStep
<1> QED
  BY <1>1, <1>2

\* Exit code 0 is the truth (CleanExit): the process was asked to stop, and all that
\* was started has stopped without an error (runtime_host.go:34-49,
\* registry.go:98-110, kidcontrol/runtime.go:95-107).
THEOREM ExitCodeIsTrue == Spec => [](TypeOK /\ CleanExit)
<1>1. ProcessSound => TypeOK /\ CleanExit
  BY DEF ProcessSound, ReportsKnown
<1> QED
  BY <1>1, ProcessInitSound, ProcessStepSound, PTL DEF Spec

\* The process reports to the service control manager what ServiceProcess lets it
\* report: above all it returns without having been asked to only with an error
\* (service_windows.go:18-52), the safety part of IsServiceProcess.
THEOREM ReportsAsAService == Spec => AsService!Init /\ [][AsService!Next]_AsService!processVars
<1>1. Init => AsService!Init
  BY DEF Init, AsService!Init
<1>2. ProcessSound /\ [Next]_vars => [AsService!Next]_AsService!processVars
  <2> SUFFICES ASSUME ProcessSound, [Next]_vars
               PROVE  AsService!Next \/ UNCHANGED <<status, code>>
    BY DEF AsService!processVars
  <2>1. CASE BeginService
    BY <2>1 DEF BeginService, AsService!Next, AsService!Run
  <2>2. CASE StopRequest
    BY <2>2 DEF StopRequest, AsService!Next, AsService!AskToStop
  <2>3. CASE RuntimeEnds
    <3>1. failed
      BY <2>3 DEF RuntimeEnds, ProcessSound, PartsKnown, ReportsKnown, Shutting
    <3> QED
      BY <2>3, <3>1 DEF RuntimeEnds, ReturnCode, ErrorCode, AsService!Next, AsService!Fail
  <2>4. CASE StopReturns \/ StopTimesOut
    BY <2>4 DEF StopReturns, StopTimesOut, ReturnCode, ErrorCode,
                AsService!Next, AsService!Stop, AsService!Codes
  <2>5. CASE RunStep \/ ComponentStops
    BY <2>5 DEF RunStep, ComponentStops, GotoStep, execute, StartUI, LoadPolicy, StartComponent,
                Started, ShutdownRequested, StopComponent, ModulesStopped, StopUI, ShutDownUI
  <2>6. CASE WatcherStopsUI \/ WatcherDone \/ ServeRequest \/ AnswerRequest
    BY <2>6 DEF WatcherStopsUI, WatcherDone, ServeRequest, AnswerRequest, Runtime, execute
  <2>7. CASE UNCHANGED vars
    BY <2>7 DEF vars, execute
  <2> QED
    BY <2>1, <2>2, <2>3, <2>4, <2>5, <2>6, <2>7 DEF Next, Execute
<1> QED
  BY <1>1, <1>2, ProcessInitSound, ProcessStepSound, PTL DEF Spec

-----------------------------------------------------------------------------
(* Installing and removing the service                                     *)

\* The ends of a call that UninstallStops speaks of.
UninstallEnds == {CallOver("uninstalled"), CallOver("timed_out")}

\* A call that deletes the service has seen it stopped, and one that polls has
\* waited no longer than the service has been stopping, unless others started it.
ControlSound ==
    /\ ControlTypeOK
    /\ UninstallStops
    /\ controlCall = CallOver("uninstalled") => ~installed
    /\ controlCall.step = "delete" =>
          serviceStatus = "stopped" \/ "delete" \in startedDuring
    /\ controlCall.step = "poll" /\ "poll" \notin startedDuring =>
          /\ controlCall.waited <= StopTicks
          /\ \/ serviceStatus = "stopped"
             \/ serviceStatus = "stop_pending" /\ controlCall.waited <= age

\* The values a call takes.
Steps == {"idle", "create", "query", "control", "delete", "query_to_start", "start"}

\* The states of a call that are no more than a name.
LEMMA StepCalls ==
    \A s \in Steps : /\ [step |-> s] \in ControlCalls /\ [step |-> s].step = s
                     /\ [step |-> s] \notin UninstallEnds
<1>1. ASSUME NEW s \in Steps PROVE [step |-> s] \in ControlCalls
  <2>1. CASE s = "idle"
    <3>1. [step |-> s] = NoCall
      BY <2>1 DEF NoCall
    <3> QED
      BY <3>1 DEF ControlCalls
  <2>2. CASE s # "idle"
    BY <2>2 DEF Steps, ControlCalls
  <2> QED
    BY <2>1, <2>2
<1>2. ASSUME NEW s \in Steps, NEW e \in Ends PROVE [step |-> s].step # CallOver(e).step
  BY DEF Steps, CallOver
<1> QED
  BY <1>1, <1>2 DEF UninstallEnds, Ends

\* A call that is over says how it ended.
LEMMA OverCalls ==
    \A e \in Ends : /\ CallOver(e) \in ControlCalls /\ CallOver(e).step = "over"
                    /\ CallOver(e).end = e
BY DEF ControlCalls, CallOver, Ends

\* A call that has ended otherwise than UninstallStops speaks of.
LEMMA OtherEnds ==
    \A e \in {"error", "installed", "started"} :
        /\ CallOver(e) \in ControlCalls /\ CallOver(e).step = "over"
        /\ CallOver(e) \notin UninstallEnds
BY OverCalls DEF Ends, UninstallEnds

\* A poll counts how long it has waited ...
LEMMA PollCalls ==
    \A n \in 0 .. WaitTicks :
        LET c == [step |-> "poll", waited |-> n]
        IN  /\ c \in ControlCalls /\ c.step = "poll" /\ c.waited = n
            /\ c \notin UninstallEnds
<1>1. ASSUME NEW n \in 0 .. WaitTicks, NEW e \in Ends
      PROVE  [step |-> "poll", waited |-> n].step # CallOver(e).step
  BY DEF CallOver
<1> QED
  BY <1>1 DEF ControlCalls, UninstallEnds, Ends

\* ... and holds nothing else.
LEMMA PollingCalls ==
    ASSUME NEW c \in ControlCalls, c.step = "poll"
    PROVE  c \in [step : {"poll"}, waited : 0 .. WaitTicks]
<1>1. c # NoCall
  BY DEF NoCall
<1>2. c \notin [step : {"create", "query", "control", "delete", "query_to_start", "start"}]
  OBVIOUS
<1>3. c \notin [step : {"over"}, end : Ends]
  OBVIOUS
<1> QED
  BY <1>1, <1>2, <1>3 DEF ControlCalls

\* The initial state is sound.
LEMMA ControlInitSound == ControlInit => ControlSound
<1> SUFFICES ASSUME ControlInit PROVE ControlSound
  OBVIOUS
<1>1. /\ controlCall \in ControlCalls /\ controlCall.step = "idle"
      /\ controlCall \notin UninstallEnds
  BY StepCalls DEF ControlInit, NoCall, Steps
<1>2. ControlTypeOK
  <2>1. age \in 0 .. StopTicks /\ controls \in 0 .. MaxControls
    BY ServiceControlAssumption DEF ControlInit
  <2> QED
    BY <1>1, <2>1 DEF ControlInit, ControlTypeOK, Process!Statuses, Process!Codes
<1> QED
  BY <1>1, <1>2 DEF ControlInit, ControlSound, UninstallStops, UninstallEnds

\* The process, the machine and the clock.
LEMMA MachineStepSound ==
    ASSUME ControlSound,
           Runs \/ Fail \/ Stop \/ ConsoleStop \/ ConsoleStart \/ Boot \/ ControlTick
    PROVE  ControlSound'
<1> USE ServiceControlAssumption
    DEF ControlSound, ControlTypeOK, UninstallStops, Process!Statuses, Process!Codes
<1>1. CASE Runs
  BY <1>1 DEF Runs, Apart, Process!Run
<1>2. CASE Fail
  BY <1>2 DEF Fail, Apart, Process!Fail
<1>3. CASE Stop
  BY <1>3 DEF Stop, Apart, Process!Stop
<1>4. CASE ConsoleStop
  BY <1>4 DEF ConsoleStop, Process!AskToStop
<1>5. CASE ConsoleStart
  <2>1. /\ startedDuring \subseteq startedDuring'
        /\ startedDuring' \subseteq {"poll", "delete"}
        /\ controlCall.step \in {"poll", "delete"} => controlCall.step \in startedDuring'
    BY <1>5 DEF ConsoleStart
  <2> QED
    BY <1>5, <2>1 DEF ConsoleStart, StartProcess
<1>6. CASE Boot
  BY <1>6, StepCalls DEF Boot, NoCall, Steps, UninstallEnds
<1>7. CASE ControlTick
  <2>1. CASE controlCall.step = "poll"
    <3> DEFINE n == controlCall.waited
    <3>1. controlCall \in [step : {"poll"}, waited : 0 .. WaitTicks]
      BY <2>1, PollingCalls
    <3>2. /\ n \in 0 .. WaitTicks /\ n < WaitTicks
          /\ controlCall' = [controlCall EXCEPT !.waited = @ + 1]
          /\ UNCHANGED <<installed, serviceStatus, exitCode, controls, startedDuring>>
      BY <1>7, <2>1, <3>1 DEF ControlTick
    <3>3. controlCall' = [step |-> "poll", waited |-> n + 1] /\ n + 1 \in 0 .. WaitTicks
      BY <3>1, <3>2
    <3>4. /\ controlCall' \in ControlCalls /\ controlCall'.step = "poll"
          /\ controlCall'.waited = n + 1 /\ controlCall' \notin UninstallEnds
      BY <3>3, PollCalls
    <3>5. age' \in 0 .. StopTicks
      BY <1>7 DEF ControlTick
    <3>6. ASSUME "poll" \notin startedDuring
          PROVE  /\ serviceStatus = "stop_pending"
                 /\ age' = age + 1 /\ n + 1 <= age' /\ n + 1 <= StopTicks
      BY <1>7, <2>1, <3>2, <3>6 DEF ControlTick
    <3> QED
      BY <2>1, <3>2, <3>4, <3>5, <3>6 DEF UninstallEnds
  <2>2. CASE controlCall.step # "poll"
    BY <1>7, <2>2 DEF ControlTick
  <2> QED
    BY <2>1, <2>2
<1> HIDE DEF ControlSound
<1> QED
  BY <1>1, <1>2, <1>3, <1>4, <1>5, <1>6, <1>7

\* A call that ends with an error leaves the rest as it is.
LEMMA RefusedSound ==
    ASSUME ControlSound, Refused, UNCHANGED <<controls, startedDuring>>
    PROVE  ControlSound'
BY OtherEnds DEF ControlSound, ControlTypeOK, UninstallStops, UninstallEnds, Refused,
   GotoCall, scm

\* The administrator's calls.
LEMMA CallStepSound ==
    ASSUME ControlSound, StopTicks < WaitTicks,
           \/ Install \/ CreateService \/ Uninstall \/ Query \/ Control \/ PollFails
           \/ PollStopped \/ PollTimesOut \/ Delete \/ Start \/ QueryToStart \/ StartService
    PROVE  ControlSound'
<1>1. ASSUME NEW c, NEW d, BeginCall(c, d),
             \A x \in {c, d} : /\ x \in ControlCalls /\ x.step \notin {"poll", "delete"}
                               /\ x \notin UninstallEnds
      PROVE  ControlSound'
  BY <1>1, OtherEnds, ServiceControlAssumption
     DEF BeginCall, ControlSound, ControlTypeOK, UninstallStops, UninstallEnds, scm
<1> USE ServiceControlAssumption, StepCalls, OtherEnds
    DEF ControlSound, ControlTypeOK, UninstallStops, UninstallEnds, Steps,
        Process!Statuses, Process!Codes, scm, GotoCall, AtCall, To, Keep
<1>2. CASE Install
  BY <1>1, <1>2 DEF Install
<1>3. CASE CreateService
  BY <1>3, RefusedSound DEF CreateService
<1>4. CASE Uninstall
  BY <1>1, <1>4 DEF Uninstall
<1>5. CASE Query
  BY <1>5, RefusedSound DEF Query
<1>6. CASE Control
  <2>1. /\ Poll \in ControlCalls /\ Poll.step = "poll" /\ Poll.waited = 0
        /\ Poll \notin UninstallEnds
    BY PollCalls DEF Poll
  <2> HIDE DEF Poll
  <2>2. CASE Refused
    BY <1>6, <2>2, RefusedSound DEF Control
  <2>3. CASE serviceStatus = "stopped" /\ GotoCall(Poll)
    BY <1>6, <2>1, <2>3 DEF Control
  <2>4. CASE Process!AskToStop /\ age' = 0 /\ controlCall' = Poll /\ UNCHANGED installed
    BY <1>6, <2>1, <2>4 DEF Control, Process!AskToStop
  <2> QED
    BY <1>6, <2>2, <2>3, <2>4 DEF Control
<1>7. CASE PollFails
  BY <1>7, RefusedSound DEF PollFails
<1>8. CASE PollStopped
  BY <1>8 DEF PollStopped
<1>9. CASE PollTimesOut
  <2>1. /\ CallOver("timed_out") \in ControlCalls /\ CallOver("timed_out").step = "over"
        /\ CallOver("timed_out") # CallOver("uninstalled")
    BY OverCalls DEF Ends
  <2>2. "poll" \in startedDuring
    BY <1>9 DEF PollTimesOut
  <2> QED
    BY <1>9, <2>1, <2>2 DEF PollTimesOut
<1>10. CASE Delete
  <2>1. /\ CallOver("uninstalled") \in ControlCalls /\ CallOver("uninstalled").step = "over"
        /\ CallOver("timed_out") # CallOver("uninstalled")
    BY OverCalls DEF Ends
  <2>2. CASE Refused
    BY <1>10, <2>2, RefusedSound DEF Delete
  <2>3. CASE installed' = FALSE /\ controlCall' = CallOver("uninstalled") /\ Keep
    BY <1>10, <2>1, <2>3 DEF Delete
  <2> QED
    BY <1>10, <2>2, <2>3 DEF Delete
<1>11. CASE Start
  BY <1>1, <1>11 DEF Start
<1>12. CASE QueryToStart
  BY <1>12, RefusedSound DEF QueryToStart
<1>13. CASE StartService
  BY <1>13, RefusedSound DEF StartService, StartProcess
<1> HIDE DEF ControlSound
<1> QED
  BY <1>2, <1>3, <1>4, <1>5, <1>6, <1>7, <1>8, <1>9, <1>10, <1>11, <1>12, <1>13

\* An uninstall that reports success leaves no process of the service behind,
\* and one that gives up has met somebody else who started the service while it
\* waited, provided it waits longer than the service lets its runtime take
\* (service_windows.go:18, cmd/drowsyfriend/run_windows.go:19).  The service may
\* also be started between the query that saw it stopped and Delete (:74-77):
\* then its process outlasts the uninstall.
THEOREM UninstallWorks ==
    ASSUME StopTicks < WaitTicks
    PROVE  ControlSpec => [](ControlTypeOK /\ UninstallStops)
<1>1. ControlSound /\ [ControlNext]_controlVars => ControlSound'
  <2> SUFFICES ASSUME ControlSound, [ControlNext]_controlVars PROVE ControlSound'
    OBVIOUS
  <2>1. CASE UNCHANGED controlVars
    BY <2>1 DEF controlVars, ControlSound, ControlTypeOK, UninstallStops
  <2>2. CASE ControlNext
    BY <2>2, MachineStepSound, CallStepSound DEF ControlNext
  <2> QED
    BY <2>1, <2>2
<1>2. ControlSound => ControlTypeOK /\ UninstallStops
  BY DEF ControlSound
<1> QED
  BY <1>1, <1>2, ControlInitSound, PTL DEF ControlSpec

-----------------------------------------------------------------------------
(* All parts                                                               *)

\* The types of the agent's parts (TypesOK of MCAgent).
THEOREM AgentTypes ==
    ASSUME StopTicks < WaitTicks
    PROVE  SyncSpec /\ Spec /\ ControlSpec /\ ConfigSpec /\ BridgeSpec => []TypesOK
<1>1. SyncTypeOK /\ (TypeOK /\ CleanExit) /\ (ControlTypeOK /\ UninstallStops)
        /\ ConfigTypeOK /\ (BridgeTypeOK /\ ReportsAreTrue) => TypesOK
  BY DEF TypesOK
<1> QED
  BY <1>1, SyncTypes, ExitCodeIsTrue, UninstallWorks, ConfigTypes, AnswersHold, PTL
=============================================================================
