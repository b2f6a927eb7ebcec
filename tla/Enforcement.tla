----------------------------- MODULE Enforcement -----------------------------
(***************************************************************************)
(* Enforcement on the child's device: the two loops of KidControl          *)
(* (internal/modules/kidcontrol: app_monitor.go, window_monitor.go), what  *)
(* they do with an observation (runtime.go, decision.go, action.go), their *)
(* start and stop, and the processes and windows they watch, which come    *)
(* and go meanwhile.                                                       *)
(*                                                                         *)
(* A loop reads the list of processes or the window in front, decides, and *)
(* closes by process id or window id in a later step.  Process ids are     *)
(* used again; windows change their titles.  A process has one window.     *)
(* Writing to the audit log does not fail (internal/audit/logger.go).      *)
(***************************************************************************)
EXTENDS Naturals, Sequences, FiniteSets

CONSTANTS Pids,          \* process ids, positive
          Apps, BlockedApps,
          Titles,        \* window titles
          BlockedTitles, \* those that contain a blocked keyword
          NoTitle,
          Configs,       \* settings the module may be started with
          MaxLaunches,   \* bound on processes started
          MaxStarts      \* bound on starts of the module

ASSUME EnforcementAssumption ==
    /\ Pids \subseteq Nat \ {0} /\ BlockedApps \subseteq Apps /\ BlockedTitles \subseteq Titles
    /\ NoTitle \notin Titles
    /\ Configs \subseteq [mode : {"monitor", "enforce"}, dryRun : BOOLEAN,
                          app : BOOLEAN, window : BOOLEAN]
    /\ MaxLaunches \in Nat /\ MaxStarts \in Nat \ {0}

VARIABLES process,        \* process[p]: the launch that runs as pid p, or None
          launched,       \* launched[i]: program and title of launch i
          front,          \* the launch whose window is in front, or None
          config,
          phase,          \* of the module: see Phases
          appLoop, windowLoop,
          handledPIDs, handledWindows,
          attempts,       \* history: closings tried since the start, by target, up to 2
          starts

device == <<process, launched, front>>
handled == <<handledPIDs, handledWindows>>
vars == <<device, config, phase, appLoop, windowLoop, handled, attempts, starts>>

None == 0
Launches == 1 .. MaxLaunches

\* Cancelled: the context has ended.  The module then stops the window
\* monitor first, and each monitor's Stop waits for its loop.
Phases == {"running", "cancelled", "window stopped", "stopped"}

Off == [step |-> "off"]
Wait == [step |-> "wait"]
AppLoop == {Off, Wait} \cup [step : {"handle"}, todo : SUBSET (Pids \X Apps)]
              \cup [step : {"close"}, pid : Pids, todo : SUBSET (Pids \X Apps)]
WindowLoop == {Off, Wait} \cup [step : {"close"}, id : Launches, pid : Pids, title : Titles]

\* handledWindows' key: window id, process id and title.
Key(i, p, t) == <<i, p, t>>
Target(p) == <<None, p, NoTitle>>
Targets == {Target(p) : p \in Pids} \cup (Launches \X Pids \X Titles)

Running(i) == \E p \in Pids : process[p] = i
PidOf(i) == CHOOSE p \in Pids : process[p] = i

Loop(enabled) == IF enabled THEN Wait ELSE Off

Init ==
    /\ process = [p \in Pids |-> None]
    /\ launched = <<>>
    /\ front = None
    /\ config \in Configs
    /\ phase = "running"
    /\ appLoop = Loop(config.app)
    /\ windowLoop = Loop(config.window)
    /\ handledPIDs = {} /\ handledWindows = {}
    /\ attempts = [t \in Targets |-> 0]
    /\ starts = 1

-----------------------------------------------------------------------------
(* The device                                                              *)

Agent == UNCHANGED <<config, phase, appLoop, windowLoop, handled, attempts, starts>>

Launch(p, a, t) ==
    /\ process[p] = None /\ Len(launched) < MaxLaunches
    /\ launched' = Append(launched, [app |-> a, title |-> t])
    /\ process' = [process EXCEPT ![p] = Len(launched')]
    /\ front' = Len(launched')
    /\ Agent

Gone(i) ==
    /\ process' = [p \in Pids |-> IF process[p] = i THEN None ELSE process[p]]
    /\ front' = IF front = i THEN None ELSE front
    /\ UNCHANGED launched

Exit(p) == process[p] # None /\ Gone(process[p]) /\ Agent

Retitle(p, t) ==
    /\ process[p] # None
    /\ launched' = [launched EXCEPT ![process[p]].title = t]
    /\ UNCHANGED <<process, front>> /\ Agent

BringToFront(p) ==
    /\ process[p] # None
    /\ front' = process[p]
    /\ UNCHANGED <<process, launched>> /\ Agent

-----------------------------------------------------------------------------
(* Start and stop                                                          *)

\* Module.Start after a restart of the agent: nothing has been handled yet.
Start(c) ==
    /\ phase = "stopped" /\ starts < MaxStarts
    /\ starts' = starts + 1
    /\ config' = c
    /\ phase' = "running"
    /\ appLoop' = Loop(c.app) /\ windowLoop' = Loop(c.window)
    /\ handledPIDs' = {} /\ handledWindows' = {}
    /\ attempts' = [t \in Targets |-> 0]
    /\ UNCHANGED device

Stopping(next) ==
    /\ phase' = next
    /\ UNCHANGED <<device, config, appLoop, windowLoop, handled, attempts, starts>>

Cancel == phase = "running" /\ Stopping("cancelled")

Stop ==
    \/ phase = "cancelled" /\ windowLoop = Off /\ Stopping("window stopped")
    \/ phase = "window stopped" /\ appLoop = Off /\ Stopping("stopped")

Cancelled == phase # "running"

\* run returns; when the ticker is ready too, select may take either.
Leave ==
    /\ Cancelled
    /\ \/ appLoop = Wait /\ appLoop' = Off /\ UNCHANGED windowLoop
       \/ windowLoop = Wait /\ windowLoop' = Off /\ UNCHANGED appLoop
    /\ UNCHANGED <<device, config, phase, handled, attempts, starts>>

-----------------------------------------------------------------------------
(* The app monitor                                                         *)

Apart == UNCHANGED <<launched, config, phase, windowLoop, handledWindows, starts>>
Enforcing == config.mode = "enforce" /\ ~config.dryRun

\* Listing fails once the context has ended.
Scan ==
    /\ appLoop = Wait /\ ~Cancelled
    /\ appLoop' = [step |-> "handle",
                   todo |-> {<<p, launched[process[p]].app>> :
                                p \in {q \in Pids : process[q] # None}}]
    /\ Apart /\ UNCHANGED <<process, front, handledPIDs, attempts>>

\* Slip: a process is only noted once it has been closed.
HandleAppRetrying ==
    /\ appLoop.step = "handle"
    /\ \E o \in appLoop.todo :
         LET rest == appLoop.todo \ {o}
         IN  appLoop' = IF o[2] \in BlockedApps /\ Enforcing
                        THEN [step |-> "close", pid |-> o[1], todo |-> rest]
                        ELSE [step |-> "handle", todo |-> rest]
    /\ Apart /\ UNCHANGED <<process, front, handledPIDs, attempts>>

\* A blocked process is noted before it is closed, in whatever mode.
HandleApp ==
    /\ appLoop.step = "handle"
    /\ \E o \in appLoop.todo :
         LET new == o[2] \in BlockedApps /\ o[1] \notin handledPIDs
             rest == appLoop.todo \ {o}
         IN  /\ handledPIDs' = IF new THEN handledPIDs \cup {o[1]} ELSE handledPIDs
             /\ appLoop' = IF new /\ Enforcing
                           THEN [step |-> "close", pid |-> o[1], todo |-> rest]
                           ELSE [step |-> "handle", todo |-> rest]
    /\ Apart /\ UNCHANGED <<process, front, attempts>>

Handled ==
    /\ appLoop.step = "handle" /\ appLoop.todo = {}
    /\ appLoop' = Wait
    /\ Apart /\ UNCHANGED <<process, front, handledPIDs, attempts>>

Attempt(t) == attempts' = [attempts EXCEPT ![t] = IF @ = 2 THEN 2 ELSE @ + 1]

\* TerminateProcess ends whatever runs under the id by now.
CloseProcess ==
    /\ appLoop.step = "close" /\ ~Cancelled
    /\ process[appLoop.pid] # None /\ Gone(process[appLoop.pid])
    /\ Attempt(Target(appLoop.pid))
    /\ appLoop' = [step |-> "handle", todo |-> appLoop.todo]
    /\ UNCHANGED <<config, phase, windowLoop, handled, starts>>

\* Gone, refused or cancelled: the rest of the scan is dropped.
CloseProcessFails ==
    /\ appLoop.step = "close"
    /\ Attempt(Target(appLoop.pid))
    /\ appLoop' = Wait
    /\ Apart /\ UNCHANGED <<process, front, handledPIDs>>

-----------------------------------------------------------------------------
(* The window monitor                                                      *)

Beside == UNCHANGED <<config, phase, appLoop, handledPIDs, starts>>

\* A blocked program comes before a blocked title; a program counts only
\* while app control is enabled.
BlockedWindow(i) ==
    \/ config.app /\ launched[i].app \in BlockedApps
    \/ launched[i].title \in BlockedTitles

Observe ==
    /\ windowLoop = Wait /\ ~Cancelled
    /\ front # None
    /\ LET key == Key(front, PidOf(front), launched[front].title)
           new == BlockedWindow(front) /\ key \notin handledWindows
       IN  /\ handledWindows' = IF new THEN handledWindows \cup {key} ELSE handledWindows
           /\ windowLoop' = IF new /\ Enforcing
                            THEN [step |-> "close", id |-> key[1], pid |-> key[2], title |-> key[3]]
                            ELSE Wait
    /\ Beside /\ UNCHANGED <<device, attempts>>

WindowKey == Key(windowLoop.id, windowLoop.pid, windowLoop.title)

\* WM_CLOSE goes to the window as it is by now, which may stay all the same.
CloseWindow ==
    /\ windowLoop.step = "close" /\ ~Cancelled
    /\ Running(windowLoop.id)
    /\ Gone(windowLoop.id) \/ UNCHANGED device
    /\ Attempt(WindowKey)
    /\ windowLoop' = Wait
    /\ Beside /\ UNCHANGED handledWindows

CloseWindowFails ==
    /\ windowLoop.step = "close"
    /\ Attempt(WindowKey)
    /\ windowLoop' = Wait
    /\ Beside /\ UNCHANGED <<device, handledWindows>>

-----------------------------------------------------------------------------
AppStep == Scan \/ HandleApp \/ Handled \/ CloseProcess \/ CloseProcessFails
WindowStep == Observe \/ CloseWindow \/ CloseWindowFails

Next ==
    \/ \E p \in Pids, a \in Apps, t \in Titles : Launch(p, a, t)
    \/ \E p \in Pids : Exit(p) \/ BringToFront(p)
    \/ \E p \in Pids, t \in Titles : Retitle(p, t)
    \/ \E c \in Configs : Start(c)
    \/ Cancel \/ Stop \/ Leave
    \/ AppStep \/ WindowStep

Spec == Init /\ [][Next]_vars

\* The loops run, calls of the platform return, and a loop whose context has
\* ended leaves when it gets to the select.
Fairness ==
    /\ WF_vars(AppStep) /\ WF_vars(CloseWindow \/ CloseWindowFails)
    /\ WF_vars(Leave) /\ WF_vars(Stop)

-----------------------------------------------------------------------------
TypeOK ==
    /\ process \in [Pids -> Launches \cup {None}]
    /\ launched \in Seq([app : Apps, title : Titles])
    /\ front \in Launches \cup {None}
    /\ config \in Configs
    /\ phase \in Phases
    /\ appLoop \in AppLoop /\ windowLoop \in WindowLoop
    /\ handledPIDs \subseteq Pids
    /\ handledWindows \subseteq Launches \X Pids \X Titles

\* "DoesNotRepeatActionForSameProcessID" (runtime_test.go:354), and the same for
\* a window under one title: between a start and a stop a target is closed
\* once, also when closing it failed (runtime.go:109-163, :225-252).  Once Stop
\* has returned no loop goes on to act, also when it came in the middle of a scan:
\* each monitor's Stop waits for its loop (app_monitor.go:105-143).
ActsOnce ==
    /\ \A t \in Targets : attempts[t] <= 1
    /\ phase = "stopped" => appLoop = Off /\ windowLoop = Off

\* An id under which a blocked process runs is acted on in the end, although
\* each scan gives up at the first process that cannot be closed
\* (runtime.go:109-131).
BlockedAreHandled ==
    \A p \in Pids :
        (phase = "running" /\ config.app /\ Enforcing
            /\ process[p] # None /\ launched[process[p]].app \in BlockedApps)
        ~> (attempts[Target(p)] > 0 \/ process[p] = None \/ phase # "running")
=============================================================================
