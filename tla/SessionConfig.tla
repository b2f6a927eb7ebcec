---------------------------- MODULE SessionConfig ----------------------------
(***************************************************************************)
(* Choosing the child account whose session worker starts at login         *)
(* (internal/sessionconfig, called by drowsyfriendctl session-worker).     *)
(*                                                                         *)
(* The choice is two values of a machine key; the worker's login startup   *)
(* is a value in the child's own hive, which is there only while the child *)
(* is logged in.  Every call is a process of its own, which may be killed  *)
(* between two writes; each write may fail, and so may what a call does to *)
(* undo an earlier one.                                                    *)
(***************************************************************************)
EXTENDS Naturals

CONSTANTS Children, Workers,   \* child accounts, worker executables
          Absent,
          Callers,             \* administrators
          MaxCommands,         \* bound on calls
          MaxFaults            \* bound on failed writes and killed processes

ASSUME SessionConfigAssumption ==
    /\ Absent \notin Children \cup Workers
    /\ MaxCommands \in Nat /\ MaxFaults \in Nat

VARIABLES childSID, workerPath,  \* the values of the machine key
          startup,               \* startup[s]: the worker that starts when s logs in
          hives,                 \* the children logged in
          command,               \* command[c]: the call of c, and how its last one ended
          commands, faults

registry == <<childSID, workerPath, startup>>
configVars == <<registry, hives, command, commands, faults>>

Configurations == [child : Children, worker : Workers]
NoCommand == [step |-> "idle"]
EnableSteps == {"load", "set startup", "save child", "save path", "drop child", "undo startup"}
Commands ==
    {NoCommand}
      \cup [step : EnableSteps, want : Configurations, known : BOOLEAN]
      \cup [step : {"load to disable", "load to show", "clear path", "clear child"}]
      \cup [step : {"clear startup", "read startup"}, of : Configurations]
      \cup [step : {"enabled"}, want : Configurations]
      \cup [step : {"disabled"}]
      \cup [step : {"shown"}, of : Configurations \cup {Absent}, matches : BOOLEAN]

Ended == {"idle", "enabled", "disabled", "shown"}

ConfigInit ==
    /\ childSID = Absent /\ workerPath = Absent
    /\ startup = [s \in Children |-> Absent]
    /\ hives \in SUBSET Children
    /\ command = [c \in Callers |-> NoCommand]
    /\ commands = 0 /\ faults = 0

-----------------------------------------------------------------------------
(* The registry                                                            *)

\* Only one of the two values is there: load reports an error.
Half == (childSID = Absent) # (workerPath = Absent)
Configured == childSID # Absent /\ workerPath # Absent
MachineConfiguration == [child |-> childSID, worker |-> workerPath]

GotoCommand(c, next) == command' = [command EXCEPT ![c] = next]
Kept == UNCHANGED <<hives, commands>>

Login(s) == /\ s \notin hives /\ hives' = hives \cup {s}
            /\ UNCHANGED <<registry, command, commands, faults>>

Logout(s) == /\ s \in hives /\ hives' = hives \ {s}
             /\ UNCHANGED <<registry, command, commands, faults>>

\* A step that fails where the registry refuses it.
Fault(c, next) ==
    /\ faults < MaxFaults /\ faults' = faults + 1
    /\ GotoCommand(c, next)
    /\ UNCHANGED registry /\ Kept

\* What Load and the service see.
Load(c, half, absent, present) ==
    /\ \/ Half /\ GotoCommand(c, half)
       \/ ~Half /\ ~Configured /\ GotoCommand(c, absent)
       \/ Configured /\ GotoCommand(c, present)
    /\ UNCHANGED <<registry, faults>> /\ Kept

-----------------------------------------------------------------------------
(* Enable                                                                  *)

BeginCommand(c, first) ==
    /\ command[c].step \in Ended /\ commands < MaxCommands
    /\ commands' = commands + 1
    /\ GotoCommand(c, first)
    /\ UNCHANGED <<registry, hives, faults>>

Enable(c, w) == BeginCommand(c, [step |-> "load", want |-> w, known |-> FALSE])

\* Slip: a configured child is left as it is, startup and all.
LoadToEnableTrusting(c) ==
    /\ command[c].step = "load"
    /\ LET w == command[c].want
       IN  Load(c, NoCommand, [command[c] EXCEPT !.step = "set startup"],
                IF MachineConfiguration # w THEN NoCommand
                ELSE [step |-> "enabled", want |-> w])

\* Another configuration is a conflict.
LoadToEnable(c) ==
    /\ command[c].step = "load"
    /\ LET set == [command[c] EXCEPT !.step = "set startup"]
       IN  Load(c, NoCommand, set,
                IF MachineConfiguration # command[c].want THEN NoCommand
                ELSE [set EXCEPT !.known = TRUE])

\* ensureUserHive: without the child's hive there is an error.
NoHive(c, s) ==
    s \notin hives /\ GotoCommand(c, NoCommand) /\ UNCHANGED <<registry, faults>> /\ Kept

Enabled(c) == [step |-> "enabled", want |-> command[c].want]

SetStartup(c) ==
    /\ command[c].step = "set startup"
    /\ LET w == command[c].want
       IN  \/ NoHive(c, w.child)
           \/ w.child \in hives /\ Fault(c, NoCommand)
           \/ /\ w.child \in hives
              /\ startup' = [startup EXCEPT ![w.child] = w.worker]
              /\ GotoCommand(c, IF command[c].known THEN Enabled(c)
                         ELSE [command[c] EXCEPT !.step = "save child"])
              /\ UNCHANGED <<childSID, workerPath, faults>> /\ Kept

SaveChild(c) ==
    /\ command[c].step = "save child"
    /\ \/ Fault(c, [command[c] EXCEPT !.step = "undo startup"])
       \/ /\ childSID' = command[c].want.child
          /\ GotoCommand(c, [command[c] EXCEPT !.step = "save path"])
          /\ UNCHANGED <<workerPath, startup, faults>> /\ Kept

SavePath(c) ==
    /\ command[c].step = "save path"
    /\ \/ Fault(c, [command[c] EXCEPT !.step = "drop child"])
       \/ /\ workerPath' = command[c].want.worker
          /\ GotoCommand(c, Enabled(c))
          /\ UNCHANGED <<childSID, startup, faults>> /\ Kept

\* save removes the child's SID again; whether it could is not looked at.
DropChild(c) ==
    /\ command[c].step = "drop child"
    /\ LET undo == [command[c] EXCEPT !.step = "undo startup"]
       IN  \/ Fault(c, undo)
           \/ /\ childSID' = Absent
              /\ GotoCommand(c, undo)
              /\ UNCHANGED <<workerPath, startup, faults>> /\ Kept

\* Nor is whether the startup could be removed.
UndoStartup(c) ==
    /\ command[c].step = "undo startup"
    /\ LET s == command[c].want.child
       IN  \/ NoHive(c, s)
           \/ s \in hives /\ Fault(c, NoCommand)
           \/ /\ s \in hives
              /\ startup' = [startup EXCEPT ![s] = Absent]
              /\ GotoCommand(c, NoCommand)
              /\ UNCHANGED <<childSID, workerPath, faults>> /\ Kept

-----------------------------------------------------------------------------
(* Disable and status                                                      *)

Disable(c) == BeginCommand(c, [step |-> "load to disable"])

LoadToDisable(c) ==
    /\ command[c].step = "load to disable"
    /\ Load(c, NoCommand, [step |-> "disabled"],
            [step |-> "clear startup", of |-> MachineConfiguration])

\* Slip: a child that is logged out is taken to have no startup.
ClearStartupLoggedOut(c) ==
    /\ command[c].step = "clear startup"
    /\ LET s == command[c].of.child
       IN  \/ s \in hives /\ Fault(c, NoCommand)
           \/ /\ startup' = [startup EXCEPT ![s] = IF s \in hives THEN Absent ELSE @]
              /\ GotoCommand(c, [step |-> "clear child"])
              /\ UNCHANGED <<childSID, workerPath, faults>> /\ Kept

ClearStartup(c) ==
    /\ command[c].step = "clear startup"
    /\ LET s == command[c].of.child
       IN  \/ NoHive(c, s)
           \/ s \in hives /\ Fault(c, NoCommand)
           \/ /\ s \in hives
              /\ startup' = [startup EXCEPT ![s] = Absent]
              /\ GotoCommand(c, [step |-> "clear child"])
              /\ UNCHANGED <<childSID, workerPath, faults>> /\ Kept

ClearChild(c) ==
    /\ command[c].step = "clear child"
    /\ \/ Fault(c, NoCommand)
       \/ /\ childSID' = Absent
          /\ GotoCommand(c, [step |-> "clear path"])
          /\ UNCHANGED <<workerPath, startup, faults>> /\ Kept

ClearPath(c) ==
    /\ command[c].step = "clear path"
    /\ \/ Fault(c, NoCommand)
       \/ /\ workerPath' = Absent
          /\ GotoCommand(c, [step |-> "disabled"])
          /\ UNCHANGED <<childSID, startup, faults>> /\ Kept

Status(c) == BeginCommand(c, [step |-> "load to show"])

LoadToShow(c) ==
    /\ command[c].step = "load to show"
    /\ Load(c, NoCommand, [step |-> "shown", of |-> Absent, matches |-> FALSE],
            [step |-> "read startup", of |-> MachineConfiguration])

ReadStartup(c) ==
    /\ command[c].step = "read startup"
    /\ LET of == command[c].of
       IN  \/ NoHive(c, of.child)
           \/ /\ of.child \in hives
              /\ GotoCommand(c, [step |-> "shown", of |-> of,
                                 matches |-> startup[of.child] = of.worker])
              /\ UNCHANGED <<registry, faults>> /\ Kept

\* The calling process is killed.
Kill(c) == command[c].step \notin Ended /\ Fault(c, NoCommand)

-----------------------------------------------------------------------------
Step(c) ==
    \/ LoadToEnable(c) \/ SetStartup(c) \/ SaveChild(c) \/ SavePath(c)
    \/ DropChild(c) \/ UndoStartup(c)
    \/ LoadToDisable(c) \/ ClearStartup(c) \/ ClearChild(c) \/ ClearPath(c)
    \/ LoadToShow(c) \/ ReadStartup(c)

ConfigNext ==
    \/ \E s \in Children : Login(s) \/ Logout(s)
    \/ \E c \in Callers :
         \/ \E w \in Configurations : Enable(c, w)
         \/ Disable(c) \/ Status(c) \/ Kill(c)
         \/ Step(c)

ConfigSpec == ConfigInit /\ [][ConfigNext]_configVars

-----------------------------------------------------------------------------
ConfigTypeOK ==
    /\ childSID \in Children \cup {Absent} /\ workerPath \in Workers \cup {Absent}
    /\ startup \in [Children -> Workers \cup {Absent}]
    /\ hives \subseteq Children
    /\ command \in [Callers -> Commands]
    /\ commands \in 0 .. MaxCommands /\ faults \in 0 .. MaxFaults

\* A call of one administrator that reports success has done it, whatever
\* earlier calls left behind: after Enable the machine names the child and the
\* worker and the child's login starts it (manager.go:48-75, api_windows.go:15).
EnabledIsInForce ==
    \A c \in Callers : command[c].step = "enabled" =>
        /\ MachineConfiguration = command[c].want
        /\ startup[childSID] = workerPath

\* The machine stops naming a child only when the child's login startup is gone:
\* disable clears the startup first (manager.go:77-90).  The exception is an Enable
\* that could not store the worker's path and takes the SID it has just stored away
\* again, with the startup still there, which it removes next or leaves
\* (registry_windows.go:66-69, manager.go:70-73).
DisabledChildIsFree ==
    [][\A s \in Children : childSID = s /\ childSID' = Absent =>
          startup'[s] = Absent \/ \E c \in Callers : DropChild(c)]_configVars
=============================================================================
