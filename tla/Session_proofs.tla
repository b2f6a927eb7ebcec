--------------------------- MODULE Session_proofs ---------------------------
(***************************************************************************)
(* Proofs about the child's session: that the calls of one administrator   *)
(* at a time leave the registry as they report it, for every number of     *)
(* calls, failed writes and killed processes; and that what the service    *)
(* gets out of a call of the session worker is true, for all accounts,     *)
(* versions and windows, whatever broken calls, deadlines and new workers  *)
(* come in between.                                                        *)
(***************************************************************************)
EXTENDS SessionConfig, SessionBridge, TLAPS

-----------------------------------------------------------------------------
(* The configuration                                                       *)

\* What the call k, under way or ended, knows of the registry, unless the calls of
\* two administrators overlap.
InStep(k) ==
    /\ k.step = "load" => ~k.known
    /\ k.step = "set startup" =>
         IF k.known THEN MachineConfiguration = k.want
         ELSE childSID = Absent /\ workerPath = Absent
    /\ k.step = "save child" => startup[k.want.child] = k.want.worker
    /\ k.step = "save path" => childSID = k.want.child /\ startup[childSID] = k.want.worker
    /\ k.step = "clear startup" => k.of = MachineConfiguration
    /\ k.step = "clear child" => startup[childSID] = Absent
    /\ k.step = "enabled" => MachineConfiguration = k.want /\ startup[childSID] = workerPath

EnableCommands == [step : EnableSteps, want : Configurations, known : BOOLEAN]
OfCommands == [step : {"clear startup", "read startup"}, of : Configurations]

\* The states of a call, by what they hold.
LEMMA CommandSets ==
    /\ EnableCommands \subseteq Commands /\ OfCommands \subseteq Commands
    /\ NoCommand \in Commands /\ NoCommand.step = "idle"
BY DEF Commands, EnableCommands, OfCommands, NoCommand

\* States that hold nothing but their name.
LEMMA PlainCommands ==
    \A s \in {"load to disable", "load to show", "clear path", "clear child", "disabled"} :
        [step |-> s] \in Commands /\ [step |-> s].step = s
<1>1. ASSUME NEW s \in {"load to disable", "load to show", "clear path", "clear child"}
      PROVE  [step |-> s] \in Commands
  BY DEF Commands
<1>2. [step |-> "disabled"] \in Commands
  BY DEF Commands
<1> QED
  BY <1>1, <1>2

\* A call that has enabled a configuration knows which.
LEMMA EnabledCommands ==
    ASSUME NEW w \in Configurations
    PROVE  LET k == [step |-> "enabled", want |-> w]
           IN  k \in Commands /\ k.step = "enabled" /\ k.want = w
BY DEF Commands

\* A call that shows the configuration holds what it found.
LEMMA ShownCommands ==
    ASSUME NEW w \in Configurations \cup {Absent}, NEW m \in BOOLEAN
    PROVE  LET k == [step |-> "shown", of |-> w, matches |-> m]
           IN  k \in Commands /\ k.step = "shown"
BY DEF Commands

\* What a call holds is determined by the step it is at.
LEMMA CommandKinds ==
    ASSUME NEW k \in Commands
    PROVE  /\ k.step \in EnableSteps => k \in EnableCommands
           /\ k.step \in {"clear startup", "read startup"} => k \in OfCommands
<1>1. k \notin EnableCommands /\ k \notin OfCommands =>
        k.step \in {"idle", "load to disable", "load to show", "clear path", "clear child",
                    "enabled", "disabled", "shown"}
  <2> DEFINE Plain == [step : {"load to disable", "load to show", "clear path", "clear child"}]
             Ens == [step : {"enabled"}, want : Configurations]
             Dis == [step : {"disabled"}]
             Shown == [step : {"shown"}, of : Configurations \cup {Absent}, matches : BOOLEAN]
  <2>1. /\ k \in Plain =>
             k.step \in {"load to disable", "load to show", "clear path", "clear child"}
        /\ k \in Ens => k.step = "enabled"
        /\ k \in Dis => k.step = "disabled"
    OBVIOUS
  <2>2. k \in Shown => k.step = "shown"
    OBVIOUS
  <2>3. k = NoCommand => k.step = "idle"
    BY CommandSets
  <2>4. \/ k = NoCommand \/ k \in EnableCommands \/ k \in Plain \/ k \in OfCommands
        \/ k \in Ens \/ k \in Dis \/ k \in Shown
    BY DEF Commands, EnableCommands, OfCommands
  <2> HIDE DEF Plain, Ens, Dis, Shown
  <2> QED
    BY <2>1, <2>2, <2>3, <2>4
<1>2. k \in EnableCommands => k.step \in EnableSteps
  BY DEF EnableCommands
<1>3. k \in OfCommands => k.step \in {"clear startup", "read startup"}
  BY DEF OfCommands
<1> QED
  BY <1>1, <1>2, <1>3 DEF EnableSteps

\* The ways in which a call goes on.
LEMMA GoesOn ==
    ASSUME ConfigTypeOK, NEW c \in Callers, NEW next \in Commands, GotoCommand(c, next), Kept,
           childSID' \in Children \cup {Absent}, workerPath' \in Workers \cup {Absent},
           startup' \in [Children -> Workers \cup {Absent}], faults' \in 0 .. MaxFaults
    PROVE  ConfigTypeOK' /\ command'[c] = next
BY DEF ConfigTypeOK, GotoCommand, Kept

\* A step that only goes on writes nothing.
LEMMA GoesOnReading ==
    ASSUME ConfigTypeOK, NEW c \in Callers, NEW next \in Commands, GotoCommand(c, next), Kept,
           UNCHANGED <<registry, faults>>
    PROVE  ConfigTypeOK' /\ command'[c] = next
BY GoesOn DEF ConfigTypeOK, registry

\* After one that has failed, or that nothing is known of, nothing is claimed.
Open == {"idle", "drop child", "undo startup", "load to disable", "load to show",
         "clear path", "read startup", "disabled", "shown"}

\* At the steps in Open a call claims nothing of the registry.
LEMMA OpenClaimsNothing ==
    ASSUME NEW c \in Callers, command'[c].step \in Open
    PROVE  InStep(command[c])'
BY DEF InStep, Open

\* A write that fails writes nothing.
LEMMA FaultSound ==
    ASSUME ConfigTypeOK, NEW c \in Callers, NEW next \in Commands, Fault(c, next),
           next.step \in Open
    PROVE  ConfigTypeOK' /\ InStep(command[c])' /\ UNCHANGED registry
<1>1. UNCHANGED registry /\ faults' \in 0 .. MaxFaults
  BY SessionConfigAssumption DEF Fault, ConfigTypeOK
<1>2. ConfigTypeOK' /\ command'[c] = next
  BY <1>1, GoesOn DEF Fault, ConfigTypeOK, registry
<1> QED
  BY <1>1, <1>2, OpenClaimsNothing

\* Nor does one into the hive of a child who is not logged in.
LEMMA NoHiveSound ==
    ASSUME ConfigTypeOK, NEW c \in Callers, NEW s, NoHive(c, s)
    PROVE  ConfigTypeOK' /\ InStep(command[c])' /\ UNCHANGED registry
<1>1. ConfigTypeOK' /\ command'[c] = NoCommand
  BY GoesOnReading, CommandSets DEF NoHive
<1> QED
  BY <1>1, OpenClaimsNothing, CommandSets DEF NoHive, Open

\* A call that begins claims nothing.
LEMMA BeginSoundly ==
    ASSUME ConfigTypeOK, NEW c \in Callers, NEW next \in Commands, BeginCommand(c, next),
           next.step \in Open
    PROVE  ConfigTypeOK' /\ InStep(command[c])' /\ UNCHANGED registry
<1>1. ConfigTypeOK' /\ command'[c] = next
  BY SessionConfigAssumption DEF BeginCommand, GotoCommand, ConfigTypeOK, registry
<1> QED
  BY <1>1, OpenClaimsNothing DEF BeginCommand

-----------------------------------------------------------------------------
\* Enable.
LEMMA LoadToEnableSound ==
    ASSUME ConfigTypeOK, NEW c \in Callers, LoadToEnable(c)
    PROVE  ConfigTypeOK' /\ UNCHANGED registry /\ (InStep(command[c]) => InStep(command[c])')
<1> DEFINE k == command[c]
           set == [k EXCEPT !.step = "set startup"]
           known == [set EXCEPT !.known = TRUE]
<1>1. k \in EnableCommands /\ k.step = "load"
  BY CommandKinds DEF LoadToEnable, ConfigTypeOK, EnableSteps
<1>2. /\ set \in EnableCommands /\ set.step = "set startup"
      /\ set.known = k.known /\ set.want = k.want
      /\ known \in EnableCommands /\ known.step = "set startup" /\ known.known
      /\ known.want = k.want
  BY <1>1 DEF EnableCommands, EnableSteps
<1>3. /\ \/ GotoCommand(c, NoCommand)
         \/ GotoCommand(c, set) /\ childSID = Absent /\ workerPath = Absent
         \/ GotoCommand(c, known) /\ MachineConfiguration = k.want
      /\ UNCHANGED <<registry, faults>> /\ Kept
  BY DEF LoadToEnable, Load, Half, Configured
<1>4. UNCHANGED <<childSID, workerPath, startup>> /\ UNCHANGED registry
  BY <1>3 DEF registry
<1> HIDE DEF set, known
<1>5. CASE GotoCommand(c, NoCommand)
  <2>1. ConfigTypeOK' /\ command'[c] = NoCommand
    BY <1>3, <1>5, GoesOnReading, CommandSets
  <2>2. command'[c].step \in Open
    BY <2>1, CommandSets DEF Open
  <2> QED
    BY <1>4, <2>1, <2>2, OpenClaimsNothing
<1>6. CASE GotoCommand(c, set) /\ childSID = Absent /\ workerPath = Absent
  <2>1. ConfigTypeOK' /\ command'[c] = set
    BY <1>2, <1>3, <1>6, GoesOnReading, CommandSets
  <2>2. ASSUME InStep(k)
        PROVE  InStep(command[c])'
    BY <1>1, <1>2, <1>4, <1>6, <2>1, <2>2 DEF InStep
  <2> QED
    BY <1>4, <2>1, <2>2
<1>7. CASE GotoCommand(c, known) /\ MachineConfiguration = k.want
  <2>1. ConfigTypeOK' /\ command'[c] = known
    BY <1>2, <1>3, <1>7, GoesOnReading, CommandSets
  <2>2. InStep(command[c])'
    BY <1>2, <1>4, <1>7, <2>1 DEF InStep, MachineConfiguration
  <2> QED
    BY <1>4, <2>1, <2>2
<1> QED
  BY <1>3, <1>5, <1>6, <1>7

\* Setting the startup entry does not touch which child is configured.
LEMMA SetStartupSound ==
    ASSUME ConfigTypeOK, NEW c \in Callers, SetStartup(c)
    PROVE  /\ ConfigTypeOK' /\ UNCHANGED childSID
           /\ InStep(command[c]) => InStep(command[c])'
<1> DEFINE k == command[c]
           w == k.want
           save == [k EXCEPT !.step = "save child"]
<1>1. k \in EnableCommands /\ k.step = "set startup"
  BY CommandKinds DEF SetStartup, ConfigTypeOK, EnableSteps
<1>2. /\ w \in Configurations /\ w.child \in Children /\ w.worker \in Workers
      /\ save \in EnableCommands /\ save.step = "save child" /\ save.want = w
  BY <1>1 DEF EnableCommands, EnableSteps, Configurations
<1>3. CASE NoHive(c, w.child) \/ Fault(c, NoCommand)
  BY <1>3, NoHiveSound, FaultSound, CommandSets DEF registry, Open
<1>4. ASSUME startup' = [startup EXCEPT ![w.child] = w.worker],
             UNCHANGED <<childSID, workerPath, faults>>, Kept
      PROVE  /\ startup' \in [Children -> Workers \cup {Absent}] /\ startup'[w.child] = w.worker
             /\ childSID' \in Children \cup {Absent} /\ workerPath' \in Workers \cup {Absent}
             /\ faults' \in 0 .. MaxFaults
  BY <1>2, <1>4 DEF ConfigTypeOK
<1> HIDE DEF save, w
<1>5. CASE /\ startup' = [startup EXCEPT ![w.child] = w.worker]
           /\ k.known /\ GotoCommand(c, Enabled(c))
           /\ UNCHANGED <<childSID, workerPath, faults>> /\ Kept
  <2>1. Enabled(c) \in Commands /\ Enabled(c).step = "enabled" /\ Enabled(c).want = w
    BY <1>2, EnabledCommands DEF Enabled, w
  <2>2. ConfigTypeOK' /\ command'[c] = Enabled(c)
    BY <1>4, <1>5, <2>1, GoesOn
  <2>3. ASSUME InStep(k)
        PROVE  InStep(command[c])'
    <3>1. MachineConfiguration = w /\ UNCHANGED MachineConfiguration
      BY <1>1, <1>5, <2>3 DEF InStep, MachineConfiguration, w
    <3>2. childSID = w.child /\ workerPath = w.worker
      BY <3>1 DEF MachineConfiguration
    <3> QED
      BY <1>4, <1>5, <2>1, <2>2, <3>1, <3>2 DEF InStep
  <2> QED
    BY <1>5, <2>2, <2>3
<1>6. CASE /\ startup' = [startup EXCEPT ![w.child] = w.worker]
           /\ GotoCommand(c, save)
           /\ UNCHANGED <<childSID, workerPath, faults>> /\ Kept
  <2>1. ConfigTypeOK' /\ command'[c] = save
    BY <1>2, <1>4, <1>6, GoesOn, CommandSets
  <2>2. InStep(command[c])'
    BY <1>2, <1>4, <1>6, <2>1 DEF InStep
  <2> QED
    BY <1>6, <2>1, <2>2
<1> QED
  BY <1>3, <1>5, <1>6 DEF SetStartup, save, w

\* Saving the child never takes one out of the configuration.
LEMMA SaveChildSound ==
    ASSUME ConfigTypeOK, NEW c \in Callers, SaveChild(c)
    PROVE  /\ ConfigTypeOK'
           /\ childSID' # childSID => childSID' # Absent
           /\ InStep(command[c]) => InStep(command[c])'
<1> DEFINE k == command[c]
           w == k.want
           undo == [k EXCEPT !.step = "undo startup"]
           save == [k EXCEPT !.step = "save path"]
<1>1. k \in EnableCommands /\ k.step = "save child"
  BY CommandKinds DEF SaveChild, ConfigTypeOK, EnableSteps
<1>2. /\ w \in Configurations /\ w.child \in Children /\ w.worker \in Workers
      /\ undo \in EnableCommands /\ undo.step = "undo startup"
      /\ save \in EnableCommands /\ save.step = "save path" /\ save.want = w
  BY <1>1 DEF EnableCommands, EnableSteps, Configurations
<1>3. Fault(c, undo) \/ /\ childSID' = w.child /\ GotoCommand(c, save)
                        /\ UNCHANGED <<workerPath, startup, faults>> /\ Kept
  BY DEF SaveChild
<1> HIDE DEF save, undo, w
<1>4. CASE Fault(c, undo)
  BY <1>2, <1>4, FaultSound, CommandSets DEF registry, Open
<1>5. CASE /\ childSID' = w.child /\ GotoCommand(c, save)
           /\ UNCHANGED <<workerPath, startup, faults>> /\ Kept
  <2>1. ConfigTypeOK' /\ command'[c] = save
    <3>1. /\ childSID' \in Children \cup {Absent} /\ workerPath' \in Workers \cup {Absent}
          /\ startup' \in [Children -> Workers \cup {Absent}] /\ faults' \in 0 .. MaxFaults
      BY <1>2, <1>5 DEF ConfigTypeOK
    <3> QED
      BY <1>2, <1>5, <3>1, GoesOn, CommandSets
  <2>2. ASSUME InStep(k)
        PROVE  InStep(command[c])'
    <3>1. startup[w.child] = w.worker
      BY <1>1, <2>2 DEF InStep, w
    <3> QED
      BY <1>2, <1>5, <2>1, <3>1 DEF InStep
  <2>3. childSID' # Absent
    BY <1>2, <1>5, SessionConfigAssumption
  <2> QED
    BY <2>1, <2>2, <2>3
<1> QED
  BY <1>3, <1>4, <1>5

\* With the path of the worker the configuration is the wanted one.
LEMMA SavePathSound ==
    ASSUME ConfigTypeOK, NEW c \in Callers, SavePath(c)
    PROVE  /\ ConfigTypeOK' /\ UNCHANGED childSID
           /\ InStep(command[c]) => InStep(command[c])'
<1> DEFINE k == command[c]
           w == k.want
           drop == [k EXCEPT !.step = "drop child"]
<1>1. k \in EnableCommands /\ k.step = "save path"
  BY CommandKinds DEF SavePath, ConfigTypeOK, EnableSteps
<1>2. /\ w \in Configurations /\ w.child \in Children /\ w.worker \in Workers
      /\ w = [child |-> w.child, worker |-> w.worker]
      /\ drop \in EnableCommands /\ drop.step = "drop child"
  BY <1>1 DEF EnableCommands, EnableSteps, Configurations
<1>3. Fault(c, drop) \/ /\ workerPath' = w.worker /\ GotoCommand(c, Enabled(c))
                        /\ UNCHANGED <<childSID, startup, faults>> /\ Kept
  BY DEF SavePath
<1> HIDE DEF drop, w
<1>4. CASE Fault(c, drop)
  BY <1>2, <1>4, FaultSound, CommandSets DEF registry, Open
<1>5. CASE /\ workerPath' = w.worker /\ GotoCommand(c, Enabled(c))
           /\ UNCHANGED <<childSID, startup, faults>> /\ Kept
  <2>1. Enabled(c) \in Commands /\ Enabled(c).step = "enabled" /\ Enabled(c).want = w
    BY <1>2, EnabledCommands DEF Enabled, w
  <2>2. ConfigTypeOK' /\ command'[c] = Enabled(c)
    <3>1. /\ childSID' \in Children \cup {Absent} /\ workerPath' \in Workers \cup {Absent}
          /\ startup' \in [Children -> Workers \cup {Absent}] /\ faults' \in 0 .. MaxFaults
      BY <1>2, <1>5 DEF ConfigTypeOK
    <3> QED
      BY <1>5, <2>1, <3>1, GoesOn
  <2>3. ASSUME InStep(k)
        PROVE  InStep(command[c])'
    <3>1. childSID = w.child /\ startup[childSID] = w.worker
      BY <1>1, <2>3 DEF InStep, w
    <3>2. MachineConfiguration' = w
      BY <1>2, <1>5, <3>1 DEF MachineConfiguration
    <3> QED
      BY <1>5, <2>1, <2>2, <3>1, <3>2 DEF InStep
  <2> QED
    BY <1>5, <2>2, <2>3
<1> QED
  BY <1>3, <1>4, <1>5

\* What undoes an earlier step, and may fail.
LEMMA UndoSound ==
    ASSUME ConfigTypeOK, NEW c \in Callers, DropChild(c) \/ UndoStartup(c)
    PROVE  /\ ConfigTypeOK' /\ InStep(command[c])'
           /\ childSID' # childSID => command[c].step = "drop child"
<1> DEFINE k == command[c]
           undo == [k EXCEPT !.step = "undo startup"]
<1>1. k \in EnableCommands /\ k.want.child \in Children
  <2>1. k \in Commands /\ k.step \in EnableSteps
    BY DEF DropChild, UndoStartup, ConfigTypeOK, EnableSteps
  <2>2. k \in EnableCommands
    BY <2>1, CommandKinds
  <2> QED
    BY <2>2 DEF EnableCommands, Configurations
<1>2. undo \in EnableCommands /\ undo.step = "undo startup"
  BY <1>1 DEF EnableCommands, EnableSteps
<1>3. undo \in Commands /\ undo.step \in Open /\ NoCommand \in Commands /\ NoCommand.step \in Open
  BY <1>2, CommandSets DEF Open
<1>4. \/ Fault(c, undo)
      \/ /\ childSID' = Absent /\ GotoCommand(c, undo) /\ k.step = "drop child"
         /\ UNCHANGED <<workerPath, startup, faults>> /\ Kept
      \/ NoHive(c, k.want.child) \/ Fault(c, NoCommand)
      \/ /\ startup' = [startup EXCEPT ![k.want.child] = Absent] /\ GotoCommand(c, NoCommand)
         /\ UNCHANGED <<childSID, workerPath, faults>> /\ Kept
  BY DEF DropChild, UndoStartup
<1> HIDE DEF undo
<1>5. CASE Fault(c, undo) \/ NoHive(c, k.want.child) \/ Fault(c, NoCommand)
  BY <1>3, <1>5, FaultSound, NoHiveSound DEF registry
<1>6. CASE /\ childSID' = Absent /\ GotoCommand(c, undo) /\ k.step = "drop child"
           /\ UNCHANGED <<workerPath, startup, faults>> /\ Kept
  <2>1. /\ childSID' \in Children \cup {Absent} /\ workerPath' \in Workers \cup {Absent}
        /\ startup' \in [Children -> Workers \cup {Absent}] /\ faults' \in 0 .. MaxFaults
    BY <1>6 DEF ConfigTypeOK
  <2>2. ConfigTypeOK' /\ command'[c] = undo
    BY <1>3, <1>6, <2>1, GoesOn
  <2> QED
    BY <1>3, <1>6, <2>2, OpenClaimsNothing
<1>7. CASE /\ startup' = [startup EXCEPT ![k.want.child] = Absent] /\ GotoCommand(c, NoCommand)
           /\ UNCHANGED <<childSID, workerPath, faults>> /\ Kept
  <2>1. /\ childSID' \in Children \cup {Absent} /\ workerPath' \in Workers \cup {Absent}
        /\ startup' \in [Children -> Workers \cup {Absent}] /\ faults' \in 0 .. MaxFaults
    BY <1>7 DEF ConfigTypeOK
  <2>2. ConfigTypeOK' /\ command'[c] = NoCommand
    BY <1>3, <1>7, <2>1, GoesOn
  <2> QED
    BY <1>3, <1>7, <2>2, OpenClaimsNothing
<1> QED
  BY <1>4, <1>5, <1>6, <1>7

-----------------------------------------------------------------------------
\* Disable and status.
LEMMA LoadToDisableSound ==
    ASSUME ConfigTypeOK, NEW c \in Callers, LoadToDisable(c)
    PROVE  /\ ConfigTypeOK' /\ UNCHANGED childSID
           /\ InStep(command[c]) => InStep(command[c])'
<1> DEFINE clear == [step |-> "clear startup", of |-> MachineConfiguration]
<1>1. /\ \/ GotoCommand(c, NoCommand)
         \/ GotoCommand(c, [step |-> "disabled"])
         \/ GotoCommand(c, clear) /\ Configured
      /\ UNCHANGED <<registry, faults>> /\ Kept
  BY DEF LoadToDisable, Load
<1>2. UNCHANGED <<childSID, workerPath, startup>> /\ UNCHANGED MachineConfiguration
  BY <1>1 DEF registry, MachineConfiguration
<1>3. Configured => clear \in OfCommands
  BY DEF Configured, ConfigTypeOK, OfCommands, Configurations, MachineConfiguration
<1>4. clear.step = "clear startup" /\ clear.of = MachineConfiguration
  OBVIOUS
<1> HIDE DEF clear
<1>5. ASSUME NEW next \in {NoCommand, [step |-> "disabled"]}, GotoCommand(c, next)
      PROVE  ConfigTypeOK' /\ InStep(command[c])'
  <2>1. next \in Commands /\ next.step \in Open
    BY <1>5, CommandSets, PlainCommands DEF Open
  <2>2. ConfigTypeOK' /\ command'[c] = next
    BY <1>1, <1>5, <2>1, GoesOnReading
  <2> QED
    BY <2>1, <2>2, OpenClaimsNothing
<1>6. CASE GotoCommand(c, clear) /\ Configured
  <2>1. ConfigTypeOK' /\ command'[c] = clear
    BY <1>1, <1>3, <1>6, GoesOnReading, CommandSets
  <2>2. InStep(command[c])'
    BY <1>2, <1>4, <2>1 DEF InStep
  <2> QED
    BY <1>2, <2>1, <2>2
<1> QED
  BY <1>1, <1>2, <1>5, <1>6

\* Nor does clearing it.
LEMMA ClearStartupSound ==
    ASSUME ConfigTypeOK, NEW c \in Callers, ClearStartup(c)
    PROVE  /\ ConfigTypeOK' /\ UNCHANGED childSID
           /\ InStep(command[c]) => InStep(command[c])'
<1> DEFINE k == command[c]
           s == k.of.child
           clear == [step |-> "clear child"]
<1>1. k \in OfCommands /\ k.step = "clear startup" /\ s \in Children
  <2>1. k \in Commands /\ k.step = "clear startup"
    BY DEF ClearStartup, ConfigTypeOK
  <2>2. k \in OfCommands
    BY <2>1, CommandKinds
  <2> QED
    BY <2>1, <2>2 DEF OfCommands, Configurations
<1>2. clear \in Commands /\ clear.step = "clear child"
  BY PlainCommands
<1>3. \/ NoHive(c, s) \/ Fault(c, NoCommand)
      \/ /\ startup' = [startup EXCEPT ![s] = Absent] /\ GotoCommand(c, clear)
         /\ UNCHANGED <<childSID, workerPath, faults>> /\ Kept
  BY DEF ClearStartup
<1> HIDE DEF clear, s
<1>4. CASE NoHive(c, s) \/ Fault(c, NoCommand)
  BY <1>4, NoHiveSound, FaultSound, CommandSets DEF registry, Open
<1>5. CASE /\ startup' = [startup EXCEPT ![s] = Absent] /\ GotoCommand(c, clear)
           /\ UNCHANGED <<childSID, workerPath, faults>> /\ Kept
  <2>1. /\ childSID' \in Children \cup {Absent} /\ workerPath' \in Workers \cup {Absent}
        /\ startup' \in [Children -> Workers \cup {Absent}] /\ faults' \in 0 .. MaxFaults
        /\ startup'[s] = Absent
    BY <1>1, <1>5 DEF ConfigTypeOK
  <2>2. ConfigTypeOK' /\ command'[c] = clear
    BY <1>2, <1>5, <2>1, GoesOn
  <2>3. ASSUME InStep(k)
        PROVE  InStep(command[c])'
    <3>1. s = childSID
      <4>1. k.of = MachineConfiguration
        BY <1>1, <2>3 DEF InStep
      <4> QED
        BY <4>1 DEF MachineConfiguration, s
    <3> QED
      BY <1>2, <1>5, <2>1, <2>2, <3>1 DEF InStep
  <2> QED
    BY <1>5, <2>2, <2>3
<1> QED
  BY <1>3, <1>4, <1>5

\* The child goes out of the configuration by the step that clears it only.
LEMMA ClearSound ==
    ASSUME ConfigTypeOK, NEW c \in Callers, ClearChild(c) \/ ClearPath(c)
    PROVE  /\ ConfigTypeOK' /\ InStep(command[c])' /\ UNCHANGED startup
           /\ childSID' # childSID => command[c].step = "clear child"
<1>1. /\ NoCommand \in Commands /\ NoCommand.step \in Open
      /\ \A s \in {"clear path", "disabled"} :
           [step |-> s] \in Commands /\ [step |-> s].step \in Open
  BY CommandSets, PlainCommands DEF Open
<1>2. CASE Fault(c, NoCommand)
  BY <1>1, <1>2, FaultSound DEF registry
<1>3. CASE ~Fault(c, NoCommand)
  <2>1. PICK s \in {"clear path", "disabled"} :
          /\ GotoCommand(c, [step |-> s]) /\ Kept /\ UNCHANGED <<startup, faults>>
          /\ childSID' \in {childSID, Absent} /\ workerPath' \in {workerPath, Absent}
          /\ childSID' # childSID => command[c].step = "clear child"
    BY <1>3 DEF ClearChild, ClearPath
  <2>2. /\ childSID' \in Children \cup {Absent} /\ workerPath' \in Workers \cup {Absent}
        /\ startup' \in [Children -> Workers \cup {Absent}] /\ faults' \in 0 .. MaxFaults
    BY <2>1 DEF ConfigTypeOK
  <2>3. ConfigTypeOK' /\ command'[c] = [step |-> s]
    BY <1>1, <2>1, <2>2, GoesOn
  <2> QED
    BY <1>1, <2>1, <2>3, OpenClaimsNothing
<1> QED
  BY <1>2, <1>3

\* Showing the configuration changes none of it.
LEMMA ShowSound ==
    ASSUME ConfigTypeOK, NEW c \in Callers, LoadToShow(c) \/ ReadStartup(c)
    PROVE  ConfigTypeOK' /\ InStep(command[c])' /\ UNCHANGED registry
<1> DEFINE read == [step |-> "read startup", of |-> MachineConfiguration]
           Shown(w, m) == [step |-> "shown", of |-> w, matches |-> m]
<1>1. ASSUME NEW next \in Commands, next.step \in Open, GotoCommand(c, next), Kept,
             UNCHANGED <<registry, faults>>
      PROVE  ConfigTypeOK' /\ InStep(command[c])' /\ UNCHANGED registry
  <2>1. ConfigTypeOK' /\ command'[c] = next
    BY <1>1, GoesOnReading
  <2> QED
    BY <1>1, <2>1, OpenClaimsNothing
<1>2. CASE LoadToShow(c)
  <2>1. /\ \/ GotoCommand(c, NoCommand)
           \/ GotoCommand(c, Shown(Absent, FALSE))
           \/ GotoCommand(c, read) /\ Configured
        /\ UNCHANGED <<registry, faults>> /\ Kept
    BY <1>2 DEF LoadToShow, Load
  <2>2. Configured => read \in Commands /\ read.step \in Open
    BY CommandSets
    DEF Configured, ConfigTypeOK, OfCommands, Configurations, MachineConfiguration, Open
  <2>3. Shown(Absent, FALSE) \in Commands /\ Shown(Absent, FALSE).step \in Open
    BY ShownCommands DEF Open
  <2>4. NoCommand \in Commands /\ NoCommand.step \in Open
    BY CommandSets DEF Open
  <2> HIDE DEF read, Shown
  <2> QED
    BY <1>1, <2>1, <2>2, <2>3, <2>4
<1>3. CASE ReadStartup(c)
  <2> DEFINE of == command[c].of
             match == startup[of.child] = of.worker
  <2>1. of \in Configurations
    <3>1. command[c] \in Commands /\ command[c].step = "read startup"
      BY <1>3 DEF ReadStartup, ConfigTypeOK
    <3>2. command[c] \in OfCommands
      BY <3>1, CommandKinds
    <3> QED
      BY <3>2 DEF OfCommands
  <2>2. NoHive(c, of.child) \/ /\ GotoCommand(c, Shown(of, match)) /\ Kept
                               /\ UNCHANGED <<registry, faults>>
    BY <1>3 DEF ReadStartup
  <2>3. match \in BOOLEAN
    OBVIOUS
  <2> HIDE DEF match, of
  <2>4. Shown(of, match) \in Commands /\ Shown(of, match).step \in Open
    BY <2>1, <2>3, ShownCommands DEF Open
  <2> HIDE DEF Shown
  <2> QED
    BY <1>1, <2>2, <2>4, NoHiveSound
<1> QED
  BY <1>2, <1>3

-----------------------------------------------------------------------------
\* One call at a time: the caller's own steps are all that moves.
ConfigSound == ConfigTypeOK /\ \A c \in Callers : InStep(command[c])

\* No call has begun.
LEMMA ConfigInitSound == ConfigInit => ConfigSound
<1> SUFFICES ASSUME ConfigInit PROVE ConfigSound
  OBVIOUS
<1>1. ConfigTypeOK
  BY SessionConfigAssumption, CommandSets DEF ConfigInit, ConfigTypeOK
<1>2. ASSUME NEW c \in Callers
      PROVE  command[c].step = "idle"
  BY CommandSets DEF ConfigInit
<1> QED
  BY <1>1, <1>2 DEF ConfigSound, InStep

\* Children who log in and out take no startup entry away.
LEMMA SessionStepSound ==
    ASSUME ConfigTypeOK, NEW s \in Children, Login(s) \/ Logout(s)
    PROVE  /\ ConfigTypeOK' /\ UNCHANGED childSID
           /\ \A c \in Callers : InStep(command[c]) => InStep(command[c])'
<1>1. UNCHANGED <<childSID, workerPath, startup, command, commands, faults>>
  BY DEF Login, Logout, registry
<1>2. hives' \subseteq Children
  BY DEF Login, Logout, ConfigTypeOK
<1> QED
  <2>1. ConfigTypeOK'
    BY <1>1, <1>2 DEF ConfigTypeOK
  <2>2. UNCHANGED MachineConfiguration
    BY <1>1 DEF MachineConfiguration
  <2> QED
    BY <1>1, <2>1, <2>2 DEF InStep

\* A call of Enable begins by loading.
LEMMA EnableBegins ==
    ASSUME ConfigTypeOK, NEW c \in Callers, NEW w \in Configurations, Enable(c, w)
    PROVE  ConfigTypeOK' /\ InStep(command[c])' /\ UNCHANGED registry
<1> DEFINE first == [step |-> "load", want |-> w, known |-> FALSE]
<1>1. first \in Commands /\ first.step = "load" /\ ~first.known
  BY CommandSets DEF EnableCommands, EnableSteps
<1>2. BeginCommand(c, first)
  BY DEF Enable
<1> HIDE DEF first
<1>3. ConfigTypeOK' /\ command'[c] = first /\ UNCHANGED registry
  BY <1>1, <1>2, SessionConfigAssumption DEF BeginCommand, GotoCommand, ConfigTypeOK, registry
<1> QED
  BY <1>1, <1>3 DEF InStep

\* Whatever a caller does, it keeps to the types and to its own account.
LEMMA CallerSound ==
    ASSUME ConfigTypeOK, NEW c \in Callers,
           (\E w \in Configurations : Enable(c, w)) \/ Disable(c) \/ Status(c) \/ Kill(c)
             \/ Step(c)
    PROVE  /\ ConfigTypeOK'
           /\ InStep(command[c]) => InStep(command[c])'
           /\ childSID' # childSID /\ childSID' = Absent =>
                \/ DropChild(c)
                \/ command[c].step = "clear child" /\ UNCHANGED startup
<1>1. CASE \E w \in Configurations : Enable(c, w)
  BY <1>1, EnableBegins DEF registry
<1>2. CASE Disable(c) \/ Status(c)
  <2>1. \A s \in {"load to disable", "load to show"} :
          [step |-> s] \in Commands /\ [step |-> s].step \in Open
    BY PlainCommands DEF Open
  <2> QED
    BY <1>2, <2>1, BeginSoundly DEF Disable, Status, registry
<1>3. CASE Kill(c)
  BY <1>3, FaultSound, CommandSets DEF Kill, Open, registry
<1>4. CASE LoadToEnable(c) \/ SetStartup(c) \/ SaveChild(c) \/ SavePath(c)
  <2>1. CASE LoadToEnable(c)
    BY <2>1, LoadToEnableSound DEF registry
  <2>2. CASE SetStartup(c) \/ SavePath(c)
    BY <2>2, SetStartupSound, SavePathSound
  <2>3. CASE SaveChild(c)
    BY <2>3, SaveChildSound
  <2> QED
    BY <1>4, <2>1, <2>2, <2>3
<1>5. CASE DropChild(c) \/ UndoStartup(c)
  <2>1. command[c].step = "drop child" => DropChild(c)
    BY <1>5 DEF UndoStartup
  <2> QED
    BY <1>5, <2>1, UndoSound
<1>6. CASE LoadToDisable(c) \/ ClearStartup(c) \/ ClearChild(c) \/ ClearPath(c)
  BY <1>6, LoadToDisableSound, ClearStartupSound, ClearSound
<1>7. CASE LoadToShow(c) \/ ReadStartup(c)
  BY <1>7, ShowSound DEF registry
<1> QED
  BY <1>1, <1>2, <1>3, <1>4, <1>5, <1>6, <1>7 DEF Step

\* Every step keeps the types, however many administrators there are.
LEMMA ConfigStepTypes == ConfigTypeOK /\ [ConfigNext]_configVars => ConfigTypeOK'
<1> SUFFICES ASSUME ConfigTypeOK, [ConfigNext]_configVars PROVE ConfigTypeOK'
  OBVIOUS
<1>1. CASE UNCHANGED configVars
  BY <1>1 DEF configVars, registry, ConfigTypeOK
<1>2. CASE ConfigNext
  BY <1>2, SessionStepSound, CallerSound DEF ConfigNext
<1> QED
  BY <1>1, <1>2

\* Every step keeps the invariant while administrators take turns.
LEMMA ConfigStepSound ==
    ASSUME \A c, d \in Callers : c = d, ConfigSound, [ConfigNext]_configVars
    PROVE  ConfigSound'
<1>1. ConfigTypeOK'
  BY ConfigStepTypes DEF ConfigSound
<1>2. CASE UNCHANGED configVars
  BY <1>1, <1>2 DEF configVars, registry, ConfigSound, InStep, MachineConfiguration
<1>3. CASE \E s \in Children : Login(s) \/ Logout(s)
  BY <1>1, <1>3, SessionStepSound DEF ConfigSound
<1>4. ASSUME NEW c \in Callers,
             (\E w \in Configurations : Enable(c, w)) \/ Disable(c) \/ Status(c) \/ Kill(c)
               \/ Step(c)
      PROVE  ConfigSound'
  <2>1. InStep(command[c])'
    BY <1>4, CallerSound DEF ConfigSound
  <2>2. ASSUME NEW d \in Callers
        PROVE  InStep(command[d])'
    <3>1. c = d
      OBVIOUS
    <3> QED
      BY <2>1, <3>1
  <2> QED
    BY <1>1, <2>2 DEF ConfigSound
<1> QED
  BY <1>2, <1>3, <1>4 DEF ConfigNext

\* While administrators take turns, a call of Enable that reports success has done
\* it, whatever earlier calls, failed writes and killed processes left behind:
\* EnabledIsInForce (manager.go:48-75).
THEOREM EnablingWorks ==
    ASSUME \A c, d \in Callers : c = d
    PROVE  ConfigSpec => []EnabledIsInForce
<1>1. ConfigSound => EnabledIsInForce
  BY DEF ConfigSound, InStep, EnabledIsInForce
<1>2. ConfigSound /\ [ConfigNext]_configVars => ConfigSound'
  BY ConfigStepSound
<1> QED
  BY <1>1, <1>2, ConfigInitSound, PTL DEF ConfigSpec

\* While administrators take turns, the configuration of a child goes only after
\* the child's login startup, except in the step of an Enable that drops the SID
\* because the worker's path could not be saved: DisabledChildIsFree
\* (manager.go:77-90, registry_windows.go:66-69).
THEOREM DisablingFreesTheChild ==
    ASSUME \A c, d \in Callers : c = d
    PROVE  ConfigSpec => DisabledChildIsFree
<1> DEFINE Freed == \A s \in Children : childSID = s /\ childSID' = Absent =>
                      startup'[s] = Absent \/ \E c \in Callers : DropChild(c)
<1>1. ConfigSound /\ [ConfigNext]_configVars => [Freed]_configVars
  <2> SUFFICES ASSUME ConfigSound, [ConfigNext]_configVars, NEW s \in Children,
                      childSID = s, childSID' = Absent
               PROVE  startup'[s] = Absent \/ \E c \in Callers : DropChild(c)
    OBVIOUS
  <2>1. childSID' # childSID
    BY SessionConfigAssumption
  <2>2. PICK c \in Callers :
          (\E w \in Configurations : Enable(c, w)) \/ Disable(c) \/ Status(c) \/ Kill(c)
            \/ Step(c)
    BY <2>1, SessionStepSound DEF ConfigNext, ConfigSound, configVars, registry
  <2>3. \/ DropChild(c)
        \/ command[c].step = "clear child" /\ UNCHANGED startup
    BY <2>1, <2>2, CallerSound DEF ConfigSound
  <2> QED
    BY <2>3 DEF ConfigSound, InStep
<1>2. ConfigSound /\ [ConfigNext]_configVars => ConfigSound'
  BY ConfigStepSound
<1> QED
  BY <1>1, <1>2, ConfigInitSound, PTL DEF ConfigSpec, DisabledChildIsFree

\* The types of the configuration, however many administrators there are.
LEMMA ConfigTypes == ConfigSpec => []ConfigTypeOK
<1>1. ConfigInit => ConfigTypeOK
  BY ConfigInitSound DEF ConfigSound
<1> QED
  BY <1>1, ConfigStepTypes, PTL DEF ConfigSpec

-----------------------------------------------------------------------------
(* The bridge                                                              *)

Reads == [step : {"read"}, request : Request, peer : BOOLEAN]
Handles == [step : {"handle"}, request : Ops, peer : BOOLEAN]
Answers == [step : {"answer"}, reply : Reply, peer : BOOLEAN]

\* What the two ends of the pipe know of each other.  An open connection belongs
\* to the call under way and, once verified, to the child's worker; what the
\* worker reads, handles or answers on it is that call's request.
EndsMatch ==
    /\ call # Idle => result = [end |-> "none"] /\ front \in seen
    /\ call.step \in {"dial", "verify", "write"} => closings = 0
    /\ serving # Accepting => worker # Nothing
    /\ serving # Accepting /\ serving.peer => call.step \in {"verify", "write", "receive"}
    /\ Connected /\ call.step # "verify" => worker.user = Child
    /\ serving.step = "answer" => serving.reply.version = worker.version
    /\ Connected /\ serving.step = "read" =>
          /\ serving.request = IF call.step = "receive" THEN call.op ELSE Nothing
          /\ closings = 0
    /\ Connected /\ serving.step = "handle" =>
          call.step = "receive" /\ serving.request = call.op /\ closings = 0
    /\ Connected /\ serving.step = "answer" =>
          /\ call.step = "receive"
          /\ \/ serving.reply.error
             \/ IF call.op.op = "get" THEN serving.reply.window \in seen ELSE closings = 1

BridgeSound == BridgeTypeOK /\ ReportsAreTrue /\ EndsMatch

\* The kinds of connections and calls.
LEMMA ServingKinds ==
    ASSUME NEW s \in Serving
    PROVE  /\ s = Accepting \/ s.step \in {"read", "handle", "answer"}
           /\ s.step = "read" => s \in Reads
           /\ s.step = "handle" => s \in Handles
           /\ s.step = "answer" => s \in Answers
<1>1. Accepting.step = "accept"
  BY DEF Accepting
<1>2. s = Accepting \/ s \in Reads \/ s \in Handles \/ s \in Answers
  BY DEF Serving, Reads, Handles, Answers
<1> QED
  BY <1>1, <1>2 DEF Reads, Handles, Answers

\* The states of the worker's end.
LEMMA ServingSets ==
    /\ Accepting \in Serving /\ Accepting.step = "accept"
    /\ Reads \subseteq Serving /\ Handles \subseteq Serving /\ Answers \subseteq Serving
BY DEF Serving, Reads, Handles, Answers, Accepting

Opened == [step : {"dial", "verify", "write", "receive"}, op : Ops]

\* The states of the service's end.
LEMMA CallKinds ==
    /\ Idle \in Calling /\ Idle.step = "idle" /\ Opened \subseteq Calling
    /\ \A c \in Calling : c # Idle <=> c \in Opened
BY DEF Calling, Opened, Idle

\* The results of a call.
LEMMA ResultKinds ==
    /\ \A e \in {"none", "unavailable", "failed", "closed"} :
          [end |-> e] \in Results /\ [end |-> e].end = e
    /\ \A w \in Windows, p \in WorkerProcesses :
          LET r == [end |-> "answered", window |-> w, from |-> p]
          IN  r \in Results /\ r.end = "answered" /\ r.window = w /\ r.from = p
    /\ \A r \in Results : r.end = "answered" =>
          r.window \in Windows /\ r.from \in WorkerProcesses
BY DEF Results

\* Nothing is connected.
LEMMA BridgeInitSound == BridgeInit => BridgeSound
<1> SUFFICES ASSUME BridgeInit PROVE BridgeSound
  OBVIOUS
<1>1. BridgeTypeOK
  <2>1. result \in Results
    BY ResultKinds DEF BridgeInit
  <2>2. front \in Windows /\ seen \subseteq Windows
    BY DEF BridgeInit
  <2>3. closings \in 0 .. 2
    BY DEF BridgeInit
  <2>4. worker = Nothing /\ serving \in Serving /\ call \in Calling /\ ended \in BOOLEAN
    BY ServingSets, CallKinds DEF BridgeInit
  <2> QED
    BY <2>1, <2>2, <2>3, <2>4 DEF BridgeTypeOK
<1> QED
  BY <1>1, ServingSets, CallKinds, ResultKinds
  DEF BridgeInit, BridgeSound, ReportsAreTrue, Answered, EndsMatch, Connected

\* Another window comes to the front during a call, or between two.
LEMMA ToFrontSound ==
    ASSUME BridgeSound, NEW w \in Windows, ToFront(w)
    PROVE  BridgeSound'
<1>1. seen \subseteq seen' /\ seen' \subseteq Windows /\ (call # Idle => w \in seen')
  BY DEF ToFront, BridgeSound, BridgeTypeOK
<1> QED
  BY <1>1
  DEF ToFront, BridgeSound, BridgeTypeOK, ReportsAreTrue, Answered, EndsMatch, Connected

\* A worker that starts has no connection.
LEMMA StartWorkerSound ==
    ASSUME BridgeSound, NEW u \in Users, NEW v \in Versions, StartWorker(u, v)
    PROVE  BridgeSound'
<1>1. worker' \in WorkerProcesses
  BY DEF StartWorker, WorkerProcesses
<1> QED
  BY <1>1, ServingSets
  DEF StartWorker, BridgeSound, BridgeTypeOK, ReportsAreTrue, Answered, EndsMatch, Connected

\* A worker that ends takes its connection, and the call on it, with it.
LEMMA EndWorkerSound ==
    ASSUME BridgeSound, EndWorker
    PROVE  BridgeSound'
BY ServingSets, CallKinds, ResultKinds
DEF EndWorker, BridgeSound, BridgeTypeOK, ReportsAreTrue, Answered, EndsMatch, Connected

\* A call that begins dials; nothing is known of the other end.
LEMMA BeginSound ==
    ASSUME BridgeSound, NEW op \in Ops, Begin(op)
    PROVE  BridgeSound'
<1>1. call' \in Opened /\ call'.step = "dial" /\ call' # Idle
  BY CallKinds DEF Begin, Opened, Idle
<1>2. result' \in Results /\ result'.end = "none"
  BY ResultKinds DEF Begin
<1> QED
  BY <1>1, <1>2, CallKinds
  DEF Begin, BridgeSound, BridgeTypeOK, ReportsAreTrue, Answered, EndsMatch, Connected

\* The window monitor asks, or has the window closed that it was told.
LEMMA RequestSound ==
    ASSUME BridgeSound, GetActiveWindow \/ CloseWindow
    PROVE  BridgeSound'
<1>1. CASE GetActiveWindow
  <2>1. [op |-> "get"] \in Ops
    BY DEF Ops
  <2> QED
    BY <1>1, <2>1, BeginSound DEF GetActiveWindow
<1>2. CASE CloseWindow
  <2>1. [op |-> "close", window |-> result.window] \in Ops
    BY <1>2, ResultKinds DEF CloseWindow, Ops, BridgeSound, BridgeTypeOK
  <2> QED
    BY <1>2, <2>1, BeginSound DEF CloseWindow
<1> QED
  BY <1>1, <1>2

\* A call that ends without an answer leaves no open connection behind.
LEMMA ReturnSound ==
    ASSUME BridgeSound, Desk, UNCHANGED seen, call # Idle,
           NEW e \in {"unavailable", "failed"}, Return([end |-> e]),
           serving' \in Serving,
           serving' # Accepting => /\ serving # Accepting /\ ~serving'.peer
                                   /\ serving'.step = serving.step
                                   /\ serving'.step = "answer" => serving'.reply = serving.reply
    PROVE  BridgeSound'
<1>1. call' = Idle /\ call' \in Calling /\ call'.step = "idle"
  BY CallKinds DEF Return
<1>2. result' \in Results /\ result'.end = e
  BY ResultKinds DEF Return
<1>3. EndsMatch'
  BY <1>1, ServingSets DEF Desk, BridgeSound, EndsMatch, Connected
<1>4. BridgeTypeOK'
  BY <1>1, <1>2 DEF Desk, BridgeSound, BridgeTypeOK
<1> QED
  BY <1>2, <1>3, <1>4 DEF Desk, BridgeSound, ReportsAreTrue, Answered

\* What the worker has left of a connection that the service closes.
LEMMA HangUpEnds ==
    ASSUME BridgeSound, HangUp
    PROVE  /\ serving' \in Serving
           /\ serving' # Accepting => /\ serving # Accepting /\ ~serving'.peer
                                      /\ serving'.step = serving.step
                                      /\ serving'.step = "answer" => serving'.reply = serving.reply
<1>1. CASE ~Connected
  BY <1>1 DEF HangUp, Connected, BridgeSound, BridgeTypeOK, EndsMatch
<1>2. CASE Connected
  <2>1. serving \in Serving /\ serving # Accepting /\ serving' = [serving EXCEPT !.peer = FALSE]
    BY <1>2 DEF HangUp, Connected, BridgeSound, BridgeTypeOK
  <2>2. CASE serving.step = "read"
    BY <2>1, <2>2, ServingKinds, ServingSets DEF Reads
  <2>3. CASE serving.step = "handle"
    BY <2>1, <2>3, ServingKinds, ServingSets DEF Handles
  <2>4. CASE serving.step = "answer"
    BY <2>1, <2>4, ServingKinds, ServingSets DEF Answers
  <2> QED
    BY <2>1, <2>2, <2>3, <2>4, ServingKinds
<1> QED
  BY <1>1, <1>2

\* A call that finds no worker ends without a connection.
LEMMA DialFailsSound ==
    ASSUME BridgeSound, DialFails
    PROVE  BridgeSound'
<1>1. call # Idle /\ serving = Accepting
  BY CallKinds DEF DialFails, BridgeSound, EndsMatch
<1> QED
  BY <1>1, ReturnSound DEF DialFails, BridgeSound, BridgeTypeOK

\* So does one whose connection is lost ...
LEMMA LostSound ==
    ASSUME BridgeSound, Lost
    PROVE  BridgeSound'
<1>1. call # Idle /\ (serving # Accepting => ~serving.peer)
  BY CallKinds DEF Lost, Connected
<1> QED
  BY <1>1, ReturnSound DEF Lost, BridgeSound, BridgeTypeOK

\* ... and one whose deadline passes.
LEMMA TimeOutSound ==
    ASSUME BridgeSound, TimeOut
    PROVE  BridgeSound'
BY HangUpEnds, ReturnSound DEF TimeOut

\* The end of the service leaves the call under way as it is.
LEMMA EndServiceSound ==
    ASSUME BridgeSound, EndService
    PROVE  BridgeSound'
BY DEF EndService, BridgeSound, BridgeTypeOK, ReportsAreTrue, Answered, EndsMatch, Connected

\* The service dials a worker that accepts: the new connection is its own.
LEMMA DialSound ==
    ASSUME BridgeSound, Dial
    PROVE  BridgeSound'
<1>1. call \in Opened
  BY CallKinds DEF Dial, BridgeSound, BridgeTypeOK
<1>2. call' \in Opened /\ call'.step = "verify" /\ call'.op = call.op
  BY <1>1 DEF Dial, Opened
<1>3. call # Idle /\ call' # Idle /\ call' \in Calling
  BY <1>1, <1>2, CallKinds
<1>4. /\ serving' \in Reads /\ serving'.step = "read"
      /\ serving'.request = Nothing /\ serving'.peer
  BY DEF Dial, Reads, Request
<1>5. BridgeTypeOK'
  BY <1>3, <1>4, ServingSets DEF Dial, Desk, BridgeSound, BridgeTypeOK
<1>6. EndsMatch'
  BY <1>2, <1>3, <1>4 DEF Dial, Desk, BridgeSound, EndsMatch, Connected
<1> QED
  BY <1>5, <1>6 DEF Dial, Desk, BridgeSound, ReportsAreTrue, Answered

\* The service goes on only with the child's worker at the other end.
LEMMA VerifySound ==
    ASSUME BridgeSound, Verify
    PROVE  BridgeSound'
<1>1. call \in Opened /\ call # Idle
  BY CallKinds DEF Verify, BridgeSound, BridgeTypeOK
<1>2. CASE worker # Nothing /\ worker.user = Child
  <2>1. call' \in Opened /\ call'.step = "write" /\ call'.op = call.op
    BY <1>1, <1>2 DEF Verify, Opened
  <2>2. call' # Idle /\ call' \in Calling
    BY <2>1, CallKinds
  <2>3. UNCHANGED <<serving, result, seen, front, worker, ended, closings>>
    BY <1>2 DEF Verify, Desk
  <2>4. BridgeTypeOK'
    BY <2>2, <2>3 DEF BridgeSound, BridgeTypeOK
  <2>5. EndsMatch'
    BY <1>1, <1>2, <2>1, <2>3 DEF Verify, BridgeSound, EndsMatch, Connected
  <2> QED
    BY <2>3, <2>4, <2>5 DEF BridgeSound, ReportsAreTrue, Answered
<1>3. CASE ~(worker # Nothing /\ worker.user = Child)
  BY <1>1, <1>3, HangUpEnds, ReturnSound DEF Verify
<1> QED
  BY <1>2, <1>3

\* The request that is written is that of the call.
LEMMA WriteSound ==
    ASSUME BridgeSound, Write
    PROVE  BridgeSound'
<1>1. call \in Opened /\ call # Idle
  BY CallKinds DEF Write, BridgeSound, BridgeTypeOK
<1>2. call' \in Opened /\ call'.step = "receive" /\ call'.op = call.op /\ call.op \in Ops
  BY <1>1 DEF Write, Opened
<1>3. call' # Idle /\ call' \in Calling
  BY <1>2, CallKinds
\* A worker that has not been written to still reads.
<1>4. serving \in Reads /\ closings = 0
  BY ServingKinds DEF Write, Connected, BridgeSound, BridgeTypeOK, EndsMatch
<1>5. serving' \in Reads /\ serving'.step = "read" /\ serving'.request = call.op
  BY <1>2, <1>4 DEF Write, Reads, Request
<1>6. BridgeTypeOK'
  BY <1>3, <1>5, ServingSets DEF Write, Desk, BridgeSound, BridgeTypeOK
<1>7. EndsMatch'
  BY <1>1, <1>2, <1>3, <1>4, <1>5 DEF Write, Desk, BridgeSound, EndsMatch, Connected
<1> QED
  BY <1>6, <1>7 DEF Write, Desk, BridgeSound, ReportsAreTrue, Answered

\* The answer that is received is that of the child's worker to this call.
LEMMA ReceiveSound ==
    ASSUME BridgeSound, Receive
    PROVE  BridgeSound'
<1>1. call \in Opened /\ call # Idle /\ call.op \in Ops
  BY CallKinds DEF Receive, BridgeSound, BridgeTypeOK, Opened
<1>2. serving \in Answers /\ serving.reply \in Reply
  BY ServingKinds DEF Receive, BridgeSound, BridgeTypeOK, Answers
<1>3. worker \in WorkerProcesses /\ worker.user = Child
  BY DEF Receive, Connected, BridgeSound, BridgeTypeOK, EndsMatch
<1>4. call' = Idle /\ call'.step = "idle" /\ call' \in Calling
      /\ serving' = Accepting /\ serving' \in Serving /\ serving'.step = "accept"
  BY CallKinds, ServingSets DEF Receive, Return
<1>5. EndsMatch'
  BY <1>4 DEF Receive, Desk, BridgeSound, EndsMatch, Connected
<1>6. UNCHANGED <<front, worker, ended, closings, seen>> /\ result' = Outcome(serving.reply)
  BY DEF Receive, Desk, Return
<1>7. CASE serving.reply.version # Current \/ serving.reply.error
  BY <1>4, <1>5, <1>6, <1>7, ResultKinds
  DEF Outcome, BridgeSound, BridgeTypeOK, ReportsAreTrue, Answered
<1>8. CASE serving.reply.version = Current /\ ~serving.reply.error /\ call.op.op = "close"
  <2>1. result' \in Results /\ result'.end = "closed"
    BY <1>6, <1>8, ResultKinds DEF Outcome
  <2>2. closings = 1
    BY <1>8 DEF Receive, BridgeSound, EndsMatch
  <2> QED
    BY <1>4, <1>5, <1>6, <2>1, <2>2
    DEF BridgeSound, BridgeTypeOK, ReportsAreTrue, Answered
<1>9. CASE serving.reply.version = Current /\ ~serving.reply.error /\ call.op.op # "close"
  <2>1. call.op.op = "get"
    BY <1>1, <1>9 DEF Ops
  <2>2. serving.reply.window \in seen /\ seen \subseteq Windows
    BY <1>9, <2>1 DEF Receive, BridgeSound, BridgeTypeOK, EndsMatch
  <2>3. worker = [user |-> Child, version |-> Current]
    BY <1>3, <1>9 DEF Receive, BridgeSound, EndsMatch, WorkerProcesses
  <2>4. result' = [end |-> "answered", window |-> serving.reply.window, from |-> worker]
    BY <1>6, <1>9 DEF Outcome
  <2>5. /\ result' \in Results /\ result'.end = "answered"
        /\ result'.window = serving.reply.window /\ result'.from = worker
    BY <1>3, <2>2, <2>4, ResultKinds
  <2> QED
    BY <1>4, <1>5, <1>6, <2>2, <2>3, <2>5
    DEF BridgeSound, BridgeTypeOK, ReportsAreTrue, Answered
<1> QED
  BY <1>7, <1>8, <1>9

\* What the worker answers when it refuses.
LEMMA RefusalSound ==
    ASSUME BridgeSound, Served, UNCHANGED closings,
           serving.step \in {"read", "handle"}, serving # Accepting,
           Connected => call.step = "receive",
           serving' = Answering(Refusal, serving.peer)
    PROVE  BridgeSound'
<1>1. worker \in WorkerProcesses /\ serving.peer \in BOOLEAN
  BY ServingKinds DEF BridgeSound, BridgeTypeOK, EndsMatch, Reads, Handles
<1>2. /\ serving' \in Answers /\ serving'.step = "answer" /\ serving'.peer = serving.peer
      /\ serving'.reply.version = worker.version /\ serving'.reply.error
  BY <1>1 DEF Answering, Refusal, Answers, Reply, WorkerProcesses
<1>3. BridgeTypeOK'
  BY <1>2, ServingSets DEF Served, BridgeSound, BridgeTypeOK
<1>4. EndsMatch'
  BY <1>2 DEF Served, BridgeSound, EndsMatch, Connected
<1> QED
  BY <1>3, <1>4 DEF Served, BridgeSound, ReportsAreTrue, Answered

\* The request that is read is the one that was written.
LEMMA ReadRequestSound ==
    ASSUME BridgeSound, ReadRequest
    PROVE  BridgeSound'
<1>1. serving \in Reads /\ serving # Accepting
  BY ServingKinds, ServingSets DEF ReadRequest, BridgeSound, BridgeTypeOK
<1>2. Connected => call.step = "receive" /\ serving.request = call.op /\ closings = 0
  BY DEF ReadRequest, BridgeSound, EndsMatch
<1>3. CASE worker.version = Current
  <2>1. /\ serving' \in Handles /\ serving'.step = "handle"
        /\ serving'.request = serving.request /\ serving'.peer = serving.peer
    BY <1>1, <1>3 DEF ReadRequest, Reads, Handles, Request
  <2>2. BridgeTypeOK'
    BY <2>1, ServingSets DEF ReadRequest, Served, BridgeSound, BridgeTypeOK
  <2>3. EndsMatch'
    BY <1>1, <1>2, <2>1 DEF ReadRequest, Served, BridgeSound, EndsMatch, Connected
  <2> QED
    BY <2>2, <2>3 DEF ReadRequest, Served, BridgeSound, ReportsAreTrue, Answered
<1>4. CASE worker.version # Current
  BY <1>1, <1>2, <1>4, RefusalSound DEF ReadRequest
<1> QED
  BY <1>3, <1>4

\* The worker's end of the connection is gone.
LEMMA AcceptSound ==
    ASSUME BridgeSound, Served, UNCHANGED closings, serving' = Accepting
    PROVE  BridgeSound'
BY ServingSets
DEF Served, BridgeSound, BridgeTypeOK, ReportsAreTrue, Answered, EndsMatch, Connected

\* A request that fails is answered as failed.
LEMMA HandleFailsSound ==
    ASSUME BridgeSound, HandleFails
    PROVE  BridgeSound'
<1>1. serving # Accepting /\ (Connected => call.step = "receive")
  BY ServingSets DEF HandleFails, BridgeSound, EndsMatch
<1> QED
  BY <1>1, RefusalSound DEF HandleFails

\* What the worker answers is true of this call's request.
LEMMA HandleSound ==
    ASSUME BridgeSound, Handle
    PROVE  BridgeSound'
<1> DEFINE get == serving.request.op = "get"
<1>1. /\ serving \in Handles /\ serving # Accepting
      /\ serving.request \in Ops /\ serving.peer \in BOOLEAN
  BY ServingKinds, ServingSets DEF Handle, BridgeSound, BridgeTypeOK, Handles
<1>2. worker \in WorkerProcesses
  BY <1>1 DEF BridgeSound, BridgeTypeOK, EndsMatch
<1>3. Connected <=> serving.peer
  BY <1>1 DEF Connected, BridgeSound, EndsMatch
<1>4. serving.peer => call.step = "receive" /\ serving.request = call.op /\ closings = 0
  BY <1>3 DEF Handle, BridgeSound, EndsMatch
<1>5. /\ serving' \in Answers /\ serving'.step = "answer" /\ serving'.peer = serving.peer
      /\ serving'.reply.version = worker.version
      /\ serving'.reply.window = IF get THEN front ELSE Nothing
  BY <1>1, <1>2 DEF Handle, Answering, Answers, Reply, WorkerProcesses, BridgeSound, BridgeTypeOK
\* A closing that nobody waits for is not counted: it was another call's.
<1>6. /\ closings' \in 0 .. 2 /\ closings' <= 1
      /\ serving.peer => closings' = IF get THEN 0 ELSE 1
      /\ ~serving.peer => closings' = closings
  BY <1>1, <1>4 DEF Handle, BridgeSound, BridgeTypeOK, ReportsAreTrue
<1>7. BridgeTypeOK'
  BY <1>5, <1>6, ServingSets DEF Handle, Served, BridgeSound, BridgeTypeOK
<1>8. serving.peer => call # Idle /\ front \in seen /\ result.end = "none"
  BY <1>4, CallKinds DEF BridgeSound, EndsMatch
<1>9. EndsMatch'
  <2>1. UNCHANGED <<front, seen, worker, call, result, ended>>
    BY DEF Handle, Served
  <2>2. CASE ~serving.peer
    <3>1. closings' = closings /\ ~Connected'
      BY <1>5, <1>6, <2>2 DEF Connected
    <3> QED
      BY <1>1, <1>5, <2>1, <2>2, <3>1 DEF BridgeSound, EndsMatch
  <2>3. CASE serving.peer
    <3>1. call.step = "receive" /\ (get \/ call.op.op # "get")
      BY <1>4, <2>3
    <3>2. IF call.op.op = "get" THEN serving'.reply.window \in seen ELSE closings' = 1
      BY <1>4, <1>5, <1>6, <1>8, <2>3
    <3> QED
      BY <1>1, <1>3, <1>5, <2>1, <2>3, <3>1, <3>2 DEF BridgeSound, EndsMatch, Connected
  <2> QED
    BY <2>2, <2>3
<1>10. ReportsAreTrue'
  BY <1>6, <1>8 DEF Handle, Served, BridgeSound, ReportsAreTrue, Answered
<1> QED
  BY <1>7, <1>9, <1>10 DEF BridgeSound

\* Every step keeps the invariant.
LEMMA BridgeStepSound == BridgeSound /\ [BridgeNext]_bridgeVars => BridgeSound'
<1> SUFFICES ASSUME BridgeSound, [BridgeNext]_bridgeVars
             PROVE  BridgeSound'
  OBVIOUS
<1>1. CASE \E w \in Windows : ToFront(w)
  BY <1>1, ToFrontSound
<1>2. CASE \E u \in Users, v \in Versions : StartWorker(u, v)
  BY <1>2, StartWorkerSound
<1>3. CASE EndWorker
  BY <1>3, EndWorkerSound
<1>4. CASE GetActiveWindow \/ CloseWindow
  BY <1>4, RequestSound
<1>5. CASE CallStep
  BY <1>5, DialFailsSound, DialSound, VerifySound, WriteSound, LostSound, ReceiveSound
  DEF CallStep
<1>6. CASE TimeOut \/ EndService
  BY <1>6, TimeOutSound, EndServiceSound
<1>7. CASE ReadFails \/ AnswerFails \/ WorkerTimeOut
  BY <1>7, AcceptSound DEF ReadFails, AnswerFails, WorkerTimeOut
<1>8. CASE ReadRequest \/ Handle \/ HandleFails
  BY <1>8, ReadRequestSound, HandleSound, HandleFailsSound
<1>9. CASE UNCHANGED bridgeVars
  BY <1>9 DEF bridgeVars, BridgeSound, BridgeTypeOK, ReportsAreTrue, Answered, EndsMatch, Connected
<1> QED
  BY <1>1, <1>2, <1>3, <1>4, <1>5, <1>6, <1>7, <1>8, <1>9 DEF BridgeNext, WorkerStep

\* A window the service is told was in front of the child's desktop during that
\* call, and a window it is told closed was closed, once (ReportsAreTrue).
THEOREM AnswersHold == BridgeSpec => [](BridgeTypeOK /\ ReportsAreTrue)
<1>1. BridgeSound => BridgeTypeOK /\ ReportsAreTrue
  BY DEF BridgeSound
<1> QED
  BY <1>1, BridgeInitSound, BridgeStepSound, PTL DEF BridgeSpec
=============================================================================
