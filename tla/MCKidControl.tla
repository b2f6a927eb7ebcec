---------------------------- MODULE MCKidControl ----------------------------
(***************************************************************************)
(* KidControl on the child's device for TLC: which browser profile applies *)
(* (BrowserProfiles), the visits the browser monitor tracks                *)
(* (BrowserMonitor) and the app and window monitors (Enforcement).  The    *)
(* three share no state, so each behaviour is of one part and leaves the   *)
(* others as they began: every state of each is reached without their      *)
(* product.                                                                *)
(*                                                                         *)
(* One blocked and one harmless program; one blocked and one harmless      *)
(* title.                                                                  *)
(***************************************************************************)
EXTENDS BrowserProfiles, BrowserMonitor, Enforcement

CONSTANTS game, editor, chat, work

MCApps == {game, editor}
MCBlockedApps == {game}
MCTitles == {chat, work}
MCBlockedTitles == {chat}

Both(mode) == [mode |-> mode, dryRun |-> FALSE, app |-> TRUE, window |-> TRUE]
WindowOnly == [Both("enforce") EXCEPT !.app = FALSE]
MCConfigs == {Both("enforce"), Both("monitor"), WindowOnly}

VARIABLE part  \* the part that runs

MCVars == <<profilesVars, monitorVars, vars, part>>

\* Nothing that is fair can happen in a part that rests: the browser monitor
\* has not been started, and the module of the loops has stopped.
EnforcementRests ==
    /\ process = [p \in Pids |-> None] /\ launched = <<>> /\ front = None
    /\ config = Both("enforce") /\ phase = "stopped"
    /\ appLoop = Off /\ windowLoop = Off
    /\ handledPIDs = {} /\ handledWindows = {}
    /\ attempts = [t \in Targets |-> 0] /\ starts = 1

MCInit ==
    /\ ProfilesInit /\ MonitorInit
    /\ \/ part \in {"profiles", "monitor"} /\ EnforcementRests
       \/ part = "enforcement" /\ Init

\* A bound: the harmless title appears only while the window loop runs alone.
FewTitles(c, windows) ==
    c.app => \A i \in DOMAIN windows : windows[i].title \in BlockedTitles

MCNext ==
    \/ part = "profiles" /\ ProfilesNext /\ UNCHANGED <<monitorVars, vars, part>>
    \/ part = "monitor" /\ MonitorNext /\ UNCHANGED <<profilesVars, vars, part>>
    \/ part = "enforcement" /\ Next /\ FewTitles(config', launched')
         /\ UNCHANGED <<profilesVars, monitorVars, part>>

MCSpec == MCInit /\ [][MCNext]_MCVars /\ MonitorFairness /\ Fairness
\* Types, for every part; and the module never runs with a browser profile's
\* activation that a check has ended (browser_state.go:107-119).
TypesOK == ProfilesTypeOK /\ MonitorTypeOK /\ TypeOK
=============================================================================
