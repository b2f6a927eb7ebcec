------------------------------ MODULE MCAgent ------------------------------
(***************************************************************************)
(* The agent for TLC: the synchronisation of its policy (PolicySync), its  *)
(* Windows service from start to stop (AgentProcess), the installation of  *)
(* the service (ServiceControl), the choice of the child whose session     *)
(* worker starts (SessionConfig) and the bridge to that worker             *)
(* (SessionBridge).  They share no state, so each behaviour is of one part *)
(* and leaves the others as they began: every state of each is reached     *)
(* without their product.                                                  *)
(*                                                                         *)
(* The URLs are a site, a page of a host under it, a host above it, and    *)
(* one that does not parse.  The policy of the agent enables all four      *)
(* components of KidControl, two of them, or none.                         *)
(***************************************************************************)
EXTENDS PolicySync, AgentProcess, ServiceControl, SessionConfig, SessionBridge

MCSites == {<<"shop", "org">>}
MCUrls == {[host |-> <<"shop", "org">>, path |-> <<>>],
           [host |-> <<"my", "shop", "org">>, path |-> <<"sale">>],
           [host |-> <<"org">>, path |-> <<>>], Unparsed}
AllowList == [policy |-> "allow_list", allowed |-> {}, blocked |-> {}]
MCRuled == [p \in Profiles |-> AllowList]

MCOrder == <<"app", "window", "screen", "browser">>
MCPolicies == {{}, {"app", "browser"}, {"app", "window", "screen", "browser"}}

VARIABLE part  \* the part that runs

MCVars == <<syncVars, vars, controlVars, configVars, bridgeVars, part>>

\* Nothing that is fair can happen in a part that rests: no profile is linked
\* to the device, and the service's process has not begun.
SyncRests == SyncInit /\ linked = {}

ProcessRests == Init /\ enabled = {}

BridgeRests == BridgeInit /\ front = CHOOSE w \in Windows : TRUE

ConfigRests == ConfigInit /\ hives = {}

MCInit ==
    /\ part \in {"sync", "process", "control", "config", "bridge"}
    /\ IF part = "sync" THEN SyncInit ELSE SyncRests
    /\ IF part = "process" THEN Init ELSE ProcessRests
    /\ ControlInit
    /\ IF part = "config" THEN ConfigInit ELSE ConfigRests
    /\ IF part = "bridge" THEN BridgeInit ELSE BridgeRests

MCNext ==
    \/ /\ part = "sync" /\ SyncNext
       /\ UNCHANGED <<vars, controlVars, configVars, bridgeVars, part>>
    \/ /\ part = "process" /\ Next
       /\ UNCHANGED <<syncVars, controlVars, configVars, bridgeVars, part>>
    \/ /\ part = "control" /\ ControlNext
       /\ UNCHANGED <<syncVars, vars, configVars, bridgeVars, part>>
    \/ /\ part = "config" /\ ConfigNext
       /\ UNCHANGED <<syncVars, vars, controlVars, bridgeVars, part>>
    \/ /\ part = "bridge" /\ BridgeNext
       /\ UNCHANGED <<syncVars, vars, controlVars, configVars, part>>

MCSpec ==
    /\ MCInit /\ [][MCNext]_MCVars
    /\ SyncFairness /\ Fairness /\ CallFairness
\* Types, for every part.
TypesOK == SyncTypeOK /\ TypeOK /\ ControlTypeOK /\ ConfigTypeOK /\ BridgeTypeOK
=============================================================================
