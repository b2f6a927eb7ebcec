----------------------------- MODULE PolicySync -----------------------------
(***************************************************************************)
(* From the parent's decision to the child's browser: the profile rows of  *)
(* the service (ProfilePolicy), their synchronisation to one agent         *)
(* (internal/agent/policy_sync.go) and the agent's verdict on a URL by the *)
(* policy it runs with (BrowserRules).                                     *)
(*                                                                         *)
(* Sync is called again and again, one call at a time.  It lists the       *)
(* profiles of the device, reads each configuration, which also cleans the *)
(* row up, and applies those that are newer than the last revision         *)
(* applied.  Whatever fails, the other profiles are still tried.  The last *)
(* revisions are kept in memory, so a restarted agent knows none.          *)
(***************************************************************************)
EXTENDS BrowserRules, FiniteSets

CONSTANTS Profiles,      \* identifiers, in their order
          Ruled,         \* Ruled[p]: the rules the parent wrote for p
          Healthy,       \* profiles that do not fail every time
          MaxChanges,    \* bound on the parent's changes
          MaxRestarts,   \* bound on the agent's restarts
          MaxTime        \* bound on the clock

ASSUME ProfilesAssumption == Profiles \subseteq Nat
ASSUME RuledAssumption == Ruled \in [Profiles -> Rules] /\ Healthy \subseteq Profiles
ASSUME SyncBoundAssumption == MaxChanges \in Nat /\ MaxRestarts \in Nat /\ MaxTime \in Nat

VARIABLES now,
          linked,        \* profiles linked to the device
          versions,      \* versions[p][r]: the policy of revision r, the last one is stored
          last,          \* lastRevision of the synchronizer
          applied,       \* the revision the agent runs profile p with; 0 for none
          sync,          \* the call of Sync
          granted,       \* history: approvals the parent gave
          changes, restarts

service == <<linked, versions, granted, changes>>
agent == <<last, applied, sync, restarts>>
syncVars == <<now, service, agent>>

NoSync == [step |-> "idle"]
Sync == {NoSync}
          \cup [step : {"fetch"}, todo : SUBSET Profiles]
          \cup [step : {"apply"}, todo : SUBSET Profiles, profile : Profiles, revision : Nat]

Revision(p) == Len(versions[p])
Stored(p) == [revision |-> Revision(p),
              policy |-> IF versions[p] = <<>> THEN EmptyPolicy ELSE Last(versions[p])]
Store(p, config) ==
    versions' = IF config.revision = Revision(p) THEN versions
                ELSE [versions EXCEPT ![p] = Append(@, config.policy)]

NewProfile == [EmptyPolicy EXCEPT !.profile = TRUE]

SyncInit ==
    /\ now = 0
    /\ linked \in SUBSET Profiles
    /\ versions = [p \in Profiles |-> <<NewProfile>>]
    /\ last = [p \in Profiles |-> 0]
    /\ applied = last
    /\ sync = NoSync
    /\ granted = {}
    /\ changes = 0 /\ restarts = 0

-----------------------------------------------------------------------------
(* The parent, through the service                                         *)

Change == changes < MaxChanges /\ changes' = changes + 1

Approve(p, s, decision) ==
    LET until == IF decision.action = "temporary" THEN now + decision.duration ELSE NoApproval
    IN  /\ Change
        /\ Store(p, ApproveRow(Stored(p), now, s, decision, until))
        /\ granted' = granted \cup {[profile |-> p, site |-> s, until |-> until]}
        /\ UNCHANGED <<now, linked, agent>>

\* The parent replaces the policy by one without approvals.
Revoke(p) ==
    /\ Change
    /\ Store(p, PutRow(Stored(p), NewProfile))
    /\ UNCHANGED <<now, linked, granted, agent>>

LinkDevice(p) ==
    /\ Change
    /\ linked' = linked \cup {p}
    /\ UNCHANGED <<now, versions, granted, agent>>

UnlinkDevice(p) ==
    /\ Change
    /\ p \in linked
    /\ linked' = linked \ {p}
    /\ UNCHANGED <<now, versions, granted, agent>>

-----------------------------------------------------------------------------
(* The agent                                                               *)

Continue(todo) == sync' = IF todo = {} THEN NoSync ELSE [step |-> "fetch", todo |-> todo]

\* The service's answers; reading a configuration cleans its row up.
DeviceProfiles == linked
ProfileConfiguration(p) == ReadConfigurationRow(Stored(p), now)

\* Sync; when DeviceProfiles fails nothing changes.
StartSync ==
    /\ sync = NoSync
    /\ Continue(DeviceProfiles)
    /\ UNCHANGED <<now, service, last, applied, restarts>>

FetchFails(p) ==
    /\ sync.step = "fetch" /\ p = Min(sync.todo)
    /\ Continue(sync.todo \ {p})
    /\ UNCHANGED <<now, service, last, applied, restarts>>

IsNewer(p, revision) == revision > last[p]

\* syncProfile up to the test of the revision; profiles are listed in order.
Fetch(p) ==
    LET config == ProfileConfiguration(p)
    IN  /\ sync.step = "fetch" /\ p = Min(sync.todo)
        /\ Store(p, config)
        /\ IF IsNewer(p, config.revision)
           THEN sync' = [step |-> "apply", todo |-> sync.todo \ {p},
                         profile |-> p, revision |-> config.revision]
           ELSE Continue(sync.todo \ {p})
        /\ UNCHANGED <<now, linked, granted, changes, last, applied, restarts>>

Apply(p) ==
    /\ sync.step = "apply" /\ sync.profile = p
    /\ applied' = [applied EXCEPT ![p] = sync.revision]
    /\ last' = [last EXCEPT ![p] = sync.revision]
    /\ Continue(sync.todo)
    /\ UNCHANGED <<now, service, restarts>>

\* Slip: the revision is acknowledged although applying it failed.
ApplyFailsAcknowledged(p) ==
    /\ sync.step = "apply" /\ sync.profile = p
    /\ applied' \in {applied, [applied EXCEPT ![p] = sync.revision]}
    /\ last' = [last EXCEPT ![p] = sync.revision]
    /\ Continue(sync.todo)
    /\ UNCHANGED <<now, service, restarts>>

\* Slip: the first failure ends the round.
ApplyFailsAborting(p) ==
    /\ sync.step = "apply" /\ sync.profile = p
    /\ applied' \in {applied, [applied EXCEPT ![p] = sync.revision]}
    /\ sync' = NoSync
    /\ UNCHANGED <<now, service, last, restarts>>

\* Applying fails before or after it has taken effect; the revision is not
\* acknowledged and the other profiles are still synchronised.
ApplyFails(p) ==
    /\ sync.step = "apply" /\ sync.profile = p
    /\ applied' \in {applied, [applied EXCEPT ![p] = sync.revision]}
    /\ Continue(sync.todo)
    /\ UNCHANGED <<now, service, last, restarts>>

\* The agent's process ends and another one takes over.
Restart ==
    /\ restarts < MaxRestarts
    /\ restarts' = restarts + 1
    /\ last' = [p \in Profiles |-> 0]
    /\ applied' = [p \in Profiles |-> 0]
    /\ sync' = NoSync
    /\ UNCHANGED <<now, service>>

ClockTick ==
    /\ now < MaxTime
    /\ now' = now + 1
    /\ UNCHANGED <<service, agent>>

-----------------------------------------------------------------------------
Parent(p) ==
    \/ \E s \in Sites, decision \in Decisions : Approve(p, s, decision)
    \/ Revoke(p) \/ LinkDevice(p) \/ UnlinkDevice(p)

SyncNext ==
    \/ StartSync \/ Restart \/ ClockTick
    \/ \E p \in Profiles : Parent(p) \/ FetchFails(p) \/ Fetch(p) \/ Apply(p) \/ ApplyFails(p)

SyncSpec == SyncInit /\ [][SyncNext]_syncVars

\* Sync is called again and again and each step of it ends; a healthy profile
\* that is asked for and applied over and over does not fail every time.
SyncFairness ==
    /\ WF_syncVars(StartSync)
    /\ \A p \in Profiles :
         WF_syncVars(Fetch(p) \/ FetchFails(p)) /\ WF_syncVars(Apply(p) \/ ApplyFails(p))
    /\ \A p \in Healthy : SF_syncVars(Fetch(p)) /\ SF_syncVars(Apply(p))

-----------------------------------------------------------------------------
\* What the agent lets the child open in profile p.
Opens(p, url) ==
    applied[p] > 0 /\ Allows(Ruled[p], versions[p][applied[p]], url, now)

SyncTypeOK ==
    /\ now \in Nat /\ linked \subseteq Profiles
    /\ \A p \in Profiles : \A r \in 1..Revision(p) : versions[p][r] \in Policy
    /\ \A p \in Profiles : applied[p] \in 0..Revision(p)
    /\ sync \in Sync

\* A site of an allow list opens only by an approval of that profile which
\* covers it and has not ended, however stale the agent's policy is: expiry
\* does not wait for the next synchronisation.
Covers(site, url) == \E k \in 1..Len(url.host) : SubSeq(url.host, k, Len(url.host)) = site

OpensOnlyApproved ==
    \A p \in Profiles, url \in Urls :
        Opens(p, url) /\ Ruled[p].policy = "allow_list" =>
            \/ MatchesAny(url, Ruled[p].allowed)
            \/ \E g \in granted : /\ g.profile = p /\ Covers(g.site, url)
                                  /\ g.until = NoApproval \/ now < g.until

\* Synchronisation implements PolicyReplica: a revision is acknowledged only
\* when it, or a later one, runs; what runs and what is acknowledged exists, only
\* moves forward, and is forgotten by a restart (policy_sync.go:47-94).
Replica == INSTANCE PolicyReplica
             WITH latest <- [p \in Profiles |-> Revision(p)],
                  runs <- applied, known <- last

IsReplica == Replica!Spec

\* The profiles that do not fail every time catch up with the parent again
\* and again, also when another profile never can be applied.
CatchesUp ==
    \A p \in Healthy : []<>(p \notin linked \/ last[p] = Revision(p))
=============================================================================
