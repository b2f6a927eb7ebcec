------------------------- MODULE PolicySync_proofs -------------------------
(***************************************************************************)
(* Proofs about policy synchronisation, for all profiles, rules and sites. *)
(* It implements PolicyReplica: whatever fetches and applications fail, a  *)
(* revision is acknowledged only when it, or a later one, runs, and a      *)
(* device never goes back to an older policy without a restart.  And what  *)
(* a stale policy opens, the parent has approved for just as long.         *)
(***************************************************************************)
EXTENDS PolicySync, SequenceTheorems, TLAPS

Histories == [Profiles -> Seq(Policy)]

\* What the agent runs and has acknowledged are revisions of the service, in this
\* order, and the revision it is about to apply is not behind either.
InOrder ==
    \A p \in Profiles : last[p] <= applied[p] /\ applied[p] <= Revision(p)

SyncSound ==
    /\ now \in Nat /\ versions \in Histories
    /\ last \in [Profiles -> Nat] /\ applied \in [Profiles -> Nat]
    /\ InOrder
    /\ sync.step = "apply" =>
          /\ sync.profile \in Profiles /\ sync.revision \in Nat
          /\ last[sync.profile] < sync.revision
          /\ applied[sync.profile] <= sync.revision
          /\ sync.revision <= Revision(sync.profile)

\* A row after a transaction: as it was, or the next revision of it.
IsNextRow(row, next) ==
    /\ next.policy \in Policy
    /\ next.revision = row.revision \/ next.revision = row.revision + 1

\* Cleaning a policy up keeps its type.
LEMMA CleanupType ==
    ASSUME NEW policy \in Policy, NEW t \in Nat
    PROVE  CleanupExpired(policy, t) \in Policy
BY DEF CleanupExpired, Policy, NoApproval

\* A mutation stores the policy as the next revision, or nothing ...
LEMMA MutatedNext ==
    ASSUME NEW row, row.policy \in Policy, NEW cleaned \in Policy, NEW mutated \in Policy
    PROVE  IsNextRow(row, Mutated(row, cleaned, mutated))
BY DEF Mutated, IsNextRow

\* ... and so do a read that cleans up ...
LEMMA ReadNext ==
    ASSUME NEW row, row.policy \in Policy, NEW t \in Nat
    PROVE  IsNextRow(row, ReadConfigurationRow(row, t))
BY CleanupType, MutatedNext DEF ReadConfigurationRow

\* ... an approval ...
LEMMA ApproveNext ==
    ASSUME NEW row, row.policy \in Policy, NEW t \in Nat, NEW s \in Sites, NEW d, NEW until \in Nat
    PROVE  IsNextRow(row, ApproveRow(row, t, s, d, until))
<1> DEFINE cleaned == CleanupExpired(row.policy, t)
<1>1. cleaned \in Policy
  BY CleanupType
<1>2. AddTemporary(cleaned, s, until) \in Policy /\ AddPermanent(cleaned, s) \in Policy
  BY <1>1 DEF AddTemporary, AddPermanent, Policy
<1> QED
  BY <1>1, <1>2, MutatedNext DEF ApproveRow

\* ... and a replacement of the policy.
LEMMA PutNext ==
    ASSUME NEW row, row.policy \in Policy, NEW policy \in Policy
    PROVE  IsNextRow(row, PutRow(row, policy))
BY DEF PutRow, IsNextRow

\* Storing a row adds the new revision to the profile's versions, if there is one.
LEMMA StoreGrows ==
    ASSUME versions \in Histories, NEW p \in Profiles, NEW next,
           IsNextRow(Stored(p), next), Store(p, next)
    PROVE  /\ versions' \in Histories
           /\ \A q \in Profiles \ {p} : versions'[q] = versions[q]
           /\ Revision(p)' = next.revision /\ Revision(p) <= next.revision
           /\ \/ versions' = versions
              \/ Revision(p)' = Revision(p) + 1
<1>1. versions[p] \in Seq(Policy) /\ Revision(p) \in Nat /\ Stored(p).revision = Revision(p)
  BY DEF Histories, Revision, Stored
<1>2. CASE next.revision = Revision(p)
  BY <1>1, <1>2 DEF Store, Revision
<1>3. CASE next.revision # Revision(p)
  <2>1. next.revision = Revision(p) + 1 /\ next.policy \in Policy
    BY <1>1, <1>3 DEF IsNextRow
  <2>2. versions' = [versions EXCEPT ![p] = Append(versions[p], next.policy)]
    BY <1>3 DEF Store
  <2>3. /\ Append(versions[p], next.policy) \in Seq(Policy)
        /\ Len(Append(versions[p], next.policy)) = Len(versions[p]) + 1
    BY <1>1, <2>1
  <2>4. versions' \in Histories /\ versions'[p] = Append(versions[p], next.policy)
    BY <2>2, <2>3 DEF Histories
  <2> QED
    BY <1>1, <2>1, <2>2, <2>3, <2>4 DEF Revision, Histories
<1> QED
  BY <1>2, <1>3

\* The stored policy of a profile is one of its versions.
LEMMA StoredType ==
    ASSUME versions \in Histories, NEW p \in Profiles
    PROVE  Stored(p).policy \in Policy /\ Stored(p).revision = Revision(p)
<1>1. EmptyPolicy \in Policy
  BY DEF EmptyPolicy, Policy, NoApproval
<1>2. versions[p] \in Seq(Policy)
  BY DEF Histories
<1>3. versions[p] # <<>> => Last(versions[p]) \in Policy
  BY <1>2 DEF Last
<1> QED
  BY <1>1, <1>2, <1>3 DEF Stored

-----------------------------------------------------------------------------
\* Each step keeps the order and is a step of the replica, or none.

StepSound == SyncSound' /\ [Replica!Next]_(Replica!vars)

\* The agent is not touched.
LEMMA StoreSound ==
    ASSUME SyncSound, now' = now, NEW p \in Profiles, NEW next,
           IsNextRow(Stored(p), next), Store(p, next), UNCHANGED <<last, applied, sync>>
    PROVE  StepSound
<1>1. /\ versions \in Histories /\ versions' \in Histories
      /\ \A q \in Profiles \ {p} : versions'[q] = versions[q]
      /\ Revision(p) <= Revision(p)'
      /\ versions' = versions \/ Revision(p)' = Revision(p) + 1
  BY StoreGrows DEF SyncSound
<1>2. \A q \in Profiles : /\ Revision(q) \in Nat /\ Revision(q)' \in Nat
                          /\ Revision(q) <= Revision(q)'
  BY <1>1 DEF Histories, Revision
<1>3. SyncSound'
  BY <1>1, <1>2 DEF SyncSound, InOrder
<1>4. CASE versions' = versions
  BY <1>3, <1>4 DEF StepSound, Replica!vars, Revision
<1>5. CASE Revision(p)' = Revision(p) + 1
  <2> DEFINE latest == [q \in Profiles |-> Revision(q)]
  <2>1. \A q \in Profiles \ {p} : Revision(q)' = Revision(q)
    BY <1>1 DEF Revision
  <2>2. latest' = [latest EXCEPT ![p] = @ + 1]
    BY <1>5, <2>1
  <2>3. Replica!Publish(p)
    BY <2>2 DEF Replica!Publish
  <2> QED
    BY <1>3, <2>3 DEF StepSound, Replica!Next
<1> QED
  BY <1>1, <1>4, <1>5

\* What a parent does stores a next revision at most.
LEMMA ParentSound ==
    ASSUME SyncSound, NEW p \in Profiles, Parent(p)
    PROVE  StepSound
<1>1. Stored(p).policy \in Policy
  BY StoredType DEF SyncSound
<1>2. ASSUME NEW s \in Sites, NEW decision \in Decisions, Approve(p, s, decision)
      PROVE  StepSound
  <2> DEFINE until == IF decision.action = "temporary" THEN now + decision.duration
                                                       ELSE NoApproval
  <2>1. decision.duration \in Durations \cup {0}
    BY DEF Decisions
  <2>2. \A d \in Durations : d \in Nat
    BY DurationsAssumption
  <2>3. until \in Nat
    BY <2>1, <2>2 DEF SyncSound, NoApproval
  <2>4. IsNextRow(Stored(p), ApproveRow(Stored(p), now, s, decision, until))
    BY <1>1, <2>3, ApproveNext DEF SyncSound
  <2> QED
    BY <1>2, <2>4, StoreSound DEF Approve, agent
<1>3. CASE Revoke(p)
  <2>1. NewProfile \in Policy
    BY DEF NewProfile, EmptyPolicy, Policy, NoApproval
  <2>2. IsNextRow(Stored(p), PutRow(Stored(p), NewProfile))
    BY <1>1, <2>1, PutNext
  <2> QED
    BY <1>3, <2>2, StoreSound DEF Revoke, agent
<1>4. CASE LinkDevice(p) \/ UnlinkDevice(p)
  <2>1. UNCHANGED <<now, versions, last, applied, sync>>
    BY <1>4 DEF LinkDevice, UnlinkDevice, agent
  <2> QED
    BY <2>1 DEF StepSound, SyncSound, InOrder, Revision, Replica!vars
<1> QED
  BY <1>2, <1>3, <1>4 DEF Parent

\* Going on with the round changes nothing that the agent runs or knows.
LEMMA ContinueStep ==
    ASSUME NEW todo, Continue(todo)
    PROVE  sync'.step # "apply"
BY DEF Continue, NoSync

\* A step that neither stores, runs nor acknowledges is a stutter of the
\* replica.
LEMMA QuietSound ==
    ASSUME SyncSound, now' \in Nat, UNCHANGED <<versions, last, applied>>,
           sync' = sync \/ sync'.step # "apply"
    PROVE  StepSound
BY DEF StepSound, SyncSound, InOrder, Revision, Replica!vars

\* A fetched revision is the newest of its profile.
LEMMA FetchSound ==
    ASSUME SyncSound, NEW p \in Profiles, Fetch(p)
    PROVE  StepSound
<1> DEFINE row == ProfileConfiguration(p)
<1>1. IsNextRow(Stored(p), row)
  BY StoredType, ReadNext DEF ProfileConfiguration, SyncSound
<1>2. /\ Store(p, row) /\ UNCHANGED <<now, last, applied>>
      /\ IF IsNewer(p, row.revision)
         THEN sync' = [step |-> "apply", todo |-> sync.todo \ {p},
                       profile |-> p, revision |-> row.revision]
         ELSE Continue(sync.todo \ {p})
  BY DEF Fetch
<1> HIDE DEF row
<1>3. /\ versions \in Histories /\ versions' \in Histories
      /\ \A q \in Profiles \ {p} : versions'[q] = versions[q]
      /\ Revision(p)' = row.revision /\ Revision(p) <= row.revision
      /\ versions' = versions \/ Revision(p)' = Revision(p) + 1
  BY <1>1, <1>2, StoreGrows DEF SyncSound
<1>4. \A q \in Profiles : /\ Revision(q) \in Nat /\ Revision(q)' \in Nat
                          /\ Revision(q) <= Revision(q)'
  BY <1>3 DEF Histories, Revision
<1>5. InOrder'
  BY <1>2, <1>4 DEF SyncSound, InOrder
<1>6. SyncSound'
  <2>1. CASE IsNewer(p, row.revision)
    <3>1. /\ sync'.step = "apply" /\ sync'.profile = p
          /\ sync'.revision = row.revision /\ row.revision \in Nat
      BY <1>2, <1>3, <1>4, <2>1
    <3>2. last[p] < row.revision /\ applied[p] <= row.revision
      BY <1>3, <1>4, <2>1 DEF IsNewer, SyncSound, InOrder
    <3> QED
      BY <1>2, <1>3, <1>5, <3>1, <3>2 DEF SyncSound
  <2>2. CASE ~IsNewer(p, row.revision)
    BY <1>2, <1>3, <1>5, <2>2, ContinueStep DEF SyncSound
  <2> QED
    BY <2>1, <2>2
<1>7. CASE versions' = versions
  BY <1>2, <1>6, <1>7 DEF StepSound, Replica!vars, Revision
<1>8. CASE Revision(p)' = Revision(p) + 1
  <2> DEFINE latest == [q \in Profiles |-> Revision(q)]
  <2>1. \A q \in Profiles \ {p} : Revision(q)' = Revision(q)
    BY <1>3 DEF Revision
  <2>2. latest' = [latest EXCEPT ![p] = @ + 1]
    BY <1>8, <2>1
  <2>3. Replica!Publish(p)
    BY <1>2, <2>2 DEF Replica!Publish
  <2> QED
    BY <1>6, <2>3 DEF StepSound, Replica!Next
<1> QED
  BY <1>3, <1>7, <1>8

\* What is applied is newer than what is known and not older than what runs.
LEMMA CatchUpSound ==
    ASSUME SyncSound, NEW p \in Profiles, sync.step = "apply", sync.profile = p,
           applied' = [applied EXCEPT ![p] = sync.revision],
           last' \in {last, [last EXCEPT ![p] = sync.revision]},
           UNCHANGED <<now, versions>>, sync'.step # "apply"
    PROVE  StepSound
<1> DEFINE latest == [q \in Profiles |-> Revision(q)]
           v == sync.revision
<1>1. /\ v \in Nat /\ last[p] < v /\ applied[p] <= v /\ v <= Revision(p)
      /\ last \in [Profiles -> Nat] /\ applied \in [Profiles -> Nat]
      /\ \A q \in Profiles : Revision(q) \in Nat
  BY DEF SyncSound, Histories, Revision
<1>2. v \in 1 .. latest[p] /\ latest' = latest
  BY <1>1 DEF Revision
<1>3. Replica!CatchUp(p, v)
  BY <1>1, <1>2 DEF Replica!CatchUp
<1>4. Replica!Next
  BY <1>2, <1>3 DEF Replica!Next
<1>5. SyncSound'
  BY <1>1 DEF SyncSound, InOrder, Revision
<1> QED
  BY <1>4, <1>5 DEF StepSound

\* What is applied is newer than what was acknowledged and not older than what
\* runs.
LEMMA ApplyingSound ==
    ASSUME SyncSound, NEW p \in Profiles, Apply(p) \/ ApplyFails(p)
    PROVE  StepSound
<1>1. sync.step = "apply" /\ sync.profile = p /\ UNCHANGED <<now, versions>>
  BY DEF Apply, ApplyFails, service
<1>2. sync'.step # "apply"
  BY ContinueStep DEF Apply, ApplyFails
<1>3. \/ applied' = applied /\ last' = last
      \/ /\ applied' = [applied EXCEPT ![p] = sync.revision]
         /\ last' \in {last, [last EXCEPT ![p] = sync.revision]}
  BY DEF Apply, ApplyFails
<1> QED
  BY <1>1, <1>2, <1>3, CatchUpSound, QuietSound DEF SyncSound

\* A restart forgets what runs and what was acknowledged.
LEMMA RestartSound ==
    ASSUME SyncSound, Restart
    PROVE  StepSound
<1>1. UNCHANGED <<now, versions>> /\ sync'.step # "apply"
  BY DEF Restart, service, NoSync
<1>2. Replica!Forget
  BY <1>1 DEF Restart, Replica!Forget, Revision
<1>3. SyncSound'
  <2>1. \A p \in Profiles : Revision(p)' \in Nat
    BY <1>1 DEF SyncSound, Histories, Revision
  <2> QED
    BY <1>1, <2>1 DEF Restart, SyncSound, InOrder
<1> QED
  BY <1>2, <1>3 DEF StepSound, Replica!Next

\* Every step keeps the invariant and is one of the replica, or none.
LEMMA SyncStepSound == SyncSound /\ [SyncNext]_syncVars => StepSound
<1> SUFFICES ASSUME SyncSound, [SyncNext]_syncVars
             PROVE  StepSound
  OBVIOUS
<1>1. CASE StartSync
  BY <1>1, ContinueStep, QuietSound DEF StartSync, service, SyncSound
<1>2. CASE ClockTick
  BY <1>2, QuietSound DEF ClockTick, service, agent, SyncSound
<1>3. ASSUME NEW p \in Profiles, FetchFails(p) PROVE StepSound
  BY <1>3, ContinueStep, QuietSound DEF FetchFails, service, SyncSound
<1>4. CASE UNCHANGED syncVars
  BY <1>4, QuietSound DEF syncVars, service, agent, SyncSound
<1> QED
  BY <1>1, <1>2, <1>3, <1>4, RestartSound, ParentSound, FetchSound, ApplyingSound DEF SyncNext

\* The initial state is sound, and one of the replica's.
LEMMA SyncInitSound == SyncInit => SyncSound /\ Replica!Init
<1> SUFFICES ASSUME SyncInit PROVE SyncSound /\ Replica!Init
  OBVIOUS
<1>1. NewProfile \in Policy
  BY DEF NewProfile, EmptyPolicy, Policy, NoApproval
<1>2. versions \in Histories /\ \A p \in Profiles : Revision(p) = 1
  BY <1>1 DEF SyncInit, Histories, Revision
<1>3. /\ last \in [Profiles -> Nat] /\ applied = last
      /\ \A p \in Profiles : last[p] = 0
      /\ sync.step = "idle" /\ now = 0
  BY DEF SyncInit, NoSync
<1>4. SyncSound
  BY <1>2, <1>3 DEF SyncSound, InOrder
<1>5. Replica!Init
  BY <1>2 DEF SyncInit, Replica!Init
<1> QED
  BY <1>4, <1>5

\* Synchronisation implements the replica (IsReplica): a revision is acknowledged
\* only when it runs, and the device moves forward until it is restarted.
THEOREM SyncImplementsReplica == SyncSpec => IsReplica
<1>1. SyncInit => SyncSound /\ Replica!Init
  BY SyncInitSound
<1>2. SyncSound /\ [SyncNext]_syncVars => SyncSound' /\ [Replica!Next]_(Replica!vars)
  BY SyncStepSound DEF StepSound
<1> QED
  BY <1>1, <1>2, PTL DEF SyncSpec, IsReplica, Replica!Spec

-----------------------------------------------------------------------------
(* What the agent opens                                                    *)

\* Every approval in a policy of profile p was given by the parent, with the same end.
Backed(p, policy, given) ==
    \A s \in Sites :
        /\ policy.temporary[s] # NoApproval =>
             \E g \in given : g.profile = p /\ g.site = s /\ g.until = policy.temporary[s]
        /\ s \in policy.allowed =>
             \E g \in given : g.profile = p /\ g.site = s /\ g.until = NoApproval

GrantsBack ==
    \A p \in Profiles : \A r \in 1 .. Revision(p) : Backed(p, versions[p][r], granted)

\* What was given stays given.
LEMMA BackedMore ==
    ASSUME NEW p, NEW policy, NEW given, NEW more, given \subseteq more, Backed(p, policy, given)
    PROVE  Backed(p, policy, more)
BY DEF Backed

\* Cleaning a policy up adds no approval.
LEMMA CleanupBacked ==
    ASSUME NEW p, NEW policy \in Policy, NEW t \in Nat, NEW given, Backed(p, policy, given)
    PROVE  Backed(p, CleanupExpired(policy, t), given)
<1> DEFINE cleaned == CleanupExpired(policy, t)
<1>1. /\ cleaned.allowed = policy.allowed
      /\ \A s \in Sites : cleaned.temporary[s] \in {policy.temporary[s], NoApproval}
  BY DEF CleanupExpired, Policy
<1> HIDE DEF cleaned
<1>2. Backed(p, cleaned, given)
  <2>1. ASSUME NEW s \in Sites, cleaned.temporary[s] # NoApproval
        PROVE  \E g \in given : g.profile = p /\ g.site = s /\ g.until = cleaned.temporary[s]
    <3>1. cleaned.temporary[s] = policy.temporary[s]
      BY <1>1, <2>1
    <3> QED
      BY <2>1, <3>1 DEF Backed
  <2>2. ASSUME NEW s \in Sites, s \in cleaned.allowed
        PROVE  \E g \in given : g.profile = p /\ g.site = s /\ g.until = NoApproval
    BY <1>1, <2>2 DEF Backed
  <2> QED
    BY <2>1, <2>2 DEF Backed
<1> QED
  BY <1>2 DEF cleaned

\* A transaction leaves the row as it was or stores the mutated policy.
LEMMA MutatedBacked ==
    ASSUME NEW p, NEW row, NEW cleaned, NEW mutated, NEW given,
           Backed(p, row.policy, given), Backed(p, mutated, given)
    PROVE  Backed(p, Mutated(row, cleaned, mutated).policy, given)
BY DEF Mutated

\* The stored policy is one of those the profile had.
LEMMA StoredBacked ==
    ASSUME SyncSound, GrantsBack, NEW p \in Profiles
    PROVE  Backed(p, Stored(p).policy, granted)
<1>1. versions[p] \in Seq(Policy)
  BY DEF SyncSound, Histories
<1>2. CASE versions[p] = <<>>
  <2>1. Backed(p, EmptyPolicy, granted)
    BY DEF Backed, EmptyPolicy, NoApproval
  <2> QED
    BY <1>2, <2>1 DEF Stored
<1>3. CASE versions[p] # <<>>
  <2>1. Len(versions[p]) \in 1 .. Len(versions[p])
    BY <1>1, <1>3, EmptySeq, LenProperties
  <2> QED
    BY <1>3, <2>1 DEF Stored, Last, GrantsBack, Revision
<1> QED
  BY <1>2, <1>3

\* A next revision is backed when its policy is.
LEMMA StoreBacked ==
    ASSUME SyncSound, GrantsBack, NEW p \in Profiles, NEW next,
           IsNextRow(Stored(p), next), Store(p, next), granted \subseteq granted',
           Backed(p, next.policy, granted')
    PROVE  GrantsBack'
<1>1. \A q \in Profiles : versions[q] \in Seq(Policy)
  BY DEF SyncSound, Histories
<1>2. \A q \in Profiles : \A r \in 1 .. Len(versions[q]) : Backed(q, versions[q][r], granted')
  BY BackedMore DEF GrantsBack, Revision
<1>3. CASE next.revision = Revision(p)
  <2>1. versions' = versions
    BY <1>3 DEF Store
  <2> QED
    BY <1>2, <2>1 DEF GrantsBack, Revision
<1>4. CASE next.revision # Revision(p)
  <2>1. versions' = [versions EXCEPT ![p] = Append(versions[p], next.policy)]
    BY <1>4 DEF Store
  <2>2. /\ versions'[p] = Append(versions[p], next.policy)
        /\ \A q \in Profiles \ {p} : versions'[q] = versions[q]
    BY <2>1 DEF SyncSound, Histories
  <2>3. next.policy \in Policy
    BY DEF IsNextRow
  <2>4. /\ Len(versions'[p]) = Len(versions[p]) + 1 /\ Len(versions[p]) \in Nat
        /\ \A r \in 1 .. Len(versions[p]) : versions'[p][r] = versions[p][r]
        /\ versions'[p][Len(versions[p]) + 1] = next.policy
    BY <1>1, <2>2, <2>3, AppendProperties
  <2>5. \A r \in 1 .. Len(versions'[p]) : Backed(p, versions'[p][r], granted')
    <3> SUFFICES ASSUME NEW r \in 1 .. Len(versions'[p])
                 PROVE  Backed(p, versions'[p][r], granted')
      OBVIOUS
    <3>1. CASE r \in 1 .. Len(versions[p])
      <4>1. versions'[p][r] = versions[p][r] /\ Backed(p, versions[p][r], granted')
        BY <1>2, <2>4, <3>1
      <4> QED
        BY <4>1
    <3>2. CASE r = Len(versions[p]) + 1
      BY <2>4, <3>2
    <3> QED
      BY <2>4, <3>1, <3>2
  <2> QED
    BY <1>2, <2>2, <2>5 DEF GrantsBack, Revision
<1> QED
  BY <1>3, <1>4

\* An approval of the parent is recorded as it is written into the policy.
LEMMA ApproveBacked ==
    ASSUME SyncSound, GrantsBack, NEW p \in Profiles, NEW s \in Sites,
           NEW decision \in Decisions, Approve(p, s, decision)
    PROVE  GrantsBack'
<1> DEFINE until == IF decision.action = "temporary" THEN now + decision.duration
                                                     ELSE NoApproval
           grant == [profile |-> p, site |-> s, until |-> until]
           row == Stored(p)
           cleaned == CleanupExpired(row.policy, now)
           mutated == IF decision.action = "temporary" THEN AddTemporary(cleaned, s, until)
                                                       ELSE AddPermanent(cleaned, s)
<1>1. row.policy \in Policy /\ now \in Nat /\ cleaned \in Policy
  BY StoredType, CleanupType DEF SyncSound
<1>2. until \in Nat
  <2>1. decision.duration \in Durations \cup {0}
    BY DEF Decisions
  <2>2. \A d \in Durations : d \in Nat
    BY DurationsAssumption
  <2> QED
    BY <1>1, <2>1, <2>2 DEF NoApproval
<1>3. granted' = granted \cup {grant} /\ Store(p, ApproveRow(row, now, s, decision, until))
  BY DEF Approve
<1>4. grant \in granted' /\ granted \subseteq granted'
  BY <1>3
<1>5. grant.profile = p /\ grant.site = s /\ grant.until = until
  OBVIOUS
<1>6. Backed(p, row.policy, granted') /\ Backed(p, cleaned, granted')
  BY <1>1, <1>4, StoredBacked, CleanupBacked, BackedMore
<1> HIDE DEF cleaned, until, grant, row
<1>7. Backed(p, mutated, granted')
  <2>1. CASE decision.action = "temporary"
    <3>1. /\ mutated.allowed = cleaned.allowed /\ mutated.temporary[s] = until
          /\ \A x \in Sites \ {s} : mutated.temporary[x] = cleaned.temporary[x]
      BY <1>1, <1>2, <2>1 DEF AddTemporary, Policy
    <3> QED
      BY <1>4, <1>5, <1>6, <3>1 DEF Backed
  <2>2. CASE decision.action # "temporary"
    <3>1. mutated.allowed = cleaned.allowed \cup {s} /\ mutated.temporary = cleaned.temporary
      BY <1>1, <2>2 DEF AddPermanent, Policy
    <3>2. until = NoApproval
      BY <2>2 DEF until
    <3> QED
      BY <1>4, <1>5, <1>6, <3>1, <3>2 DEF Backed
  <2> QED
    BY <2>1, <2>2
<1>8. ApproveRow(row, now, s, decision, until) = Mutated(row, cleaned, mutated)
  BY DEF ApproveRow, cleaned
<1>9. Backed(p, ApproveRow(row, now, s, decision, until).policy, granted')
  BY <1>6, <1>7, <1>8, MutatedBacked
<1>10. IsNextRow(row, ApproveRow(row, now, s, decision, until))
  BY <1>1, <1>2, ApproveNext
<1> QED
  BY <1>3, <1>4, <1>9, <1>10, StoreBacked DEF row

\* Taking approvals back adds none.
LEMMA RevokeBacked ==
    ASSUME SyncSound, GrantsBack, NEW p \in Profiles, Revoke(p)
    PROVE  GrantsBack'
<1>1. NewProfile \in Policy /\ Backed(p, NewProfile, granted)
  BY DEF NewProfile, EmptyPolicy, Policy, NoApproval, Backed
<1>2. IsNextRow(Stored(p), PutRow(Stored(p), NewProfile))
  BY <1>1, PutNext, StoredType DEF SyncSound
<1>3. Backed(p, PutRow(Stored(p), NewProfile).policy, granted)
  BY <1>1, StoredBacked DEF PutRow
<1> QED
  BY <1>2, <1>3, StoreBacked DEF Revoke

\* Nor does a read that cleans up.
LEMMA FetchBacked ==
    ASSUME SyncSound, GrantsBack, NEW p \in Profiles, Fetch(p)
    PROVE  GrantsBack'
<1> DEFINE row == Stored(p)
           cleaned == CleanupExpired(row.policy, now)
<1>1. row.policy \in Policy /\ now \in Nat
  BY StoredType DEF SyncSound
<1>2. Backed(p, row.policy, granted) /\ Backed(p, cleaned, granted)
  BY <1>1, StoredBacked, CleanupBacked
<1>3. Backed(p, ReadConfigurationRow(row, now).policy, granted)
  BY <1>2, MutatedBacked DEF ReadConfigurationRow
<1>4. IsNextRow(row, ReadConfigurationRow(row, now))
  BY <1>1, ReadNext
<1> QED
  BY <1>3, <1>4, StoreBacked DEF Fetch, ProfileConfiguration

\* Every step keeps the approvals of all policies backed.
LEMMA BackedStep ==
    ASSUME SyncSound, GrantsBack, [SyncNext]_syncVars
    PROVE  GrantsBack'
<1>1. CASE UNCHANGED <<versions, granted>>
  BY <1>1 DEF GrantsBack, Revision
<1>2. ASSUME NEW p \in Profiles, Parent(p)
      PROVE  GrantsBack'
  BY <1>1, <1>2, ApproveBacked, RevokeBacked DEF Parent, LinkDevice, UnlinkDevice
<1>3. ASSUME NEW p \in Profiles, FetchFails(p) \/ Apply(p) \/ ApplyFails(p)
      PROVE  GrantsBack'
  BY <1>1, <1>3 DEF FetchFails, Apply, ApplyFails, service
<1>4. CASE StartSync \/ Restart \/ ClockTick \/ UNCHANGED syncVars
  BY <1>1, <1>4 DEF StartSync, Restart, ClockTick, syncVars, service
<1> QED
  BY <1>2, <1>3, <1>4, FetchBacked DEF SyncNext

\* A rule for a site matches only URLs whose host ends in that site.
LEMMA RuleCovers ==
    ASSUME NEW site \in Sites, NEW url \in Urls, Matches(url, RuleOf(site))
    PROVE  Covers(site, url)
<1> DEFINE h == url.host
           n == Len(site)
           m == Len(h)
<1>1. /\ site \in Seq(ToSet(site)) /\ site # <<>>
      /\ h \in Seq(ToSet(h))
  BY HostsAssumption
<1>2. n \in Nat \ {0} /\ m \in Nat
  BY <1>1, EmptySeq, LenProperties
<1>3. /\ Len(Reverse(site)) = n /\ Len(Reverse(h)) = m
      /\ Reverse(site) \in Seq(ToSet(site)) /\ Reverse(h) \in Seq(ToSet(h))
  <2>1. ASSUME NEW S, NEW s \in Seq(S)
        PROVE  Reverse(s) \in Seq(S) /\ Len(Reverse(s)) = Len(s)
    <3>1. Len(s) \in Nat /\ \A i \in 1 .. Len(s) : s[i] \in S
      BY <2>1, LenProperties, ElementOfSeq
    <3>2. Reverse(s) \in [1 .. Len(s) -> S]
      BY <3>1 DEF Reverse
    <3>3. Reverse(s) \in Seq(S)
      BY <3>1, <3>2, SeqDef
    <3>4. 1 .. Len(Reverse(s)) = 1 .. Len(s) /\ Len(Reverse(s)) \in Nat
      BY <3>2, <3>3, LenProperties
    <3> QED
      BY <3>1, <3>3, <3>4
  <2> QED
    BY <1>1, <2>1
<1>4. IsPrefix(Reverse(site), Reverse(h))
  BY DEF Matches, RuleOf, IsSuffix
<1>5. n <= m /\ SubSeq(Reverse(site), 1, n) = SubSeq(Reverse(h), 1, n)
  BY <1>3, <1>4 DEF IsPrefix
<1>6. ASSUME NEW i \in 1 .. n
      PROVE  site[n - i + 1] = h[m - i + 1]
  <2>1. Reverse(site)[i] = site[n - i + 1] /\ Reverse(h)[i] = h[m - i + 1]
    BY <1>2, <1>5 DEF Reverse
  <2>2. /\ SubSeq(Reverse(site), 1, n)[i] = Reverse(site)[i]
        /\ SubSeq(Reverse(h), 1, n)[i] = Reverse(h)[i]
    BY <1>2, <1>3, <1>5
  <2> QED
    BY <1>5, <2>1, <2>2
<1>7. ASSUME NEW j \in 1 .. n
      PROVE  site[j] = h[m - n + j]
  <2>1. n - j + 1 \in 1 .. n /\ n - (n - j + 1) + 1 = j /\ m - (n - j + 1) + 1 = m - n + j
    BY <1>2
  <2> QED
    BY <1>6, <2>1
<1> DEFINE k == m - n + 1
           t == SubSeq(h, k, m)
<1>8. k \in 1 .. m /\ m - k + 1 = n
  BY <1>2, <1>5
<1>9. t \in Seq(ToSet(h)) /\ Len(t) = n /\ \A j \in 1 .. n : t[j] = h[k + j - 1]
  BY <1>1, <1>2, <1>8, SubSeqProperties, ElementOfSeq
<1>10. t = site
  <2>1. \A j \in 1 .. n : t[j] = site[j]
    BY <1>2, <1>7, <1>9
  <2> DEFINE S == ToSet(site) \cup ToSet(h)
  <2> HIDE DEF t
  <2>2. ToSet(site) \subseteq S /\ ToSet(h) \subseteq S
    OBVIOUS
  <2> HIDE DEF S
  <2>3. t \in Seq(S) /\ site \in Seq(S)
    BY <1>1, <1>9, <2>2, SeqMonotonic
  <2> QED
    BY <1>9, <2>1, <2>3, SeqEqual
<1> QED
  BY <1>8, <1>10 DEF Covers

\* What runs is one of those policies, so what it opens was approved.
LEMMA OpensBacked ==
    ASSUME SyncSound, GrantsBack
    PROVE  OpensOnlyApproved
<1> SUFFICES ASSUME NEW p \in Profiles, NEW url \in Urls, Opens(p, url),
                    Ruled[p].policy = "allow_list", ~MatchesAny(url, Ruled[p].allowed)
             PROVE  \E g \in granted : /\ g.profile = p /\ Covers(g.site, url)
                                       /\ g.until = NoApproval \/ now < g.until
  BY DEF OpensOnlyApproved
<1> DEFINE policy == versions[p][applied[p]]
<1>1. applied[p] \in 1 .. Revision(p) /\ now \in Nat /\ versions[p] \in Seq(Policy)
  BY DEF Opens, SyncSound, InOrder, Histories, Revision
<1>2. policy \in Policy /\ Backed(p, policy, granted)
  BY <1>1, ElementOfSeq DEF GrantsBack, Revision
<1>3. Allows(Ruled[p], policy, url, now)
  BY DEF Opens
<1> HIDE DEF policy
<1>4. CASE Approved(policy, url, now)
  <2>1. PICK s \in Sites : now < policy.temporary[s] /\ Matches(url, RuleOf(s))
    BY <1>4 DEF Approved
  <2>2. policy.temporary[s] # NoApproval
    BY <1>1, <1>2, <2>1 DEF Policy, NoApproval
  <2> QED
    BY <1>2, <2>1, <2>2, RuleCovers DEF Backed
<1>5. CASE ~Approved(policy, url, now)
  <2>1. MatchesAny(url, Ruled[p].allowed \cup {RuleOf(s) : s \in policy.allowed})
    BY <1>3, <1>5 DEF Allows, Evaluate
  <2>2. PICK s \in policy.allowed : Matches(url, RuleOf(s))
    BY <2>1 DEF MatchesAny
  <2>3. s \in Sites
    BY <1>2 DEF Policy
  <2> QED
    BY <1>2, <2>2, <2>3, RuleCovers DEF Backed
<1> QED
  BY <1>4, <1>5

\* Under an allow list the agent opens only what the parent approved for that
\* profile and for that moment, however stale the policy it runs is:
\* OpensOnlyApproved (browser_profile.go, policy_sync.go:47-94).
THEOREM OnlyApprovedSitesOpen == SyncSpec => []OpensOnlyApproved
<1>1. SyncInit => SyncSound /\ GrantsBack
  <2> SUFFICES ASSUME SyncInit PROVE SyncSound /\ GrantsBack
    OBVIOUS
  <2>1. \A p \in Profiles : versions[p] = <<NewProfile>>
    BY DEF SyncInit
  <2>2. \A p \in Profiles : Backed(p, NewProfile, granted)
    BY DEF Backed, NewProfile, EmptyPolicy, NoApproval
  <2> QED
    BY <2>1, <2>2, SyncInitSound DEF GrantsBack, Revision
<1>2. SyncSound /\ GrantsBack /\ [SyncNext]_syncVars => (SyncSound /\ GrantsBack)'
  BY SyncStepSound, BackedStep DEF StepSound
<1> QED
  BY <1>1, <1>2, OpensBacked, PTL DEF SyncSpec

-----------------------------------------------------------------------------
(* Types                                                                   *)

Rounds == linked \subseteq Profiles /\ sync \in Sync

\* The states of a round of synchronisation.
LEMMA SyncKinds ==
    /\ NoSync \in Sync
    /\ \A todo \in SUBSET Profiles : [step |-> "fetch", todo |-> todo] \in Sync
    /\ \A todo \in SUBSET Profiles, p \in Profiles, r \in Nat :
         [step |-> "apply", todo |-> todo, profile |-> p, revision |-> r] \in Sync
    /\ \A s \in Sync : s.step \in {"fetch", "apply"} => s.todo \subseteq Profiles
BY DEF Sync, NoSync

\* A round that goes on with the next profile, or ends.
LEMMA ContinueTypes ==
    ASSUME NEW todo \in SUBSET Profiles, Continue(todo)
    PROVE  sync' \in Sync
BY SyncKinds DEF Continue

\* Every step keeps the links and the round in their types.
LEMMA RoundsStep ==
    ASSUME SyncSound, Rounds, [SyncNext]_syncVars
    PROVE  Rounds'
<1>1. ASSUME NEW p \in Profiles, Parent(p)
      PROVE  Rounds'
  BY <1>1 DEF Parent, Approve, Revoke, LinkDevice, UnlinkDevice, agent, Rounds
<1>2. ASSUME NEW p \in Profiles, Fetch(p)
      PROVE  Rounds'
  <2>1. sync.todo \ {p} \subseteq Profiles /\ UNCHANGED linked
    BY <1>2, SyncKinds DEF Fetch, Rounds
  <2>2. ProfileConfiguration(p).revision \in Nat
    <3>1. Stored(p).policy \in Policy /\ Stored(p).revision \in Nat
      BY StoredType DEF SyncSound, Histories, Revision
    <3>2. IsNextRow(Stored(p), ProfileConfiguration(p))
      BY <3>1, ReadNext DEF ProfileConfiguration, SyncSound
    <3> QED
      BY <3>1, <3>2 DEF IsNextRow
  <2>3. \/ sync' = [step |-> "apply", todo |-> sync.todo \ {p}, profile |-> p,
                    revision |-> ProfileConfiguration(p).revision]
        \/ Continue(sync.todo \ {p})
    BY <1>2 DEF Fetch
  <2> QED
    BY <2>1, <2>2, <2>3, SyncKinds, ContinueTypes DEF Rounds
<1>3. ASSUME NEW p \in Profiles, FetchFails(p) \/ Apply(p) \/ ApplyFails(p)
      PROVE  Rounds'
  <2>1. /\ UNCHANGED linked /\ sync.todo \subseteq Profiles
        /\ Continue(sync.todo) \/ Continue(sync.todo \ {p})
    BY <1>3, SyncKinds DEF FetchFails, Apply, ApplyFails, service, Rounds
  <2> QED
    BY <2>1, ContinueTypes DEF Rounds
<1>4. CASE StartSync
  BY <1>4, ContinueTypes DEF StartSync, DeviceProfiles, service, Rounds
<1>5. CASE Restart \/ ClockTick \/ UNCHANGED syncVars
  BY <1>5, SyncKinds DEF Restart, ClockTick, syncVars, service, agent, Rounds
<1> QED
  BY <1>1, <1>2, <1>3, <1>4, <1>5 DEF SyncNext

\* The synchroniser's types, which the invariants above give together.
LEMMA SyncTypes == SyncSpec => []SyncTypeOK
<1>1. SyncInit => SyncSound /\ Rounds
  BY SyncInitSound, SyncKinds DEF SyncInit, Rounds
<1>2. SyncSound /\ Rounds /\ [SyncNext]_syncVars => (SyncSound /\ Rounds)'
  BY SyncStepSound, RoundsStep DEF StepSound
<1>3. SyncSound /\ Rounds => SyncTypeOK
  <2> SUFFICES ASSUME SyncSound, Rounds PROVE SyncTypeOK
    OBVIOUS
  <2>1. \A p \in Profiles : versions[p] \in Seq(Policy) /\ Revision(p) \in Nat
    BY DEF SyncSound, Histories, Revision
  <2>2. \A p \in Profiles : \A r \in 1 .. Revision(p) : versions[p][r] \in Policy
    BY <2>1, ElementOfSeq DEF Revision
  <2>3. \A p \in Profiles : applied[p] \in 0 .. Revision(p)
    BY <2>1 DEF SyncSound, InOrder
  <2> QED
    BY <2>2, <2>3 DEF SyncSound, Rounds, SyncTypeOK
<1> QED
  BY <1>1, <1>2, <1>3, PTL DEF SyncSpec
=============================================================================
