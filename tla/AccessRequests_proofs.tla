----------------------- MODULE AccessRequests_proofs ------------------------
(***************************************************************************)
(* Proofs about AccessRequests, for any devices, sites, identifiers,       *)
(* handlers, lifetimes and bounds.                                         *)
(***************************************************************************)
EXTENDS AccessRequests, FiniteSetTheorems, TLAPS

\* Cleaning a policy up keeps its type and never invents an approval.
LEMMA CleanupType ==
    ASSUME NEW policy \in Policy, NEW t \in Nat
    PROVE  CleanupExpired(policy, t) \in Policy
  BY DEF CleanupExpired, Policy, NoApproval

\* A transaction's outcome is a configuration when the mutated policy is one.
LEMMA MutatedType ==
    ASSUME NEW config0 \in Configuration, NEW cleaned \in Policy, NEW mutated \in Policy
    PROVE  Mutated(config0, cleaned, mutated) \in Configuration
  BY DEF Mutated, Configuration

\* A decision's duration is a number: a parent's choice or 0.
LEMMA DurationType == ASSUME NEW d \in Decisions PROVE d.duration \in Nat
<1>1. d.duration \in Durations \cup {0}
  BY DEF Decisions
<1>2. \A x \in Durations : x \in Nat
  BY DurationsAssumption
<1> QED  BY <1>1, <1>2

\* Expiring or deciding a row keeps it a row.
LEMMA SettledTypes ==
    ASSUME NEW r \in Request, NEW t \in Nat
    PROVE  /\ [r EXCEPT !.state = "expired", !.expiresAt = t + ResultLifetime] \in Request
           /\ \A o \in Recording :
                 [r EXCEPT !.state = o.to, !.decision = o.decision, !.decidedAt = o.at,
                           !.expiresAt = t + ResultLifetime] \in Request
<1>1. t + ResultLifetime \in Nat
  BY LifetimeAssumption
<1> QED  BY <1>1 DEF Request, Recording

\* Reading, approving and replacing keep the row a configuration.
LEMMA RowTypes ==
    ASSUME NEW config0 \in Configuration, NEW t \in Nat
    PROVE  /\ ReadConfigurationRow(config0, t) \in Configuration
           /\ \A s \in Sites, d \in Decisions, e \in Nat :
                 ApproveRow(config0, t, s, d, e) \in Configuration
           /\ \A policy \in Policy : PutRow(config0, policy) \in Configuration
<1>1. CleanupExpired(config0.policy, t) \in Policy
  BY CleanupType DEF Configuration
<1>2. ReadConfigurationRow(config0, t) \in Configuration
  BY <1>1, MutatedType DEF ReadConfigurationRow
<1>3. ASSUME NEW s \in Sites, NEW d \in Decisions, NEW e \in Nat
      PROVE  ApproveRow(config0, t, s, d, e) \in Configuration
  <2> DEFINE cleaned == CleanupExpired(config0.policy, t)
  <2>1. AddTemporary(cleaned, s, e) \in Policy
    BY <1>1 DEF AddTemporary, Policy
  <2>2. AddPermanent(cleaned, s) \in Policy
    BY <1>1 DEF AddPermanent, Policy
  <2> QED  BY <1>1, <2>1, <2>2, MutatedType DEF ApproveRow
<1>4. ASSUME NEW policy \in Policy
      PROVE  PutRow(config0, policy) \in Configuration
  BY DEF PutRow, Configuration
<1> QED  BY <1>2, <1>3, <1>4

\* What a handler holds is determined by the step it is at.
LEMMA HandlerHolds ==
    ASSUME TypeOK, NEW p \in Handlers
    PROVE  /\ op[p].step \in {"config", "recheck"} => op[p] \in Creating
           /\ op[p].step \in {"select", "insert"} => op[p] \in Selecting
           /\ op[p].step = "review" => op[p] \in Reviewing
           /\ op[p].step = "grant" => op[p] \in Granting
           /\ op[p].step = "record" => op[p] \in Recording
           /\ op[p].step = "list" => op[p] \in Listing
           /\ op[p].step = "mark" => op[p] \in Marking
           /\ op[p].step = "store" => op[p] \in Putting
<1>1. op[p] \in Op
  BY DEF TypeOK
<1> QED
  BY <1>1 DEF Op, Idle, Creating, Selecting, Reviewing, Granting, Recording, Listing,
              Marking, Putting

\* Wherever a handler goes next, it holds what that step needs.
LEMMA GotoType ==
    ASSUME TypeOK, NEW p \in Handlers, NEW o \in Op, Goto(p, o)
    PROVE  op' \in [Handlers -> Op]
  BY DEF TypeOK, Goto

\* Marking may interrupt whatever continues a call.
LEMMA MarkIsOp ==
    ASSUME NEW i \in Ids, NEW t \in Nat, NEW o \in {Idle} \cup Selecting \cup Listing
    PROVE  Mark(i, t, o) \in Op
  BY DEF Mark, Op, Marking

\* So may a decision taken in time.
LEMMA DecidedIsOp ==
    ASSUME NEW o \in Reviewing, NEW t \in Nat, Grounded(o), o.step = "review"
    PROVE  Decided(o, t) \in Op
<1>1. CASE o.to = "approved"
  <2>1. o.decision \in Decisions
    BY <1>1 DEF Grounded
  <2> QED  BY <1>1, <2>1 DEF Decided, Reviewing, Op, Granting
<1>2. CASE o.to # "approved"
  BY <1>2 DEF Decided, Reviewing, Op, Recording
<1> QED  BY <1>1, <1>2

-----------------------------------------------------------------------------
\* Rows are never deleted and keep the key and the creation time they were
\* inserted with; the clock and the set of applied decisions only grow.
RowsStay == \A i \in Ids :
               requests[i] # NoRequest =>
                  /\ requests'[i] # NoRequest
                  /\ requests'[i].key = requests[i].key
                  /\ requests'[i].createdAt = requests[i].createdAt

HistoryGrows == /\ RowsStay
                /\ now <= now'
                /\ \A i \in Ids : granted[i] \subseteq granted'[i]

\* No step removes a row or changes when it was created.
LEMMA RowsStayStep == TypeOK /\ [Next]_vars => RowsStay
<1> SUFFICES ASSUME TypeOK, [Next]_vars, NEW i \in Ids, requests[i] # NoRequest
             PROVE  /\ requests'[i] # NoRequest
                    /\ requests'[i].key = requests[i].key
                    /\ requests'[i].createdAt = requests[i].createdAt
  BY DEF RowsStay
<1>1. requests[i] \in Request /\ requests \in [Ids -> Request \cup {NoRequest}]
  BY DEF TypeOK
<1>2. CASE requests' = requests
  BY <1>2
<1>3. ASSUME NEW p \in Handlers, InsertRequest(p)
      PROVE  requests'[i] = requests[i]
  BY <1>1, <1>3 DEF InsertRequest, Unused
<1>4. ASSUME NEW p \in Handlers, MarkExpired(p)
      PROVE  /\ requests'[i] # NoRequest
             /\ requests'[i].key = requests[i].key
             /\ requests'[i].createdAt = requests[i].createdAt
  <2>1. op[p] \in Marking
    BY <1>4, HandlerHolds DEF MarkExpired
  <2>2. CASE op[p].id \in Pending
    BY <2>1, <2>2, <1>1, <1>4, LifetimeAssumption
       DEF MarkExpired, Marking, Request, NoRequest
  <2> QED  BY <2>2, <1>2, <1>4 DEF MarkExpired
<1>5. ASSUME NEW p \in Handlers, RecordDecision(p)
      PROVE  /\ requests'[i] # NoRequest
             /\ requests'[i].key = requests[i].key
             /\ requests'[i].createdAt = requests[i].createdAt
  <2>1. op[p] \in Recording
    BY <1>5, HandlerHolds DEF RecordDecision
  <2>2. CASE op[p].id \in Pending
    BY <2>1, <2>2, <1>1, <1>5, LifetimeAssumption
       DEF RecordDecision, Recording, Request, NoRequest
  <2> QED  BY <2>2, <1>2, <1>5 DEF RecordDecision
<1> QED
  BY <1>2, <1>3, <1>4, <1>5
     DEF Next, vars, Tick, LinkDevice, UnlinkDevice, Step, Call, Abort,
         StartCreate, ReadConfiguration, RecheckLink, SelectPending,
         StartApprove, Review, GrantDecision, StartReject, ReadDue, StartList,
         ListNext, StartPut, StorePut

\* No step takes back a decision that was applied, nor turns the clock back.
LEMMA HistoryGrowsStep == TypeOK /\ [Next]_vars => HistoryGrows
<1> SUFFICES ASSUME TypeOK, [Next]_vars
             PROVE  now <= now' /\ \A i \in Ids : granted[i] \subseteq granted'[i]
  BY RowsStayStep DEF HistoryGrows
<1>1. now \in Nat /\ granted \in [Ids -> SUBSET Decisions]
  BY DEF TypeOK
<1>2. CASE Tick
  BY <1>1, <1>2 DEF Tick
<1>3. ASSUME NEW p \in Handlers, GrantDecision(p)
      PROVE  now' = now /\ \A i \in Ids : granted[i] \subseteq granted'[i]
  BY <1>1, <1>3 DEF GrantDecision
<1>4. ASSUME NEW p \in Handlers, Step(p), ~ GrantDecision(p)
      PROVE  now' = now /\ granted' = granted
  BY <1>4 DEF Step, ReadConfiguration, RecheckLink, SelectPending, InsertRequest,
              MarkExpired, Review, RecordDecision, ListNext, StorePut
<1>5. ASSUME NEW p \in Handlers, Call(p) \/ Abort(p)
      PROVE  now' = now /\ granted' = granted
  BY <1>5 DEF Call, Abort, StartCreate, StartApprove, StartReject, ReadDue,
              StartList, StartPut
<1>6. ASSUME NEW d \in Devices, LinkDevice(d) \/ UnlinkDevice(d)
      PROVE  now' = now /\ granted' = granted
  BY <1>6 DEF LinkDevice, UnlinkDevice
<1>7. CASE UNCHANGED vars
  BY <1>7, <1>1 DEF vars
<1>8. now \in Nat => now <= now
  OBVIOUS
<1> QED  BY <1>1, <1>2, <1>3, <1>4, <1>5, <1>6, <1>7, <1>8 DEF Next

-----------------------------------------------------------------------------
\* The initial state is sound.
LEMMA InitSound == Init => StaleReadsAreSound
<1> SUFFICES ASSUME Init PROVE StaleReadsAreSound
  OBVIOUS
<1>1. EmptyPolicy \in Policy
  BY DEF EmptyPolicy, Policy, NoApproval
<1>2. config \in Configuration
  BY <1>1, PutAssumption DEF Init, Configuration, NoConfiguration
<1>3. /\ requests \in [Ids -> Request \cup {NoRequest}]
      /\ op \in [Handlers -> Op]
      /\ granted \in [Ids -> SUBSET Decisions]
  BY DEF Init, Op
<1>4. \A p \in Handlers : Grounded(op[p])
  BY DEF Init, Grounded, Idle
<1>5. RowsConsistent
  BY DEF Init, RowsConsistent
<1> QED  BY <1>2, <1>3, <1>4, <1>5 DEF Init, TypeOK, StaleReadsAreSound

\* A step keeps the types.  Typing alone is not inductive: the transaction of
\* an approval whose row does not exist could write a rule for no site.
LEMMA TypeStep == StaleReadsAreSound /\ [Next]_vars => TypeOK'
<1> SUFFICES ASSUME StaleReadsAreSound, TypeOK, [Next]_vars
             PROVE  TypeOK'
  BY DEF StaleReadsAreSound
<1>t. /\ now \in Nat /\ linked \subseteq Devices /\ config \in Configuration
      /\ requests \in [Ids -> Request \cup {NoRequest}]
      /\ op \in [Handlers -> Op] /\ granted \in [Ids -> SUBSET Decisions]
  BY DEF TypeOK
<1>i. Idle \in Op
  BY DEF Op
<1>d. \A i \in Pending : requests[i] \in Request
  BY <1>t DEF Pending, NoRequest
<1>1. CASE Tick
  BY <1>1, <1>t DEF Tick, TypeOK
<1>2. ASSUME NEW d \in Devices, LinkDevice(d) \/ UnlinkDevice(d)
      PROVE  TypeOK'
  BY <1>2, <1>t DEF LinkDevice, UnlinkDevice, TypeOK
<1>3. ASSUME NEW p \in Handlers, NEW key \in Keys, StartCreate(p, key)
      PROVE  TypeOK'
  <2>1. [step |-> "config", key |-> key] \in Op
    BY DEF Op, Creating
  <2> QED  BY <2>1, <1>3, <1>t, GotoType DEF StartCreate, TypeOK
<1>4. ASSUME NEW p \in Handlers, ReadConfiguration(p)
      PROVE  TypeOK'
  <2>1. op[p] \in Creating
    BY <1>4, HandlerHolds DEF ReadConfiguration
  <2>2. [step |-> "recheck", key |-> op[p].key] \in Op
    BY <2>1 DEF Op, Creating
  <2>3. config' \in Configuration
    BY <1>4, <1>t, RowTypes DEF ReadConfiguration
  <2> QED  BY <2>2, <2>3, <1>4, <1>t, <1>i, GotoType DEF ReadConfiguration, TypeOK
<1>5. ASSUME NEW p \in Handlers, RecheckLink(p)
      PROVE  TypeOK'
  <2>1. op[p] \in Creating
    BY <1>5, HandlerHolds DEF RecheckLink
  <2>2. [step |-> "select", key |-> op[p].key, at |-> now] \in Op
    BY <2>1, <1>t DEF Op, Creating, Selecting
  <2> QED  BY <2>2, <1>5, <1>t, <1>i, GotoType DEF RecheckLink, TypeOK
<1>6. ASSUME NEW p \in Handlers, SelectPending(p)
      PROVE  TypeOK'
  <2> DEFINE inserting(t) == [step |-> "insert", key |-> op[p].key, at |-> t]
  <2>1. op[p] \in Selecting
    BY <1>6, HandlerHolds DEF SelectPending
  <2>2. \A t \in op[p].at .. now : t \in Nat /\ inserting(t) \in Selecting
    BY <2>1, <1>t DEF Selecting
  <2>3. \A t \in op[p].at .. now, i \in Ids : Mark(i, t, inserting(t)) \in Op
    BY <2>2, MarkIsOp
  <2>4. Newest(PendingFor(op[p].key)) \subseteq Ids
    BY DEF Newest, PendingFor, Pending
  <2>5. \E o \in Op : Goto(p, o)
    BY <1>6, <1>i, <2>2, <2>3, <2>4 DEF SelectPending, Op
  <2> QED  BY <2>5, <1>6, <1>t, GotoType DEF SelectPending, TypeOK
<1>7. ASSUME NEW p \in Handlers, InsertRequest(p)
      PROVE  TypeOK'
  <2>1. op[p] \in Selecting
    BY <1>7, HandlerHolds DEF InsertRequest
  <2>2. [state |-> "pending", key |-> op[p].key, decision |-> NoDecision,
         createdAt |-> op[p].at, expiresAt |-> op[p].at + PendingLifetime,
         decidedAt |-> 0] \in Request
    BY <2>1, LifetimeAssumption DEF Selecting, Request
  <2>3. requests' \in [Ids -> Request \cup {NoRequest}]
    BY <2>2, <1>7, <1>t DEF InsertRequest, Unused
  <2> QED  BY <2>3, <1>7, <1>t, <1>i, GotoType DEF InsertRequest, TypeOK
<1>8. ASSUME NEW p \in Handlers, MarkExpired(p)
      PROVE  TypeOK'
  <2>1. op[p] \in Marking
    BY <1>8, HandlerHolds DEF MarkExpired
  <2>2. op[p].then \in Op /\ op[p].id \in Ids /\ op[p].at \in Nat
    BY <2>1 DEF Marking, Op
  <2>3. requests' \in [Ids -> Request \cup {NoRequest}]
    <3>1. CASE op[p].id \in Pending
      <4>1. requests[op[p].id] \in Request
        BY <3>1, <1>d
      <4>2. [requests[op[p].id] EXCEPT !.state = "expired",
                                       !.expiresAt = op[p].at + ResultLifetime] \in Request
        BY <4>1, <2>2, SettledTypes
      <4> QED  BY <3>1, <4>2, <1>8, <1>t DEF MarkExpired
    <3>2. CASE op[p].id \notin Pending
      BY <3>2, <1>8, <1>t DEF MarkExpired
    <3> QED  BY <3>1, <3>2
  <2>4. \E o \in Op : Goto(p, o)
    BY <2>2, <1>8, <1>i DEF MarkExpired
  <2> QED  BY <2>3, <2>4, <1>8, <1>t, GotoType DEF MarkExpired, TypeOK
<1>9. ASSUME NEW p \in Handlers, NEW i \in Ids, NEW d \in Decisions, StartApprove(p, i, d)
      PROVE  TypeOK'
  <2>1. requests[i].expiresAt \in Nat
    BY <1>9, <1>d DEF StartApprove, Request
  <2>2. [step |-> "review", id |-> i, to |-> "approved", decision |-> d,
         until |-> requests[i].expiresAt] \in Op
    BY <2>1 DEF Op, Reviewing
  <2> QED  BY <2>2, <1>9, <1>t, GotoType DEF StartApprove, TypeOK
<1>10. ASSUME NEW p \in Handlers, GrantDecision(p)
       PROVE  TypeOK'
  <2>1. op[p] \in Granting
    BY <1>10, HandlerHolds DEF GrantDecision
  <2>2. [step |-> "record", id |-> op[p].id, to |-> "approved",
         decision |-> op[p].decision, at |-> op[p].at] \in Op
    BY <2>1 DEF Granting, Op, Recording
  <2>3. granted' \in [Ids -> SUBSET Decisions]
    BY <2>1, <1>10, <1>t DEF GrantDecision, Granting
  <2>4. \E o \in Op : Goto(p, o)
    BY <2>2, <1>i, <1>10 DEF GrantDecision
  <2>5. config' \in Configuration
    <3>1. CASE CanApprove(config)
      <4>0. PICK t \in op[p].at .. now :
               config' = ApproveRow(config, now, requests[op[p].id].key.site,
                                    op[p].decision, t + op[p].decision.duration)
        BY <3>1, <1>10 DEF GrantDecision
      <4>1. requests[op[p].id] \in Request
        BY <2>1, <1>10, <1>t DEF GrantDecision, StaleReadsAreSound, Grounded, Granting
      <4>2. requests[op[p].id].key.site \in Sites
        BY <4>1 DEF Request, Keys
      <4>3. t + op[p].decision.duration \in Nat
        BY <2>1, <1>t, DurationType DEF Granting
      <4> QED  BY <4>0, <4>2, <4>3, <2>1, <1>t, RowTypes DEF Granting
    <3>2. CASE ~ CanApprove(config)
      BY <3>2, <1>10, <1>t DEF GrantDecision
    <3> QED  BY <3>1, <3>2
  <2> QED  BY <2>3, <2>4, <2>5, <1>10, <1>t, GotoType DEF GrantDecision, TypeOK
<1>11. ASSUME NEW p \in Handlers, NEW i \in Ids, StartReject(p, i)
       PROVE  TypeOK'
  <2>1. requests[i].expiresAt \in Nat
    BY <1>11, <1>d DEF StartReject, Request
  <2>2. [step |-> "review", id |-> i, to |-> "rejected", decision |-> NoDecision,
         until |-> requests[i].expiresAt] \in Op
    BY <2>1 DEF Op, Reviewing
  <2> QED  BY <2>2, <1>11, <1>t, GotoType DEF StartReject, TypeOK
<1>12. ASSUME NEW p \in Handlers, RecordDecision(p)
       PROVE  TypeOK'
  <2>1. op[p] \in Recording
    BY <1>12, HandlerHolds DEF RecordDecision
  <2>2. requests' \in [Ids -> Request \cup {NoRequest}]
    <3>1. CASE op[p].id \in Pending
      <4>1. requests[op[p].id] \in Request
        BY <3>1, <1>d
      <4>2. [requests[op[p].id] EXCEPT !.state = op[p].to,
                                       !.decision = op[p].decision,
                                       !.decidedAt = op[p].at,
                                       !.expiresAt = op[p].at + ResultLifetime] \in Request
        <5>1. op[p].at \in Nat
          BY <2>1 DEF Recording
        <5> QED  BY <4>1, <2>1, <5>1, SettledTypes
      <4> QED  BY <3>1, <4>2, <1>12, <1>t DEF RecordDecision
    <3>2. CASE op[p].id \notin Pending
      BY <3>2, <1>12, <1>t DEF RecordDecision
    <3> QED  BY <3>1, <3>2
  <2> QED  BY <2>2, <1>12, <1>t, <1>i, GotoType DEF RecordDecision, TypeOK
<1>13. ASSUME NEW p \in Handlers, NEW i \in Ids, ReadDue(p, i)
       PROVE  TypeOK'
  <2>1. Mark(i, now, Idle) \in Op
    BY <1>t, MarkIsOp
  <2> QED  BY <2>1, <1>13, <1>t, GotoType DEF ReadDue, TypeOK
<1>14. ASSUME NEW p \in Handlers, StartList(p)
       PROVE  TypeOK'
  <2>1. [step |-> "list", todo |-> Pending] \in Op
    BY DEF Op, Listing, Pending
  <2> QED  BY <2>1, <1>14, <1>t, GotoType DEF StartList, TypeOK
<1>15. ASSUME NEW p \in Handlers, ListNext(p)
       PROVE  TypeOK'
  <2>1. op[p] \in Listing
    BY <1>15, HandlerHolds DEF ListNext
  <2>2. Oldest(op[p].todo) \subseteq Ids
    BY <2>1 DEF Oldest, Listing
  <2>3. \A i \in Ids : Listed(op[p].todo \ {i}) \in {Idle} \cup Listing
    BY <2>1 DEF Listed, Listing
  <2>4. \A i \in Ids : /\ Listed(op[p].todo \ {i}) \in Op
                       /\ Mark(i, now, Listed(op[p].todo \ {i})) \in Op
    BY <2>3, <1>t, MarkIsOp DEF Op
  <2>5. \E o \in Op : Goto(p, o)
    BY <2>2, <2>4, <1>15 DEF ListNext
  <2> QED  BY <2>5, <1>15, <1>t, GotoType DEF ListNext, TypeOK
<1>16. ASSUME NEW p \in Handlers, NEW policy \in PutPolicies, StartPut(p, policy)
       PROVE  TypeOK'
  <2>1. [step |-> "store", policy |-> CleanupExpired(policy, now)] \in Op
    BY <1>t, CleanupType, PutAssumption DEF Op, Putting
  <2> QED  BY <2>1, <1>16, <1>t, GotoType DEF StartPut, TypeOK
<1>17. ASSUME NEW p \in Handlers, StorePut(p)
       PROVE  TypeOK'
  <2>1. op[p] \in Putting
    BY <1>17, HandlerHolds DEF StorePut
  <2>2. config' \in Configuration
    BY <2>1, <1>17, <1>t, RowTypes DEF StorePut, Putting
  <2> QED  BY <2>2, <1>17, <1>t, <1>i, GotoType DEF StorePut, TypeOK
<1>18. ASSUME NEW p \in Handlers, Abort(p)
       PROVE  TypeOK'
  BY <1>18, <1>t, <1>i, GotoType DEF Abort, TypeOK
<1>19. ASSUME NEW p \in Handlers, Review(p)
       PROVE  TypeOK'
  <2>1. op[p] \in Reviewing /\ Grounded(op[p]) /\ op[p].step = "review"
    BY <1>19, HandlerHolds DEF Review, StaleReadsAreSound
  <2>2. Mark(op[p].id, now, Idle) \in Op
    BY <2>1, <1>t, MarkIsOp DEF Reviewing
  <2>3. Decided(op[p], now) \in Op
    BY <2>1, <1>t, DecidedIsOp
  <2> QED  BY <2>2, <2>3, <1>19, <1>t, GotoType DEF Review, TypeOK
<1>20. CASE UNCHANGED vars
  BY <1>20, <1>t DEF vars, TypeOK
<1> QED
  BY <1>1, <1>2, <1>3, <1>4, <1>5, <1>6, <1>7, <1>8, <1>9, <1>10, <1>11,
     <1>12, <1>13, <1>14, <1>15, <1>16, <1>17, <1>18, <1>19, <1>20
     DEF Next, Step, Call
-----------------------------------------------------------------------------
\* What a handler relies on cannot be taken from it by a step of another one,
\* nor by time.
LEMMA GroundedStays ==
    ASSUME TypeOK, TypeOK', HistoryGrows, NEW o \in Op, Grounded(o)
    PROVE  Grounded(o)'
<1>1. now \in Nat /\ now' \in Nat /\ now <= now'
  BY DEF TypeOK, HistoryGrows
<1>2. CASE o.step \in {"select", "insert"}
  <2>1. o \in Selecting
    BY <1>2 DEF Op, Idle, Creating, Selecting, Reviewing, Granting, Recording, Listing,
                Marking, Putting
  <2>2. o.at \in Nat
    BY <2>1 DEF Selecting
  <2> QED  BY <1>1, <1>2, <2>2 DEF Grounded
<1>3. ASSUME o.step \in {"mark", "review", "grant", "record"}
      PROVE  /\ o.id \in Ids /\ requests[o.id] # NoRequest
             /\ requests'[o.id] # NoRequest
             /\ requests'[o.id].createdAt = requests[o.id].createdAt
             /\ Deadline(o.id)' = Deadline(o.id) /\ Deadline(o.id) \in Nat
  <2>1. o.id \in Ids
    BY <1>3 DEF Op, Idle, Creating, Selecting, Reviewing, Granting, Recording, Listing,
                Marking, Putting
  <2>2. requests[o.id] # NoRequest
    BY <1>3 DEF Grounded
  <2>3. requests[o.id].createdAt \in Nat
    BY <2>1, <2>2 DEF TypeOK, Request
  <2> QED  BY <2>1, <2>2, <2>3, LifetimeAssumption DEF HistoryGrows, RowsStay, Deadline
<1>4. CASE o.step = "mark"
  <2>1. o \in Marking
    BY <1>4 DEF Op, Idle, Creating, Selecting, Reviewing, Granting, Recording, Listing,
                Marking, Putting
  <2>2. o.then.step \in {"select", "insert"} => o.then.at \in Nat
    BY <2>1 DEF Marking, Idle, Selecting, Listing
  <2> QED  BY <1>1, <1>3, <1>4, <2>2 DEF Grounded
<1>5. CASE o.step \in {"grant", "record"}
  <2>1. o.id \in Ids /\ o.at \in Nat
    BY <1>5 DEF Op, Idle, Creating, Selecting, Reviewing, Granting, Recording, Listing,
                Marking, Putting
  <2>2. granted[o.id] \subseteq granted'[o.id]
    BY <2>1 DEF HistoryGrows
  <2> QED  BY <1>1, <1>3, <1>5, <2>1, <2>2 DEF Grounded
<1>6. CASE o.step = "review"
  BY <1>3, <1>6 DEF Grounded
<1> QED  BY <1>2, <1>4, <1>5, <1>6 DEF Grounded

\* So a handler's move keeps every handler grounded if it is so itself.
LEMMA GroundedGoto ==
    ASSUME StaleReadsAreSound, TypeOK', HistoryGrows,
           NEW p \in Handlers, NEW o \in Op, Goto(p, o), Grounded(o)'
    PROVE  \A q \in Handlers : Grounded(op[q])'
<1> SUFFICES ASSUME NEW q \in Handlers PROVE Grounded(op[q])'
  OBVIOUS
<1>1. op \in [Handlers -> Op] /\ TypeOK
  BY DEF StaleReadsAreSound, TypeOK
<1>2. CASE q = p
  <2>1. op'[q] = o
    BY <1>1, <1>2 DEF Goto
  <2> QED  BY <2>1 DEF Grounded
<1>3. CASE q # p
  <2>1. op'[q] = op[q] /\ op[q] \in Op
    BY <1>1, <1>3 DEF Goto
  <2>2. Grounded(op[q])
    BY DEF StaleReadsAreSound
  <2>3. Grounded(op[q]) /\ op[q] \in Op => \A o0 \in Op : o0 = op[q] => Grounded(o0)'
    BY <1>1, GroundedStays
  <2>4. PICK o0 \in Op : o0 = op[q]
    BY <2>1
  <2>5. Grounded(o0)' /\ op'[q] = o0
    BY <2>1, <2>2, <2>3, <2>4
  <2> QED  BY <2>5 DEF Grounded
<1> QED  BY <1>2, <1>3

\* A handler's next position, when it is sound at the moment it is taken.
LEMMA GroundedMove ==
    ASSUME StaleReadsAreSound, TypeOK', HistoryGrows,
           NEW p \in Handlers, \E o \in Op : Goto(p, o) /\ Grounded(o)
    PROVE  \A q \in Handlers : Grounded(op[q])'
<1>1. PICK o \in Op : Goto(p, o) /\ Grounded(o)
  OBVIOUS
<1>2. Grounded(o)'
  BY <1>1, GroundedStays DEF StaleReadsAreSound
<1> QED  BY <1>1, <1>2, GroundedGoto

\* A row found due is over for good, whatever the call continues with.
LEMMA DueIsOver ==
    ASSUME StaleReadsAreSound, NEW i \in Pending, Due(i)
    PROVE  Deadline(i) <= now /\ requests[i] # NoRequest
  BY DEF StaleReadsAreSound, RowsConsistent, Due, Pending, NoRequest

\* Every step leaves every handler with reads it may still act on.
LEMMA GroundedStep ==
    StaleReadsAreSound /\ [Next]_vars => \A q \in Handlers : Grounded(op[q])'
<1> SUFFICES ASSUME StaleReadsAreSound, [Next]_vars
             PROVE  \A q \in Handlers : Grounded(op[q])'
  OBVIOUS
<1>t. /\ now \in Nat /\ op \in [Handlers -> Op]
      /\ requests \in [Ids -> Request \cup {NoRequest}] /\ TypeOK
  BY DEF StaleReadsAreSound, TypeOK
<1>h. TypeOK' /\ HistoryGrows
  BY <1>t, TypeStep, HistoryGrowsStep
<1>i. Idle \in Op /\ Grounded(Idle)
  BY DEF Op, Grounded, Idle
<1>g. \A p \in Handlers : Grounded(op[p])
  BY DEF StaleReadsAreSound
<1>n. now <= now
  BY <1>t
<1>0. ASSUME op' = op
      PROVE  \A q \in Handlers : Grounded(op[q])'
  <2> SUFFICES ASSUME NEW q \in Handlers PROVE Grounded(op[q])'
    OBVIOUS
  <2>1. PICK o \in Op : o = op[q]
    BY <1>t
  <2>2. Grounded(o)'
    BY <2>1, <1>t, <1>h, <1>g, GroundedStays
  <2>3. op'[q] = o
    BY <1>0, <2>1
  <2> QED  BY <2>2, <2>3 DEF Grounded
<1>1. CASE Tick \/ UNCHANGED vars
  BY <1>0, <1>1 DEF Tick, vars
<1>2. ASSUME NEW d \in Devices, LinkDevice(d) \/ UnlinkDevice(d)
      PROVE  \A q \in Handlers : Grounded(op[q])'
  BY <1>0, <1>2 DEF LinkDevice, UnlinkDevice
<1>3. ASSUME NEW p \in Handlers, NEW key \in Keys, StartCreate(p, key)
      PROVE  \A q \in Handlers : Grounded(op[q])'
  <2> DEFINE o == [step |-> "config", key |-> key]
  <2>1. o \in Op /\ Grounded(o)
    BY DEF Op, Creating, Grounded
  <2> QED  BY <2>1, <1>3, <1>h, GroundedMove DEF StartCreate
<1>4. ASSUME NEW p \in Handlers, ReadConfiguration(p)
      PROVE  \A q \in Handlers : Grounded(op[q])'
  <2> DEFINE o == [step |-> "recheck", key |-> op[p].key]
  <2>1. op[p] \in Creating
    BY <1>4, <1>t, HandlerHolds DEF ReadConfiguration
  <2>2. o \in Op /\ Grounded(o)
    BY <2>1 DEF Op, Creating, Grounded
  <2>3. Goto(p, o) \/ Goto(p, Idle)
    BY <1>4 DEF ReadConfiguration
  <2> QED  BY <2>2, <2>3, <1>h, <1>i, GroundedMove
<1>5. ASSUME NEW p \in Handlers, RecheckLink(p)
      PROVE  \A q \in Handlers : Grounded(op[q])'
  <2> DEFINE o == [step |-> "select", key |-> op[p].key, at |-> now]
  <2>1. op[p] \in Creating
    BY <1>5, <1>t, HandlerHolds DEF RecheckLink
  <2>2. o \in Op /\ Grounded(o)
    BY <2>1, <1>t, <1>n DEF Op, Creating, Selecting, Grounded
  <2>3. Goto(p, o) \/ Goto(p, Idle)
    BY <1>5 DEF RecheckLink
  <2> QED  BY <2>2, <2>3, <1>h, <1>i, GroundedMove
<1>6. ASSUME NEW p \in Handlers, SelectPending(p)
      PROVE  \A q \in Handlers : Grounded(op[q])'
  <2>1. op[p] \in Selecting
    BY <1>6, <1>t, HandlerHolds DEF SelectPending
  <2>2. PICK t \in op[p].at .. now :
           LET inserting == [step |-> "insert", key |-> op[p].key, at |-> t]
           IN  \/ Goto(p, inserting)
               \/ \E i \in Newest(PendingFor(op[p].key)) :
                     Goto(p, IF t < requests[i].expiresAt THEN Idle
                                                          ELSE Mark(i, t, inserting))
    BY <1>6 DEF SelectPending
  <2> DEFINE inserting == [step |-> "insert", key |-> op[p].key, at |-> t]
  <2>3. t \in Nat /\ t <= now
    BY <2>1, <1>t DEF Selecting
  <2>4. inserting \in Op /\ inserting \in Selecting /\ Grounded(inserting)
    BY <2>1, <2>3 DEF Op, Selecting, Grounded
  <2>5. ASSUME NEW i \in PendingFor(op[p].key), ~ (t < requests[i].expiresAt)
        PROVE  Mark(i, t, inserting) \in Op /\ Grounded(Mark(i, t, inserting))
    <3>1. i \in Ids /\ i \in Pending
      BY DEF PendingFor, Pending
    <3>2. requests[i] # NoRequest /\ requests[i].expiresAt \in Nat
      BY <1>t, <3>1 DEF Pending, NoRequest, Request
    <3>3. Due(i)
      BY <2>3, <2>5, <3>2, <1>t DEF Due
    <3>4. Deadline(i) <= now
      BY <3>1, <3>3, DueIsOver
    <3>5. Mark(i, t, inserting) \in Op
      BY <3>1, <2>3, <2>4, MarkIsOp
    <3> QED  BY <3>2, <3>4, <3>5, <2>3 DEF Mark, Grounded
  <2>6. Newest(PendingFor(op[p].key)) \subseteq PendingFor(op[p].key)
    BY DEF Newest
  <2>7. \E o \in Op : Goto(p, o) /\ Grounded(o)
    BY <1>i, <2>2, <2>4, <2>5, <2>6
  <2> QED  BY <2>7, <1>h, GroundedMove
<1>7. ASSUME NEW p \in Handlers, InsertRequest(p) \/ RecordDecision(p) \/ StorePut(p) \/ Abort(p)
      PROVE  \A q \in Handlers : Grounded(op[q])'
  BY <1>7, <1>h, <1>i, GroundedMove DEF InsertRequest, RecordDecision, StorePut, Abort
<1>8. ASSUME NEW p \in Handlers, MarkExpired(p)
      PROVE  \A q \in Handlers : Grounded(op[q])'
  <2>1. op[p] \in Marking /\ Grounded(op[p]) /\ op[p].step = "mark"
    BY <1>8, <1>t, <1>g, HandlerHolds DEF MarkExpired
  <2>2. op[p].then \in Op
    BY <2>1 DEF Marking, Op
  <2>3. op[p].then.step \in {"idle", "select", "insert", "list"}
    BY <2>1 DEF Marking, Idle, Selecting, Listing
  <2>4. Grounded(op[p].then)
    BY <2>1, <2>3 DEF Grounded
  <2> QED  BY <2>2, <2>4, <1>8, <1>h, <1>i, GroundedMove DEF MarkExpired
<1>9. ASSUME NEW i \in Pending, Due(i)
      PROVE  Mark(i, now, Idle) \in Op /\ Grounded(Mark(i, now, Idle))
  <2>1. i \in Ids
    BY DEF Pending
  <2>2. Mark(i, now, Idle) \in Op
    BY <2>1, <1>t, MarkIsOp
  <2>3. Deadline(i) <= now /\ requests[i] # NoRequest
    BY <1>9, DueIsOver
  <2> QED  BY <2>2, <2>3 DEF Mark, Grounded, Idle
<1>10. ASSUME NEW p \in Handlers, NEW i \in Ids, NEW d \in Decisions, StartApprove(p, i, d)
       PROVE  \A q \in Handlers : Grounded(op[q])'
  <2> DEFINE o == [step |-> "review", id |-> i, to |-> "approved", decision |-> d,
                   until |-> requests[i].expiresAt]
  <2>1. i \in Pending /\ Goto(p, o)
    BY <1>10 DEF StartApprove
  <2>2. requests[i] # NoRequest /\ requests[i].expiresAt \in Nat
    BY <2>1, <1>t DEF Pending, NoRequest, Request
  <2>3. requests[i].expiresAt = Deadline(i)
    BY <2>1, <2>2 DEF StaleReadsAreSound, RowsConsistent
  <2>4. o \in Op /\ Grounded(o)
    BY <2>2, <2>3 DEF Op, Reviewing, Grounded
  <2> QED  BY <2>1, <2>4, <1>h, GroundedMove
<1>11. ASSUME NEW p \in Handlers, GrantDecision(p)
       PROVE  \A q \in Handlers : Grounded(op[q])'
  <2>1. op[p] \in Granting /\ Grounded(op[p]) /\ op[p].step = "grant"
    BY <1>11, <1>t, <1>g, HandlerHolds DEF GrantDecision
  <2>2. CASE CanApprove(config)
    <3>1. PICK o \in Op :
             /\ o = [step |-> "record", id |-> op[p].id, to |-> "approved",
                     decision |-> op[p].decision, at |-> op[p].at]
             /\ Goto(p, o)
      <4>1. [step |-> "record", id |-> op[p].id, to |-> "approved",
             decision |-> op[p].decision, at |-> op[p].at] \in Op
        BY <2>1 DEF Op, Granting, Recording
      <4> QED  BY <4>1, <2>2, <1>11 DEF GrantDecision
    <3>2. o.id \in Ids /\ o.decision \in granted'[o.id]
      BY <2>1, <2>2, <3>1, <1>11, <1>t DEF GrantDecision, Granting, TypeOK
    <3>3. now' = now /\ requests' = requests
      BY <1>11 DEF GrantDecision
    <3>4. /\ requests[o.id] # NoRequest
          /\ requests[o.id].createdAt <= o.at /\ o.at <= now /\ o.at < Deadline(o.id)
      BY <2>1, <3>1 DEF Grounded
    <3>5. o.step = "record" /\ o.to = "approved"
      BY <3>1
    <3>6. Deadline(o.id)' = Deadline(o.id)
      BY <3>3 DEF Deadline
    <3>7. Grounded(o)'
      BY <3>2, <3>3, <3>4, <3>5, <3>6 DEF Grounded
    <3> QED  BY <3>1, <3>7, <1>h, GroundedGoto
  <2>3. CASE ~ CanApprove(config)
    BY <2>3, <1>11, <1>h, <1>i, GroundedMove DEF GrantDecision
  <2> QED  BY <2>2, <2>3
<1>12. ASSUME NEW p \in Handlers, NEW i \in Ids, StartReject(p, i)
       PROVE  \A q \in Handlers : Grounded(op[q])'
  <2> DEFINE o == [step |-> "review", id |-> i, to |-> "rejected", decision |-> NoDecision,
                   until |-> requests[i].expiresAt]
  <2>1. i \in Pending /\ Goto(p, o)
    BY <1>12 DEF StartReject
  <2>2. requests[i] # NoRequest /\ requests[i].expiresAt \in Nat
    BY <2>1, <1>t DEF Pending, NoRequest, Request
  <2>3. requests[i].expiresAt = Deadline(i)
    BY <2>1, <2>2 DEF StaleReadsAreSound, RowsConsistent
  <2>4. o \in Op /\ Grounded(o)
    BY <2>2, <2>3 DEF Op, Reviewing, Grounded
  <2> QED  BY <2>1, <2>4, <1>h, GroundedMove
<1>18. ASSUME NEW p \in Handlers, Review(p)
       PROVE  \A q \in Handlers : Grounded(op[q])'
  <2>1. op[p] \in Reviewing /\ Grounded(op[p]) /\ op[p].step = "review"
    BY <1>18, <1>t, <1>g, HandlerHolds DEF Review
  <2>2. /\ op[p].id \in Ids /\ requests[op[p].id] # NoRequest
        /\ op[p].until = Deadline(op[p].id) /\ op[p].until \in Nat
        /\ requests[op[p].id].createdAt <= now
    BY <2>1 DEF Reviewing, Grounded, StaleReadsAreSound, RowsConsistent
  <2>3. CASE now >= op[p].until
    <3>1. Mark(op[p].id, now, Idle) \in Op
      BY <2>2, <1>t, MarkIsOp
    <3>2. Grounded(Mark(op[p].id, now, Idle))
      BY <2>2, <2>3, <1>t DEF Mark, Grounded, Idle
    <3> QED  BY <2>3, <3>1, <3>2, <1>18, <1>h, GroundedMove DEF Review
  <2>4. CASE ~ (now >= op[p].until)
    <3>1. Decided(op[p], now) \in Op
      BY <2>1, <1>t, DecidedIsOp
    <3>2. now < Deadline(op[p].id)
      BY <2>2, <2>4, <1>t
    <3>3. Grounded(Decided(op[p], now))
      <4>1. CASE op[p].to = "approved"
        BY <3>2, <4>1, <2>2, <1>n DEF Decided, Grounded
      <4>2. CASE op[p].to # "approved"
        <5>1. op[p].decision = NoDecision
          BY <2>1, <4>2 DEF Grounded
        <5> QED  BY <3>2, <4>2, <5>1, <2>2, <1>n DEF Decided, Grounded
      <4> QED  BY <4>1, <4>2
    <3> QED  BY <2>4, <3>1, <3>3, <1>18, <1>h, GroundedMove DEF Review
  <2> QED  BY <2>3, <2>4
<1>13. ASSUME NEW p \in Handlers, NEW i \in Ids, ReadDue(p, i)
       PROVE  \A q \in Handlers : Grounded(op[q])'
  BY <1>13, <1>9, <1>h, GroundedMove DEF ReadDue
<1>14. ASSUME NEW todo \in SUBSET Ids
       PROVE  /\ Listed(todo) \in Op /\ Grounded(Listed(todo))
              /\ Listed(todo) \in {Idle} \cup Listing
              /\ Listed(todo).step \in {"idle", "list"}
  BY <1>i DEF Listed, Op, Listing, Grounded, Idle
<1>15. ASSUME NEW p \in Handlers, StartList(p)
       PROVE  \A q \in Handlers : Grounded(op[q])'
  <2>1. Goto(p, Listed(Pending))
    BY <1>15 DEF StartList, Listed
  <2>2. Pending \in SUBSET Ids
    BY DEF Pending
  <2> QED  BY <2>1, <2>2, <1>14, <1>h, GroundedMove
<1>16. ASSUME NEW p \in Handlers, ListNext(p)
       PROVE  \A q \in Handlers : Grounded(op[q])'
  <2>1. op[p] \in Listing
    BY <1>16, <1>t, HandlerHolds DEF ListNext
  <2>2. PICK i \in Oldest(op[p].todo) :
           Goto(p, IF i \in Pending /\ Due(i) THEN Mark(i, now, Listed(op[p].todo \ {i}))
                                              ELSE Listed(op[p].todo \ {i}))
    BY <1>16 DEF ListNext
  <2> DEFINE rest == Listed(op[p].todo \ {i})
  <2>3. op[p].todo \ {i} \in SUBSET Ids
    BY <2>1 DEF Listing
  <2>4. /\ rest \in Op /\ Grounded(rest) /\ rest \in {Idle} \cup Listing
        /\ rest.step \in {"idle", "list"}
    BY <2>3, <1>14
  <2>5. ASSUME i \in Pending, Due(i)
        PROVE  Mark(i, now, rest) \in Op /\ Grounded(Mark(i, now, rest))
    <3>1. i \in Ids
      BY <2>5 DEF Pending
    <3>2. Mark(i, now, rest) \in Op
      BY <3>1, <2>4, <1>t, MarkIsOp
    <3>3. Deadline(i) <= now /\ requests[i] # NoRequest
      BY <2>5, DueIsOver
    <3> QED  BY <3>2, <3>3, <2>4 DEF Mark, Grounded
  <2> QED  BY <2>2, <2>4, <2>5, <1>h, GroundedMove
<1>17. ASSUME NEW p \in Handlers, NEW policy \in PutPolicies, StartPut(p, policy)
       PROVE  \A q \in Handlers : Grounded(op[q])'
  <2> DEFINE o == [step |-> "store", policy |-> CleanupExpired(policy, now)]
  <2>1. o \in Op
    BY <1>t, CleanupType, PutAssumption DEF Op, Putting
  <2>2. Grounded(o)
    BY DEF Grounded
  <2> QED  BY <2>1, <2>2, <1>17, <1>h, GroundedMove DEF StartPut
<1> QED
  BY <1>1, <1>2, <1>3, <1>4, <1>5, <1>6, <1>7, <1>8, <1>10, <1>11, <1>12,
     <1>13, <1>15, <1>16, <1>17, <1>18 DEF Next, Step, Call

\* What marking and deciding do to the one row they change.
LEMMA MarkEffect ==
    ASSUME TypeOK, NEW p \in Handlers, MarkExpired(p), NEW i \in Pending, i = op[p].id
    PROVE  /\ i \in Ids /\ requests[i] \in Request /\ requests'[i] # NoRequest
           /\ requests' = [requests EXCEPT ![i] = requests'[i]]
           /\ requests'[i].state = "expired"
           /\ requests'[i].createdAt = requests[i].createdAt
           /\ requests'[i].decision = requests[i].decision
           /\ requests'[i].decidedAt = requests[i].decidedAt
<1>1. i \in Ids /\ requests[i] \in Request /\ requests \in [Ids -> Request \cup {NoRequest}]
  BY DEF TypeOK, Pending, NoRequest
<1>2. requests' = [requests EXCEPT ![i] =
          [@ EXCEPT !.state = "expired", !.expiresAt = op[p].at + ResultLifetime]]
  BY <1>1 DEF MarkExpired
<1>3. requests'[i] = [requests[i] EXCEPT !.state = "expired",
                                         !.expiresAt = op[p].at + ResultLifetime]
  BY <1>1, <1>2
<1>4. requests' = [requests EXCEPT ![i] = requests'[i]]
  BY <1>1, <1>2
<1> QED  BY <1>1, <1>3, <1>4 DEF Request, NoRequest

\* Recording a decision settles the row of its request, when that is pending.
LEMMA RecordEffect ==
    ASSUME TypeOK, NEW p \in Handlers, RecordDecision(p), NEW i \in Pending, i = op[p].id
    PROVE  /\ i \in Ids /\ requests[i] \in Request /\ requests'[i] # NoRequest
           /\ op[p] \in Recording
           /\ requests' = [requests EXCEPT ![i] = requests'[i]]
           /\ requests'[i].state = op[p].to
           /\ requests'[i].createdAt = requests[i].createdAt
           /\ requests'[i].decision = op[p].decision
           /\ requests'[i].decidedAt = op[p].at
<1>1. i \in Ids /\ requests[i] \in Request /\ requests \in [Ids -> Request \cup {NoRequest}]
  BY DEF TypeOK, Pending, NoRequest
<1>2. op[p] \in Recording
  BY HandlerHolds DEF RecordDecision
<1>3. requests' = [requests EXCEPT ![i] =
          [@ EXCEPT !.state = op[p].to, !.decision = op[p].decision,
                    !.decidedAt = op[p].at, !.expiresAt = op[p].at + ResultLifetime]]
  BY <1>1 DEF RecordDecision
<1>4. requests'[i] = [requests[i] EXCEPT !.state = op[p].to, !.decision = op[p].decision,
                                         !.decidedAt = op[p].at,
                                         !.expiresAt = op[p].at + ResultLifetime]
  BY <1>1, <1>3
<1>5. requests' = [requests EXCEPT ![i] = requests'[i]]
  BY <1>1, <1>3
<1> QED  BY <1>1, <1>2, <1>4, <1>5 DEF Request, NoRequest, Recording

\* Every step keeps each row consistent with its deadline.
LEMMA RowsConsistentStep == StaleReadsAreSound /\ [Next]_vars => RowsConsistent'
<1> SUFFICES ASSUME StaleReadsAreSound, [Next]_vars, NEW i \in Ids,
                    requests'[i] # NoRequest
             PROVE  /\ requests'[i].createdAt <= now'
                    /\ i \in Pending' => /\ requests'[i].expiresAt = Deadline(i)'
                                         /\ requests'[i].decision = NoDecision
                                         /\ requests'[i].decidedAt = 0
  BY DEF RowsConsistent
<1> DEFINE Fine == /\ requests'[i].createdAt <= now'
                   /\ i \in Pending' => /\ requests'[i].expiresAt = Deadline(i)'
                                        /\ requests'[i].decision = NoDecision
                                        /\ requests'[i].decidedAt = 0
<1>t. /\ now \in Nat /\ now' \in Nat /\ now <= now' /\ TypeOK
      /\ requests \in [Ids -> Request \cup {NoRequest}]
  BY TypeStep, HistoryGrowsStep DEF StaleReadsAreSound, TypeOK, HistoryGrows
<1>c. requests[i] # NoRequest =>
         /\ requests[i] \in Request
         /\ requests[i].createdAt \in Nat
         /\ requests[i].createdAt <= now
         /\ i \in Pending => /\ requests[i].expiresAt = Deadline(i)
                             /\ requests[i].decision = NoDecision
                             /\ requests[i].decidedAt = 0
  BY <1>t DEF StaleReadsAreSound, RowsConsistent, Request
<1>0. ASSUME requests'[i] = requests[i]
      PROVE  Fine
  <2>1. i \in Pending' <=> i \in Pending
    BY <1>0 DEF Pending
  <2>2. Deadline(i)' = Deadline(i)
    BY <1>0 DEF Deadline
  <2> QED  BY <1>0, <2>1, <2>2, <1>t, <1>c
<1>1. ASSUME NEW p \in Handlers, InsertRequest(p)
      PROVE  Fine
  <2>1. op[p] \in Selecting /\ op[p].at <= now
    BY <1>1, <1>t, HandlerHolds DEF InsertRequest, StaleReadsAreSound, Grounded
  <2>2. CASE requests'[i] # requests[i]
    <3>1. requests'[i] = [state |-> "pending", key |-> op[p].key,
                          decision |-> NoDecision, createdAt |-> op[p].at,
                          expiresAt |-> op[p].at + PendingLifetime, decidedAt |-> 0]
      BY <1>1, <2>2, <1>t DEF InsertRequest
    <3>2. op[p].at \in Nat /\ now' = now
      BY <2>1, <1>1 DEF Selecting, InsertRequest
    <3>3. Deadline(i)' = op[p].at + PendingLifetime
      BY <3>1 DEF Deadline
    <3> QED  BY <3>1, <3>2, <3>3, <2>1
  <2> QED  BY <2>2, <1>0
<1>2. ASSUME NEW p \in Handlers, MarkExpired(p)
      PROVE  Fine
  <2>1. CASE requests'[i] # requests[i]
    <3>1. i = op[p].id /\ i \in Pending
      BY <2>1, <1>2, <1>t DEF MarkExpired
    <3>2. requests'[i].state = "expired" /\ requests'[i].createdAt = requests[i].createdAt
      BY <1>2, <1>t, <3>1, MarkEffect
    <3>3. i \notin Pending' /\ requests[i] # NoRequest
      BY <3>1, <3>2 DEF Pending, NoRequest
    <3> QED  BY <3>2, <3>3, <1>c, <1>t
  <2> QED  BY <2>1, <1>0
<1>3. ASSUME NEW p \in Handlers, RecordDecision(p)
      PROVE  Fine
  <2>1. CASE requests'[i] # requests[i]
    <3>1. i = op[p].id /\ i \in Pending
      BY <2>1, <1>3, <1>t DEF RecordDecision
    <3>2. /\ requests'[i].state \in {"approved", "rejected"}
          /\ requests'[i].createdAt = requests[i].createdAt
      BY <1>3, <1>t, <3>1, RecordEffect DEF Recording
    <3>3. i \notin Pending' /\ requests[i] # NoRequest
      BY <3>1, <3>2 DEF Pending, NoRequest
    <3> QED  BY <3>2, <3>3, <1>c, <1>t
  <2> QED  BY <2>1, <1>0
<1>4. CASE UNCHANGED requests
  BY <1>4, <1>0
<1>5. ASSUME NEW p \in Handlers, Step(p)
      PROVE  \/ UNCHANGED requests
             \/ InsertRequest(p) \/ MarkExpired(p) \/ RecordDecision(p)
  BY <1>5 DEF Step, ReadConfiguration, RecheckLink, SelectPending, Review, GrantDecision,
              ListNext, StorePut
<1>6. ASSUME NEW p \in Handlers, Call(p) \/ Abort(p)
      PROVE  UNCHANGED requests
  BY <1>6 DEF Call, Abort, StartCreate, StartApprove, StartReject, ReadDue,
              StartList, StartPut
<1> QED
  BY <1>1, <1>2, <1>3, <1>4, <1>5, <1>6 DEF Next, vars, Tick, LinkDevice, UnlinkDevice

\* The invariant is inductive.
LEMMA SoundStep == StaleReadsAreSound /\ [Next]_vars => StaleReadsAreSound'
  BY TypeStep, RowsConsistentStep, GroundedStep DEF StaleReadsAreSound

\* However handlers, aborted calls and the clock interleave, what a handler
\* read is still sound when it acts on it.
THEOREM Soundness == Spec => []StaleReadsAreSound
<1>1. StaleReadsAreSound /\ UNCHANGED vars => StaleReadsAreSound'
  BY SoundStep
<1> QED  BY InitSound, SoundStep, PTL DEF Spec

\* Every variable keeps its type.
THEOREM TypeCorrect == Spec => []TypeOK
<1>1. StaleReadsAreSound => TypeOK
  BY DEF StaleReadsAreSound
<1> QED  BY <1>1, Soundness, PTL
-----------------------------------------------------------------------------
\* Refinement: a step of a handler is a step of the abstract request, or none.

\* A step that leaves rows, clock and applied decisions alone is a stutter.
LEMMA Stutters ==
    ASSUME now' = now, requests' = requests, granted' = granted
    PROVE  UNCHANGED AD!vars
<1>1. AbstractRequests' = AbstractRequests
  BY DEF AbstractRequests, Abstracted, NoRequest
<1> QED  BY <1>1 DEF AD!vars

\* The initial states are initial states of the abstract decision.
LEMMA RefinesInit == Init => AD!Init
<1> SUFFICES ASSUME Init PROVE AD!Init
  OBVIOUS
<1>1. AbstractRequests = [i \in Ids |-> AD!Unasked]
  BY DEF Init, AbstractRequests, Abstracted, AD!Unasked
<1> QED  BY <1>1 DEF Init, AD!Init

\* The abstract view of rows that differ in one place.
LEMMA AbstractedOnce ==
    ASSUME TypeOK, NEW i \in Ids, requests' = [requests EXCEPT ![i] = requests'[i]]
    PROVE  AbstractRequests' =
              [AbstractRequests EXCEPT ![i] = Abstracted(requests'[i])]
<1>1. requests \in [Ids -> Request \cup {NoRequest}]
  BY DEF TypeOK
<1>2. \A j \in Ids : j # i => requests'[j] = requests[j]
  BY <1>1
<1>3. AbstractRequests' = [j \in Ids |-> Abstracted(requests'[j])]
  BY DEF AbstractRequests, Abstracted, NoRequest
<1> QED  BY <1>2, <1>3 DEF AbstractRequests

\* The abstract view of a row.
LEMMA AbstractedRow ==
    ASSUME NEW r \in Request
    PROVE  /\ r # NoRequest
           /\ Abstracted(r) = [state |-> r.state, asked |-> r.createdAt,
                               decision |-> r.decision, decided |-> r.decidedAt]
  BY DEF Abstracted, Request, NoRequest

\* Settling the abstract view of row i.
LEMMA SettleStep ==
    ASSUME TypeOK, NEW i \in Ids, requests[i] \in Request, requests'[i] \in Request,
           requests' = [requests EXCEPT ![i] = requests'[i]],
           requests[i].state = "pending",
           requests'[i].createdAt = requests[i].createdAt,
           UNCHANGED <<now, granted>>
    PROVE  AD!Settle(i, requests'[i].state, requests'[i].decision, requests'[i].decidedAt)
<1>1. AbstractRequests' = [AbstractRequests EXCEPT ![i] = Abstracted(requests'[i])]
  BY AbstractedOnce
<1>2. AbstractRequests[i] = [state |-> "pending", asked |-> requests[i].createdAt,
                             decision |-> requests[i].decision,
                             decided |-> requests[i].decidedAt]
  BY AbstractedRow DEF AbstractRequests
<1>3. Abstracted(requests'[i]) =
         [state |-> requests'[i].state, asked |-> AbstractRequests[i].asked,
          decision |-> requests'[i].decision, decided |-> requests'[i].decidedAt]
  BY <1>2, AbstractedRow
<1>4. AbstractRequests' =
         [AbstractRequests EXCEPT ![i] =
             [state |-> requests'[i].state, asked |-> @.asked,
              decision |-> requests'[i].decision, decided |-> requests'[i].decidedAt]]
  BY <1>1, <1>3 DEF AbstractRequests
<1> QED  BY <1>2, <1>4 DEF AD!Settle

\* Times at which a row could be decided, seen from the abstract side.
LEMMA InTimeOf ==
    ASSUME TypeOK, NEW i \in Ids, requests[i] \in Request, NEW t \in Nat,
           requests[i].createdAt <= t, t <= now, t < Deadline(i)
    PROVE  t \in AD!InTime(i)
<1>1. AbstractRequests[i].asked = requests[i].createdAt
  BY AbstractedRow DEF AbstractRequests
<1>2. now \in Nat /\ requests[i].createdAt \in Nat
  BY DEF TypeOK, Request
<1> QED  BY <1>1, <1>2, LifetimeAssumption DEF AD!InTime, AD!Deadline, Deadline

\* Every step is one of the abstract decision, or a stutter of it.
LEMMA RefinesStep == StaleReadsAreSound /\ [Next]_vars => [AD!Next]_(AD!vars)
<1> SUFFICES ASSUME StaleReadsAreSound, TypeOK, TypeOK', [Next]_vars
             PROVE  AD!Next \/ UNCHANGED AD!vars
  BY TypeStep DEF StaleReadsAreSound
<1>t. /\ now \in Nat /\ now' \in Nat
      /\ requests \in [Ids -> Request \cup {NoRequest}]
      /\ requests' \in [Ids -> Request \cup {NoRequest}]
  BY DEF TypeOK
<1>g. \A p \in Handlers : Grounded(op[p])
  BY DEF StaleReadsAreSound
<1>1. CASE Tick
  <2>1. AbstractRequests' = AbstractRequests
    BY <1>1 DEF Tick, AbstractRequests, Abstracted, NoRequest
  <2> QED  BY <2>1, <1>1, <1>t DEF Tick, AD!Tick, AD!Next
<1>2. ASSUME NEW p \in Handlers, InsertRequest(p)
      PROVE  AD!Next
  <2>1. op[p] \in Selecting /\ op[p].at <= now
    BY <1>2, <1>g, HandlerHolds DEF InsertRequest, Grounded
  <2>2. PICK i \in Unused :
           requests' = [requests EXCEPT ![i] =
              [state |-> "pending", key |-> op[p].key, decision |-> NoDecision,
               createdAt |-> op[p].at, expiresAt |-> op[p].at + PendingLifetime,
               decidedAt |-> 0]]
    BY <1>2 DEF InsertRequest
  <2>3. i \in Ids /\ requests[i] = NoRequest
    BY DEF Unused
  <2>4. requests'[i] = [state |-> "pending", key |-> op[p].key, decision |-> NoDecision,
                        createdAt |-> op[p].at, expiresAt |-> op[p].at + PendingLifetime,
                        decidedAt |-> 0]
    BY <2>2, <2>3, <1>t
  <2>5. requests' = [requests EXCEPT ![i] = requests'[i]]
    BY <2>2, <2>4
  <2>6. requests'[i] \in Request
    BY <2>3, <2>4, <1>t DEF NoRequest
  <2>7. AbstractRequests' = [AbstractRequests EXCEPT ![i] = Abstracted(requests'[i])]
    BY <2>3, <2>5, AbstractedOnce
  <2>8. Abstracted(requests'[i]) = [state |-> "pending", asked |-> op[p].at,
                                    decision |-> NoDecision, decided |-> 0]
    BY <2>4, <2>6, AbstractedRow
  <2>9. op[p].at \in 0 .. now
    BY <2>1, <1>t DEF Selecting
  <2>10. AbstractRequests[i].state = "unasked"
    BY <2>3 DEF AbstractRequests, Abstracted
  <2>11. AD!Ask(i)
    BY <2>7, <2>8, <2>9, <2>10, <1>2 DEF AD!Ask, InsertRequest
  <2> QED  BY <2>3, <2>11 DEF AD!Next
<1>3. ASSUME NEW p \in Handlers, MarkExpired(p)
      PROVE  AD!Next \/ UNCHANGED AD!vars
  <2>1. CASE op[p].id \notin Pending
    BY <2>1, <1>3, Stutters DEF MarkExpired
  <2>2. CASE op[p].id \in Pending
    <3>1. PICK i \in Pending : i = op[p].id
      BY <2>2
    <3>2. /\ i \in Ids /\ requests[i] \in Request /\ requests'[i] \in Request
          /\ requests' = [requests EXCEPT ![i] = requests'[i]]
          /\ requests'[i].state = "expired"
          /\ requests'[i].createdAt = requests[i].createdAt
          /\ requests'[i].decision = requests[i].decision
          /\ requests'[i].decidedAt = requests[i].decidedAt
      BY <3>1, <1>3, <1>t, MarkEffect
    <3>3. requests[i].state = "pending" /\ requests[i] # NoRequest
      BY DEF Pending, NoRequest
    <3>4. requests[i].decision = NoDecision /\ requests[i].decidedAt = 0
      BY <3>2, <3>3 DEF StaleReadsAreSound, RowsConsistent
    <3>5. AD!Settle(i, "expired", NoDecision, 0)
      BY <3>2, <3>3, <3>4, <1>3, SettleStep DEF MarkExpired
    <3>6. Deadline(i) <= now
      BY <3>1, <1>3, <1>g DEF MarkExpired, Grounded
    <3>7. AD!Deadline(i) = Deadline(i) /\ Deadline(i) \in Nat
      BY <3>2, AbstractedRow, LifetimeAssumption
         DEF AbstractRequests, AD!Deadline, Deadline, Request
    <3>8. AD!Expire(i)
      BY <3>5, <3>6, <3>7, <1>t DEF AD!Expire
    <3> QED  BY <3>2, <3>8 DEF AD!Next
  <2> QED  BY <2>1, <2>2
<1>4. ASSUME NEW p \in Handlers, GrantDecision(p)
      PROVE  AD!Next \/ UNCHANGED AD!vars
  <2>1. CASE ~ CanApprove(config)
    BY <2>1, <1>4, Stutters DEF GrantDecision
  <2>2. CASE CanApprove(config)
    <3>1. op[p] \in Granting
      BY <1>4, HandlerHolds DEF GrantDecision
    <3>2. op[p].id \in Ids /\ op[p].decision \in Decisions /\ requests[op[p].id] \in Request
      BY <3>1, <1>4, <1>g, <1>t DEF Granting, GrantDecision, Grounded
    <3>3. AbstractRequests[op[p].id].state # "unasked"
      BY <3>2, AbstractedRow DEF AbstractRequests, Request
    <3>4. AbstractRequests' = AbstractRequests
      BY <1>4 DEF GrantDecision, AbstractRequests, Abstracted, NoRequest
    <3>5. AD!Grant(op[p].id, op[p].decision)
      BY <3>3, <3>4, <2>2, <1>4 DEF AD!Grant, GrantDecision
    <3> QED  BY <3>2, <3>5 DEF AD!Next
  <2> QED  BY <2>1, <2>2
<1>5. ASSUME NEW p \in Handlers, RecordDecision(p)
      PROVE  AD!Next \/ UNCHANGED AD!vars
  <2>1. CASE op[p].id \notin Pending
    BY <2>1, <1>5, Stutters DEF RecordDecision
  <2>2. CASE op[p].id \in Pending
    <3>1. PICK i \in Pending : i = op[p].id
      BY <2>2
    <3>2. /\ i \in Ids /\ requests[i] \in Request /\ requests'[i] \in Request
          /\ op[p] \in Recording
          /\ requests' = [requests EXCEPT ![i] = requests'[i]]
          /\ requests'[i].state = op[p].to
          /\ requests'[i].createdAt = requests[i].createdAt
          /\ requests'[i].decision = op[p].decision
          /\ requests'[i].decidedAt = op[p].at
      BY <3>1, <1>5, <1>t, RecordEffect
    <3>3. requests[i].state = "pending"
      BY DEF Pending
    <3>4. AD!Settle(i, op[p].to, op[p].decision, op[p].at)
      BY <3>2, <3>3, <1>5, SettleStep DEF RecordDecision
    <3>5. /\ requests[i].createdAt <= op[p].at /\ op[p].at <= now /\ op[p].at < Deadline(i)
          /\ op[p].decision \in IF op[p].to = "approved" THEN granted[i] ELSE {NoDecision}
      BY <3>1, <1>5, <1>g DEF RecordDecision, Grounded
    <3>6. op[p].at \in AD!InTime(i)
      BY <3>2, <3>5, InTimeOf DEF Recording
    <3>7. CASE op[p].to = "approved"
      <4>1. AD!Approve(i, op[p].decision)
        BY <3>4, <3>5, <3>6, <3>7 DEF AD!Approve
      <4>2. op[p].decision \in Decisions
        BY <3>2, <3>5, <3>7 DEF TypeOK
      <4> QED  BY <3>2, <4>1, <4>2 DEF AD!Next
    <3>8. CASE op[p].to = "rejected"
      <4>1. AD!Reject(i)
        BY <3>4, <3>5, <3>6, <3>8 DEF AD!Reject
      <4> QED  BY <3>2, <4>1 DEF AD!Next
    <3> QED  BY <3>2, <3>7, <3>8 DEF Recording
  <2> QED  BY <2>1, <2>2
<1>6. ASSUME NEW p \in Handlers, Step(p)
      PROVE  \/ InsertRequest(p) \/ MarkExpired(p) \/ GrantDecision(p) \/ RecordDecision(p)
             \/ UNCHANGED <<now, requests, granted>>
  BY <1>6 DEF Step, ReadConfiguration, RecheckLink, SelectPending, Review, ListNext, StorePut
<1>7. ASSUME NEW p \in Handlers, Call(p) \/ Abort(p)
      PROVE  UNCHANGED <<now, requests, granted>>
  BY <1>7 DEF Call, Abort, StartCreate, StartApprove, StartReject, ReadDue,
              StartList, StartPut
<1> QED
  BY <1>1, <1>2, <1>3, <1>4, <1>5, <1>6, <1>7, Stutters
     DEF Next, vars, LinkDevice, UnlinkDevice

\* The handlers implement the abstract access decision: requests are settled
\* at most once, approved only with an applied decision, inside their lifetime.
THEOREM Refinement == Spec => SettlesOnce
<1>1. StaleReadsAreSound /\ [Next]_vars => [AD!Next]_(AD!vars)
  BY RefinesStep
<1>2. Init => AD!Init
  BY RefinesInit
<1> QED  BY <1>1, <1>2, Soundness, PTL DEF Spec, SettlesOnce, AD!Spec
-----------------------------------------------------------------------------
\* Approvals in force: what the transactions of readers and approvers keep.
LEMMA CleanupKeeps ==
    ASSUME NEW policy \in Policy, NEW t \in Nat
    PROVE  InForce(CleanupExpired(policy, t), t) = InForce(policy, t)
<1>1. \A s \in Sites : policy.temporary[s] \in Nat
  BY DEF Policy
<1>2. CleanupExpired(policy, t).allowed = policy.allowed
  BY DEF CleanupExpired, Policy
<1>3. CleanupExpired(policy, t).temporary =
         [s \in Sites |-> IF t < policy.temporary[s] THEN policy.temporary[s] ELSE NoApproval]
  BY DEF CleanupExpired, Policy
<1>4. \A s \in Sites : t < CleanupExpired(policy, t).temporary[s] <=> t < policy.temporary[s]
  <2> SUFFICES ASSUME NEW s \in Sites
               PROVE  t < CleanupExpired(policy, t).temporary[s] <=> t < policy.temporary[s]
    OBVIOUS
  <2>1. CleanupExpired(policy, t).temporary[s] =
           IF t < policy.temporary[s] THEN policy.temporary[s] ELSE NoApproval
    BY <1>3
  <2>2. ~ (t < NoApproval)
    BY DEF NoApproval
  <2> QED  BY <2>1, <2>2
<1> QED  BY <1>2, <1>4 DEF InForce

\* A read that cleans the row up takes nothing out of force.
LEMMA ReadKeeps ==
    ASSUME NEW config0 \in Configuration, NEW t \in Nat
    PROVE  InForce(ReadConfigurationRow(config0, t).policy, t) = InForce(config0.policy, t)
<1>1. config0.policy \in Policy
  BY DEF Configuration
<1> QED  BY <1>1, CleanupKeeps DEF ReadConfigurationRow, Mutated

\* An approval takes nothing out of force but the old expiry of its own site.
LEMMA ApproveKeeps ==
    ASSUME NEW config0 \in Configuration, NEW t \in Nat, NEW s \in Sites,
           NEW d \in Decisions, NEW e \in Nat
    PROVE  InForce(config0.policy, t) \ {s} \subseteq
              InForce(ApproveRow(config0, t, s, d, e).policy, t)
<1> DEFINE cleaned == CleanupExpired(config0.policy, t)
<1>1. config0.policy \in Policy /\ cleaned \in Policy
  BY CleanupType DEF Configuration
<1>2. InForce(cleaned, t) = InForce(config0.policy, t)
  BY <1>1, CleanupKeeps
<1> HIDE DEF cleaned
<1>3. InForce(cleaned, t) \ {s} \subseteq InForce(AddTemporary(cleaned, s, e), t)
  BY <1>1 DEF InForce, AddTemporary, Policy
<1>4. InForce(cleaned, t) \subseteq InForce(AddPermanent(cleaned, s), t)
  BY <1>1 DEF InForce, AddPermanent, Policy
<1>5. \A c \in {AddTemporary(cleaned, s, e), AddPermanent(cleaned, s)} :
         Mutated(config0, cleaned, c).policy \in {config0.policy, c}
  BY DEF Mutated
<1>6. ApproveRow(config0, t, s, d, e).policy \in
         {config0.policy, AddTemporary(cleaned, s, e), AddPermanent(cleaned, s)}
  BY <1>5 DEF ApproveRow, cleaned
<1> QED  BY <1>2, <1>3, <1>4, <1>6

\* No handler's transaction takes another one's approval out of force.
THEOREM Survival == Spec => ApprovalsSurvive
<1>1. StaleReadsAreSound /\ [Next]_vars => [LosesNoApproval]_vars
  <2> SUFFICES ASSUME StaleReadsAreSound, TypeOK, [Next]_vars,
                      NEW s \in InForce(config.policy, now) \ InForce(config'.policy, now')
               PROVE  Excused(s)
    BY DEF StaleReadsAreSound, LosesNoApproval
  <2>t. /\ now \in Nat /\ config \in Configuration /\ op \in [Handlers -> Op]
        /\ requests \in [Ids -> Request \cup {NoRequest}]
    BY DEF TypeOK
  <2>1. CASE Tick
    BY <2>1, <2>t DEF Tick, Excused
  <2>2. ~ (config' = config /\ now' = now)
    OBVIOUS
  <2>3. ASSUME NEW p \in Handlers, ReadConfiguration(p)
        PROVE  FALSE
    <3>1. config' = config \/ config' = ReadConfigurationRow(config, now)
      BY <2>3 DEF ReadConfiguration
    <3> QED  BY <3>1, <2>3, <2>t, ReadKeeps DEF ReadConfiguration
  <2>4. ASSUME NEW p \in Handlers, GrantDecision(p)
        PROVE  Excused(s)
    <3>1. op[p] \in Granting /\ Grounded(op[p]) /\ op[p].step = "grant"
      BY <2>4, HandlerHolds DEF GrantDecision, StaleReadsAreSound
    <3>2. requests[op[p].id] \in Request
      BY <3>1, <2>t DEF Grounded, Granting
    <3>3. requests[op[p].id].key.site \in Sites
      BY <3>2 DEF Request, Keys
    <3>4. PICK t \in op[p].at .. now :
             config' = ApproveRow(config, now, requests[op[p].id].key.site,
                                  op[p].decision, t + op[p].decision.duration)
      BY <2>2, <2>4 DEF GrantDecision
    <3>5. t + op[p].decision.duration \in Nat /\ op[p].decision \in Decisions
      BY <3>1, <2>t, DurationType DEF Granting
    <3>6. s = requests[op[p].id].key.site
      BY <3>3, <3>4, <3>5, <2>4, <2>t, ApproveKeeps DEF GrantDecision
    <3> QED  BY <3>1, <3>6 DEF Excused
  <2>5. ASSUME NEW p \in Handlers, StorePut(p)
        PROVE  Excused(s)
    <3>1. op'[p] = Idle
      BY <2>5, <2>t DEF StorePut, Goto
    <3> QED  BY <3>1, <2>5 DEF StorePut, Excused
  <2>6. ASSUME NEW p \in Handlers, Step(p), ~ ReadConfiguration(p), ~ GrantDecision(p),
               ~ StorePut(p)
        PROVE  FALSE
    BY <2>2, <2>6 DEF Step, RecheckLink, SelectPending, InsertRequest, MarkExpired,
                      Review, RecordDecision, ListNext
  <2>7. ASSUME NEW p \in Handlers, Call(p) \/ Abort(p)
        PROVE  FALSE
    BY <2>2, <2>7 DEF Call, Abort, StartCreate, StartApprove, StartReject, ReadDue,
                      StartList, StartPut
  <2> QED
    BY <2>1, <2>2, <2>3, <2>4, <2>5, <2>6, <2>7 DEF Next, vars, LinkDevice, UnlinkDevice
<1> QED  BY <1>1, Soundness, PTL DEF Spec, ApprovalsSurvive
-----------------------------------------------------------------------------
\* How many live requests for one key there can be.  The bound is not
\* inductive: what it needs is room for the handlers whose insert is still to
\* come.  A handler gets that far only when it finds no live request, and then
\* every live request that appears costs another handler its insert.

Live(key) == {i \in PendingFor(key) : ~ Due(i)}

\* A handler in state o has decided to insert a request for the key.
Inserts(o, key) == \/ o.step = "insert" /\ o.key = key
                   \/ o.step = "mark" /\ o.then.step = "insert" /\ o.then.key = key

Inserting(key) == {p \in Handlers : Inserts(op[p], key)}

Room(key) ==
    /\ IsFiniteSet(Live(key))
    /\ Cardinality(Live(key)) + Cardinality(Inserting(key)) <= Cardinality(Handlers)

RoomForInserts == \A key \in Keys : Room(key)

\* Counting: the sum stays within bounds when nothing is added, when no live
\* request is left, and when a handler that leaves adds one request.
LEMMA RoomCounts ==
    ASSUME NEW H, IsFiniteSet(H), NEW L, NEW M, NEW F, NEW G,
           F \subseteq H, G \subseteq H, IsFiniteSet(L),
           Cardinality(L) + Cardinality(F) <= Cardinality(H),
           \/ M \subseteq L /\ G \subseteq F
           \/ M = {}
           \/ \E p \in F : \E i : M \subseteq L \cup {i} /\ G \subseteq F \ {p}
    PROVE  IsFiniteSet(M) /\ Cardinality(M) + Cardinality(G) <= Cardinality(H)
<1>1. /\ IsFiniteSet(F) /\ IsFiniteSet(G)
      /\ Cardinality(F) \in Nat /\ Cardinality(G) \in Nat
      /\ Cardinality(H) \in Nat /\ Cardinality(L) \in Nat
      /\ Cardinality(G) <= Cardinality(H)
  BY FS_Subset, FS_CardinalityType
<1>2. CASE M \subseteq L /\ G \subseteq F
  <2>1. /\ IsFiniteSet(M) /\ Cardinality(M) <= Cardinality(L)
        /\ Cardinality(G) <= Cardinality(F) /\ Cardinality(M) \in Nat
    BY <1>1, <1>2, FS_Subset, FS_CardinalityType
  <2> QED  BY <1>1, <2>1
<1>3. CASE M = {}
  <2>1. IsFiniteSet(M) /\ Cardinality(M) = 0
    BY <1>3, FS_EmptySet
  <2> QED  BY <1>1, <2>1
<1>4. ASSUME NEW p \in F, NEW i, M \subseteq L \cup {i}, G \subseteq F \ {p}
      PROVE  IsFiniteSet(M) /\ Cardinality(M) + Cardinality(G) <= Cardinality(H)
  <2>0. /\ IsFiniteSet(L \cup {i})
        /\ Cardinality(L \cup {i}) = IF i \in L THEN Cardinality(L) ELSE Cardinality(L) + 1
    BY FS_AddElement, Zenon
  <2>1. IsFiniteSet(L \cup {i}) /\ Cardinality(L \cup {i}) <= Cardinality(L) + 1
    BY <1>1, <2>0
  <2>2. /\ IsFiniteSet(M) /\ Cardinality(M) <= Cardinality(L \cup {i})
        /\ Cardinality(M) \in Nat /\ Cardinality(L \cup {i}) \in Nat
    BY <1>4, <2>1, FS_Subset, FS_CardinalityType
  <2>3. IsFiniteSet(F \ {p}) /\ Cardinality(F \ {p}) = Cardinality(F) - 1
    BY <1>1, FS_RemoveElement
  <2>4. Cardinality(G) <= Cardinality(F \ {p})
    BY <1>4, <2>3, FS_Subset
  <2> QED  BY <1>1, <2>1, <2>2, <2>3, <2>4
<1> QED  BY <1>2, <1>3, <1>4

\* A handler that does not newly decide to insert leaves the others' room.
LEMMA InsertingMove ==
    ASSUME TypeOK, NEW p \in Handlers, NEW o, Goto(p, o), NEW key,
           Inserts(o, key) => Inserts(op[p], key)
    PROVE  Inserting(key)' \subseteq Inserting(key)
<1>1. \A q \in Handlers : op'[q] = IF q = p THEN o ELSE op[q]
  BY DEF TypeOK, Goto
<1> QED  BY <1>1 DEF Inserting, Inserts

\* Live requests grow only by an insert.
LEMMA LiveStays ==
    ASSUME TypeOK, NEW key,
           \/ requests' = requests /\ now <= now' /\ now' \in Nat
           \/ /\ now' = now
              /\ \E i \in Ids : /\ requests' = [requests EXCEPT ![i] = requests'[i]]
                                /\ requests'[i].state # "pending"
    PROVE  Live(key)' \subseteq Live(key)
<1>1. now \in Nat /\ requests \in [Ids -> Request \cup {NoRequest}]
  BY DEF TypeOK
<1>2. CASE requests' = requests /\ now <= now' /\ now' \in Nat
  <2> SUFFICES ASSUME NEW i \in Live(key)' PROVE i \in Live(key)
    OBVIOUS
  <2>1. i \in PendingFor(key) /\ ~ (now' >= requests[i].expiresAt)
    BY <1>2 DEF Live, PendingFor, Pending, Due
  <2>2. requests[i] \in Request
    BY <2>1, <1>1 DEF PendingFor, Pending, NoRequest
  <2>3. requests[i].expiresAt \in Nat
    BY <2>2 DEF Request
  <2> QED  BY <1>1, <1>2, <2>1, <2>3 DEF Live, Due
<1>3. ASSUME NEW i \in Ids, now' = now,
             requests' = [requests EXCEPT ![i] = requests'[i]],
             requests'[i].state # "pending"
      PROVE  Live(key)' \subseteq Live(key)
  <2>1. \A j \in Ids : j # i => requests'[j] = requests[j]
    BY <1>1, <1>3
  <2> QED  BY <1>3, <2>1 DEF Live, PendingFor, Pending, Due
<1> QED  BY <1>2, <1>3

\* A handler decides to insert only when no request for its key is live.
LEMMA NothingLive ==
    ASSUME StaleReadsAreSound, NEW key, NEW t \in Nat, t <= now,
           NEW i \in Newest(PendingFor(key)), ~ (t < requests[i].expiresAt)
    PROVE  Live(key) = {}
<1>1. now \in Nat /\ requests \in [Ids -> Request \cup {NoRequest}]
  BY DEF StaleReadsAreSound, TypeOK
<1>2. \A j \in PendingFor(key) : /\ requests[j] \in Request
                                 /\ requests[j].expiresAt = Deadline(j)
  BY <1>1 DEF StaleReadsAreSound, RowsConsistent, PendingFor, Pending, NoRequest
<1>3. \A j \in PendingFor(key) :
         requests[j].expiresAt = requests[j].createdAt + PendingLifetime
         /\ requests[j].createdAt \in Nat
  BY <1>2 DEF Deadline, Request
<1>4. i \in PendingFor(key)
      /\ \A j \in PendingFor(key) : requests[j].createdAt <= requests[i].createdAt
  BY DEF Newest
<1>5. \A j \in PendingFor(key) : requests[j].expiresAt <= now
  BY <1>1, <1>3, <1>4, LifetimeAssumption
<1> QED  BY <1>1, <1>3, <1>5, LifetimeAssumption DEF Live, Due

\* Every step leaves room for the inserts that are still to come.
LEMMA RoomStep ==
    ASSUME IsFiniteSet(Handlers)
    PROVE  StaleReadsAreSound /\ RoomForInserts /\ [Next]_vars => RoomForInserts'
<1> SUFFICES ASSUME StaleReadsAreSound, TypeOK, TypeOK', RoomForInserts, [Next]_vars,
                    NEW key \in Keys
             PROVE  Room(key)'
  BY TypeStep DEF StaleReadsAreSound, RoomForInserts
<1> DEFINE Less == Live(key)' \subseteq Live(key) /\ Inserting(key)' \subseteq Inserting(key)
           Spent == \E p \in Inserting(key) : \E i :
                       /\ Live(key)' \subseteq Live(key) \cup {i}
                       /\ Inserting(key)' \subseteq Inserting(key) \ {p}
<1>t. /\ now \in Nat /\ now' \in Nat /\ op \in [Handlers -> Op]
      /\ requests \in [Ids -> Request \cup {NoRequest}]
  BY DEF TypeOK
<1>s. now <= now
  BY <1>t
<1>i. ~ Inserts(Idle, key)
  BY DEF Inserts, Idle
<1>1. ASSUME Tick PROVE Less
  <2>1. Live(key)' \subseteq Live(key)
    BY <1>1, <1>t, LiveStays DEF Tick
  <2>2. Inserting(key)' = Inserting(key)
    BY <1>1 DEF Tick, Inserting
  <2> QED  BY <2>1, <2>2
<1>2. ASSUME UNCHANGED <<now, requests, op>> PROVE Less
  BY <1>2 DEF Live, PendingFor, Pending, Due, Inserting
<1>3. ASSUME NEW p \in Handlers, NEW o, Goto(p, o), ~ Inserts(o, key),
             UNCHANGED <<now, requests>>
      PROVE  Less
  BY <1>3, <1>s, <1>t, LiveStays, InsertingMove
<1>4. ASSUME NEW p \in Handlers, Call(p) \/ Abort(p)
      PROVE  Less
  <2>1. \E o : Goto(p, o) /\ ~ Inserts(o, key) /\ UNCHANGED <<now, requests>>
    <3>1. CASE \E k \in Keys : StartCreate(p, k)
      BY <3>1 DEF StartCreate, Inserts
    <3>2. CASE StartList(p)
      BY <3>2 DEF StartList, Inserts
    <3>3. CASE \E policy \in PutPolicies : StartPut(p, policy)
      BY <3>3 DEF StartPut, Inserts
    <3>4. CASE Abort(p)
      BY <3>4, <1>i DEF Abort
    <3>5. ASSUME NEW i \in Ids, StartReject(p, i)
          PROVE  \E o : Goto(p, o) /\ ~ Inserts(o, key) /\ UNCHANGED <<now, requests>>
      BY <3>5 DEF StartReject, Inserts
    <3>6. ASSUME NEW i \in Ids, ReadDue(p, i)
          PROVE  \E o : Goto(p, o) /\ ~ Inserts(o, key) /\ UNCHANGED <<now, requests>>
      BY <3>6 DEF ReadDue, Inserts, Mark, Idle
    <3>7. ASSUME NEW i \in Ids, NEW d \in Decisions, StartApprove(p, i, d)
          PROVE  \E o : Goto(p, o) /\ ~ Inserts(o, key) /\ UNCHANGED <<now, requests>>
      BY <3>7 DEF StartApprove, Inserts
    <3> QED  BY <1>4, <3>1, <3>2, <3>3, <3>4, <3>5, <3>6, <3>7 DEF Call
  <2> QED  BY <2>1, <1>3
<1>5. ASSUME NEW p \in Handlers, ReadConfiguration(p) \/ RecheckLink(p) \/ StorePut(p)
      PROVE  Less
  <2>1. \E o : Goto(p, o) /\ ~ Inserts(o, key) /\ UNCHANGED <<now, requests>>
    BY <1>5, <1>i DEF ReadConfiguration, RecheckLink, StorePut, Inserts
  <2> QED  BY <2>1, <1>3
<1>6. ASSUME NEW p \in Handlers, GrantDecision(p) \/ Review(p)
      PROVE  Less
  <2>1. \E o : Goto(p, o) /\ ~ Inserts(o, key) /\ UNCHANGED <<now, requests>>
    BY <1>6, <1>i DEF GrantDecision, Review, Decided, Mark, Inserts, Idle
  <2> QED  BY <2>1, <1>3
<1>7. ASSUME NEW p \in Handlers, ListNext(p)
      PROVE  Less
  <2>1. \E o : Goto(p, o) /\ ~ Inserts(o, key) /\ UNCHANGED <<now, requests>>
    BY <1>7 DEF ListNext, Listed, Mark, Inserts, Idle
  <2> QED  BY <2>1, <1>3
<1>8. ASSUME NEW p \in Handlers, MarkExpired(p)
      PROVE  Less
  <2>1. op[p] \in Marking /\ op[p].step = "mark"
    BY <1>8, HandlerHolds DEF MarkExpired
  <2>2. Inserts(op[p].then, key) => Inserts(op[p], key)
    BY <2>1 DEF Marking, Inserts, Idle, Selecting, Listing
  <2>3. Inserting(key)' \subseteq Inserting(key)
    BY <1>8, <1>i, <2>2, InsertingMove DEF MarkExpired
  <2>4. Live(key)' \subseteq Live(key)
    <3>1. CASE op[p].id \in Pending
      BY <3>1, <1>8, <1>t, MarkEffect, LiveStays DEF MarkExpired
    <3>2. CASE op[p].id \notin Pending
      BY <3>2, <1>8, <1>s, <1>t, LiveStays DEF MarkExpired
    <3> QED  BY <3>1, <3>2
  <2> QED  BY <2>3, <2>4
<1>9. ASSUME NEW p \in Handlers, RecordDecision(p)
      PROVE  Less
  <2>1. Inserting(key)' \subseteq Inserting(key)
    BY <1>9, <1>i, InsertingMove DEF RecordDecision
  <2>2. Live(key)' \subseteq Live(key)
    <3>1. CASE op[p].id \in Pending
      BY <3>1, <1>9, <1>t, RecordEffect, LiveStays DEF RecordDecision, Recording
    <3>2. CASE op[p].id \notin Pending
      BY <3>2, <1>9, <1>s, <1>t, LiveStays DEF RecordDecision
    <3> QED  BY <3>1, <3>2
  <2> QED  BY <2>1, <2>2
<1>10. ASSUME NEW p \in Handlers, SelectPending(p)
       PROVE  Less \/ Live(key)' = {}
  <2>1. op[p] \in Selecting
    BY <1>10, HandlerHolds DEF SelectPending
  <2>2. UNCHANGED <<now, requests>>
    BY <1>10 DEF SelectPending
  <2>3. Live(key)' = Live(key)
    BY <2>2 DEF Live, PendingFor, Pending, Due
  <2>4. CASE op[p].key # key
    <3> DEFINE inserting(t) == [step |-> "insert", key |-> op[p].key, at |-> t]
    <3>1. \A t : /\ ~ Inserts(inserting(t), key)
                 /\ \A i : ~ Inserts(Mark(i, t, inserting(t)), key)
      BY <2>4 DEF Inserts, Mark
    <3>2. \E t \in op[p].at .. now :
             \/ Goto(p, inserting(t))
             \/ Goto(p, Idle)
             \/ \E i \in Ids : Goto(p, Mark(i, t, inserting(t)))
      BY <1>10 DEF SelectPending, Newest, PendingFor, Pending
    <3> HIDE DEF inserting
    <3>3. \E o : Goto(p, o) /\ ~ Inserts(o, key)
      BY <3>1, <3>2, <1>i
    <3> QED  BY <3>3, <2>2, <1>3
  <2>5. CASE op[p].key = key
    <3>1. \/ PendingFor(key) = {}
          \/ Goto(p, Idle)
          \/ \E t \in op[p].at .. now : \E i \in Newest(PendingFor(key)) :
                ~ (t < requests[i].expiresAt)
      BY <1>10, <2>5 DEF SelectPending
    <3>2. CASE PendingFor(key) = {}
      BY <3>2, <2>3 DEF Live
    <3>3. CASE Goto(p, Idle)
      BY <3>3, <2>2, <1>3, <1>i
    <3>4. ASSUME NEW t \in op[p].at .. now, NEW i \in Newest(PendingFor(key)),
                 ~ (t < requests[i].expiresAt)
          PROVE  Live(key) = {}
      <4>1. t \in Nat /\ t <= now
        BY <2>1, <1>t DEF Selecting
      <4> QED  BY <4>1, <3>4, NothingLive
    <3> QED  BY <3>1, <3>2, <3>3, <3>4, <2>3
  <2> QED  BY <2>4, <2>5
<1>11. ASSUME NEW p \in Handlers, InsertRequest(p)
       PROVE  Less \/ Spent
  <2>1. PICK i \in Unused :
           requests' = [requests EXCEPT ![i] =
              [state |-> "pending", key |-> op[p].key, decision |-> NoDecision,
               createdAt |-> op[p].at, expiresAt |-> op[p].at + PendingLifetime,
               decidedAt |-> 0]]
    BY <1>11 DEF InsertRequest
  <2>2. i \in Ids /\ now' = now /\ Goto(p, Idle) /\ op[p].step = "insert"
    BY <1>11 DEF InsertRequest, Unused
  <2>3. /\ requests'[i].key = op[p].key
        /\ \A j \in Ids : j # i => requests'[j] = requests[j]
    BY <2>1, <2>2, <1>t
  <2>4. Live(key)' \subseteq Live(key) \cup {i}
    BY <2>2, <2>3 DEF Live, PendingFor, Pending, Due
  <2>5. op[p].key # key => i \notin Live(key)'
    BY <2>3 DEF Live, PendingFor
  <2>6. Inserting(key)' \subseteq Inserting(key)
    BY <2>2, <1>i, InsertingMove
  <2>7. CASE op[p].key # key
    BY <2>4, <2>5, <2>6, <2>7
  <2>8. CASE op[p].key = key
    <3>1. p \in Inserting(key)
      BY <2>2, <2>8 DEF Inserting, Inserts
    <3>2. op'[p] = Idle
      BY <2>2, <1>t DEF Goto
    <3>3. p \notin Inserting(key)'
      BY <3>2, <1>i DEF Inserting
    <3> QED  BY <2>4, <2>6, <3>1, <3>3
  <2> QED  BY <2>7, <2>8
<1>12. Less \/ Live(key)' = {} \/ Spent
  <2>1. ASSUME NEW p \in Handlers, Step(p)
        PROVE  Less \/ Live(key)' = {} \/ Spent
    <3> HIDE DEF Less, Spent
    <3> QED  BY <2>1, <1>5, <1>6, <1>7, <1>8, <1>9, <1>10, <1>11 DEF Step
  <2>2. ASSUME NEW d \in Devices, LinkDevice(d) \/ UnlinkDevice(d)
        PROVE  UNCHANGED <<now, requests, op>>
    BY <2>2 DEF LinkDevice, UnlinkDevice
  <2>3. vars' = vars => UNCHANGED <<now, requests, op>>
    BY DEF vars
  <2> HIDE DEF Less, Spent
  <2> QED
    BY <2>1, <2>2, <2>3, <1>1, <1>2, <1>4 DEF Next
<1>13. Inserting(key) \subseteq Handlers /\ Inserting(key)' \subseteq Handlers
  BY DEF Inserting
<1>14. Room(key)
  BY DEF RoomForInserts
<1>15. /\ IsFiniteSet(Live(key))
       /\ Cardinality(Live(key)) + Cardinality(Inserting(key)) <= Cardinality(Handlers)
  BY <1>14 DEF Room
<1>16. /\ IsFiniteSet(Live(key)')
       /\ Cardinality(Live(key)') + Cardinality(Inserting(key)') <= Cardinality(Handlers)
  <2> DEFINE L == Live(key)
             M == Live(key)'
             F == Inserting(key)
             G == Inserting(key)'
  <2>1. \/ M \subseteq L /\ G \subseteq F
        \/ M = {}
        \/ \E p \in F : \E i : M \subseteq L \cup {i} /\ G \subseteq F \ {p}
    BY <1>12
  <2>2. F \subseteq Handlers /\ G \subseteq Handlers
    BY <1>13
  <2>3. IsFiniteSet(L) /\ Cardinality(L) + Cardinality(F) <= Cardinality(Handlers)
    BY <1>15
  <2> HIDE DEF L, M, F, G
  <2>4. IsFiniteSet(M) /\ Cardinality(M) + Cardinality(G) <= Cardinality(Handlers)
    BY <2>1, <2>2, <2>3, RoomCounts
  <2> QED  BY <2>4 DEF M, G
<1> QED  BY <1>16 DEF Room

\* However many calls for one device and site overlap, and wherever they stop,
\* there are never more live pending requests for it than handlers: a create
\* call reuses the live request it finds.
THEOREM PendingIsBounded ==
    ASSUME IsFiniteSet(Handlers)
    PROVE  Spec => []PendingBoundedByHandlers
<1>1. Init => RoomForInserts
  <2> SUFFICES ASSUME Init, NEW key \in Keys PROVE Room(key)
    BY DEF RoomForInserts
  <2>1. Live(key) = {} /\ Inserting(key) = {}
    BY DEF Init, NoRequest, Idle, Live, PendingFor, Pending, Inserting, Inserts
  <2>2. Cardinality(Handlers) \in Nat
    BY FS_CardinalityType
  <2> QED  BY <2>1, <2>2, FS_EmptySet DEF Room
<1>2. RoomForInserts => PendingBoundedByHandlers
  <2> SUFFICES ASSUME NEW key \in Keys, Room(key)
               PROVE  Cardinality(Live(key)) <= Cardinality(Handlers)
    BY DEF RoomForInserts, PendingBoundedByHandlers, Live
  <2>1. /\ Cardinality(Live(key)) \in Nat /\ Cardinality(Inserting(key)) \in Nat
        /\ Cardinality(Handlers) \in Nat
    BY FS_CardinalityType, FS_Subset DEF Room, Inserting
  <2> QED  BY <2>1 DEF Room
<1>3. StaleReadsAreSound /\ RoomForInserts /\ [Next]_vars => RoomForInserts'
  BY RoomStep
<1> QED  BY <1>1, <1>2, <1>3, Soundness, PTL DEF Spec
=============================================================================
