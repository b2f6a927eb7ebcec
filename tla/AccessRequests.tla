--------------------------- MODULE AccessRequests ---------------------------
(***************************************************************************)
(* Browser access requests of the control service                          *)
(* (internal/service/browser_access_request*.go).                          *)
(*                                                                         *)
(* HTTP handlers run concurrently.  The database has one connection        *)
(* (database.Open sets MaxOpenConns(1)), so each SQL statement, and each   *)
(* transaction, is one atomic step; between two of them other handlers run *)
(* and the clock moves.  What a handler read it keeps in op[p] and may use *)
(* when it is stale; a clock reading between two statements is any moment  *)
(* between them.  A handler may also stop between any two steps: its       *)
(* client leaves, a statement fails, or the process dies.                  *)
(*                                                                         *)
(* One customer, one profile and one browser profile are modelled; a       *)
(* request is about a key, the device that asks and the site it asks for.  *)
(***************************************************************************)
EXTENDS ProfilePolicy, FiniteSets

CONSTANTS Devices,
          Ids,             \* the random request identifiers
          Handlers,        \* concurrent HTTP calls
          NoDecision,
          PendingLifetime, \* browserAccessRequestPendingLifetime
          ResultLifetime,  \* browserAccessRequestResultLifetime
          PutPolicies,     \* policies a parent may PUT
          MaxTime,         \* bound on the clock
          MaxRevision      \* bound on revisions at which new writers start

ASSUME LifetimeAssumption == PendingLifetime \in Nat \ {0} /\ ResultLifetime \in Nat
ASSUME PutAssumption == PutPolicies \subseteq Policy
ASSUME NoDecisionAssumption == NoDecision \notin Decisions
ASSUME BoundAssumption == MaxTime \in Nat /\ MaxRevision \in Nat

VARIABLES now,        \* the store's clock
          linked,     \* device_profiles: devices linked to the profile
          config,     \* profile_configs: the profile's row
          requests,   \* browser_access_requests by id
          op,         \* op[p]: where handler p is and what it holds
          granted     \* history: granted[i], decisions applied for request i

vars == <<now, linked, config, requests, op, granted>>

Keys == [device : Devices, site : Sites]

NoRequest == [state |-> "none"]

Request == [state     : {"pending", "approved", "rejected", "expired"},
            key       : Keys,
            decision  : Decisions \cup {NoDecision},
            createdAt : Nat,
            expiresAt : Nat,
            decidedAt : Nat]      \* 0 stands for the SQL NULL

Final == {"approved", "rejected", "expired"}

Pending == {i \in Ids : requests[i].state = "pending"}

PendingFor(key) == {i \in Pending : requests[i].key = key}

Unused == {i \in Ids : requests[i] = NoRequest}

-----------------------------------------------------------------------------
\* Where a handler can be.  A "mark" step carries what it continues with.
Idle == [step |-> "idle"]
Creating == [step : {"config", "recheck"}, key : Keys]
Selecting == [step : {"select", "insert"}, key : Keys, at : Nat]
Reviewing == [step : {"review"}, id : Ids, to : {"approved", "rejected"},
              decision : Decisions \cup {NoDecision}, until : Nat]
Granting == [step : {"grant"}, id : Ids, decision : Decisions, at : Nat]
Recording == [step : {"record"}, id : Ids, to : {"approved", "rejected"},
              decision : Decisions \cup {NoDecision}, at : Nat]
Listing == [step : {"list"}, todo : SUBSET Ids]
Marking == [step : {"mark"}, id : Ids, at : Nat,
            then : {Idle} \cup Selecting \cup Listing]
Putting == [step : {"store"}, policy : Policy]

Op == {Idle} \cup Creating \cup Selecting \cup Reviewing \cup Granting
        \cup Recording \cup Listing \cup Marking \cup Putting

IsCreating(o) == \/ o.step \in {"config", "recheck", "select", "insert"}
                 \/ o.step = "mark" /\ o.then.step = "insert"

\* Bound: a create call starts only while an identifier is left for it.
IdLeft == Cardinality({p \in Handlers : IsCreating(op[p])}) < Cardinality(Unused)

Goto(p, o) == op' = [op EXCEPT ![p] = o]

Mark(i, t, o) == [step |-> "mark", id |-> i, at |-> t, then |-> o]

Due(i) == now >= requests[i].expiresAt

-----------------------------------------------------------------------------
Init == /\ now = 0
        /\ linked \in SUBSET Devices
        /\ config \in {NoConfiguration} \cup [revision : {1}, policy : PutPolicies]
        /\ requests = [i \in Ids |-> NoRequest]
        /\ op = [p \in Handlers |-> Idle]
        /\ granted = [i \in Ids |-> {}]

\* POST access-requests: the route checks the link and the configuration
\* before it calls CreateBrowserAccessRequest, which checks the link again.
StartCreate(p, key) ==
    /\ op[p] = Idle
    /\ IdLeft
    /\ key.device \in linked
    /\ Goto(p, [step |-> "config", key |-> key])
    /\ UNCHANGED <<now, linked, config, requests, granted>>

\* Reading the configuration cleans it up; without the row or the browser
\* profile the call is refused.
ReadConfiguration(p) ==
    /\ op[p].step = "config"
    /\ config' = IF config.revision = 0 THEN config ELSE ReadConfigurationRow(config, now)
    /\ Goto(p, IF CanApprove(config') THEN [step |-> "recheck", key |-> op[p].key] ELSE Idle)
    /\ UNCHANGED <<now, linked, requests, granted>>

RecheckLink(p) ==
    /\ op[p].step = "recheck"
    /\ Goto(p, IF op[p].key.device \in linked
               THEN [step |-> "select", key |-> op[p].key, at |-> now]
               ELSE Idle)
    /\ UNCHANGED <<now, linked, config, requests, granted>>

Newest(I) == {i \in I : \A j \in I : requests[j].createdAt <= requests[i].createdAt}

Oldest(I) == {i \in I : \A j \in I : requests[i].createdAt <= requests[j].createdAt}

\* Slip: an existing pending request is never looked for.
SelectNothing(p) ==
    /\ op[p].step = "select"
    /\ Goto(p, [op[p] EXCEPT !.step = "insert"])
    /\ UNCHANGED <<now, linked, config, requests, granted>>

\* The creation time is read after the link.  The newest pending request for
\* the key is reused unless it is over by then; one that is over is marked
\* expired before a new request is inserted.
SelectPending(p) ==
    LET o == op[p]
    IN  /\ o.step = "select"
        /\ \E t \in o.at .. now :
              LET inserting == [step |-> "insert", key |-> o.key, at |-> t]
              IN  \/ /\ PendingFor(o.key) = {}
                     /\ Goto(p, inserting)
                  \/ \E i \in Newest(PendingFor(o.key)) :
                        Goto(p, IF t < requests[i].expiresAt THEN Idle
                                                             ELSE Mark(i, t, inserting))
        /\ UNCHANGED <<now, linked, config, requests, granted>>

InsertRequest(p) ==
    LET o == op[p]
    IN  /\ o.step = "insert"
        /\ \E i \in Unused :
              requests' = [requests EXCEPT ![i] =
                              [state     |-> "pending",
                               key       |-> o.key,
                               decision  |-> NoDecision,
                               createdAt |-> o.at,
                               expiresAt |-> o.at + PendingLifetime,
                               decidedAt |-> 0]]
        /\ Goto(p, Idle)
        /\ UNCHANGED <<now, linked, config, granted>>

\* Slip: the UPDATE forgets the state column.
MarkRetentionOnly(p) ==
    LET o == op[p]
        i == o.id
    IN  /\ o.step = "mark"
        /\ IF i \in Pending
           THEN /\ requests' = [requests EXCEPT ![i].expiresAt = o.at + ResultLifetime]
                /\ Goto(p, o.then)
           ELSE /\ Goto(p, Idle)
                /\ UNCHANGED requests
        /\ UNCHANGED <<now, linked, config, granted>>

\* markBrowserAccessRequestExpired: an UPDATE guarded by state = 'pending'.
\* When no row changes, the call that needed it fails.
MarkExpired(p) ==
    LET o == op[p]
        i == o.id
    IN  /\ o.step = "mark"
        /\ IF i \in Pending
           THEN /\ requests' = [requests EXCEPT ![i].state = "expired",
                                                ![i].expiresAt = o.at + ResultLifetime]
                /\ Goto(p, o.then)
           ELSE /\ Goto(p, Idle)
                /\ UNCHANGED requests
        /\ UNCHANGED <<now, linked, config, granted>>

-----------------------------------------------------------------------------
\* The parent's decision reads the row, and then the clock; an approval goes
\* on with the policy mutation, in a transaction of its own, and the decision
\* is recorded last.  A request that is not pending is refused at the read.
StartApprove(p, i, d) ==
    /\ op[p] = Idle
    /\ i \in Pending
    /\ config.revision < MaxRevision
    /\ Goto(p, [step |-> "review", id |-> i, to |-> "approved", decision |-> d,
                until |-> requests[i].expiresAt])
    /\ UNCHANGED <<now, linked, config, requests, granted>>

StartReject(p, i) ==
    /\ op[p] = Idle
    /\ i \in Pending
    /\ Goto(p, [step |-> "review", id |-> i, to |-> "rejected", decision |-> NoDecision,
                until |-> requests[i].expiresAt])
    /\ UNCHANGED <<now, linked, config, requests, granted>>

\* What follows a decision taken in time.
Decided(o, t) ==
    IF o.to = "approved"
    THEN [step |-> "grant", id |-> o.id, decision |-> o.decision, at |-> t]
    ELSE [step |-> "record", id |-> o.id, to |-> o.to, decision |-> o.decision, at |-> t]

\* Slip: the deadline of the request is not looked at.
ReviewLate(p) ==
    /\ op[p].step = "review"
    /\ Goto(p, Decided(op[p], now))
    /\ UNCHANGED <<now, linked, config, requests, granted>>

Review(p) ==
    LET o == op[p]
    IN  /\ o.step = "review"
        /\ Goto(p, IF now >= o.until THEN Mark(o.id, now, Idle) ELSE Decided(o, now))
        /\ UNCHANGED <<now, linked, config, requests, granted>>

\* The expiry of a temporary approval is fixed before the transaction starts.
\* That rolls back when the row or the browser profile is missing.
GrantDecision(p) ==
    LET o == op[p]
    IN  /\ o.step = "grant"
        /\ IF CanApprove(config)
           THEN /\ \E t \in o.at .. now :
                      config' = ApproveRow(config, now, requests[o.id].key.site,
                                           o.decision, t + o.decision.duration)
                /\ granted' = [granted EXCEPT ![o.id] = @ \cup {o.decision}]
                /\ Goto(p, [step |-> "record", id |-> o.id, to |-> "approved",
                            decision |-> o.decision, at |-> o.at])
           ELSE /\ Goto(p, Idle)
                /\ UNCHANGED <<config, granted>>
        /\ UNCHANGED <<now, linked, requests>>

\* Slip: the UPDATE matches the request whatever its state.
RecordAnyway(p) ==
    LET o == op[p]
    IN  /\ o.step = "record"
        /\ requests' = [requests EXCEPT ![o.id].state = o.to,
                                        ![o.id].decision = o.decision,
                                        ![o.id].decidedAt = o.at,
                                        ![o.id].expiresAt = o.at + ResultLifetime]
        /\ Goto(p, Idle)
        /\ UNCHANGED <<now, linked, config, granted>>

\* recordBrowserAccessDecision: an UPDATE guarded by state = 'pending'.
RecordDecision(p) ==
    LET o == op[p]
        i == o.id
    IN  /\ o.step = "record"
        /\ requests' = IF i \notin Pending THEN requests
                       ELSE [requests EXCEPT ![i].state = o.to,
                                             ![i].decision = o.decision,
                                             ![i].decidedAt = o.at,
                                             ![i].expiresAt = o.at + ResultLifetime]
        /\ Goto(p, Idle)
        /\ UNCHANGED <<now, linked, config, granted>>

-----------------------------------------------------------------------------
\* Reads of one request by its device or by the parent expire it lazily; a
\* read of any other request changes nothing.
ReadDue(p, i) ==
    /\ op[p] = Idle
    /\ i \in Pending
    /\ Due(i)
    /\ Goto(p, Mark(i, now, Idle))
    /\ UNCHANGED <<now, linked, config, requests, granted>>

\* The parent's list collects the pending identifiers and then reads them
\* one by one, oldest first, marking those that are over.
StartList(p) ==
    /\ op[p] = Idle
    /\ Pending # {}
    /\ Goto(p, [step |-> "list", todo |-> Pending])
    /\ UNCHANGED <<now, linked, config, requests, granted>>

Listed(todo) == IF todo = {} THEN Idle ELSE [step |-> "list", todo |-> todo]

ListNext(p) ==
    LET o == op[p]
    IN  /\ o.step = "list"
        /\ \E i \in Oldest(o.todo) :
              LET rest == Listed(o.todo \ {i})
              IN  Goto(p, IF i \in Pending /\ Due(i) THEN Mark(i, now, rest) ELSE rest)
        /\ UNCHANGED <<now, linked, config, requests, granted>>

-----------------------------------------------------------------------------
\* PUT configuration: expired approvals of the new policy are dropped before
\* the transaction that replaces the stored one.
StartPut(p, policy) ==
    /\ op[p] = Idle
    /\ config.revision < MaxRevision
    /\ Goto(p, [step |-> "store", policy |-> CleanupExpired(policy, now)])
    /\ UNCHANGED <<now, linked, config, requests, granted>>

StorePut(p) ==
    /\ op[p].step = "store"
    /\ config' = PutRow(config, op[p].policy)
    /\ Goto(p, Idle)
    /\ UNCHANGED <<now, linked, requests, granted>>

LinkDevice(d) ==
    /\ linked' = linked \cup {d}
    /\ UNCHANGED <<now, config, requests, op, granted>>

UnlinkDevice(d) ==
    /\ linked' = linked \ {d}
    /\ UNCHANGED <<now, config, requests, op, granted>>

\* A handler stops where it is; the statements it ran stay.
Abort(p) ==
    /\ op[p] # Idle
    /\ Goto(p, Idle)
    /\ UNCHANGED <<now, linked, config, requests, granted>>

Tick ==
    /\ now < MaxTime
    /\ now' = now + 1
    /\ UNCHANGED <<linked, config, requests, op, granted>>

\* The next statement of a call that is under way.
Step(p) == \/ ReadConfiguration(p) \/ RecheckLink(p)
           \/ SelectPending(p) \/ InsertRequest(p)
           \/ MarkExpired(p)
           \/ Review(p) \/ GrantDecision(p) \/ RecordDecision(p)
           \/ ListNext(p) \/ StorePut(p)

\* A new call.
Call(p) == \/ \E key \in Keys : StartCreate(p, key)
           \/ \E i \in Ids : \/ StartReject(p, i) \/ ReadDue(p, i)
                             \/ \E d \in Decisions : StartApprove(p, i, d)
           \/ StartList(p)
           \/ \E policy \in PutPolicies : StartPut(p, policy)

Next == \/ Tick
        \/ \E d \in Devices : LinkDevice(d) \/ UnlinkDevice(d)
        \/ \E p \in Handlers : Step(p) \/ Call(p) \/ Abort(p)

Spec == Init /\ [][Next]_vars

-----------------------------------------------------------------------------
\* Every variable has its type, and a handler holds what its step needs.
TypeOK ==
    /\ now \in Nat
    /\ linked \subseteq Devices
    /\ config \in Configuration
    /\ requests \in [Ids -> Request \cup {NoRequest}]
    /\ op \in [Handlers -> Op]
    /\ granted \in [Ids -> SUBSET Decisions]

Deadline(i) == requests[i].createdAt + PendingLifetime

\* A row's creation is not in the future; until it is settled it expires at
\* its deadline and carries no decision.
RowsConsistent ==
    \A i \in Ids : requests[i] # NoRequest =>
        /\ requests[i].createdAt <= now
        /\ i \in Pending => /\ requests[i].expiresAt = Deadline(i)
                            /\ requests[i].decision = NoDecision
                            /\ requests[i].decidedAt = 0

\* What handler state o relies on, though it was read some steps ago: its row
\* still exists, a row about to be marked is over for good, a parent who is
\* deciding holds the deadline and decided before it, an approval being
\* recorded is applied.
Grounded(o) ==
    /\ o.step \in {"select", "insert"} => o.at <= now
    /\ o.step \in {"mark", "review", "grant", "record"} => requests[o.id] # NoRequest
    /\ o.step = "review" =>
          /\ o.until = Deadline(o.id)
          /\ o.decision \in IF o.to = "approved" THEN Decisions ELSE {NoDecision}
    /\ o.step = "mark" =>
          /\ Deadline(o.id) <= now
          /\ o.then.step \in {"select", "insert"} => o.then.at <= now
    /\ o.step \in {"grant", "record"} =>
          requests[o.id].createdAt <= o.at /\ o.at <= now /\ o.at < Deadline(o.id)
    /\ o.step = "record" =>
          o.decision \in IF o.to = "approved" THEN granted[o.id] ELSE {NoDecision}

\* The inductive invariant: stale as a handler's reads may be, what it does
\* with them next is still sound.
StaleReadsAreSound ==
    /\ TypeOK
    /\ RowsConsistent
    /\ \A p \in Handlers : Grounded(op[p])

\* The abstract view of a request drops its key and its retention time.
Abstracted(r) ==
    IF r = NoRequest
    THEN [state |-> "unasked", asked |-> 0, decision |-> NoDecision, decided |-> 0]
    ELSE [state |-> r.state, asked |-> r.createdAt,
          decision |-> r.decision, decided |-> r.decidedAt]

AbstractRequests == [i \in Ids |-> Abstracted(requests[i])]

AD == INSTANCE AccessDecision
        WITH Decision <- Decisions, request <- AbstractRequests, grants <- granted

\* Whatever handlers interleave or stop half way, each request is settled at
\* most once, from pending; it is recorded as approved only with a decision
\* that the policy transaction applied before; the recorded decision time is
\* inside the pending lifetime; and it expires only after that lifetime.
SettlesOnce == AD!Spec

\* What takes the approval of site s out of force.
Excused(s) ==
    \/ now' > now
    \/ \E p \in Handlers :
          \/ op[p].step = "store" /\ op'[p] = Idle
          \/ op[p].step = "grant" /\ requests[op[p].id].key.site = s

LosesNoApproval ==
    \A s \in InForce(config.policy, now) \ InForce(config'.policy, now') : Excused(s)

\* An approval that is in force stops being so only when time passes, when a
\* parent replaces the policy, or when another approval of the same site
\* replaces its expiry: no handler's transaction loses another one's approval,
\* and the clean-up that rides on reads and approvals drops none too early.
ApprovalsSurvive == [][LosesNoApproval]_vars

\* Creating reuses a live pending request, so however many calls for one key
\* overlap there are never more live pending requests for it than handlers.
PendingBoundedByHandlers ==
    \A key \in Keys :
        Cardinality({i \in PendingFor(key) : ~ Due(i)}) <= Cardinality(Handlers)

\* Someone keeps looking at a request that is waiting, and not every such call
\* is cut off: its blocked page asks again every two seconds after an answer of
\* "pending" (blocked_approval.js:64-91), the child resumes a poll that failed
\* (123-129), and the parent's list reads it too.  Calls under way and the
\* clock go on.
ExpireOnRead(p, i) == op[p].step = "mark" /\ op[p].id = i /\ MarkExpired(p)

Polling == /\ WF_vars(Tick)
           /\ \A p \in Handlers : WF_vars(Step(p))
           /\ \A i \in Ids : /\ SF_vars(\E p \in Handlers : ReadDue(p, i))
                             /\ SF_vars(\E p \in Handlers : ExpireOnRead(p, i))

PollingSpec == Spec /\ Polling

\* With no timer in the service, a polled request is still settled in the end
\* (a request whose lifetime outlasts the bounded clock is left out).
EveryRequestSettles ==
    \A i \in Ids :
        (i \in Pending /\ requests[i].expiresAt <= MaxTime) ~> (i \notin Pending)

-----------------------------------------------------------------------------
\* The lifecycle test has a second create return the first request's
\* identifier while that is pending (browser_access_request_test.go:41-54).
OnePendingPerKey ==
    \A key \in Keys : Cardinality({i \in PendingFor(key) : ~ Due(i)}) <= 1

\* ApproveBrowserAccessRequest "applies the parent-selected approval and
\* records the decision" (browser_access_request.go:177): the policy never
\* holds, for a settled request, a decision other than the recorded one.
AppliedIsRecorded ==
    \A i \in Ids :
        requests[i].state \in Final => granted[i] \subseteq {requests[i].decision}
=============================================================================
