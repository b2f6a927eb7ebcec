# A TLA+ model of Family Friend

This directory holds TLA+ modules that model Family Friend, from the control
service to the browser extension, TLC configurations that check them on small instances, and proofs, for
TLAPS, of what matters most. Paths below are relative to the repository's
`src/` directory; `internal/service/` is abbreviated `service/`.

## 1. The system

Family Friend lets a parent restrict a child's Windows account. Four kinds of
programs take part:

* the **control service** (`cmd/familyfriend-service`, `service/`): an HTTP API
  over a SQLite database with customers, child profiles, their policies,
  devices, pairing sessions, parent codes and access requests;
* the **agent** (`cmd/drowsyfriend`, `internal/agent`, `internal/modules`): runs
  on the child's PC as a Windows service, takes policies from the control
  service and enforces them through the KidControl module;
* the **session worker** (`cmd/drowsyfriend-session-worker`,
  `internal/sessionworker`, `internal/sessionbridge`): runs in the child's
  session and acts on windows and processes for the agent over a named pipe;
* the **Chrome extension** (`browser-extension/chrome`) and the desktop UI,
  which talk to the agent's loopback APIs.

### Inventory

| Component | State it keeps | Operations | Talks to | What is hard |
| --- | --- | --- | --- | --- |
| Browser access requests (`service/browser_access_request*.go`) | one row per request: state, decision, creation, expiry, decision time | create, read by device, list and read by parent, approve, reject, lazy expiry | profile policy store; blocked page through the agent | several statements per call with other calls and the clock in between; approve spans two transactions; expiry without a timer |
| Profile policy store (`service/store.go`, `service/profile_policy.go`, `internal/policy`) | one configuration per profile with a revision; device links | put, read (cleans expired approvals up), mutate, link, unlink | everybody who approves; agent sync | reads that write; a revision must identify a policy |
| Direct browser approval (`service/browser_approval.go`) | none of its own | check link, verify code, mutate policy | approval code, policy store | three steps, each of which another call can invalidate |
| Parent approval code (`service/approval_code.go`) | verifier, failure counter, lock | set, verify | direct approval | counter, lock and reset together limit attempts |
| Active browser profile (`service/active_browser_profile.go`) | active profile in the policy | set, clear | policy store; agent's resolver | its expiry is judged by the agent's clock |
| Pairing, service side (`service/pairing*.go`) | one session per customer: state, code, device, proof, expiry | create, heartbeat (rotates the code), claim, confirm, cancel, status by proof | devices; agent pairing API | code checked outside the transaction that stores it; rotation against claim; two reads per status |
| Pairing, agent side (`internal/agent/ui_api.go`) | the current attempt and `paired`, under a mutex | claim, status, reset | pairing service, desktop UI | the mutex is not held during remote calls |
| Policy synchronisation (`internal/agent/policy_sync.go`) | last applied revision per profile, in memory | sync | policy store; KidControl | one profile fails while others succeed; restart |
| Browser approval bridge (`internal/agent/browser_approval_api.go`) | none | forward create, status, direct approval | service, extension | none of its own |
| Browser monitor (`internal/modules/kidcontrol/browser_*.go`) | running flag, current visit, active profile | start, stop, check URL, end visit, activate and resolve profile | extension, audit | URL checks racing stop; fallback of an expired profile |
| Enforcement (`internal/modules/kidcontrol/*.go`) | started components, handled processes and windows | start, stop, observe, decide, act | platform layer | partial start; failed actions |
| Module registry, app runtime (`internal/modules`, `internal/app`) | modules started | start enabled, stop started | KidControl | rollback of a partial start |
| Session configuration (`internal/sessionconfig`) | registry values: child SID, worker path, startup entry | enable, disable, status | Windows registry | values written one by one |
| Session bridge and worker (`internal/sessionbridge`, `internal/sessionworker`) | one pipe | call, serve | agent, worker | time-outs against late answers |
| Service host (`cmd/drowsyfriend`, `internal/servicecontrol`) | the running runtime | start, stop with time-out | Windows SCM | a runtime that outlives its stop |
| Chrome extension (`browser-extension/chrome`) | last checked URL per tab, activity queue, pending request and poll timer | navigation, tab and window events, ask parent, poll, direct approval | agent | state read before an `await` and used after it |
| Clients, desktop UI, platform layer, files, tools | none worth modelling | - | - | thin wrappers, parsing and output |

What makes each component correct:

* *Access requests*: each request is settled at most once and from pending;
  recorded as approved only with a decision that the policy really holds; a
  parent decides inside the lifetime, expiry comes only after it; a request
  somebody waits for is settled in the end; a live request is reused.
* *Policy store*: concurrent transactions lose no approval; clean-up never
  drops one early; two different policies never share a revision.
* *Approval code*: a bounded number of wrong guesses per lock; no lock unearned.
* *Direct approval*: the policy opens a site only for a code verified by that
  call on a linked device.
* *Pairing*: one device per session, and the parent confirms the device shown;
  proofs do not cross sessions; a paired agent is a registered device.
* *Synchronisation*: revisions run in order and are acknowledged only when they
  run; the last one does eventually, whatever another profile does.
* *Browser profiles and monitor*: a check always finds a profile; each visit is
  audited once or known to be current; stopping does not wait for itself.
* *Enforcement*: a target is acted on once, a blocked process in the end, and
  nothing after a stop.
* *Lifecycle*: the process ends once asked to, and exit code 0 means that
  everything was stopped.
* *Session configuration*: a call that reports success has had its effect,
  whatever broken calls left behind.
* *Bridge*: an answer is fresh and comes from the child's worker; a broken
  connection is replaced.
* *Extension*: it ends up following the tab in front, and no page that is never
  allowed is there unless its check failed or was escaped; the blocked page says
  what happened and does not wait for nothing.

Where the code falls short of a property one would expect of a component,
section 6 says so.

The hazards behind these, at the lines where they bite, are listed in
`PROJECT.json` ("hazards"); the properties below are aimed at them.

## 2. Plan

| Order | Modules | Composition | Abstract specification | Status |
| --- | --- | --- | --- | --- |
| 1 | `ProfilePolicy`, `AccessRequests`, `AccessDecision` | requests use the policy operators | `AccessDecision`: one settlement per request | modelled, checked, proved |
| 2 | `ApprovalCode` | - | - | modelled, checked, proved |
| 3 | `Pairing`, `PairingProtocol`, `PairingAgent` | the agent's calls run on the pairing service | `PairingProtocol`: one claim and one decision per session | modelled, checked, proved |
| 4 | `DirectApproval` | `ApprovalCode` with `ProfilePolicy`, and the agent's bridge | - | modelled, checked, proved |
| 5 | `BrowserRules`, `PolicySync` | the evaluator over the policies that `ProfilePolicy` stores | `PolicyReplica`: versions run in order, acknowledged when run | modelled, checked, proved |
| 6 | `BrowserProfiles`, `BrowserMonitor` | side by side in `MCKidControl` | - | modelled, checked, proved |
| 7 | `Enforcement` | side by side in `MCKidControl` | - | modelled, checked, proved |
| 8 | `AgentProcess`, `ServiceControl` | the control of the service uses `ServiceProcess` for its process | `ServiceProcess`: what a service owes Windows | modelled, checked, proved |
| 9 | `SessionConfig`, `SessionBridge` | side by side in `MCAgent` | - | modelled, checked, proved |
| 10 | `BrowserExtension`, `BlockedPage` | side by side in `MCExtension` | - | modelled, checked, proved |

"Proved" means that every safety property that a run checks of these modules is a
theorem (section 5); their liveness properties are checked by TLC only. What is left:
two administrators whose calls overlap, and what single operators promise (`Evaluate`,
`Matches`), as theorems of their own.

## 3. Modules

### `ProfilePolicy`

The stored policy of one profile, reduced to what the approval paths read and
write (`Policy`): whether the named browser profile exists, its permanently
allowed sites, its temporary approvals by expiry. Constant operators model the
clean-up of expired approvals (`internal/policy/browser.go`), the two approval
mutations (`service/browser_approval.go`), the rule that a mutation or a
replacement bumps the revision only when something changed, and the read that
persists the clean-up. Revision 0 stands for a missing row.

### `AccessRequests`

| Variable | Code |
| --- | --- |
| `now` | the store's clock |
| `linked` | `device_profiles` of the profile |
| `config` | its row in `profile_configs` |
| `requests` | `browser_access_requests` by id |
| `op` | for each concurrent HTTP handler: its next statement and the values it read |
| `granted` | history: decisions whose policy transaction committed, by request |

`database.Open` sets `MaxOpenConns(1)`, so one statement, or one transaction, is
one atomic step, and other handlers and the clock run between two of them. A
handler keeps in `op` what it read, however stale. Where the code reads the
clock between two statements the model takes any moment between them. `Abort`
ends a call between any two steps: the client leaves and its context is
cancelled, a statement fails, or the process dies; what was committed stays.

| Action | Code |
| --- | --- |
| `StartCreate`, `ReadConfiguration`, `RecheckLink`, `SelectPending`, `InsertRequest` | the create route and `CreateBrowserAccessRequest`, statement by statement |
| `StartApprove`/`StartReject`, `Review`, `GrantDecision`, `RecordDecision` | read of the row, look at the clock, policy transaction, guarded `UPDATE` |
| `MarkExpired` | `markBrowserAccessRequestExpired`, on behalf of whichever call needed it |
| `ReadDue` | a device's or parent's read that finds the request over |
| `StartList`, `ListNext` | `PendingBrowserAccessRequests`: identifiers first, then row by row |
| `StartPut`, `StorePut` | replacing the policy; clean-up first, transaction second |
| `LinkDevice`, `UnlinkDevice`, `Tick`, `Abort` | device links, time, interrupted calls |

One customer, one profile and one browser profile are modelled: every statement
names them in its `WHERE` clause, so they do not interact. Times are natural
numbers and never run backwards; the service's clock is `time.Now().UTC()`, and
the fixed-width format of the stored times keeps their order. `AccessRequests`
has no restart action of its own: everything but `op` is in the database, so a
restart is an `Abort` of every handler.

### `AccessDecision`

What a caller may rely on, without handlers, statements or policies: a request
is asked once, settled once, approved only with a granted decision, decided
inside its lifetime and expired only after it. `AccessRequests` implements it
under the mapping `AbstractRequests` (the row without its key and retention).

### `ApprovalCode`

`credential` is the row of `parent_credentials`; `SetApprovalCode`, `Accept` and
`Reject` are the statement and the transactions of `service/approval_code.go`.
A call refused without a write is a stutter. `wrong` and `locks` are history:
when wrong guesses were answered, and how many locks were imposed, since the
last reset. The digest is modelled by the code that it accepts.

### `Pairing`

| Variable | Code |
| --- | --- |
| `now` | the store's clock |
| `sessions` | `pairing_sessions` by id; `NoSession` is an identifier not drawn yet, `Gone` a deleted row |
| `devices` | the registered devices of each customer |
| `op` | for each concurrent call of a parent's app: the code, deadline and clock it holds between statements |
| `claims` | claims so far; a claim draws a random proof, modelled by its number |
| `shown` | history: devices that heartbeats of a session answered |

Claim, confirm and cancel are a transaction each (`Claim`, `Confirm`, `Cancel`)
and read the clock inside it. `create` and `heartbeat` are split where the code
releases the connection: `StartCreate` and `ChooseCode` find a code that no row
holds, `CreateSession` and `RotateCode` store it later; the unique index on the
code makes them fail if another session has taken it meanwhile. The clock they
compare or add to may be any moment since the previous step. A heartbeat of a
claimed session is `Show`: it answers the device that the parent will confirm.
A row that expired stays, and holds its code, until its customer opens another
session. `DeletePairingSession` is not called by any program and `RegisterDevice`
(`PUT` of a device by its customer) adds devices on another path; both are left
out. Names and platforms of devices are data nothing here depends on.

### `PairingProtocol`

The promise without codes, heartbeats, deadlines and statements: a session is
opened in the place of its customer's earlier one, claimed by one device for
good, decided once, and a device is registered exactly by a confirmation.
`Pairing` implements it under `AbstractSessions`, which keeps phase, customer
and device of each row.

### `PairingAgent`

Extends `Pairing` with the agent of device `Me`. `agent` is what `UIAPI` keeps
under its mutex; `call` follows each call of the desktop UI: a claim between the
service's commit and its answer; a status call that has copied the attempt, had
its proof checked (`CheckProof`), read the row (`ReadRow`) and the clock
(`Judge`), and applies the answer to whatever attempt the agent holds then
(`ApplyStatus`). Answers may be lost, the agent may restart (it keeps none of
this on disk), the UI may reset. A failed call changes only the connection state
shown by the UI, which is left out.

### `DirectApproval`

Extends `ApprovalCode` and `ProfilePolicy`: the call of the blocked page through
the agent's bridge to the service. `linked` and `config` are the device's link and
the profile's row, `call` is where each call is: asked, past the link
(`CheckLink`), past the code (`Verify`, one transaction of `ApprovalCode`), with a
moment read from the clock (`Stamp`), or answered (`Grant`, the policy
transaction). Between two of them the parent sets another code, unlinks the
device, replaces the policy (`PutConfiguration`), or the call ends
(`BreakOff`): the connection is lost before or after the work was done. `Told`
are the answers that `browser_approval_api.go` derives from the service's status.

### `BrowserRules`, `PolicySync`, `PolicyReplica`

`BrowserRules` is the evaluator: `Matches` (host suffix by label, path prefix by
segment), `Approved` (temporary approvals that have not ended) and `Evaluate`, in
the order of `browser_profile.go`. `PolicySync` composes it with the stored
policies and the synchroniser:

| Variable | Code |
| --- | --- |
| `linked`, `versions` | device links; every policy a profile has had, the last one is its row |
| `last` | `lastRevision` of the synchroniser, in memory |
| `applied` | the revision the KidControl module runs with |
| `sync` | the `Sync` under way: profiles still to do, the revision being applied |

`StartSync` lists the device's profiles, `Fetch` reads one configuration (a read
that may clean it up and store it), `Apply` hands it to the module and
acknowledges it, `FetchFails` and `ApplyFails` (before or after it has taken
effect) go on with the next profile; `Restart` forgets everything. A parent
approves, revokes, links and unlinks between any two. `PolicyReplica` is what it
promises: versions are run in order and acknowledged only when run.

### `BrowserProfiles`

Which browser profile applies. `stored` is what the service keeps and `local` what
the module runs with (`Load` copies it when the module starts); `PutSettings`,
`SetActive` and `ClearActive` are the service's writers, `SetBrowserProfile`,
`DeleteBrowserProfile` and `ActivateBrowserProfile` the module's. A check reads
the clock (`Arrive`) and resolves the profile later under the lock (`ResolveCall`),
which ends an activation that has expired by the clock it read.

### `BrowserMonitor`

`running` and `current` are the monitor's fields under `mu`; `calls` the handlers
of the loopback server, `stop` the call of `Stop`. A check reads the clock
(`ArriveCheck`), is admitted under `mu` (`Admit`), gets its verdict without it
(`Allow`, `Refuse`), and records its visit under `mu` again (`RecordSame`,
`RecordNew`), taking out the one before, which it audits after unlocking (`Audit`).
`StopMonitor` takes the current visit out; `Shutdown` waits for the handlers,
`ShutdownFails` is the end of its context.

### `Enforcement`

`process`, `launched` and `front` are the child's desktop: processes under
identifiers that Windows gives out again, windows that change their titles.
`appLoop` and `windowLoop` are the goroutines of the two monitors. `Scan`,
`HandleApp` (once per entry) and `CloseProcess` are one scan of the app monitor,
`Observe` and `CloseWindow` one look of the window monitor; `...Fails` are the
errors, the first of which ends a scan. `handledPIDs` and `handledWindows` are the
module's memory of what it acted on. `Start` clears it; `Cancel` or `Stop` end
the context, and a loop that gets to its `select` leaves (`Leave`). `attempts`
is history.

### `AgentProcess`, `ServiceProcess`

The agent's process as a Windows service. `status` and `code` are what it reports;
`runtime` is the goroutine of the runtime: it starts the UI server, loads the
policy, starts the components in order, waits for the context, stops the
components in reverse (`StopComponent`, `ComponentStops`), then the UI server. Any
start may fail and a stop may fail or never return. `StopRequest` cancels the
context; then either the runtime returns (`StopReturns`) or thirty seconds pass
(`StopTimesOut`). The goroutine that stops the UI server with the context
(`WatcherStopsUI`) races the runtime's own stop (`StopUI`). `ServiceProcess` is
what any service owes the service control manager; `AgentProcess` implements it.

### `ServiceControl`

Installing, starting and removing the service, a statement at a time, against a
service whose process behaves as `ServiceProcess` (instantiated with the
statuses the service control manager shows) and takes at most `StopTicks`, the
agent's own limit, to stop. Others may start and stop the service in between
(`ConsoleStart`, `ConsoleStop`), it may fail, or be started by the next boot (`Boot`);
each query, control and other call of the service control manager may fail. A
service removed while its process runs is known until the process ends (`Known`).
`startedDuring` is history: where uninstall was when others started the service.

### `SessionConfig`

`childSID`, `workerPath` and `startup` are the registry values the choice consists
of, the last one in the hive of a child, which is there only while the child is
logged in. `Enable` goes through `LoadToEnable`, `SetStartup`, `SaveChild`, `SavePath`,
and back through `DropChild` and `UndoStartup` when a write fails; `Disable` through
`LoadToDisable`, `ClearStartup`, `ClearChild`, `ClearPath`. Each write may fail
and `Kill` ends a call between any two.

### `SessionBridge`

One pipe between service and worker. `call` is the service's call: dialling,
verifying the other end, writing, waiting, until it returns `result` or its
deadline passes (`TimeOut`); `serving` is the worker's connection: reading,
handling, answering, with a deadline of its own (`WorkerTimeOut`). The worker may
end, hang in a call of the desktop (`Handle` is not taken), be of another version
or belong to another user; the window in front changes all the time.

### `BrowserExtension`

The extension's service worker: `queue` holds the activity operations of
`activity.js`, of which the first runs, with `activeTabId`; `navs` the checks of
navigations (`navigation.js`), which run beside them; `lastCheckedURLByTab` the
memory that saves repeated checks. The browser (`focused`, `active`, `url`) moves
on meanwhile and its events come through `Dispatch`. A navigation only begins a
load (`loading`), which is committed later (`CommitLoad`), given up (`AbandonLoad`) or
replaced by another one; pages also change their address without an event
(`ChangeURLSilently`), and the policy changes (`ChangePolicy`).

A lookup in the browser with what follows it is one step, and may be rejected
(`LookUpFails`, `ReadFails`, `ActiveTabFails`), as may the replacement of a page by the
blocked one (`BlockNavigation`). A call of the daemon is three steps: sent, served
(`EndServed`, `CheckServed`, `NavigationServed`) or lost (`...Fails`), and its answer
applied to whatever the browser shows by then. `Suspend` is Chrome ending an idle
worker: everything but the browser and the daemon's `visit` is forgotten.

Four variables are history and guard nothing. `neverAllowed` holds the URLs that
every policy so far blocks; `unchecked` the tabs whose page or load has escaped a
check since the tab was last read; `lookupFailed` says that an operation found no
tab because Chrome rejected its lookup, and none has found one since; `unfollowed`
that the daemon may have a visit for which no followed tab stands.

### `BlockedPage`

`page` is the controller of `blocked_approval.js` (`Show`, `SchedulePoll`,
`HandleRequestState` and `RetryOriginalURL` are functions of it), `call` and `polls`
its calls under way, `requests` the service's requests as far as the page can tell
them apart. The child asks, resumes or leaves; a parent submits a code; timers
fire; answers arrive or are lost; requests are settled meanwhile.

### Exploring in parts

`MCAgent`, `MCKidControl` and `MCExtension` put several modules into one run. These
modules share no variable, so the state space of their composition is the product
of their state spaces and says nothing that the parts do not. The runs
therefore explore one part at a time: `part` is chosen in the initial state and
never changes, the module it names runs from each of its initial states, and
the others rest in one of theirs. Every property of such a run speaks of one
module, so each is checked in every state of its module. A resting part is put
into a state where none of its fair actions is enabled, so that the fairness of a
part that rests is met by resting. `MCApprovals` uses the same form for two
ways of bounding one module.

## 4. Runs

| Run | Shows |
| --- | --- |
| `access_requests` (`AccessRequests.cfg`) | `StaleReadsAreSound`: at every step a handler takes, what it read earlier still supports it; `SettlesOnce`: the abstract decision is implemented |
| `approvals` (`Approvals.cfg`) | `ApprovalsSurvive`: an approval in force ends only by time, by a replaced policy, or by a later approval of the same site; `PendingBoundedByHandlers`: live pending duplicates of a key never outnumber the handlers |
| `polling` (`Polling.cfg`) | `EveryRequestSettles`, under fairness |
| `one_pending` (`OnePending.cfg`) | a violation: two overlapping creates make two live pending requests |
| `applied` (`Applied.cfg`) | a violation: an approval is in the policy of a request that ended otherwise |
| `direct_approval` (`DirectApproval.cfg`) | `GuessesLimited` and `LocksAreEarned`, with concurrent calls of the device doing the guessing, and the invariant that proves them, `AttemptsTracked`; `GrantsNeedTheCode`: the policy opens a site only by the parent's code; `AnswersAreTrue`: the page is told what happened |
| `pairing` (`Pairing.cfg`) | `SessionsSound`: rows are consistent and told apart by code, customer and proof; `PairsOnce`: the abstract protocol is implemented; `RegistersWhatWasShown`: a device is registered in time, and is the one the parent saw |
| `pairing_agent` (`PairingAgent.cfg`) | `AnswersAreSound`: an answer is still true when it is applied, however old; `PairedIsRegistered` |
| `reset_forgets` (`Reset.cfg`) | a violation: after a reset a late answer brings the attempt's state back |
| `agent` (`Agent.cfg`) | *sync*: `IsReplica`, the abstract replica is implemented; `OpensOnlyApproved`: an allow list opens only what an approval in force covers, however stale the policy; `CatchesUp`: one broken profile does not hold the others up. *Process*: `IsServiceProcess`, it ends once asked to; `CleanExit`: code 0 means everything was stopped without an error. *Control*: `UninstallStops`: an uninstall leaves no process behind and waits long enough, unless others start the service meanwhile. *Configuration*: `EnabledIsInForce`: an Enable that reports success has had its effect, whatever earlier calls left behind; `DisabledChildIsFree`: the machine stops naming a child only when the child's startup is gone, but for an Enable that undoes its own half. *Bridge*: `ReportsAreTrue`: answers are fresh and the child's, a window is closed once; `Reconnects` |
| `kidcontrol` (`KidControl.cfg`) | `ChecksAreAnswered`: a check always finds a profile; `VisitsAccounted`: no visit is forgotten or audited twice; `StopReturns`: stopping the monitor does not deadlock with its handlers; `ActsOnce`: no target is acted on twice between a start and a stop, none after a stop; `BlockedAreHandled`: a process that cannot be closed does not shield another one for good |
| `extension` (`Extension.cfg`) | `FollowsTabInFront`, `NoBlockedPageInFront`, `FocusLossEndsVisit`: where the worker ends up after events that overtook each other, each with the exceptions the code leaves, named one by one; `PollsOnce`, `ShownIsTrue`, `PollingAnswers`: the blocked page polls once, tells the truth, and never waits for nothing |

**Bounds.** Two handlers are enough for every race of the request code, which
is between pairs of calls on one row or one policy; a third identifier (the second
part of `approvals`) lets a row be re-created while two others are pending. `MaxTime` 2 with lifetimes
of 1 lets a request be asked at 0, expire at 1 and be looked at before, at and
after. `MaxRevision` stops new writers at a revision, not writers under way.
Two sites (the first part of `approvals`) let one approval disturb another; with
them `approvals` leaves the parent's list out and makes at most two requests, and
with three requests it keeps the policy as it is: the two properties need no more,
and `access_requests` has both on one site. `s1` starts, in one of
the policies a parent puts, with a temporary approval that ends inside the
clock. Handlers, identifiers and devices are symmetric in the runs without
liveness: no definition tells them apart.

`direct_approval` has a limit of 2 guesses, a lock of 2 ticks and four ticks of
clock, so that two locks fit one after the other, and five guesses (`MaxGuesses`),
one more than two locks allow. Two calls interleave; one site and `MaxRevision` 1
are enough for the policy to change under a call.
`Pairing` has two calls of parents, so that every pair of calls can interleave,
two customers who compete for two codes, and two identifiers, enough for a
replaced session next to another customer's. Three ticks with lifetimes of 2, 1
and 1 let a session be rotated, claimed and decided, and each deadline pass.
`PairingAgent` keeps one customer and one parent's call and has two UI calls and
two devices, one of them not the agent's. Both run without a deadlock check:
identifiers and the clock are bounded, so the model runs out of steps where the
service does not.

`agent`: two profiles, of which one may fail for ever, two changes of the parent
(`MaxChanges`), one restart and two ticks let an approval be given, applied, end,
be forgotten and be applied again. The URLs are a site, a page under it, a host above
it and one that does not parse. The process starts with all four components, two
or none. `StopTicks` 2 is less than `WaitTicks` 3 as 30 seconds are less than 45; five
calls control the service. One administrator makes three calls with two faults:
a call that is broken off twice over is met by a clean one. The bridge has two
users, two versions and two windows, one of each the right one, and no other bound.

`kidcontrol`: two checks, two activations and two ticks let an activation expire
while a check that read the clock earlier is under way. Two handlers, three visits
and one tick let a check record a visit while another call ends one. Two processes
started under two identifiers let an identifier be used again; the module starts
twice. With a harmless title (`FewTitles`) only the window loop runs: titles mean
nothing to the app loop.

`extension`: two windows, the first with two tabs, and two URLs, of which the policy
blocks one to begin with. The first window is the last one in front, with another tab
before the one that shows the blocked URL. Three inputs (`MaxInputs`: events,
navigations, loads given up, changes of address or policy, ends of the worker) are
enough for the worker to be ended by Chrome between two events, for two navigations
of one tab to overtake each other, and for a policy to change under a check.
Two requests and
two pages let the child leave, come back and ask again.

The runs named `agent`, `kidcontrol`, `extension` and `direct_approval` do not check
for deadlock: their inputs are bounded, and the systems they model come to rest
when nothing happens or, like a process that has ended, for good.

**Fairness.** `PollingSpec` assumes that time passes, that a call under way takes
its next statement (Go runs every handler), and, for each request, that somebody
looks at it again and again and not every such call is cut off: the blocked page
asks again two seconds after each answer "pending"
(`browser-extension/chrome/blocked_approval.js:64-91`), a poll that failed is
resumed by the child (123-129), and the parent's list reads every pending
request. Strong fairness is needed because an `Abort` or another handler's step
may disable the read in between. Without a reader the request stays pending: the
service has no timer.

`MCAgent`: `SyncFairness` says that `Sync` is called again and again,
which the package leaves to its caller, and that each
fetch and each apply ends; a profile in `Healthy` fails again and again but
not every time, hence strong fairness; nothing is assumed of the other profile.
`Fairness` of `AgentProcess`: the stop timer fires, goroutines run, UI requests are
answered; a component may still never return from `Stop`, and nobody has to ask
the service to stop. `CallFairness` of the bridge is the service's timer only,
and nothing is assumed of the worker; what `Reconnects` needs beyond it (the monitor
asks again, a worker of the child is there and not every dial fails) is its
hypothesis, `BridgeFairness`, and says under which conditions the claim holds.
`MCKidControl`: handlers return and loops run (`MonitorFairness`, `Fairness`); that
a context ends is not assumed. `MCExtension`: of the page only, its timers
fire, `fetch` answers or fails, and a request of the child is settled in the end
because it expires; nothing is assumed of the worker, of which the run claims no
liveness.

## 5. Proofs

Eight modules hold proofs, one for each group of modules that belong together.
Every safety property that a passing run checks is a theorem in one of them, so the run
shows it on a small instance and the theorem for every value of the constants.
The proofs rest on the named assumptions of the modules (lifetimes, limits and
durations are positive, the policies a parent puts are policies, a site or the host of
an address has at least one part, values such as "no decision" or "no tab" are none
of the others) and on the hypotheses that some theorems state, given below.

All have one shape: an inductive invariant (named `...Sound` in most) that the initial
states satisfy, that each action preserves (one lemma or step per action), and
that implies the property. TLC checked these invariants first.

`AccessRequests_proofs` proves, for all sites, devices, identifiers, handlers,
lifetimes and bounds:

* `Soundness`: `Spec => []StaleReadsAreSound`, of which typing (`TypeCorrect`) is a part.
  Typing alone is not inductive: a grant for a request without a row would write
  a rule for no site. The inductive invariant is `StaleReadsAreSound`: types, rows
  consistent with their deadline, and `Grounded`, which says of each handler
  state what of its stale reads is still true. Its proof is in two halves:
  `GroundedStays` (no step of another handler, nor time, can take it away,
  because rows are never removed, creation times never change and the history
  only grows) and one step per action for the handler that moves.
* `Refinement`: `Spec => SettlesOnce`. Each step is mapped to a step of
  `AccessDecision` or a stutter; the invariant supplies the guards (a row about
  to be marked is over, a decision being recorded was granted in time).
* `Survival`: `Spec => ApprovalsSurvive`, from lemmas on the clean-up and on the
  two mutations.
* `PendingIsBounded`: `Spec => []PendingBoundedByHandlers`, if the handlers are
  finitely many (they are open connections). The bound itself is not inductive: a
  handler that has decided to insert could exceed it. `RoomForInserts` adds, for each
  key, the handlers whose insert is still to come to the live requests. One that
  decides to insert has found no live request (`NothingLive`: the newest is over, so
  all are), and then there is room for every handler; each insert uses up its own.

`DirectApproval_proofs` proves, for all codes, limits, lock durations, sites and calls,
first of `ApprovalCode` and then of `DirectApproval`:

* `Tracked` (`AttemptsTracked` is inductive) and from it `AttemptLimit` and
  `LocksJustified`. The guesses before the last lock and those after it are separated
  by at least the lock duration, and fewer than `MaxFailures` came after it, so among
  any `MaxFailures + 1` guesses in a row a lock lies between the first and the last.
* `CallsAreLimited`: `GuessesLimited` and `LocksAreEarned` with concurrent calls. Each
  step of the composition is a step of `ApprovalCode` or leaves its variables
  alone (`CodeStep`), so the theorems about the code carry over.
* `OnlyTheCodeGrants` (`GrantsNeedTheCode`) and `PagesAreToldTheTruth`
  (`AnswersAreTrue`), from `ApprovalSound`: a call past the verification carries a code
  that was right then, also when the parent has set another one since.

`Pairing_proofs` proves, for all customers, devices, codes, identifiers, calls,
lifetimes and lengths of play, first of `Pairing` and then of `PairingAgent`:

* `Sound`: `SessionsSound` is inductive. Types are not enough, and neither is
  uniqueness: a claim adds a proof that must differ from all others
  (`RowsConsistent` bounds them by `claims`), and a new session takes over an
  identifier that must never have been shown (`ShownIsClaimed`). `UpdateSound` is
  the common part of rotation, claim and decision.
* `Registration`: `Spec => RegistersWhatWasShown`, from `Sound`.
* `Refinement`: `Spec => PairsOnce`. A rotation is a stutter because it checks the
  state inside its transaction; an insert is `Open` because the delete of the
  customer's earlier row is in the same transaction.
* `AnswersStayTrue` (`AnswersAreSound`) and `PairedMeansRegistered`
  (`PairedIsRegistered`). `AgentSound` adds to them `SessionsSound` of the service and
  `ConfirmedAreRegistered`, without which a confirmed row that a status call reads
  would say nothing about the registration. The argument is `ServiceStep`: whatever
  the service does to a session (`Follows`) is nothing, a deletion, something before a
  device has claimed it, or the parent's decision. A session that this device holds
  an answer about was claimed, so only the last is left (`OurRowMoves`), and what a
  call has read stays true while it is under way (`HeldStays`).

`PolicySync_proofs` proves, for all profiles, sites, addresses and lengths of play:

* `SyncImplementsReplica`: `SyncSpec => IsReplica`. `SyncSound` says that what is
  acknowledged, what runs and what is stored are in this order (`InOrder`), and that the
  revision about to be applied is newer than the first, not older than the second and
  stored; a fetched revision is the newest there is because a read stores its clean-up
  as the next revision (`StoreGrows`).
* `OnlyApprovedSitesOpen`: `SyncSpec => []OpensOnlyApproved`. `GrantsBack` says of every
  policy a profile ever had that each approval in it was given by the parent, with the
  same end; what runs is one of them (`SyncSound`), however old. That a rule which
  opens an address covers it is `RuleCovers`, about the labels of the host.

`Session_proofs` proves:

* `EnablingWorks` (`EnabledIsInForce`) and `DisablingFreesTheChild`
  (`DisabledChildIsFree`), for all children, workers, commands and faults, under the
  hypothesis that administrators take turns (`\A c, d \in Callers : c = d`). Both need
  it: with two elements in `Callers` TLC violates each, because one call undoes or
  replaces what the other has done (section 6). `InStep` says what a
  call knows of the registry at each step, for example that once it sets the startup
  entry the configuration is the wanted one or there is none.
* `AnswersHold`: `BridgeSpec => []ReportsAreTrue`. `BridgeSound` adds `EndsMatch`, what
  the two ends of the pipe know of each other: an open connection belongs to the call
  under way and, once verified, to the child's worker; the request that the worker
  reads, handles or answers on it is that call's; and a connection without its peer,
  which a deadline leaves behind, never gets one again. That is why an answer to an
  earlier call cannot reach a later one.

`Service_proofs` proves, for any components in any order:

* `ExitCodeIsTrue` (`CleanExit`). `PartsKnown` says that while nothing has failed a
  component that runs is in the list that is stopped in reverse, that past that list
  none runs, and that only a process that was asked to stop gets there.
* `ReportsAsAService`: the initial states and steps of `AgentProcess` are those of
  `ServiceProcess`, or stutters of it: the safety part of `IsServiceProcess`.
* `UninstallWorks`: `ControlSpec => []UninstallStops` when `StopTicks < WaitTicks`, as 30
  seconds are less than 45. This hypothesis is needed: an administrator who polls has
  waited no longer than the service has been stopping (`ControlSound`), and the
  service stops within `StopTicks`. Both hold until others start the service: while
  uninstall waits, which may then take longer, or between its last query and `Delete`,
  which then removes a service whose process goes on. The property excepts these two
  and no other start.
* `AgentTypes`: the types of every part that `MCAgent` puts together.

`KidControl_proofs` proves, for all names, calls, processes, titles and bounds:

* `ChecksFindAProfile` (`ChecksAreAnswered`): the default profile is always there
  (`ProfilesSound`), and what a check resolves to is one of those that are there
  (`ResolveGivesSettings`).
* `VisitsStayAccounted` (`VisitsAccounted`). `MonitorSound` says the same without
  counting (`Placed`): one call is about to audit the visit and it is nowhere else, or
  no call is and it is in exactly one other place; and nobody holds a visit or a time
  that is still to come (`CallsKnown`).
* `TargetsAreActedOnOnce` (`ActsOnce`). A target is noted before it is acted on, and
  what is about to be acted on has not been yet (`AttemptsKnown`); a loop is off once
  `Stop` has waited for it (`LoopsStopped`).
* `KidControlTypes`: the types of the three parts.

`Extension_proofs` proves, for all windows, tabs, addresses and bounds:

* `PagePollsOnce` (`PollsOnce`) and `PageShowsTheTruth` (`ShownIsTrue`), from `PageSound`: a
  poll asks about the request that is pending, its answer stays true unless it was
  "pending", and polling goes on only where the page says that it waits.
* `WorkerFollowsTheTabInFront` (`FollowsTabInFront`). The property speaks of an empty
  queue; the invariant says of any queue that it `Leads` there (`QueueLeads`,
  `FollowedLeads`): the tab is followed already and nothing in the queue changes that,
  or some operation settles it and nothing after that one changes it, or a lookup was
  rejected and nothing has found a tab since.
* `NoBlockedPageStaysInFront` (`NoBlockedPageInFront`): a page in front that no policy has
  allowed is guarded, some operation or navigation that will have it blocked is on its
  way or the blocked page is loading (`PageGuarded`); so is a load of such a page that
  will come in front (`LoadsGuarded`); the memory of checked addresses never holds one.
* `LosingFocusEndsTheVisit` (`FocusLossEndsVisit`), from `VisitIsFollowed`: the daemon has
  a visit only while the worker follows a tab, its first operation is ending one, or
  the visit is one of the exceptions (`unfollowed`).
* `ExtensionTypes`: the types of both parts.

**Only model-checked**: `EveryRequestSettles`, `CatchesUp`, `StopReturns`,
`BlockedAreHandled`, `PollingAnswers`, `Reconnects` and the liveness inside
`IsServiceProcess`, because liveness under fairness is out of the prover's reach. The
runs evaluate every assumption the proofs rest on.

## 6. Where code and its tests or comments disagree

* Two overlapping creates for one device and site both insert a pending request
  (`service/browser_access_request.go:85` and `:115` are separate statements); the
  lifecycle test expects the second to return the first one's identifier
  (`service/browser_access_request_test.go:41-54`). Run `one_pending`.
* `ApproveBrowserAccessRequest` "applies the parent-selected approval and records
  the decision" (`service/browser_access_request.go:177`), but the policy transaction
  commits first and recording may then fail, so the site is open though the
  request is recorded as rejected or expired. Run `applied`.
* After a reset the agent reports "unpaired"
  (`internal/agent/ui_api_test.go:229-257`), but a status call that had copied the
  attempt before the reset sets the state, and possibly `paired`, when its answer
  arrives (`internal/agent/ui_api.go:235-245`). Run `reset_forgets`.

### Noticed, and stated by no run

The models also contain the following, each reachable in the module named. No run
states them, because what they contradict is a summary or nothing at all.

* An expired activation is answered by its fallback once, and by the default profile
  from then on (`internal/modules/kidcontrol/browser_state.go:115`). `BrowserProfiles`.
* A check that was admitted before `Stop` records its visit after it, and nobody
  closes that visit (`internal/modules/kidcontrol/browser_monitor.go:213`).
  `BrowserMonitor`.
* A permanent approval for a profile with a block list is stored and opens nothing
  (`service/browser_approval.go:239`). `BrowserRules`.
* A device unlinked after the link was checked still gets its approval
  (`service/browser_approval.go:69`). `DirectApproval`.
* After a failed parent code the page shows an error and no longer offers to
  resume polling its pending request
  (`browser-extension/chrome/blocked_approval.js:166`). `BlockedPage`.
* The check of a navigation that arrives late, a worker that Chrome has ended in
  the meantime, or a failed call leaves a visit open while the browser is in the
  background (`browser-extension/chrome/navigation.js:70`, `activity.js:23`, `:30`); a late
  answer puts the blocked page over an allowed one (`navigation.js:26`).
  `BrowserExtension`; `FocusLossEndsVisit` excepts the first three.
* The address a tab was last allowed is not checked again when the tab goes there
  once more, not even if a policy has blocked it since, or the blocked page stood
  there in between (`navigation.js:66`). Pages that come to a tab by a server's redirect or
  by changing their own address are not checked either, nor is a load that begins
  behind and comes in front (`navigation.js:62`, `background.js:66`).
  `BrowserExtension`; `NoBlockedPageInFront` excepts the last three, and speaks of no URL
  that a policy has ever allowed.
* A lookup that Chrome rejects is logged and not repeated: the worker follows no tab,
  or another one than is in front, until the next event that finds one
  (`activity.js:62`, `:74`, `:89`, `:115`). `BrowserExtension`; `FollowsTabInFront` and
  `NoBlockedPageInFront` except it.
* A service that others start between uninstall's last query and `Delete` is removed
  while its process runs (`internal/servicecontrol/service_windows.go:74-77`).
  `ServiceControl`; `UninstallStops` excepts it.
* Processes are closed by an identifier that Windows may have given away again, and
  windows by one whose title may have changed
  (`internal/platform/windows/close_windows.go:24`, `window_windows.go:71`).
  `Enforcement`.
* Of two administrators whose calls overlap, one replaces the other's configuration
  (`internal/sessionconfig/manager.go:53`); a call killed between its writes leaves a
  startup that nothing removes (`:63`), or half a configuration that every later call
  refuses (`registry_windows.go:66`). `SessionConfig`, with two `Callers` for the
  first.
* The service may exit while a UI request is being served
  (`internal/agent/ui_api.go:368`). `AgentProcess`.

## 7. Not modelled

* The desktop UI, command-line tools and build scripts: wiring, no state of their own.
* Request decoding, identities and error texts of the HTTP layers, and how clients
  build a request: no state. Lost and failed calls are actions of the callers'
  modules.
* The normalisation of URLs to sites, and of rules (`BrowserRules` starts from parsed
  URLs); the digests of codes and proofs; frame lengths and JSON of the bridge.
* Profile and device creation, `DeletePairingSession` and the migrations: nothing
  runs beside them that depends on them, or no program calls them.
* Parsing of policy files: reading a policy succeeds or fails (`AgentProcess`).
  Audit logs are output.
* The screen monitor, screen capture, the classifier and the mock data are stubs; the
  first is only started and stopped. The agent's interactive mode, which stops at
  Ctrl-C without a time-out, and `servicecontrol`'s status are left out.

No program under `cmd/` constructs the policy synchroniser or the browser
approval API of the agent yet, and only tests call `ActivateBrowserProfile`:
`PolicySync`, `DirectApproval` and part of `BrowserProfiles` model what the packages
do for a caller that follows their comments.
