--------------------------- MODULE BrowserMonitor ---------------------------
(***************************************************************************)
(* The visits that the browser monitor tracks                              *)
(* (internal/modules/kidcontrol/browser_monitor.go).                       *)
(*                                                                         *)
(* Handlers of the localhost API check URLs and end visits concurrently,   *)
(* and the module stops the monitor once: a monitor is made for each start *)
(* of the module.  A check reads the clock, tests under mu that the        *)
(* monitor runs, evaluates the URL without mu, and takes mu again to       *)
(* record the visit.  Whoever takes the current visit out audits it after  *)
(* releasing mu.  How a URL is judged is BrowserProfiles and BrowserRules; *)
(* here any profile and any verdict may come out of it.                    *)
(***************************************************************************)
EXTENDS Integers, FiniteSets

CONSTANTS Urls, Profiles,
          Calls,      \* concurrent handlers
          MaxVisits,  \* bound on the visits recorded
          MaxTime     \* bound on the clock

ASSUME MonitorAssumption == MaxVisits \in Nat /\ MaxTime \in Nat

VARIABLES now,
          running,  \* the flag of the monitor
          current,  \* the current visit
          calls,    \* calls[c]: where a handler is and what it holds
          stop,     \* the call of Stop
          made,     \* visits recorded so far; a visit is told apart by its number
          audited,  \* durations of the visits audited, by number
          lost      \* visits that nobody will audit any more

monitorVars == <<now, running, current, calls, stop, made, audited, lost>>

Visit == [id : Nat \ {0}, url : Urls, profile : Profiles, startedAt : Nat]
NoVisit == [id |-> 0]

Idle == [step |-> "idle"]
Call == {Idle}
          \cup [step : {"check", "admitted"}, url : Urls, at : Nat]
          \cup [step : {"allowed"}, url : Urls, profile : Profiles, at : Nat]
          \cup [step : {"end"}, at : Nat]
          \cup [step : {"audit"}, visit : Visit, at : Nat]

\* Stop holds the visit it took out; locked says that it still holds mu.
MonitorStopping == [step : {"shutdown"}, visit : Visit \cup {NoVisit}, at : Nat, locked : BOOLEAN]
NotStopping == [step |-> "no", locked |-> FALSE]
Stopped == [step |-> "done", locked |-> FALSE]
StopFailed == [step |-> "failed", locked |-> FALSE]

GotoCall(c, o) == calls' = [calls EXCEPT ![c] = o]
Unlocked == ~stop.locked

MonitorInit ==
    /\ now = 0
    /\ running = FALSE
    /\ current = NoVisit
    /\ calls = [c \in Calls |-> Idle]
    /\ stop = NotStopping
    /\ made = 0
    /\ audited = [v \in {} |-> 0]
    /\ lost = {}

-----------------------------------------------------------------------------
\* A failure to listen leaves the monitor as it was.
StartMonitor ==
    /\ ~running /\ stop = NotStopping
    /\ running' = TRUE
    /\ UNCHANGED <<now, current, calls, stop, made, audited, lost>>

\* The visits that the checks under way may still record.
Checking == {c \in Calls : calls[c].step \in {"check", "admitted", "allowed"}}

\* The server accepts requests until Stop takes it away.
ArriveCheck(c, url) ==
    /\ running /\ calls[c] = Idle
    /\ made + Cardinality(Checking) < MaxVisits
    /\ GotoCall(c, [step |-> "check", url |-> url, at |-> now])
    /\ UNCHANGED <<now, running, current, stop, made, audited, lost>>

ArriveEnd(c) ==
    /\ running /\ calls[c] = Idle
    /\ GotoCall(c, [step |-> "end", at |-> now])
    /\ UNCHANGED <<now, running, current, stop, made, audited, lost>>

\* The first critical section of a check.
Admit(c) ==
    /\ calls[c].step = "check" /\ Unlocked
    /\ GotoCall(c, IF running THEN [calls[c] EXCEPT !.step = "admitted"] ELSE Idle)
    /\ UNCHANGED <<now, running, current, stop, made, audited, lost>>

\* CheckBrowserURL: an error or a blocked URL, which is audited at once and
\* leaves the current visit alone, or an allowed one.
Refuse(c) ==
    /\ calls[c].step = "admitted"
    /\ GotoCall(c, Idle)
    /\ UNCHANGED <<now, running, current, stop, made, audited, lost>>

Allow(c, profile) ==
    /\ calls[c].step = "admitted"
    /\ GotoCall(c, [step |-> "allowed", url |-> calls[c].url, profile |-> profile,
                    at |-> calls[c].at])
    /\ UNCHANGED <<now, running, current, stop, made, audited, lost>>

SameVisit(c) ==
    current # NoVisit /\ current.url = calls[c].url /\ current.profile = calls[c].profile

\* Whoever takes a visit out goes on to audit it, if there is one.
Taking(c, visit) ==
    GotoCall(c, IF visit = NoVisit THEN Idle
                ELSE [step |-> "audit", visit |-> visit, at |-> calls[c].at])

\* The second critical section of a check.  It does not test running again.
RecordSame(c) ==
    /\ calls[c].step = "allowed" /\ Unlocked
    /\ SameVisit(c)
    /\ GotoCall(c, Idle)
    /\ UNCHANGED <<now, running, current, stop, made, audited, lost>>

\* Slip: the visit that is left is not audited.
RecordForgetting(c) ==
    /\ calls[c].step = "allowed" /\ Unlocked
    /\ ~SameVisit(c)
    /\ made' = made + 1
    /\ current' = [id |-> made + 1, url |-> calls[c].url, profile |-> calls[c].profile,
                   startedAt |-> calls[c].at]
    /\ GotoCall(c, Idle)
    /\ UNCHANGED <<now, running, stop, audited, lost>>

RecordNew(c) ==
    /\ calls[c].step = "allowed" /\ Unlocked
    /\ ~SameVisit(c)
    /\ made' = made + 1
    /\ current' = [id |-> made + 1, url |-> calls[c].url, profile |-> calls[c].profile,
                   startedAt |-> calls[c].at]
    /\ Taking(c, current)
    /\ UNCHANGED <<now, running, stop, audited, lost>>

EndVisit(c) ==
    /\ calls[c].step = "end" /\ Unlocked
    /\ IF running
       THEN current' = NoVisit /\ Taking(c, current)
       ELSE GotoCall(c, Idle) /\ UNCHANGED current
    /\ UNCHANGED <<now, running, stop, made, audited, lost>>

Elapsed(visit, at) == IF at < visit.startedAt THEN 0 ELSE at - visit.startedAt

\* auditVisit
Audited(visit, at) ==
    [v \in DOMAIN audited \cup {visit.id} |->
        IF v = visit.id THEN Elapsed(visit, at) ELSE audited[v]]

Audit(c) ==
    /\ calls[c].step = "audit"
    /\ audited' = Audited(calls[c].visit, calls[c].at)
    /\ GotoCall(c, Idle)
    /\ UNCHANGED <<now, running, current, stop, made, lost>>

-----------------------------------------------------------------------------
\* Slip: mu is released only after the server has shut down.
StopHoldingMu ==
    /\ running /\ stop = NotStopping
    /\ running' = FALSE
    /\ current' = NoVisit
    /\ stop' = [step |-> "shutdown", visit |-> current, at |-> now, locked |-> TRUE]
    /\ UNCHANGED <<now, calls, made, audited, lost>>

StopMonitor ==
    /\ running /\ stop = NotStopping
    /\ running' = FALSE
    /\ current' = NoVisit
    /\ stop' = [step |-> "shutdown", visit |-> current, at |-> now, locked |-> FALSE]
    /\ UNCHANGED <<now, calls, made, audited, lost>>

\* server.Shutdown returns when every handler has; then the visit is audited.
Shutdown ==
    /\ stop.step = "shutdown"
    /\ \A c \in Calls : calls[c] = Idle
    /\ stop' = Stopped
    /\ audited' = IF stop.visit = NoVisit THEN audited ELSE Audited(stop.visit, stop.at)
    /\ UNCHANGED <<now, running, current, calls, made, lost>>

\* The context of Stop ends while handlers are at work.
ShutdownFails ==
    /\ stop.step = "shutdown"
    /\ \E c \in Calls : calls[c] # Idle
    /\ stop' = StopFailed
    /\ lost' = lost \cup ({stop.visit.id} \ {0})
    /\ UNCHANGED <<now, running, current, calls, made, audited>>

Tick ==
    /\ now < MaxTime
    /\ now' = now + 1
    /\ UNCHANGED <<running, current, calls, stop, made, audited, lost>>

-----------------------------------------------------------------------------
Step(c) ==
    \/ Admit(c) \/ Refuse(c) \/ RecordSame(c) \/ RecordNew(c) \/ EndVisit(c) \/ Audit(c)
    \/ \E profile \in Profiles : Allow(c, profile)

MonitorNext ==
    \/ StartMonitor \/ StopMonitor \/ Shutdown \/ ShutdownFails \/ Tick
    \/ \E c \in Calls : \/ ArriveEnd(c) \/ Step(c)
                        \/ \E url \in Urls : ArriveCheck(c, url)

MonitorSpec == MonitorInit /\ [][MonitorNext]_monitorVars

\* The goroutines of the server run until their handlers return.  That the
\* context of Stop ends is not assumed: the program stops its modules with one
\* that never does.
MonitorFairness ==
    /\ WF_monitorVars(Shutdown)
    /\ \A c \in Calls : WF_monitorVars(Step(c))

-----------------------------------------------------------------------------
MonitorTypeOK ==
    /\ now \in Nat /\ made \in Nat /\ running \in BOOLEAN
    /\ current \in Visit \cup {NoVisit}
    /\ calls \in [Calls -> Call]
    /\ stop \in MonitorStopping \cup {NotStopping, Stopped, StopFailed}
    /\ DOMAIN audited \subseteq 1..made
    /\ \A v \in DOMAIN audited : audited[v] \in 0..now
    /\ lost \subseteq 1..made

\* Every visit recorded is in one place: it is the current one, or one call
\* is about to audit it, or it was audited, or it was lost by a Stop that
\* failed.  None is forgotten and none is audited twice.
Holders(v) ==
    {c \in Calls : calls[c].step = "audit" /\ calls[c].visit.id = v}

VisitsAccounted ==
    \A v \in 1..made :
        Cardinality(Holders(v))
          + (IF current.id = v THEN 1 ELSE 0)
          + (IF stop.step = "shutdown" /\ stop.visit.id = v THEN 1 ELSE 0)
          + (IF v \in DOMAIN audited THEN 1 ELSE 0)
          + (IF v \in lost THEN 1 ELSE 0) = 1

\* Stopping the monitor waits for its handlers, and none of them waits for it:
\* Stop returns although its context may never end (browser_monitor.go:91-116).
StopReturns == stop.step = "shutdown" ~> stop.step # "shutdown"
=============================================================================
