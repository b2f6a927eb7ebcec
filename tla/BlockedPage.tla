----------------------------- MODULE BlockedPage -----------------------------
(***************************************************************************)
(* The page a child sees instead of a blocked site: the controller of      *)
(* browser-extension/chrome/blocked_approval.js, the buttons of blocked.js *)
(* and their calls through the agent (internal/agent/                      *)
(* browser_approval_api.go) to the service, whose access requests are kept *)
(* as small as the page can tell them apart.                               *)
(*                                                                         *)
(* The controller runs to completion between two awaits, so each callback  *)
(* and each answer is one step.  A call takes three: it is sent, it is     *)
(* served or fails, and its answer is delivered, while timers fire, the    *)
(* parent decides, the request expires and the child leaves the page.      *)
(***************************************************************************)
EXTENDS Naturals, Sequences, SequencesExt

CONSTANTS MaxRequests,   \* bound on the access requests of the page's site
          MaxPages       \* bound on the times the child is sent to the page

ASSUME BoundsAssumption == MaxRequests \in Nat \ {0} /\ MaxPages \in Nat \ {0}

VARIABLES page,      \* the controller and what it last rendered
          call,      \* the createRequest or approveDirect under way
          polls,     \* the requestStatus calls under way
          requests,  \* the service's requests of this site, oldest first
          opened,    \* history: a direct approval has been granted
          pages      \* pages shown so far

pageVars == <<page, call, polls, requests, opened, pages>>

NoRequest == 0
NoCall == [kind |-> "none", answer |-> "none", id |-> NoRequest]

Ids == 1 .. MaxRequests
States == {"pending", "approved", "rejected", "cancelled", "expired"}
Statuses == {"idle", "requesting", "waiting", "approved", "rejected", "expired", "error",
             "parent-submitting", "parent-error"}

\* timer: a poll is scheduled.  asked is history: the last request polled.
Page == [stopped : BOOLEAN, submitting : BOOLEAN, pendingRequestID : Ids \cup {NoRequest},
         timer : BOOLEAN, status : Statuses, canResume : BOOLEAN, navigates : BOOLEAN,
         asked : Ids \cup {NoRequest}]

NewPage == [stopped |-> FALSE, submitting |-> FALSE, pendingRequestID |-> NoRequest,
            timer |-> FALSE, status |-> "idle", canResume |-> FALSE, navigates |-> FALSE,
            asked |-> NoRequest]

Call == {NoCall} \cup [kind : {"create", "direct"}, answer : {"sent", "served", "failed"},
                       id : Ids \cup {NoRequest}]
Poll == [id : Ids, answer : {"sent", "failed"} \cup States]

PageInit ==
    /\ page = NewPage
    /\ call = NoCall
    /\ polls = <<>>
    /\ requests = <<>>
    /\ opened = FALSE
    /\ pages = 1

-----------------------------------------------------------------------------
(* The controller, as functions of its state                               *)

\* Slip: the resume button is never hidden again.
ShowKeepingResume(p, status) == [p EXCEPT !.status = status]

\* Rendering without canResume hides the resume button.
Show(p, status) == [p EXCEPT !.status = status, !.canResume = FALSE]

RetryOriginalURL(p) == IF p.stopped THEN p ELSE [p EXCEPT !.navigates = TRUE]

\* clearPoll leaves at most one timer.
SchedulePoll(p) == IF p.stopped \/ p.pendingRequestID = NoRequest THEN p
                   ELSE [p EXCEPT !.timer = TRUE]

\* Slip: a request that is still pending is not polled again.
HandlePendingOnce(p, state) ==
    LET over == [p EXCEPT !.pendingRequestID = NoRequest]
    IN  CASE state = "pending" -> Show(p, "waiting")
          [] state = "approved" -> RetryOriginalURL(Show(over, "approved"))
          [] state \in {"rejected", "cancelled"} -> Show(over, "rejected")
          [] state = "expired" -> Show(over, "expired")

\* Slip: an expired request is shown as one the parent did not approve.
HandleExpiredAsRejected(p, state) ==
    LET over == [p EXCEPT !.pendingRequestID = NoRequest]
    IN  CASE state = "pending" -> SchedulePoll(Show(p, "waiting"))
          [] state = "approved" -> RetryOriginalURL(Show(over, "approved"))
          [] OTHER -> Show(over, "rejected")

\* Slip: the service's states are shown as they are, "cancelled" among them.
HandleShowingState(p, state) ==
    LET over == [p EXCEPT !.pendingRequestID = NoRequest]
    IN  CASE state = "pending" -> SchedulePoll(Show(p, "waiting"))
          [] state = "approved" -> RetryOriginalURL(Show(over, "approved"))
          [] OTHER -> Show(over, state)

HandleRequestState(p, state) ==
    LET over == [p EXCEPT !.pendingRequestID = NoRequest]
    IN  CASE state = "pending" -> SchedulePoll(Show(p, "waiting"))
          [] state = "approved" -> RetryOriginalURL(Show(over, "approved"))
          [] state \in {"rejected", "cancelled"} -> Show(over, "rejected")
          [] state = "expired" -> Show(over, "expired")

-----------------------------------------------------------------------------
(* The child and the parent at the device                                  *)

Send(kind) == [kind |-> kind, answer |-> "sent", id |-> NoRequest]

\* The button is disabled while a call or a request is pending.
AskParent ==
    /\ ~page.stopped /\ ~page.submitting /\ page.pendingRequestID = NoRequest
    /\ page' = Show([page EXCEPT !.submitting = TRUE], "requesting")
    /\ call' = Send("create")
    /\ UNCHANGED <<polls, requests, opened, pages>>

ResumePolling ==
    /\ page.canResume /\ ~page.stopped /\ page.pendingRequestID # NoRequest
    /\ page' = SchedulePoll(Show(page, "waiting"))
    /\ UNCHANGED <<call, polls, requests, opened, pages>>

\* A form that is not filled in is answered without a call.
SubmitIncomplete ==
    /\ ~page.stopped /\ ~page.submitting
    /\ page' = Show(page, "parent-error")
    /\ UNCHANGED <<call, polls, requests, opened, pages>>

ApproveParent ==
    /\ ~page.stopped /\ ~page.submitting
    /\ page' = Show([page EXCEPT !.submitting = TRUE], "parent-submitting")
    /\ call' = Send("direct")
    /\ UNCHANGED <<polls, requests, opened, pages>>

\* pagehide: the page is left, by navigating or by the child.
PageHide ==
    /\ ~page.stopped
    /\ page' = [page EXCEPT !.stopped = TRUE, !.timer = FALSE]
    /\ UNCHANGED <<call, polls, requests, opened, pages>>

\* The site is blocked again; the calls of the old page went with it.
ShowPage ==
    /\ page.stopped /\ pages < MaxPages
    /\ page' = NewPage /\ call' = NoCall /\ polls' = <<>>
    /\ pages' = pages + 1
    /\ UNCHANGED <<requests, opened>>

-----------------------------------------------------------------------------
(* Timers and answers                                                      *)

\* poll(): a timer fires only while the page is shown.
FirePoll ==
    /\ page.timer
    /\ page' = [page EXCEPT !.timer = FALSE, !.asked = page.pendingRequestID]
    /\ polls' = IF page.pendingRequestID = NoRequest THEN polls
                ELSE Append(polls, [id |-> page.pendingRequestID, answer |-> "sent"])
    /\ UNCHANGED <<call, requests, opened, pages>>

PollAnswered(i) ==
    /\ polls[i].answer \in States
    /\ page' = IF page.stopped THEN page ELSE HandleRequestState(page, polls[i].answer)
    /\ polls' = RemoveAt(polls, i)
    /\ UNCHANGED <<call, requests, opened, pages>>

PollFailed(i) ==
    /\ polls[i].answer = "failed"
    /\ page' = IF page.stopped THEN page
               ELSE [Show(page, "error") EXCEPT !.canResume = TRUE]
    /\ polls' = RemoveAt(polls, i)
    /\ UNCHANGED <<call, requests, opened, pages>>

\* A created request, new or found, is pending.
Created ==
    /\ call.kind = "create" /\ call.answer = "served"
    /\ page' = HandleRequestState([page EXCEPT !.submitting = FALSE,
                                               !.pendingRequestID = call.id], "pending")
    /\ call' = NoCall
    /\ UNCHANGED <<polls, requests, opened, pages>>

CreateFailed ==
    /\ call.kind = "create" /\ call.answer = "failed"
    /\ page' = Show([page EXCEPT !.submitting = FALSE, !.pendingRequestID = NoRequest], "error")
    /\ call' = NoCall
    /\ UNCHANGED <<polls, requests, opened, pages>>

DirectApproved ==
    /\ call.kind = "direct" /\ call.answer = "served"
    /\ page' = RetryOriginalURL(Show([page EXCEPT !.submitting = FALSE], "approved"))
    /\ call' = NoCall
    /\ UNCHANGED <<polls, requests, opened, pages>>

DirectFailed ==
    /\ call.kind = "direct" /\ call.answer = "failed"
    /\ page' = Show([page EXCEPT !.submitting = FALSE], "parent-error")
    /\ call' = NoCall
    /\ UNCHANGED <<polls, requests, opened, pages>>

-----------------------------------------------------------------------------
(* The agent and the service                                               *)

OpenRequests == {r \in Ids : r <= Len(requests) /\ requests[r] = "pending"}

\* A request that is pending is given again instead of a second one.
ServeCreate ==
    /\ call = Send("create")
    /\ IF OpenRequests # {}
       THEN /\ \E r \in OpenRequests : call' = [call EXCEPT !.answer = "served", !.id = r]
            /\ UNCHANGED requests
       ELSE /\ Len(requests) < MaxRequests
            /\ requests' = Append(requests, "pending")
            /\ call' = [call EXCEPT !.answer = "served", !.id = Len(requests')]
    /\ UNCHANGED <<page, polls, opened, pages>>

\* The service checks the link and the code before it grants.
ServeDirect ==
    /\ call = Send("direct")
    /\ opened' = TRUE
    /\ call' = [call EXCEPT !.answer = "served"]
    /\ UNCHANGED <<page, polls, requests, pages>>

ServePoll(i) ==
    /\ polls[i].answer = "sent"
    /\ polls' = [polls EXCEPT ![i].answer = requests[polls[i].id]]
    /\ UNCHANGED <<page, call, requests, opened, pages>>

\* Refused, or the answer is lost, before or after the service acted on it.
CallFails ==
    /\ call # NoCall
    /\ call' = [call EXCEPT !.answer = "failed"]
    /\ UNCHANGED <<page, polls, requests, opened, pages>>

PollFails(i) ==
    /\ polls' = [polls EXCEPT ![i].answer = "failed"]
    /\ UNCHANGED <<page, call, requests, opened, pages>>

\* The parent decides or cancels elsewhere, or the request expires.
Settle(r, state) ==
    /\ r \in OpenRequests
    /\ requests' = [requests EXCEPT ![r] = state]
    /\ UNCHANGED <<page, call, polls, opened, pages>>

-----------------------------------------------------------------------------
PollStep(i) == ServePoll(i) \/ PollAnswered(i) \/ PollFailed(i)

PageNext ==
    \/ AskParent \/ ResumePolling \/ SubmitIncomplete \/ ApproveParent
    \/ PageHide \/ ShowPage
    \/ FirePoll
    \/ \E i \in DOMAIN polls : PollStep(i) \/ PollFails(i)
    \/ Created \/ CreateFailed \/ DirectApproved \/ DirectFailed
    \/ ServeCreate \/ ServeDirect \/ CallFails
    \/ \E r \in Ids, state \in States \ {"pending"} : Settle(r, state)

PageSpec == PageInit /\ [][PageNext]_pageVars

\* Timers fire, calls are answered or fail, and every request expires in the end.
PageFairness ==
    /\ WF_pageVars(FirePoll)
    /\ WF_pageVars(\E i \in DOMAIN polls : PollStep(i))
    /\ \A r \in Ids : WF_pageVars(Settle(r, "expired"))

-----------------------------------------------------------------------------
PageTypeOK ==
    /\ page \in Page
    /\ call \in Call
    /\ polls \in Seq(Poll)
    /\ requests \in Seq(States)
    /\ opened \in BOOLEAN
    /\ pages \in 1 .. MaxPages

Polling == page.timer \/ polls # <<>>

\* A page that says it waits for the parent does poll, and no page polls twice
\* at once, whatever the mix of asking, resuming, approving and failing
\* (blocked_approval.js:64-129, blocked.js:56-59).
PollsOnce ==
    /\ Len(polls) + (IF page.timer THEN 1 ELSE 0) <= 1
    /\ page.status = "waiting" /\ ~page.stopped => Polling

StateOf(r) == IF r = NoRequest THEN "none" ELSE requests[r]

\* What the child reads is what happened: access was approved by one of the
\* two ways, and a refusal or an expiry is that of the request polled last
\* (blocked_approval.js:39-62, :160-162).
ShownIsTrue ==
    /\ page.status = "approved" => opened \/ \E r \in DOMAIN requests : requests[r] = "approved"
    /\ page.status = "rejected" => StateOf(page.asked) \in {"rejected", "cancelled"}
    /\ page.status = "expired" => StateOf(page.asked) = "expired"

\* Polling ends in something the child can read: an answer, or an error.
PollingAnswers ==
    (Polling \/ page.status = "waiting") ~>
        (page.status \in {"approved", "rejected", "expired", "error"} \/ page.stopped)
=============================================================================
