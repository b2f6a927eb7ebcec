-------------------------- MODULE Extension_proofs --------------------------
(***************************************************************************)
(* Proofs about the Chrome extension, for all windows, tabs, URLs and      *)
(* bounds: what the blocked page shows is true and it never polls twice    *)
(* (BlockedPage), and where the service worker ends up after its events    *)
(* (BrowserExtension).                                                     *)
(***************************************************************************)
EXTENDS MCExtension, SequenceTheorems, TLAPS

-----------------------------------------------------------------------------
(* The blocked page                                                        *)

\* What the page holds of its calls.  A create is under way only while no
\* request is pending; what has been served has happened.
CallKnown ==
    /\ call # NoCall => page.submitting
    /\ call.kind = "create" => page.pendingRequestID = NoRequest
    /\ call.kind = "create" /\ call.answer = "served" => call.id \in DOMAIN requests
    /\ call.kind = "direct" /\ call.answer = "served" => opened

\* A poll asks about the pending request, and its answer stays true unless it
\* said "pending".
PollKnown ==
    polls # <<>> =>
        /\ polls[1].id = page.asked /\ polls[1].id = page.pendingRequestID
        /\ polls[1].answer \in States \ {"pending"} => requests[polls[1].id] = polls[1].answer

\* Polling begins only where the page says that it waits.
PollingKnown ==
    /\ page.asked \in {NoRequest} \cup DOMAIN requests
    /\ page.pendingRequestID \in {NoRequest} \cup DOMAIN requests
    /\ Polling => /\ page.pendingRequestID # NoRequest
                  /\ ~page.canResume /\ page.status \notin {"rejected", "expired"}

PageSound == PageTypeOK /\ PollsOnce /\ ShownIsTrue /\ CallKnown /\ PollKnown /\ PollingKnown

\* The parts that a step of the page disturbs.
LEMMA PageParts ==
    ASSUME PageSound
    PROVE  /\ page \in Page /\ call \in Call /\ polls \in Seq(Poll) /\ requests \in Seq(States)
           /\ Len(polls) \in Nat /\ Len(requests) \in Nat
           /\ DOMAIN polls = 1 .. Len(polls) /\ DOMAIN requests = 1 .. Len(requests)
           /\ polls # <<>> => DOMAIN polls = {1} /\ Len(polls) = 1 /\ ~page.timer
                              /\ polls[1] \in Poll
           /\ \A r \in DOMAIN requests : requests[r] \in States
<1>1. page \in Page /\ call \in Call /\ polls \in Seq(Poll) /\ requests \in Seq(States)
  BY DEF PageSound, PageTypeOK
<1>2. /\ Len(polls) \in Nat /\ Len(requests) \in Nat
      /\ DOMAIN polls = 1 .. Len(polls) /\ DOMAIN requests = 1 .. Len(requests)
      /\ polls # <<>> => Len(polls) # 0
      /\ \A i \in DOMAIN polls : polls[i] \in Poll
      /\ \A r \in DOMAIN requests : requests[r] \in States
  BY <1>1
<1>3. Len(polls) + (IF page.timer THEN 1 ELSE 0) <= 1
  BY DEF PageSound, PollsOnce
<1>4. page.timer \in BOOLEAN
  BY <1>1 DEF Page
<1>5. polls # <<>> => Len(polls) = 1 /\ ~page.timer
  BY <1>2, <1>3, <1>4
<1> QED
  BY <1>1, <1>2, <1>5

\* The poll under way is the only one, and no timer runs beside it.
LEMMA OnePollLeft ==
    ASSUME PageSound, NEW i \in DOMAIN polls
    PROVE  /\ i = 1 /\ RemoveAt(polls, i) = <<>> /\ polls # <<>>
           /\ polls[1] \in Poll /\ ~page.timer
<1>1. polls # <<>>
  BY PageParts
<1>2. i = 1 /\ Len(polls) = 1 /\ polls[1] \in Poll /\ ~page.timer
  BY <1>1, PageParts
<1>3. SubSeq(polls, 1, 0) = <<>> /\ SubSeq(polls, 2, 1) = <<>>
  BY PageParts
<1> QED
  BY <1>1, <1>2, <1>3 DEF RemoveAt

\* The initial state is sound.
LEMMA PageInitSound == PageInit => PageSound
<1> SUFFICES ASSUME PageInit PROVE PageSound
  OBVIOUS
<1>1. /\ page = NewPage /\ call = NoCall /\ polls = <<>> /\ requests = <<>>
      /\ opened = FALSE /\ pages = 1
  BY DEF PageInit
<1>2. NewPage \in Page /\ NoCall \in Call
  BY DEF NewPage, Page, NoRequest, Statuses, Call
<1>3. PageTypeOK
  <2>1. polls \in Seq(Poll) /\ requests \in Seq(States)
    BY <1>1, EmptySeq
  <2>2. pages \in 1 .. MaxPages
    BY <1>1, BoundsAssumption
  <2> QED
    BY <1>1, <1>2, <2>1, <2>2 DEF PageTypeOK
<1>4. PollsOnce /\ ShownIsTrue /\ CallKnown /\ PollKnown /\ PollingKnown
  BY <1>1 DEF NewPage, NoCall, PollsOnce, ShownIsTrue, CallKnown, PollKnown, PollingKnown,
              Polling, StateOf
<1> QED
  BY <1>3, <1>4 DEF PageSound

\* The child presses a button, or leaves.
LEMMA ButtonsSound ==
    ASSUME PageSound,
           AskParent \/ ResumePolling \/ SubmitIncomplete \/ ApproveParent \/ PageHide
    PROVE  PageSound'
<1> USE DEF PageSound, PageTypeOK, PollsOnce, ShownIsTrue, CallKnown, PollKnown, PollingKnown,
            Polling, StateOf, Page, Statuses
<1>0. Len(polls) \in Nat /\ (polls # <<>> => Len(polls) = 1 /\ ~page.timer)
      /\ (polls = <<>> => Len(polls) = 0)
  BY PageParts
<1>1. CASE AskParent
  BY <1>1 DEF AskParent, Show, Send, Call, NoCall
<1>2. CASE ResumePolling
  <2>1. /\ page' = [page EXCEPT !.status = "waiting", !.canResume = FALSE, !.timer = TRUE]
        /\ page.canResume /\ page.pendingRequestID # NoRequest
        /\ UNCHANGED <<call, polls, requests, opened, pages>>
    BY <1>2 DEF ResumePolling, SchedulePoll, Show
  <2>2. polls = <<>> /\ ~page.timer
    BY <1>0, <2>1
  <2>3. page' \in Page
    BY <2>1
  <2> QED
    BY <1>0, <2>1, <2>2, <2>3
<1>3. CASE SubmitIncomplete
  BY <1>3 DEF SubmitIncomplete, Show
<1>4. CASE ApproveParent
  BY <1>4 DEF ApproveParent, Show, Send, Call, NoCall
<1>5. CASE PageHide
  <2>1. /\ page' = [page EXCEPT !.stopped = TRUE, !.timer = FALSE]
        /\ UNCHANGED <<call, polls, requests, opened, pages>>
    BY <1>5 DEF PageHide
  <2>2. page' \in Page /\ page.timer \in BOOLEAN
    BY <2>1
  <2> QED
    BY <1>0, <2>1, <2>2
<1> QED
  BY <1>1, <1>2, <1>3, <1>4, <1>5

\* Leaving for another page starts over, with no poll and no timer.
LEMMA PageShownSound ==
    ASSUME PageSound, ShowPage
    PROVE  PageSound'
<1>1. /\ page' = NewPage /\ call' = NoCall /\ polls' = <<>> /\ pages' = pages + 1
      /\ requests' = requests /\ opened' = opened /\ pages < MaxPages
  BY DEF ShowPage
<1>2. NewPage \in Page /\ NoCall \in Call
  BY DEF NewPage, Page, NoRequest, Statuses, Call
<1>3. PageTypeOK'
  <2>1. pages' \in 1 .. MaxPages
    BY <1>1, BoundsAssumption DEF PageSound, PageTypeOK
  <2> QED
    BY <1>1, <1>2, <2>1, EmptySeq DEF PageSound, PageTypeOK
<1>4. (PollsOnce /\ ShownIsTrue /\ CallKnown /\ PollKnown /\ PollingKnown)'
  BY <1>1 DEF NewPage, NoCall, PollsOnce, ShownIsTrue, CallKnown, PollKnown, PollingKnown,
              Polling, StateOf
<1> QED
  BY <1>3, <1>4 DEF PageSound

\* The timer becomes the poll: there is one of the two.
LEMMA FirePollSound ==
    ASSUME PageSound, FirePoll
    PROVE  PageSound'
<1> DEFINE p == [id |-> page.pendingRequestID, answer |-> "sent"]
<1>1. /\ page.timer /\ polls = <<>> /\ page.pendingRequestID # NoRequest
      /\ page.pendingRequestID \in DOMAIN requests /\ page \in Page
  BY PageParts DEF FirePoll, PageSound, PollingKnown, Polling
<1>2. /\ page' = [page EXCEPT !.timer = FALSE, !.asked = page.pendingRequestID]
      /\ polls' = Append(polls, p)
      /\ UNCHANGED <<call, requests, opened, pages>>
  BY <1>1 DEF FirePoll
<1>3. p \in Poll /\ page' \in Page
  BY <1>1, <1>2 DEF Poll, Page
<1>4. polls' = <<p>> /\ polls' \in Seq(Poll) /\ Len(polls') = 1 /\ polls'[1] = p /\ polls' # <<>>
  BY <1>1, <1>2, <1>3
<1>5. PageTypeOK'
  BY <1>2, <1>3, <1>4 DEF PageSound, PageTypeOK
<1>6. page.status \notin {"rejected", "expired"} /\ ~page.canResume
  BY <1>1 DEF PageSound, PollingKnown, Polling
<1>7. (PollsOnce /\ PollKnown /\ PollingKnown)'
  BY <1>1, <1>2, <1>3, <1>4, <1>6
  DEF PollsOnce, PollKnown, PollingKnown, Polling, States, Page, p
<1>8. (ShownIsTrue /\ CallKnown)'
  BY <1>1, <1>2, <1>6 DEF PageSound, ShownIsTrue, CallKnown, Page, StateOf
<1> QED
  BY <1>5, <1>7, <1>8 DEF PageSound

\* The page has been answered, and nothing asks any more.
LEMMA AnswersSound ==
    ASSUME PageSound, NEW i \in DOMAIN polls, PollAnswered(i) \/ PollFailed(i)
    PROVE  PageSound'
<1>1. /\ i = 1 /\ polls' = <<>> /\ polls # <<>> /\ polls[1] \in Poll /\ ~page.timer
      /\ UNCHANGED <<call, requests, opened, pages>>
  BY OnePollLeft DEF PollAnswered, PollFailed
<1>2. /\ page \in Page /\ page.pendingRequestID # NoRequest
      /\ polls[1].id = page.asked /\ polls[1].id = page.pendingRequestID
      /\ page.asked \in DOMAIN requests /\ ~page.canResume
  BY <1>1, PageParts DEF PageSound, PollKnown, PollingKnown, Polling, NoRequest
<1>3. polls' \in Seq(Poll) /\ Len(polls') = 0
  BY <1>1, EmptySeq
<1>4. ASSUME page' \in Page, page'.submitting = page.submitting,
             page'.pendingRequestID \in {page.pendingRequestID, NoRequest},
             PollsOnce', ShownIsTrue', PollingKnown'
      PROVE  PageSound'
  <2>1. PageTypeOK'
    BY <1>1, <1>3, <1>4 DEF PageSound, PageTypeOK
  <2>2. CallKnown' /\ PollKnown'
    BY <1>1, <1>4 DEF PageSound, CallKnown, PollKnown
  <2> QED
    BY <1>4, <2>1, <2>2 DEF PageSound
<1> USE DEF Page, Statuses
<1>5. CASE page.stopped
  <2>1. page' = page
    BY <1>5 DEF PollAnswered, PollFailed
  <2>2. PollsOnce'
    BY <1>1, <1>3, <1>5, <2>1 DEF PollsOnce, Polling
  <2>3. PollingKnown'
    BY <1>1, <1>2, <2>1 DEF PageSound, PollingKnown, Polling
  <2>4. ShownIsTrue'
    BY <1>1, <2>1 DEF PageSound, ShownIsTrue, StateOf
  <2> QED
    BY <1>2, <1>4, <2>1, <2>2, <2>3, <2>4
<1>6. CASE ~page.stopped /\ PollFailed(i)
  <2>1. page' = [page EXCEPT !.status = "error", !.canResume = TRUE]
    BY <1>2, <1>6 DEF PollFailed, Show
  <2>2. page' \in Page
    BY <1>2, <2>1
  <2>3. PollsOnce'
    BY <1>1, <1>2, <1>3, <2>1, <2>2 DEF PollsOnce, Polling
  <2>4. PollingKnown'
    BY <1>1, <1>2, <2>1, <2>2 DEF PageSound, PollingKnown, Polling
  <2>5. ShownIsTrue'
    BY <1>1, <1>2, <2>1, <2>2 DEF PageSound, ShownIsTrue, StateOf
  <2> QED
    BY <1>4, <2>1, <2>2, <2>3, <2>4, <2>5
<1>7. CASE ~page.stopped /\ PollAnswered(i)
  <2>1. /\ polls[1].answer \in States /\ page' = HandleRequestState(page, polls[1].answer)
        /\ polls[1].answer # "pending" => requests[page.asked] = polls[1].answer
    BY <1>1, <1>2, <1>7 DEF PollAnswered, PageSound, PollKnown
  <2>2. CASE polls[1].answer = "pending"
    <3>1. page' = [page EXCEPT !.status = "waiting", !.canResume = FALSE, !.timer = TRUE]
      BY <1>2, <1>7, <2>1, <2>2 DEF HandleRequestState, SchedulePoll, Show
    <3>2. page' \in Page
      BY <1>2, <3>1
    <3>3. PollsOnce'
      BY <1>1, <1>2, <1>3, <3>1, <3>2 DEF PollsOnce, Polling
    <3>4. PollingKnown'
      BY <1>1, <1>2, <3>1, <3>2 DEF PageSound, PollingKnown, Polling
    <3>5. ShownIsTrue'
      BY <1>1, <1>2, <3>1, <3>2 DEF PageSound, ShownIsTrue, StateOf
    <3> QED
      BY <1>4, <3>1, <3>2, <3>3, <3>4, <3>5
  <2>3. CASE polls[1].answer = "approved"
    <3>1. page' = [page EXCEPT !.pendingRequestID = NoRequest, !.status = "approved",
                               !.canResume = FALSE, !.navigates = TRUE]
      BY <1>2, <1>7, <2>1, <2>3 DEF HandleRequestState, RetryOriginalURL, Show
    <3>2. /\ page' \in Page /\ page'.status = "approved" /\ page'.asked = page.asked
          /\ page'.timer = page.timer /\ page'.pendingRequestID = NoRequest
          /\ page'.submitting = page.submitting
      BY <1>2, <3>1
    <3>3. PollsOnce'
      BY <1>1, <1>3, <3>2 DEF PollsOnce, Polling
    <3>4. PollingKnown'
      BY <1>1, <1>2, <3>2 DEF PageSound, PollingKnown, Polling
    <3>5. ShownIsTrue'
      BY <1>1, <1>2, <2>1, <2>3, <3>2 DEF ShownIsTrue, StateOf
    <3> QED
      BY <1>4, <3>2, <3>3, <3>4, <3>5
  <2>4. CASE polls[1].answer \in {"rejected", "cancelled", "expired"}
    <3>1. PICK status \in {"rejected", "expired"} :
             /\ page' = [page EXCEPT !.pendingRequestID = NoRequest, !.status = status,
                                     !.canResume = FALSE]
             /\ status = "expired" <=> polls[1].answer = "expired"
      BY <1>2, <1>7, <2>1, <2>4 DEF HandleRequestState, Show
    <3>2. page' \in Page
      BY <1>2, <3>1
    <3>3. PollsOnce'
      BY <1>1, <1>2, <1>3, <3>1, <3>2 DEF PollsOnce, Polling
    <3>4. PollingKnown'
      BY <1>1, <1>2, <3>1, <3>2 DEF PageSound, PollingKnown, Polling
    <3>5. ShownIsTrue'
      BY <1>1, <1>2, <2>1, <2>4, <3>1, <3>2 DEF PageSound, ShownIsTrue, StateOf
    <3> QED
      BY <1>4, <3>1, <3>2, <3>3, <3>4, <3>5
  <2> QED
    BY <2>1, <2>2, <2>3, <2>4 DEF States
<1> QED
  BY <1>5, <1>6, <1>7

\* A button's call has been answered.
LEMMA CallAnswersSound ==
    ASSUME PageSound, Created \/ CreateFailed \/ DirectApproved \/ DirectFailed
    PROVE  PageSound'
<1>1. /\ call' = NoCall /\ UNCHANGED <<polls, requests, opened, pages>>
      /\ page \in Page /\ call \in Call /\ call.kind # "none"
  BY PageParts DEF Created, CreateFailed, DirectApproved, DirectFailed
<1>2. call # NoCall /\ NoCall \in Call /\ NoCall.kind = "none"
  BY <1>1 DEF NoCall, Call
<1>3. call.kind = "create" => /\ page.pendingRequestID = NoRequest
                              /\ polls = <<>> /\ ~page.timer
  BY DEF PageSound, CallKnown, PollingKnown, Polling
<1>4. ASSUME page' \in Page, PollsOnce', ShownIsTrue', PollingKnown',
             page'.asked = page.asked,
             page'.pendingRequestID = page.pendingRequestID \/ polls = <<>>
      PROVE  PageSound'
  <2>1. PageTypeOK'
    BY <1>1, <1>2, <1>4 DEF PageSound, PageTypeOK
  <2>2. CallKnown' /\ PollKnown'
    BY <1>1, <1>2, <1>4 DEF PageSound, CallKnown, PollKnown
  <2> QED
    BY <1>4, <2>1, <2>2 DEF PageSound
<1> USE DEF Page, Statuses
<1>5. CASE Created
  <2>1. page.pendingRequestID = NoRequest /\ polls = <<>> /\ ~page.timer
    BY <1>3, <1>5 DEF Created
  <2>2. call.id \in DOMAIN requests /\ call.id \in Ids /\ call.id # NoRequest
    <3>1. call.id \in DOMAIN requests
      BY <1>5 DEF Created, PageSound, CallKnown
    <3>2. DOMAIN requests = 1 .. Len(requests) /\ Len(requests) \in Nat
      BY PageParts
    <3>3. call.id # NoRequest
      BY <3>1, <3>2 DEF NoRequest
    <3> QED
      BY <1>1, <1>2, <3>1, <3>3 DEF Call
  <2>3. page' = [page EXCEPT !.submitting = FALSE, !.pendingRequestID = call.id,
                             !.status = "waiting", !.canResume = FALSE, !.timer = ~page.stopped]
    BY <1>1, <1>5, <2>1, <2>2 DEF Created, HandleRequestState, SchedulePoll, Show
  <2>4. /\ page' \in Page /\ page'.pendingRequestID = call.id /\ page'.status = "waiting"
        /\ page'.canResume = FALSE /\ page'.timer = ~page.stopped /\ page'.asked = page.asked
        /\ page'.stopped = page.stopped
    BY <1>1, <2>2, <2>3
  <2>5. PollsOnce'
    BY <1>1, <2>1, <2>4 DEF PageSound, PollsOnce, Polling
  <2>6. PollingKnown'
    BY <1>1, <2>2, <2>4 DEF PageSound, PollingKnown, Polling
  <2>7. ShownIsTrue'
    BY <2>4 DEF ShownIsTrue
  <2> QED
    BY <1>4, <2>1, <2>4, <2>5, <2>6, <2>7
<1>6. CASE CreateFailed
  <2>1. page.pendingRequestID = NoRequest /\ polls = <<>> /\ ~page.timer
    BY <1>3, <1>6 DEF CreateFailed
  <2>2. page' = [page EXCEPT !.submitting = FALSE, !.status = "error", !.canResume = FALSE,
                             !.pendingRequestID = NoRequest]
    BY <1>1, <1>6, <2>1 DEF CreateFailed, Show
  <2>3. /\ page' \in Page /\ page'.pendingRequestID = NoRequest /\ page'.status = "error"
        /\ page'.timer = page.timer /\ page'.asked = page.asked
    BY <1>1, <2>2
  <2>4. PollsOnce'
    BY <1>1, <2>1, <2>3 DEF PageSound, PollsOnce, Polling
  <2>5. PollingKnown'
    BY <1>1, <2>1, <2>3 DEF PageSound, PollingKnown, Polling
  <2>6. ShownIsTrue'
    BY <2>3 DEF ShownIsTrue
  <2> QED
    BY <1>4, <2>1, <2>3, <2>4, <2>5, <2>6
<1>7. CASE DirectApproved
  <2>1. opened /\ opened'
    BY <1>1, <1>7 DEF DirectApproved, PageSound, CallKnown, PageTypeOK
  <2>2. /\ page' \in Page /\ page'.pendingRequestID = page.pendingRequestID
        /\ page'.status = "approved" /\ page'.canResume = FALSE
        /\ page'.timer = page.timer /\ page'.asked = page.asked
    BY <1>1, <1>7 DEF DirectApproved, RetryOriginalURL, Show
  <2>3. PollsOnce'
    BY <1>1, <2>2 DEF PageSound, PollsOnce, Polling
  <2>4. PollingKnown'
    BY <1>1, <2>2 DEF PageSound, PollingKnown, Polling
  <2>5. ShownIsTrue'
    BY <2>1, <2>2 DEF ShownIsTrue
  <2> QED
    BY <1>4, <2>2, <2>3, <2>4, <2>5
<1>8. CASE DirectFailed
  <2>1. /\ page' \in Page /\ page'.pendingRequestID = page.pendingRequestID
        /\ page'.status = "parent-error" /\ page'.canResume = FALSE
        /\ page'.timer = page.timer /\ page'.asked = page.asked
    BY <1>1, <1>8 DEF DirectFailed, Show
  <2>2. PollsOnce'
    BY <1>1, <2>1 DEF PageSound, PollsOnce, Polling
  <2>3. PollingKnown'
    BY <1>1, <2>1 DEF PageSound, PollingKnown, Polling
  <2>4. ShownIsTrue'
    BY <2>1 DEF ShownIsTrue
  <2> QED
    BY <1>4, <2>1, <2>2, <2>3, <2>4
<1> QED
  BY <1>5, <1>6, <1>7, <1>8

\* The service's rows only grow, and a settled one stays as it is.
RowsKept ==
    /\ requests' \in Seq(States) /\ Len(requests') >= Len(requests)
    /\ \A r \in DOMAIN requests : requests[r] # "pending" => requests'[r] = requests[r]

\* The agent or the service acts, and the page does not yet know.
LEMMA ServedSound ==
    ASSUME PageSound, RowsKept, page' = page, pages' = pages,
           call' \in Call, opened' \in BOOLEAN, opened => opened',
           polls' \in Seq(Poll), Len(polls') = Len(polls), CallKnown', PollKnown'
    PROVE  PageSound'
<1>1. /\ Len(requests) \in Nat /\ Len(requests') \in Nat
      /\ DOMAIN requests = 1 .. Len(requests) /\ DOMAIN requests' = 1 .. Len(requests')
      /\ polls # <<>> <=> polls' # <<>>
  BY PageParts DEF RowsKept
<1>2. DOMAIN requests \subseteq DOMAIN requests'
  BY <1>1 DEF RowsKept
<1>3. PageTypeOK'
  BY DEF PageSound, PageTypeOK, RowsKept
<1>4. PollsOnce'
  BY <1>1 DEF PageSound, PollsOnce, Polling
<1>5. PollingKnown'
  BY <1>1, <1>2 DEF PageSound, PollingKnown, Polling
<1>6. ShownIsTrue'
  <2>1. page.asked \in {NoRequest} \cup DOMAIN requests
    BY DEF PageSound, PollingKnown
  <2>2. \A r \in DOMAIN requests : requests[r] \in {"approved", "rejected", "cancelled", "expired"}
          => r \in DOMAIN requests' /\ requests'[r] = requests[r]
    BY <1>2 DEF RowsKept
  <2> QED
    BY <2>1, <2>2 DEF PageSound, ShownIsTrue, StateOf
<1> QED
  BY <1>3, <1>4, <1>5, <1>6 DEF PageSound

\* What the service and the parent do meanwhile keeps what has been shown.
LEMMA ServiceSound ==
    ASSUME PageSound,
           \/ ServeCreate \/ ServeDirect \/ CallFails
           \/ \E i \in DOMAIN polls : ServePoll(i) \/ PollFails(i)
           \/ \E r \in Ids, state \in States \ {"pending"} : Settle(r, state)
    PROVE  PageSound'
<1>1. /\ page \in Page /\ call \in Call /\ polls \in Seq(Poll) /\ requests \in Seq(States)
      /\ Len(requests) \in Nat /\ DOMAIN requests = 1 .. Len(requests)
      /\ opened \in BOOLEAN /\ CallKnown /\ PollKnown
  BY PageParts DEF PageSound, PageTypeOK
<1>2. ASSUME requests' = requests PROVE RowsKept
  BY <1>1, <1>2 DEF RowsKept
<1>3. CASE ServeCreate
  <2>1. /\ call = Send("create") /\ UNCHANGED <<page, polls, opened, pages>>
        /\ call # NoCall /\ page.submitting /\ page.pendingRequestID = NoRequest /\ polls = <<>>
    BY <1>3 DEF ServeCreate, Send, NoCall, PageSound, CallKnown, PollingKnown, Polling
  <2>2. PICK r \in Ids :
           /\ call' = [call EXCEPT !.answer = "served", !.id = r]
           /\ RowsKept /\ r \in DOMAIN requests'
    <3>1. CASE OpenRequests # {}
      <4>1. PICK r \in OpenRequests : call' = [call EXCEPT !.answer = "served", !.id = r]
        BY <1>3, <3>1 DEF ServeCreate
      <4>2. requests' = requests /\ r \in Ids /\ r \in 1 .. Len(requests)
        <5>1. requests' = requests
          BY <1>3, <3>1 DEF ServeCreate
        <5>2. r \in Ids /\ r <= Len(requests)
          BY <4>1 DEF OpenRequests
        <5> QED
          BY <1>1, <5>1, <5>2, BoundsAssumption DEF Ids
      <4> QED
        BY <1>1, <1>2, <4>1, <4>2
    <3>2. CASE OpenRequests = {}
      <4>1. /\ Len(requests) < MaxRequests /\ requests' = Append(requests, "pending")
            /\ call' = [call EXCEPT !.answer = "served", !.id = Len(requests')]
        BY <1>3, <3>2 DEF ServeCreate
      <4>2. /\ requests' \in Seq(States) /\ Len(requests') = Len(requests) + 1
            /\ \A q \in 1 .. Len(requests) : requests'[q] = requests[q]
            /\ DOMAIN requests' = 1 .. Len(requests')
        BY <1>1, <4>1 DEF States
      <4>3. Len(requests') \in Ids
        BY <1>1, <4>1, <4>2, BoundsAssumption DEF Ids
      <4>4. RowsKept
        BY <1>1, <4>2 DEF RowsKept
      <4>5. Len(requests') \in DOMAIN requests'
        BY <1>1, <4>2
      <4> QED
        BY <4>1, <4>3, <4>4, <4>5
    <3> QED
      BY <3>1, <3>2
  <2>3. call' \in Call /\ call'.kind = "create" /\ call'.id = r
    BY <2>1, <2>2 DEF Send, Call
  <2>4. CallKnown' /\ PollKnown'
    BY <2>1, <2>2, <2>3 DEF CallKnown, PollKnown
  <2> QED
    BY <1>1, <2>1, <2>2, <2>3, <2>4, ServedSound
<1>4. CASE ServeDirect
  <2>1. /\ call = Send("direct") /\ UNCHANGED <<page, polls, requests, pages>> /\ opened' = TRUE
        /\ call # NoCall /\ call' = [call EXCEPT !.answer = "served"]
    BY <1>4 DEF ServeDirect, Send, NoCall
  <2>2. call' \in Call /\ call'.kind = "direct"
    BY <2>1 DEF Send, Call, NoRequest
  <2>3. CallKnown' /\ PollKnown'
    BY <1>1, <2>1, <2>2 DEF CallKnown, PollKnown
  <2> QED
    BY <1>1, <1>2, <2>1, <2>2, <2>3, ServedSound
<1>5. CASE CallFails
  <2>1. /\ call # NoCall /\ call' = [call EXCEPT !.answer = "failed"]
        /\ UNCHANGED <<page, polls, requests, opened, pages>>
    BY <1>5 DEF CallFails
  <2>2. call' \in Call /\ call'.kind = call.kind /\ call'.answer = "failed"
    BY <1>1, <2>1 DEF Call
  <2>3. CallKnown' /\ PollKnown'
    BY <1>1, <2>1, <2>2 DEF CallKnown, PollKnown
  <2> QED
    BY <1>1, <1>2, <2>1, <2>2, <2>3, ServedSound
<1>6. ASSUME NEW i \in DOMAIN polls, ServePoll(i) \/ PollFails(i) PROVE PageSound'
  <2>1. /\ i = 1 /\ polls # <<>> /\ polls[1] \in Poll /\ Len(polls) = 1
        /\ UNCHANGED <<page, call, requests, opened, pages>>
    BY <1>6, OnePollLeft, PageParts DEF ServePoll, PollFails
  <2>2. polls[1].id \in DOMAIN requests /\ polls[1].id = page.asked
    BY <1>1, <2>1 DEF PageSound, PollKnown, PollingKnown, Polling
  <2>3. PICK answer \in {"failed"} \cup States :
           /\ polls' = [polls EXCEPT ![1].answer = answer]
           /\ answer \in States => answer = requests[polls[1].id]
    BY <1>1, <1>6, <2>1, <2>2 DEF ServePoll, PollFails, States
  <2>4. [polls[1] EXCEPT !.answer = answer] \in Poll
    BY <2>1 DEF Poll
  <2>5. /\ polls' \in Seq(Poll) /\ Len(polls') = Len(polls) /\ polls' # <<>>
        /\ polls'[1] = [polls[1] EXCEPT !.answer = answer]
    BY <1>1, <2>1, <2>3, <2>4
  <2>6. polls'[1].id = polls[1].id /\ polls'[1].answer = answer
    BY <2>1, <2>5 DEF Poll
  <2>7. CallKnown' /\ PollKnown'
    BY <1>1, <2>1, <2>3, <2>6 DEF CallKnown, PollKnown
  <2> QED
    BY <1>1, <1>2, <2>1, <2>5, <2>7, ServedSound
<1>7. ASSUME NEW r \in Ids, NEW state \in States \ {"pending"}, Settle(r, state)
      PROVE  PageSound'
  <2>1. /\ r \in DOMAIN requests /\ requests[r] = "pending"
        /\ requests' = [requests EXCEPT ![r] = state]
        /\ UNCHANGED <<page, call, polls, opened, pages>>
    BY <1>1, <1>7 DEF Settle, OpenRequests, Ids
  <2>2. /\ requests' \in Seq(States) /\ Len(requests') = Len(requests)
        /\ DOMAIN requests' = DOMAIN requests
        /\ \A q \in DOMAIN requests : requests[q] # "pending" => requests'[q] = requests[q]
    BY <1>1, <2>1
  <2>3. RowsKept
    BY <1>1, <2>2 DEF RowsKept
  <2>4. CallKnown'
    BY <1>1, <2>1, <2>2 DEF CallKnown
  <2>5. polls # <<>> => polls[1].id \in DOMAIN requests
    BY <1>1 DEF PageSound, PollKnown, PollingKnown, Polling
  <2>6. PollKnown'
    BY <1>1, <2>1, <2>2, <2>5 DEF PollKnown
  <2> QED
    BY <1>1, <2>1, <2>3, <2>4, <2>6, ServedSound
<1> QED
  BY <1>3, <1>4, <1>5, <1>6, <1>7

\* Every step of the page keeps the invariant ...
LEMMA PageStepSound == PageSound /\ [PageNext]_pageVars => PageSound'
<1> SUFFICES ASSUME PageSound, [PageNext]_pageVars
             PROVE  PageSound'
  OBVIOUS
<1>1. CASE UNCHANGED pageVars
  BY <1>1 DEF pageVars, PageSound, PageTypeOK, PollsOnce, ShownIsTrue, CallKnown, PollKnown,
              PollingKnown, Polling, StateOf
<1> QED
  BY <1>1, ButtonsSound, PageShownSound, FirePollSound, AnswersSound, CallAnswersSound,
     ServiceSound
  DEF PageNext, PollStep

\* ... which therefore always holds.
LEMMA PageIsSound == PageSpec => []PageSound
BY PageInitSound, PageStepSound, PTL DEF PageSpec

\* However asking, resuming, approving and failing are mixed, the page polls once at
\* a time, and it does poll while it says that it waits (PollsOnce).
THEOREM PagePollsOnce == PageSpec => []PollsOnce
<1>1. PageSound => PollsOnce
  BY DEF PageSound
<1> QED
  BY <1>1, PageIsSound, PTL

\* What the page shows of an approval, a refusal or an expiry has happened to the
\* request it polled last, or by the parent's code (ShownIsTrue).
THEOREM PageShowsTheTruth == PageSpec => []ShownIsTrue
<1>1. PageSound => ShownIsTrue
  BY DEF PageSound
<1> QED
  BY <1>1, PageIsSound, PTL

-----------------------------------------------------------------------------
(* The service worker                                                      *)

\* What an operation of the queue does to the tab that the worker follows,
\* when window w is in front with tab t: it leaves t followed ...
Settles(o, w, t) ==
    \/ o.step = "begin" /\ o.kind = "initialize" /\ w # NoWindow
    \/ o.step = "begin" /\ o.kind = "activated" /\ o.window = w /\ o.tab = t
    \/ o.step = "end" /\ o.kind = "activated" /\ o.tab = t
    \/ o.step \in {"begin", "end"} /\ o.kind = "focus" /\ o.window = w
    \/ o.step = "tab" /\ o.window = w

\* ... or, if it is already followed, does not change that.
Keeps(o, w, t) ==
    \/ Settles(o, w, t)
    \/ o.step = "begin" /\ o.kind = "initialize"
    \/ o.step = "begin" /\ o.kind = "activated" /\ o.window # w
    \/ o.step = "begin" /\ o.kind = "removed" /\ o.tab # t
    \/ o.step = "end" /\ o.kind = "removed"
    \/ o.step \in {"url", "check", "answer"}

\* The operations in q bring the worker from following f to following t.
Leads(q, f, w, t) ==
    \/ f = t /\ \A j \in DOMAIN q : Keeps(q[j], w, t)
    \/ \E i \in DOMAIN q : Settles(q[i], w, t) /\ \A j \in DOMAIN q : j > i => Keeps(q[j], w, t)

\* Operation o is going to have page p of tab t checked.
Checks(o, w, t, p) ==
    \/ Settles(o, w, t)
    \/ o.step = "url" /\ o.tab = t
    \/ o.step \in {"check", "answer"} /\ o.tab = t /\ o.url = p

WindowsKnown ==
    /\ focused # NoWindow => focused = lastFocused /\ active[focused] # NoTab
    /\ \A w \in Windows : IF active[w] = NoTab THEN WindowTabs(w) = {}
                          ELSE WindowOf[active[w]] = w /\ Open(active[w])

\* An operation, when the tabs show pages, tab f is followed, and the URLs in
\* never have never been allowed.
OpKnown(o, shown, f, never) ==
    /\ o.kind = "activated" => o.tab \in Tabs /\ o.window \in Windows
    /\ o.kind = "removed" => /\ o.step \in {"begin", "end"} /\ o.tab \in Tabs
                             /\ shown[o.tab] = NoTab
    /\ o.step = "end" => f = NoTab
    /\ o.step = "tab" => o.window \in Windows
    /\ o.step \in {"url", "check", "answer"} => o.tab \in Tabs /\ o.tab = f
    /\ o.step \in {"check", "answer"} => o.url \in URLs
    /\ o.step = "answer" /\ o.allowed => o.url \notin never

QueueKnown ==
    /\ \A i \in DOMAIN queue : OpKnown(queue[i], url, activeTabId, neverAllowed) /\
                               (i > 1 => queue[i].step = "begin")
    /\ \A n \in navs : n.step = "answer" /\ n.allowed => n.url \notin neverAllowed
    /\ \A t \in Tabs : lastCheckedURLByTab[t] \notin neverAllowed
    /\ ~awake => Quiet /\ activeTabId = NoTab

\* What is in the queue would keep the tab in front followed, whatever became
\* of the lookups before ...
QueueLeads == Leads(queue, InFront, focused, InFront)

\* ... and leads there from the tab that is followed, unless one of them failed.
FollowedLeads ==
    awake /\ (lookupFailed => focused = NoWindow) => Leads(queue, activeTabId, focused, InFront)

Guarded ==
    \/ \E i \in DOMAIN queue : Checks(queue[i], focused, InFront, url[InFront])
    \/ \E n \in navs : n.tab = InFront /\ n.url = url[InFront]

\* The page in front is excused, or replaced already.
Excused ==
    InFront \in unchecked \/ lookupFailed \/ loading[InFront] = BlockedPage

\* A page in front that was never allowed is about to be found ...
PageGuarded == InFront # NoTab /\ url[InFront] \in neverAllowed /\ ~Excused => Guarded

\* ... and one that is loaded by its own navigation.
LoadsGuarded ==
    \A t \in Tabs : loading[t] \in neverAllowed /\ t \notin unchecked =>
                       \E n \in navs : n.tab = t /\ n.url = loading[t]

\* The daemon keeps a visit only while the worker follows a tab or ends it.
VisitIsFollowed ==
    visit # NoVisit => \/ activeTabId # NoTab \/ unfollowed
                       \/ queue # <<>> /\ queue[1].step = "end"

WorkerSound ==
    /\ TypeOK /\ WindowsKnown /\ QueueKnown
    /\ QueueLeads /\ FollowedLeads
    /\ PageGuarded /\ LoadsGuarded /\ VisitIsFollowed

-----------------------------------------------------------------------------
\* How the queue is changed, and what becomes of Leads.

\* What is left of a queue without its first element.
LEMMA AfterFirst ==
    ASSUME NEW S, NEW q \in Seq(S), q # <<>>
    PROVE  /\ 1 \in DOMAIN q /\ q[1] \in S
           /\ RemoveAt(q, 1) \in Seq(S)
           /\ DOMAIN RemoveAt(q, 1) = 1 .. (Len(q) - 1)
           /\ \A i \in DOMAIN RemoveAt(q, 1) : i + 1 \in DOMAIN q /\ RemoveAt(q, 1)[i] = q[i + 1]
<1>1. Len(q) \in Nat /\ Len(q) # 0 /\ DOMAIN q = 1 .. Len(q) /\ q[1] \in S
  OBVIOUS
<1>2. SubSeq(q, 1, 0) = <<>>
  BY <1>1
<1>3. /\ SubSeq(q, 2, Len(q)) \in Seq(S) /\ Len(SubSeq(q, 2, Len(q))) = Len(q) - 1
      /\ DOMAIN SubSeq(q, 2, Len(q)) = 1 .. (Len(q) - 1)
      /\ \A i \in 1 .. (Len(q) - 1) : SubSeq(q, 2, Len(q))[i] = q[i + 1]
  BY <1>1
<1>4. RemoveAt(q, 1) = SubSeq(q, 2, Len(q))
  BY <1>1, <1>2, <1>3, ConcatEmptySeq DEF RemoveAt
<1>5. RemoveAt(q, 1) \in Seq(S) /\ DOMAIN RemoveAt(q, 1) = 1 .. (Len(q) - 1)
  BY <1>3, <1>4
<1>6. ASSUME NEW i \in DOMAIN RemoveAt(q, 1)
      PROVE  i + 1 \in DOMAIN q /\ RemoveAt(q, 1)[i] = q[i + 1]
  BY <1>1, <1>3, <1>4, <1>5
<1> QED
  BY <1>1, <1>5, <1>6

\* An operation that ends has had its effect on the tab followed: what is left
\* of the queue still leads to the tab in front.
LEMMA LeadsWithoutFirst ==
    ASSUME NEW q \in Seq(Ops), q # <<>>, NEW f, NEW g, NEW w, NEW t, Leads(q, f, w, t),
           Settles(q[1], w, t) \/ (f = t /\ Keeps(q[1], w, t)) => g = t
    PROVE  Leads(RemoveAt(q, 1), g, w, t)
<1> DEFINE r == RemoveAt(q, 1)
<1>1. /\ 1 \in DOMAIN q /\ Len(q) \in Nat /\ DOMAIN q = 1 .. Len(q) /\ DOMAIN r = 1 .. (Len(q) - 1)
      /\ \A i \in DOMAIN r : i + 1 \in DOMAIN q /\ r[i] = q[i + 1]
  BY AfterFirst
<1> HIDE DEF r
<1>2. CASE f = t /\ \A j \in DOMAIN q : Keeps(q[j], w, t)
  <2>1. g = t
    BY <1>1, <1>2
  <2> QED
    BY <1>1, <1>2, <2>1 DEF Leads, r
<1>3. ASSUME NEW i \in DOMAIN q, Settles(q[i], w, t),
             \A j \in DOMAIN q : j > i => Keeps(q[j], w, t)
      PROVE  Leads(r, g, w, t)
  <2>1. CASE i = 1
    <3>1. g = t
      BY <1>3, <2>1
    <3>2. \A j \in DOMAIN r : Keeps(r[j], w, t)
      BY <1>1, <1>3, <2>1
    <3> QED
      BY <3>1, <3>2 DEF Leads
  <2>2. CASE i # 1
    <3>1. i - 1 \in DOMAIN r /\ r[i - 1] = q[i]
      BY <1>1, <2>2
    <3>2. \A j \in DOMAIN r : j > i - 1 => Keeps(r[j], w, t)
      BY <1>1, <1>3, <2>2
    <3> QED
      BY <1>3, <3>1, <3>2 DEF Leads
  <2> QED
    BY <2>1, <2>2
<1> QED
  BY <1>2, <1>3 DEF Leads, r

\* An operation that goes on keeps the effect it is going to have.
LEMMA LeadsWithFirst ==
    ASSUME NEW q \in Seq(Ops), q # <<>>, NEW f, NEW g, NEW w, NEW t, NEW o, Leads(q, f, w, t),
           Settles(q[1], w, t) \/ (f = t /\ Keeps(q[1], w, t))
             => Settles(o, w, t) \/ (g = t /\ Keeps(o, w, t))
    PROVE  Leads([q EXCEPT ![1] = o], g, w, t)
<1> DEFINE r == [q EXCEPT ![1] = o]
<1>1. /\ 1 \in DOMAIN q /\ DOMAIN q \subseteq Nat /\ DOMAIN r = DOMAIN q
      /\ r[1] = o /\ \A i \in DOMAIN q : i # 1 => r[i] = q[i]
      /\ \A i \in DOMAIN q : i >= 1
  BY AfterFirst
<1> HIDE DEF r
<1>2. CASE f = t /\ \A j \in DOMAIN q : Keeps(q[j], w, t)
  <2>1. \A j \in DOMAIN r : j # 1 => Keeps(r[j], w, t)
    BY <1>1, <1>2
  <2>2. CASE Settles(o, w, t)
    BY <1>1, <2>1, <2>2 DEF Leads
  <2>3. CASE g = t /\ Keeps(o, w, t)
    BY <1>1, <2>1, <2>3 DEF Leads
  <2> QED
    BY <1>1, <1>2, <2>2, <2>3 DEF r
<1>3. ASSUME NEW i \in DOMAIN q, Settles(q[i], w, t),
             \A j \in DOMAIN q : j > i => Keeps(q[j], w, t)
      PROVE  Leads(r, g, w, t)
  <2>1. CASE i = 1
    <3>1. \A j \in DOMAIN r : j # 1 => Keeps(r[j], w, t)
      BY <1>1, <1>3, <2>1
    <3>2. CASE Settles(o, w, t)
      BY <1>1, <3>1, <3>2 DEF Leads
    <3>3. CASE g = t /\ Keeps(o, w, t)
      BY <1>1, <3>1, <3>3 DEF Leads
    <3> QED
      BY <1>3, <2>1, <3>2, <3>3
  <2>2. CASE i # 1
    <3>1. i \in DOMAIN r /\ Settles(r[i], w, t)
      BY <1>1, <1>3, <2>2
    <3>2. \A j \in DOMAIN r : j > i => Keeps(r[j], w, t)
      BY <1>1, <1>3, <2>2
    <3> QED
      BY <3>1, <3>2 DEF Leads
  <2> QED
    BY <2>1, <2>2
<1> QED
  BY <1>2, <1>3 DEF Leads, r

\* The elements of a queue with operations appended.
LEMMA AppendedOps ==
    ASSUME NEW q \in Seq(Ops), NEW ops \in Seq(Ops)
    PROVE  /\ q \o ops \in Seq(Ops)
           /\ DOMAIN q \subseteq DOMAIN (q \o ops)
           /\ \A i \in DOMAIN q : (q \o ops)[i] = q[i]
           /\ \A k \in DOMAIN ops : /\ Len(q) + k \in DOMAIN (q \o ops)
                                    /\ (q \o ops)[Len(q) + k] = ops[k]
           /\ \A i \in DOMAIN (q \o ops) :
                \/ i \in DOMAIN q
                \/ i - Len(q) \in DOMAIN ops /\ (q \o ops)[i] = ops[i - Len(q)]
<1>1. /\ Len(q) \in Nat /\ Len(ops) \in Nat /\ DOMAIN q = 1 .. Len(q)
      /\ DOMAIN ops = 1 .. Len(ops)
  OBVIOUS
<1>2. /\ q \o ops \in Seq(Ops) /\ Len(q \o ops) = Len(q) + Len(ops)
      /\ DOMAIN (q \o ops) = 1 .. (Len(q) + Len(ops))
      /\ \A i \in 1 .. (Len(q) + Len(ops)) :
            (q \o ops)[i] = IF i <= Len(q) THEN q[i] ELSE ops[i - Len(q)]
  BY <1>1, ConcatProperties
<1>3. \A i \in DOMAIN q : i \in DOMAIN (q \o ops) /\ (q \o ops)[i] = q[i]
  BY <1>1, <1>2
<1>4. ASSUME NEW k \in DOMAIN ops
      PROVE  Len(q) + k \in DOMAIN (q \o ops) /\ (q \o ops)[Len(q) + k] = ops[k]
  BY <1>1, <1>2
<1>5. ASSUME NEW i \in DOMAIN (q \o ops), i \notin DOMAIN q
      PROVE  i - Len(q) \in DOMAIN ops /\ (q \o ops)[i] = ops[i - Len(q)]
  BY <1>1, <1>2, <1>5
<1>6. DOMAIN q \subseteq DOMAIN (q \o ops)
  BY <1>3
<1> QED
  BY <1>2, <1>3, <1>4, <1>5, <1>6, Zenon

\* Appended operations that keep the tab do no harm ...
LEMMA LeadsAndKeeps ==
    ASSUME NEW q \in Seq(Ops), NEW ops \in Seq(Ops), NEW f, NEW w, NEW t, Leads(q, f, w, t),
           \A k \in DOMAIN ops : Keeps(ops[k], w, t)
    PROVE  Leads(q \o ops, f, w, t)
<1>1. Len(q) \in Nat /\ DOMAIN q = 1 .. Len(q)
  OBVIOUS
<1>2. \A j \in DOMAIN (q \o ops) : j \in DOMAIN q \/ Keeps((q \o ops)[j], w, t)
  BY AppendedOps
<1>3. CASE f = t /\ \A j \in DOMAIN q : Keeps(q[j], w, t)
  BY <1>2, <1>3, AppendedOps DEF Leads
<1>4. ASSUME NEW i \in DOMAIN q, Settles(q[i], w, t),
             \A j \in DOMAIN q : j > i => Keeps(q[j], w, t)
      PROVE  Leads(q \o ops, f, w, t)
  <2>1. i \in DOMAIN (q \o ops) /\ Settles((q \o ops)[i], w, t)
    BY <1>4, AppendedOps
  <2>2. \A j \in DOMAIN (q \o ops) : j > i => Keeps((q \o ops)[j], w, t)
    BY <1>2, <1>4, AppendedOps
  <2> QED
    BY <2>1, <2>2 DEF Leads
<1> QED
  BY <1>3, <1>4 DEF Leads

\* ... and one that settles it makes up for all before it.
LEMMA LeadsBySettling ==
    ASSUME NEW q \in Seq(Ops), NEW ops \in Seq(Ops), NEW f, NEW w, NEW t, NEW k \in DOMAIN ops,
           Settles(ops[k], w, t), \A j \in DOMAIN ops : j > k => Keeps(ops[j], w, t)
    PROVE  Leads(q \o ops, f, w, t)
<1>1. Len(q) \in Nat /\ DOMAIN q = 1 .. Len(q) /\ k \in Nat /\ k >= 1
  OBVIOUS
<1>2. Len(q) + k \in DOMAIN (q \o ops) /\ Settles((q \o ops)[Len(q) + k], w, t)
  BY AppendedOps
<1>3. ASSUME NEW j \in DOMAIN (q \o ops), j > Len(q) + k PROVE Keeps((q \o ops)[j], w, t)
  <2>1. j \notin DOMAIN q /\ j \in Nat
    BY <1>1, <1>3
  <2>2. j - Len(q) \in DOMAIN ops /\ (q \o ops)[j] = ops[j - Len(q)]
    BY <2>1, AppendedOps
  <2>3. j - Len(q) > k
    BY <1>1, <1>3, <2>1
  <2> QED
    BY <2>2, <2>3
<1> QED
  BY <1>2, <1>3 DEF Leads
\* The types that the proofs of the steps use.
LEMMA WorkerTypes ==
    ASSUME WorkerSound
    PROVE  /\ queue \in Seq(Ops) /\ Len(queue) \in Nat /\ DOMAIN queue = 1 .. Len(queue)
           /\ activeTabId \in Tabs \cup {NoTab} /\ InFront \in Tabs \cup {NoTab}
           /\ focused = NoWindow <=> focused \notin Windows
           /\ focused = NoWindow <=> InFront = NoTab
           /\ InFront # NoTab => InFront \in Tabs /\ WindowOf[InFront] = focused
           /\ NoTab \notin Tabs /\ NoWindow \notin Windows
<1>1. /\ queue \in Seq(Ops) /\ activeTabId \in Tabs \cup {NoTab}
      /\ focused \in Windows \cup {NoWindow} /\ active \in [Windows -> Tabs \cup {NoTab}]
  BY DEF WorkerSound, TypeOK
<1>2. Len(queue) \in Nat /\ DOMAIN queue = 1 .. Len(queue)
  BY <1>1
<1>3. NoTab \notin Tabs /\ NoWindow \notin Windows
  BY BrowserAssumption
<1>4. focused \in Windows => /\ active[focused] \in Tabs /\ InFront = active[focused]
                             /\ WindowOf[active[focused]] = focused
  BY <1>1, <1>3 DEF WorkerSound, WindowsKnown, InFront
<1> QED
  BY <1>1, <1>2, <1>3, <1>4 DEF InFront

\* What an operation holds when it is created.
LEMMA NewOps ==
    ASSUME NEW kind \in {"initialize", "activated", "focus", "removed"},
           NEW t \in Tabs \cup {NoTab}, NEW w \in Windows \cup {NoWindow}
    PROVE  /\ Op(kind, t, w) \in Ops
           /\ Op(kind, t, w).kind = kind /\ Op(kind, t, w).tab = t
           /\ Op(kind, t, w).window = w /\ Op(kind, t, w).step = "begin"
BY DEF Op, Ops, Pages

\* What a worker that was started does first.
LEMMA FirstOp ==
    /\ InitializeOp \in Ops /\ InitializeOp.kind = "initialize" /\ InitializeOp.step = "begin"
    /\ InitializeOp.tab = NoTab /\ InitializeOp.window = NoWindow
BY DEF InitializeOp, Op, Ops, Pages

\* The initial state is sound.
LEMMA WorkerInitSound == Init => WorkerSound
<1> SUFFICES ASSUME Init PROVE WorkerSound
  OBVIOUS
<1>1. /\ queue = <<InitializeOp>> /\ awake = TRUE /\ activeTabId = NoTab /\ navs = {}
      /\ visit = NoVisit /\ unchecked = {} /\ lookupFailed = FALSE /\ unfollowed = FALSE
      /\ InitializeOp \in Ops /\ InitializeOp.kind = "initialize" /\ InitializeOp.step = "begin"
  BY FirstOp DEF Init
<1>2. queue \in Seq(Ops) /\ DOMAIN queue = {1} /\ queue[1] = InitializeOp
  BY <1>1
<1>3. /\ url \in [Tabs -> URLs] /\ \A t \in Tabs : Open(t)
      /\ active \in [Windows -> Tabs] /\ \A w \in Windows : WindowOf[active[w]] = w
      /\ lastFocused \in Windows /\ focused \in {lastFocused, NoWindow}
      /\ lastCheckedURLByTab = [t \in Tabs |-> BlockedPage]
      /\ loading = [t \in Tabs |-> NoTab] /\ blocked \subseteq URLs /\ neverAllowed = blocked
  BY BrowserAssumption DEF Init, Open
<1>4. TypeOK
  BY <1>1, <1>2, <1>3 DEF TypeOK, Pages
<1>5. WindowsKnown
  BY <1>3, BrowserAssumption DEF WindowsKnown
<1>6. QueueKnown
  <2>1. \A i \in DOMAIN queue : OpKnown(queue[i], url, activeTabId, neverAllowed)
                             /\ (i > 1 => queue[i].step = "begin")
    BY <1>1, <1>2 DEF OpKnown
  <2> QED
    BY <1>1, <1>3, <2>1, BrowserAssumption DEF QueueKnown
<1>7. Keeps(queue[1], focused, InFront)
      /\ (focused # NoWindow => Settles(queue[1], focused, InFront))
  BY <1>1, <1>2 DEF Keeps, Settles
<1>8. QueueLeads
  BY <1>2, <1>7 DEF QueueLeads, Leads
<1>9. FollowedLeads
  <2>1. CASE focused = NoWindow
    BY <1>1, <1>2, <1>7, <2>1 DEF FollowedLeads, Leads, InFront
  <2>2. CASE focused # NoWindow
    BY <1>2, <1>7, <2>2 DEF FollowedLeads, Leads
  <2> QED
    BY <2>1, <2>2
<1>10. PageGuarded
  <2>1. InFront # NoTab => Checks(queue[1], focused, InFront, url[InFront])
    BY <1>7 DEF Checks, InFront
  <2> QED
    BY <1>2, <2>1 DEF PageGuarded, Guarded
<1>11. LoadsGuarded
  BY <1>3, BrowserAssumption DEF LoadsGuarded
<1>12. VisitIsFollowed
  BY <1>1 DEF VisitIsFollowed
<1> QED
  BY <1>4, <1>5, <1>6, <1>8, <1>9, <1>10, <1>11, <1>12 DEF WorkerSound

-----------------------------------------------------------------------------
(* Events of the browser                                                   *)

\* An event keeps the type of the queue.
LEMMA DispatchTypes ==
    ASSUME queue \in Seq(Ops), NEW ops \in Seq(Ops), Dispatch(ops)
    PROVE  queue' \in Seq(Ops) /\ awake' \in BOOLEAN
<1>1. (IF awake THEN <<>> ELSE <<InitializeOp>>) \in Seq(Ops)
  BY FirstOp
<1> QED
  BY <1>1, AppendedOps DEF Dispatch

\* An event either leaves the tab and the page in front and appends operations
\* that keep it, or appends one that settles the new tab in front.
LEMMA EventSound ==
    ASSUME WorkerSound, NEW ops \in Seq(Ops), Dispatch(ops), TypeOK', WindowsKnown', LoadsGuarded',
           UNCHANGED <<activeTabId, lastCheckedURLByTab, visit, neverAllowed, lookupFailed,
                       unfollowed>>,
           navs \subseteq navs', \A n \in navs' : n \in navs \/ n.step = "begin",
           \A t \in Tabs : Open(t)' => Open(t),
           \A k \in DOMAIN ops : OpKnown(ops[k], url', activeTabId, neverAllowed) /\
                                 ops[k].step = "begin",
           \/ /\ UNCHANGED <<focused, InFront>>
              /\ \A k \in DOMAIN ops : Keeps(ops[k], focused, InFront)
              /\ InFront # NoTab => url'[InFront] = url[InFront] /\ (Excused => Excused')
           \/ \E k \in DOMAIN ops :
                /\ Settles(ops[k], focused', InFront')
                /\ \A j \in DOMAIN ops : j > k => Keeps(ops[j], focused', InFront')
    PROVE  WorkerSound'
<1> DEFINE pre == IF awake THEN <<>> ELSE <<InitializeOp>>
           q == queue \o pre
<1>1. /\ queue \in Seq(Ops) /\ Len(queue) \in Nat /\ DOMAIN queue = 1 .. Len(queue)
      /\ focused = NoWindow <=> InFront = NoTab
      /\ InitializeOp \in Ops /\ InitializeOp.kind = "initialize" /\ InitializeOp.step = "begin"
  BY WorkerTypes, FirstOp
<1>2. pre \in Seq(Ops) /\ \A k \in DOMAIN pre : pre[k] = InitializeOp
  BY <1>1
<1>3. q \in Seq(Ops) /\ queue' = q \o ops /\ awake' = TRUE
  BY <1>1, <1>2, AppendedOps DEF Dispatch
<1>4. ~awake => queue = <<>> /\ activeTabId = NoTab /\ pre = <<InitializeOp>>
  BY DEF WorkerSound, QueueKnown, Quiet
<1>5. awake => q = queue
  BY <1>1, ConcatEmptySeq
<1> HIDE DEF pre
<1>6. Keeps(InitializeOp, focused, InFront)
  BY <1>1 DEF Keeps
<1>7. Leads(q, InFront, focused, InFront)
  BY <1>1, <1>2, <1>6, LeadsAndKeeps DEF WorkerSound, QueueLeads
<1>8. ASSUME lookupFailed => focused = NoWindow
      PROVE  Leads(q, activeTabId, focused, InFront)
  <2>1. CASE awake
    BY <1>5, <1>8, <2>1 DEF WorkerSound, FollowedLeads
  <2>2. CASE ~awake
    <3>1. CASE focused = NoWindow
      <4>1. Leads(queue, activeTabId, focused, InFront)
        BY <1>1, <1>4, <2>2, <3>1 DEF Leads
      <4> QED
        BY <1>1, <1>2, <1>6, <4>1, LeadsAndKeeps
    <3>2. CASE focused # NoWindow
      <4>1. 1 \in DOMAIN pre /\ Settles(pre[1], focused, InFront)
        BY <1>1, <1>4, <2>2, <3>2 DEF Settles
      <4>2. \A j \in DOMAIN pre : j > 1 => Keeps(pre[j], focused, InFront)
        BY <1>2, <1>6
      <4> QED
        BY <1>1, <1>2, <4>1, <4>2, LeadsBySettling
    <3> QED
      BY <3>1, <3>2
  <2> QED
    BY <2>1, <2>2
<1>9. QueueLeads' /\ FollowedLeads'
  <2>1. CASE /\ UNCHANGED <<focused, InFront>>
             /\ \A k \in DOMAIN ops : Keeps(ops[k], focused, InFront)
    <3>1. Leads(queue', InFront, focused, InFront)
      BY <1>3, <1>7, <2>1, LeadsAndKeeps
    <3>2. ASSUME lookupFailed => focused = NoWindow
          PROVE  Leads(queue', activeTabId, focused, InFront)
      BY <1>3, <1>8, <2>1, <3>2, LeadsAndKeeps
    <3> QED
      BY <2>1, <3>1, <3>2 DEF QueueLeads, FollowedLeads
  <2>2. CASE \E k \in DOMAIN ops :
                /\ Settles(ops[k], focused', InFront')
                /\ \A j \in DOMAIN ops : j > k => Keeps(ops[j], focused', InFront')
    <3>1. /\ Leads(queue', InFront', focused', InFront')
          /\ Leads(queue', activeTabId', focused', InFront')
      BY <1>3, <2>2, LeadsBySettling
    <3> QED
      BY <3>1 DEF QueueLeads, FollowedLeads
  <2> QED
    BY <2>1, <2>2
<1>10. \A i \in DOMAIN queue : i \in DOMAIN queue' /\ queue'[i] = queue[i]
  <2>1. \A i \in DOMAIN queue : i \in DOMAIN q /\ q[i] = queue[i]
    BY <1>1, <1>2, AppendedOps
  <2> QED
    BY <1>3, <2>1, AppendedOps
<1>11. \A i \in DOMAIN queue' :
         \/ i \in DOMAIN queue /\ queue'[i] = queue[i]
         \/ queue'[i] = InitializeOp
         \/ \E k \in DOMAIN ops : queue'[i] = ops[k]
  <2>1. \A i \in DOMAIN q : \/ i \in DOMAIN queue /\ q[i] = queue[i]
                            \/ q[i] = InitializeOp
    BY <1>1, <1>2, AppendedOps
  <2>2. \A i \in DOMAIN queue' : \/ i \in DOMAIN q /\ queue'[i] = q[i]
                                 \/ \E k \in DOMAIN ops : queue'[i] = ops[k]
    BY <1>3, AppendedOps
  <2> QED
    BY <2>1, <2>2
<1>12. \A i \in DOMAIN queue' : OpKnown(queue'[i], url', activeTabId, neverAllowed)
                             /\ (i > 1 => queue'[i].step = "begin")
  <2>1. OpKnown(InitializeOp, url', activeTabId, neverAllowed)
    BY <1>1 DEF OpKnown
  <2>2. \A i \in DOMAIN queue : OpKnown(queue[i], url', activeTabId, neverAllowed)
                             /\ (i > 1 => queue[i].step = "begin")
    BY DEF WorkerSound, QueueKnown, OpKnown, Open
  <2> QED
    BY <1>1, <1>11, <2>1, <2>2
<1>13. QueueKnown'
  <2>1. \A n \in navs' : n.step = "answer" /\ n.allowed => n.url \notin neverAllowed
    BY DEF WorkerSound, QueueKnown
  <2>2. \A t \in Tabs : lastCheckedURLByTab'[t] \notin neverAllowed
    BY DEF WorkerSound, QueueKnown
  <2> QED
    BY <1>3, <1>12, <2>1, <2>2 DEF QueueKnown
<1>14. PageGuarded'
  <2> SUFFICES ASSUME InFront' # NoTab, url'[InFront'] \in neverAllowed, ~Excused'
               PROVE  Guarded'
    BY DEF PageGuarded
  <2>1. CASE \E k \in DOMAIN ops : Settles(ops[k], focused', InFront')
    <3>1. PICK k \in DOMAIN ops : Settles(ops[k], focused', InFront')
      BY <2>1
    <3>2. Len(q) + k \in DOMAIN queue' /\ queue'[Len(q) + k] = ops[k]
      BY <1>3, AppendedOps
    <3> QED
      BY <3>1, <3>2 DEF Guarded, Checks
  <2>2. CASE /\ UNCHANGED <<focused, InFront>>
             /\ InFront # NoTab => url'[InFront] = url[InFront] /\ (Excused => Excused')
    <3>1. Guarded
      BY <2>2 DEF WorkerSound, PageGuarded
    <3> QED
      BY <1>10, <2>2, <3>1 DEF Guarded
  <2> QED
    BY <2>1, <2>2
<1>15. VisitIsFollowed'
  <2> SUFFICES ASSUME visit' # NoVisit, activeTabId' = NoTab, ~unfollowed'
               PROVE  queue' # <<>> /\ queue'[1].step = "end"
    BY DEF VisitIsFollowed
  <2>1. queue # <<>> /\ queue[1].step = "end"
    BY DEF WorkerSound, VisitIsFollowed
  <2>2. 1 \in DOMAIN queue
    BY <1>1, <2>1
  <2>3. 1 \in DOMAIN queue' /\ queue'[1] = queue[1] /\ queue' \in Seq(Ops)
    BY <1>3, <1>10, <2>2, AppendedOps
  <2> QED
    BY <2>1, <2>3
<1> QED
  BY <1>9, <1>13, <1>14, <1>15 DEF WorkerSound

\* Tabs that are closed load nothing that is never allowed ...
LEMMA ClosedPagesGuarded ==
    ASSUME WorkerSound, UNCHANGED <<navs, neverAllowed, unchecked>>,
           \A t \in Tabs : \/ url'[t] = url[t] /\ loading'[t] = loading[t]
                           \/ url'[t] = NoTab /\ loading'[t] = NoTab
    PROVE  LoadsGuarded'
<1>1. NoTab \notin neverAllowed
  BY BrowserAssumption DEF WorkerSound, TypeOK
<1>2. LoadsGuarded
  BY DEF WorkerSound
<1> QED
  BY <1>1, <1>2 DEF LoadsGuarded

\* ... and the one in front is not one of them.
LEMMA PageInFrontStays ==
    ASSUME WorkerSound, WindowsKnown', UNCHANGED <<focused, InFront, unchecked, lookupFailed>>,
           \A t \in Tabs : \/ url'[t] = url[t] /\ loading'[t] = loading[t]
                           \/ url'[t] = NoTab /\ loading'[t] = NoTab
    PROVE  InFront # NoTab => url'[InFront] = url[InFront] /\ (Excused => Excused')
<1> SUFFICES ASSUME InFront # NoTab
             PROVE  url'[InFront] = url[InFront] /\ (Excused => Excused')
  OBVIOUS
<1>1. InFront \in Tabs /\ focused \in Windows
  BY WorkerTypes
<1>2. url'[InFront] # NoTab
  BY <1>1, BrowserAssumption DEF WindowsKnown, InFront, Open
<1> QED
  BY <1>1, <1>2 DEF Excused

\* The same for an event that appends one operation and begins no navigation.
LEMMA PlainEventSound ==
    ASSUME WorkerSound, NEW o \in Ops, Dispatch(<<o>>), TypeOK', WindowsKnown',
           UNCHANGED <<activeTabId, lastCheckedURLByTab, visit, navs, neverAllowed, unchecked,
                       lookupFailed, unfollowed>>,
           \A t \in Tabs : \/ url'[t] = url[t] /\ loading'[t] = loading[t]
                           \/ url'[t] = NoTab /\ loading'[t] = NoTab,
           OpKnown(o, url', activeTabId, neverAllowed), o.step = "begin",
           \/ UNCHANGED <<focused, InFront>> /\ Keeps(o, focused, InFront)
           \/ Settles(o, focused', InFront')
    PROVE  WorkerSound'
<1>1. <<o>> \in Seq(Ops) /\ DOMAIN <<o>> = {1} /\ <<o>>[1] = o
  OBVIOUS
<1>2. \A k \in DOMAIN <<o>> : OpKnown(<<o>>[k], url', activeTabId, neverAllowed) /\
                              <<o>>[k].step = "begin"
  BY <1>1
<1>3. \A t \in Tabs : Open(t)' => Open(t)
  BY DEF Open
<1>4. LoadsGuarded'
  BY ClosedPagesGuarded
<1>5. CASE UNCHANGED <<focused, InFront>> /\ Keeps(o, focused, InFront)
  <2>1. \A k \in DOMAIN <<o>> : Keeps(<<o>>[k], focused, InFront)
    BY <1>1, <1>5
  <2>2. InFront # NoTab => url'[InFront] = url[InFront] /\ (Excused => Excused')
    BY <1>5, PageInFrontStays
  <2> QED
    BY <1>1, <1>2, <1>3, <1>4, <1>5, <2>1, <2>2, EventSound
<1>6. CASE Settles(o, focused', InFront')
  <2>1. \E k \in DOMAIN <<o>> :
           /\ Settles(<<o>>[k], focused', InFront')
           /\ \A j \in DOMAIN <<o>> : j > k => Keeps(<<o>>[j], focused', InFront')
    BY <1>1, <1>6
  <2> QED
    BY <1>1, <1>2, <1>3, <1>4, <2>1, EventSound
<1> QED
  BY <1>5, <1>6

\* Another tab comes to the front of its window.
LEMMA SwitchTabSound ==
    ASSUME WorkerSound, NEW t \in Tabs, SwitchTab(t)
    PROVE  WorkerSound'
<1> DEFINE w == WindowOf[t]
           o == Op("activated", t, w)
<1>1. /\ w \in Windows /\ w # NoWindow /\ o \in Ops
      /\ o.kind = "activated" /\ o.tab = t /\ o.window = w /\ o.step = "begin"
  BY NewOps, BrowserAssumption
<1> HIDE DEF o
<1>2. /\ Open(t) /\ active' = [active EXCEPT ![w] = t] /\ Dispatch(<<o>>) /\ inputs < MaxInputs
      /\ inputs' = inputs + 1
      /\ UNCHANGED <<focused, lastFocused, url, loading, blocked, activeTabId, navs,
                     lastCheckedURLByTab, visit, neverAllowed, unchecked, lookupFailed,
                     unfollowed>>
  BY DEF SwitchTab, Untouched, history, Input, o
<1>3. /\ TypeOK /\ active' \in [Windows -> Tabs \cup {NoTab}]
      /\ \A v \in Windows : active'[v] = IF v = w THEN t ELSE active[v]
  BY <1>1, <1>2 DEF WorkerSound, TypeOK
<1>4. <<o>> \in Seq(Ops)
  BY <1>1
<1>5. TypeOK'
  <2>1. queue' \in Seq(Ops) /\ awake' \in BOOLEAN
    BY <1>2, <1>3, <1>4, DispatchTypes DEF TypeOK
  <2> QED
    BY <1>2, <1>3, <2>1 DEF TypeOK
<1>6. WindowsKnown'
  BY <1>1, <1>2, <1>3, BrowserAssumption DEF WorkerSound, WindowsKnown, WindowTabs, Open
<1>7. OpKnown(o, url', activeTabId, neverAllowed)
  BY <1>1 DEF OpKnown
<1>8. \/ focused = w /\ InFront' = t
      \/ focused # w /\ InFront' = InFront
  BY <1>1, <1>2, <1>3 DEF InFront, TypeOK
<1>9. CASE focused = w
  <2>1. Settles(o, focused', InFront')
    BY <1>1, <1>2, <1>8, <1>9 DEF Settles
  <2> QED
    BY <1>1, <1>2, <1>5, <1>6, <1>7, <2>1, PlainEventSound
<1>10. CASE focused # w
  <2>1. Keeps(o, focused, InFront) /\ InFront' = InFront
    BY <1>1, <1>8, <1>10 DEF Keeps
  <2> QED
    BY <1>1, <1>2, <1>5, <1>6, <1>7, <2>1, PlainEventSound
<1> QED
  BY <1>9, <1>10

\* Another window, or none, comes to the front.
LEMMA FocusSound ==
    ASSUME WorkerSound, NEW w \in Windows \cup {NoWindow}, Focus(w)
    PROVE  WorkerSound'
<1> DEFINE o == Op("focus", NoTab, w)
<1>1. /\ o \in Ops /\ o.kind = "focus" /\ o.window = w /\ o.step = "begin"
  BY NewOps
<1> HIDE DEF o
<1>2. /\ w # NoWindow => active[w] # NoTab
      /\ focused' = w /\ lastFocused' = IF w = NoWindow THEN lastFocused ELSE w
      /\ Dispatch(<<o>>) /\ inputs < MaxInputs /\ inputs' = inputs + 1
      /\ UNCHANGED <<active, url, loading, blocked, activeTabId, navs, lastCheckedURLByTab, visit,
                     neverAllowed, unchecked, lookupFailed, unfollowed>>
  BY DEF Focus, Untouched, history, Input, o
<1>3. <<o>> \in Seq(Ops)
  BY <1>1
<1>4. TypeOK'
  <2>1. queue' \in Seq(Ops) /\ awake' \in BOOLEAN /\ TypeOK
    BY <1>2, <1>3, DispatchTypes DEF WorkerSound, TypeOK
  <2> QED
    BY <1>2, <2>1 DEF TypeOK
<1>5. WindowsKnown'
  BY <1>2 DEF WorkerSound, WindowsKnown, WindowTabs, Open
<1>6. OpKnown(o, url', activeTabId, neverAllowed)
  BY <1>1 DEF OpKnown
<1>7. Settles(o, focused', InFront')
  BY <1>1, <1>2 DEF Settles
<1> QED
  BY <1>1, <1>2, <1>4, <1>5, <1>6, <1>7, PlainEventSound
\* A tab is closed; the one that comes to the front has its event queued.
LEMMA CloseTabSound ==
    ASSUME WorkerSound, NEW t \in Tabs, CloseTab(t)
    PROVE  WorkerSound'
<1> DEFINE w == WindowOf[t]
           others == WindowTabs(w) \ {t}
           removed == Op("removed", t, w)
<1>1. /\ w \in Windows /\ w # NoWindow /\ removed \in Ops /\ t # NoTab
      /\ removed.kind = "removed" /\ removed.tab = t /\ removed.window = w
      /\ removed.step = "begin"
  BY NewOps, BrowserAssumption
<1>2. /\ Open(t) /\ url' = [url EXCEPT ![t] = NoTab] /\ inputs < MaxInputs /\ inputs' = inputs + 1
      /\ loading' = [loading EXCEPT ![t] = NoTab]
      /\ UNCHANGED <<lastFocused, blocked, activeTabId, navs, lastCheckedURLByTab, visit,
                     neverAllowed, unchecked, lookupFailed, unfollowed>>
  BY DEF CloseTab, Untouched, history, Input
<1>3. /\ TypeOK /\ WindowsKnown /\ url' \in [Tabs -> Pages \cup {NoTab}]
      /\ \A s \in Tabs : url'[s] = IF s = t THEN NoTab ELSE url[s]
      /\ loading' \in [Tabs -> Pages \cup {NoTab}]
      /\ \A s \in Tabs : \/ url'[s] = url[s] /\ loading'[s] = loading[s]
                         \/ url'[s] = NoTab /\ loading'[s] = NoTab
  BY <1>2 DEF WorkerSound, TypeOK
<1>4. OpKnown(removed, url', activeTabId, neverAllowed)
  BY <1>1, <1>3 DEF OpKnown
<1>5. /\ \A v \in Windows : WindowTabs(v)' = WindowTabs(v) \ {t}
      /\ \A s \in Tabs : Open(s)' <=> Open(s) /\ s # t
  BY <1>1, <1>3 DEF WindowTabs, Open
<1>6. \/ /\ active[w] # t /\ Dispatch(<<removed>>) /\ UNCHANGED <<active, focused>>
      \/ /\ active[w] = t /\ UNCHANGED focused
         /\ \E s \in others, order \in {<<1, 2>>, <<2, 1>>} :
               LET ops == <<removed, Op("activated", s, w)>>
               IN  /\ active' = [active EXCEPT ![w] = s]
                   /\ Dispatch(<<ops[order[1]], ops[order[2]]>>)
      \/ /\ active[w] = t /\ others = {} /\ active' = [active EXCEPT ![w] = NoTab]
         /\ focused' = IF focused = w THEN NoWindow ELSE focused
         /\ Dispatch(IF focused = w THEN <<removed, Op("focus", NoTab, NoWindow)>>
                                    ELSE <<removed>>)
  BY DEF CloseTab
<1>7. focused # NoWindow => InFront = active[focused] /\ focused \in Windows
  BY <1>3 DEF InFront, TypeOK
<1> HIDE DEF removed
<1>8. CASE active[w] # t /\ Dispatch(<<removed>>) /\ UNCHANGED <<active, focused>>
  <2>1. InFront # t
    BY <1>1, <1>3, <1>7, <1>8, WorkerTypes
  <2>2. Keeps(removed, focused, InFront) /\ InFront' = InFront
    BY <1>1, <1>8, <2>1 DEF Keeps, InFront
  <2>3. <<removed>> \in Seq(Ops)
    BY <1>1
  <2>4. queue' \in Seq(Ops) /\ awake' \in BOOLEAN
    BY <1>3, <1>8, <2>3, DispatchTypes DEF TypeOK
  <2>5. TypeOK'
    BY <1>2, <1>3, <1>8, <2>4 DEF TypeOK
  <2>6. WindowsKnown'
    <3>1. active[w] # NoTab
      BY <1>1, <1>2, <1>3 DEF WindowsKnown, WindowTabs
    <3>2. ASSUME NEW v \in Windows
          PROVE  IF active'[v] = NoTab THEN WindowTabs(v)' = {}
                 ELSE WindowOf[active'[v]] = v /\ url'[active'[v]] # NoTab
      <4>1. CASE active[v] = NoTab
        BY <1>3, <1>5, <1>8, <4>1 DEF WindowsKnown
      <4>2. CASE active[v] # NoTab
        <5>1. active[v] \in Tabs /\ WindowOf[active[v]] = v /\ Open(active[v])
          BY <1>3, <4>2 DEF WindowsKnown, TypeOK
        <5>2. active[v] # t
          BY <1>8, <5>1
        <5> QED
          BY <1>3, <1>8, <5>1, <5>2, BrowserAssumption DEF Open
      <4> QED
        BY <4>1, <4>2
    <3> QED
      BY <1>2, <1>3, <1>8, <3>1, <3>2 DEF WindowsKnown, Open
  <2> QED
    BY <1>1, <1>2, <1>3, <1>4, <1>8, <2>2, <2>5, <2>6, PlainEventSound
<1>9. ASSUME active[w] = t, UNCHANGED focused, NEW s \in others,
             NEW order \in {<<1, 2>>, <<2, 1>>},
             active' = [active EXCEPT ![w] = s],
             LET ops == <<removed, Op("activated", s, w)>>
             IN  Dispatch(<<ops[order[1]], ops[order[2]]>>)
      PROVE  WorkerSound'
  <2> DEFINE activated == Op("activated", s, w)
  <2>1. s \in Tabs /\ s # t /\ WindowOf[s] = w /\ Open(s)
    BY <1>9 DEF WindowTabs
  <2>2. /\ activated \in Ops /\ activated.kind = "activated" /\ activated.tab = s
        /\ activated.window = w /\ activated.step = "begin"
    BY <1>1, <2>1, NewOps
  <2>3. OpKnown(activated, url', activeTabId, neverAllowed)
    BY <1>1, <2>1, <2>2 DEF OpKnown
  <2> HIDE DEF activated
  <2>4. PICK ops \in {<<removed, activated>>, <<activated, removed>>} : Dispatch(ops)
    <3>1. CASE order = <<1, 2>>
      BY <1>9, <3>1 DEF activated
    <3>2. CASE order = <<2, 1>>
      BY <1>9, <3>2 DEF activated
    <3> QED
      BY <3>1, <3>2
  <2>5. /\ ops \in Seq(Ops) /\ DOMAIN ops = {1, 2}
        /\ ops[1] \in {removed, activated} /\ ops[2] \in {removed, activated}
        /\ activated \in {ops[1], ops[2]}
    <3>1. CASE ops = <<removed, activated>>
      BY <1>1, <2>2, <3>1
    <3>2. CASE ops = <<activated, removed>>
      BY <1>1, <2>2, <3>2
    <3> QED
      BY <2>4, <3>1, <3>2
  <2>6. /\ active' \in [Windows -> Tabs \cup {NoTab}]
        /\ \A v \in Windows : active'[v] = IF v = w THEN s ELSE active[v]
    BY <1>1, <1>3, <1>9, <2>1 DEF TypeOK
  <2>7. TypeOK'
    <3>1. queue' \in Seq(Ops) /\ awake' \in BOOLEAN
      BY <1>3, <2>4, <2>5, DispatchTypes DEF TypeOK
    <3> QED
      BY <1>2, <1>3, <1>9, <2>6, <3>1 DEF TypeOK
  <2>8. WindowsKnown'
    <3>1. ASSUME NEW v \in Windows
          PROVE  IF active'[v] = NoTab THEN WindowTabs(v)' = {}
                 ELSE WindowOf[active'[v]] = v /\ url'[active'[v]] # NoTab
      <4>1. CASE v = w
        BY <1>3, <2>1, <2>6, <4>1, BrowserAssumption DEF Open
      <4>2. CASE v # w
        <5>1. active[v] # t
          BY <1>3, <4>2, BrowserAssumption DEF WindowsKnown, TypeOK
        <5> QED
          BY <1>3, <1>5, <2>6, <4>2, <5>1 DEF WindowsKnown, TypeOK, Open
      <4> QED
        BY <4>1, <4>2
    <3> QED
      BY <1>2, <1>3, <1>9, <2>1, <2>6, <3>1, BrowserAssumption DEF WindowsKnown, Open
  <2>9. \A k \in DOMAIN ops : OpKnown(ops[k], url', activeTabId, neverAllowed) /\
                              ops[k].step = "begin"
    BY <1>1, <1>4, <2>2, <2>3, <2>5
  <2>10. \A q \in Tabs : Open(q)' => Open(q)
    BY <1>5
  <2>11. LoadsGuarded'
    BY <1>2, <1>3, ClosedPagesGuarded
  <2>12. CASE focused = w
    <3>1. InFront' = s /\ focused' = w
      BY <1>1, <1>9, <2>6, <2>12 DEF InFront
    <3>2. Settles(activated, focused', InFront') /\ Keeps(removed, focused', InFront')
      BY <1>1, <2>1, <2>2, <3>1 DEF Settles, Keeps
    <3>3. Keeps(activated, focused', InFront')
      BY <3>2 DEF Keeps
    <3>4. \E k \in DOMAIN ops :
             /\ Settles(ops[k], focused', InFront')
             /\ \A j \in DOMAIN ops : j > k => Keeps(ops[j], focused', InFront')
      BY <2>5, <3>2, <3>3
    <3> QED
      BY <1>2, <2>4, <2>5, <2>7, <2>8, <2>9, <2>10, <2>11, <3>4, EventSound
  <2>13. CASE focused # w
    <3>1. InFront' = InFront
      BY <1>7, <1>9, <2>6, <2>13 DEF InFront
    <3>2. InFront # t
      BY <1>1, <2>13, WorkerTypes
    <3>3. Keeps(activated, focused, InFront) /\ Keeps(removed, focused, InFront)
      BY <1>1, <2>2, <2>13, <3>2 DEF Keeps
    <3>4. \A k \in DOMAIN ops : Keeps(ops[k], focused, InFront)
      BY <2>5, <3>3
    <3>5. InFront # NoTab => url'[InFront] = url[InFront] /\ (Excused => Excused')
      BY <1>2, <1>3, <1>9, <2>8, <3>1, PageInFrontStays
    <3> QED
      BY <1>2, <1>9, <2>4, <2>5, <2>7, <2>8, <2>9, <2>10, <2>11, <3>1, <3>4, <3>5,
         EventSound
  <2> QED
    BY <2>12, <2>13
<1>10. CASE /\ active[w] = t /\ others = {} /\ active' = [active EXCEPT ![w] = NoTab]
            /\ focused' = IF focused = w THEN NoWindow ELSE focused
            /\ Dispatch(IF focused = w THEN <<removed, Op("focus", NoTab, NoWindow)>>
                                       ELSE <<removed>>)
  <2> DEFINE left == Op("focus", NoTab, NoWindow)
  <2>1. left \in Ops /\ left.kind = "focus" /\ left.window = NoWindow /\ left.step = "begin"
    BY NewOps
  <2> HIDE DEF left
  <2>2. /\ active' \in [Windows -> Tabs \cup {NoTab}]
        /\ \A v \in Windows : active'[v] = IF v = w THEN NoTab ELSE active[v]
    BY <1>1, <1>3, <1>10 DEF TypeOK
  <2>3. /\ <<removed>> \in Seq(Ops) /\ <<removed, left>> \in Seq(Ops)
        /\ DOMAIN <<removed, left>> = {1, 2}
    BY <1>1, <2>1
  <2>4. TypeOK'
    <3>1. queue' \in Seq(Ops) /\ awake' \in BOOLEAN
      BY <1>3, <1>10, <2>3, DispatchTypes DEF TypeOK, left
    <3> QED
      BY <1>2, <1>3, <1>10, <2>2, <3>1 DEF TypeOK
  <2>5. WindowsKnown'
    <3>1. ASSUME NEW v \in Windows
          PROVE  IF active'[v] = NoTab THEN WindowTabs(v)' = {}
                 ELSE WindowOf[active'[v]] = v /\ url'[active'[v]] # NoTab
      <4>1. CASE v = w
        BY <1>5, <1>10, <2>2, <4>1
      <4>2. CASE v # w
        <5>1. active[v] # t
          BY <1>3, <4>2, BrowserAssumption DEF WindowsKnown, TypeOK
        <5> QED
          BY <1>3, <1>5, <2>2, <4>2, <5>1 DEF WindowsKnown, TypeOK, Open
      <4> QED
        BY <4>1, <4>2
    <3> QED
      BY <1>2, <1>3, <1>10, <2>2, <3>1, BrowserAssumption DEF WindowsKnown, TypeOK, Open
  <2>6. CASE focused = w
    <3>1. InFront' = NoTab /\ focused' = NoWindow /\ Dispatch(<<removed, left>>)
      BY <1>10, <2>6 DEF InFront, left
    <3>2. Settles(left, focused', InFront')
      BY <2>1, <3>1 DEF Settles
    <3>3. OpKnown(left, url', activeTabId, neverAllowed)
      BY <2>1 DEF OpKnown
    <3>4. \A k \in {1, 2} : /\ OpKnown(<<removed, left>>[k], url', activeTabId, neverAllowed)
                            /\ <<removed, left>>[k].step = "begin"
      BY <1>1, <1>4, <2>1, <3>3
    <3>5. \E k \in {1, 2} :
             /\ Settles(<<removed, left>>[k], focused', InFront')
             /\ \A j \in {1, 2} : j > k => Keeps(<<removed, left>>[j], focused', InFront')
      BY <3>2
    <3>6. \A q \in Tabs : Open(q)' => Open(q)
      BY <1>5
    <3>7. LoadsGuarded'
      BY <1>2, <1>3, ClosedPagesGuarded
    <3> QED
      BY <1>2, <2>3, <2>4, <2>5, <3>1, <3>4, <3>5, <3>6, <3>7, EventSound
  <2>7. CASE focused # w
    <3>1. /\ InFront' = InFront /\ focused' = focused /\ Dispatch(<<removed>>)
      BY <1>7, <1>10, <2>2, <2>7 DEF InFront
    <3>2. InFront # t
      BY <1>1, <2>7, WorkerTypes
    <3>3. Keeps(removed, focused, InFront)
      BY <1>1, <3>2 DEF Keeps
    <3> QED
      BY <1>1, <1>2, <1>3, <1>4, <2>4, <2>5, <3>1, <3>3, PlainEventSound
  <2> QED
    BY <2>6, <2>7
<1> QED
  BY <1>6, <1>8, <1>9, <1>10

\* A navigation begins: its check is on its way before the page is.
LEMMA NavigateSound ==
    ASSUME WorkerSound, NEW t \in Tabs, NEW site \in URLs, Navigate(t, site)
    PROVE  WorkerSound'
<1> DEFINE nav == [tab |-> t, url |-> site, allowed |-> FALSE, step |-> "begin"]
<1>1. /\ loading' = [loading EXCEPT ![t] = site]
      /\ IF loading[t] = BlockedPage THEN Escapes(t) ELSE UNCHANGED unchecked
      /\ navs' = navs \cup {nav} /\ Dispatch(<<>>) /\ inputs < MaxInputs /\ inputs' = inputs + 1
      /\ UNCHANGED <<focused, lastFocused, active, url, blocked, activeTabId, lastCheckedURLByTab,
                     visit, neverAllowed, lookupFailed, unfollowed>>
  BY DEF Navigate, Input
<1>2. nav \in Navs /\ nav.tab = t /\ nav.url = site /\ nav.step = "begin" /\ site # NoTab
  BY BrowserAssumption DEF Navs
<1>3. /\ TypeOK /\ loading' \in [Tabs -> Pages \cup {NoTab}]
      /\ \A s \in Tabs : loading'[s] = IF s = t THEN site ELSE loading[s]
      /\ unchecked \subseteq unchecked' /\ unchecked' \subseteq Tabs
      /\ loading[t] = BlockedPage => t \in unchecked'
  BY <1>1 DEF WorkerSound, TypeOK, Pages, Escapes
<1> HIDE DEF nav
<1>4. TypeOK'
  <2>1. queue' \in Seq(Ops) /\ awake' \in BOOLEAN
    BY <1>1, <1>3, EmptySeq, DispatchTypes DEF TypeOK
  <2> QED
    BY <1>1, <1>2, <1>3, <2>1 DEF TypeOK
<1>5. WindowsKnown' /\ UNCHANGED <<focused, InFront>>
  BY <1>1 DEF WorkerSound, WindowsKnown, WindowTabs, Open, InFront
<1>6. LoadsGuarded'
  BY <1>1, <1>2, <1>3 DEF WorkerSound, LoadsGuarded
<1>7. InFront # NoTab => url'[InFront] = url[InFront] /\ (Excused => Excused')
  BY <1>1, <1>3, <1>5, WorkerTypes DEF Excused
<1>8. <<>> \in Seq(Ops) /\ DOMAIN <<>> = {} /\ \A s \in Tabs : Open(s)' => Open(s)
  BY <1>1 DEF Open
<1> QED
  BY <1>1, <1>2, <1>4, <1>5, <1>6, <1>7, <1>8, EventSound

\* A worker is ended only when it rests, and forgets everything.
LEMMA SuspendSound ==
    ASSUME WorkerSound, Suspend
    PROVE  WorkerSound'
<1>1. /\ queue = <<>> /\ navs = {} /\ awake' = FALSE /\ activeTabId' = NoTab
      /\ lastCheckedURLByTab' = [t \in Tabs |-> BlockedPage]
      /\ unfollowed' = (unfollowed \/ visit # NoVisit)
      /\ UNCHANGED <<focused, lastFocused, active, url, loading, blocked, queue, navs, visit,
                     neverAllowed, unchecked, lookupFailed>>
  BY DEF Suspend, Quiet, browser
<1>2. TypeOK' /\ WindowsKnown'
  BY <1>1 DEF WorkerSound, TypeOK, WindowsKnown, WindowTabs, Open, Pages
<1>3. BlockedPage \notin neverAllowed
  BY BrowserAssumption DEF WorkerSound, TypeOK
<1>4. QueueKnown' /\ QueueLeads' /\ FollowedLeads'
  BY <1>1, <1>3 DEF QueueKnown, Quiet, QueueLeads, FollowedLeads, Leads
<1>5. PageGuarded' /\ LoadsGuarded'
  BY <1>1 DEF WorkerSound, PageGuarded, Guarded, Excused, LoadsGuarded, InFront
<1>6. VisitIsFollowed'
  BY <1>1 DEF VisitIsFollowed
<1> QED
  BY <1>2, <1>4, <1>5, <1>6 DEF WorkerSound

\* What the worker is not told of: the page in front, if it is another one now,
\* was guarded while it was loaded.
LEMMA UnnoticedSound ==
    ASSUME WorkerSound, TypeOK', LoadsGuarded',
           UNCHANGED <<focused, lastFocused, active, worker, visit, lookupFailed, unfollowed>>,
           neverAllowed' \subseteq neverAllowed,
           \A t \in Tabs : Open(t)' <=> Open(t),
           InFront # NoTab /\ url'[InFront] \in neverAllowed' /\ ~Excused' =>
               \/ url'[InFront] = url[InFront] /\ ~Excused
               \/ \E n \in navs : n.tab = InFront /\ n.url = url'[InFront]
    PROVE  WorkerSound'
<1>1. /\ UNCHANGED <<awake, queue, activeTabId, navs, lastCheckedURLByTab>>
      /\ UNCHANGED InFront
  BY DEF worker, InFront
<1>2. TypeOK /\ WindowsKnown
  BY DEF WorkerSound
<1>3. WindowsKnown'
  <2>1. \A w \in Windows : WindowTabs(w)' = WindowTabs(w)
    BY DEF WindowTabs
  <2> QED
    BY <1>2, <2>1 DEF WindowsKnown, TypeOK, Open
<1>4. QueueKnown'
  <2>1. QueueKnown
    BY DEF WorkerSound
  <2>2. \A i \in DOMAIN queue : OpKnown(queue[i], url', activeTabId, neverAllowed')
    BY <2>1 DEF QueueKnown, OpKnown, Open
  <2> QED
    BY <1>1, <2>1, <2>2 DEF QueueKnown, Quiet
<1>5. QueueLeads' /\ FollowedLeads' /\ VisitIsFollowed'
  BY <1>1 DEF WorkerSound, QueueLeads, FollowedLeads, VisitIsFollowed
<1>6. PageGuarded'
  <2> SUFFICES ASSUME InFront # NoTab, url'[InFront] \in neverAllowed', ~Excused'
               PROVE  Guarded'
    BY <1>1 DEF PageGuarded
  <2>1. CASE url'[InFront] = url[InFront] /\ ~Excused
    <3>1. Guarded
      BY <2>1 DEF WorkerSound, PageGuarded
    <3> QED
      BY <1>1, <2>1, <3>1 DEF Guarded
  <2>2. CASE \E n \in navs : n.tab = InFront /\ n.url = url'[InFront]
    BY <1>1, <2>2 DEF Guarded
  <2> QED
    BY <2>1, <2>2
<1> QED
  BY <1>3, <1>4, <1>5, <1>6 DEF WorkerSound

\* A page is loaded, in front of its check unless it has been let through.
LEMMA CommitLoadSound ==
    ASSUME WorkerSound, NEW t \in Tabs, CommitLoad(t)
    PROVE  WorkerSound'
<1>1. /\ Open(t) /\ loading[t] # NoTab
      /\ url' = [url EXCEPT ![t] = loading[t]] /\ loading' = [loading EXCEPT ![t] = NoTab]
      /\ unchecked' = IF active[WindowOf[t]] = t THEN unchecked ELSE unchecked \ {t}
      /\ UNCHANGED <<focused, lastFocused, active, blocked, worker, visit, neverAllowed,
                     lookupFailed, unfollowed, inputs>>
      /\ UNCHANGED <<awake, queue, activeTabId, navs, lastCheckedURLByTab>>
  BY DEF CommitLoad, Unnoticed, worker
<1>2. /\ TypeOK
      /\ url' \in [Tabs -> Pages \cup {NoTab}] /\ loading' \in [Tabs -> Pages \cup {NoTab}]
      /\ \A s \in Tabs : url'[s] = IF s = t THEN loading[t] ELSE url[s]
      /\ \A s \in Tabs : loading'[s] = IF s = t THEN NoTab ELSE loading[s]
      /\ \A s \in Tabs : s # t => (s \in unchecked' <=> s \in unchecked)
      /\ NoTab \notin neverAllowed
  BY <1>1, BrowserAssumption DEF WorkerSound, TypeOK
<1>3. TypeOK'
  BY <1>1, <1>2 DEF TypeOK
<1>4. LoadsGuarded'
  BY <1>1, <1>2 DEF WorkerSound, LoadsGuarded
<1>5. \A s \in Tabs : Open(s)' <=> Open(s)
  BY <1>1, <1>2 DEF Open
<1>6. ASSUME InFront # NoTab, url'[InFront] \in neverAllowed', ~Excused'
      PROVE  \/ url'[InFront] = url[InFront] /\ ~Excused
             \/ \E n \in navs : n.tab = InFront /\ n.url = url'[InFront]
  <2>1. InFront \in Tabs /\ InFront' = InFront
    BY <1>1, <1>6, WorkerTypes DEF InFront
  <2>2. CASE InFront = t
    <3>1. active[WindowOf[t]] = t
      BY <1>6, <2>2, WorkerTypes DEF InFront
    <3>2. t \notin unchecked /\ loading[t] \in neverAllowed /\ url'[InFront] = loading[t]
      BY <1>1, <1>2, <1>6, <2>1, <2>2, <3>1 DEF Excused
    <3> QED
      BY <2>2, <3>2 DEF WorkerSound, LoadsGuarded
  <2>3. CASE InFront # t
    BY <1>1, <1>2, <1>6, <2>1, <2>3 DEF Excused
  <2> QED
    BY <2>2, <2>3
<1> QED
  BY <1>1, <1>3, <1>4, <1>5, <1>6, UnnoticedSound

\* A page that is given up: the blocked page leaves the one before.
LEMMA AbandonLoadSound ==
    ASSUME WorkerSound, NEW t \in Tabs, AbandonLoad(t)
    PROVE  WorkerSound'
<1>1. /\ loading' = [loading EXCEPT ![t] = NoTab] /\ inputs < MaxInputs /\ inputs' = inputs + 1
      /\ IF loading[t] = BlockedPage THEN Escapes(t) ELSE UNCHANGED unchecked
      /\ UNCHANGED <<focused, lastFocused, active, url, blocked, worker, visit, neverAllowed,
                     lookupFailed, unfollowed>>
      /\ UNCHANGED <<awake, queue, activeTabId, navs, lastCheckedURLByTab>>
  BY DEF AbandonLoad, Unnoticed, worker, Input
<1>2. /\ TypeOK /\ loading' \in [Tabs -> Pages \cup {NoTab}]
      /\ \A s \in Tabs : loading'[s] = IF s = t THEN NoTab ELSE loading[s]
      /\ unchecked \subseteq unchecked' /\ unchecked' \subseteq Tabs
      /\ loading[t] = BlockedPage => t \in unchecked'
      /\ NoTab \notin neverAllowed
  BY <1>1, BrowserAssumption DEF WorkerSound, TypeOK, Escapes
<1>3. TypeOK'
  BY <1>1, <1>2 DEF TypeOK
<1>4. LoadsGuarded'
  BY <1>1, <1>2 DEF WorkerSound, LoadsGuarded
<1>5. \A s \in Tabs : Open(s)' <=> Open(s)
  BY <1>1 DEF Open
<1>6. InFront # NoTab => url'[InFront] = url[InFront] /\ (Excused => Excused')
  BY <1>1, <1>2, WorkerTypes DEF Excused, InFront
<1> QED
  BY <1>1, <1>3, <1>4, <1>5, <1>6, UnnoticedSound

\* A URL that changes without an event escapes its check.
LEMMA ChangeURLSound ==
    ASSUME WorkerSound, NEW t \in Tabs, NEW site \in URLs, ChangeURLSilently(t, site)
    PROVE  WorkerSound'
<1>1. /\ inputs < MaxInputs /\ inputs' = inputs + 1
      /\ \/ loading[t] \in URLs /\ loading' = [loading EXCEPT ![t] = site] /\ UNCHANGED url
         \/ url[t] \in URLs /\ url' = [url EXCEPT ![t] = site] /\ UNCHANGED loading
      /\ unchecked' = unchecked \cup {t}
      /\ UNCHANGED <<focused, lastFocused, active, blocked, worker, visit, neverAllowed,
                     lookupFailed, unfollowed>>
      /\ UNCHANGED <<awake, queue, activeTabId, navs, lastCheckedURLByTab>>
  BY DEF ChangeURLSilently, Unnoticed, worker, Input, Escapes
<1>2. /\ TypeOK
      /\ url' \in [Tabs -> Pages \cup {NoTab}] /\ loading' \in [Tabs -> Pages \cup {NoTab}]
      /\ \A s \in Tabs : s # t => url'[s] = url[s] /\ loading'[s] = loading[s]
      /\ url'[t] = url[t] \/ (url[t] \in URLs /\ url'[t] = site)
      /\ site # NoTab /\ NoTab \notin URLs
  BY <1>1, BrowserAssumption DEF WorkerSound, TypeOK, Pages
<1>3. TypeOK'
  BY <1>1, <1>2 DEF TypeOK
<1>4. LoadsGuarded'
  BY <1>1, <1>2 DEF WorkerSound, LoadsGuarded
<1>5. \A s \in Tabs : Open(s)' <=> Open(s)
  BY <1>2 DEF Open
<1>6. InFront # NoTab /\ ~Excused' => url'[InFront] = url[InFront] /\ ~Excused
  BY <1>1, <1>2, WorkerTypes DEF Excused, InFront
<1> QED
  BY <1>1, <1>3, <1>4, <1>5, <1>6, UnnoticedSound

\* Another policy can only shorten the list of the URLs that no policy allowed.
LEMMA ChangePolicySound ==
    ASSUME WorkerSound, NEW policy \in SUBSET URLs, ChangePolicy(policy)
    PROVE  WorkerSound'
<1>1. /\ inputs < MaxInputs /\ inputs' = inputs + 1
      /\ blocked' = policy /\ neverAllowed' = neverAllowed \cap policy
      /\ UNCHANGED <<focused, lastFocused, active, url, loading, worker, visit, unchecked,
                     lookupFailed, unfollowed>>
      /\ UNCHANGED <<awake, queue, activeTabId, navs, lastCheckedURLByTab>>
  BY DEF ChangePolicy, worker, Input
<1>2. TypeOK'
  BY <1>1 DEF WorkerSound, TypeOK
<1>3. LoadsGuarded'
  BY <1>1 DEF WorkerSound, LoadsGuarded
<1>4. \A s \in Tabs : Open(s)' <=> Open(s)
  BY <1>1 DEF Open
<1>5. InFront # NoTab => url'[InFront] = url[InFront] /\ (Excused => Excused')
  BY <1>1 DEF Excused, InFront
<1> QED
  BY <1>1, <1>2, <1>3, <1>4, <1>5, UnnoticedSound

-----------------------------------------------------------------------------
(* The queue and the navigations                                           *)

\* The policy so far, and the bounds of what steps of the worker change.
LEMMA WorkerParts ==
    ASSUME WorkerSound
    PROVE  /\ TypeOK /\ WindowsKnown /\ QueueKnown
           /\ url \in [Tabs -> Pages \cup {NoTab}] /\ loading \in [Tabs -> Pages \cup {NoTab}]
           /\ neverAllowed \subseteq blocked /\ blocked \subseteq URLs
           /\ unchecked \subseteq Tabs
           /\ visit \in URLs \cup {NoVisit} /\ activeTabId \in Tabs \cup {NoTab}
           /\ lookupFailed \in BOOLEAN /\ unfollowed \in BOOLEAN
           /\ lastCheckedURLByTab \in [Tabs -> Pages]
           /\ NoTab \notin URLs /\ BlockedPage \notin URLs /\ NoTab \notin Tabs
           /\ NoTab # BlockedPage
BY BrowserAssumption DEF WorkerSound, TypeOK

\* A blocked navigation is replaced by the blocked page, or has escaped.
LEMMA BlockingKnown ==
    ASSUME WorkerSound, NEW t \in Tabs, BlockNavigation(t)
    PROVE  /\ loading' \in [Tabs -> Pages \cup {NoTab}] /\ unchecked' \subseteq Tabs
           /\ \A s \in Tabs : loading'[s] \in {loading[s], BlockedPage}
           /\ \A s \in Tabs : s \in unchecked => s \in unchecked' \/ loading'[s] = BlockedPage
           /\ t \in unchecked' \/ loading'[t] = BlockedPage
<1>1. loading \in [Tabs -> Pages \cup {NoTab}] /\ unchecked \subseteq Tabs
  BY WorkerParts
<1>2. CASE Open(t) /\ loading' = [loading EXCEPT ![t] = BlockedPage] /\ unchecked' = unchecked \ {t}
  BY <1>1, <1>2 DEF Pages
<1>3. CASE UNCHANGED loading /\ unchecked' = unchecked \cup {t}
  BY <1>1, <1>3
<1> QED
  BY <1>2, <1>3 DEF BlockNavigation, Escapes

\* The first operation goes on as o, or is done.
LEMMA QueueStepSound ==
    ASSUME WorkerSound, queue # <<>>, NEW o \in Ops, NEW stays \in BOOLEAN,
           queue' = IF stays THEN [queue EXCEPT ![1] = o] ELSE RemoveAt(queue, 1),
           UNCHANGED <<focused, lastFocused, active, url, blocked, awake, navs,
                       lastCheckedURLByTab, neverAllowed>>,
           loading' \in [Tabs -> Pages \cup {NoTab}], unchecked' \subseteq Tabs,
           \A t \in Tabs : loading'[t] \in {loading[t], BlockedPage},
           \A t \in Tabs : t \in unchecked => t \in unchecked' \/ loading'[t] \notin URLs,
           activeTabId' \in Tabs \cup {NoTab}, visit' \in URLs \cup {NoVisit},
           lookupFailed' \in BOOLEAN, unfollowed' \in BOOLEAN,
           stays => OpKnown(o, url, activeTabId', neverAllowed),
           \* what the operation does to the tab followed
           stays /\ Keeps(queue[1], focused, InFront) => Keeps(o, focused, InFront),
           (lookupFailed' => focused = NoWindow) =>
             \/ /\ lookupFailed => focused = NoWindow
                /\ Settles(queue[1], focused, InFront)
                     \/ (activeTabId = InFront /\ Keeps(queue[1], focused, InFront))
                     => \/ stays /\ Settles(o, focused, InFront)
                        \/ /\ activeTabId' = InFront
                           /\ stays => Keeps(o, focused, InFront)
             \/ /\ stays
                /\ Keeps(queue[1], focused, InFront) =>
                     activeTabId' = InFront /\ Keeps(o, focused, InFront),
           \* ... to the page in front
           InFront # NoTab /\ url[InFront] \in neverAllowed /\ ~Excused' =>
             /\ Checks(queue[1], focused, InFront, url[InFront]) =>
                  stays /\ Checks(o, focused, InFront, url[InFront])
             /\ Excused => \/ stays /\ Checks(o, focused, InFront, url[InFront])
                           \/ ~Keeps(queue[1], focused, InFront),
           \* ... and to the visit
           visit' # NoVisit /\ ~unfollowed'
             /\ (visit # NoVisit => activeTabId # NoTab \/ unfollowed \/ queue[1].step = "end")
               => activeTabId' # NoTab \/ (stays /\ o.step = "end")
    PROVE  WorkerSound'
<1>1. /\ TypeOK /\ QueueKnown /\ queue \in Seq(Ops) /\ awake
      /\ QueueLeads /\ FollowedLeads
      /\ InFront \in Tabs \cup {NoTab}
      /\ 1 \in DOMAIN queue /\ Len(queue) \in Nat /\ DOMAIN queue = 1 .. Len(queue)
  BY AfterFirst, WorkerTypes DEF WorkerSound, TypeOK, QueueKnown, Quiet
<1>2. WindowsKnown' /\ UNCHANGED <<focused, InFront>>
  BY DEF WorkerSound, WindowsKnown, WindowTabs, Open, InFront
<1>3. stays => /\ queue' \in Seq(Ops) /\ DOMAIN queue' = DOMAIN queue /\ queue'[1] = o
               /\ \A i \in DOMAIN queue : i # 1 => queue'[i] = queue[i]
               /\ queue' # <<>>
  BY <1>1
<1>4. ~stays => /\ queue' \in Seq(Ops) /\ DOMAIN queue' = 1 .. (Len(queue) - 1)
                /\ \A i \in DOMAIN queue' : i + 1 \in DOMAIN queue /\ queue'[i] = queue[i + 1]
  BY <1>1, AfterFirst
<1>5. TypeOK'
  BY <1>1, <1>3, <1>4 DEF TypeOK
<1>6. ASSUME NEW i \in DOMAIN queue, i # 1
      PROVE  OpKnown(queue[i], url, activeTabId', neverAllowed)
  <2>1. queue[i].step = "begin" /\ OpKnown(queue[i], url, activeTabId, neverAllowed)
    BY <1>1, <1>6 DEF QueueKnown
  <2> QED
    BY <2>1 DEF OpKnown
<1>7. QueueKnown'
  <2>1. \A i \in DOMAIN queue' : OpKnown(queue'[i], url, activeTabId', neverAllowed)
                                /\ (i > 1 => queue'[i].step = "begin")
    <3>1. CASE stays
      BY <1>1, <1>3, <1>6, <3>1 DEF QueueKnown
    <3>2. CASE ~stays
      <4> SUFFICES ASSUME NEW i \in DOMAIN queue'
                   PROVE  /\ OpKnown(queue'[i], url, activeTabId', neverAllowed)
                          /\ i > 1 => queue'[i].step = "begin"
        OBVIOUS
      <4>1. i + 1 \in DOMAIN queue /\ i + 1 > 1 /\ queue'[i] = queue[i + 1]
        BY <1>1, <1>4, <3>2
      <4> QED
        BY <1>1, <1>6, <4>1 DEF QueueKnown
    <3> QED
      BY <3>1, <3>2
  <2> QED
    BY <1>1, <2>1 DEF QueueKnown
<1>8. QueueLeads'
  <2>1. Settles(queue[1], focused, InFront) => Keeps(queue[1], focused, InFront)
    BY DEF Keeps
  <2>2. CASE stays
    <3>1. Leads([queue EXCEPT ![1] = o], InFront, focused, InFront)
      BY <1>1, <2>1, <2>2, LeadsWithFirst DEF QueueLeads
    <3> QED
      BY <1>2, <2>2, <3>1 DEF QueueLeads
  <2>3. CASE ~stays
    BY <1>1, <1>2, <2>3, LeadsWithoutFirst DEF QueueLeads
  <2> QED
    BY <2>2, <2>3
<1>9. FollowedLeads'
  <2> SUFFICES ASSUME lookupFailed' => focused = NoWindow
               PROVE  Leads(queue', activeTabId', focused, InFront)
    BY <1>2 DEF FollowedLeads
  <2>1. CASE /\ lookupFailed => focused = NoWindow
             /\ Settles(queue[1], focused, InFront)
                  \/ (activeTabId = InFront /\ Keeps(queue[1], focused, InFront))
                  => \/ stays /\ Settles(o, focused, InFront)
                     \/ /\ activeTabId' = InFront
                        /\ stays => Keeps(o, focused, InFront)
    <3>1. Leads(queue, activeTabId, focused, InFront)
      BY <1>1, <2>1 DEF FollowedLeads
    <3>2. CASE stays
      BY <1>1, <2>1, <3>1, <3>2, LeadsWithFirst
    <3>3. CASE ~stays
      BY <1>1, <2>1, <3>1, <3>3, LeadsWithoutFirst
    <3> QED
      BY <3>2, <3>3
  <2>2. CASE /\ stays
             /\ Keeps(queue[1], focused, InFront) =>
                  activeTabId' = InFront /\ Keeps(o, focused, InFront)
    <3>1. Settles(queue[1], focused, InFront) => Keeps(queue[1], focused, InFront)
      BY DEF Keeps
    <3> QED
      BY <1>1, <2>2, <3>1, LeadsWithFirst DEF QueueLeads
  <2> QED
    BY <2>1, <2>2
<1>10. ASSUME NEW i \in DOMAIN queue, i # 1, Checks(queue[i], focused, InFront, url[InFront])
       PROVE  \E j \in DOMAIN queue' : Checks(queue'[j], focused, InFront, url[InFront])
  <2>1. CASE stays
    BY <1>3, <1>10, <2>1
  <2>2. CASE ~stays
    <3>1. i - 1 \in DOMAIN queue' /\ (i - 1) + 1 = i
      BY <1>1, <1>4, <1>10, <2>2
    <3>2. queue'[i - 1] = queue[i]
      BY <1>4, <2>2, <3>1
    <3> QED
      BY <1>10, <3>1, <3>2
  <2> QED
    BY <2>1, <2>2
<1>11. PageGuarded'
  <2> SUFFICES ASSUME InFront # NoTab, url[InFront] \in neverAllowed, ~Excused'
               PROVE  \/ \E i \in DOMAIN queue' : Checks(queue'[i], focused, InFront, url[InFront])
                      \/ \E n \in navs : n.tab = InFront /\ n.url = url[InFront]
    BY <1>2 DEF PageGuarded, Guarded
  <2>1. CASE stays /\ Checks(o, focused, InFront, url[InFront])
    BY <1>1, <1>3, <2>1
  <2>2. CASE ~Excused
    <3>1. Guarded
      BY <2>2 DEF WorkerSound, PageGuarded
    <3> QED
      BY <1>10, <2>1, <3>1 DEF Guarded
  <2>3. CASE Excused /\ ~Keeps(queue[1], focused, InFront)
    <3>1. PICK i \in DOMAIN queue : Settles(queue[i], focused, InFront)
      BY <1>1, <2>3 DEF QueueLeads, Leads
    <3>2. i # 1 /\ Checks(queue[i], focused, InFront, url[InFront])
      BY <2>3, <3>1 DEF Keeps, Checks
    <3> QED
      BY <1>10, <3>2
  <2> QED
    BY <2>1, <2>2, <2>3
<1>12. LoadsGuarded'
  <2> SUFFICES ASSUME NEW t \in Tabs, loading'[t] \in neverAllowed, t \notin unchecked'
               PROVE  \E n \in navs : n.tab = t /\ n.url = loading'[t]
    BY DEF LoadsGuarded
  <2>1. loading'[t] \in URLs /\ loading'[t] = loading[t] /\ t \notin unchecked
    BY WorkerParts
  <2> QED
    BY <2>1 DEF WorkerSound, LoadsGuarded
<1>13. VisitIsFollowed'
  <2> SUFFICES ASSUME visit' # NoVisit, ~unfollowed', activeTabId' = NoTab
               PROVE  queue' # <<>> /\ queue'[1].step = "end"
    BY DEF VisitIsFollowed
  <2>1. visit # NoVisit => activeTabId # NoTab \/ unfollowed \/ queue[1].step = "end"
    BY DEF WorkerSound, VisitIsFollowed
  <2> QED
    BY <1>3, <2>1
<1> QED
  BY <1>2, <1>5, <1>7, <1>8, <1>9, <1>11, <1>12, <1>13 DEF WorkerSound

\* The first operation, and what holds of it.
LEMMA FirstKnown ==
    ASSUME WorkerSound, 1 \in DOMAIN queue
    PROVE  /\ queue # <<>> /\ queue[1] \in Ops
           /\ OpKnown(queue[1], url, activeTabId, neverAllowed)
           /\ TypeOK /\ WindowsKnown
<1>1. queue \in Seq(Ops) /\ queue # <<>>
  BY WorkerTypes DEF WorkerSound
<1> QED
  BY <1>1, AfterFirst DEF WorkerSound, QueueKnown

\* The operation finds no tab to follow that it did not follow before.
LEMMA HandledSound ==
    ASSUME WorkerSound, 1 \in DOMAIN queue, NEW o \in Ops, NEW stays \in BOOLEAN,
           IF stays THEN Go(1, o) ELSE Done(1), Keeping,
           activeTabId' \in Tabs \cup {NoTab}, visit' \in URLs \cup {NoVisit},
           lookupFailed' \in BOOLEAN, unfollowed' \in BOOLEAN, lookupFailed => lookupFailed',
           unchecked' \subseteq Tabs,
           \A t \in Tabs : t \in unchecked => t \in unchecked' \/ loading[t] = NoTab,
           stays => OpKnown(o, url, activeTabId', neverAllowed),
           stays /\ Keeps(queue[1], focused, InFront) => Keeps(o, focused, InFront),
           (lookupFailed' => focused = NoWindow) /\
           (Settles(queue[1], focused, InFront)
             \/ (activeTabId = InFront /\ Keeps(queue[1], focused, InFront)))
               => \/ stays /\ Settles(o, focused, InFront)
                  \/ /\ activeTabId' = InFront
                     /\ stays => Keeps(o, focused, InFront),
           InFront # NoTab /\ url[InFront] \in neverAllowed /\ ~lookupFailed'
             /\ InFront \notin unchecked'
             /\ (InFront \in unchecked \/ Checks(queue[1], focused, InFront, url[InFront]))
               => stays /\ Checks(o, focused, InFront, url[InFront]),
           visit' # NoVisit /\ ~unfollowed'
             /\ (visit # NoVisit => activeTabId # NoTab \/ unfollowed \/ queue[1].step = "end")
               => activeTabId' # NoTab \/ (stays /\ o.step = "end")
    PROVE  WorkerSound'
<1>1. queue # <<>>
  BY FirstKnown
<1>2. /\ queue' = IF stays THEN [queue EXCEPT ![1] = o] ELSE RemoveAt(queue, 1)
      /\ UNCHANGED <<focused, lastFocused, active, url, loading, blocked, awake,
                     navs, lastCheckedURLByTab, neverAllowed>>
      /\ UNCHANGED InFront
  BY DEF Go, Done, Keeping, browser, InFront
<1>3. /\ loading' \in [Tabs -> Pages \cup {NoTab}]
      /\ \A t \in Tabs : loading'[t] \in {loading[t], BlockedPage}
      /\ \A t \in Tabs : t \in unchecked => t \in unchecked' \/ loading'[t] \notin URLs
  BY <1>2, WorkerParts
<1>4. (lookupFailed' => focused = NoWindow) =>
        /\ lookupFailed => focused = NoWindow
        /\ Settles(queue[1], focused, InFront)
             \/ (activeTabId = InFront /\ Keeps(queue[1], focused, InFront))
             => \/ stays /\ Settles(o, focused, InFront)
                \/ /\ activeTabId' = InFront
                   /\ stays => Keeps(o, focused, InFront)
  OBVIOUS
<1>5. InFront # NoTab /\ url[InFront] \in neverAllowed /\ ~Excused' =>
        /\ Checks(queue[1], focused, InFront, url[InFront]) =>
             stays /\ Checks(o, focused, InFront, url[InFront])
        /\ Excused => stays /\ Checks(o, focused, InFront, url[InFront])
  BY <1>2 DEF Excused
<1> QED
  BY <1>1, <1>2, <1>3, <1>4, <1>5, QueueStepSound

\* The operation finds the tab to follow, and is going to read its page.
LEMMA FoundSound ==
    ASSUME WorkerSound, 1 \in DOMAIN queue, NEW t \in Tabs, StartTab(1, t), Keeping,
           UNCHANGED unchecked, visit' \in URLs \cup {NoVisit}, unfollowed' \in BOOLEAN,
           queue[1].step \in {"begin", "end", "tab"}, queue[1].kind # "removed",
           Keeps(queue[1], focused, InFront) => t = InFront
    PROVE  WorkerSound'
<1> DEFINE op == queue[1]
           o == [op EXCEPT !.tab = t, !.step = "url"]
<1>1. /\ queue # <<>> /\ op \in Ops /\ OpKnown(op, url, activeTabId, neverAllowed)
  BY FirstKnown
<1>2. /\ queue' = [queue EXCEPT ![1] = o] /\ activeTabId' = t /\ lookupFailed' = FALSE
      /\ UNCHANGED <<focused, lastFocused, active, url, loading, blocked, awake,
                     navs, lastCheckedURLByTab, neverAllowed>>
      /\ UNCHANGED InFront
  BY DEF StartTab, Go, Keeping, browser, InFront
<1>3. o \in Ops /\ o.kind = op.kind /\ o.window = op.window /\ o.tab = t /\ o.step = "url"
  BY <1>1 DEF Ops
<1>4. OpKnown(o, url, activeTabId', neverAllowed)
  BY <1>1, <1>2, <1>3 DEF OpKnown
<1>5. Keeps(o, focused, InFront) /\ (t = InFront => Checks(o, focused, InFront, url[InFront]))
  BY <1>3 DEF Keeps, Checks
<1>6. Checks(op, focused, InFront, url[InFront]) => Keeps(op, focused, InFront)
  BY DEF Checks, Keeps
<1>7. t # NoTab
  BY WorkerParts
<1> HIDE DEF o
<1>8. PICK stays \in BOOLEAN : stays = TRUE
  OBVIOUS
<1> QED
  BY <1>1, <1>2, <1>3, <1>4, <1>5, <1>6, <1>7, <1>8, WorkerParts, QueueStepSound

\* The first operation looks up the window in front.
LEMMA InitializeSound ==
    ASSUME WorkerSound, 1 \in DOMAIN queue, Initialize(1)
    PROVE  WorkerSound'
<1> DEFINE op == queue[1]
           o == [op EXCEPT !.window = focused, !.step = "tab"]
           stays == focused # NoWindow
<1>1. /\ op \in Ops /\ op.kind = "initialize" /\ op.step = "begin" /\ TypeOK
      /\ Keeping /\ UNCHANGED <<activeTabId, lookupFailed, visit, unchecked, unfollowed>>
      /\ IF stays THEN Go(1, o) ELSE Done(1)
  BY FirstKnown DEF Initialize, Following, Looking
<1>2. /\ o \in Ops /\ o.kind = "initialize" /\ o.step = "tab" /\ o.window = focused
  BY <1>1 DEF Ops, TypeOK
<1>3. stays => /\ OpKnown(o, url, activeTabId', neverAllowed)
               /\ Settles(o, focused, InFront) /\ Keeps(o, focused, InFront)
               /\ Checks(o, focused, InFront, url[InFront])
  BY <1>1, <1>2, WorkerTypes DEF OpKnown, Settles, Keeps, Checks
<1>4. ~stays => ~Settles(op, focused, InFront) /\ InFront = NoTab
  BY <1>1, WorkerTypes DEF Settles
<1> HIDE DEF o
<1> QED
  BY <1>1, <1>2, <1>3, <1>4, WorkerParts, HandledSound

\* An operation looks up the tab in front of its window.
LEMMA LookUpTabSound ==
    ASSUME WorkerSound, 1 \in DOMAIN queue, LookUpTab(1)
    PROVE  WorkerSound'
<1> DEFINE op == queue[1]
           t == active[op.window]
<1>1. /\ op \in Ops /\ op.step = "tab" /\ TypeOK /\ WindowsKnown
      /\ op.window \in Windows /\ op.kind # "removed"
  BY FirstKnown DEF LookUpTab, OpKnown
<1>2. /\ Keeping /\ UNCHANGED <<visit, unchecked, unfollowed>>
      /\ IF t = NoTab THEN Done(1) /\ UNCHANGED <<activeTabId, lookupFailed>> ELSE StartTab(1, t)
  BY DEF LookUpTab, Following, Looking
<1>3. t \in Tabs \cup {NoTab}
  BY <1>1 DEF TypeOK
<1>4. Keeps(op, focused, InFront) => focused = op.window /\ t = InFront /\ InFront # NoTab
  BY <1>1, WorkerTypes DEF Keeps, Settles, InFront
<1>5. Settles(op, focused, InFront) => Keeps(op, focused, InFront)
  BY DEF Keeps
<1>6. Checks(op, focused, InFront, url[InFront]) => Settles(op, focused, InFront)
  BY <1>1 DEF Checks
<1> HIDE DEF t
<1>7. CASE t = NoTab
  BY <1>1, <1>2, <1>4, <1>5, <1>6, <1>7, WorkerParts, HandledSound
<1>8. CASE t # NoTab
  BY <1>1, <1>2, <1>3, <1>4, <1>8, WorkerParts, FoundSound
<1> QED
  BY <1>7, <1>8

\* A lookup is rejected: while a window is in front, nothing is promised until
\* a tab is found again.
LEMMA LookUpFailsSound ==
    ASSUME WorkerSound, 1 \in DOMAIN queue, LookUpFails(1)
    PROVE  WorkerSound'
<1> DEFINE op == queue[1]
<1>1. /\ op \in Ops /\ OpKnown(op, url, activeTabId, neverAllowed)
      /\ \/ op.kind \in {"initialize", "activated"} /\ op.step = "begin"
         \/ op.step = "tab"
      /\ Done(1) /\ lookupFailed' = TRUE /\ Keeping
      /\ UNCHANGED <<visit, unchecked, unfollowed, activeTabId>>
  BY FirstKnown DEF LookUpFails, Looking
<1>2. focused = NoWindow => ~Settles(op, focused, InFront)
  BY <1>1, WorkerTypes DEF Settles, OpKnown
<1> QED
  BY <1>1, <1>2, WorkerParts, HandledSound

\* What an operation that has ended the visit, or found none, goes on with.
LEMMA AfterEndSound ==
    ASSUME WorkerSound, 1 \in DOMAIN queue, AfterEnd(1), Keeping, UNCHANGED unchecked,
           visit' \in URLs \cup {NoVisit}, unfollowed' \in BOOLEAN,
           \/ queue[1].step = "end"
           \/ /\ queue[1].step = "begin" /\ activeTabId = NoTab
              /\ \/ queue[1].kind = "activated" /\ queue[1].window = focused
                 \/ queue[1].kind = "focus",
           \/ visit' # NoVisit => unfollowed'
           \/ queue[1].step = "begin" /\ UNCHANGED <<visit, unfollowed>>
    PROVE  WorkerSound'
<1> DEFINE op == queue[1]
<1>1. op \in Ops /\ OpKnown(op, url, activeTabId, neverAllowed) /\ TypeOK /\ activeTabId = NoTab
  BY FirstKnown DEF OpKnown
<1>2. visit' # NoVisit /\ ~unfollowed'
        /\ (visit # NoVisit => activeTabId # NoTab \/ unfollowed \/ op.step = "end")
        => activeTabId' # NoTab
  BY <1>1
<1>3. Checks(op, focused, InFront, url[InFront]) => Settles(op, focused, InFront)
  BY DEF Checks
<1>4. CASE op.kind = "activated"
  <2>1. StartTab(1, op.tab)
    BY <1>4 DEF AfterEnd
  <2>2. op.tab \in Tabs
    BY <1>1, <1>4 DEF OpKnown
  <2>3. Keeps(op, focused, InFront) => op.tab = InFront
    BY <1>4 DEF Settles, Keeps
  <2> QED
    BY <1>4, <2>1, <2>2, <2>3, FoundSound
<1>5. CASE op.kind = "focus" /\ op.window # NoWindow
  <2> DEFINE o == [op EXCEPT !.step = "tab"]
  <2>1. activeTabId' = NoTab /\ UNCHANGED lookupFailed /\ Go(1, o)
    BY <1>5 DEF AfterEnd
  <2>2. o \in Ops /\ o.kind = "focus" /\ o.window = op.window
        /\ o.step = "tab" /\ o.window \in Windows
    BY <1>1, <1>5 DEF Ops
  <2>3. OpKnown(o, url, activeTabId', neverAllowed)
    BY <2>2 DEF OpKnown
  <2>4. Settles(op, focused, InFront) \/ Keeps(op, focused, InFront) => Settles(o, focused, InFront)
    BY <1>5, <2>2 DEF Settles, Keeps
  <2>5. Settles(o, focused, InFront) => /\ Checks(o, focused, InFront, url[InFront])
                                        /\ Keeps(o, focused, InFront)
    BY DEF Checks, Keeps
  <2> HIDE DEF o
  <2> QED
    BY <1>2, <1>3, <2>1, <2>2, <2>3, <2>4, <2>5, WorkerParts, HandledSound
<1>6. CASE op.kind # "activated" /\ ~(op.kind = "focus" /\ op.window # NoWindow)
  <2>1. activeTabId' = NoTab /\ UNCHANGED lookupFailed /\ Done(1)
    BY <1>6 DEF AfterEnd
  <2>2. Settles(op, focused, InFront) => InFront = NoTab
    BY <1>6, WorkerTypes DEF Settles
  <2> QED
    BY <1>1, <1>2, <1>3, <2>1, <2>2, WorkerParts, HandledSound
<1> QED
  BY <1>4, <1>5, <1>6

\* An operation first ends the visit of the tab it leaves.
LEMMA FinishSound ==
    ASSUME WorkerSound, 1 \in DOMAIN queue, FinishCurrentVisit(1), Keeping,
           UNCHANGED <<visit, unchecked, unfollowed>>, queue[1].step = "begin",
           \/ queue[1].kind = "activated" /\ queue[1].window = focused
           \/ queue[1].kind = "focus"
           \/ queue[1].kind = "removed" /\ queue[1].tab = activeTabId
    PROVE  WorkerSound'
<1> DEFINE op == queue[1]
           o == [op EXCEPT !.step = "end"]
<1>1. op \in Ops /\ OpKnown(op, url, activeTabId, neverAllowed)
  BY FirstKnown
<1>2. op.kind = "removed" => activeTabId # NoTab /\ url[op.tab] = NoTab
  BY <1>1, WorkerTypes DEF OpKnown
<1>3. CASE activeTabId = NoTab
  BY <1>1, <1>2, <1>3, WorkerParts, AfterEndSound DEF FinishCurrentVisit
<1>4. CASE activeTabId # NoTab
  <2>1. activeTabId' = NoTab /\ UNCHANGED lookupFailed /\ Go(1, o)
    BY <1>4 DEF FinishCurrentVisit
  <2>2. /\ o \in Ops /\ o.kind = op.kind /\ o.tab = op.tab /\ o.window = op.window
        /\ o.step = "end"
    BY <1>1 DEF Ops
  <2>3. OpKnown(o, url, activeTabId', neverAllowed)
    BY <1>1, <2>1, <2>2 DEF OpKnown
  <2>4. Settles(op, focused, InFront) => Settles(o, focused, InFront)
    BY <2>2 DEF Settles
  <2>5. activeTabId = InFront /\ Keeps(op, focused, InFront) => Settles(op, focused, InFront)
    BY DEF Keeps
  <2>6. Keeps(op, focused, InFront) => Keeps(o, focused, InFront)
    BY <2>2, <2>4 DEF Keeps
  <2>7. Checks(op, focused, InFront, url[InFront]) => Settles(op, focused, InFront)
    BY DEF Checks
  <2>8. Settles(o, focused, InFront) => Checks(o, focused, InFront, url[InFront])
    BY DEF Checks
  <2> HIDE DEF o
  <2> QED
    BY <1>1, <2>1, <2>2, <2>3, <2>4, <2>5, <2>6, <2>7, <2>8, WorkerParts, HandledSound
<1> QED
  BY <1>3, <1>4

\* The three events that wait in the queue.
LEMMA EventsHandledSound ==
    ASSUME WorkerSound, 1 \in DOMAIN queue,
           HandleTabActivated(1) \/ HandleWindowFocusChanged(1) \/ HandleTabRemoved(1)
    PROVE  WorkerSound'
<1> DEFINE op == queue[1]
<1>1. op \in Ops /\ OpKnown(op, url, activeTabId, neverAllowed)
  BY FirstKnown
<1>2. /\ op.step = "begin" /\ Keeping /\ UNCHANGED <<visit, unchecked, unfollowed>>
  BY DEF HandleTabActivated, HandleWindowFocusChanged, HandleTabRemoved, Looking
<1>3. CASE /\ FinishCurrentVisit(1)
           /\ \/ op.kind = "activated" /\ op.window = focused
              \/ op.kind = "focus"
              \/ op.kind = "removed" /\ op.tab = activeTabId
  BY <1>2, <1>3, FinishSound
<1>4. CASE /\ \/ op.kind = "activated" /\ op.window # focused
              \/ op.kind = "removed" /\ op.tab # activeTabId
           /\ Done(1) /\ UNCHANGED <<activeTabId, lookupFailed>>
  <2>1. ~Settles(op, focused, InFront) /\ ~Checks(op, focused, InFront, url[InFront])
    BY <1>2, <1>4 DEF Settles, Checks
  <2> QED
    BY <1>1, <1>2, <1>4, <2>1, WorkerParts, HandledSound
<1> QED
  BY <1>3, <1>4 DEF HandleTabActivated, HandleWindowFocusChanged, HandleTabRemoved, Following

\* The daemon ends the visit, or the call fails.
LEMMA VisitEndSound ==
    ASSUME WorkerSound, 1 \in DOMAIN queue, EndServed(1) \/ EndFails(1)
    PROVE  WorkerSound'
BY WorkerParts, AfterEndSound DEF EndServed, EndFails

\* The page of the tab followed is read, or it is not.
LEMMA ReadingSound ==
    ASSUME WorkerSound, 1 \in DOMAIN queue, ReadURL(1) \/ ReadFails(1)
    PROVE  WorkerSound'
<1> DEFINE op == queue[1]
           site == url[op.tab]
           o == [op EXCEPT !.url = site, !.step = "check"]
<1>1. /\ op \in Ops /\ OpKnown(op, url, activeTabId, neverAllowed) /\ op.step = "url"
      /\ Keeping /\ UNCHANGED <<activeTabId, lookupFailed, visit, unfollowed>>
  BY FirstKnown DEF ReadURL, ReadFails, Following
<1>2. op.tab \in Tabs /\ op.tab = activeTabId /\ op.kind # "removed"
  BY <1>1 DEF OpKnown
<1>3. ~Settles(op, focused, InFront)
  BY <1>1 DEF Settles
<1>4. Checks(op, focused, InFront, url[InFront]) => op.tab = InFront
  BY <1>1, <1>3 DEF Checks
<1>5. CASE ReadURL(1)
  <2> DEFINE stays == site \in URLs
  <2>1. /\ IF stays THEN Go(1, o) ELSE Done(1)
        /\ unchecked' = IF loading[op.tab] = NoTab THEN unchecked \ {op.tab} ELSE unchecked
    BY <1>5 DEF ReadURL
  <2>2. /\ unchecked' \subseteq Tabs
        /\ \A t \in Tabs : t \in unchecked => t \in unchecked' \/ loading[t] = NoTab
        /\ InFront \in unchecked /\ InFront \notin unchecked' => op.tab = InFront
    BY <2>1, WorkerParts
  <2>3. stays => /\ o \in Ops /\ o.kind = op.kind /\ o.tab = op.tab /\ o.window = op.window
                 /\ o.url = site /\ o.step = "check"
    BY <1>1 DEF Ops, Pages
  <2>4. stays => OpKnown(o, url, activeTabId', neverAllowed) /\ Keeps(o, focused, InFront)
    BY <1>1, <1>2, <2>3 DEF OpKnown, Keeps
  <2>5. op.tab = InFront /\ url[InFront] \in neverAllowed =>
          stays /\ Checks(o, focused, InFront, url[InFront])
    BY <2>3, WorkerParts DEF Checks
  <2>6. PICK next \in Ops : stays => next = o
    BY <1>1, <2>3
  <2> HIDE DEF o
  <2> QED
    BY <1>1, <1>2, <1>3, <1>4, <2>1, <2>2, <2>3, <2>4, <2>5, <2>6, WorkerParts, HandledSound
<1>6. CASE ReadFails(1)
  <2>1. Done(1) /\ unchecked' = unchecked \cup {op.tab}
    BY <1>6 DEF ReadFails, Escapes
  <2> QED
    BY <1>1, <1>2, <1>3, <1>4, <2>1, WorkerParts, HandledSound
<1> QED
  BY <1>5, <1>6

\* The daemon checks what has been read, or fails to.
LEMMA ChecksSound ==
    ASSUME WorkerSound, 1 \in DOMAIN queue, CheckServed(1) \/ CheckFails(1)
    PROVE  WorkerSound'
<1> DEFINE op == queue[1]
<1>1. /\ op \in Ops /\ OpKnown(op, url, activeTabId, neverAllowed) /\ op.step = "check"
      /\ Keeping /\ UNCHANGED <<activeTabId, lookupFailed>>
  BY FirstKnown DEF CheckServed, CheckFails, Following
<1>2. /\ op.tab \in Tabs /\ op.tab = activeTabId /\ op.kind # "removed" /\ op.url \in URLs
      /\ activeTabId # NoTab /\ VisitAfter(op.url) \in URLs \cup {NoVisit}
  BY <1>1, WorkerParts DEF OpKnown, VisitAfter
<1>3. ~Settles(op, focused, InFront)
  BY <1>1 DEF Settles
<1>4. Checks(op, focused, InFront, url[InFront]) => op.tab = InFront /\ op.url = url[InFront]
  BY <1>1, <1>3 DEF Checks
<1>5. CASE CheckServed(1)
  <2> DEFINE o == [op EXCEPT !.allowed = Allowed(op.url), !.step = "answer"]
  <2>1. Go(1, o) /\ visit' = VisitAfter(op.url) /\ UNCHANGED <<unchecked, unfollowed>>
    BY <1>5 DEF CheckServed
  <2>2. /\ o \in Ops /\ o.kind = op.kind /\ o.tab = op.tab /\ o.window = op.window
        /\ o.url = op.url /\ o.step = "answer" /\ o.allowed = Allowed(op.url)
    BY <1>1 DEF Ops, Allowed
  <2>3. OpKnown(o, url, activeTabId', neverAllowed) /\ Keeps(o, focused, InFront)
    BY <1>1, <1>2, <2>2, WorkerParts DEF OpKnown, Keeps, Allowed
  <2>4. op.tab = InFront /\ op.url = url[InFront] => Checks(o, focused, InFront, url[InFront])
    BY <2>2 DEF Checks
  <2> HIDE DEF o
  <2>5. PICK stays \in BOOLEAN : stays = TRUE
    OBVIOUS
  <2> QED
    BY <1>1, <1>2, <1>3, <1>4, <2>1, <2>2, <2>3, <2>4, <2>5, WorkerParts, HandledSound
<1>6. CASE CheckFails(1)
  <2>1. /\ Done(1) /\ unchecked' = unchecked \cup {op.tab} /\ UNCHANGED unfollowed
        /\ visit' \in URLs \cup {NoVisit}
    BY <1>2, <1>6, WorkerParts DEF CheckFails, Escapes
  <2> QED
    BY <1>1, <1>2, <1>3, <1>4, <2>1, WorkerParts, HandledSound
<1> QED
  BY <1>5, <1>6

\* The answer of the daemon is applied to what the tab shows by then.
LEMMA DecisionSound ==
    ASSUME WorkerSound, 1 \in DOMAIN queue, HandleURLDecision(1)
    PROVE  WorkerSound'
<1> DEFINE op == queue[1]
<1>1. /\ queue # <<>> /\ op \in Ops /\ op.step = "answer" /\ op.tab \in Tabs
      /\ op.tab = activeTabId /\ (op.allowed => op.url \notin neverAllowed)
  BY FirstKnown DEF HandleURLDecision, OpKnown
<1>2. /\ IF op.allowed THEN UNCHANGED <<loading, unchecked>> ELSE BlockNavigation(op.tab)
      /\ queue' = RemoveAt(queue, 1)
      /\ UNCHANGED <<focused, lastFocused, active, url, blocked, awake, activeTabId, navs,
                     lastCheckedURLByTab, visit, neverAllowed, lookupFailed, unfollowed>>
      /\ UNCHANGED InFront
  BY DEF HandleURLDecision, Done, Following, InFront
<1>3. /\ loading' \in [Tabs -> Pages \cup {NoTab}] /\ unchecked' \subseteq Tabs
      /\ \A s \in Tabs : loading'[s] \in {loading[s], BlockedPage}
      /\ \A s \in Tabs : s \in unchecked => s \in unchecked' \/ loading'[s] = BlockedPage
      /\ ~op.allowed => op.tab \in unchecked' \/ loading'[op.tab] = BlockedPage
  BY <1>1, <1>2, BlockingKnown, WorkerParts
<1>4. ~Settles(op, focused, InFront)
  BY <1>1 DEF Settles
<1>5. Checks(op, focused, InFront, url[InFront]) /\ url[InFront] \in neverAllowed => Excused'
  BY <1>1, <1>2, <1>3, <1>4 DEF Checks, Excused
<1>6. InFront # NoTab /\ Excused => Excused'
  BY <1>2, <1>3, WorkerTypes DEF Excused
<1>7. activeTabId # NoTab
  BY <1>1, WorkerParts
<1>8. PICK stays \in BOOLEAN : stays = FALSE
  OBVIOUS
<1> QED
  BY <1>1, <1>2, <1>3, <1>4, <1>5, <1>6, <1>7, <1>8, WorkerParts, QueueStepSound

\* Every step of the first operation keeps the invariant.
LEMMA QueueOpSound ==
    ASSUME WorkerSound, NEW i \in DOMAIN queue, Step(i)
    PROVE  WorkerSound'
<1>1. 1 \in DOMAIN queue /\ Step(1)
  BY DEF Step, Runs
<1> QED
  BY <1>1, InitializeSound, LookUpTabSound, LookUpFailsSound, EventsHandledSound, VisitEndSound,
     ReadingSound, ChecksSound, DecisionSound
  DEF Step

\* A navigation goes on as m, or is done.  Until then it guards the page it
\* leads to, unless that page has been let through, replaced or never refused.
LEMMA NavigationOpSound ==
    ASSUME WorkerSound, NEW n \in navs, NEW m \in Navs, NEW stays \in BOOLEAN,
           navs' = (navs \ {n}) \cup (IF stays THEN {m} ELSE {}), Beside,
           m.step = "answer" /\ m.allowed => m.url \notin neverAllowed,
           loading' \in [Tabs -> Pages \cup {NoTab}], unchecked' \subseteq Tabs,
           \A t \in Tabs : loading'[t] \in {loading[t], BlockedPage},
           \A t \in Tabs : t \in unchecked => t \in unchecked' \/ loading'[t] = BlockedPage,
           lastCheckedURLByTab' \in [Tabs -> Pages],
           \A t \in Tabs : lastCheckedURLByTab'[t] \notin neverAllowed,
           visit' \in URLs \cup {NoVisit}, unfollowed' \in BOOLEAN, unfollowed => unfollowed',
           visit' # visit /\ activeTabId = NoTab => unfollowed',
           n.url \in neverAllowed =>
               \/ stays /\ m.tab = n.tab /\ m.url = n.url
               \/ /\ loading'[n.tab] = n.url => n.tab \in unchecked'
                  /\ n.tab = InFront => Excused'
    PROVE  WorkerSound'
<1>1. /\ TypeOK /\ QueueKnown /\ awake /\ InFront \in Tabs \cup {NoTab}
  BY WorkerTypes DEF WorkerSound, QueueKnown, Quiet
<1>2. UNCHANGED <<focused, lastFocused, active, url, blocked, awake, queue, activeTabId,
                  neverAllowed, lookupFailed>>
  BY DEF Beside
<1>3. WindowsKnown' /\ UNCHANGED <<focused, InFront>>
  BY <1>2 DEF WorkerSound, WindowsKnown, WindowTabs, Open, InFront
<1>4. TypeOK'
  BY <1>1, <1>2 DEF TypeOK
<1>5. QueueKnown'
  BY <1>1, <1>2 DEF QueueKnown
<1>6. QueueLeads' /\ FollowedLeads'
  BY <1>2, <1>3 DEF WorkerSound, QueueLeads, FollowedLeads
<1>7. InFront # NoTab /\ Excused => Excused'
  BY <1>1, <1>2, <1>3 DEF Excused
<1>8. PageGuarded'
  <2> SUFFICES ASSUME InFront # NoTab, url[InFront] \in neverAllowed, ~Excused'
               PROVE  \/ \E i \in DOMAIN queue : Checks(queue[i], focused, InFront, url[InFront])
                      \/ \E k \in navs' : k.tab = InFront /\ k.url = url[InFront]
    BY <1>2, <1>3 DEF PageGuarded, Guarded
  <2>1. Guarded
    BY <1>7 DEF WorkerSound, PageGuarded
  <2> QED
    BY <2>1 DEF Guarded
<1>9. LoadsGuarded'
  <2> SUFFICES ASSUME NEW t \in Tabs, loading'[t] \in neverAllowed, t \notin unchecked'
               PROVE  \E k \in navs' : k.tab = t /\ k.url = loading'[t]
    BY <1>2 DEF LoadsGuarded
  <2>1. loading'[t] = loading[t] /\ t \notin unchecked
    BY WorkerParts
  <2>2. PICK k \in navs : k.tab = t /\ k.url = loading[t]
    BY <2>1 DEF WorkerSound, LoadsGuarded
  <2> QED
    BY <2>1, <2>2
<1>10. VisitIsFollowed'
  BY <1>2 DEF WorkerSound, VisitIsFollowed
<1> QED
  BY <1>3, <1>4, <1>5, <1>6, <1>8, <1>9, <1>10 DEF WorkerSound

\* So does every step of a navigation, which runs beside the queue.
LEMMA NavigationSound ==
    ASSUME WorkerSound, NEW n \in navs, NavigationStep(n)
    PROVE  WorkerSound'
<1>1. /\ n \in Navs /\ n.tab \in Tabs /\ n.url \in URLs
      /\ n.step = "answer" /\ n.allowed => n.url \notin neverAllowed
      /\ \A t \in Tabs : lastCheckedURLByTab[t] \notin neverAllowed
  BY DEF WorkerSound, TypeOK, QueueKnown, Navs
<1>2. VisitAfter(n.url) \in URLs \cup {NoVisit}
  BY <1>1, WorkerParts DEF VisitAfter
<1>3. CASE Behind(n)
  <2>1. /\ navs' = (navs \ {n}) \cup {} /\ Beside
        /\ unchecked' = IF loading[n.tab] = n.url THEN unchecked \cup {n.tab} ELSE unchecked
        /\ UNCHANGED <<loading, lastCheckedURLByTab, visit, unfollowed>>
        /\ active[lastFocused] # n.tab /\ n.step = "begin"
    BY <1>3 DEF Behind, Drop, Escapes
  <2>2. n.tab # InFront
    BY <1>1, <2>1, WorkerParts DEF InFront, WindowsKnown
  <2> QED
    BY <1>1, <2>1, <2>2, WorkerParts, NavigationOpSound
<1>4. CASE HandleInFront(n)
  <2> DEFINE m == [n EXCEPT !.step = "check"]
             stays == lastCheckedURLByTab[n.tab] # n.url
  <2>1. /\ navs' = (navs \ {n}) \cup (IF stays THEN {m} ELSE {}) /\ Beside
        /\ UNCHANGED <<loading, unchecked, lastCheckedURLByTab, visit, unfollowed>>
    BY <1>4 DEF HandleInFront, Drop, Advance
  <2>2. m \in Navs /\ m.tab = n.tab /\ m.url = n.url /\ m.step = "check"
    BY <1>1 DEF Navs
  <2>3. n.url \in neverAllowed => stays
    BY <1>1
  <2> HIDE DEF m
  <2> QED
    BY <1>1, <2>1, <2>2, <2>3, WorkerParts, NavigationOpSound
<1>5. CASE ActiveTabFails(n)
  <2>1. /\ navs' = (navs \ {n}) \cup {} /\ Beside /\ unchecked' = unchecked \cup {n.tab}
        /\ UNCHANGED <<loading, lastCheckedURLByTab, visit, unfollowed>> /\ n.step = "begin"
    BY <1>5 DEF ActiveTabFails, Drop, Escapes
  <2>2. n.tab = InFront => Excused'
    BY <2>1 DEF Excused, Beside, InFront
  <2> QED
    BY <1>1, <2>1, <2>2, WorkerParts, NavigationOpSound
<1>6. CASE NavigationServed(n)
  <2> DEFINE m == [n EXCEPT !.allowed = Allowed(n.url), !.step = "answer"]
  <2>1. /\ navs' = (navs \ {n}) \cup {m} /\ Beside /\ visit' = VisitAfter(n.url)
        /\ unfollowed' = (unfollowed \/ (visit' # visit /\ activeTabId = NoTab))
        /\ UNCHANGED <<loading, unchecked, lastCheckedURLByTab>>
    BY <1>6 DEF NavigationServed, VisitFollowed
  <2>2. m \in Navs /\ m.tab = n.tab /\ m.url = n.url /\ (m.allowed => m.url \notin neverAllowed)
    BY <1>1, WorkerParts DEF Navs, Allowed
  <2> HIDE DEF m
  <2>3. PICK stays \in BOOLEAN : stays = TRUE
    OBVIOUS
  <2> QED
    BY <1>1, <1>2, <2>1, <2>2, <2>3, WorkerParts, NavigationOpSound
<1>7. CASE NavigationFails(n)
  <2>1. /\ navs' = (navs \ {n}) \cup {} /\ Beside /\ visit' \in URLs \cup {NoVisit}
        /\ unfollowed' = (unfollowed \/ (visit' # visit /\ activeTabId = NoTab))
        /\ unchecked' = unchecked \cup {n.tab} /\ n.step = "check"
        /\ UNCHANGED <<loading, lastCheckedURLByTab>>
    BY <1>2, <1>7, WorkerParts DEF NavigationFails, Drop, Escapes, VisitFollowed
  <2>2. n.tab = InFront => Excused'
    BY <2>1 DEF Excused, Beside, InFront
  <2> QED
    BY <1>1, <2>1, <2>2, WorkerParts, NavigationOpSound
<1>8. CASE NavigationDecided(n) /\ n.allowed
  <2>1. /\ navs' = (navs \ {n}) \cup {} /\ Beside
        /\ UNCHANGED <<loading, unchecked, visit, unfollowed>>
        /\ lastCheckedURLByTab' = [lastCheckedURLByTab EXCEPT ![n.tab] = n.url]
        /\ n.url \notin neverAllowed
    BY <1>1, <1>8 DEF NavigationDecided, Drop
  <2>2. /\ lastCheckedURLByTab' \in [Tabs -> Pages]
        /\ \A t \in Tabs : lastCheckedURLByTab'[t] \notin neverAllowed
    BY <1>1, <2>1, WorkerParts DEF Pages
  <2> QED
    BY <1>1, <2>1, <2>2, WorkerParts, NavigationOpSound
<1>9. CASE NavigationDecided(n) /\ ~n.allowed
  <2>1. /\ navs' = (navs \ {n}) \cup {} /\ Beside /\ BlockNavigation(n.tab)
        /\ UNCHANGED <<lastCheckedURLByTab, visit, unfollowed>>
    BY <1>9 DEF NavigationDecided, Drop
  <2>2. /\ loading' \in [Tabs -> Pages \cup {NoTab}] /\ unchecked' \subseteq Tabs
        /\ \A s \in Tabs : loading'[s] \in {loading[s], BlockedPage}
        /\ \A s \in Tabs : s \in unchecked => s \in unchecked' \/ loading'[s] = BlockedPage
        /\ n.tab \in unchecked' \/ loading'[n.tab] = BlockedPage
    BY <1>1, <2>1, BlockingKnown
  <2>3. n.tab = InFront => Excused'
    BY <2>1, <2>2 DEF Excused, Beside, InFront
  <2>4. loading'[n.tab] = n.url => n.tab \in unchecked'
    BY <1>1, <2>2, WorkerParts
  <2> QED
    BY <1>1, <2>1, <2>2, <2>3, <2>4, WorkerParts, NavigationOpSound
<1> QED
  BY <1>3, <1>4, <1>5, <1>6, <1>7, <1>8, <1>9 DEF NavigationStep, HandleNavigation

\* Every step of browser and worker keeps the invariant ...
LEMMA WorkerStepSound == WorkerSound /\ [Next]_vars => WorkerSound'
<1> SUFFICES ASSUME WorkerSound, [Next]_vars
             PROVE  WorkerSound'
  OBVIOUS
<1>1. CASE UNCHANGED vars
  <2>1. /\ UNCHANGED <<focused, lastFocused, active, worker, visit, lookupFailed, unfollowed>>
        /\ UNCHANGED <<awake, queue, activeTabId, navs, lastCheckedURLByTab, url, loading,
                       blocked, neverAllowed, unchecked>>
    BY <1>1 DEF vars, browser, worker, history
  <2>2. TypeOK' /\ LoadsGuarded'
    BY <2>1 DEF WorkerSound, TypeOK, LoadsGuarded
  <2>3. \A t \in Tabs : Open(t)' <=> Open(t)
    BY <2>1 DEF Open
  <2>4. url'[InFront] = url[InFront] /\ (Excused => Excused')
    BY <2>1 DEF Excused, InFront
  <2> QED
    BY <2>1, <2>2, <2>3, <2>4, UnnoticedSound
<1> QED
  BY <1>1, SwitchTabSound, FocusSound, CloseTabSound, NavigateSound, CommitLoadSound,
     AbandonLoadSound, ChangeURLSound, ChangePolicySound, SuspendSound, QueueOpSound,
     NavigationSound
  DEF Next

\* ... which therefore always holds.
LEMMA WorkerIsSound == Spec => []WorkerSound
BY WorkerInitSound, WorkerStepSound, PTL DEF Spec

\* Once the queue is empty the worker follows the tab in front, whatever came
\* and went meanwhile (FollowsTabInFront): the operations left always lead
\* there, from the tab that is followed unless a lookup was rejected, and from
\* the tab in front even then, so that the next tab found is followed again.
THEOREM WorkerFollowsTheTabInFront == Spec => []FollowsTabInFront
<1>1. WorkerSound => FollowsTabInFront
  <2> SUFFICES ASSUME WorkerSound, awake, queue = <<>>, lookupFailed => focused = NoWindow
               PROVE  activeTabId = InFront
    BY DEF FollowsTabInFront
  <2>1. Leads(queue, activeTabId, focused, InFront) /\ DOMAIN queue = {}
    BY DEF WorkerSound, FollowedLeads
  <2> QED
    BY <2>1 DEF Leads
<1> QED
  BY <1>1, WorkerIsSound, PTL

\* A page that no policy has allowed is not left in front (NoBlockedPageInFront):
\* some check of it is on its way, or of the navigation that loads it, until it
\* is replaced or, where a lookup, a call or tabs.update was rejected or the
\* page came by a way that is not checked, has escaped.
THEOREM NoBlockedPageStaysInFront == Spec => []NoBlockedPageInFront
<1>1. WorkerSound => NoBlockedPageInFront
  <2> SUFFICES ASSUME WorkerSound, Quiet, InFront # NoTab, url[InFront] \in neverAllowed, ~Excused
               PROVE  FALSE
    BY DEF NoBlockedPageInFront, Excused
  <2>1. Guarded /\ queue = <<>> /\ navs = {} /\ DOMAIN queue = {}
    BY DEF WorkerSound, PageGuarded, Quiet
  <2> QED
    BY <2>1 DEF Guarded
<1> QED
  BY <1>1, WorkerIsSound, PTL

\* Losing the focus of the browser ends the visit (FocusLossEndsVisit): the
\* daemon keeps a visit only while the worker follows a tab, or is ending it,
\* unless it kept or began it while the worker followed none.
THEOREM LosingFocusEndsTheVisit == Spec => []FocusLossEndsVisit
<1>1. WorkerSound => FocusLossEndsVisit
  <2> SUFFICES ASSUME WorkerSound, Quiet, focused = NoWindow, visit # NoVisit, ~unfollowed
               PROVE  FALSE
    BY DEF FocusLossEndsVisit
  <2>1. activeTabId # NoTab /\ queue = <<>> /\ DOMAIN queue = {}
    BY DEF WorkerSound, VisitIsFollowed, Quiet
  <2>2. awake
    BY <2>1 DEF WorkerSound, QueueKnown
  <2>3. activeTabId = NoTab
    BY <2>1, <2>2 DEF WorkerSound, FollowedLeads, Leads, InFront
  <2> QED
    BY <2>1, <2>3
<1> QED
  BY <1>1, WorkerIsSound, PTL

\* Types of both parts of the extension (TypesOK).
THEOREM ExtensionTypes == Spec /\ PageSpec => []TypesOK
<1>1. WorkerSound /\ PageSound => TypesOK
  BY DEF WorkerSound, PageSound, TypesOK
<1> QED
  BY <1>1, WorkerIsSound, PageIsSound, PTL
=============================================================================
