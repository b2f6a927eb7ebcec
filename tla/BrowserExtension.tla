-------------------------- MODULE BrowserExtension --------------------------
(***************************************************************************)
(* The service worker of the Chrome extension: the events of tabs, windows *)
(* and navigations (background.js), the queue that turns tab and focus     *)
(* events into visit boundaries (activity.js) and the check of a           *)
(* navigation (navigation.js), against a daemon that keeps one visit       *)
(* (BrowserMonitor) and blocks some URLs.                                  *)
(*                                                                         *)
(* Operations of the queue run one after the other; checks of navigations  *)
(* run beside them.  Between two awaits the worker runs to completion.  A  *)
(* lookup in the browser and what follows it are one step, and the lookup  *)
(* may be rejected; a call of the daemon is sent, then served or lost, and *)
(* its answer applied later, under the policy it was served by.  A page is *)
(* loaded some time after the navigation to it has begun.  Chrome ends an  *)
(* idle worker and starts it again for the next event.                     *)
(***************************************************************************)
EXTENDS Naturals, Sequences, SequencesExt

CONSTANTS Windows, NoWindow,
          Tabs, NoTab,
          WindowOf,        \* WindowOf[t]: the window of tab t
          URLs,            \* web URLs
          BlockedPage,     \* the extension's own page, not a web URL
          NoVisit,
          MaxInputs        \* bound on events, navigations and ends of the worker

ASSUME BrowserAssumption ==
    /\ WindowOf \in [Tabs -> Windows] /\ NoWindow \notin Windows
    /\ NoTab \notin Tabs \cup URLs \cup {BlockedPage}
    /\ BlockedPage \notin URLs /\ NoVisit \notin URLs
ASSUME InputBoundAssumption == MaxInputs \in Nat

VARIABLES focused, lastFocused,   \* the window in front, and the last one that was
          active,                 \* active[w]: the tab in front of window w
          url,                    \* url[t]: the page tab t shows
          loading,                \* loading[t]: the page it is about to show, or NoTab
          blocked,                \* the URLs that the policy of the daemon blocks
          awake,                  \* the worker runs
          queue,                  \* activity operations; the first one runs
          activeTabId,            \* the tab whose visit the worker follows
          navs,                   \* navigations being handled
          lastCheckedURLByTab,
          visit,                  \* the daemon's current visit
          inputs

\* History, for the properties; it guards nothing.
VARIABLES neverAllowed,  \* the URLs that every policy so far has blocked
          unchecked,     \* tabs whose page, or load, has escaped its check
          lookupFailed,  \* an operation found no tab to follow, and none has since
          unfollowed     \* the daemon may have a visit that no tab followed stands for

browser == <<focused, lastFocused, active, url, loading, blocked>>
worker == <<awake, queue, activeTabId, navs, lastCheckedURLByTab>>
history == <<neverAllowed, unchecked, lookupFailed, unfollowed>>
vars == <<browser, worker, visit, history, inputs>>

Pages == URLs \cup {BlockedPage}
Open(t) == url[t] # NoTab
WindowTabs(w) == {t \in Tabs : WindowOf[t] = w /\ Open(t)}

Op(kind, tab, window) ==
    [kind |-> kind, tab |-> tab, window |-> window, step |-> "begin",
     url |-> BlockedPage, allowed |-> FALSE]
InitializeOp == Op("initialize", NoTab, NoWindow)

Ops == [kind : {"initialize", "activated", "focus", "removed"}, tab : Tabs \cup {NoTab},
        window : Windows \cup {NoWindow}, url : Pages, allowed : BOOLEAN,
        step : {"begin", "end", "tab", "url", "check", "answer"}]
Navs == [tab : Tabs, url : URLs, allowed : BOOLEAN, step : {"begin", "check", "answer"}]

Init ==
    /\ lastFocused \in Windows
    /\ focused \in {lastFocused, NoWindow}
    /\ active \in [Windows -> Tabs] /\ \A w \in Windows : WindowOf[active[w]] = w
    /\ url \in [Tabs -> URLs] /\ loading = [t \in Tabs |-> NoTab]
    /\ blocked \in SUBSET URLs /\ neverAllowed = blocked
    /\ awake = TRUE
    /\ queue = <<InitializeOp>>
    /\ activeTabId = NoTab
    /\ navs = {}
    /\ lastCheckedURLByTab = [t \in Tabs |-> BlockedPage]
    /\ visit = NoVisit
    /\ unchecked = {} /\ lookupFailed = FALSE /\ unfollowed = FALSE
    /\ inputs = 0

-----------------------------------------------------------------------------
(* Events of the browser                                                   *)

\* An event that starts the worker again runs initialize first.
Dispatch(ops) ==
    /\ awake' = TRUE
    /\ queue' = queue \o (IF awake THEN <<>> ELSE <<InitializeOp>>) \o ops

Input == inputs < MaxInputs /\ inputs' = inputs + 1
Untouched == UNCHANGED <<blocked, activeTabId, navs, lastCheckedURLByTab, visit, history>>

SwitchTab(t) ==
    /\ Input
    /\ Open(t) /\ active[WindowOf[t]] # t
    /\ active' = [active EXCEPT ![WindowOf[t]] = t]
    /\ Dispatch(<<Op("activated", t, WindowOf[t])>>)
    /\ Untouched /\ UNCHANGED <<focused, lastFocused, url, loading>>

Focus(w) ==
    /\ Input
    /\ w # focused /\ (w # NoWindow => active[w] # NoTab)
    /\ focused' = w
    /\ lastFocused' = IF w = NoWindow THEN lastFocused ELSE w
    /\ Dispatch(<<Op("focus", NoTab, w)>>)
    /\ Untouched /\ UNCHANGED <<active, url, loading>>

\* Closing the tab in front brings another one to the front or, when it was
\* the last one, closes the window.  The two events come in either order.
CloseTab(t) ==
    LET w == WindowOf[t]
        others == WindowTabs(w) \ {t}
        removed == Op("removed", t, w)
    IN  /\ Input
        /\ Open(t)
        /\ url' = [url EXCEPT ![t] = NoTab] /\ loading' = [loading EXCEPT ![t] = NoTab]
        /\ \/ /\ active[w] # t
              /\ Dispatch(<<removed>>)
              /\ UNCHANGED <<active, focused>>
           \/ /\ active[w] = t
              /\ \E next \in others, order \in {<<1, 2>>, <<2, 1>>} :
                   LET ops == <<removed, Op("activated", next, w)>>
                   IN  /\ active' = [active EXCEPT ![w] = next]
                       /\ Dispatch(<<ops[order[1]], ops[order[2]]>>)
              /\ UNCHANGED focused
           \/ /\ active[w] = t /\ others = {}
              /\ active' = [active EXCEPT ![w] = NoTab]
              /\ focused' = IF focused = w THEN NoWindow ELSE focused
              /\ Dispatch(IF focused = w THEN <<removed, Op("focus", NoTab, NoWindow)>>
                                         ELSE <<removed>>)
        /\ Untouched /\ UNCHANGED lastFocused

Escapes(t) == unchecked' = unchecked \cup {t}

\* onBeforeNavigate: the tab still shows its page, and what it was loading
\* is given up, the blocked page too.
Navigate(t, u) ==
    /\ Input
    /\ Open(t)
    /\ loading' = [loading EXCEPT ![t] = u]
    /\ IF loading[t] = BlockedPage THEN Escapes(t) ELSE UNCHANGED unchecked
    /\ navs' = navs \cup {[tab |-> t, url |-> u, allowed |-> FALSE, step |-> "begin"]}
    /\ Dispatch(<<>>)
    /\ UNCHANGED <<focused, lastFocused, active, url, blocked, activeTabId, lastCheckedURLByTab,
                   visit, neverAllowed, lookupFailed, unfollowed>>

\* The worker listens to nothing but onBeforeNavigate, so that it is not
\* told when the page is there ...
Unnoticed ==
    UNCHANGED <<focused, lastFocused, active, blocked, worker, visit,
                neverAllowed, lookupFailed, unfollowed>>

\* A page that comes behind another tab is looked at when that tab goes.
CommitLoad(t) ==
    /\ Open(t) /\ loading[t] # NoTab
    /\ url' = [url EXCEPT ![t] = loading[t]]
    /\ loading' = [loading EXCEPT ![t] = NoTab]
    /\ unchecked' = IF active[WindowOf[t]] = t THEN unchecked ELSE unchecked \ {t}
    /\ Unnoticed /\ UNCHANGED inputs

\* ... when it never comes ...
AbandonLoad(t) ==
    /\ Input
    /\ loading[t] # NoTab
    /\ loading' = [loading EXCEPT ![t] = NoTab]
    /\ IF loading[t] = BlockedPage THEN Escapes(t) ELSE UNCHANGED unchecked
    /\ Unnoticed /\ UNCHANGED url

\* ... when a server redirects, or a page changes its own address ...
ChangeURLSilently(t, u) ==
    /\ Input
    /\ \/ loading[t] \in URLs /\ loading' = [loading EXCEPT ![t] = u] /\ UNCHANGED url
       \/ url[t] \in URLs /\ url' = [url EXCEPT ![t] = u] /\ UNCHANGED loading
    /\ Escapes(t)
    /\ Unnoticed

\* ... and when the daemon has got another policy, or an approval ended.
ChangePolicy(policy) ==
    /\ Input
    /\ policy # blocked
    /\ blocked' = policy /\ neverAllowed' = neverAllowed \cap policy
    /\ UNCHANGED <<focused, lastFocused, active, url, loading, worker, visit,
                   unchecked, lookupFailed, unfollowed>>

Quiet == queue = <<>> /\ navs = {}

\* What the worker keeps in memory is gone; the daemon's visit is not.
Suspend ==
    /\ awake /\ Quiet /\ Input
    /\ awake' = FALSE
    /\ activeTabId' = NoTab
    /\ lastCheckedURLByTab' = [t \in Tabs |-> BlockedPage]
    /\ unfollowed' = (unfollowed \/ visit # NoVisit)
    /\ UNCHANGED <<browser, queue, navs, visit, neverAllowed, unchecked, lookupFailed>>

-----------------------------------------------------------------------------
(* The queue                                                               *)

\* queue.then(operation, operation): one operation after the other.
Runs(i) == i = 1

Go(i, op) == queue' = [queue EXCEPT ![i] = op]
Done(i) == queue' = RemoveAt(queue, i)

StartTab(i, t) ==
    /\ activeTabId' = t /\ lookupFailed' = FALSE
    /\ Go(i, [queue[i] EXCEPT !.tab = t, !.step = "url"])

\* What an operation does once no visit is followed any more.
AfterEnd(i) ==
    LET op == queue[i]
    IN  CASE op.kind = "activated" -> StartTab(i, op.tab)
          [] op.kind = "focus" /\ op.window # NoWindow ->
               Go(i, [op EXCEPT !.step = "tab"]) /\ activeTabId' = NoTab /\ UNCHANGED lookupFailed
          [] OTHER -> Done(i) /\ activeTabId' = NoTab /\ UNCHANGED lookupFailed

\* Slip: the daemon is not told that the visit ends.
FinishSilently(i) == AfterEnd(i)

FinishCurrentVisit(i) ==
    IF activeTabId = NoTab THEN AfterEnd(i)
    ELSE /\ activeTabId' = NoTab /\ UNCHANGED lookupFailed
         /\ Go(i, [queue[i] EXCEPT !.step = "end"])

Following == UNCHANGED <<activeTabId, lookupFailed>>
Keeping == UNCHANGED <<browser, awake, navs, lastCheckedURLByTab, neverAllowed, inputs>>
Looking == Keeping /\ UNCHANGED <<visit, unchecked, unfollowed>>

Initialize(i) ==
    /\ queue[i].kind = "initialize" /\ queue[i].step = "begin"
    /\ IF focused = NoWindow THEN Done(i)
       ELSE Go(i, [queue[i] EXCEPT !.window = focused, !.step = "tab"])
    /\ Following /\ Looking

LookUpTab(i) ==
    /\ queue[i].step = "tab"
    /\ LET t == active[queue[i].window]
       IN  IF t = NoTab THEN Done(i) /\ Following ELSE StartTab(i, t)
    /\ Looking

\* Slip: a tab brought to the front of a window behind counts too.
HandleAnyActivated(i) ==
    /\ queue[i].kind = "activated" /\ queue[i].step = "begin"
    /\ FinishCurrentVisit(i)
    /\ Looking

HandleTabActivated(i) ==
    /\ queue[i].kind = "activated" /\ queue[i].step = "begin"
    /\ IF focused = queue[i].window THEN FinishCurrentVisit(i) ELSE Done(i) /\ Following
    /\ Looking

\* Chrome rejects the query for the window in front, for the tab in front of
\* a window, or for the focus of a window: logged, and the operation ends.
LookUpFails(i) ==
    /\ \/ queue[i].kind \in {"initialize", "activated"} /\ queue[i].step = "begin"
       \/ queue[i].step = "tab"
    /\ Done(i)
    /\ lookupFailed' = TRUE
    /\ Looking /\ UNCHANGED activeTabId

HandleWindowFocusChanged(i) ==
    /\ queue[i].kind = "focus" /\ queue[i].step = "begin"
    /\ FinishCurrentVisit(i)
    /\ Looking

HandleTabRemoved(i) ==
    /\ queue[i].kind = "removed" /\ queue[i].step = "begin"
    /\ IF queue[i].tab = activeTabId THEN FinishCurrentVisit(i) ELSE Done(i) /\ Following
    /\ Looking

EndServed(i) ==
    /\ queue[i].step = "end"
    /\ visit' = NoVisit /\ unfollowed' = FALSE
    /\ AfterEnd(i)
    /\ Keeping /\ UNCHANGED unchecked

\* A failure is logged and the operation goes on.
EndFails(i) ==
    /\ queue[i].step = "end"
    /\ visit' \in {visit, NoVisit} /\ unfollowed' = (visit' # NoVisit)
    /\ AfterEnd(i)
    /\ Keeping /\ UNCHANGED unchecked

\* The page that is there is read, not the one that is coming.
ReadURL(i) ==
    /\ queue[i].step = "url"
    /\ LET t == queue[i].tab
       IN  /\ IF url[t] \in URLs THEN Go(i, [queue[i] EXCEPT !.url = url[t], !.step = "check"])
                                 ELSE Done(i)
           /\ unchecked' = IF loading[t] = NoTab THEN unchecked \ {t} ELSE unchecked
    /\ Following /\ Keeping /\ UNCHANGED <<visit, unfollowed>>

ReadFails(i) ==
    /\ queue[i].step = "url"
    /\ Done(i) /\ Escapes(queue[i].tab)
    /\ Following /\ Keeping /\ UNCHANGED <<visit, unfollowed>>

-----------------------------------------------------------------------------
(* Decisions of the daemon                                                 *)

Allowed(u) == u \notin blocked
VisitAfter(u) == IF Allowed(u) THEN u ELSE visit

\* tabs.update, whatever the tab shows by now.  That it is rejected, for a
\* closed tab or an open one, is only logged.
BlockNavigation(t) ==
    \/ /\ Open(t)
       /\ loading' = [loading EXCEPT ![t] = BlockedPage]
       /\ unchecked' = unchecked \ {t}
    \/ UNCHANGED loading /\ Escapes(t)

CheckServed(i) ==
    /\ queue[i].step = "check"
    /\ visit' = VisitAfter(queue[i].url)
    /\ Go(i, [queue[i] EXCEPT !.allowed = Allowed(queue[i].url), !.step = "answer"])
    /\ Following /\ Keeping /\ UNCHANGED <<unchecked, unfollowed>>

\* Without an answer, or with an invalid one, the page stays: the extension
\* fails open.
CheckFails(i) ==
    /\ queue[i].step = "check"
    /\ visit' \in {visit, VisitAfter(queue[i].url)}
    /\ Done(i) /\ Escapes(queue[i].tab)
    /\ Following /\ Keeping /\ UNCHANGED unfollowed

HandleURLDecision(i) ==
    /\ queue[i].step = "answer"
    /\ IF queue[i].allowed THEN UNCHANGED <<loading, unchecked>> ELSE BlockNavigation(queue[i].tab)
    /\ Done(i)
    /\ Following
    /\ UNCHANGED <<focused, lastFocused, active, url, blocked, awake, navs, lastCheckedURLByTab,
                   visit, neverAllowed, unfollowed, inputs>>

-----------------------------------------------------------------------------
(* Navigations                                                             *)

Advance(n, step) == navs' = (navs \ {n}) \cup {[n EXCEPT !.step = step]}
Drop(n) == navs' = navs \ {n}
Beside == UNCHANGED <<focused, lastFocused, active, url, blocked, awake, queue, activeTabId,
                      neverAllowed, lookupFailed, inputs>>

\* A visit that starts while the worker follows no tab.
VisitFollowed == unfollowed' = (unfollowed \/ (visit' # visit /\ activeTabId = NoTab))

\* Only the tab in front of the last focused window is checked: what another
\* one loads must be there before that tab comes to the front.
Behind(n) ==
    /\ n.step = "begin" /\ active[lastFocused] # n.tab
    /\ Drop(n)
    /\ IF loading[n.tab] = n.url THEN Escapes(n.tab) ELSE UNCHANGED unchecked
    /\ Beside /\ UNCHANGED <<loading, lastCheckedURLByTab, visit, unfollowed>>

\* Slip: the URL is remembered before the daemon has allowed it.
HandleInFrontEagerly(n) ==
    /\ n.step = "begin" /\ active[lastFocused] = n.tab
    /\ IF lastCheckedURLByTab[n.tab] = n.url
       THEN Drop(n) /\ UNCHANGED lastCheckedURLByTab
       ELSE /\ Advance(n, "check")
            /\ lastCheckedURLByTab' = [lastCheckedURLByTab EXCEPT ![n.tab] = n.url]
    /\ Beside /\ UNCHANGED <<loading, unchecked, visit, unfollowed>>

\* The URL the tab was last allowed is not checked again.
HandleInFront(n) ==
    /\ n.step = "begin" /\ active[lastFocused] = n.tab
    /\ IF lastCheckedURLByTab[n.tab] = n.url THEN Drop(n) ELSE Advance(n, "check")
    /\ Beside /\ UNCHANGED <<loading, unchecked, lastCheckedURLByTab, visit, unfollowed>>

\* Chrome rejects the query for the tab in front: logged, and not checked.
ActiveTabFails(n) ==
    /\ n.step = "begin"
    /\ Drop(n) /\ Escapes(n.tab)
    /\ Beside /\ UNCHANGED <<loading, lastCheckedURLByTab, visit, unfollowed>>

HandleNavigation(n) == Behind(n) \/ HandleInFront(n) \/ ActiveTabFails(n)

NavigationServed(n) ==
    /\ n.step = "check"
    /\ visit' = VisitAfter(n.url) /\ VisitFollowed
    /\ navs' = (navs \ {n}) \cup {[n EXCEPT !.allowed = Allowed(n.url), !.step = "answer"]}
    /\ Beside /\ UNCHANGED <<loading, unchecked, lastCheckedURLByTab>>

NavigationFails(n) ==
    /\ n.step = "check"
    /\ visit' \in {visit, VisitAfter(n.url)} /\ VisitFollowed
    /\ Drop(n) /\ Escapes(n.tab)
    /\ Beside /\ UNCHANGED <<loading, lastCheckedURLByTab>>

NavigationDecided(n) ==
    /\ n.step = "answer"
    /\ IF n.allowed
       THEN /\ lastCheckedURLByTab' = [lastCheckedURLByTab EXCEPT ![n.tab] = n.url]
            /\ UNCHANGED <<loading, unchecked>>
       ELSE BlockNavigation(n.tab) /\ UNCHANGED lastCheckedURLByTab
    /\ Drop(n)
    /\ Beside /\ UNCHANGED <<visit, unfollowed>>

-----------------------------------------------------------------------------
Step(i) ==
    /\ Runs(i)
    /\ \/ Initialize(i) \/ LookUpTab(i) \/ LookUpFails(i)
       \/ HandleTabActivated(i) \/ HandleWindowFocusChanged(i) \/ HandleTabRemoved(i)
       \/ EndServed(i) \/ EndFails(i) \/ ReadURL(i) \/ ReadFails(i)
       \/ CheckServed(i) \/ CheckFails(i) \/ HandleURLDecision(i)

NavigationStep(n) ==
    \/ HandleNavigation(n) \/ NavigationServed(n) \/ NavigationFails(n) \/ NavigationDecided(n)

Next ==
    \/ \E t \in Tabs : SwitchTab(t) \/ CloseTab(t) \/ CommitLoad(t) \/ AbandonLoad(t)
    \/ \E w \in Windows \cup {NoWindow} : Focus(w)
    \/ \E t \in Tabs, u \in URLs : Navigate(t, u) \/ ChangeURLSilently(t, u)
    \/ \E policy \in SUBSET URLs : ChangePolicy(policy)
    \/ Suspend
    \/ \E i \in DOMAIN queue : Step(i)
    \/ \E n \in navs : NavigationStep(n)

Spec == Init /\ [][Next]_vars

-----------------------------------------------------------------------------
TypeOK ==
    /\ focused \in Windows \cup {NoWindow} /\ lastFocused \in Windows
    /\ active \in [Windows -> Tabs \cup {NoTab}]
    /\ url \in [Tabs -> Pages \cup {NoTab}] /\ loading \in [Tabs -> Pages \cup {NoTab}]
    /\ blocked \subseteq URLs /\ neverAllowed \subseteq blocked
    /\ unchecked \subseteq Tabs
    /\ awake \in BOOLEAN /\ lookupFailed \in BOOLEAN /\ unfollowed \in BOOLEAN
    /\ queue \in Seq(Ops)
    /\ activeTabId \in Tabs \cup {NoTab}
    /\ navs \subseteq Navs
    /\ lastCheckedURLByTab \in [Tabs -> Pages]
    /\ visit \in URLs \cup {NoVisit}

InFront == IF focused = NoWindow THEN NoTab ELSE active[focused]

\* Once the events have been handled, the worker follows the tab in front of
\* the window in front, and none when the browser is not in front, in whatever
\* order tabs, windows and the worker came and went (activity.js:57-132).  Not
\* so after a lookup that Chrome rejected, which nothing repeats (:62, :74, :89,
\* :115), until an operation finds its tab again or the browser is left.
FollowsTabInFront ==
    awake /\ queue = <<>> => activeTabId = InFront \/ (lookupFailed /\ focused # NoWindow)

\* At rest, a page that no policy has ever allowed is in front only while the
\* blocked page is on its way, after a rejected lookup of the queue, or when it
\* escaped its check since its tab was last read: the daemon, a lookup or
\* tabs.update failed (navigation.js:18, :26, :57; activity.js:44), Chrome gave
\* the blocked page up for another, the load began behind and came in front
\* (navigation.js:62), or the URL changed without onBeforeNavigate.  Tabs
\* behind, late answers and repeated URLs leave no other gap.
NoBlockedPageInFront ==
    Quiet /\ InFront # NoTab /\ url[InFront] \in neverAllowed /\ loading[InFront] # BlockedPage
      => InFront \in unchecked \/ lookupFailed

\* "Switching active tabs, closing the active tab, or losing browser focus
\* ends the current visit." (README.md:61)  Excepted is a visit that no tab
\* followed stands for, until the next one is ended: a navigation was checked
\* while no tab was followed, the worker was ended during the visit, or the
\* daemon did not hear of its end.
FocusLossEndsVisit ==
    Quiet /\ focused = NoWindow /\ visit # NoVisit => unfollowed
=============================================================================
