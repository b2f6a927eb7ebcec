----------------------------- MODULE MCExtension -----------------------------
(***************************************************************************)
(* The Chrome extension for TLC: its service worker (BrowserExtension) and *)
(* the page it shows in place of a blocked site (BlockedPage).  The two    *)
(* share no state, so each behaviour is of one part and leaves the other   *)
(* as it began: every state of either is reached without their product.    *)
(*                                                                         *)
(* Two windows, the first with two tabs; two URLs, of which the policy     *)
(* blocks one to begin with.                                               *)
(***************************************************************************)
EXTENDS BrowserExtension, BlockedPage

CONSTANTS w1, w2, t1, t2, t3, u, b

MCWindows == {w1, w2}
MCTabs == {t1, t2, t3}
MCWindowOf == [t \in MCTabs |-> IF t = t3 THEN w2 ELSE w1]
MCURLs == {u, b}

VARIABLE part  \* the part that runs

WorkerRuns == part = "worker"
PageRuns == part = "page"

\* The worker has been started behind other programs and has nothing to do.
WorkerRests ==
    /\ focused = NoWindow /\ lastFocused = w1
    /\ active = [w \in Windows |-> IF w = w1 THEN t1 ELSE t3]
    /\ url = [t \in Tabs |-> u] /\ loading = [t \in Tabs |-> NoTab]
    /\ blocked = {b} /\ neverAllowed = {b}
    /\ awake = TRUE /\ queue = <<>> /\ activeTabId = NoTab /\ navs = {}
    /\ lastCheckedURLByTab = [t \in Tabs |-> BlockedPage]
    /\ visit = NoVisit /\ inputs = 0
    /\ unchecked = {} /\ lookupFailed = FALSE /\ unfollowed = FALSE

\* t1 is in front of the first window, the last one that had the focus; t2
\* behind it shows the page that the policy blocks.
MCInit ==
    /\ PageInit
    /\ \/ part = "worker" /\ Init /\ lastFocused = w1 /\ active[w1] = t1
          /\ url = [t \in Tabs |-> IF t = t2 THEN b ELSE u] /\ blocked = {b}
       \/ part = "page" /\ WorkerRests

MCNext ==
    \/ WorkerRuns /\ Next /\ UNCHANGED <<pageVars, part>>
    \/ PageRuns /\ PageNext /\ UNCHANGED <<vars, part>>

\* Only the page promises to go on.
MCSpec == MCInit /\ [][MCNext]_<<vars, pageVars, part>> /\ PageFairness

\* Types, for both parts.
TypesOK == TypeOK /\ PageTypeOK
=============================================================================
