SPECIFICATION MCSpec
CONSTANTS
    w1 = w1
    w2 = w2
    t1 = t1
    t2 = t2
    t3 = t3
    u = u
    b = b
    NoWindow = NoWindow
    NoTab = NoTab
    BlockedPage = BlockedPage
    NoVisit = NoVisit
    Windows <- MCWindows
    Tabs <- MCTabs
    WindowOf <- MCWindowOf
    URLs <- MCURLs
    MaxInputs = 3
    MaxRequests = 2
    MaxPages = 2
INVARIANTS TypesOK FollowsTabInFront NoBlockedPageInFront FocusLossEndsVisit PollsOnce ShownIsTrue
PROPERTIES PollingAnswers
CHECK_DEADLOCK FALSE
