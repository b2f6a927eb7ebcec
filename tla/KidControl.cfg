SPECIFICATION MCSpec
CONSTANTS
    Names = {"default", "study"}
    Default = "default"
    Durations = {1}
    Checks = {k1, k2}
    MaxActivations = 2
    MaxClock = 2
    Urls = {u1, u2}
    Profiles = {p1}
    Calls = {c1, c2}
    MaxVisits = 3
    MaxTime = 1
    game = game
    editor = editor
    chat = chat
    work = work
    Pids = {1, 2}
    Apps <- MCApps
    BlockedApps <- MCBlockedApps
    Titles <- MCTitles
    BlockedTitles <- MCBlockedTitles
    NoTitle = NoTitle
    Configs <- MCConfigs
    MaxLaunches = 2
    MaxStarts = 2
INVARIANTS TypesOK ChecksAreAnswered VisitsAccounted ActsOnce
PROPERTIES StopReturns BlockedAreHandled
CHECK_DEADLOCK FALSE
