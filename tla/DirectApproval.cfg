SPECIFICATION ApprovalSpec
CONSTANTS
    Codes = {k1, k2}
    NoCode = NoCode
    MaxFailures = 2
    LockDuration = 2
    MaxTime = 4
    MaxGuesses = 5
    Sites = {s1}
    Durations = {1}
    Calls = {c1, c2}
    MaxRevision = 1
INVARIANTS GuessesLimited LocksAreEarned AttemptsTracked AnswersAreTrue
PROPERTIES GrantsNeedTheCode
CHECK_DEADLOCK FALSE
