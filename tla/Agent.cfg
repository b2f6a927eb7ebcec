SPECIFICATION MCSpec
CONSTANTS
    Sites <- MCSites
    Urls <- MCUrls
    Durations = {1}
    Profiles = {1, 2}
    Ruled <- MCRuled
    Healthy = {2}
    MaxChanges = 2
    MaxRestarts = 1
    MaxTime = 2
    NoCode = NoCode
    Order <- MCOrder
    Policies <- MCPolicies
    NoExitCode = NoExitCode
    StopTicks = 2
    WaitTicks = 3
    MaxControls = 5
    Children = {ana, ben}
    Workers = {w1, w2}
    Absent = Absent
    Callers = {admin}
    MaxCommands = 3
    MaxFaults = 2
    Users = {ana, ben}
    Child = ana
    Versions = {1, 2}
    Current = 2
    Windows = {game, work}
    Nothing = Nothing
INVARIANTS TypesOK OpensOnlyApproved CleanExit UninstallStops EnabledIsInForce ReportsAreTrue
PROPERTIES IsReplica CatchesUp IsServiceProcess DisabledChildIsFree Reconnects
CHECK_DEADLOCK FALSE
