SPECIFICATION PollingSpec
CONSTANTS
    s1 = s1
    s2 = s2
    Sites = {s1}
    Durations = {1}
    Devices = {d1}
    Ids = {i1}
    Handlers = {h1, h2}
    NoDecision = NoDecision
    PendingLifetime = 1
    ResultLifetime = 1
    PutPolicies <- MCPutPolicies
    MaxTime = 2
    MaxRevision = 2
PROPERTIES EveryRequestSettles
