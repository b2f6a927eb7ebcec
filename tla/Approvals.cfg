SPECIFICATION MCSpec
CONSTANTS
    s1 = s1
    s2 = s2
    Sites = {s1, s2}
    Durations = {1}
    Devices = {d1}
    Ids = {i1, i2, i3}
    Handlers = {h1, h2}
    NoDecision = NoDecision
    PendingLifetime = 1
    ResultLifetime = 1
    PutPolicies <- MCPutPolicies
    MaxTime = 2
    MaxRevision = 2
SYMMETRY Symmetry
INVARIANTS PendingBoundedByHandlers
PROPERTIES ApprovalsSurvive
