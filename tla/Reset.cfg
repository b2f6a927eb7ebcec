SPECIFICATION AgentSpec
CONSTANTS
    Customers = {c1}
    Devices = {d1, d2}
    Codes = {k1, k2}
    Ids = {i1, i2}
    Parents = {p1}
    NoCode = NoCode
    NoDevice = NoDevice
    NoId = NoId
    Me = d1
    Calls = {u1, u2}
    WaitingLifetime = 2
    RotationThreshold = 1
    ConfirmationTimeout = 1
    CompletionTimeout = 1
    MaxTime = 3
SYMMETRY Symmetry
CHECK_DEADLOCK FALSE
INVARIANT ResetForgets
