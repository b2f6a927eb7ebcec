SPECIFICATION Spec
CONSTANTS
    Customers = {c1, c2}
    Devices = {d1, d2}
    Codes = {k1, k2}
    Ids = {i1, i2}
    Parents = {p1, p2}
    NoCode = NoCode
    NoDevice = NoDevice
    WaitingLifetime = 2
    RotationThreshold = 1
    ConfirmationTimeout = 1
    CompletionTimeout = 1
    MaxTime = 3
SYMMETRY Symmetry
INVARIANT SessionsSound
PROPERTIES PairsOnce RegistersWhatWasShown
CHECK_DEADLOCK FALSE
