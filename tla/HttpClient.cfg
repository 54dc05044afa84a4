SPECIFICATION Spec
CONSTANTS
    Users = {u1, u2, u3}
    NoOne = NoOne
    Failed = Failed
    MaxConnects = 2
    Https = TRUE
    PeerCloses = {"busy", "idle", "early"}
    MemoryFails = TRUE
    Interrupts = TRUE
    ReadYields = TRUE
SYMMETRY UserSymmetry
INVARIANT TypeOK
INVARIANT OneRequestInFlight
INVARIANT WorkersAreKnown
INVARIANT OneInside
INVARIANT FreedIsQuiet
CHECK_DEADLOCK FALSE
