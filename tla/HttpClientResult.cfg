SPECIFICATION Spec
CONSTANTS
    Users = {u1, u2, u3}
    NoOne = NoOne
    Failed = Failed
    MaxConnects = 2
    Https = FALSE
    PeerCloses = {"busy"}
    MemoryFails = FALSE
    Interrupts = FALSE
    ReadYields = FALSE
SYMMETRY UserSymmetry
INVARIANT ReturnsZeroWithResponse
CHECK_DEADLOCK FALSE
