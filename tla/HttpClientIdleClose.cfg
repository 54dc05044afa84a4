SPECIFICATION Spec
CONSTANTS
    Users = {u1, u2, u3}
    NoOne = NoOne
    Failed = Failed
    MaxConnects = 2
    Https = FALSE
    PeerCloses = {"idle"}
    MemoryFails = FALSE
    Interrupts = FALSE
    ReadYields = FALSE
SYMMETRY UserSymmetry
INVARIANT OwnResponse
CHECK_DEADLOCK FALSE
