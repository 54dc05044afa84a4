SPECIFICATION FairSpec
CONSTANTS
    Users = {u1, u2, u3, u4}
    NoOne = NoOne
    Failed = Failed
    MaxConnects = 4
    Https = FALSE
    PeerCloses = {"busy"}
    MemoryFails = FALSE
    Interrupts = FALSE
    ReadYields = FALSE
INVARIANT WaiterIsServed
INVARIANT OwnResponse
INVARIANT IdleStreamsAreEmpty
PROPERTY CallsReturn
CHECK_DEADLOCK FALSE
