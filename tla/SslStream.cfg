SPECIFICATION Spec
CHECK_DEADLOCK FALSE
CONSTANTS
    Block = 2
    MaxBytes = 5
    MaxIn = 3
INVARIANTS
    RetryIsSame
    RoomForRead
PROPERTY
    ImplementsPipe
