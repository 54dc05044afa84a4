SPECIFICATION FairStreamSpec
CONSTANTS
    Wires = {}
    Streams <- MCStreams
    Block = 4
    BlankLineSplit = FALSE
    Truncate = TRUE
INVARIANTS
    SeesOnlyReceivedBytes
    CallbacksInOrder
    RejectsOnlyMalformed
    CursorInBuffer
    EmptyOnlyBetweenMessages
PROPERTIES
    ImplementsDelivery
    EventuallyDelivers
