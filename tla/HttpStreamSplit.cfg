SPECIFICATION StreamSpec
CONSTANTS
    Wires = {}
    Streams <- MCGoodStreams
    Block = 4
    BlankLineSplit = TRUE
    Truncate = FALSE
INVARIANT
    DeliversMessages
