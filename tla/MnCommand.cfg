SPECIFICATION Spec
CHECK_DEADLOCK FALSE
CONSTANTS
    Null = Null
    Stale = Stale
    Programs <- MCPrograms
    Letters = {"a", "b"}
    MaxGetopts = 2
    MemoryFails = TRUE
    BufSz = 4
    MaxText = 6
INVARIANTS
    OptionsMatchCommands
    DispatchAsNamed
    LastWordWins
    HelpKeepsText
PROPERTY
    KnownIsFound
