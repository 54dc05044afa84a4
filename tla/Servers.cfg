SPECIFICATION ServersSpec
CONSTANTS
    Clients = {c1, c2, c3}
    MaxStarts = 2
    Families = {"inet", "local"}
    CbFails = TRUE
    Threads = {t1, t2}
    Paths = {p1, p2}
    LocalClients = {c1, c2, c3}
    NoThread = NoThread
INVARIANTS
    TypeOK
    QuietWhenStopped
    AcceptedIsPassedOn
    PathLeadsToServer
    OneBatchAfterShutdown
PROPERTIES
    PendingIsHandled
    StopReturns
    WaitingIsAnswered
CHECK_DEADLOCK FALSE
