SPECIFICATION DaemonSpec
CONSTANTS
    p1 = p1
    p2 = p2
    Procs = {p1, p2}
    NoProc = NoProc
    Pid <- MCPid
    Files = {"/dev/null", "a"}
    MaxFd = 5
    Default = 4
    Limits = {3, 6}
    Callers <- MCCallers
INVARIANTS
    OneDaemon
    PidfileNamesDaemon
    Detached
CHECK_DEADLOCK FALSE
