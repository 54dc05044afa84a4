------------------------------- MODULE MCServers -------------------------------
(* A program with one of the servers of local_server.c: a mnapp_tcp_server_t,
   or threads local_server().  *)
EXTENDS TcpServer, LocalServer

VARIABLE server         \* which one: "tcp" or "local"

serversVars == <<server, vars, localVars>>

ServersInit ==
    /\ server \in {"tcp", "local"}
    /\ Init /\ LocalInit
    /\ server = "tcp" => path = CHOOSE p \in [Threads -> Paths] : TRUE
    /\ server = "local" => family = CHOOSE f \in Families : TRUE

Tcp(A) == server = "tcp" /\ A /\ UNCHANGED <<server, localVars>>
Local(A) == server = "local" /\ A /\ UNCHANGED <<server, vars>>

\* mnthr runs every thread that can run, and callbacks return; nothing forces
\* accept to fail.
ServersSpec ==
    /\ ServersInit /\ [][Tcp(Next) \/ Local(LocalNext)]_serversVars
    /\ WF_serversVars(Tcp(Owner)) /\ WF_serversVars(Tcp(OtherStopped))
    /\ \A w \in Starts : WF_serversVars(Tcp(Worker(w)))
    /\ \A t \in Threads : WF_serversVars(Local(AcceptAll(t)))
=============================================================================
