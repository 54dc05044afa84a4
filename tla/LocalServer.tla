------------------------------ MODULE LocalServer ------------------------------
(***************************************************************************)
(* The threads local_server() of local_server.c, the flag that ends them,  *)
(* and their clients.  A thread runs until it blocks in                    *)
(* mnthr_accept_all(), so that what it does from there back to there, or   *)
(* to its end, is one action.  No file that is not a socket is in the way. *)
(***************************************************************************)
EXTENDS Naturals, FiniteSets

CONSTANTS Threads,      \* calls of local_server()
          Paths,
          LocalClients, \* connections that clients make
          NoThread      \* not a thread

ASSUME LocalAssumption == NoThread \notin Threads

VARIABLES _shutdown,    \* the global flag
          path,         \* the argument of each thread
          tpc,          \* the threads: "new", "accept" or "end"
          file,         \* the thread whose socket a path leads to, or NoThread
          conn,         \* the connections
          peer,         \* the thread at whose socket a connection waits
          late          \* batches that a thread has accepted after shutdown

localVars == <<_shutdown, path, tpc, file, conn, peer, late>>

LocalInit ==
    /\ _shutdown = FALSE
    /\ path \in [Threads -> Paths]
    /\ tpc = [t \in Threads |-> "new"]
    /\ file = [p \in Paths |-> NoThread]
    /\ conn = [c \in LocalClients |-> "new"] /\ peer = [c \in LocalClients |-> NoThread]
    /\ late = [t \in Threads |-> 0]

\* local_server_shutdown().
Shutdown ==
    /\ ~_shutdown
    /\ _shutdown' = TRUE
    /\ UNCHANGED <<path, tpc, file, conn, peer, late>>

\* Mutant: the socket is not closed.
LeaveKeepsSocket(t, served) ==
    /\ tpc' = [tpc EXCEPT ![t] = "end"]
    /\ file' = [file EXCEPT ![path[t]] = NoThread]
    /\ conn' = [c \in LocalClients |-> IF c \in served THEN "served" ELSE conn[c]]

\* Mutant: the path is left behind.
LeaveKeepsPath(t, served) ==
    /\ tpc' = [tpc EXCEPT ![t] = "end"]
    /\ file' = file
    /\ conn' = [c \in LocalClients |-> IF c \in served THEN "served"
                                      ELSE IF conn[c] = "waits" /\ peer[c] = t THEN "reset"
                                      ELSE conn[c]]

\* The thread closes its socket, which resets the connections that wait there,
\* unlinks its path and returns.
Leave(t, served) ==
    /\ tpc' = [tpc EXCEPT ![t] = "end"]
    /\ file' = [file EXCEPT ![path[t]] = NoThread]
    /\ conn' = [c \in LocalClients |-> IF c \in served THEN "served"
                                      ELSE IF conn[c] = "waits" /\ peer[c] = t THEN "reset"
                                      ELSE conn[c]]

\* Mutant: the flag is looked at before the thread accepts, and not again.
LoopUnchecked(t, served) ==
    /\ tpc' = [tpc EXCEPT ![t] = "accept"]
    /\ conn' = [c \in LocalClients |-> IF c \in served THEN "served" ELSE conn[c]]
    /\ UNCHANGED file

\* The head of the loop, after a thread was spawned for each one served.
Loop(t, served) ==
    IF _shutdown THEN Leave(t, served)
    ELSE /\ tpc' = [tpc EXCEPT ![t] = "accept"]
         /\ conn' = [c \in LocalClients |-> IF c \in served THEN "served" ELSE conn[c]]
         /\ UNCHANGED file

\* local_server(), up to the loop: a socket that the path led to is replaced.
Begin(t) ==
    /\ tpc[t] = "new"
    /\ IF _shutdown THEN Leave(t, {})
       ELSE /\ file' = [file EXCEPT ![path[t]] = t]
            /\ tpc' = [tpc EXCEPT ![t] = "accept"]
            /\ UNCHANGED conn
    /\ UNCHANGED <<_shutdown, path, peer, late>>

WaitAt(t) == {c \in LocalClients : conn[c] = "waits" /\ peer[c] = t}

\* mnthr_accept_all() returns all connections that wait.
AcceptAll(t) ==
    /\ tpc[t] = "accept" /\ WaitAt(t) # {}
    /\ late' = IF _shutdown THEN [late EXCEPT ![t] = @ + 1] ELSE late
    /\ Loop(t, WaitAt(t))
    /\ UNCHANGED <<_shutdown, path, peer>>

\* It fails, or the thread is interrupted in it.
AcceptAllFails(t) ==
    /\ tpc[t] = "accept"
    /\ Leave(t, {})
    /\ UNCHANGED <<_shutdown, path, peer, late>>

\* A client connects to the socket that the path leads to.
Connect(c, p) ==
    /\ conn[c] = "new" /\ file[p] # NoThread /\ tpc[file[p]] = "accept"
    /\ conn' = [conn EXCEPT ![c] = "waits"]
    /\ peer' = [peer EXCEPT ![c] = file[p]]
    /\ UNCHANGED <<_shutdown, path, tpc, file, late>>

LocalNext ==
    \/ Shutdown
    \/ \E t \in Threads : Begin(t) \/ AcceptAll(t) \/ AcceptAllFails(t)
    \/ \E c \in LocalClients, p \in Paths : Connect(c, p)

-----------------------------------------------------------------------------
(* Properties.                                                             *)

\* Threads do not share a path: the one that ends unlinks it for the other.
OwnPath(t) == \A o \in Threads : path[o] = path[t] => o = t

\* A path leads to the thread that listens there, from its start to its end, and
\* to nothing before and after, if each thread has its own.
PathLeadsToServer ==
    \A t \in Threads :
        OwnPath(t) => file[path[t]] = IF tpc[t] = "accept" THEN t ELSE NoThread

\* local_server_shutdown() does not wake a thread, but lets it accept only once
\* more, whatever the order of connections and shutdown.
OneBatchAfterShutdown == \A t \in Threads : late[t] <= 1

\* A connection that waits is served, or reset when the server has come to its end;
\* after a shutdown that connection also ends the thread.
WaitingIsAnswered ==
    \A c \in LocalClients, t \in Threads :
        conn[c] = "waits" /\ peer[c] = t
            ~> conn[c] \in {"served", "reset"} /\ (_shutdown => tpc[t] = "end")
=============================================================================
