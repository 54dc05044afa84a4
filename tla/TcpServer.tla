------------------------------- MODULE TcpServer -------------------------------
(***************************************************************************)
(* The TCP or Unix socket server of local_server.c, mnapp_tcp_server_*():  *)
(* the owner, which takes the context through init, start, serve, stop and *)
(* fini; the worker thread that start() spawns; another thread of the      *)
(* program, which may call stop(); the clients.  mnthr threads are         *)
(* cooperative, so an action ends where its thread blocks.                 *)
(*                                                                         *)
(* The n-th call of start() that succeeds makes socket n and worker n.     *)
(***************************************************************************)
EXTENDS Naturals, Sequences, FiniteSets, SequencesExt

CONSTANTS Clients,      \* connections that clients make
          MaxStarts,    \* bound: calls of start() that succeed
          Families,     \* srv->family, which init() derives from the address
          CbFails       \* may the callback return an error?

Starts == 1 .. MaxStarts

ASSUME ServerAssumption ==
    /\ IsFiniteSet(Clients) /\ MaxStarts \in Nat
    /\ Families \subseteq {"inet", "local"}
    /\ CbFails \in BOOLEAN

VARIABLES family,        \* srv->family
          pc,            \* the owner
          other,         \* the other thread: "idle", or "stop" inside stop()
          thread,        \* srv->thread: a worker, or 0 for NULL
          shutting_down, \* srv->shutting_down
          fd,            \* srv->fd: a socket, or 0 for -1
          starts,        \* sockets and workers made so far
          listening,     \* the sockets that the process has open
          bound,         \* the socket that the address leads to, or 0
          wpc,           \* the workers
          intr,          \* the interrupted workers
          batch,         \* accepted connections not yet passed to the callback
          cl,            \* the connections
          at             \* the socket at which a connection waits

srvVars == <<thread, shutting_down, fd>>
sockVars == <<family, starts, listening, bound>>
clVars == <<batch, cl, at>>
vars == <<pc, other, srvVars, sockVars, wpc, intr, clVars>>

Dead(w) == wpc[w] \in {"none", "dead"}

\* mnapp_tcp_server_init(), in a program that has not used the address yet.
Init ==
    /\ family \in Families
    /\ pc = "init" /\ other = "idle"
    /\ thread = 0 /\ shutting_down = FALSE /\ fd = 0
    /\ starts = 0 /\ listening = {} /\ bound = 0
    /\ wpc = [w \in Starts |-> "none"] /\ intr = {}
    /\ batch = <<>>
    /\ cl = [c \in Clients |-> "new"] /\ at = [c \in Clients |-> 0]

-----------------------------------------------------------------------------
(* The owner.                                                              *)

\* start(): a local socket replaces what its path led to; an internet address
\* must not be in use.
Start ==
    /\ pc = "init" /\ starts < MaxStarts
    /\ family = "local" \/ listening = {}
    /\ starts' = starts + 1
    /\ fd' = starts' /\ listening' = listening \cup {starts'} /\ bound' = starts'
    /\ thread' = starts'
    /\ wpc' = [wpc EXCEPT ![starts'] = "run"]
    /\ pc' = "started"
    /\ UNCHANGED <<family, other, shutting_down, intr, clVars>>

\* start() returns an error, after it closed what it had opened; what a local
\* path led to is unlinked by then.
StartFails ==
    /\ pc = "init"
    /\ fd' = 0
    /\ bound' = IF family = "local" THEN 0 ELSE bound
    /\ pc' = "stopped"
    /\ UNCHANGED <<other, thread, shutting_down, family, starts, listening, wpc,
                   intr, clVars>>

\* serve() asserts that there is a thread and joins it.  The owner may also go
\* on with other work and call stop() without serve().
Serve ==
    /\ pc = "started" /\ thread # 0
    /\ pc' = "serve"
    /\ UNCHANGED <<other, srvVars, sockVars, wpc, intr, clVars>>

\* serve() returns.  The thread pointer is left as it is.
Served ==
    /\ pc = "serve"
    /\ Dead(starts)
    /\ pc' = "served"
    /\ UNCHANGED <<other, srvVars, sockVars, wpc, intr, clVars>>

\* Mutant: the thread is interrupted without looking whether there is one.
BeginStopUnchecked ==
    /\ shutting_down' = TRUE
    /\ intr' = intr \cup {thread}

\* Mutant: the flag alone does not end a worker that is blocked in accept.
BeginStopNoInterrupt ==
    /\ shutting_down' = TRUE
    /\ UNCHANGED intr

\* stop(), until it joins the worker, and after it.
BeginStop ==
    /\ shutting_down' = TRUE
    /\ intr' = IF thread # 0 THEN intr \cup {thread} ELSE intr

\* Mutant: stop() does not wait for the worker.
JoinedAtOnce == TRUE

Joined == thread # 0 => Dead(thread)

Stop ==
    /\ pc \in {"started", "served"}
    /\ BeginStop
    /\ pc' = "stop"
    /\ UNCHANGED <<other, thread, fd, sockVars, wpc, clVars>>

Stopped ==
    /\ pc = "stop"
    /\ Joined
    /\ thread' = 0
    /\ pc' = "stopped"
    /\ UNCHANGED <<other, shutting_down, fd, sockVars, wpc, intr, clVars>>

\* fini() stops the worker too, for an owner that has not called stop().  The
\* program calls it when no thread is inside stop().
Fini ==
    /\ pc \in {"started", "served", "stopped"} /\ other = "idle"
    /\ BeginStop
    /\ pc' = "fini"
    /\ UNCHANGED <<other, thread, fd, sockVars, wpc, clVars>>

Finished ==
    /\ pc = "fini"
    /\ Joined
    /\ thread' = 0 /\ fd' = 0
    /\ pc' = "end"
    /\ UNCHANGED <<other, shutting_down, sockVars, wpc, intr, clVars>>

\* init() again, for the same address.
Reinit ==
    /\ pc = "end"
    /\ thread' = 0 /\ shutting_down' = FALSE /\ fd' = 0
    /\ pc' = "init"
    /\ UNCHANGED <<other, sockVars, wpc, intr, clVars>>

-----------------------------------------------------------------------------
(* Another thread stops the server too.                                    *)

OtherStop ==
    /\ other = "idle" /\ pc \in {"serve", "served", "stop"}
    /\ BeginStop
    /\ other' = "stop"
    /\ UNCHANGED <<pc, thread, fd, sockVars, wpc, clVars>>

OtherStopped ==
    /\ other = "stop"
    /\ Joined
    /\ thread' = 0
    /\ other' = "idle"
    /\ UNCHANGED <<pc, shutting_down, fd, sockVars, wpc, intr, clVars>>

-----------------------------------------------------------------------------
(* mnapp_tcp_server_worker().                                              *)

\* Where the worker goes at the head of its loop.
LoopHead == IF shutting_down THEN "dead" ELSE "accept"

WorkerStarts(w) ==
    /\ wpc[w] = "run"
    /\ wpc' = [wpc EXCEPT ![w] = LoopHead]
    /\ UNCHANGED <<pc, other, srvVars, sockVars, intr, clVars>>

Waiting == {c \in Clients : cl[c] = "pending" /\ at[c] = fd}

\* Mutant: the batch loop starts behind the first connection.
AcceptSkipsFirst(w) ==
    /\ wpc[w] = "accept" /\ w \notin intr
    /\ Waiting # {}
    /\ \E s \in SetToSeqs(Waiting) : batch' = Tail(s)
    /\ cl' = [c \in Clients |-> IF c \in Waiting THEN "accepted" ELSE cl[c]]
    /\ wpc' = [wpc EXCEPT ![w] = IF batch' = <<>> THEN LoopHead ELSE "cb"]
    /\ UNCHANGED <<pc, other, srvVars, sockVars, intr, at>>

\* mnthr_accept_all2() returns all the connections that wait at the socket.
Accept(w) ==
    /\ wpc[w] = "accept" /\ w \notin intr
    /\ Waiting # {}
    /\ batch' \in SetToSeqs(Waiting)
    /\ cl' = [c \in Clients |-> IF c \in Waiting THEN "accepted" ELSE cl[c]]
    /\ wpc' = [wpc EXCEPT ![w] = "cb"]
    /\ UNCHANGED <<pc, other, srvVars, sockVars, intr, at>>

\* It fails, or the worker is interrupted in it.
AcceptFails(w) ==
    /\ wpc[w] = "accept"
    /\ wpc' = [wpc EXCEPT ![w] = "dead"]
    /\ UNCHANGED <<pc, other, srvVars, sockVars, intr, clVars>>

AcceptInterrupted(w) == w \in intr /\ AcceptFails(w)

\* The callback takes the next connection, and may block before it returns.
Callback(w) ==
    /\ wpc[w] = "cb"
    /\ cl' = [cl EXCEPT ![Head(batch)] = "handled"]
    /\ batch' = Tail(batch)
    /\ wpc' = [wpc EXCEPT ![w] = IF Tail(batch) = <<>> THEN LoopHead ELSE "cb"]
    /\ UNCHANGED <<pc, other, srvVars, sockVars, intr, at>>

\* It returns an error: the rest of the batch is dropped, not closed.
CallbackFails(w) ==
    /\ CbFails
    /\ wpc[w] = "cb"
    /\ cl' = [c \in Clients |-> CASE c = Head(batch) -> "handled"
                                  [] c \in ToSet(Tail(batch)) -> "dropped"
                                  [] OTHER -> cl[c]]
    /\ batch' = <<>>
    /\ wpc' = [wpc EXCEPT ![w] = LoopHead]
    /\ UNCHANGED <<pc, other, srvVars, sockVars, intr, at>>

-----------------------------------------------------------------------------
\* The kernel queues a connection at the socket that has the address.
ClientConnect(c) ==
    /\ cl[c] = "new" /\ bound \in listening
    /\ cl' = [cl EXCEPT ![c] = "pending"]
    /\ at' = [at EXCEPT ![c] = bound]
    /\ UNCHANGED <<pc, other, srvVars, sockVars, wpc, intr, batch>>

Owner == Start \/ StartFails \/ Serve \/ Served \/ Stop \/ Stopped
            \/ Fini \/ Finished
Worker(w) == WorkerStarts(w) \/ Accept(w) \/ AcceptInterrupted(w)
                \/ Callback(w) \/ CallbackFails(w)

Next ==
    \/ Owner \/ Reinit
    \/ OtherStop \/ OtherStopped
    \/ \E w \in Starts : Worker(w) \/ AcceptFails(w)
    \/ \E c \in Clients : ClientConnect(c)

-----------------------------------------------------------------------------
\* The types of the variables; in particular fini() and two calls of stop() only
\* ever interrupt a worker that start() has spawned.
TypeOK ==
    /\ pc \in {"init", "started", "serve", "served", "stop", "stopped",
              "fini", "end"}
    /\ family \in Families
    /\ other \in {"idle", "stop"}
    /\ starts \in 0 .. MaxStarts
    /\ {thread, fd, bound} \subseteq 0 .. starts
    /\ shutting_down \in BOOLEAN
    /\ listening \subseteq Starts /\ intr \subseteq Starts
    /\ wpc \in [Starts -> {"none", "run", "accept", "cb", "dead"}]
    /\ batch \in Seq(Clients)
    /\ cl \in [Clients -> {"new", "pending", "accepted", "handled", "dropped"}]
    /\ at \in [Clients -> 0 .. starts]

\* When stop() has returned the worker has ended: no callback runs on a server
\* that was stopped, and fini() frees nothing that a worker still uses,
\* whichever of two threads in stop() returns first.
QuietWhenStopped == pc \in {"stopped", "end"} => \A w \in Starts : Dead(w)

\* No connection that was accepted gets lost, unless a callback fails: it waits
\* in the batch of a worker that goes on with it, also when the server is stopped
\* while a batch is being passed on.
AcceptedIsPassedOn ==
    \A c \in Clients : cl[c] = "accepted" =>
        /\ c \in ToSet(batch)
        /\ \E w \in Starts : wpc[w] = "cb"

\* A connection that waits at the server's socket is passed to the callback,
\* unless the server is stopped or a callback fails for one accepted with it.
PendingIsHandled ==
    \A c \in Clients :
        c \in Waiting ~> cl[c] \in {"handled", "dropped"} \/ shutting_down

\* A thread that is inside stop() or fini() leaves it, also when two threads
\* stop the server and one of them finds the worker gone.
StopReturns ==
    /\ pc = "stop" ~> pc = "stopped"
    /\ pc = "fini" ~> pc = "end"
    /\ other = "stop" ~> other = "idle"
=============================================================================
