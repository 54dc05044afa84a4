------------------------------ MODULE HttpClient ------------------------------
(***************************************************************************)
(* One connection of the HTTP client, mnhttpc.c: the threads that call     *)
(* mnhttpc_request_finalize() on it, its send and receive workers,         *)
(* mnhttpc_gc(), mnhttpc_fini() and the peer.                              *)
(*                                                                         *)
(* mnthr threads are cooperative: a thread runs until it blocks in an mnthr*)
(* call, so an action is what one thread does between two blocking calls.  *)
(* A user stands for a thread and for the one request it submits; as in    *)
(* test/testmnhttpc.c it destroys the request when finalize has returned.  *)
(* The n-th connect() starts the n-th pair of workers, which n names.      *)
(***************************************************************************)
EXTENDS Naturals, Sequences, FiniteSets

CONSTANTS Users,
          NoOne, Failed,    \* not users: no request; the response was not read
          MaxConnects,      \* bound: connections made before connecting fails
          Https,            \* is the scheme of the connection https?
          PeerCloses,       \* when the peer may close: see Closing
          MemoryFails,      \* may memory run out?
          Interrupts,       \* may a thread that waits be interrupted?
          ReadYields        \* may a read suspend although its outcome is there?

Conns == 1 .. MaxConnects

ASSUME ClientAssumption ==
    /\ NoOne \notin Users /\ Failed \notin Users /\ NoOne # Failed
    /\ MaxConnects \in Nat
    /\ {Https, MemoryFails, Interrupts, ReadYields} \subseteq BOOLEAN
    /\ PeerCloses \subseteq {"busy", "idle", "early"}

VARIABLES upc,          \* where each user is in mnhttpc_request_finalize()
          resp,         \* whose response was parsed into each user's request
          sema,         \* holder of conn->reqfin_sema
          queue,        \* conn->requests
          out, inbuf,   \* unsent data of conn->out, unparsed data of conn->in
          nconn,        \* connections made so far
          fd,           \* conn->fd: a connection, or 0 for -1
          fp, io,       \* conn->fp, and what in.read_more and out.write expect
          sendp, recvp, \* conn->send_thread, conn->recv_thread; 0 for NULL
          spc, rpc,     \* the workers of each connection
          sintr, rintr, \* the interrupted workers
          cur,          \* the request that a receive worker has dequeued
          crashed,      \* has response_header_cb() used a NULL request?
          cut,          \* was a join cut short, and a thread left behind?
          topeer, chan, \* bytes on the way to the peer, and from it
          closed,       \* has the peer closed the connection?
          opc           \* the thread that calls mnhttpc_fini()

userVars == <<upc, resp, sema>>
connVars == <<nconn, fd, fp>>
workVars == <<sendp, recvp, spc, rpc, sintr, rintr, cur>>
netVars == <<topeer, chan, closed>>
vars == <<userVars, queue, out, inbuf, connVars, io, workVars, crashed, cut, netVars, opc>>

\* A request is two pieces of data, so that it can be written in part.
Unit == [r : Users, last : BOOLEAN]
Request(u) == <<[r |-> u, last |-> FALSE], [r |-> u, last |-> TRUE]>>

\* A response, or the part of it that the peer sent before it closed.
Token == [r : Users, full : BOOLEAN]

UserPcs == {"new", "join_send", "join_recv", "connect", "ssl", "waiting",
            "woken", "done", "failed", "interrupted"}

Init ==
    /\ upc = [u \in Users |-> "new"]
    /\ resp = [u \in Users |-> NoOne]
    /\ sema = NoOne
    /\ queue = <<>> /\ out = <<>> /\ inbuf = <<>>
    /\ nconn = 0 /\ fd = 0 /\ fp = "none"
    /\ io = IF Https THEN "ssl" ELSE "fd"
    /\ sendp = 0 /\ recvp = 0
    /\ spc = [c \in Conns |-> "none"] /\ rpc = [c \in Conns |-> "none"]
    /\ sintr = {} /\ rintr = {}
    /\ cur = [c \in Conns |-> NoOne]
    /\ crashed = FALSE /\ cut = FALSE
    /\ topeer = <<>> /\ chan = <<>> /\ closed = FALSE
    /\ opc = "use"

\* The stream functions are given the handle they expect.
IoOk == fp = io

-----------------------------------------------------------------------------
(* mnhttpc_request_finalize().                                             *)

\* Mutant: the semaphore is released before the response has come.
SubmitReleases(u, workers) ==
    /\ out' = out \o Request(u)
    /\ queue' = Append(queue, u)
    /\ spc' = [c \in Conns |-> IF workers[c] = "wait" THEN "run" ELSE workers[c]]
    /\ upc' = [upc EXCEPT ![u] = "waiting"]
    /\ sema' = NoOne

\* With a connection: write the request, queue it, signal the send worker
\* (a worker that is not subscribed misses the signal) and wait.
Submit(u, workers) ==
    /\ out' = out \o Request(u)
    /\ queue' = Append(queue, u)
    /\ spc' = [c \in Conns |-> IF workers[c] = "wait" THEN "run" ELSE workers[c]]
    /\ upc' = [upc EXCEPT ![u] = "waiting"]
    /\ sema' = u

\* finalize fails: release the semaphore and return an error.
GiveUp(u) == upc' = [upc EXCEPT ![u] = "failed"] /\ sema' = NoOne

\* mnhttp_uri_start_request() has no memory for all of the request line.
NoMemory(u, workers) ==
    /\ MemoryFails
    /\ out' \in {out, Append(out, Request(u)[1])}
    /\ spc' = workers
    /\ GiveUp(u)
    /\ UNCHANGED queue

WriteRequest(u, workers) == Submit(u, workers) \/ NoMemory(u, workers)

\* The semaphore is free and both workers are there.
AcquireConnected(u) ==
    /\ upc[u] = "new" /\ sema = NoOne
    /\ sendp # 0 /\ recvp # 0
    /\ WriteRequest(u, spc)
    /\ UNCHANGED <<resp, inbuf, connVars, io, sendp, recvp, rpc, sintr, rintr,
                   cur, crashed, cut, netVars>>

\* Mutant: the thread is joined without looking whether there is one.
CloseRecvUnchecked(u) ==
    /\ rintr' = rintr \cup {recvp}
    /\ upc' = [upc EXCEPT ![u] = "join_recv"]
    /\ UNCHANGED <<fd, fp>>

\* mnhttpc_connection_close(), from the receive worker on.
CloseRecv(u) ==
    IF recvp # 0
      THEN /\ rintr' = rintr \cup {recvp}
           /\ upc' = [upc EXCEPT ![u] = "join_recv"]
           /\ UNCHANGED <<fd, fp>>
      ELSE /\ fd' = 0 /\ fp' = "none"
           /\ upc' = [upc EXCEPT ![u] = "connect"]
           /\ UNCHANGED rintr

\* A worker has gone: mnhttpc_connection_ensure_connected() closes first.
AcquireReconnect(u) ==
    /\ upc[u] = "new" /\ sema = NoOne
    /\ sendp = 0 \/ recvp = 0
    /\ sema' = u
    /\ IF sendp # 0
         THEN /\ sintr' = sintr \cup {sendp}
              /\ upc' = [upc EXCEPT ![u] = "join_send"]
              /\ UNCHANGED <<rintr, fd, fp>>
         ELSE CloseRecv(u) /\ UNCHANGED sintr
    /\ UNCHANGED <<resp, queue, out, inbuf, nconn, io, sendp, recvp, spc, rpc,
                   cur, crashed, cut, netVars>>

\* mnthr_set_interrupt_and_join() of the worker returns: it has ended, or the thread
\* that waits for it is interrupted.  The callers do not look which.
Joined(pc) ==
    \/ pc[nconn] = "dead" /\ UNCHANGED cut
    \/ Interrupts /\ pc[nconn] # "dead" /\ cut' = TRUE

JoinSend(u) ==
    /\ upc[u] = "join_send"
    /\ Joined(spc)
    /\ sendp' = 0
    /\ CloseRecv(u)
    /\ UNCHANGED <<resp, sema, queue, out, inbuf, nconn, io, recvp, spc, rpc,
                   sintr, cur, crashed, netVars>>

JoinRecv(u) ==
    /\ upc[u] = "join_recv"
    /\ Joined(rpc)
    /\ recvp' = 0
    /\ fd' = 0 /\ fp' = "none"
    /\ upc' = [upc EXCEPT ![u] = "connect"]
    /\ UNCHANGED <<resp, sema, queue, out, inbuf, nconn, io, sendp, spc, rpc,
                   sintr, rintr, cur, crashed, netVars>>

\* Mutant: the error return does not release the semaphore.
ConnectFailsHolding(u) ==
    /\ upc[u] = "connect"
    /\ upc' = [upc EXCEPT ![u] = "failed"]
    /\ UNCHANGED <<resp, sema, queue, out, inbuf, connVars, io, workVars, crashed, cut,
                   netVars>>

\* mnthr_socket_connect() fails, or there is a new connection.
ConnectFails(u) ==
    /\ upc[u] = "connect"
    /\ GiveUp(u)
    /\ UNCHANGED <<resp, queue, out, inbuf, connVars, io, workVars, crashed, cut, netVars>>

Connect(u) ==
    /\ upc[u] = "connect"
    /\ nconn < MaxConnects
    /\ nconn' = nconn + 1 /\ fd' = nconn + 1 /\ fp' = "fd"
    /\ topeer' = <<>> /\ chan' = <<>> /\ closed' = FALSE
    /\ upc' = [upc EXCEPT ![u] = "ssl"]
    /\ UNCHANGED <<resp, sema, queue, out, inbuf, io, workVars, crashed, cut>>

\* The join of the thread that runs mnhttpc_connection_ssl_init() returns: the
\* handshake failed, or the user was interrupted, perhaps before that thread ran;
\* otherwise the workers are spawned and finalize goes on.
SslInitFails(u) ==
    /\ upc[u] = "ssl"
    /\ \/ Https /\ fp' = "ssl" /\ UNCHANGED cut
       \/ Interrupts /\ fp' \in {fp, IF Https THEN "ssl" ELSE "fd"} /\ cut' = (cut \/ Https)
    /\ GiveUp(u)
    /\ UNCHANGED <<resp, queue, out, inbuf, nconn, fd, io, workVars, crashed, netVars>>

SslInit(u) ==
    /\ upc[u] = "ssl"
    /\ fp' = IF Https THEN "ssl" ELSE "fd"
    /\ sendp' = fd /\ recvp' = fd
    /\ rpc' = [rpc EXCEPT ![fd] = "wait"]
    /\ WriteRequest(u, [spc EXCEPT ![fd] = "run"])
    /\ UNCHANGED <<resp, inbuf, nconn, fd, io, sintr, rintr, cur, crashed, cut, netVars>>

\* Woken by the receive worker: finalize returns 0, whatever was received.
Resume(u) ==
    /\ upc[u] = "woken"
    /\ upc' = [upc EXCEPT ![u] = "done"]
    /\ sema' = NoOne
    /\ UNCHANGED <<resp, queue, out, inbuf, connVars, io, workVars, crashed, cut, netVars>>

\* Mutant: also a thread that did not get the semaphore releases it.
InterruptReleases(u) ==
    /\ Interrupts
    /\ upc[u] \in {"new", "waiting"}
    /\ upc' = [upc EXCEPT ![u] = "interrupted"]
    /\ sema' = NoOne
    /\ UNCHANGED <<resp, queue, out, inbuf, connVars, io, workVars, crashed, cut, netVars>>

\* Interrupted while waiting for the semaphore or for the response.  For a thread
\* that is interrupted elsewhere see Joined, ConnectFails and SslInitFails.
Interrupt(u) ==
    /\ Interrupts
    /\ upc[u] \in {"new", "waiting"}
    /\ upc' = [upc EXCEPT ![u] = "interrupted"]
    /\ sema' = IF upc[u] = "waiting" THEN NoOne ELSE sema
    /\ UNCHANGED <<resp, queue, out, inbuf, connVars, io, workVars, crashed, cut, netVars>>

\* mnhttpc_connection_gc(): new streams, reading and writing a plain socket.
Gc ==
    /\ sema = NoOne /\ opc = "use"
    /\ inbuf' = <<>> /\ out' = <<>>
    /\ io' = "fd"
    /\ UNCHANGED <<userVars, queue, connVars, workVars, crashed, cut, netVars>>

\* finalize has returned.
Returned == {"done", "failed", "interrupted"}

\* Mutant: the connection is freed without waiting for the worker.
FiniRecvOnlyInterrupts ==
    /\ rintr' = IF recvp # 0 THEN rintr \cup {recvp} ELSE rintr
    /\ fd' = 0 /\ fp' = "none" /\ out' = <<>> /\ inbuf' = <<>>
    /\ opc' = "freed"

\* mnhttpc_connection_fini(), from the receive worker on.
FiniRecv ==
    IF recvp # 0
      THEN /\ rintr' = rintr \cup {recvp}
           /\ opc' = "join_recv"
           /\ UNCHANGED <<fd, fp, out, inbuf>>
      ELSE /\ fd' = 0 /\ fp' = "none" /\ out' = <<>> /\ inbuf' = <<>>
           /\ opc' = "freed"
           /\ UNCHANGED rintr

\* mnhttpc_fini(), when no thread uses the client any more: what is queued is
\* destroyed and the connection closed.
Fini ==
    /\ opc = "use" /\ \A u \in Users : upc[u] \in Returned
    /\ queue' = <<>>
    /\ IF sendp # 0
         THEN /\ sintr' = sintr \cup {sendp}
              /\ opc' = "join_send"
              /\ UNCHANGED <<rintr, fd, fp, out, inbuf>>
         ELSE FiniRecv /\ UNCHANGED sintr
    /\ UNCHANGED <<userVars, nconn, io, sendp, recvp, spc, rpc, cur, crashed, cut, netVars>>

FiniJoinSend ==
    /\ opc = "join_send" /\ Joined(spc)
    /\ sendp' = 0
    /\ FiniRecv
    /\ UNCHANGED <<userVars, queue, nconn, io, recvp, spc, rpc, sintr, cur, crashed,
                   netVars>>

FiniJoinRecv ==
    /\ opc = "join_recv" /\ Joined(rpc)
    /\ recvp' = 0
    /\ fd' = 0 /\ fp' = "none" /\ out' = <<>> /\ inbuf' = <<>>
    /\ opc' = "freed"
    /\ UNCHANGED <<userVars, queue, nconn, io, sendp, spc, rpc, sintr, rintr, cur,
                   crashed, netVars>>

-----------------------------------------------------------------------------
(* mnhttpc_connection_send_worker(): produce conn->out, rewind, subscribe. *)

SendExit(c) ==
    /\ spc' = [spc EXCEPT ![c] = "dead"]
    /\ sendp' = 0

\* Mutant: the stream is not rewound when all of it was written.
UnsentNotRewound(k) == IF k = Len(out) THEN out ELSE SubSeq(out, k + 1, Len(out))

\* What is left of conn->out when k pieces were written.
Unsent(k) == SubSeq(out, k + 1, Len(out))

\* One write of a part of the data.  bytestream_produce_data() returns when all
\* of it was written; what is written to a peer that has closed is lost.
SendWrite(c) ==
    /\ spc[c] = "run" /\ c \notin sintr
    /\ IoOk
    /\ \E k \in 1 .. Len(out) :
         /\ topeer' = IF closed THEN topeer ELSE topeer \o SubSeq(out, 1, k)
         /\ out' = Unsent(k)
         /\ spc' = [spc EXCEPT ![c] = IF k = Len(out) THEN "wait" ELSE "run"]
    /\ UNCHANGED <<userVars, queue, inbuf, connVars, io, sendp, recvp, rpc, sintr,
                   rintr, cur, crashed, cut, chan, closed>>

\* Nothing to write.
SendIdle(c) ==
    /\ spc[c] = "run" /\ c \notin sintr
    /\ out = <<>>
    /\ spc' = [spc EXCEPT ![c] = "wait"]
    /\ UNCHANGED <<userVars, queue, out, inbuf, connVars, io, sendp, recvp, rpc,
                   sintr, rintr, cur, crashed, cut, netVars>>

\* The write fails, or the worker is interrupted: what was not written stays.
SendFails(c) ==
    /\ \/ spc[c] = "run" /\ out # <<>> /\ (closed \/ ~IoOk)
       \/ spc[c] \in {"run", "wait"} /\ c \in sintr
    /\ SendExit(c)
    /\ UNCHANGED <<userVars, queue, out, inbuf, connVars, io, recvp, rpc, sintr,
                   rintr, cur, crashed, cut, netVars>>

-----------------------------------------------------------------------------
(* mnhttpc_connection_recv_worker(): wait for the socket, take the first   *)
(* request, if there is one, and parse a response into it.                 *)

\* mnthr_signal_send(&req->recv_signal).
Wake(r) ==
    upc' = [u \in Users |-> IF u = r /\ upc[u] = "waiting" THEN "woken" ELSE upc[u]]

Receives(r, what) == resp' = [u \in Users |-> IF u = r THEN what ELSE resp[u]]

\* Mutant: conn->recv_thread is not reset.
RecvExitKeepsPointer(c) ==
    /\ rpc' = [rpc EXCEPT ![c] = "dead"]
    /\ cur' = [cur EXCEPT ![c] = NoOne]
    /\ UNCHANGED recvp

RecvExit(c) ==
    /\ rpc' = [rpc EXCEPT ![c] = "dead"]
    /\ cur' = [cur EXCEPT ![c] = NoOne]
    /\ recvp' = 0

\* http_parse_response() for request r, or for none, with the data buf read so
\* far: the whole response is there, ...
ParseAll(c, r, buf) ==
    /\ buf # <<>> /\ Head(buf).full
    /\ inbuf' = Tail(buf)
    /\ Receives(r, Head(buf).r)
    /\ Wake(r)
    /\ crashed' = (r = NoOne)
    /\ rpc' = [rpc EXCEPT ![c] = "wait"]
    /\ cur' = [cur EXCEPT ![c] = NoOne]
    /\ UNCHANGED recvp

\* ... or a part of it, and the worker waits for more, ...
ParsePart(c, r, buf) ==
    /\ buf # <<>> /\ ~Head(buf).full
    /\ inbuf' = Tail(buf)
    /\ rpc' = [rpc EXCEPT ![c] = "parse"]
    /\ cur' = [cur EXCEPT ![c] = r]
    /\ crashed' = (r = NoOne)
    /\ UNCHANGED <<upc, resp, recvp>>

\* Mutant: the waiting thread is only signalled when there is a response.
ParseFailsSilently(c, r) ==
    /\ Receives(r, Failed)
    /\ RecvExit(c)
    /\ UNCHANGED <<upc, inbuf, crashed>>

\* ... or there will be no more: the request is woken and the worker leaves.
ParseFails(c, r) ==
    /\ Receives(r, Failed)
    /\ Wake(r)
    /\ RecvExit(c)
    /\ UNCHANGED <<inbuf, crashed>>

Parse(c, r) ==
    \/ /\ inbuf # <<>>
       /\ ParseAll(c, r, inbuf) \/ ParsePart(c, r, inbuf)
       /\ UNCHANGED chan
    \/ /\ inbuf = <<>> /\ IoOk
       /\ \E k \in 1 .. Len(chan) :
            /\ \/ ParseAll(c, r, SubSeq(chan, 1, k))
               \/ ParsePart(c, r, SubSeq(chan, 1, k))
            /\ chan' = SubSeq(chan, k + 1, Len(chan))
    \/ /\ inbuf = <<>> /\ (~IoOk \/ (chan = <<>> /\ closed))
       /\ ParseFails(c, r)
       /\ UNCHANGED chan

\* mnthr_wait_for_read() returns, and the first request is dequeued.
RecvWake(c) ==
    /\ rpc[c] = "wait" /\ c \notin rintr
    /\ chan # <<>> \/ closed
    /\ LET r == IF queue = <<>> THEN NoOne ELSE Head(queue)
       IN  /\ queue' = IF queue = <<>> THEN <<>> ELSE Tail(queue)
           /\ IF ReadYields
                THEN /\ rpc' = [rpc EXCEPT ![c] = "parse"]
                     /\ cur' = [cur EXCEPT ![c] = r]
                     /\ UNCHANGED <<upc, resp, inbuf, recvp, crashed, chan>>
                ELSE Parse(c, r)
    /\ UNCHANGED <<sema, out, connVars, io, sendp, spc, sintr, rintr, cut, topeer, closed>>

RecvMore(c) ==
    /\ rpc[c] = "parse" /\ c \notin rintr
    /\ Parse(c, cur[c])
    /\ UNCHANGED <<sema, queue, out, connVars, io, sendp, spc, sintr, rintr, cut,
                   topeer, closed>>

RecvInterrupted(c) ==
    /\ rpc[c] \in {"wait", "parse"} /\ c \in rintr
    /\ ParseFails(c, cur[c])
    /\ UNCHANGED <<sema, queue, out, connVars, io, sendp, spc, sintr, rintr, cut, netVars>>

-----------------------------------------------------------------------------
(* The peer answers the requests it receives, in their order, and may      *)
(* close: "busy", when it has a whole request to answer; "idle", when it   *)
(* has received nothing; "early", when it has a part of a request.         *)

Whole == Len(topeer) >= 2 /\ SubSeq(topeer, 1, 2) = Request(topeer[1].r)

Closing == CASE topeer = <<>> -> "idle" [] Whole -> "busy" [] OTHER -> "early"

Answer(full) ==
    /\ chan' = Append(chan, [r |-> topeer[1].r, full |-> full])
    /\ topeer' = SubSeq(topeer, 3, Len(topeer))
    /\ UNCHANGED <<userVars, queue, out, inbuf, connVars, io, workVars, crashed, cut>>

Respond == fd # 0 /\ ~closed /\ Whole /\ Answer(TRUE) /\ UNCHANGED closed

RespondPartly ==
    /\ fd # 0 /\ ~closed /\ Whole /\ Closing \in PeerCloses
    /\ Answer(FALSE)
    /\ closed' = TRUE

PeerClose ==
    /\ fd # 0 /\ ~closed
    /\ Closing \in PeerCloses
    /\ closed' = TRUE
    /\ UNCHANGED <<userVars, queue, out, inbuf, connVars, io, workVars, crashed, cut,
                   topeer, chan>>

-----------------------------------------------------------------------------
UserNext(u) ==
    \/ AcquireConnected(u) \/ AcquireReconnect(u)
    \/ JoinSend(u) \/ JoinRecv(u)
    \/ ConnectFails(u) \/ Connect(u)
    \/ SslInitFails(u) \/ SslInit(u)
    \/ Resume(u)

SendNext(c) == SendWrite(c) \/ SendIdle(c) \/ SendFails(c)
RecvNext(c) == RecvWake(c) \/ RecvMore(c) \/ RecvInterrupted(c)
PeerNext == Respond \/ RespondPartly \/ PeerClose
Closer == FiniJoinSend \/ FiniJoinRecv

Next ==
    /\ ~crashed
    /\ \/ /\ \/ \E u \in Users : UserNext(u) \/ Interrupt(u)
             \/ \E c \in Conns : SendNext(c) \/ RecvNext(c)
             \/ Gc
             \/ PeerNext
          /\ UNCHANGED opc
       \/ Fini \/ Closer

Spec == Init /\ [][Next]_vars

\* mnthr runs every thread that can run.  The peer is assumed to answer a
\* request, or to close, in the end: the client has no timeout of its own.
FairSpec ==
    /\ Spec
    /\ \A u \in Users : WF_vars(~crashed /\ UserNext(u) /\ UNCHANGED <<cut, opc>>)
    /\ \A c \in Conns : /\ WF_vars(~crashed /\ SendNext(c) /\ UNCHANGED <<cut, opc>>)
                        /\ WF_vars(~crashed /\ RecvNext(c) /\ UNCHANGED <<cut, opc>>)
    /\ WF_vars(~crashed /\ Closing # "idle" /\ PeerNext /\ UNCHANGED <<cut, opc>>)
    /\ WF_vars(~crashed /\ Closer)

-----------------------------------------------------------------------------
\* The types of the variables; in particular mnhttpc_connection_close() only
\* ever interrupts workers that were spawned, and descriptors are those in use.
TypeOK ==
    /\ upc \in [Users -> UserPcs]
    /\ resp \in [Users -> Users \cup {NoOne, Failed}]
    /\ sema \in Users \cup {NoOne}
    /\ queue \in Seq(Users) /\ out \in Seq(Unit) /\ inbuf \in Seq(Token)
    /\ nconn \in 0 .. MaxConnects
    /\ {fd, sendp, recvp} \subseteq 0 .. nconn
    /\ fp \in {"none", "fd", "ssl"} /\ io \in {"fd", "ssl"}
    /\ spc \in [Conns -> {"none", "run", "wait", "dead"}]
    /\ rpc \in [Conns -> {"none", "wait", "parse", "dead"}]
    /\ sintr \subseteq Conns /\ rintr \subseteq Conns
    /\ cur \in [Conns -> Users \cup {NoOne}]
    /\ crashed \in BOOLEAN /\ cut \in BOOLEAN /\ closed \in BOOLEAN
    /\ topeer \in Seq(Unit) /\ chan \in Seq(Token)
    /\ opc \in {"use", "join_send", "join_recv", "freed"}

Alive(pc, c) == pc[c] \notin {"none", "dead"}

Dequeued == {cur[c] : c \in Conns} \ {NoOne}
Queued == {queue[i] : i \in 1 .. Len(queue)}
InFlight == Queued \cup Dequeued

\* The connection has one send and one receive worker at the most, they serve
\* the socket it has open, and its thread pointers say which are alive: what
\* mnhttpc_connection_close() joins and ensure_connected() trusts.  That is as long
\* as no thread was interrupted while it waited for a worker to end: that worker
\* is left behind, and when it ends it resets the pointer to the next one.
WorkersAreKnown ==
    ~cut => \A c \in Conns :
        /\ Alive(spc, c) <=> sendp = c
        /\ Alive(rpc, c) <=> recvp = c
        /\ Alive(spc, c) \/ Alive(rpc, c) => fd = c

\* Only the holder of reqfin_sema closes, connects or waits for a response, also
\* when threads are interrupted in finalize.
OneInside ==
    \A u \in Users : upc[u] \notin {"new"} \cup Returned => sema = u

\* reqfin_sema lets one request at a time onto the connection: but for those of
\* interrupted threads, what is queued or being answered is, once, the request
\* of the thread which holds the semaphore and still waits for its answer.
OneRequestInFlight ==
    /\ Len(queue) + Cardinality({c \in Conns : cur[c] # NoOne})
          = Cardinality(InFlight)
    /\ \A r \in InFlight :
          upc[r] = "interrupted" \/ (sema = r /\ upc[r] = "waiting")

\* A thread that waits for its response has its request in the queue or with
\* the receive worker, and that worker is alive to wake it.
WaiterIsServed ==
    \A u \in Users : upc[u] = "waiting" =>
        /\ u \in InFlight
        /\ \E c \in Conns : Alive(rpc, c) /\ (cur[c] # NoOne => cur[c] = u)

\* The response parsed into a request answers that request, and no response comes
\* when no request waits for one: the receive worker would parse it with a NULL
\* udata, which response_header_cb() dereferences.
OwnResponse == ~crashed /\ \A u \in Users : resp[u] \in {NoOne, Failed, u}

\* When the semaphore is free and the workers run the streams are empty:
\* mnhttpc_connection_gc() throws away no data of a connection in use.
IdleStreamsAreEmpty ==
    sema = NoOne /\ sendp # 0 /\ recvp # 0 => out = <<>> /\ inbuf = <<>>

\* A request of which a thread gets 0 from finalize has its own response, which
\* the thread goes on to read.
ReturnsZeroWithResponse == \A u \in Users : upc[u] = "done" => resp[u] = u

\* When mnhttpc_fini() frees the connection its socket is closed and no worker is
\* left to use it, whatever state the threads and the peer have left it in: unless
\* the wait for a worker was interrupted, then or before.
FreedIsQuiet ==
    opc = "freed" =>
        /\ fd = 0
        /\ ~cut => \A c \in Conns : ~Alive(spc, c) /\ ~Alive(rpc, c)

\* Every thread that calls finalize returns from it, and mnhttpc_fini() returns:
\* both workers end when they are interrupted, wherever they are.
CallsReturn ==
    /\ \A u \in Users : <>(upc[u] \in Returned)
    /\ opc # "use" ~> opc = "freed"
=============================================================================
