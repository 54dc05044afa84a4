------------------------------- MODULE SslStream -------------------------------
(***************************************************************************)
(* A connection over TLS: bytestream_ssl_send() and                        *)
(* bytestream_ssl_recv_more() of bytestream_ssl_helper.c, called by the    *)
(* workers of mnhttpc.c, while other threads write to the outgoing stream, *)
(* or reset the streams, as a worker waits for its socket.                 *)
(*                                                                         *)
(* bytestream_produce_data() sends until nothing is left, and asks for all *)
(* of that at once; bytestream_consume_data() asks for Block bytes.        *)
(***************************************************************************)
EXTENDS Naturals, Sequences

CONSTANTS Block,        \* BLOCKSZ, the size that a stream is made with: 4096
          MaxBytes,     \* bound: bytes that are written
          MaxIn         \* bound: bytes in the incoming stream

ASSUME SslAssumption == Block \in Nat \ {0} /\ MaxBytes \in Nat /\ MaxIn \in Nat

VARIABLES plain,        \* do the streams read and write a plain socket?
          busy,         \* is a thread in mnhttpc_request_finalize()?
          out, pos, cap,\* conn->out: the bytes up to eod, pos, buf.sz
          spc, sz,      \* where bytestream_ssl_send() is, and its argument
          retry, moved, \* what SSL_write() was first called with, and whether that
                        \* is at another address now
          given, taken, \* all bytes written to the stream, and sent
          rpc,          \* where bytestream_ssl_recv_more() is
          eod, insz     \* conn->in: eod, buf.sz

sendVars == <<busy, out, pos, cap, spc, sz, retry, moved, given, taken>>
recvVars == <<rpc, eod, insz>>
vars == <<plain, sendVars, recvVars>>

Init ==
    /\ plain = FALSE /\ busy = FALSE
    /\ out = <<>> /\ pos = 0 /\ cap = Block
    /\ spc = "idle" /\ sz = 0 /\ retry = <<>> /\ moved = FALSE
    /\ given = <<>> /\ taken = <<>>
    /\ rpc = "idle" /\ eod = 0 /\ insz = Block

-----------------------------------------------------------------------------
(* Other threads.                                                          *)

\* A write that OpenSSL has seen is known by its address.  When the buffer grows
\* it may be moved.
MayMove == moved' \in (IF spc \in {"call", "wait"} THEN {moved, TRUE} ELSE {FALSE})

\* mnhttpc_request_finalize() writes a request of n bytes; they are numbered.
Write(n) ==
    LET new == [i \in 1 .. n |-> Len(given) + i]
    IN  /\ ~busy /\ spc # "dead" /\ Len(given) + n <= MaxBytes
        /\ busy' = TRUE
        /\ out' = out \o new /\ given' = given \o new
        /\ IF Len(out) + n <= cap THEN UNCHANGED <<cap, moved>>
           ELSE cap' = cap + (IF n < Block THEN Block ELSE n) /\ MayMove
        /\ UNCHANGED <<plain, pos, spc, sz, retry, taken, recvVars>>

\* finalize returns: the peer has answered, perhaps before it has read all of the
\* request, a worker has failed, or the wait was interrupted.
Respond ==
    /\ busy
    /\ busy' = FALSE
    /\ UNCHANGED <<plain, out, pos, cap, spc, sz, retry, moved, given, taken, recvVars>>

\* mnhttpc_connection_gc() makes both streams anew, with the functions for a plain
\* socket.  A request may still be in the stream, and a write of it under way.
Gc ==
    /\ ~busy
    /\ plain' = TRUE
    /\ out' = <<>> /\ pos' = 0 /\ cap' = Block
    /\ MayMove
    /\ eod' = 0 /\ insz' = Block
    /\ UNCHANGED <<busy, spc, sz, retry, given, taken, rpc>>

-----------------------------------------------------------------------------
(* bytestream_ssl_send(), in the send worker.                              *)

\* It is called for all that is in the stream, and calls SSL_write().
Send ==
    /\ spc = "idle" /\ pos < Len(out) /\ ~plain
    /\ sz' = Len(out) - pos
    /\ retry' = SubSeq(out, pos + 1, Len(out))
    /\ spc' = "call"
    /\ UNCHANGED <<plain, busy, out, pos, cap, moved, given, taken, recvVars>>

\* write(2), given the SSL object for a descriptor: the worker ends.
SendPlain ==
    /\ spc = "idle" /\ pos < Len(out) /\ plain
    /\ spc' = "dead"
    /\ UNCHANGED <<plain, busy, out, pos, cap, sz, retry, moved, given, taken, recvVars>>

\* Mutant: what was written to the stream meanwhile is taken for sent.
AdvanceAll == Len(out)

\* stream->pos += nwritten.
Advance == pos + sz

\* SSL_write() is done, with what it was first called with.  When all is sent the
\* worker rewinds the stream.
Written ==
    /\ spc = "call" /\ ~moved
    /\ taken' = taken \o retry
    /\ retry' = <<>> /\ moved' = FALSE /\ sz' = 0 /\ spc' = "idle"
    /\ IF Advance >= Len(out) THEN out' = <<>> /\ pos' = 0 ELSE out' = out /\ pos' = Advance
    /\ UNCHANGED <<plain, busy, cap, given, recvVars>>

\* SSL_ERROR_WANT_READ or SSL_ERROR_WANT_WRITE: the thread waits, and is woken.
WantSend ==
    /\ spc = "call" /\ ~moved
    /\ spc' = "wait"
    /\ UNCHANGED <<plain, busy, out, pos, cap, sz, retry, moved, given, taken, recvVars>>

\* Mutant: the size is that of what is in the stream now.
WakeSendAnew ==
    /\ spc = "wait"
    /\ spc' = "call"
    /\ sz' = Len(out) - pos
    /\ UNCHANGED <<plain, busy, out, pos, cap, retry, moved, given, taken, recvVars>>

WakeSend ==
    /\ spc = "wait"
    /\ spc' = "call"
    /\ UNCHANGED <<plain, busy, out, pos, cap, sz, retry, moved, given, taken, recvVars>>

\* SSL_write() does not take this for the write it remembers.
BadRetry ==
    /\ spc = "call" /\ moved
    /\ spc' = "dead"
    /\ UNCHANGED <<plain, busy, out, pos, cap, sz, retry, moved, given, taken, recvVars>>

\* Any other error, or an interrupted wait: the worker ends.
SendFails ==
    /\ spc \in {"call", "wait"}
    /\ spc' = "dead"
    /\ UNCHANGED <<plain, busy, out, pos, cap, sz, retry, moved, given, taken, recvVars>>

-----------------------------------------------------------------------------
(* bytestream_ssl_recv_more(), in the receive worker.                      *)

\* Mutant: what is in the stream is forgotten.
NeedEmpty == IF Block <= insz THEN 0 ELSE Block - insz

\* need, if it is positive.
Need == IF eod + Block <= insz THEN 0 ELSE eod + Block - insz

Recv ==
    /\ rpc = "idle" /\ eod < MaxIn /\ ~plain
    /\ insz' = IF Need = 0 THEN insz ELSE insz + (IF Need < Block THEN Block ELSE Need)
    /\ rpc' = "call"
    /\ UNCHANGED <<plain, sendVars, eod>>

\* read(2), given the SSL object for a descriptor.
RecvPlain ==
    /\ rpc = "idle" /\ plain
    /\ rpc' = "dead"
    /\ UNCHANGED <<plain, sendVars, eod, insz>>

\* SSL_read() gives n bytes.
Read(n) ==
    /\ rpc = "call"
    /\ eod' = eod + n
    /\ rpc' = "idle"
    /\ UNCHANGED <<plain, sendVars, insz>>

WantRecv ==
    /\ rpc = "call"
    /\ rpc' = "wait"
    /\ UNCHANGED <<plain, sendVars, eod, insz>>

WakeRecv ==
    /\ rpc = "wait"
    /\ rpc' = "call"
    /\ UNCHANGED <<plain, sendVars, eod, insz>>

RecvFails ==
    /\ rpc \in {"call", "wait"}
    /\ rpc' = "dead"
    /\ UNCHANGED <<plain, sendVars, eod, insz>>

\* The parser recycles the stream, or a thread rewinds it.
Recycle(n) ==
    /\ n < eod
    /\ eod' = n
    /\ UNCHANGED <<plain, sendVars, rpc, insz>>

Next ==
    \/ \E n \in 1 .. MaxBytes : Write(n)
    \/ Respond \/ Gc
    \/ Send \/ SendPlain \/ Written \/ WantSend \/ WakeSend \/ BadRetry \/ SendFails
    \/ Recv \/ RecvPlain \/ (\E n \in 1 .. Block : Read(n)) \/ WantRecv \/ WakeRecv \/ RecvFails
    \/ \E n \in 0 .. MaxIn + Block : Recycle(n)

\* The worker runs when it can.  The peer goes on reading, so that a write which
\* is repeated again and again is done at last.
Fairness == WF_vars(Send) /\ WF_vars(WakeSend) /\ WF_vars(BadRetry) /\ SF_vars(Written)

Spec == Init /\ [][Next]_vars /\ Fairness

-----------------------------------------------------------------------------
(* Properties.                                                             *)

\* Whatever was written to the stream while bytestream_ssl_send() waited, it calls
\* SSL_write() again with bytes that are in the stream, and with the same bytes.
\* Only mnhttpc_gc() can take them away, which makes the stream a plain one.
RetryIsSame ==
    ~plain /\ spc \in {"call", "wait"} =>
        /\ pos + sz <= Len(out)
        /\ retry = SubSeq(out, pos + 1, pos + sz)

\* The room for SSL_read() that bytestream_ssl_recv_more() made before it waited
\* is still there when it reads, although the stream may have been made anew.
RoomForRead == rpc \in {"call", "wait"} => eod + Block <= insz

\* What the stream promises to those who write to it.
Pipe == INSTANCE BytePipe WITH broken <- spc = "dead" \/ plain

\* To those who write to it the stream is a byte pipe: nothing is lost, repeated or
\* reordered by writes that are continued after a wait, and what is written is
\* sent, until the connection fails or mnhttpc_gc() is called.
ImplementsPipe == Pipe!Spec
=============================================================================
