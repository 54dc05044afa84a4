------------------------- MODULE HttpClientRequestProofs -------------------------
(* What becomes of the requests of a connection: at any number of threads  *)
(* and connections there is one on it at a time; and, as long as reads do  *)
(* not suspend, no thread is interrupted and the peer closes only when it  *)
(* has a request to answer, that one is served and gets its own response.  *)
EXTENDS HttpClientProofs

\* No read suspends when its outcome is there, and nobody is interrupted.
Undisturbed == ~ReadYields /\ ~Interrupts

\* WaiterIsServed made inductive: the worker that will wake a thread was not
\* interrupted, since only a thread that closes the connection does that.
ServedInv ==
    /\ \A u \in Users :
          /\ upc[u] # "interrupted"
          /\ upc[u] = "waiting" => u \in InFlight /\ recvp # 0 /\ recvp \notin rintr
          /\ upc[u] = "ssl" => fd = nconn /\ nconn \notin rintr
    /\ recvp \in rintr =>
          opc = "join_recv" \/ \E u \in Users : upc[u] = "join_recv"
    /\ \A c \in Conns : rpc[c] = "parse" /\ ~crashed => cur[c] # NoOne
    /\ ~cut

\* Besides, plain HTTP, memory for every request, and a peer that closes only
\* when it has a request to answer.
Served == Undisturbed /\ ~Https /\ ~MemoryFails /\ PeerCloses \subseteq {"busy"}

Idle == \A u \in Users : upc[u] # "waiting"

\* The pieces a and b are divided between the sequences t and o.
Divided(a, b, t, o) ==
    \/ t = <<>> /\ o = <<a, b>>
    \/ t = <<a>> /\ o = <<b>>
    \/ t = <<a, b>> /\ o = <<>>

\* How far the request of u is: on its way to the peer, ...
Sending(u) ==
    /\ Divided(Request(u)[1], Request(u)[2], topeer, out)
    /\ closed => out = <<>>
    /\ chan = <<>>
    /\ rpc[recvp] = "wait"

\* ... answered, with a part of the response when the peer has closed, ...
Answered(u) ==
    /\ topeer = <<>> /\ out = <<>>
    /\ \/ ~closed /\ chan = <<[r |-> u, full |-> TRUE]>>
       \/ closed /\ chan = <<[r |-> u, full |-> FALSE]>>
    /\ rpc[recvp] = "wait"

\* ... or this part was read.
Broken == topeer = <<>> /\ out = <<>> /\ chan = <<>> /\ closed /\ rpc[recvp] = "parse"

\* OwnResponse and IdleStreamsAreEmpty made inductive.
PipeInv ==
    /\ ~crashed
    /\ \A u \in Users : resp[u] \in {NoOne, Failed, u}
    /\ inbuf = <<>>
    /\ io = "fd" /\ (fd # 0 => fp = "fd")
    /\ Idle => out = <<>>
    /\ Idle /\ (recvp # 0 \/ \E u \in Users : upc[u] = "ssl") =>
          topeer = <<>> /\ chan = <<>> /\ ~closed
    /\ \A u \in Users : upc[u] = "waiting" => Sending(u) \/ Answered(u) \/ Broken

-----------------------------------------------------------------------------
(* The thread that waits is served.                                        *)

\* The two parts of ServedInv that are about a thread.
LEMMA ServedUser ==
    ASSUME ServedInv, NEW u \in Users
    PROVE  /\ upc[u] # "interrupted"
           /\ upc[u] = "waiting" => u \in InFlight /\ recvp # 0 /\ recvp \notin rintr
           /\ upc[u] = "ssl" => fd = nconn /\ nconn \notin rintr
  BY Zenon DEF ServedInv

\* Only an interrupt cuts the wait for a worker short, so the pointers are right.
LEMMA NotCut ==
    ASSUME ServedInv, ~Interrupts, (\E u \in Users : UserNext(u)) \/ Fini \/ Closer
    PROVE  ~cut'
<1>1. ~cut
  BY Zenon DEF ServedInv
<1>2. ASSUME NEW pc, Joined(pc) PROVE ~cut'
  BY <1>1, <1>2, Zenon DEF Joined
<1>3. ASSUME NEW u \in Users, UserNext(u) PROVE ~cut'
  BY <1>1, <1>2, <1>3, Zenon DEF UserNext, AcquireConnected, AcquireReconnect, JoinSend, JoinRecv,
                          ConnectFails, Connect, SslInitFails, SslInit, Resume
<1> QED
  BY <1>1, <1>2, <1>3, Zenon DEF Fini, Closer, FiniJoinSend, FiniJoinRecv

LEMMA PointersKnown ==
    ASSUME RequestInv, ServedInv
    PROVE  \A c \in Conns : /\ Alive(rpc, c) <=> recvp = c
                            /\ Alive(rpc, c) => fd = c
  BY Zenon DEF RequestInv, ClientInv, WorkerInv, WorkersAreKnown, ServedInv

\* While a thread is in finalize, and nobody is joining it, the receive worker has
\* not been interrupted.
LEMMA NotInterrupted ==
    ASSUME RequestInv, ServedInv, NEW u \in Users, upc[u] \notin Returned \cup {"join_recv"},
           sema = u \/ sema = NoOne
    PROVE  recvp \notin rintr
<1>1. opc # "join_recv"
  BY Zenon DEF RequestInv, ClientInv, FiniProgress, Returned
<1>2. \A v \in Users : upc[v] = "join_recv" => sema = v
  BY Zenon DEF RequestInv, ClientInv, SemaInv, OneInside, Returned
<1>3. \A v \in Users : upc[v] # "join_recv"
  BY <1>2, ClientAssumption, Zenon
<1> QED
  BY <1>1, <1>3, Zenon DEF ServedInv

LEMMA UserKeepsServed ==
    ASSUME RequestInv, ServedInv, ~Interrupts, NEW u \in Users, UserNext(u), UNCHANGED opc
    PROVE  ServedInv'
<1> USE ClientAssumption
<1>0. /\ SemaInv /\ upc \in [Users -> UserPcs] /\ WorkerTypes /\ RequestTypes /\ CloseProgress(u)
  BY Zenon DEF RequestInv, ClientInv, SemaInv, WorkerInv
<1>1. upc[u] \notin Returned /\ (sema = u \/ sema = NoOne)
  BY <1>0, Zenon DEF UserNext, AcquireConnected, AcquireReconnect, JoinSend, JoinRecv, ConnectFails, Connect,
              SslInitFails, SslInit, Resume, Returned, SemaInv, OneInside
<1>2. ASSUME NEW pc, upc' = [upc EXCEPT ![u] = pc], pc # "interrupted",
             pc = "waiting" => u \in InFlight' /\ recvp' # 0 /\ recvp' \notin rintr',
             pc = "ssl" => fd' = nconn' /\ nconn' \notin rintr',
             recvp' \in rintr' => pc = "join_recv",
             \A c \in Conns : rpc'[c] = "parse" => rpc[c] = "parse",
             UNCHANGED <<crashed, cur>>
      PROVE  ServedInv'
  <2>1. upc'[u] = pc /\ \A v \in Users : v # u => upc'[v] = upc[v]
    BY <1>0, <1>2, Zenon
  <2>2. ASSUME NEW v \in Users, v # u PROVE upc'[v] \in {"new"} \cup Returned /\ upc'[v] # "interrupted"
    BY <1>0, <1>1, <2>1, <2>2, OthersOutside, ServedUser, Zenon
  <2>3. ASSUME NEW v \in Users
        PROVE  /\ upc'[v] # "interrupted"
               /\ upc'[v] = "waiting" => v \in InFlight' /\ recvp' # 0 /\ recvp' \notin rintr'
               /\ upc'[v] = "ssl" => fd' = nconn' /\ nconn' \notin rintr'
    <3>1. CASE v = u
      BY <1>2, <2>1, <3>1, Zenon
    <3>2. CASE v # u
      BY <2>2, <3>2, Zenon DEF Returned
    <3> QED
      BY <3>1, <3>2, Zenon
  <2>4. \A c \in Conns : rpc'[c] = "parse" /\ ~crashed' => cur'[c] # NoOne
    BY <1>2, Zenon DEF ServedInv
  <2>5. ~cut'
    BY NotCut, Zenon
  <2> QED
    BY <1>2, <2>1, <2>3, <2>4, <2>5, Zenon DEF ServedInv
<1>3. ASSUME NEW w, WriteRequest(u, w), recvp' # 0, recvp' \notin rintr',
             \A c \in Conns : rpc'[c] = "parse" => rpc[c] = "parse",
             UNCHANGED <<crashed, cur>>
      PROVE  ServedInv'
  <2>1. CASE Submit(u, w)
    <3>1. queue' = Append(queue, u) /\ upc' = [upc EXCEPT ![u] = "waiting"]
      BY <2>1, Zenon DEF Submit
    <3>2. queue'[Len(queue) + 1] = u /\ Len(queue) + 1 \in 1 .. Len(queue')
      BY <1>0, <3>1 DEF RequestTypes
    <3>3. u \in InFlight'
      BY <3>2, Zenon DEF InFlight, Queued
    <3> QED
      BY <1>2, <1>3, <3>1, <3>3, Zenon
  <2>2. CASE NoMemory(u, w)
    BY <1>2, <1>3, <2>2, Zenon DEF NoMemory, GiveUp
  <2> QED
    BY <1>3, <2>1, <2>2, Zenon DEF WriteRequest
<1>4. CASE AcquireConnected(u)
  <2>1. recvp \notin rintr
    BY <1>1, <1>4, NotInterrupted, Zenon DEF AcquireConnected
  <2> QED
    BY <1>3, <1>4, <2>1, Zenon DEF AcquireConnected
<1>5. 0 \notin rintr /\ nconn + 1 \notin rintr
  BY <1>0 DEF RequestTypes, WorkerTypes
<1>6. CASE AcquireReconnect(u)
  <2>1. recvp \notin rintr
    BY <1>1, <1>6, NotInterrupted, Zenon DEF AcquireReconnect
  <2> QED
    BY <1>2, <1>5, <1>6, <2>1, Zenon DEF AcquireReconnect, CloseRecv
<1>7. CASE JoinSend(u)
  BY <1>2, <1>5, <1>7, Zenon DEF JoinSend, CloseRecv
<1>8. CASE JoinRecv(u)
  BY <1>2, <1>5, <1>8, Zenon DEF JoinRecv
<1>9. CASE Connect(u)
  <2>1. recvp = 0
    BY <1>0, <1>9, Zenon DEF Connect, CloseProgress
  <2> QED
    BY <1>2, <1>5, <1>9, <2>1, Zenon DEF Connect, workVars
<1>10. CASE SslInit(u)
  <2>1. fd = nconn /\ nconn \notin rintr
    BY <1>10, ServedUser, Zenon DEF SslInit
  <2>2. fd # 0 /\ fd \in Conns
    BY <1>0, <1>10 DEF SslInit, CloseProgress, WorkerTypes, Conns
  <2>3. \A c \in Conns : rpc'[c] = "parse" => rpc[c] = "parse"
    BY <1>0, <1>10, <2>2, Zenon DEF SslInit, WorkerTypes
  <2> QED
    BY <1>3, <1>10, <2>1, <2>2, <2>3, Zenon DEF SslInit
<1>11. CASE ConnectFails(u) \/ SslInitFails(u) \/ Resume(u)
  <2>1. recvp \notin rintr
    BY <1>1, <1>11, NotInterrupted, Zenon DEF ConnectFails, SslInitFails, Resume
  <2> QED
    BY <1>2, <1>11, <2>1, Zenon DEF ConnectFails, SslInitFails, Resume, GiveUp, workVars
<1> QED
  BY <1>4, <1>6, <1>7, <1>8, <1>9, <1>10, <1>11, Zenon DEF UserNext

\* The request that the receive worker takes is the one that somebody waits for.
LEMMA TakesTheWaiter ==
    ASSUME RequestInv, ServedInv, NEW c \in Conns, NEW r, Takes(c, r),
           rpc[c] = "parse" => r # NoOne /\ r = cur[c],
           rpc[c] = "wait" /\ queue # <<>> => r = Head(queue),
           rpc[c] \in {"wait", "parse"},
           NEW u \in Users, upc[u] = "waiting"
    PROVE  r = u /\ sema = u
<1>0. /\ FlightInv /\ queue \in Seq(Users) /\ InFlight \subseteq Users
      /\ NoOne \notin Users
  BY InFlightAreUsers, ClientAssumption, Zenon DEF RequestInv, RequestTypes, ClientInv, WorkerInv
<1>1. \A x \in InFlight : sema = x
  BY <1>0, ServedUser, Zenon DEF FlightInv
<1>2. u \in InFlight
  BY ServedUser, Zenon
<1>3. r \in InFlight
  <2>1. CASE rpc[c] = "parse"
    BY <2>1, InFlightIs, Zenon
  <2>2. CASE rpc[c] = "wait"
    <3>1. \A d \in Conns : cur[d] = NoOne
      BY <1>0, <2>2, PointersKnown, Zenon DEF FlightInv, Alive
    <3>2. \E i \in 1 .. Len(queue) : queue[i] = u
      BY <1>0, <1>2, <3>1, InFlightIs, Zenon
    <3>3. queue # <<>> /\ 1 \in 1 .. Len(queue)
      BY <1>0, <3>2
    <3> QED
      BY <1>0, <2>2, <3>3, InFlightIs
  <2> QED
    BY <2>1, <2>2, Zenon
<1> QED
  BY <1>1, <1>2, <1>3, Zenon

LEMMA RecvKeepsServed ==
    ASSUME RequestInv, ServedInv, ~ReadYields, NEW c \in Conns, ~crashed, RecvNext(c), UNCHANGED opc
    PROVE  ServedInv'
<1> USE ClientAssumption
<1>0. /\ upc \in [Users -> UserPcs] /\ WorkerTypes /\ RequestTypes /\ FlightInv
      /\ NoOne \notin Users
  BY Zenon DEF RequestInv, ClientInv, SemaInv, WorkerInv
<1>1. /\ rpc[c] \in {"wait", "parse"} /\ recvp = c /\ c # 0
      /\ UNCHANGED <<fd, nconn, rintr, cut>>
  <2>1. rpc[c] \in {"wait", "parse"} /\ UNCHANGED <<fd, nconn, rintr, cut>>
    BY Zenon DEF RecvNext, RecvWake, RecvMore, RecvInterrupted, connVars
  <2>2. c # 0
    BY DEF Conns
  <2> QED
    BY <2>1, <2>2, PointersKnown, Zenon DEF Alive
<1>2. \A d \in Conns : d # c => rpc[d] # "parse"
  BY <1>1, PointersKnown, Zenon DEF Alive
\* What the step does to the threads and to the worker is enough.
<1>3. ASSUME NEW pc, rpc' = [rpc EXCEPT ![c] = pc],
             recvp' = recvp \/ recvp' = 0,
             \A u \in Users : \/ upc'[u] = upc[u]
                              \/ upc[u] = "waiting" /\ upc'[u] = "woken",
             \A u \in Users : upc'[u] = "waiting" => u \in InFlight' /\ recvp' = recvp,
             pc = "parse" => crashed' \/ cur'[c] # NoOne
      PROVE  ServedInv'
  <2>1. ASSUME NEW u \in Users
        PROVE  /\ upc'[u] # "interrupted"
               /\ upc'[u] = "waiting" => u \in InFlight' /\ recvp' # 0 /\ recvp' \notin rintr'
               /\ upc'[u] = "ssl" => fd' = nconn' /\ nconn' \notin rintr'
    <3>1. upc'[u] = upc[u] \/ (upc[u] = "waiting" /\ upc'[u] = "woken")
      BY <1>3, Zenon
    <3>2. upc'[u] = "waiting" => u \in InFlight' /\ recvp' = recvp
      BY <1>3, Zenon
    <3> QED
      BY <1>1, <3>1, <3>2, ServedUser, Zenon
  <2>2. recvp' \in rintr' => opc' = "join_recv" \/ \E u \in Users : upc'[u] = "join_recv"
    <3>1. 0 \notin rintr
      BY <1>0 DEF RequestTypes
    <3>2. \A u \in Users : upc[u] = "join_recv" => upc'[u] = "join_recv"
      BY <1>3, Zenon
    <3> QED
      BY <1>1, <1>3, <3>1, <3>2, Zenon DEF ServedInv
  <2>3. \A d \in Conns : rpc'[d] = "parse" /\ ~crashed' => cur'[d] # NoOne
    BY <1>0, <1>2, <1>3, Zenon DEF WorkerTypes
  <2> QED
    BY <1>1, <2>1, <2>2, <2>3, Zenon DEF ServedInv
<1>4. ASSUME NEW r \in Users \cup {NoOne}, Wake(r) PROVE upc' \in [Users -> UserPcs] /\ \A u \in Users :
          \/ upc'[u] = upc[u] /\ (u = r => upc[u] # "waiting")
          \/ u = r /\ upc[u] = "waiting" /\ upc'[u] = "woken"
  BY <1>0, <1>4, Zenon DEF Wake, UserPcs
\* The worker is done with r, for which any waiting thread waits.
<1>5. ASSUME NEW r \in Users \cup {NoOne}, Wake(r),
             NEW pc, rpc' = [rpc EXCEPT ![c] = pc], pc # "parse",
             recvp' = recvp \/ recvp' = 0,
             \A u \in Users : upc[u] = "waiting" => r = u
      PROVE  ServedInv'
  <2>1. \A u \in Users : /\ upc'[u] = upc[u] \/ (upc[u] = "waiting" /\ upc'[u] = "woken")
                         /\ upc'[u] # "waiting"
    BY <1>4, <1>5, Zenon
  <2> QED
    BY <1>3, <1>5, <2>1, Zenon
<1>6. ASSUME NEW r \in Users \cup {NoOne}, Takes(c, r), Parse(c, r), UNCHANGED sema,
             \A u \in Users : upc[u] = "waiting" => r = u
      PROVE  ServedInv'
  <2>1. ASSUME NEW buf, ParseAll(c, r, buf) PROVE ServedInv'
    BY <1>5, <1>6, <2>1, Zenon DEF ParseAll
  <2>2. ASSUME ParseFails(c, r) PROVE ServedInv'
    BY <1>5, <1>6, <2>2, Zenon DEF ParseFails, RecvExit
  <2>3. ASSUME NEW buf, ParsePart(c, r, buf) PROVE ServedInv'
    <3>1. /\ rpc' = [rpc EXCEPT ![c] = "parse"] /\ cur' = [cur EXCEPT ![c] = r]
          /\ crashed' = (r = NoOne) /\ UNCHANGED <<upc, recvp>>
      BY <2>3, Zenon DEF ParsePart
    <3>2. cur'[c] = r
      BY <1>0, <3>1, Zenon DEF RequestTypes
    <3>3. r # NoOne => r \in InFlight'
      BY <3>2, Zenon DEF InFlight, Dequeued
    <3>4. \A u \in Users : upc'[u] = "waiting" => u \in InFlight'
      BY <1>0, <1>6, <3>1, <3>3, Zenon
    <3>5. crashed' \/ cur'[c] # NoOne
      BY <3>1, <3>2, Zenon
    <3> QED
      BY <1>3, <3>1, <3>4, <3>5, Zenon
  <2> QED
    BY <1>6, <2>1, <2>2, <2>3, Zenon DEF Parse
<1>7. CASE RecvWake(c)
  <2> DEFINE r == IF queue = <<>> THEN NoOne ELSE Head(queue)
  <2>1. cur[c] = NoOne /\ rpc[c] = "wait"
    BY <1>0, <1>7, Zenon DEF RecvWake, FlightInv
  <2>2. Takes(c, r) /\ r \in Users \cup {NoOne} /\ UNCHANGED sema /\ Parse(c, r)
    BY <1>0, <1>7, <2>1 DEF RecvWake, Takes, RequestTypes
  <2>3. queue # <<>> => r = Head(queue)
    BY Zenon
  <2> HIDE DEF r
  <2>4. \A u \in Users : upc[u] = "waiting" => r = u
    BY <2>1, <2>2, <2>3, TakesTheWaiter, Zenon
  <2> QED
    BY <1>6, <2>2, <2>4, Zenon
<1>8. CASE RecvMore(c)
  <2>1. Takes(c, cur[c]) /\ cur[c] \in Users \cup {NoOne} /\ UNCHANGED sema /\ Parse(c, cur[c])
    BY <1>0, <1>8, Zenon DEF RecvMore, Takes, RequestTypes
  <2>2. rpc[c] = "parse" /\ cur[c] # NoOne
    BY <1>8, Zenon DEF RecvMore, ServedInv
  <2>3. \A u \in Users : upc[u] = "waiting" => cur[c] = u
    BY <2>1, <2>2, TakesTheWaiter, Zenon
  <2> QED
    BY <1>6, <2>1, <2>3, Zenon
<1>9. CASE RecvInterrupted(c)
  <2>1. \A u \in Users : upc[u] # "waiting"
    BY <1>1, <1>9, ServedUser, Zenon DEF RecvInterrupted
  <2>2. cur[c] \in Users \cup {NoOne}
    BY <1>0, Zenon DEF RequestTypes
  <2> QED
    BY <1>5, <1>9, <2>1, <2>2, Zenon DEF RecvInterrupted, ParseFails, RecvExit
<1> QED
  BY <1>7, <1>8, <1>9, Zenon DEF RecvNext

LEMMA FiniKeepsServed ==
    ASSUME RequestInv, ServedInv, ~Interrupts, Fini \/ Closer
    PROVE  ServedInv'
<1>0. /\ \A u \in Users : upc[u] \in Returned
      /\ UNCHANGED <<upc, rpc, cur, crashed>> /\ 0 \notin rintr
  BY DEF RequestInv, RequestTypes, ClientInv, FiniProgress, Fini, Closer, FiniJoinSend, FiniJoinRecv, userVars
<1>1. recvp \in rintr => opc = "join_recv"
  BY <1>0, Zenon DEF ServedInv, Returned
<1>2. recvp' \in rintr' => opc' = "join_recv"
  BY <1>0, <1>1 DEF Fini, Closer, FiniJoinSend, FiniJoinRecv, FiniRecv
<1>3. \A u \in Users : upc'[u] \notin {"interrupted", "waiting", "ssl"}
  BY <1>0, ServedUser, Zenon DEF Returned
<1>4. \A c \in Conns : rpc'[c] = "parse" /\ ~crashed' => cur'[c] # NoOne
  BY <1>0, Zenon DEF ServedInv
<1>5. ~cut'
  BY NotCut, Zenon
<1> QED
  BY <1>2, <1>3, <1>4, <1>5, Zenon DEF ServedInv

LEMMA ServedInvNext ==
    ASSUME Undisturbed, RequestInv, ServedInv, [Next]_vars
    PROVE  ServedInv'
<1>1. ASSUME UNCHANGED <<upc, queue, cur, rpc, recvp, rintr, fd, nconn, crashed, cut, opc>>
      PROVE  ServedInv'
  <2>1. InFlight' = InFlight
    BY <1>1, Zenon DEF InFlight, Queued, Dequeued
  <2> QED
    BY <1>1, <2>1, Zenon DEF ServedInv
<1>2. CASE UNCHANGED vars
  BY <1>1, <1>2, Zenon DEF vars, userVars, connVars, workVars
<1>3. ASSUME NEW u \in Users, UserNext(u), UNCHANGED opc PROVE ServedInv'
  BY <1>3, UserKeepsServed, Zenon DEF Undisturbed
<1>4. ASSUME NEW u \in Users, Interrupt(u) PROVE ServedInv'
  BY <1>4, Zenon DEF Interrupt, Undisturbed
<1>5. ASSUME NEW c \in Conns, SendNext(c), UNCHANGED opc PROVE ServedInv'
  BY <1>1, <1>5, Zenon DEF SendNext, SendWrite, SendIdle, SendFails, userVars, connVars
<1>6. ASSUME NEW c \in Conns, RecvNext(c), ~crashed, UNCHANGED opc PROVE ServedInv'
  BY <1>6, RecvKeepsServed, Zenon DEF Undisturbed
<1>7. CASE (Gc \/ PeerNext) /\ UNCHANGED opc
  BY <1>1, <1>7, Zenon DEF Gc, PeerNext, Respond, RespondPartly, PeerClose, Answer, userVars, connVars, workVars
<1>8. CASE Fini \/ Closer
  BY <1>8, FiniKeepsServed, Zenon DEF Undisturbed
<1> QED
  BY <1>2, <1>3, <1>4, <1>5, <1>6, <1>7, <1>8, Zenon DEF Next

\* For any number of threads and connections, with TLS and with a peer that may
\* close at any time: when no read suspends and no thread is interrupted, a thread
\* that waits for its response has its request in the queue or with the receive
\* worker, and that worker is alive to wake it.
THEOREM WaitersAreServed == ASSUME Undisturbed PROVE Spec => []WaiterIsServed
<1>1. Init => ServedInv
  BY Zenon DEF Init, ServedInv
<1>2. RequestInv /\ ServedInv /\ [Next]_vars => ServedInv'
  BY ServedInvNext, Zenon
<1>3. RequestInv /\ ServedInv => WaiterIsServed
  <2> SUFFICES ASSUME RequestInv, ServedInv, NEW u \in Users, upc[u] = "waiting"
               PROVE  /\ u \in InFlight
                      /\ \E c \in Conns : Alive(rpc, c) /\ (cur[c] # NoOne => cur[c] = u)
    BY Zenon DEF WaiterIsServed
  <2>1. u \in InFlight /\ recvp # 0
    BY ServedUser, Zenon
  <2>2. recvp \in Conns
    BY <2>1, ClientAssumption DEF RequestInv, ClientInv, WorkerInv, WorkerTypes, Conns
  <2>3. Alive(rpc, recvp)
    BY <2>2, PointersKnown, Zenon
  <2>4. \A x \in InFlight : x \in Users /\ sema = x
    BY InFlightAreUsers, ServedUser, Zenon DEF RequestInv, FlightInv
  <2>5. cur[recvp] # NoOne => cur[recvp] = u
    BY <2>1, <2>2, <2>4, InFlightIs, Zenon
  <2> QED
    BY <2>1, <2>2, <2>3, <2>5, Zenon
<1> QED
  BY <1>1, <1>2, <1>3, RequestInvInit, RequestInvNext, PTL DEF Spec

-----------------------------------------------------------------------------
(* The data of the one request: sequences of one and two pieces.           *)

INSTANCE SequenceTheorems

LEMMA Pieces ==
    ASSUME NEW a, NEW b
    PROVE  /\ SubSeq(<<a, b>>, 1, 1) = <<a>> /\ SubSeq(<<a, b>>, 2, 2) = <<b>>
           /\ SubSeq(<<a, b>>, 1, 2) = <<a, b>> /\ SubSeq(<<a, b>>, 3, 2) = <<>>
           /\ SubSeq(<<b>>, 1, 1) = <<b>> /\ SubSeq(<<b>>, 2, 1) = <<>>
           /\ <<a>> \o <<b>> = <<a, b>>
<1> DEFINE S == {a, b}
           s == <<a, b>>
           t == <<a>>
           v == <<b>>
<1>1. s \in Seq(S) /\ t \in Seq(S) /\ v \in Seq(S)
  OBVIOUS
<1>2. Len(s) = 2 /\ Len(t) = 1 /\ Len(v) = 1 /\ s[1] = a /\ s[2] = b /\ t[1] = a /\ v[1] = b
  BY Zenon
<1>3. SubSeq(s, 3, 2) = <<>> /\ SubSeq(v, 2, 1) = <<>>
  OBVIOUS
<1> HIDE DEF s, t, v, S
<1>4. SubSeq(s, 1, 1) = t
  <2>1. SubSeq(s, 1, 1) \in Seq(S) /\ Len(SubSeq(s, 1, 1)) = 1 /\ SubSeq(s, 1, 1)[1] = s[1]
    BY <1>1, <1>2, CutTypes
  <2> QED
    BY <1>1, <1>2, <2>1
<1>5. SubSeq(s, 2, 2) = v
  <2>1. SubSeq(s, 2, 2) \in Seq(S) /\ Len(SubSeq(s, 2, 2)) = 1 /\ SubSeq(s, 2, 2)[1] = s[2]
    BY <1>1, <1>2
  <2> QED
    BY <1>1, <1>2, <2>1
<1>6. SubSeq(s, 1, 2) = s
  <2>1. SubSeq(s, 1, 2) \in Seq(S) /\ Len(SubSeq(s, 1, 2)) = 2 /\ SubSeq(s, 1, 2)[1] = s[1] /\ SubSeq(s, 1, 2)[2] = s[2]
    BY <1>1, <1>2
  <2> QED
    BY <1>1, <1>2, <2>1
<1>7. SubSeq(v, 1, 1) = v
  <2>1. SubSeq(v, 1, 1) \in Seq(S) /\ Len(SubSeq(v, 1, 1)) = 1 /\ SubSeq(v, 1, 1)[1] = v[1]
    BY <1>1, <1>2, CutTypes
  <2> QED
    BY <1>1, <1>2, <2>1
<1>8. t \o v = s
  <2>1. t \o v \in Seq(S) /\ Len(t \o v) = 2 /\ (t \o v)[1] = a /\ (t \o v)[2] = b
    BY <1>1, <1>2, ConcatProperties
  <2> QED
    BY <1>1, <1>2, <2>1
<1> QED
  BY <1>3, <1>4, <1>5, <1>6, <1>7, <1>8, Zenon DEF s, t, v

-----------------------------------------------------------------------------
(* A request gets its own response.                                        *)

\* While a thread waits the others are outside, and so they are while one moves.
LEMMA WaiterIsAlone ==
    ASSUME RequestInv, NEW u \in Users, upc[u] = "waiting", NEW v \in Users, v # u
    PROVE  upc[v] \in {"new"} \cup Returned
<1>1. SemaInv /\ sema = u
  BY Zenon DEF RequestInv, ClientInv, SemaInv, OneInside, Returned
<1> QED
  BY <1>1, OthersOutside, Zenon

LEMMA IdleWhenMoving ==
    ASSUME RequestInv, NEW u \in Users, UserNext(u)
    PROVE  Idle /\ \A v \in Users : upc[v] = "ssl" => v = u
<1>1. upc[u] # "waiting" /\ (sema = NoOne \/ sema = u)
  BY Zenon DEF UserNext, AcquireConnected, AcquireReconnect, JoinSend, JoinRecv, ConnectFails, Connect,
         SslInitFails, SslInit, Resume, RequestInv, ClientInv, SemaInv, OneInside, Returned
<1>2. \A v \in Users : upc[v] \in {"waiting", "ssl"} => sema = v
  BY Zenon DEF RequestInv, ClientInv, SemaInv, OneInside, Returned
<1> QED
  BY <1>1, <1>2, ClientAssumption, Zenon DEF Idle

\* A receive worker that is alive serves the open socket, in plain HTTP; when
\* nobody waits it waits for the socket.
LEMMA WorkerReads ==
    ASSUME RequestInv, ServedInv, PipeInv, recvp # 0
    PROVE  /\ recvp \in Conns /\ IoOk
           /\ rpc[recvp] \in {"wait", "parse"}
           /\ Idle => rpc[recvp] = "wait"
<1>0. WorkerTypes /\ FlightInv /\ RequestTypes
  BY Zenon DEF RequestInv, ClientInv, WorkerInv
<1>1. recvp \in Conns
  BY <1>0, ClientAssumption DEF WorkerTypes, Conns
<1>2. Alive(rpc, recvp) /\ fd # 0
  BY <1>1, PointersKnown, Zenon
<1>3. rpc[recvp] \in {"wait", "parse"}
  BY <1>0, <1>1, <1>2, Zenon DEF WorkerTypes, Alive
<1>4. ASSUME rpc[recvp] = "parse", Idle PROVE FALSE
  <2>1. cur[recvp] # NoOne
    BY <1>1, <1>4, Zenon DEF ServedInv, PipeInv
  <2>2. cur[recvp] \in InFlight /\ cur[recvp] \in Users
    BY <1>0, <1>1, <2>1, InFlightIs, Zenon DEF RequestTypes
  <2> QED
    BY <1>0, <1>4, <2>2, ServedUser, Zenon DEF FlightInv, Idle
<1> QED
  BY <1>1, <1>2, <1>3, <1>4, Zenon DEF IoOk, PipeInv

LEMMA SubmitKeepsPipe ==
    ASSUME RequestInv, ServedInv, PipeInv, Served, NEW u \in Users, UserNext(u),
           NEW w, WriteRequest(u, w),
           topeer = <<>>, chan = <<>>, ~closed, rpc'[recvp'] = "wait", fp' = "fd",
           UNCHANGED <<resp, inbuf, io, crashed, netVars>>
    PROVE  PipeInv'
<1>0. Idle /\ upc \in [Users -> UserPcs]
  BY IdleWhenMoving, Zenon DEF RequestInv, ClientInv, SemaInv
<1>1. Submit(u, w)
  BY Zenon DEF WriteRequest, NoMemory, Served
<1>2. out' = Request(u)
  <2>1. out = <<>> /\ Request(u) \in Seq(Unit)
    BY <1>0, RequestType, Zenon DEF PipeInv
  <2> QED
    BY <1>1, <2>1 DEF Submit
<1>3. upc'[u] = "waiting" /\ \A v \in Users : v # u => upc'[v] # "waiting"
  BY <1>0, <1>1, Zenon DEF Submit, Idle
<1>4. Sending(u)'
  BY <1>2, Zenon DEF Sending, Divided, netVars, Request
<1>5. ~Idle'
  BY <1>3, Zenon DEF Idle
<1>6. \A v \in Users : upc'[v] = "waiting" => Sending(v)'
  BY <1>3, <1>4, Zenon
<1> QED
  BY <1>5, <1>6, Zenon DEF PipeInv

LEMMA UserKeepsPipe ==
    ASSUME RequestInv, ServedInv, PipeInv, Served, NEW u \in Users, UserNext(u)
    PROVE  PipeInv'
<1>0. /\ Idle /\ \A v \in Users : upc[v] = "ssl" => v = u
      /\ upc \in [Users -> UserPcs]
      /\ WorkerTypes /\ CloseProgress(u)
  BY IdleWhenMoving, Zenon DEF RequestInv, ClientInv, SemaInv, WorkerInv
<1>1. CASE AcquireConnected(u)
  <2>1. recvp # 0 /\ UNCHANGED <<rpc, recvp, fp>>
    BY <1>1, Zenon DEF AcquireConnected, connVars
  <2>2. topeer = <<>> /\ chan = <<>> /\ ~closed /\ rpc[recvp] = "wait"
    BY <1>0, <2>1, WorkerReads, Zenon DEF PipeInv
  <2>3. fp = "fd"
    BY <2>1, WorkerReads, Zenon DEF IoOk, PipeInv
  <2> QED
    BY <1>1, <2>1, <2>2, <2>3, SubmitKeepsPipe, Zenon DEF AcquireConnected
<1>2. CASE SslInit(u)
  <2>1. topeer = <<>> /\ chan = <<>> /\ ~closed
    BY <1>0, <1>2, Zenon DEF SslInit, PipeInv
  <2>2. rpc'[recvp'] = "wait" /\ fp' = "fd"
    BY <1>0, <1>2, ClientAssumption DEF SslInit, CloseProgress, WorkerTypes, Conns, Served
  <2> QED
    BY <1>2, <2>1, <2>2, SubmitKeepsPipe, Zenon DEF SslInit
\* Otherwise nobody waits afterwards either.
<1>3. ASSUME upc'[u] # "waiting", \A v \in Users : v # u => upc'[v] = upc[v],
             UNCHANGED <<resp, out, inbuf, io, crashed>>,
             fd' # 0 => fp' = "fd",
             recvp' # 0 \/ upc'[u] = "ssl" => topeer' = <<>> /\ chan' = <<>> /\ ~closed'
      PROVE  PipeInv'
  <2>1. Idle' /\ \A v \in Users : upc'[v] # "waiting"
    BY <1>0, <1>3, Zenon DEF Idle
  <2>2. ASSUME recvp' # 0 \/ \E v \in Users : upc'[v] = "ssl"
        PROVE  topeer' = <<>> /\ chan' = <<>> /\ ~closed'
    BY <1>0, <1>3, <2>2, Zenon
  <2> QED
    BY <1>0, <1>3, <2>1, <2>2, Zenon DEF PipeInv
<1>4. /\ fd # 0 => fp = "fd"
      /\ recvp # 0 => topeer = <<>> /\ chan = <<>> /\ ~closed
  BY <1>0, Zenon DEF PipeInv
<1>5. CASE AcquireReconnect(u) \/ JoinSend(u)
  <2>1. upc'[u] \in {"join_send", "join_recv", "connect"} /\ \A v \in Users : v # u => upc'[v] = upc[v]
    BY <1>0, <1>5, Zenon DEF AcquireReconnect, JoinSend, CloseRecv
  <2>2. /\ UNCHANGED <<resp, out, inbuf, io, crashed, topeer, chan, closed, recvp>>
        /\ fd' # 0 => fp' = "fd"
    BY <1>4, <1>5, Zenon DEF AcquireReconnect, JoinSend, CloseRecv, netVars
  <2> QED
    BY <1>3, <1>4, <2>1, <2>2, Zenon
<1>6. CASE JoinRecv(u)
  <2>1. upc'[u] = "connect" /\ \A v \in Users : v # u => upc'[v] = upc[v]
    BY <1>0, <1>6, Zenon DEF JoinRecv
  <2>2. recvp' = 0 /\ fd' = 0 /\ UNCHANGED <<resp, out, inbuf, io, crashed>>
    BY <1>6, Zenon DEF JoinRecv
  <2> QED
    BY <1>3, <2>1, <2>2, Zenon
<1>7. CASE ConnectFails(u) \/ Resume(u)
  <2>1. upc'[u] \in {"failed", "done"} /\ \A v \in Users : v # u => upc'[v] = upc[v]
    BY <1>0, <1>7, Zenon DEF ConnectFails, Resume, GiveUp
  <2>2. UNCHANGED <<resp, out, inbuf, io, crashed, topeer, chan, closed, recvp, fd, fp>>
    BY <1>7, Zenon DEF ConnectFails, Resume, connVars, workVars, netVars
  <2> QED
    BY <1>3, <1>4, <2>1, <2>2, Zenon
<1>8. CASE Connect(u)
  <2>1. upc'[u] = "ssl" /\ \A v \in Users : v # u => upc'[v] = upc[v]
    BY <1>0, <1>8, Zenon DEF Connect
  <2>2. /\ fp' = "fd" /\ topeer' = <<>> /\ chan' = <<>> /\ ~closed'
        /\ UNCHANGED <<resp, out, inbuf, io, crashed>>
    BY <1>8, Zenon DEF Connect
  <2> QED
    BY <1>3, <2>1, <2>2, Zenon
<1>9. CASE SslInitFails(u)
  BY <1>9, Zenon DEF SslInitFails, Served, Undisturbed
<1> QED
  BY <1>1, <1>2, <1>5, <1>6, <1>7, <1>8, <1>9, Zenon DEF UserNext

\* A write moves pieces of a request from conn->out to the peer.
LEMMA WriteMoves ==
    ASSUME NEW a, NEW b, NEW t, NEW o, Divided(a, b, t, o), NEW k \in 1 .. Len(o)
    PROVE  Divided(a, b, t \o SubSeq(o, 1, k), SubSeq(o, k + 1, Len(o)))
<1> DEFINE t2 == t \o SubSeq(o, 1, k)
           o2 == SubSeq(o, k + 1, Len(o))
<1>0. /\ SubSeq(<<a, b>>, 1, 1) = <<a>> /\ SubSeq(<<a, b>>, 2, 2) = <<b>>
      /\ SubSeq(<<a, b>>, 1, 2) = <<a, b>> /\ SubSeq(<<a, b>>, 3, 2) = <<>>
      /\ SubSeq(<<b>>, 1, 1) = <<b>> /\ SubSeq(<<b>>, 2, 1) = <<>>
      /\ <<a>> \o <<b>> = <<a, b>>
  BY Pieces, Zenon
<1>1. <<>> \o <<a, b>> = <<a, b>> /\ <<>> \o <<a>> = <<a>>
  OBVIOUS
<1>2. Len(<<a, b>>) = 2 /\ Len(<<b>>) = 1
  BY Zenon
<1>3. CASE t = <<>> /\ o = <<a, b>> /\ k = 1
  <2>1. t2 = <<>> \o SubSeq(<<a, b>>, 1, 1) /\ o2 = SubSeq(<<a, b>>, 2, 2)
    BY <1>2, <1>3
  <2> QED
    BY <1>0, <1>1, <2>1, Zenon DEF Divided
<1>4. CASE t = <<>> /\ o = <<a, b>> /\ k = 2
  <2>1. t2 = <<>> \o SubSeq(<<a, b>>, 1, 2) /\ o2 = SubSeq(<<a, b>>, 3, 2)
    BY <1>2, <1>4
  <2> QED
    BY <1>0, <1>1, <2>1, Zenon DEF Divided
<1>5. CASE t = <<a>> /\ o = <<b>>
  <2>1. k = 1
    BY <1>2, <1>5
  <2>2. t2 = <<a>> \o SubSeq(<<b>>, 1, 1) /\ o2 = SubSeq(<<b>>, 2, 1)
    BY <1>2, <1>5, <2>1
  <2> QED
    BY <1>0, <2>2, Zenon DEF Divided
<1>6. CASE t = <<>> /\ o = <<a, b>>
  <2>1. k \in 1 .. 2
    BY <1>2, <1>6, Zenon
  <2>2. k = 1 \/ k = 2
    BY <2>1
  <2> QED
    BY <1>3, <1>4, <1>6, <2>2, Zenon
<1>7. CASE o = <<>>
  BY <1>7
<1> QED
  BY <1>5, <1>6, <1>7, Zenon DEF Divided

LEMMA SendKeepsPipe ==
    ASSUME RequestInv, PipeInv, NEW c \in Conns, SendNext(c)
    PROVE  PipeInv'
<1>0. UNCHANGED <<upc, resp, inbuf, fd, fp, io, recvp, rpc, crashed, chan, closed>>
  BY Zenon DEF SendNext, SendWrite, SendIdle, SendFails, userVars, connVars, netVars
<1>1. CASE SendWrite(c)
  <2>1. PICK k \in 1 .. Len(out) :
           /\ topeer' = IF closed THEN topeer ELSE topeer \o SubSeq(out, 1, k)
           /\ out' = SubSeq(out, k + 1, Len(out))
    BY <1>1, Zenon DEF SendWrite, Unsent
  <2>2. out # <<>>
    BY <2>1
  <2>3. PICK u \in Users : upc[u] = "waiting"
    BY <2>2, Zenon DEF PipeInv, Idle
  <2>4. Sending(u) /\ ~closed
    BY <2>2, <2>3, Zenon DEF PipeInv, Answered, Broken, Sending
  <2>5. topeer' = topeer \o SubSeq(out, 1, k)
    BY <2>1, <2>4, Zenon
  <2>6. Divided(Request(u)[1], Request(u)[2], topeer', out')
    BY <2>1, <2>4, <2>5, WriteMoves, Zenon DEF Sending
  <2>9. Sending(u)'
    BY <1>0, <2>4, <2>6, Zenon DEF Sending
  <2>10. \A v \in Users : upc'[v] = "waiting" => v = u
    BY <1>0, <2>3, WaiterIsAlone, Zenon DEF Returned
  <2>11. ~Idle'
    BY <1>0, <2>3, Zenon DEF Idle
  <2> QED
    BY <1>0, <2>9, <2>10, <2>11, Zenon DEF PipeInv
<1>2. CASE SendIdle(c) \/ SendFails(c)
  <2>1. UNCHANGED <<out, topeer>>
    BY <1>2, Zenon DEF SendIdle, SendFails, netVars
  <2> QED
    BY <1>0, <2>1, Zenon DEF PipeInv, Idle, Sending, Answered, Broken
<1> QED
  BY <1>1, <1>2, Zenon DEF SendNext

LEMMA OneToken ==
    ASSUME NEW x, NEW k \in 1 .. Len(<<x>>)
    PROVE  /\ SubSeq(<<x>>, 1, k) = <<x>> /\ SubSeq(<<x>>, k + 1, Len(<<x>>)) = <<>>
           /\ Head(<<x>>) = x /\ Tail(<<x>>) = <<>>
<1>1. Len(<<x>>) = 1 /\ Head(<<x>>) = x /\ Tail(<<x>>) = <<>>
  OBVIOUS
<1>2. k = 1
  BY <1>1
<1>3. SubSeq(<<x>>, 1, 1) = <<x>> /\ SubSeq(<<x>>, 2, 1) = <<>>
  BY Pieces, Zenon
<1> QED
  BY <1>1, <1>2, <1>3

\* The receive worker parses for the thread u, which waits.
LEMMA ParseKeepsPipe ==
    ASSUME RequestInv, ServedInv, PipeInv, NEW c \in Conns, recvp = c,
           NEW u \in Users, upc[u] = "waiting", Parse(c, u),
           UNCHANGED <<out, fd, fp, io, topeer, closed>>
    PROVE  PipeInv'
<1>0. /\ upc \in [Users -> UserPcs] /\ c # 0 /\ u # NoOne
      /\ RequestTypes /\ rpc \in [Conns -> {"none", "wait", "parse", "dead"}]
      /\ \A v \in Users : v # u => upc[v] \notin {"waiting", "ssl"}
  <2>1. SemaInv /\ WorkerTypes /\ RequestTypes
    BY Zenon DEF RequestInv, ClientInv, WorkerInv
  <2>2. \A v \in Users : v # u => upc[v] \in {"new"} \cup Returned
    BY WaiterIsAlone, Zenon
  <2>3. upc \in [Users -> UserPcs] /\ rpc \in [Conns -> {"none", "wait", "parse", "dead"}]
    BY <2>1, Zenon DEF SemaInv, WorkerTypes
  <2>4. c # 0
    BY ClientAssumption DEF Conns
  <2>5. u # NoOne
    BY ClientAssumption, Zenon
  <2>6. \A v \in Users : v # u => upc[v] \notin {"waiting", "ssl"}
    BY <2>2, Zenon DEF Returned
  <2> QED
    BY <2>1, <2>3, <2>4, <2>5, <2>6, Zenon
<1>1. inbuf = <<>> /\ IoOk
  BY <1>0, WorkerReads, Zenon DEF PipeInv
<1>2. Sending(u) \/ Answered(u) \/ Broken
  BY Zenon DEF PipeInv
\* When u was woken nobody waits, and nobody connects.
<1>3. ASSUME Wake(u), Receives(u, u) \/ Receives(u, Failed), out = <<>>, inbuf' = <<>>, ~crashed',
             recvp' # 0 => topeer = <<>> /\ chan' = <<>> /\ ~closed
      PROVE  PipeInv'
  <2>1. upc'[u] = "woken" /\ \A v \in Users : v # u => upc'[v] = upc[v]
    BY <1>0, <1>3, Zenon DEF Wake
  <2>2. Idle' /\ \A v \in Users : upc'[v] \notin {"waiting", "ssl"}
    BY <1>0, <2>1, Zenon DEF Idle
  <2>3. \A v \in Users : resp'[v] \in {NoOne, Failed, v}
    BY <1>3, Zenon DEF Receives, PipeInv
  <2> QED
    BY <1>3, <2>2, <2>3, Zenon DEF PipeInv
<1>4. ASSUME ParseFails(c, u), out = <<>> PROVE PipeInv'
  BY <1>1, <1>3, <1>4, Zenon DEF ParseFails, RecvExit, PipeInv
<1>5. CASE Answered(u)
  <2>0. PICK x : /\ chan = <<x>>
                 /\ \/ ~closed /\ x = [r |-> u, full |-> TRUE]
                    \/ closed /\ x = [r |-> u, full |-> FALSE]
    BY <1>5, Zenon DEF Answered
  <2>1. chan = <<x>> /\ x.r = u /\ (x.full => ~closed) /\ (~x.full => closed)
    BY <2>0
  <2>2. Len(chan) = 1 /\ chan # <<>>
    BY <2>1, Zenon
  <2>3. PICK k \in 1 .. Len(chan) :
            /\ \/ ParseAll(c, u, SubSeq(chan, 1, k))
               \/ ParsePart(c, u, SubSeq(chan, 1, k))
            /\ chan' = SubSeq(chan, k + 1, Len(chan))
    BY <1>1, <2>2, Zenon DEF Parse
  <2>4. /\ SubSeq(chan, 1, k) = chan /\ chan' = <<>>
        /\ Head(chan) = x /\ Tail(chan) = <<>>
    BY <2>1, <2>3, OneToken, Zenon
  <2>5. CASE ParseAll(c, u, SubSeq(chan, 1, k))
    <3>1. /\ x.full /\ inbuf' = <<>> /\ Receives(u, u) /\ Wake(u) /\ UNCHANGED recvp
      BY <2>1, <2>4, <2>5, Zenon DEF ParseAll
    <3>2. ~crashed'
      <4>1. crashed' = (u = NoOne)
        BY <2>5, Zenon DEF ParseAll
      <4>2. (u = NoOne) = FALSE
        BY <1>0, Zenon
      <4> QED
        BY <4>1, <4>2, Zenon
    <3> QED
      BY <1>3, <1>5, <2>1, <2>4, <3>1, <3>2, Zenon DEF Answered
  <2>6. CASE ParsePart(c, u, SubSeq(chan, 1, k))
    <3>0. ~crashed'
      <4>1. crashed' = (u = NoOne)
        BY <2>6, Zenon DEF ParsePart
      <4>2. (u = NoOne) = FALSE
        BY <1>0, Zenon
      <4> QED
        BY <4>1, <4>2, Zenon
    <3>1. /\ ~Head(SubSeq(chan, 1, k)).full /\ inbuf' = Tail(SubSeq(chan, 1, k))
          /\ UNCHANGED <<upc, resp, recvp>> /\ rpc' = [rpc EXCEPT ![c] = "parse"]
      BY <2>6, Zenon DEF ParsePart
    <3>4. ~x.full /\ inbuf' = <<>>
      BY <2>4, <3>1, Zenon
    <3>2. Broken'
      BY <1>0, <1>5, <2>1, <2>4, <3>1, <3>4, Zenon DEF Broken, Answered
    <3>3. ~Idle'
      BY <3>1, Zenon DEF Idle
    <3> QED
      BY <3>0, <3>1, <3>2, <3>3, <3>4, Zenon DEF PipeInv
  <2> QED
    BY <2>3, <2>5, <2>6, Zenon
<1>6. CASE Sending(u) \/ Broken
  <2>1. chan = <<>>
    BY <1>6, Zenon DEF Sending, Broken
  <2>2. ParseFails(c, u) /\ closed
    BY <1>1, <2>1 DEF Parse
  <2>3. out = <<>>
    BY <1>6, <2>2, Zenon DEF Sending, Broken
  <2> QED
    BY <1>4, <2>2, <2>3, Zenon
<1> QED
  BY <1>2, <1>5, <1>6, Zenon

LEMMA RecvKeepsPipe ==
    ASSUME RequestInv, ServedInv, PipeInv, ~ReadYields, NEW c \in Conns, RecvNext(c)
    PROVE  PipeInv'
<1>0. /\ upc \in [Users -> UserPcs] /\ RequestTypes /\ FlightInv /\ c # 0
  BY DEF RequestInv, ClientInv, SemaInv, WorkerInv, Conns
<1>1. /\ recvp = c /\ rpc[c] \in {"wait", "parse"}
      /\ UNCHANGED <<out, fd, fp, io, topeer, closed>>
  <2>1. rpc[c] \in {"wait", "parse"} /\ UNCHANGED <<out, fd, fp, io, topeer, closed>>
    BY Zenon DEF RecvNext, RecvWake, RecvMore, RecvInterrupted, connVars, netVars
  <2> QED
    BY <2>1, PointersKnown, Zenon DEF Alive
<1>2. CASE RecvWake(c)
  <2> DEFINE r == IF queue = <<>> THEN NoOne ELSE Head(queue)
  <2>1. cur[c] = NoOne /\ rpc[c] = "wait" /\ (chan # <<>> \/ closed)
    BY <1>0, <1>2, Zenon DEF RecvWake, FlightInv
  <2>2. Takes(c, r) /\ Parse(c, r) /\ (queue # <<>> => r = Head(queue))
    BY <1>2, <2>1, Zenon DEF RecvWake, Takes
  <2> HIDE DEF r
  <2>3. PICK u \in Users : upc[u] = "waiting"
    BY <1>0, <1>1, <2>1, Zenon DEF PipeInv, Idle
  <2>4. r = u
    BY <2>1, <2>2, <2>3, TakesTheWaiter, Zenon
  <2> QED
    BY <1>1, <2>2, <2>3, <2>4, ParseKeepsPipe, Zenon
<1>3. CASE RecvMore(c)
  <2>1. rpc[c] = "parse" /\ Parse(c, cur[c]) /\ Takes(c, cur[c])
    BY <1>3, Zenon DEF RecvMore, Takes
  <2>2. cur[c] # NoOne
    BY <2>1, Zenon DEF ServedInv, PipeInv
  <2>3. PICK u \in Users : upc[u] = "waiting"
    BY <1>0, <1>1, <2>1, WorkerReads, Zenon DEF Idle
  <2>4. cur[c] = u
    BY <2>1, <2>2, <2>3, TakesTheWaiter, Zenon
  <2> QED
    BY <1>1, <2>1, <2>3, <2>4, ParseKeepsPipe, Zenon
<1>4. CASE RecvInterrupted(c)
  <2>1. \A u \in Users : upc[u] # "waiting"
    BY <1>1, <1>4, ServedUser, Zenon DEF RecvInterrupted
  <2>2. /\ Receives(cur[c], Failed) /\ Wake(cur[c]) /\ recvp' = 0
        /\ UNCHANGED <<inbuf, crashed, chan>>
    BY <1>4, Zenon DEF RecvInterrupted, ParseFails, RecvExit, netVars
  <2>3. \A u \in Users : upc'[u] = upc[u]
    BY <1>0, <2>1, <2>2, Zenon DEF Wake
  <2>4. Idle /\ Idle' /\ \A u \in Users : upc'[u] # "waiting"
    BY <2>1, <2>3, Zenon DEF Idle
  <2>5. \A u \in Users : resp'[u] \in {NoOne, Failed, u}
    BY <2>2, Zenon DEF Receives, PipeInv
  <2> QED
    BY <1>1, <2>2, <2>3, <2>4, <2>5, Zenon DEF PipeInv
<1> QED
  BY <1>2, <1>3, <1>4, Zenon DEF RecvNext

\* The peer has a whole request: it is that of the thread that waits, of which
\* nothing is left to send.
LEMMA WholeIsTheWaiters ==
    ASSUME RequestInv, PipeInv, Whole, NEW u \in Users, upc[u] = "waiting"
    PROVE  /\ Sending(u) /\ out = <<>> /\ topeer[1].r = u
           /\ SubSeq(topeer, 3, Len(topeer)) = <<>>
<1> DEFINE a == Request(u)[1]
           b == Request(u)[2]
<1>1. Len(topeer) >= 2 /\ Len(topeer) \in Nat
  BY DEF Whole, RequestInv, StreamTypes
<1>2. a.r = u
  BY Zenon DEF Request
<1> HIDE DEF a, b
<1>3. /\ Len(<<>>) = 0 /\ Len(<<a>>) = 1 /\ Len(<<a, b>>) = 2 /\ <<a, b>>[1] = a
      /\ SubSeq(<<a, b>>, 3, 2) = <<>>
  OBVIOUS
<1>4. Sending(u)
  <2>1. topeer # <<>>
    BY <1>1, <1>3
  <2> QED
    BY <2>1, Zenon DEF PipeInv, Answered, Broken
<1>5. Divided(a, b, topeer, out)
  BY <1>4, Zenon DEF Sending, a, b
<1>6. topeer = <<a, b>> /\ out = <<>>
  <2> DEFINE n == Len(topeer)
  <2>0. n # 0 /\ n # 1
    <3>1. n >= 2 /\ n \in Nat
      BY <1>1, Zenon
    <3> HIDE DEF n
    <3> QED
      BY <3>1
  <2>1. topeer # <<>> /\ topeer # <<a>>
    BY <1>3, <2>0, Zenon
  <2> QED
    BY <1>5, <2>1, Zenon DEF Divided
<1>7. topeer[1].r = u /\ SubSeq(topeer, 3, Len(topeer)) = <<>>
  BY <1>2, <1>3, <1>6, Zenon
<1> QED
  BY <1>4, <1>6, <1>7, Zenon

LEMMA PeerKeepsPipe ==
    ASSUME RequestInv, PipeInv, Served, PeerNext
    PROVE  PipeInv'
<1>0. /\ UNCHANGED <<upc, resp, out, inbuf, fd, fp, io, recvp, rpc, crashed>>
      /\ ~closed
  BY Zenon DEF PeerNext, Respond, RespondPartly, PeerClose, Answer, userVars, connVars, workVars
<1>1. Whole
  <2>1. CASE Respond \/ RespondPartly
    BY <2>1, Zenon DEF Respond, RespondPartly
  <2>2. CASE PeerClose
    <3>1. Closing = "busy"
      BY <2>2, Zenon DEF PeerClose, Served
    <3>2. topeer # <<>> /\ ~Whole => Closing = "early"
      BY Zenon DEF Closing
    <3>3. topeer = <<>> => ~Whole
      BY DEF Whole
    <3>4. topeer = <<>> => Closing = "idle"
      BY <3>3, Zenon DEF Closing
    <3> QED
      BY <3>1, <3>2, <3>4, Zenon
  <2> QED
    BY <2>1, <2>2, Zenon DEF PeerNext
<1>2. CASE Idle
  <2>1. topeer # <<>>
    BY <1>1 DEF Whole
  <2>2. recvp = 0 /\ \A v \in Users : upc[v] # "ssl"
    BY <1>2, <2>1, Zenon DEF PipeInv
  <2>3. Idle' /\ \A v \in Users : upc'[v] # "waiting"
    BY <1>0, <1>2, Zenon DEF Idle
  <2> QED
    BY <1>0, <1>2, <2>2, <2>3, Zenon DEF PipeInv
<1>3. ASSUME NEW u \in Users, upc[u] = "waiting" PROVE PipeInv'
  <2>0. /\ Sending(u) /\ out = <<>> /\ topeer[1].r = u
        /\ SubSeq(topeer, 3, Len(topeer)) = <<>>
    BY <1>1, <1>3, WholeIsTheWaiters, Zenon
  <2>1. ASSUME NEW full \in BOOLEAN, Answer(full)
        PROVE  chan' = <<[r |-> u, full |-> full]>> /\ topeer' = <<>>
    <3>1. chan' = Append(chan, [r |-> u, full |-> full]) /\ topeer' = <<>>
      BY <2>0, <2>1, Zenon DEF Answer
    <3>2. chan = <<>>
      BY <2>0, Zenon DEF Sending
    <3> QED
      BY <3>1, <3>2
  <2>2. Sending(u)' \/ Answered(u)'
    <3>0. rpc'[recvp'] = "wait" /\ out' = <<>>
      BY <1>0, <2>0, Zenon DEF Sending
    <3>1. CASE Respond
      <4>1. Answer(TRUE) /\ closed' = closed
        BY <3>1, Zenon DEF Respond
      <4> QED
        BY <1>0, <2>1, <3>0, <4>1, Zenon DEF Answered
    <3>2. CASE RespondPartly
      <4>1. Answer(FALSE) /\ closed'
        BY <3>2, Zenon DEF RespondPartly
      <4> QED
        BY <2>1, <3>0, <4>1, Zenon DEF Answered
    <3>3. CASE PeerClose
      BY <1>0, <2>0, <3>3, Zenon DEF PeerClose, Sending
    <3> QED
      BY <3>1, <3>2, <3>3, Zenon DEF PeerNext
  <2>3. ~Idle' /\ \A v \in Users : upc'[v] = "waiting" => v = u
    BY <1>0, <1>3, WaiterIsAlone, Zenon DEF Idle, Returned
  <2> QED
    BY <1>0, <2>2, <2>3, Zenon DEF PipeInv
<1> QED
  BY <1>2, <1>3, Zenon DEF Idle

LEMMA FiniKeepsPipe ==
    ASSUME RequestInv, PipeInv, Fini \/ Closer
    PROVE  PipeInv'
<1>0. \A u \in Users : upc[u] \in Returned
  BY Zenon DEF RequestInv, ClientInv, FiniProgress, Fini, Closer, FiniJoinSend, FiniJoinRecv
<1>1. Idle /\ \A u \in Users : upc[u] \notin {"waiting", "ssl"}
  BY <1>0, Zenon DEF Idle, Returned
<1>2. /\ UNCHANGED <<upc, resp, io, crashed, topeer, chan, closed>>
      /\ recvp' # 0 => recvp # 0
      /\ out' = out \/ out' = <<>>
      /\ inbuf' = inbuf \/ inbuf' = <<>>
      /\ fd' # 0 => fd # 0 /\ fp' = fp
  BY Zenon DEF Fini, Closer, FiniJoinSend, FiniJoinRecv, FiniRecv, userVars, netVars
<1>3. Idle' /\ \A u \in Users : upc'[u] \notin {"waiting", "ssl"}
  BY <1>1, <1>2, Zenon DEF Idle
<1> QED
  BY <1>1, <1>2, <1>3, Zenon DEF PipeInv

LEMMA PipeInvNext ==
    ASSUME Served, RequestInv, ServedInv, PipeInv, [Next]_vars
    PROVE  PipeInv'
<1>1. CASE UNCHANGED vars
  BY <1>1, Zenon DEF vars, userVars, connVars, workVars, netVars, PipeInv, Idle, Sending, Answered, Broken
<1>2. ASSUME NEW u \in Users, UserNext(u) PROVE PipeInv'
  BY <1>2, UserKeepsPipe, Zenon
<1>3. ASSUME NEW u \in Users, Interrupt(u) PROVE PipeInv'
  BY <1>3, Zenon DEF Interrupt, Served, Undisturbed
<1>4. ASSUME NEW c \in Conns, SendNext(c) PROVE PipeInv'
  BY <1>4, SendKeepsPipe, Zenon
<1>5. ASSUME NEW c \in Conns, RecvNext(c) PROVE PipeInv'
  BY <1>5, RecvKeepsPipe, Zenon DEF Served, Undisturbed
<1>6. CASE Gc
  <2>1. \A u \in Users : upc[u] = "waiting" => sema = u
    BY Zenon DEF RequestInv, ClientInv, SemaInv, OneInside, Returned
  <2>2. \A u \in Users : upc[u] # "waiting"
    BY <1>6, <2>1, ClientAssumption, Zenon DEF Gc
  <2>3. /\ UNCHANGED <<upc, resp, fd, fp, recvp, crashed, topeer, chan, closed>>
        /\ out' = <<>> /\ inbuf' = <<>> /\ io' = "fd"
    BY <1>6, Zenon DEF Gc, userVars, connVars, workVars, netVars
  <2> QED
    BY <2>2, <2>3, Zenon DEF PipeInv, Idle
<1>7. CASE PeerNext
  BY <1>7, PeerKeepsPipe, Zenon
<1>8. CASE Fini \/ Closer
  BY <1>8, FiniKeepsPipe, Zenon
<1> QED
  BY <1>1, <1>2, <1>3, <1>4, <1>5, <1>6, <1>7, <1>8 DEF Next

LEMMA PipeAlways ==
    ASSUME Served PROVE Spec => [](RequestInv /\ ServedInv /\ PipeInv)
<1>1. Init => ServedInv /\ PipeInv
  BY ClientAssumption, Zenon DEF Init, ServedInv, PipeInv, Idle, Served
<1>2. RequestInv /\ ServedInv /\ [Next]_vars => ServedInv'
  BY ServedInvNext, Zenon DEF Served
<1>3. RequestInv /\ ServedInv /\ PipeInv /\ [Next]_vars => PipeInv'
  BY PipeInvNext, Zenon
<1> QED
  BY <1>1, <1>2, <1>3, RequestInvInit, RequestInvNext, PTL DEF Spec

\* For any number of threads and connections, in plain HTTP, with memory, and with
\* a peer that closes only when it has a request to answer: no response is parsed
\* into the request of another thread, and none comes when no request is there to
\* parse it into, which response_header_cb() could not survive.
THEOREM ResponsesAreOwn == ASSUME Served PROVE Spec => []OwnResponse
<1>1. PipeInv => OwnResponse
  BY Zenon DEF PipeInv, OwnResponse
<1> QED
  BY <1>1, PipeAlways, PTL

\* In the same setting mnhttpc_connection_gc(), which replaces both streams of a
\* connection whose semaphore is free, never throws away data of a request.
THEOREM GcLosesNothing == ASSUME Served PROVE Spec => []IdleStreamsAreEmpty
<1>1. RequestInv /\ PipeInv => IdleStreamsAreEmpty
  <2> SUFFICES ASSUME RequestInv, PipeInv, sema = NoOne PROVE out = <<>> /\ inbuf = <<>>
    BY Zenon DEF IdleStreamsAreEmpty
  <2>1. \A u \in Users : upc[u] = "waiting" => sema = u
    BY Zenon DEF RequestInv, ClientInv, SemaInv, OneInside, Returned
  <2>2. Idle
    BY <2>1, ClientAssumption, Zenon DEF Idle
  <2> QED
    BY <2>2, Zenon DEF PipeInv
<1> QED
  BY <1>1, PipeAlways, PTL

-----------------------------------------------------------------------------
(* One request at a time: FlightInv, counted.                              *)

INSTANCE FiniteSetTheorems

\* Counting: the queue holds as many requests as it is long, and the workers that
\* have a request have others, each its own.
LEMMA FlightCount ==
    ASSUME RequestInv
    PROVE  Len(queue) + Cardinality({c \in Conns : cur[c] # NoOne}) = Cardinality(InFlight)
<1> DEFINE S == {c \in Conns : cur[c] # NoOne}
           n == Len(queue)
           f == [c \in S |-> cur[c]]
<1>0. /\ queue \in Seq(Users) /\ n \in Nat /\ FlightInv
  BY DEF RequestInv, RequestTypes
<1>1. IsFiniteSet(Queued) /\ Cardinality(Queued) = n
  <2>1. queue \in [1 .. n -> Queued]
    BY <1>0 DEF Queued
  <2>2. queue \in Bijection(1 .. n, Queued)
    BY <1>0, <2>1, Zenon DEF Queued, FlightInv, Bijection, Injection, Surjection, IsInjective
  <2>3. ExistsBijection(1 .. n, Queued)
    BY <2>2, Zenon DEF ExistsBijection
  <2> QED
    BY <1>0, <2>3, FS_NatBijection, FS_CountingElements, Zenon
<1>2. IsFiniteSet(S)
  <2>1. 1 \in Int /\ MaxConnects \in Int
    BY ClientAssumption
  <2>2. IsFiniteSet(Conns)
    BY <2>1, FS_Interval, Zenon DEF Conns
  <2> QED
    BY <2>2, FS_Subset, Zenon
<1>3. IsFiniteSet(Dequeued) /\ Cardinality(Dequeued) = Cardinality(S)
  <2>1. f \in Injection(S, Dequeued)
    BY <1>0, Zenon DEF Dequeued, FlightInv, Injection, IsInjective
  <2>2. f \in Surjection(S, Dequeued)
    BY Zenon DEF Dequeued, Surjection
  <2>3. ExistsBijection(S, Dequeued)
    BY <2>1, <2>2, Zenon DEF ExistsBijection, Bijection
  <2> HIDE DEF S
  <2> QED
    BY <1>2, <2>3, FS_Bijection, Zenon
<1>4. Queued \cap Dequeued = {}
  BY <1>0 DEF Queued, Dequeued, FlightInv
<1> HIDE DEF S, n
<1>5. Cardinality(S) \in Nat /\ Cardinality(Queued \cap Dequeued) = 0
  BY <1>2, <1>4, FS_CardinalityType, FS_EmptySet, Zenon
<1>6. Cardinality(InFlight) = n + Cardinality(S) - Cardinality(Queued \cap Dequeued)
  BY <1>1, <1>3, FS_Union, Zenon DEF InFlight
<1> QED
  BY <1>0, <1>5, <1>6 DEF S, n

\* For any number of threads and connections, and also when threads are
\* interrupted in finalize, memory runs out or the peer closes: a request is on
\* the connection once, and but for those of interrupted threads it is the one of
\* the holder of reqfin_sema, which still waits for it.
THEOREM OneRequestOnConnection == Spec => []OneRequestInFlight
<1>1. RequestInv => OneRequestInFlight
  BY FlightCount, Zenon DEF RequestInv, FlightInv, OneRequestInFlight
<1> QED
  BY <1>1, RequestInvInit, RequestInvNext, PTL DEF Spec
=============================================================================
