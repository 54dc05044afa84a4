---------------------------- MODULE HttpClientProofs ----------------------------
(* What reqfin_sema guarantees, for any number of threads and connections, *)
(* any peer, and with interrupts, memory failures and TLS; and what is on  *)
(* the connection then: types, and requests that are there once.           *)
EXTENDS HttpClient, Integers, TLAPS

\* OneInside with the types it needs.
SemaInv ==
    /\ upc \in [Users -> UserPcs]
    /\ sema \in Users \cup {NoOne}
    /\ OneInside

LEMMA SemaInvInit == Init => SemaInv
  BY Zenon DEF Init, SemaInv, OneInside, Returned, UserPcs

\* What mnthr_signal_send() does to the users: it wakes one that waits.
LEMMA WakeKeeps ==
    ASSUME SemaInv, NEW r, Wake(r), UNCHANGED sema
    PROVE  SemaInv'
  BY Zenon DEF SemaInv, OneInside, Returned, Wake, UserPcs

LEMMA ParseKeeps ==
    ASSUME SemaInv, NEW c, NEW r, Parse(c, r), UNCHANGED sema
    PROVE  SemaInv'
<1>1. ASSUME NEW buf, ParseAll(c, r, buf) PROVE SemaInv'
  BY <1>1, WakeKeeps, Zenon DEF ParseAll
<1>2. ASSUME NEW buf, ParsePart(c, r, buf) PROVE SemaInv'
  BY <1>2, Zenon DEF ParsePart, SemaInv, OneInside, Returned
<1>3. ASSUME ParseFails(c, r) PROVE SemaInv'
  BY <1>3, WakeKeeps, Zenon DEF ParseFails
<1> QED
  BY <1>1, <1>2, <1>3, Zenon DEF Parse

\* Each step of a thread in finalize: it enters when the semaphore is free, and
\* from then on acts as its holder.
LEMMA UserKeeps ==
    ASSUME SemaInv, NEW u \in Users, UserNext(u) \/ Interrupt(u)
    PROVE  SemaInv'
<1>0. NoOne \notin Users
  BY ClientAssumption, Zenon
<1>1. ASSUME NEW w, WriteRequest(u, w), upc[u] = "new" => sema = NoOne,
             upc[u] \in {"new", "ssl"}
      PROVE  SemaInv'
  BY <1>0, <1>1, Zenon DEF SemaInv, OneInside, Returned, WriteRequest, Submit, NoMemory, GiveUp, UserPcs
<1>2. CASE AcquireConnected(u)
  BY <1>1, <1>2, Zenon DEF AcquireConnected
<1>3. CASE AcquireReconnect(u)
  BY <1>0, <1>3, Zenon DEF AcquireReconnect, CloseRecv, SemaInv, OneInside, Returned, UserPcs
<1>4. CASE JoinSend(u) \/ JoinRecv(u)
  BY <1>4, Zenon DEF JoinSend, JoinRecv, CloseRecv, SemaInv, OneInside, Returned, UserPcs
<1>5. CASE ConnectFails(u) \/ Connect(u) \/ SslInitFails(u)
  BY <1>0, <1>5, Zenon DEF ConnectFails, Connect, SslInitFails, GiveUp, SemaInv, OneInside, Returned, UserPcs
<1>6. CASE SslInit(u)
  BY <1>1, <1>6, Zenon DEF SslInit
<1>7. CASE Resume(u)
  BY <1>0, <1>7, Zenon DEF Resume, SemaInv, OneInside, Returned, UserPcs
<1>8. CASE Interrupt(u)
  BY <1>0, <1>8, Zenon DEF Interrupt, SemaInv, OneInside, Returned, UserPcs
<1> QED
  BY <1>2, <1>3, <1>4, <1>5, <1>6, <1>7, <1>8, Zenon DEF UserNext

LEMMA SemaInvNext == SemaInv /\ [Next]_vars => SemaInv'
<1> SUFFICES ASSUME SemaInv, [Next]_vars PROVE SemaInv'
  BY Zenon
<1>1. CASE UNCHANGED vars
  BY <1>1, Zenon DEF vars, userVars, SemaInv, OneInside, Returned
<1>2. ASSUME NEW u \in Users, UserNext(u) \/ Interrupt(u) PROVE SemaInv'
  BY <1>2, UserKeeps, Zenon
<1>3. ASSUME NEW c \in Conns, SendNext(c) PROVE SemaInv'
  BY <1>3, Zenon DEF SendNext, SendWrite, SendIdle, SendFails, userVars, SemaInv, OneInside, Returned
<1>4. ASSUME NEW c \in Conns, RecvNext(c) PROVE SemaInv'
  <2>1. CASE RecvWake(c)
    <3>1. CASE ReadYields
      BY <2>1, <3>1, Zenon DEF RecvWake, SemaInv, OneInside, Returned
    <3>2. CASE ~ReadYields
      BY <2>1, <3>2, ParseKeeps, Zenon DEF RecvWake
    <3> QED
      BY <3>1, <3>2, Zenon
  <2>2. CASE RecvMore(c)
    BY <2>2, ParseKeeps, Zenon DEF RecvMore
  <2>3. CASE RecvInterrupted(c)
    BY <2>3, WakeKeeps, Zenon DEF RecvInterrupted, ParseFails
  <2> QED
    BY <1>4, <2>1, <2>2, <2>3, Zenon DEF RecvNext
<1>5. CASE Gc
  BY <1>5, Zenon DEF Gc, userVars, SemaInv, OneInside, Returned
<1>6. CASE PeerNext
  BY <1>6, Zenon DEF PeerNext, Respond, RespondPartly, PeerClose, Answer, userVars, SemaInv, OneInside, Returned
<1>7. CASE Fini \/ Closer
  BY <1>7, Zenon DEF Fini, Closer, FiniJoinSend, FiniJoinRecv, userVars, SemaInv, OneInside, Returned
<1> QED
  BY <1>1, <1>2, <1>3, <1>4, <1>5, <1>6, <1>7, Zenon DEF Next

\* Only the holder of reqfin_sema closes the connection, connects it or waits on
\* it, so these never happen twice at the same time.
THEOREM SemaphoreExcludes == Spec => []OneInside
<1>1. SemaInv => OneInside
  BY Zenon DEF SemaInv
<1> QED
  BY <1>1, SemaInvInit, SemaInvNext, PTL DEF Spec

-----------------------------------------------------------------------------
(* The thread pointers.                                                    *)

WorkerTypes ==
    /\ nconn \in Nat /\ nconn <= MaxConnects
    /\ fd \in {0, nconn} /\ sendp \in {0, nconn} /\ recvp \in {0, nconn}
    /\ spc \in [Conns -> {"none", "run", "wait", "dead"}]
    /\ rpc \in [Conns -> {"none", "wait", "parse", "dead"}]
    /\ cut \in BOOLEAN
    /\ \A c \in Conns : c > nconn => spc[c] = "none" /\ rpc[c] = "none"

\* What a thread has achieved when it is inside mnhttpc_connection_close() or
\* connect(): the pointers are reset one after the other, and the workers of a new
\* connection are not there yet.
CloseProgress(u) ==
    /\ upc[u] = "join_recv" => sendp = 0
    /\ upc[u] = "connect" => sendp = 0 /\ recvp = 0
    /\ upc[u] = "ssl" => /\ sendp = 0 /\ recvp = 0 /\ fd \in Conns
                         /\ spc[fd] = "none" /\ rpc[fd] = "none"

\* The same for mnhttpc_fini(), during which no thread is inside finalize.
FiniProgress ==
    /\ opc \in {"use", "join_send", "join_recv", "freed"}
    /\ opc # "use" => \A u \in Users : upc[u] \in Returned
    /\ opc = "join_recv" => sendp = 0
    /\ opc = "freed" => sendp = 0 /\ recvp = 0 /\ fd = 0

\* WorkersAreKnown made inductive: where the pointers are 0 is known also after an
\* interrupted join, what a worker that was left behind does to them is reset them.
WorkerInv ==
    /\ WorkerTypes
    /\ WorkersAreKnown
    /\ \A u \in Users : CloseProgress(u)

ClientInv == SemaInv /\ WorkerInv /\ FiniProgress

LEMMA WorkerInvInit == Init => WorkerInv
<1> SUFFICES ASSUME Init PROVE WorkerInv
  BY Zenon
<1>1. WorkerTypes
  <2>1. cut \in BOOLEAN
    BY Zenon DEF Init
  <2>2. nconn <= MaxConnects
    BY ClientAssumption DEF Init
  <2> QED
    BY <2>1, <2>2, Zenon DEF Init, WorkerTypes
<1>2. WorkersAreKnown
  BY ClientAssumption DEF Init, WorkersAreKnown, Alive, Conns
<1>3. \A u \in Users : CloseProgress(u)
  BY Zenon DEF Init, CloseProgress
<1> QED
  BY <1>1, <1>2, <1>3, Zenon DEF WorkerInv

\* Only one thread is inside, so what is known about another one that was not,
\* and is not, is known still.
LEMMA OthersOutside ==
    ASSUME SemaInv, NEW u \in Users, sema = u \/ sema = NoOne,
           NEW v \in Users, v # u
    PROVE  upc[v] \in ({"new"} \cup Returned)
  BY ClientAssumption, Zenon DEF SemaInv, OneInside, Returned, UserPcs

LEMMA OthersClose ==
    ASSUME SemaInv, NEW u \in Users, sema = u \/ sema = NoOne,
           NEW pc, upc' = [upc EXCEPT ![u] = pc], CloseProgress(u)'
    PROVE  \A v \in Users : CloseProgress(v)'
<1> SUFFICES ASSUME NEW v \in Users PROVE CloseProgress(v)'
  BY Zenon
<1>1. CASE v = u
  BY <1>1, Zenon
<1>2. CASE v # u
  <2>1. upc[v] \in ({"new"} \cup Returned)
    BY <1>2, OthersOutside, Zenon
  <2>2. upc'[v] = upc[v]
    BY <1>2, Zenon DEF SemaInv
  <2> QED
    BY <2>1, <2>2, Zenon DEF CloseProgress, Returned
<1> QED
  BY <1>1, <1>2, Zenon

\* When the wait for a worker is not cut short, that worker has ended, and has reset
\* the pointer to itself.
LEMMA SendJoined ==
    ASSUME WorkerTypes, WorkersAreKnown, Joined(spc), ~cut'
    PROVE  ~cut /\ sendp = 0
<1>1. ~cut /\ spc[nconn] = "dead"
  <2>1. cut' # TRUE
    BY Zenon
  <2> QED
    BY <2>1, Zenon DEF Joined
<1>2. nconn # 0 => nconn \in Conns
  BY ClientAssumption DEF WorkerTypes, Conns
<1> QED
  BY <1>1, <1>2, Zenon DEF WorkerTypes, WorkersAreKnown, Alive

LEMMA RecvJoined ==
    ASSUME WorkerTypes, WorkersAreKnown, Joined(rpc), ~cut'
    PROVE  ~cut /\ recvp = 0
<1>1. ~cut /\ rpc[nconn] = "dead"
  <2>1. cut' # TRUE
    BY Zenon
  <2> QED
    BY <2>1, Zenon DEF Joined
<1>2. nconn # 0 => nconn \in Conns
  BY ClientAssumption DEF WorkerTypes, Conns
<1> QED
  BY <1>1, <1>2, Zenon DEF WorkerTypes, WorkersAreKnown, Alive

LEMMA JoinedType == ASSUME WorkerTypes, NEW pc, Joined(pc) PROVE cut' \in BOOLEAN
  BY Zenon DEF Joined, WorkerTypes

\* Every step of a thread in finalize keeps the pointers right.
LEMMA UserKeepsWorkers ==
    ASSUME ClientInv, NEW u \in Users, UserNext(u) \/ Interrupt(u)
    PROVE  WorkerInv'
<1> USE ClientAssumption
<1>0. SemaInv /\ WorkerTypes /\ WorkersAreKnown /\ CloseProgress(u)
  BY Zenon DEF ClientInv, WorkerInv
<1>1. upc \in [Users -> UserPcs]
  BY <1>0, Zenon DEF SemaInv
<1>2. CASE AcquireConnected(u)
  <2>1. /\ WorkerTypes'
        /\ \A c \in Conns : Alive(spc, c)' <=> Alive(spc, c)
    BY <1>0, <1>2, Zenon DEF AcquireConnected, WriteRequest, Submit, NoMemory, WorkerTypes,
                      connVars, Alive
  <2>2. WorkersAreKnown'
    BY <1>0, <1>2, <2>1, Zenon DEF AcquireConnected, WorkersAreKnown, connVars, Alive
  <2>3. PICK pc \in {"waiting", "failed"} : upc' = [upc EXCEPT ![u] = pc]
    BY <1>2, Zenon DEF AcquireConnected, WriteRequest, Submit, NoMemory, GiveUp
  <2>4. CloseProgress(u)'
    BY <1>1, <2>3, Zenon DEF CloseProgress
  <2>5. sema = NoOne
    BY <1>2, Zenon DEF AcquireConnected
  <2> QED
    BY <1>0, <2>1, <2>2, <2>3, <2>4, <2>5, OthersClose, Zenon DEF WorkerInv
<1>3. CASE AcquireReconnect(u)
  <2>1. WorkerTypes' /\ WorkersAreKnown'
    BY <1>0, <1>3 DEF AcquireReconnect, CloseRecv, WorkerTypes, WorkersAreKnown, Alive, Conns
  <2>2. PICK pc : upc' = [upc EXCEPT ![u] = pc]
    BY <1>3, Zenon DEF AcquireReconnect, CloseRecv
  <2>3. CloseProgress(u)'
    BY <1>1, <1>3, Zenon DEF AcquireReconnect, CloseRecv, CloseProgress
  <2>4. sema = NoOne
    BY <1>3, Zenon DEF AcquireReconnect
  <2> QED
    BY <1>0, <2>1, <2>2, <2>3, <2>4, OthersClose, Zenon DEF WorkerInv
<1>4. ASSUME upc[u] \notin ({"new"} \cup Returned) PROVE sema = u
  BY <1>0, <1>4, Zenon DEF SemaInv, OneInside, Returned
<1>5. CASE JoinSend(u)
  <2>0. cut' \in BOOLEAN /\ (~cut' => ~cut /\ sendp = 0)
    BY <1>0, <1>5, SendJoined, JoinedType, Zenon DEF JoinSend
  <2>1. WorkerTypes' /\ WorkersAreKnown'
    BY <1>0, <1>5, <2>0, Zenon DEF JoinSend, CloseRecv, WorkerTypes, WorkersAreKnown, Alive, Conns
  <2>2. PICK pc : upc' = [upc EXCEPT ![u] = pc]
    BY <1>5, Zenon DEF JoinSend, CloseRecv
  <2>3. CloseProgress(u)'
    BY <1>1, <1>5, <2>0, Zenon DEF JoinSend, CloseRecv, CloseProgress
  <2>4. sema = u
    BY <1>4, <1>5, Zenon DEF JoinSend, Returned
  <2> QED
    BY <1>0, <2>1, <2>2, <2>3, <2>4, OthersClose, Zenon DEF WorkerInv
<1>6. CASE JoinRecv(u)
  <2>0. sendp = 0 /\ cut' \in BOOLEAN /\ (~cut' => ~cut /\ recvp = 0)
    BY <1>0, <1>6, RecvJoined, JoinedType, Zenon DEF JoinRecv, CloseProgress
  <2>1. WorkerTypes' /\ WorkersAreKnown'
    BY <1>0, <1>6, <2>0, Zenon DEF JoinRecv, WorkerTypes, WorkersAreKnown, Alive, Conns
  <2>2. upc' = [upc EXCEPT ![u] = "connect"]
    BY <1>6, Zenon DEF JoinRecv
  <2>3. CloseProgress(u)'
    BY <1>1, <1>6, <2>0, Zenon DEF JoinRecv, CloseProgress
  <2>4. sema = u
    BY <1>4, <1>6, Zenon DEF JoinRecv, Returned
  <2> QED
    BY <1>0, <2>1, <2>2, <2>3, <2>4, OthersClose, Zenon DEF WorkerInv
<1>7. CASE ConnectFails(u) \/ SslInitFails(u)
  <2>1. WorkerTypes' /\ WorkersAreKnown'
    BY <1>0, <1>7, Zenon DEF ConnectFails, SslInitFails, WorkerTypes, WorkersAreKnown, Alive,
                      Conns, connVars, workVars
  <2>2. upc' = [upc EXCEPT ![u] = "failed"]
    BY <1>7, Zenon DEF ConnectFails, SslInitFails, GiveUp
  <2>3. CloseProgress(u)'
    BY <1>1, <2>2, Zenon DEF CloseProgress
  <2>4. sema = u
    BY <1>4, <1>7, Zenon DEF ConnectFails, SslInitFails, Returned
  <2> QED
    BY <1>0, <2>1, <2>2, <2>3, <2>4, OthersClose, Zenon DEF WorkerInv
<1>8. CASE Connect(u)
  <2>0. sendp = 0 /\ recvp = 0
    BY <1>0, <1>8, Zenon DEF Connect, CloseProgress
  <2>1. WorkerTypes' /\ WorkersAreKnown'
    BY <1>0, <1>8, <2>0 DEF Connect, WorkerTypes, WorkersAreKnown, Alive, Conns, workVars
  <2>2. upc' = [upc EXCEPT ![u] = "ssl"]
    BY <1>8, Zenon DEF Connect
  <2>3. CloseProgress(u)'
    BY <1>0, <1>1, <1>8, <2>0 DEF Connect, CloseProgress, WorkerTypes, workVars, Conns
  <2>4. sema = u
    BY <1>4, <1>8, Zenon DEF Connect, Returned
  <2> QED
    BY <1>0, <2>1, <2>2, <2>3, <2>4, OthersClose, Zenon DEF WorkerInv
<1>9. CASE SslInit(u)
  <2>0. /\ sendp = 0 /\ recvp = 0 /\ fd \in Conns /\ fd # 0
        /\ spc[fd] = "none" /\ rpc[fd] = "none" /\ fd = nconn
    BY <1>0, <1>9 DEF SslInit, CloseProgress, WorkerTypes, Conns
  <2>1. /\ spc' \in [Conns -> {"none", "run", "wait", "dead"}]
        /\ \A c \in Conns : Alive(spc, c)' <=> Alive(spc, c) \/ c = fd
    BY <1>0, <1>9, <2>0, Zenon DEF SslInit, WriteRequest, Submit, NoMemory, WorkerTypes, Alive
  <2>2. WorkerTypes' /\ WorkersAreKnown'
    <3>1. WorkersAreKnown'
      BY <1>0, <1>9, <2>0, <2>1, Zenon DEF SslInit, WorkerTypes, WorkersAreKnown, Alive
    <3>2. \A c \in Conns : c > nconn => c # fd
      BY <1>0, <2>0 DEF WorkerTypes, Conns
    <3>3. \A c \in Conns : c > nconn => spc'[c] = "none" /\ rpc'[c] = "none"
      BY <1>0, <1>9, <2>0, <3>2, Zenon DEF SslInit, WriteRequest, Submit, NoMemory, WorkerTypes
    <3> QED
      BY <1>0, <1>9, <2>0, <2>1, <3>1, <3>3, Zenon DEF SslInit, WorkerTypes
  <2>3. PICK pc \in {"waiting", "failed"} : upc' = [upc EXCEPT ![u] = pc]
    BY <1>9, Zenon DEF SslInit, WriteRequest, Submit, NoMemory, GiveUp
  <2>4. CloseProgress(u)'
    BY <1>1, <2>3, Zenon DEF CloseProgress
  <2>5. sema = u
    BY <1>4, <1>9, Zenon DEF SslInit, Returned
  <2> QED
    BY <1>0, <2>2, <2>3, <2>4, <2>5, OthersClose, Zenon DEF WorkerInv
<1>10. CASE Resume(u) \/ Interrupt(u)
  <2>1. WorkerTypes' /\ WorkersAreKnown'
    BY <1>0, <1>10, Zenon DEF Resume, Interrupt, WorkerTypes, WorkersAreKnown, Alive,
                       Conns, connVars, workVars
  <2>2. PICK pc \in Returned : upc' = [upc EXCEPT ![u] = pc]
    BY <1>10, Zenon DEF Resume, Interrupt, Returned
  <2>3. ASSUME NEW v \in Users PROVE CloseProgress(v)'
    <3>1. CloseProgress(v)
      BY Zenon DEF ClientInv, WorkerInv
    <3>2. upc'[v] = upc[v] \/ upc'[v] \in Returned
      BY <1>1, <2>2, Zenon
    <3> QED
      BY <1>10, <3>1, <3>2, Zenon DEF CloseProgress, Resume, Interrupt, Returned,
                              connVars, workVars
  <2> QED
    BY <2>1, <2>3, Zenon DEF WorkerInv
<1> QED
  BY <1>2, <1>3, <1>5, <1>6, <1>7, <1>8, <1>9, <1>10, Zenon DEF UserNext

\* A worker that ends clears the pointer to itself; no thread is inside
\* connect() then, since no worker is alive there.
LEMMA SendKeepsWorkers ==
    ASSUME ClientInv, NEW c \in Conns, SendNext(c)
    PROVE  WorkerInv'
<1>0. WorkerTypes /\ WorkersAreKnown
  BY Zenon DEF ClientInv, WorkerInv
<1>1. Alive(spc, c) /\ (~cut => sendp = c)
  BY <1>0, Zenon DEF SendNext, SendWrite, SendIdle, SendFails, WorkersAreKnown, Alive
<1>2. /\ UNCHANGED <<nconn, fd, recvp, rpc, upc, cut>>
      /\ \E pc \in {"run", "wait", "dead"} :
            /\ spc' = [spc EXCEPT ![c] = pc]
            /\ sendp' = IF pc = "dead" THEN 0 ELSE sendp
  BY Zenon DEF SendNext, SendWrite, SendIdle, SendFails, SendExit, userVars, connVars
<1>3. PICK pc \in {"run", "wait", "dead"} :
            /\ spc' = [spc EXCEPT ![c] = pc]
            /\ sendp' = IF pc = "dead" THEN 0 ELSE sendp
  BY <1>2, Zenon
<1>4. WorkerTypes'
  BY <1>0, <1>1, <1>2, <1>3, Zenon DEF WorkerTypes, Alive
<1>5. WorkersAreKnown'
  BY <1>0, <1>1, <1>2, <1>3 DEF WorkerTypes, WorkersAreKnown, Alive, Conns
<1>6. ASSUME NEW u \in Users PROVE CloseProgress(u)'
  <2>1. CloseProgress(u)
    BY Zenon DEF ClientInv, WorkerInv
  <2> QED
    BY <1>0, <1>1, <1>2, <1>3, <2>1, Zenon DEF CloseProgress, Alive, WorkerTypes
<1> QED
  BY <1>4, <1>5, <1>6, Zenon DEF WorkerInv

LEMMA RecvStepKeepsWorkers ==
    ASSUME ClientInv, NEW c \in Conns, Alive(rpc, c),
           NEW pc \in {"wait", "parse", "dead"}, rpc' = [rpc EXCEPT ![c] = pc],
           recvp' = IF pc = "dead" THEN 0 ELSE recvp,
           UNCHANGED <<nconn, fd, sendp, spc, cut>>,
           \A u \in Users : upc'[u] = upc[u] \/ upc'[u] = "woken"
    PROVE  WorkerInv'
<1>0. WorkerTypes /\ WorkersAreKnown
  BY Zenon DEF ClientInv, WorkerInv
<1>1. ~cut => recvp = c
  BY <1>0, Zenon DEF WorkersAreKnown
<1>2. WorkerTypes'
  BY <1>0, Zenon DEF WorkerTypes, Alive
<1>3. WorkersAreKnown'
  BY <1>0, <1>1 DEF WorkerTypes, WorkersAreKnown, Alive, Conns
<1>4. ASSUME NEW u \in Users PROVE CloseProgress(u)'
  <2>1. CloseProgress(u)
    BY Zenon DEF ClientInv, WorkerInv
  <2> QED
    BY <1>0, <2>1, Zenon DEF CloseProgress, Alive, WorkerTypes
<1> QED
  BY <1>2, <1>3, <1>4, Zenon DEF WorkerInv

LEMMA RecvKeepsWorkers ==
    ASSUME ClientInv, NEW c \in Conns, RecvNext(c)
    PROVE  WorkerInv'
<1>0. Alive(rpc, c)
  BY Zenon DEF RecvNext, RecvWake, RecvMore, RecvInterrupted, Alive
<1>1. UNCHANGED <<nconn, fd, sendp, spc, cut>>
  BY Zenon DEF RecvNext, RecvWake, RecvMore, RecvInterrupted, connVars
<1>2. ASSUME NEW r, Wake(r) PROVE \A u \in Users : upc'[u] = upc[u] \/ upc'[u] = "woken"
  BY <1>2, SMTT(30) DEF Wake
<1>3. ASSUME NEW r, NEW buf, ParseAll(c, r, buf) PROVE WorkerInv'
  BY <1>0, <1>1, <1>2, <1>3, RecvStepKeepsWorkers, Zenon DEF ParseAll
<1>4. ASSUME NEW r, NEW buf, ParsePart(c, r, buf) PROVE WorkerInv'
  BY <1>0, <1>1, <1>4, RecvStepKeepsWorkers, Zenon DEF ParsePart
<1>5. ASSUME NEW r, ParseFails(c, r) PROVE WorkerInv'
  BY <1>0, <1>1, <1>2, <1>5, RecvStepKeepsWorkers, Zenon DEF ParseFails, RecvExit
<1>6. ASSUME NEW r, Parse(c, r) PROVE WorkerInv'
  BY <1>3, <1>4, <1>5, <1>6, Zenon DEF Parse
<1>7. CASE RecvWake(c)
  <2>1. CASE ReadYields
    BY <1>0, <1>1, <1>7, <2>1, RecvStepKeepsWorkers, Zenon DEF RecvWake
  <2>2. CASE ~ReadYields
    BY <1>6, <1>7, <2>2, Zenon DEF RecvWake
  <2> QED
    BY <2>1, <2>2, Zenon
<1> QED
  BY <1>5, <1>6, <1>7, Zenon DEF RecvNext, RecvMore, RecvInterrupted

\* mnhttpc_fini() joins what it interrupts, the send worker first.
LEMMA FiniKeeps == ASSUME ClientInv, Fini \/ Closer PROVE WorkerInv' /\ FiniProgress'
<1> USE ClientAssumption
<1>0. SemaInv /\ WorkerTypes /\ WorkersAreKnown /\ FiniProgress
  BY Zenon DEF ClientInv, WorkerInv
<1>1. upc' = upc /\ \A u \in Users : upc[u] \in Returned
  BY <1>0, Zenon DEF Fini, Closer, FiniJoinSend, FiniJoinRecv, FiniProgress, userVars
<1>2. \A u \in Users : CloseProgress(u)'
  BY <1>1, Zenon DEF CloseProgress, Returned
<1>3. CASE Fini
  <2>1. WorkerTypes' /\ WorkersAreKnown'
    BY <1>0, <1>3, SMTT(30) DEF Fini, FiniRecv, WorkerTypes, WorkersAreKnown, Alive, Conns
  <2>2. FiniProgress'
    BY <1>1, <1>3, Zenon DEF Fini, FiniRecv, FiniProgress
  <2> QED
    BY <1>2, <2>1, <2>2, Zenon DEF WorkerInv
<1>4. CASE FiniJoinSend
  <2>0. cut' \in BOOLEAN /\ (~cut' => ~cut /\ sendp = 0)
    BY <1>0, <1>4, SendJoined, JoinedType, Zenon DEF FiniJoinSend
  <2>1. WorkerTypes' /\ WorkersAreKnown'
    BY <1>0, <1>4, <2>0, Zenon DEF FiniJoinSend, FiniRecv, WorkerTypes, WorkersAreKnown, Alive, Conns
  <2>2. FiniProgress'
    BY <1>1, <1>4, Zenon DEF FiniJoinSend, FiniRecv, FiniProgress
  <2> QED
    BY <1>2, <2>1, <2>2, Zenon DEF WorkerInv
<1>5. CASE FiniJoinRecv
  <2>0. sendp = 0 /\ cut' \in BOOLEAN /\ (~cut' => ~cut /\ recvp = 0)
    BY <1>0, <1>5, RecvJoined, JoinedType, Zenon DEF FiniJoinRecv, FiniProgress
  <2>1. WorkerTypes' /\ WorkersAreKnown'
    BY <1>0, <1>5, <2>0, Zenon DEF FiniJoinRecv, WorkerTypes, WorkersAreKnown, Alive, Conns
  <2>2. FiniProgress'
    BY <1>1, <1>5, <2>0, Zenon DEF FiniJoinRecv, FiniProgress
  <2> QED
    BY <1>2, <2>1, <2>2, Zenon DEF WorkerInv
<1> QED
  BY <1>3, <1>4, <1>5, Zenon DEF Closer

\* What the threads, workers and the peer do to the progress of mnhttpc_fini():
\* workers that end reset their pointers, and threads are outside for good.
LEMMA OthersFini ==
    ASSUME ClientInv, UNCHANGED opc,
           \/ UNCHANGED <<upc, connVars, workVars>> \/ Gc \/ PeerNext
           \/ \E u \in Users : UserNext(u) \/ Interrupt(u)
           \/ \E c \in Conns : SendNext(c) \/ RecvNext(c)
    PROVE  FiniProgress'
<1>0. FiniProgress
  BY SMTT(30) DEF ClientInv
<1>1. CASE UNCHANGED <<upc, connVars, workVars>> \/ Gc \/ PeerNext
  BY <1>0, <1>1, Zenon DEF FiniProgress, connVars, workVars, userVars, Gc, PeerNext, Respond, RespondPartly,
                    PeerClose, Answer
<1>2. ASSUME NEW u \in Users, UserNext(u) \/ Interrupt(u) PROVE FiniProgress'
  <2>1. upc[u] \notin Returned
    BY <1>2, Zenon DEF UserNext, AcquireConnected, AcquireReconnect, JoinSend, JoinRecv, ConnectFails,
                Connect, SslInitFails, SslInit, Resume, Interrupt, Returned
  <2> QED
    BY <1>0, <2>1, SMTT(30) DEF FiniProgress
<1>3. ASSUME NEW c \in Conns, SendNext(c) PROVE FiniProgress'
  <2>1. /\ UNCHANGED <<upc, fd, recvp, sintr, rintr>>
        /\ sendp' = sendp \/ sendp' = 0
    BY <1>3, Zenon DEF SendNext, SendWrite, SendIdle, SendFails, SendExit, userVars, connVars
  <2> QED
    BY <1>0, <2>1, Zenon DEF FiniProgress
<1>4. ASSUME NEW c \in Conns, RecvNext(c) PROVE FiniProgress'
  <2>1. UNCHANGED <<fd, sendp, sintr, rintr>>
    BY <1>4, Zenon DEF RecvNext, RecvWake, RecvMore, RecvInterrupted, connVars
  <2>2. ASSUME NEW r, Wake(r) PROVE opc # "use" => \A u \in Users : upc'[u] \in Returned
    BY <1>0, <2>2, SMTT(30) DEF Wake, FiniProgress, Returned
  <2>3. ASSUME NEW r, Parse(c, r) \/ ParseFails(c, r)
        PROVE  /\ recvp' = recvp \/ recvp' = 0
               /\ opc # "use" => \A u \in Users : upc'[u] \in Returned
    BY <1>0, <2>2, <2>3, ZenonT(60) DEF Parse, ParseAll, ParsePart, ParseFails, RecvExit, FiniProgress
  <2>4. /\ recvp' = recvp \/ recvp' = 0
        /\ opc # "use" => \A u \in Users : upc'[u] \in Returned
    BY <1>0, <1>4, <2>3, Zenon DEF RecvNext, RecvWake, RecvMore, RecvInterrupted, FiniProgress
  <2> QED
    BY <1>0, <2>1, <2>4, Zenon DEF FiniProgress
<1> QED
  BY <1>1, <1>2, <1>3, <1>4, Zenon

LEMMA ClientInvNext == ClientInv /\ [Next]_vars => ClientInv'
<1> SUFFICES ASSUME ClientInv, [Next]_vars PROVE WorkerInv' /\ FiniProgress'
  BY SemaInvNext, Zenon DEF ClientInv
<1>1. ASSUME UNCHANGED <<upc, connVars, workVars, cut>> PROVE WorkerInv'
  BY <1>1, Zenon DEF ClientInv, WorkerInv, WorkerTypes, WorkersAreKnown, CloseProgress, Alive,
              connVars, workVars
<1>2. CASE UNCHANGED vars \/ ((Gc \/ PeerNext) /\ UNCHANGED opc)
  <2>1. UNCHANGED <<upc, connVars, workVars, cut, opc>>
    BY <1>2, Zenon DEF vars, userVars, Gc, PeerNext, Respond, RespondPartly, PeerClose, Answer
  <2> QED
    BY <1>1, <2>1, OthersFini, Zenon
<1>3. ASSUME NEW u \in Users, UserNext(u) \/ Interrupt(u), UNCHANGED opc
      PROVE  WorkerInv' /\ FiniProgress'
  BY <1>3, UserKeepsWorkers, OthersFini, Zenon
<1>4. ASSUME NEW c \in Conns, SendNext(c) \/ RecvNext(c), UNCHANGED opc
      PROVE  WorkerInv' /\ FiniProgress'
  BY <1>4, SendKeepsWorkers, RecvKeepsWorkers, OthersFini, Zenon
<1>5. CASE Fini \/ Closer
  BY <1>5, FiniKeeps, Zenon
<1> QED
  BY <1>2, <1>3, <1>4, <1>5, Zenon DEF Next

\* For any number of threads and connections, and any interleaving of workers
\* ending with threads closing and connecting, conn->send_thread and
\* conn->recv_thread name exactly the workers that are alive, as long as no thread
\* was interrupted while it joined one.
THEOREM PointersAreRight == Spec => []WorkersAreKnown
<1>1. Init => ClientInv
  BY SemaInvInit, WorkerInvInit, Zenon DEF ClientInv, FiniProgress, Init
<1>2. ClientInv => WorkersAreKnown
  BY Zenon DEF ClientInv, WorkerInv
<1> QED
  BY <1>1, <1>2, ClientInvNext, PTL DEF Spec

\* When mnhttpc_fini() frees a connection its socket is closed, for any number of
\* threads and whatever was interrupted; and none of its workers is left, unless the
\* wait for one of them was interrupted.
THEOREM FreedConnectionIsQuiet == Spec => []FreedIsQuiet
<1>1. Init => ClientInv
  BY SemaInvInit, WorkerInvInit, Zenon DEF ClientInv, FiniProgress, Init
<1>2. ClientInv => FreedIsQuiet
  BY DEF ClientInv, WorkerInv, WorkersAreKnown, FiniProgress, FreedIsQuiet, Conns
<1> QED
  BY <1>1, <1>2, ClientInvNext, PTL DEF Spec

-----------------------------------------------------------------------------
(* What is on the connection.                                              *)

\* The types that are not in WorkerTypes and SemaInv.
RequestTypes ==
    /\ resp \in [Users -> Users \cup {NoOne, Failed}]
    /\ queue \in Seq(Users)
    /\ cur \in [Conns -> Users \cup {NoOne}]
    /\ sintr \subseteq 1 .. nconn /\ rintr \subseteq 1 .. nconn
    /\ fp \in {"none", "fd", "ssl"} /\ io \in {"fd", "ssl"}
    /\ crashed \in BOOLEAN

StreamTypes ==
    /\ out \in Seq(Unit) /\ inbuf \in Seq(Token)
    /\ topeer \in Seq(Unit) /\ chan \in Seq(Token)
    /\ closed \in BOOLEAN

\* OneRequestInFlight made inductive: no request is twice in the queue, with two
\* workers, or in the queue and with one, and only a worker that parses has one.
FlightInv ==
    /\ \A i, j \in 1 .. Len(queue) : queue[i] = queue[j] => i = j
    /\ \A i \in 1 .. Len(queue), c \in Conns : queue[i] # cur[c]
    /\ \A c, d \in Conns : cur[c] = cur[d] /\ cur[c] # NoOne => c = d
    /\ \A c \in Conns : cur[c] # NoOne => rpc[c] = "parse"
    /\ \A r \in InFlight :
          upc[r] = "interrupted" \/ (sema = r /\ upc[r] = "waiting")

RequestInv == ClientInv /\ RequestTypes /\ StreamTypes /\ FlightInv

-----------------------------------------------------------------------------
(* Sequences: what is taken from the front of one, and what is left.       *)

LEMMA CutTypes ==
    ASSUME NEW S, NEW s \in Seq(S), NEW k \in 1 .. Len(s)
    PROVE  /\ SubSeq(s, 1, k) \in Seq(S) /\ Len(SubSeq(s, 1, k)) = k
           /\ SubSeq(s, 1, k)[1] = s[1]
           /\ SubSeq(s, k + 1, Len(s)) \in Seq(S)
<1> DEFINE lo == k + 1
           hi == Len(s)
<1>1. \A i \in 1 .. k : i \in 1 .. Len(s)
  OBVIOUS
<1>2. /\ SubSeq(s, 1, k) \in Seq(S)
      /\ Len(SubSeq(s, 1, k)) = IF 1 <= k THEN k - 1 + 1 ELSE 0
      /\ \A i \in 1 .. k - 1 + 1 : SubSeq(s, 1, k)[i] = s[1 + i - 1]
  BY <1>1, SMTT(30)
<1>3. lo \in Int /\ hi \in Int /\ \A i \in lo .. hi : i \in 1 .. Len(s)
  OBVIOUS
<1> HIDE DEF lo, hi
<1>4. SubSeq(s, lo, hi) \in Seq(S)
  BY <1>3, SMTT(30)
<1> QED
  BY <1>2, <1>4 DEF lo, hi

LEMMA EmptyType == ASSUME NEW S PROVE <<>> \in Seq(S)
  OBVIOUS

LEMMA RequestType ==
    ASSUME NEW u \in Users
    PROVE  Request(u) \in Seq(Unit) /\ Request(u)[1] \in Unit
  BY DEF Request, Unit

-----------------------------------------------------------------------------
(* The types.                                                              *)

\* A thread that closes interrupts a worker that a pointer names.
LEMMA InterruptKnown ==
    ASSUME NEW n \in Nat, NEW I \in SUBSET (1 .. n), NEW c \in {0, n}, c # 0
    PROVE  I \cup {c} \subseteq 1 .. n
  OBVIOUS

LEMMA UserKeepsTypes ==
    ASSUME RequestInv, NEW u \in Users, UserNext(u) \/ Interrupt(u)
    PROVE  RequestTypes' /\ StreamTypes'
<1> USE ClientAssumption
<1>0. RequestTypes /\ StreamTypes /\ WorkerTypes /\ CloseProgress(u)
  BY Zenon DEF RequestInv, ClientInv, WorkerInv
<1>1. ASSUME NEW w, WriteRequest(u, w)
      PROVE  queue' \in Seq(Users) /\ out' \in Seq(Unit)
  <2>1. queue \in Seq(Users) /\ out \in Seq(Unit)
    BY <1>0, Zenon DEF RequestTypes, StreamTypes
  <2>2. Append(queue, u) \in Seq(Users) /\ Append(out, Request(u)[1]) \in Seq(Unit)
    BY <2>1, RequestType
  <2>3. out \o Request(u) \in Seq(Unit)
    BY <2>1, RequestType
  <2> QED
    BY <1>1, <2>1, <2>2, <2>3, Zenon DEF WriteRequest, Submit, NoMemory
<1>2. CASE AcquireConnected(u)
  BY <1>0, <1>1, <1>2, Zenon DEF AcquireConnected, RequestTypes, StreamTypes, connVars, netVars
<1>3. CASE AcquireReconnect(u) \/ JoinSend(u) \/ JoinRecv(u)
  <2>1. /\ sintr' \subseteq 1 .. nconn /\ rintr' \subseteq 1 .. nconn
        /\ fp' \in {"none", "fd", "ssl"}
    <3>1. ASSUME CloseRecv(u)
          PROVE  rintr' \subseteq 1 .. nconn /\ fp' \in {"none", "fd", "ssl"}
      <4>1. recvp # 0 => rintr \cup {recvp} \subseteq 1 .. nconn
        BY <1>0, InterruptKnown, Zenon DEF RequestTypes, WorkerTypes
      <4> QED
        BY <1>0, <3>1, <4>1, Zenon DEF CloseRecv, RequestTypes
    <3>2. CASE AcquireReconnect(u)
      BY <1>0, <3>1, <3>2, InterruptKnown, ZenonT(60) DEF AcquireReconnect, RequestTypes, WorkerTypes
    <3>3. CASE JoinSend(u) \/ JoinRecv(u)
      BY <1>0, <3>1, <3>3, ZenonT(60) DEF JoinSend, JoinRecv, RequestTypes
    <3> QED
      BY <1>3, <3>2, <3>3, Zenon
  <2>2. UNCHANGED <<resp, queue, cur, nconn, io, crashed, out, inbuf, topeer, chan, closed>>
    BY <1>3, Zenon DEF AcquireReconnect, JoinSend, JoinRecv, netVars
  <2> QED
    BY <1>0, <2>1, <2>2, ZenonT(60) DEF RequestTypes, StreamTypes
<1>5. CASE ConnectFails(u) \/ SslInitFails(u)
  BY <1>0, <1>5, Zenon DEF ConnectFails, SslInitFails, RequestTypes, StreamTypes, connVars, workVars, netVars
<1>6. CASE Connect(u)
  <2>0. nconn \in Nat /\ nconn' = nconn + 1
    BY <1>0, <1>6, Zenon DEF Connect, WorkerTypes
  <2>1. 1 .. nconn \subseteq 1 .. nconn'
    BY <2>0
  <2>2. RequestTypes'
    BY <1>0, <1>6, <2>1, ZenonT(60) DEF Connect, RequestTypes, workVars
  <2>3. StreamTypes'
    BY <1>0, <1>6, EmptyType, ZenonT(60) DEF Connect, StreamTypes
  <2> QED
    BY <2>2, <2>3, Zenon
<1>7. CASE SslInit(u)
  BY <1>0, <1>1, <1>7, ZenonT(60) DEF SslInit, RequestTypes, StreamTypes, netVars
<1>8. CASE Resume(u) \/ Interrupt(u)
  BY <1>0, <1>8, Zenon DEF Resume, Interrupt, RequestTypes, StreamTypes, connVars, workVars, netVars
<1> QED
  BY <1>2, <1>3, <1>5, <1>6, <1>7, <1>8, Zenon DEF UserNext

LEMMA SendKeepsTypes ==
    ASSUME RequestInv, NEW c \in Conns, SendNext(c)
    PROVE  RequestTypes' /\ StreamTypes'
<1>0. RequestTypes /\ StreamTypes
  BY Zenon DEF RequestInv
<1>1. CASE SendWrite(c)
  <2>1. PICK k \in 1 .. Len(out) :
           /\ topeer' = IF closed THEN topeer ELSE topeer \o SubSeq(out, 1, k)
           /\ out' = SubSeq(out, k + 1, Len(out))
    BY <1>1, Zenon DEF SendWrite, Unsent
  <2>2. SubSeq(out, 1, k) \in Seq(Unit) /\ SubSeq(out, k + 1, Len(out)) \in Seq(Unit)
    BY <1>0, CutTypes, Zenon DEF StreamTypes
  <2> QED
    BY <1>0, <1>1, <2>1, <2>2 DEF SendWrite, RequestTypes, StreamTypes, userVars, connVars
<1>2. CASE SendIdle(c) \/ SendFails(c)
  BY <1>0, <1>2, Zenon DEF SendIdle, SendFails, RequestTypes, StreamTypes, userVars, connVars, netVars
<1> QED
  BY <1>1, <1>2, Zenon DEF SendNext

\* What parsing for request r does to the types; crashed' is a comparison.
LEMMA ParseKeepsTypes ==
    ASSUME RequestTypes, StreamTypes, NEW c \in Conns, NEW r \in Users \cup {NoOne},
           Parse(c, r)
    PROVE  /\ resp' \in [Users -> Users \cup {NoOne, Failed}]
           /\ cur' \in [Conns -> Users \cup {NoOne}]
           /\ crashed' \in BOOLEAN
           /\ inbuf' \in Seq(Token) /\ chan' \in Seq(Token)
<1>1. ASSUME NEW buf \in Seq(Token), ParseAll(c, r, buf) \/ ParsePart(c, r, buf)
      PROVE  /\ resp' \in [Users -> Users \cup {NoOne, Failed}]
             /\ cur' \in [Conns -> Users \cup {NoOne}]
             /\ crashed' \in BOOLEAN
             /\ inbuf' \in Seq(Token)
  <2>0. buf # <<>>
    BY <1>1, Zenon DEF ParseAll, ParsePart
  <2>1. Head(buf) \in Token /\ Tail(buf) \in Seq(Token)
    BY <2>0
  <2>3. Head(buf).r \in Users
    BY <2>1, Zenon DEF Token
  <2>2. crashed' \in BOOLEAN
    BY <1>1, Zenon DEF ParseAll, ParsePart
  <2> QED
    BY <1>1, <2>1, <2>2, <2>3, Zenon DEF ParseAll, ParsePart, Receives, RequestTypes
<1>2. ASSUME ParseFails(c, r)
      PROVE  /\ resp' \in [Users -> Users \cup {NoOne, Failed}]
             /\ cur' \in [Conns -> Users \cup {NoOne}]
             /\ UNCHANGED <<inbuf, crashed>>
  BY <1>2, Zenon DEF ParseFails, Receives, RecvExit, RequestTypes
<1>3. CASE inbuf # <<>>
  BY <1>1, <1>3, Zenon DEF Parse, StreamTypes
<1>4. ASSUME NEW k \in 1 .. Len(chan),
             \/ ParseAll(c, r, SubSeq(chan, 1, k))
             \/ ParsePart(c, r, SubSeq(chan, 1, k)),
             chan' = SubSeq(chan, k + 1, Len(chan))
      PROVE  /\ resp' \in [Users -> Users \cup {NoOne, Failed}]
             /\ cur' \in [Conns -> Users \cup {NoOne}]
             /\ crashed' \in BOOLEAN
             /\ inbuf' \in Seq(Token) /\ chan' \in Seq(Token)
  <2>1. SubSeq(chan, 1, k) \in Seq(Token) /\ SubSeq(chan, k + 1, Len(chan)) \in Seq(Token)
    BY CutTypes, Zenon DEF StreamTypes
  <2> QED
    BY <1>1, <1>4, <2>1, Zenon
<1>5. CASE ParseFails(c, r) /\ UNCHANGED chan
  BY <1>2, <1>5, Zenon DEF RequestTypes, StreamTypes
<1> QED
  BY <1>3, <1>4, <1>5, Zenon DEF Parse

LEMMA RecvKeepsTypes ==
    ASSUME RequestInv, NEW c \in Conns, RecvNext(c)
    PROVE  RequestTypes' /\ StreamTypes'
<1>0. RequestTypes /\ StreamTypes
  BY Zenon DEF RequestInv
<1>1. CASE RecvWake(c)
  <2> DEFINE r == IF queue = <<>> THEN NoOne ELSE Head(queue)
  <2>1. r \in Users \cup {NoOne} /\ queue' \in Seq(Users)
    BY <1>0, <1>1 DEF RecvWake, RequestTypes
  <2>2. CASE ReadYields
    BY <1>0, <1>1, <2>1, <2>2, Zenon DEF RecvWake, RequestTypes, StreamTypes, connVars
  <2>3. CASE ~ReadYields
    <3>1. Parse(c, r)
      BY <1>1, <2>3, Zenon DEF RecvWake
    <3> HIDE DEF r
    <3> QED
      BY <1>0, <1>1, <2>1, <3>1, ParseKeepsTypes, Zenon DEF RecvWake, RequestTypes, StreamTypes, connVars
  <2> QED
    BY <2>2, <2>3, Zenon
<1>2. CASE RecvMore(c)
  <2>1. cur[c] \in Users \cup {NoOne}
    BY <1>0, Zenon DEF RequestTypes
  <2> QED
    BY <1>0, <1>2, <2>1, ParseKeepsTypes, Zenon DEF RecvMore, RequestTypes, StreamTypes, connVars
<1>3. CASE RecvInterrupted(c)
  BY <1>0, <1>3, Zenon DEF RecvInterrupted, ParseFails, Receives, RecvExit, RequestTypes, StreamTypes,
                    connVars, netVars
<1> QED
  BY <1>1, <1>2, <1>3, Zenon DEF RecvNext

LEMMA PeerKeepsTypes ==
    ASSUME RequestInv, PeerNext
    PROVE  RequestTypes' /\ StreamTypes'
<1>0. RequestTypes /\ StreamTypes
  BY Zenon DEF RequestInv
<1>1. ASSUME NEW full \in BOOLEAN, Answer(full), Whole
      PROVE  topeer' \in Seq(Unit) /\ chan' \in Seq(Token)
  <2>1. Len(topeer) >= 2 /\ topeer \in Seq(Unit)
    BY <1>0, <1>1, Zenon DEF Whole, StreamTypes
  <2>2. SubSeq(topeer, 3, Len(topeer)) \in Seq(Unit)
    BY <2>1, CutTypes
  <2>3. topeer[1] \in Unit
    BY <2>1
  <2>4. [r |-> topeer[1].r, full |-> full] \in Token
    BY <2>3, Zenon DEF Unit, Token
  <2> QED
    BY <1>0, <1>1, <2>2, <2>4 DEF Answer, StreamTypes
<1>2. CASE Respond
  BY <1>0, <1>1, <1>2, Zenon DEF Respond, Answer, RequestTypes, StreamTypes, userVars, connVars, workVars
<1>3. CASE RespondPartly
  BY <1>0, <1>1, <1>3, Zenon DEF RespondPartly, Answer, RequestTypes, StreamTypes, userVars, connVars, workVars
<1>4. CASE PeerClose
  BY <1>0, <1>4, Zenon DEF PeerClose, RequestTypes, StreamTypes, userVars, connVars, workVars
<1> QED
  BY <1>2, <1>3, <1>4, Zenon DEF PeerNext

LEMMA FiniKeepsTypes ==
    ASSUME RequestInv, Fini \/ Closer
    PROVE  RequestTypes' /\ StreamTypes'
<1>0. RequestTypes /\ StreamTypes /\ WorkerTypes
  BY Zenon DEF RequestInv, ClientInv, WorkerInv
<1>1. /\ sintr' \subseteq 1 .. nconn /\ rintr' \subseteq 1 .. nconn
      /\ fp' \in {"none", "fd", "ssl"}
  BY <1>0, InterruptKnown, ZenonT(60) DEF Fini, Closer, FiniJoinSend, FiniJoinRecv, FiniRecv, RequestTypes, WorkerTypes
<1>2. /\ queue' \in Seq(Users) /\ out' \in Seq(Unit) /\ inbuf' \in Seq(Token)
      /\ UNCHANGED <<resp, cur, nconn, io, crashed, topeer, chan, closed>>
  BY <1>0, EmptyType, Zenon DEF Fini, Closer, FiniJoinSend, FiniJoinRecv, FiniRecv, RequestTypes, StreamTypes,
                         userVars, netVars
<1> QED
  BY <1>0, <1>1, <1>2, Zenon DEF RequestTypes, StreamTypes

-----------------------------------------------------------------------------
(* The requests of a connection.                                           *)

\* A request is in flight because it is queued, or because a worker has it.
LEMMA InFlightIs ==
    ASSUME NEW r
    PROVE  r \in InFlight <=> \/ \E i \in 1 .. Len(queue) : queue[i] = r
                              \/ r # NoOne /\ \E c \in Conns : cur[c] = r
  BY Zenon DEF InFlight, Queued, Dequeued

LEMMA InFlightAreUsers == ASSUME RequestTypes PROVE InFlight \subseteq Users
  BY InFlightIs DEF RequestTypes

\* A thread that moves in finalize has no request in flight, and nobody waits.
LEMMA MoverIsAlone ==
    ASSUME RequestInv, NEW u \in Users, UserNext(u)
    PROVE  u \notin InFlight /\ \A r \in InFlight : upc[r] = "interrupted"
<1>1. upc[u] \notin {"waiting", "interrupted"} /\ (sema = NoOne \/ sema = u)
  BY Zenon DEF UserNext, AcquireConnected, AcquireReconnect, JoinSend, JoinRecv, ConnectFails, Connect,
         SslInitFails, SslInit, Resume, RequestInv, ClientInv, SemaInv, OneInside, Returned
<1>2. InFlight \subseteq Users
  BY InFlightAreUsers, Zenon DEF RequestInv
<1>3. \A r \in InFlight : upc[r] = "interrupted" \/ (sema = r /\ upc[r] = "waiting")
  BY Zenon, ZenonT(60) DEF RequestInv, FlightInv
<1> QED
  BY <1>1, <1>2, <1>3, ClientAssumption, Zenon

\* What leaves the queue and the workers alone keeps FlightInv when it leaves the
\* threads alone whose requests are in flight.
LEMMA FlightSame ==
    ASSUME FlightInv, UNCHANGED <<queue, cur>>,
           \A c \in Conns : cur[c] # NoOne => rpc'[c] = rpc[c],
           \A r \in InFlight : \/ upc'[r] = "interrupted"
                               \/ upc'[r] = upc[r] /\ sema' = sema
    PROVE  FlightInv'
<1>1. InFlight' = InFlight
  BY Zenon DEF InFlight, Queued, Dequeued
<1> QED
  BY <1>1, ZenonT(60) DEF FlightInv

LEMMA SubmitFlight ==
    ASSUME RequestInv, NEW u \in Users, NEW w, Submit(u, w), UserNext(u),
           UNCHANGED cur,
           \A c \in Conns : cur[c] # NoOne => rpc'[c] = rpc[c]
    PROVE  FlightInv'
<1>0. /\ u \notin InFlight /\ \A r \in InFlight : upc[r] = "interrupted"
      /\ queue \in Seq(Users) /\ upc \in [Users -> UserPcs] /\ FlightInv /\ InFlight \subseteq Users
  BY MoverIsAlone, InFlightAreUsers, ZenonT(60) DEF RequestInv, RequestTypes, ClientInv, SemaInv
<1>1. /\ Len(queue') = Len(queue) + 1 /\ queue'[Len(queue) + 1] = u
      /\ \A i \in 1 .. Len(queue) : queue'[i] = queue[i]
  BY <1>0 DEF Submit
<1>2. \A i \in 1 .. Len(queue) : queue[i] # u
  BY <1>0, InFlightIs, Zenon
<1>3. \A c \in Conns : cur[c] # u
  BY <1>0, InFlightIs, ClientAssumption, Zenon
<1>4. \A i, j \in 1 .. Len(queue') : queue'[i] = queue'[j] => i = j
  <2>1. SUFFICES ASSUME NEW i \in 1 .. Len(queue) + 1, NEW j \in 1 .. Len(queue) + 1,
                        queue'[i] = queue'[j]
                 PROVE  i = j
    BY <1>1, Zenon
  <2>2. Len(queue) \in Nat
    BY <1>0
  <2> QED
    BY <1>0, <1>1, <1>2, <2>1, <2>2 DEF FlightInv
<1>5. \A i \in 1 .. Len(queue'), c \in Conns : queue'[i] # cur'[c]
  <2>1. SUFFICES ASSUME NEW i \in 1 .. Len(queue) + 1, NEW c \in Conns
                 PROVE  queue'[i] # cur[c]
    BY <1>1, Zenon
  <2>2. Len(queue) \in Nat
    BY <1>0
  <2> QED
    BY <1>0, <1>1, <1>3, <2>1, <2>2 DEF FlightInv
<1>6. ASSUME NEW r \in InFlight' PROVE r = u \/ r \in InFlight
  <2>1. \/ \E i \in 1 .. Len(queue') : queue'[i] = r
        \/ r # NoOne /\ \E c \in Conns : cur[c] = r
    BY <1>6, Zenon DEF InFlight, Queued, Dequeued
  <2>2. \A i \in 1 .. Len(queue') : queue'[i] = u \/ queue'[i] \in InFlight
    <3>1. SUFFICES ASSUME NEW i \in 1 .. Len(queue) + 1 PROVE queue'[i] = u \/ queue'[i] \in InFlight
      BY <1>1, Zenon
    <3>2. Len(queue) \in Nat
      BY <1>0
    <3>3. i = Len(queue) + 1 \/ i \in 1 .. Len(queue)
      BY <3>2
    <3> QED
      BY <1>1, <3>3, InFlightIs, Zenon
  <2> QED
    BY <2>1, <2>2, InFlightIs, Zenon
<1>7. \A r \in InFlight' : upc'[r] = "interrupted" \/ (sema' = r /\ upc'[r] = "waiting")
  BY <1>0, <1>6, Zenon DEF Submit
<1> QED
  BY <1>0, <1>4, <1>5, <1>7, Zenon DEF FlightInv

LEMMA UserKeepsFlight ==
    ASSUME RequestInv, NEW u \in Users, UserNext(u) \/ Interrupt(u)
    PROVE  FlightInv'
<1>0. /\ FlightInv /\ upc \in [Users -> UserPcs] /\ InFlight \subseteq Users
      /\ WorkerTypes /\ CloseProgress(u)
  BY InFlightAreUsers, Zenon DEF RequestInv, ClientInv, WorkerInv, SemaInv
<1>1. CASE Interrupt(u)
  <2>1. UNCHANGED <<queue, cur, rpc>>
    BY <1>1, Zenon DEF Interrupt, workVars
  <2>2. ASSUME NEW r \in InFlight
        PROVE  \/ upc'[r] = "interrupted"
               \/ upc'[r] = upc[r] /\ sema' = sema
    <3>1. CASE r = u
      BY <1>0, <1>1, <3>1, Zenon DEF Interrupt
    <3>2. CASE r # u
      <4>1. upc[u] = "waiting" => sema = u
        BY Zenon DEF RequestInv, ClientInv, SemaInv, OneInside, Returned
      <4> QED
        BY <1>0, <1>1, <3>2, <4>1, Zenon DEF Interrupt, FlightInv
    <3> QED
      BY <3>1, <3>2, Zenon
  <2> QED
    BY <1>0, <2>1, <2>2, FlightSame, Zenon
<1>2. CASE UserNext(u)
  <2>0. u \notin InFlight /\ \A r \in InFlight : upc[r] = "interrupted"
    BY <1>2, MoverIsAlone, Zenon
  <2>1. ASSUME UNCHANGED <<queue, cur>>, NEW pc, upc' = [upc EXCEPT ![u] = pc],
               \A c \in Conns : cur[c] # NoOne => rpc'[c] = rpc[c]
        PROVE  FlightInv'
    BY <1>0, <2>0, <2>1, FlightSame, Zenon
  <2>2. ASSUME NEW w, NoMemory(u, w), UNCHANGED cur,
               \A c \in Conns : cur[c] # NoOne => rpc'[c] = rpc[c]
        PROVE  FlightInv'
    BY <2>1, <2>2, Zenon DEF NoMemory, GiveUp
  <2>3. CASE AcquireConnected(u)
    <3>1. PICK w : WriteRequest(u, w)
      BY <2>3, Zenon DEF AcquireConnected
    <3>2. UNCHANGED <<cur, rpc>>
      BY <2>3, Zenon DEF AcquireConnected
    <3> QED
      BY <1>2, <2>2, <3>1, <3>2, SubmitFlight, Zenon DEF WriteRequest
  <2>4. CASE SslInit(u)
    <3>1. PICK w : WriteRequest(u, w)
      BY <2>4, Zenon DEF SslInit
    <3>2. \A c \in Conns : cur[c] # NoOne => rpc'[c] = rpc[c]
      BY <1>0, <2>4, Zenon DEF SslInit, CloseProgress, WorkerTypes, FlightInv
    <3>3. UNCHANGED cur
      BY <2>4, Zenon DEF SslInit
    <3> QED
      BY <1>2, <2>2, <3>1, <3>2, <3>3, SubmitFlight, Zenon DEF WriteRequest
  <2>5. CASE AcquireReconnect(u) \/ JoinSend(u) \/ JoinRecv(u)
    BY <2>1, <2>5, Zenon DEF AcquireReconnect, JoinSend, JoinRecv, CloseRecv
  <2>6. CASE ConnectFails(u) \/ Connect(u) \/ SslInitFails(u) \/ Resume(u)
    BY <2>1, <2>6, Zenon DEF ConnectFails, Connect, SslInitFails, Resume, GiveUp, workVars
  <2> QED
    BY <1>2, <2>3, <2>4, <2>5, <2>6, Zenon DEF UserNext
<1> QED
  BY <1>1, <1>2, Zenon

\* A receive worker takes the first request from the queue, or has taken it; what
\* remains there was there before, once, and is not the one that was taken.
Takes(c, r) ==
    \/ cur[c] = r /\ queue' = queue
    \/ cur[c] = NoOne /\ queue # <<>> /\ r = Head(queue) /\ queue' = Tail(queue)

LEMMA QueueShrinks ==
    ASSUME RequestInv, NEW c \in Conns, NEW r, Takes(c, r)
    PROVE  /\ \A i, j \in 1 .. Len(queue') : queue'[i] = queue'[j] => i = j
           /\ \A i \in 1 .. Len(queue') : queue'[i] \in InFlight /\ queue'[i] # r
           /\ \A i \in 1 .. Len(queue'), d \in Conns : queue'[i] # cur[d]
           /\ r # NoOne => r \in InFlight
           /\ r # NoOne => \A d \in Conns : d # c => cur[d] # r
<1>0. /\ queue \in Seq(Users) /\ FlightInv /\ cur \in [Conns -> Users \cup {NoOne}]
      /\ Len(queue) \in Nat /\ NoOne \notin Users
  BY ClientAssumption DEF RequestInv, RequestTypes
<1>1. CASE cur[c] = r /\ queue' = queue
  BY <1>0, <1>1, InFlightIs DEF FlightInv
<1>2. CASE cur[c] = NoOne /\ queue # <<>> /\ r = Head(queue) /\ queue' = Tail(queue)
  <2>1. /\ r = queue[1] /\ 1 \in 1 .. Len(queue) /\ Len(queue') = Len(queue) - 1
        /\ \A i \in 1 .. Len(queue') : queue'[i] = queue[i + 1] /\ i + 1 \in 1 .. Len(queue)
    BY <1>0, <1>2
  <2>2. \A i, j \in 1 .. Len(queue') : queue'[i] = queue'[j] => i = j
    <3>1. SUFFICES ASSUME NEW i \in 1 .. Len(queue'), NEW j \in 1 .. Len(queue'),
                          queue'[i] = queue'[j]
                   PROVE  i = j
      BY Zenon
    <3>2. i + 1 = j + 1
      BY <1>0, <2>1, <3>1 DEF FlightInv
    <3> QED
      BY <3>2
  <2>3. \A i \in 1 .. Len(queue') : queue'[i] \in InFlight
    BY <2>1, InFlightIs, Zenon
  <2>4. \A i \in 1 .. Len(queue') : queue'[i] # r
    <3>1. SUFFICES ASSUME NEW i \in 1 .. Len(queue'), queue[i + 1] = queue[1]
                   PROVE  FALSE
      BY <2>1, Zenon
    <3>2. i + 1 = 1
      BY <1>0, <2>1, <3>1, Zenon DEF FlightInv
    <3> QED
      BY <3>2
  <2>5. \A i \in 1 .. Len(queue'), d \in Conns : queue'[i] # cur[d]
    BY <1>0, <2>1 DEF FlightInv
  <2>6. r \in InFlight /\ \A d \in Conns : cur[d] # r
    BY <1>0, <2>1, InFlightIs DEF FlightInv
  <2> QED
    BY <2>2, <2>3, <2>4, <2>5, <2>6, Zenon
<1> QED
  BY <1>1, <1>2, Zenon DEF Takes

\* The worker keeps the request it has taken, or is done with it: then the only
\* thread that may have moved is the one whose request it was.
LEMMA TakesKeepsFlight ==
    ASSUME RequestInv, NEW c \in Conns, NEW r \in Users \cup {NoOne}, Takes(c, r), UNCHANGED sema,
           NEW pc, rpc' = [rpc EXCEPT ![c] = pc],
           NEW q, cur' = [cur EXCEPT ![c] = q],
           \/ q = r /\ pc = "parse" /\ UNCHANGED upc
           \/ q = NoOne /\ \A u \in Users : u # r => upc'[u] = upc[u]
    PROVE  FlightInv'
<1>0. /\ FlightInv /\ cur \in [Conns -> Users \cup {NoOne}] /\ rpc \in [Conns -> {"none", "wait", "parse", "dead"}]
      /\ InFlight \subseteq Users /\ NoOne \notin Users
  BY InFlightAreUsers, ClientAssumption, Zenon DEF RequestInv, RequestTypes, ClientInv, WorkerInv, WorkerTypes
<1>1. /\ \A i, j \in 1 .. Len(queue') : queue'[i] = queue'[j] => i = j
      /\ \A i \in 1 .. Len(queue') : queue'[i] \in InFlight /\ queue'[i] # r
      /\ \A i \in 1 .. Len(queue'), d \in Conns : queue'[i] # cur[d]
      /\ r # NoOne => r \in InFlight
      /\ r # NoOne => \A d \in Conns : d # c => cur[d] # r
  BY QueueShrinks, Zenon
<1>2. /\ cur'[c] = q /\ rpc'[c] = pc
      /\ \A d \in Conns : d # c => cur'[d] = cur[d] /\ rpc'[d] = rpc[d]
  BY <1>0, Zenon
<1>3. \A i \in 1 .. Len(queue'), d \in Conns : queue'[i] # cur'[d]
  BY <1>0, <1>1, <1>2
<1>4. \A d \in Conns : cur'[d] # NoOne => rpc'[d] = "parse"
  BY <1>0, <1>2, Zenon DEF FlightInv
<1>5. ASSUME NEW x \in InFlight'
      PROVE  upc'[x] = "interrupted" \/ (sema' = x /\ upc'[x] = "waiting")
  <2>1. \/ \E i \in 1 .. Len(queue') : queue'[i] = x
        \/ x # NoOne /\ \E d \in Conns : cur'[d] = x
    BY <1>5, Zenon DEF InFlight, Queued, Dequeued
  <2>2. x \in InFlight /\ (x = r => q = r)
    BY <1>0, <1>1, <1>2, <2>1, InFlightIs
  <2> QED
    BY <1>0, <2>2 DEF FlightInv
<1>6. \A d, e \in Conns : cur'[d] = cur'[e] /\ cur'[d] # NoOne => d = e
  <2> SUFFICES ASSUME NEW d \in Conns, NEW e \in Conns, cur'[d] = cur'[e], cur'[d] # NoOne, d # e
               PROVE  FALSE
    BY Zenon
  <2>1. d # c /\ e # c => cur[d] = cur[e] /\ cur[d] # NoOne
    BY <1>2, Zenon
  <2>2. q # NoOne => q = r
    BY Zenon
  <2>3. CASE d = c
    BY <1>1, <1>2, <2>2, <2>3
  <2>4. CASE e = c
    BY <1>1, <1>2, <2>2, <2>4, Zenon
  <2> QED
    BY <1>0, <2>1, <2>3, <2>4, Zenon DEF FlightInv
<1> QED
  BY <1>1, <1>3, <1>4, <1>5, <1>6, Zenon DEF FlightInv

LEMMA RecvKeepsFlight ==
    ASSUME RequestInv, NEW c \in Conns, RecvNext(c)
    PROVE  FlightInv'
<1>0. FlightInv /\ RequestTypes
  BY Zenon DEF RequestInv
<1>1. ASSUME NEW r, Wake(r) PROVE \A u \in Users : u # r => upc'[u] = upc[u]
  BY <1>1, Zenon DEF Wake
<1>2. ASSUME NEW r \in Users \cup {NoOne}, Takes(c, r), UNCHANGED sema, Parse(c, r) \/ ParseFails(c, r)
      PROVE  FlightInv'
  <2>1. ASSUME NEW buf, ParseAll(c, r, buf) PROVE FlightInv'
    BY <1>1, <1>2, <2>1, TakesKeepsFlight, Zenon DEF ParseAll
  <2>2. ASSUME NEW buf, ParsePart(c, r, buf) PROVE FlightInv'
    BY <1>2, <2>2, TakesKeepsFlight, Zenon DEF ParsePart
  <2>3. ASSUME ParseFails(c, r) PROVE FlightInv'
    <3>1. /\ rpc' = [rpc EXCEPT ![c] = "dead"] /\ cur' = [cur EXCEPT ![c] = NoOne]
          /\ Wake(r)
      BY <2>3, Zenon DEF ParseFails, RecvExit
    <3> QED
      BY <1>1, <1>2, <3>1, TakesKeepsFlight, Zenon
  <2> QED
    BY <1>2, <2>1, <2>2, <2>3, Zenon DEF Parse
<1>3. CASE RecvWake(c)
  <2> DEFINE r == IF queue = <<>> THEN NoOne ELSE Head(queue)
  <2>1. cur[c] = NoOne
    BY <1>0, <1>3, Zenon DEF RecvWake, FlightInv
  <2>2. Takes(c, r) /\ r \in Users \cup {NoOne} /\ UNCHANGED sema
    BY <1>0, <1>3, <2>1 DEF RecvWake, Takes, RequestTypes
  <2>3. CASE ReadYields
    <3>1. rpc' = [rpc EXCEPT ![c] = "parse"] /\ cur' = [cur EXCEPT ![c] = r] /\ UNCHANGED upc
      BY <1>3, <2>3, Zenon DEF RecvWake
    <3> HIDE DEF r
    <3> QED
      BY <2>2, <3>1, TakesKeepsFlight, Zenon
  <2>4. CASE ~ReadYields
    <3>1. Parse(c, r)
      BY <1>3, <2>4, Zenon DEF RecvWake
    <3> HIDE DEF r
    <3> QED
      BY <1>2, <2>2, <3>1, Zenon
  <2> QED
    BY <2>3, <2>4, Zenon
<1>4. CASE RecvMore(c) \/ RecvInterrupted(c)
  <2>1. Takes(c, cur[c]) /\ cur[c] \in Users \cup {NoOne} /\ UNCHANGED sema
    BY <1>0, <1>4, Zenon DEF RecvMore, RecvInterrupted, Takes, RequestTypes
  <2> QED
    BY <1>2, <1>4, <2>1, Zenon DEF RecvMore, RecvInterrupted
<1> QED
  BY <1>3, <1>4, Zenon DEF RecvNext

\* mnhttpc_fini() destroys what is queued.
LEMMA FiniKeepsFlight ==
    ASSUME RequestInv, Fini \/ Closer
    PROVE  FlightInv'
<1>0. FlightInv
  BY Zenon DEF RequestInv
<1>1. UNCHANGED <<upc, sema, cur, rpc>>
  BY Zenon DEF Fini, Closer, FiniJoinSend, FiniJoinRecv, userVars
<1>2. CASE queue' = queue
  BY <1>0, <1>1, <1>2, FlightSame, Zenon
<1>3. CASE queue' = <<>>
  <2>1. Len(queue') = 0 /\ InFlight' \subseteq InFlight
    BY <1>1, <1>3 DEF InFlight, Queued, Dequeued
  <2>2. 1 .. Len(queue') = {}
    BY <2>1
  <2> QED
    BY <1>0, <1>1, <2>1, <2>2, Zenon DEF FlightInv
<1> QED
  BY <1>2, <1>3, Zenon DEF Fini, Closer, FiniJoinSend, FiniJoinRecv

LEMMA RequestInvInit == Init => RequestInv
<1> SUFFICES ASSUME Init PROVE RequestInv
  BY Zenon
<1>1. ClientInv
  BY SemaInvInit, WorkerInvInit, Zenon DEF ClientInv, FiniProgress, Init
<1>2. RequestTypes
  BY EmptyType, Zenon DEF Init, RequestTypes
<1>3. StreamTypes
  BY EmptyType, Zenon DEF Init, StreamTypes
<1>4. FlightInv
  BY DEF Init, FlightInv, InFlight, Queued, Dequeued
<1> QED
  BY <1>1, <1>2, <1>3, <1>4, Zenon DEF RequestInv

LEMMA RequestInvNext == RequestInv /\ [Next]_vars => RequestInv'
<1> SUFFICES ASSUME RequestInv, [Next]_vars PROVE RequestTypes' /\ StreamTypes' /\ FlightInv'
  BY ClientInvNext, Zenon DEF RequestInv
<1>0. RequestTypes /\ StreamTypes /\ FlightInv
  BY Zenon DEF RequestInv
<1>1. CASE UNCHANGED vars
  <2>1. FlightInv'
    BY <1>0, <1>1, FlightSame, Zenon DEF vars, userVars, workVars
  <2> QED
    BY <1>0, <1>1, <2>1, Zenon DEF vars, userVars, connVars, workVars, netVars, RequestTypes, StreamTypes
<1>2. ASSUME NEW u \in Users, UserNext(u) \/ Interrupt(u)
      PROVE  RequestTypes' /\ StreamTypes' /\ FlightInv'
  BY <1>2, UserKeepsTypes, UserKeepsFlight, Zenon
<1>3. ASSUME NEW c \in Conns, SendNext(c) PROVE RequestTypes' /\ StreamTypes' /\ FlightInv'
  <2>1. UNCHANGED <<queue, cur, rpc, upc, sema>>
    BY <1>3, Zenon DEF SendNext, SendWrite, SendIdle, SendFails, userVars
  <2> QED
    BY <1>0, <1>3, <2>1, FlightSame, SendKeepsTypes, Zenon
<1>4. ASSUME NEW c \in Conns, RecvNext(c) PROVE RequestTypes' /\ StreamTypes' /\ FlightInv'
  BY <1>4, RecvKeepsTypes, RecvKeepsFlight, Zenon
<1>5. CASE Gc
  <2>1. FlightInv'
    BY <1>0, <1>5, FlightSame, Zenon DEF Gc, userVars, workVars
  <2> QED
    BY <1>0, <1>5, <2>1, EmptyType, Zenon DEF Gc, userVars, connVars, workVars, netVars, RequestTypes, StreamTypes
<1>6. CASE PeerNext
  <2>1. UNCHANGED <<queue, cur, rpc, upc, sema>>
    BY <1>6, Zenon DEF PeerNext, Respond, RespondPartly, PeerClose, Answer, userVars, workVars
  <2> QED
    BY <1>0, <1>6, <2>1, FlightSame, PeerKeepsTypes, Zenon
<1>7. CASE Fini \/ Closer
  BY <1>7, FiniKeepsTypes, FiniKeepsFlight, Zenon
<1> QED
  BY <1>1, <1>2, <1>3, <1>4, <1>5, <1>6, <1>7, Zenon DEF Next

\* For any number of threads and connections, whatever the peer does, and with
\* interrupts and memory failures, every variable keeps its type: the workers that
\* mnhttpc_connection_close() and mnhttpc_fini() interrupt were spawned, the
\* descriptors are those that connect() returned, and the data in the streams is
\* that of requests and responses.
THEOREM ClientTypes == Spec => []TypeOK
<1>1. RequestInv => TypeOK
  <2> SUFFICES ASSUME RequestInv PROVE TypeOK
    BY Zenon
  <2>1. RequestTypes /\ StreamTypes /\ WorkerTypes /\ FiniProgress
    BY Zenon DEF RequestInv, ClientInv, WorkerInv
  <2>2. upc \in [Users -> UserPcs] /\ sema \in Users \cup {NoOne}
    BY Zenon DEF RequestInv, ClientInv, SemaInv
  <2>3. 1 .. nconn \subseteq Conns /\ nconn \in 0 .. MaxConnects
    BY <2>1, ClientAssumption DEF WorkerTypes, Conns
  <2>4. {fd, sendp, recvp} \subseteq 0 .. nconn
    BY <2>1 DEF WorkerTypes
  <2> QED
    BY <2>1, <2>2, <2>3, <2>4, Zenon DEF TypeOK, RequestTypes, StreamTypes, WorkerTypes, FiniProgress
<1> QED
  BY <1>1, RequestInvInit, RequestInvNext, PTL DEF Spec
=============================================================================
