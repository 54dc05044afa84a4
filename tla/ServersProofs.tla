----------------------------- MODULE ServersProofs -----------------------------
(* The servers of local_server.c, for any number of clients, threads, paths
   and starts.  *)
EXTENDS MCServers, FiniteSetTheorems, TLAPS

-----------------------------------------------------------------------------
(* mnapp_tcp_server_*(): srv->thread is the only worker that may be alive. *)

\* QuietWhenStopped made inductive.
WorkerInv ==
    /\ starts \in Nat /\ thread \in Nat
    /\ wpc \in [Starts -> {"none", "run", "accept", "cb", "dead"}]
    /\ pc \in {"init", "stopped", "end"} => thread = 0
    /\ \A w \in Starts : w # thread => Dead(w)

LEMMA WorkerInvInit == Init => WorkerInv
  BY DEF Init, WorkerInv, Dead

LEMMA WorkerInvNext == WorkerInv /\ [Next]_vars => WorkerInv'
<1> SUFFICES ASSUME WorkerInv, [Next]_vars PROVE WorkerInv'
  BY Zenon
<1> USE ServerAssumption DEF WorkerInv, Dead, Starts
<1>1. CASE Start
  BY <1>1 DEF Start
<1>2. CASE StartFails \/ Serve \/ Served \/ Stop \/ Fini \/ Reinit \/ OtherStop
  BY <1>2, Zenon DEF StartFails, Serve, Served, Stop, Fini, Reinit, OtherStop, srvVars, sockVars
<1>3. CASE Stopped \/ Finished \/ OtherStopped
  BY <1>3 DEF Stopped, Finished, OtherStopped, sockVars, Joined
<1>4. ASSUME NEW w \in Starts, Worker(w) \/ AcceptFails(w) PROVE WorkerInv'
  BY <1>4, Zenon DEF Worker, WorkerStarts, Accept, AcceptInterrupted, AcceptFails, Callback,
              CallbackFails, LoopHead, srvVars, sockVars
<1>5. CASE UNCHANGED vars \/ \E c \in Clients : ClientConnect(c)
  BY <1>5, Zenon DEF vars, ClientConnect, srvVars, sockVars
<1> QED
  BY <1>1, <1>2, <1>3, <1>4, <1>5, Zenon DEF Next, Owner

LEMMA WorkerInvQuiet == WorkerInv => QuietWhenStopped
  BY ServerAssumption DEF WorkerInv, QuietWhenStopped, Starts

\* mnthr_accept_all2() leaves out none of those that wait.
LEMMA AllAreListed ==
    ASSUME NEW S \in SUBSET Clients, IsFiniteSet(S), NEW s \in SetToSeqs(S)
    PROVE  ToSet(s) = S /\ s \in Seq(Clients)
<1> DEFINE n == Cardinality(S)
<1>1. n \in Nat
  BY FS_CardinalityType, Zenon
<1>2. s \in [1 .. n -> S] /\ \A i, j \in 1 .. n : i # j => s[i] # s[j]
  BY Zenon DEF SetToSeqs
<1>3. s \in Injection(1 .. n, S)
  BY <1>2, Zenon DEF Injection, IsInjective
<1>4. Cardinality(1 .. n) = n
  BY <1>1, FS_Interval
<1>5. s \in Surjection(1 .. n, S)
  BY <1>3, <1>4, FS_Injection, Zenon
<1>6. \A x \in S : \E i \in 1 .. n : s[i] = x
  BY <1>5, Zenon DEF Surjection
<1>7. s \in [1 .. n -> Clients]
  BY <1>2, Zenon
<1>8. s \in Seq(Clients)
  BY <1>1, <1>7
<1> QED
  BY <1>1, <1>2, <1>6, <1>8 DEF ToSet

\* One that is not the first is among the rest.
LEMMA InTail ==
    ASSUME NEW s \in Seq(Clients), NEW c \in ToSet(s), c # Head(s)
    PROVE  c \in ToSet(Tail(s)) /\ Tail(s) # <<>> /\ Tail(s) \in Seq(Clients)
<1>1. PICK i \in 1 .. Len(s) : s[i] = c
  BY DEF ToSet
<1>2. Tail(s) \in Seq(Clients) /\ Len(Tail(s)) = Len(s) - 1
  BY <1>1
<1>3. i - 1 \in 1 .. Len(Tail(s)) /\ Tail(s)[i - 1] = c
  BY <1>1
<1>4. DOMAIN Tail(s) = 1 .. Len(Tail(s))
  BY <1>2
<1>5. Len(Tail(s)) # 0
  BY <1>3
<1>6. Tail(s) # <<>>
  <2>1. Len(<<>>) = 0
    BY Zenon
  <2> QED
    BY <1>5, <2>1, Zenon
<1> QED
  BY <1>2, <1>3, <1>4, <1>6, Zenon DEF ToSet

\* AcceptedIsPassedOn made inductive.
BatchInv ==
    /\ WorkerInv
    /\ batch \in Seq(Clients)
    /\ \A w \in Starts : wpc[w] = "cb" => batch # <<>>
    /\ cl \in [Clients -> {"new", "pending", "accepted", "handled", "dropped"}]
    /\ AcceptedIsPassedOn

LEMMA BatchInvInit == Init => BatchInv
  BY WorkerInvInit DEF Init, BatchInv, Starts, AcceptedIsPassedOn

LEMMA BatchInvNext == BatchInv /\ [Next]_vars => BatchInv'
<1> SUFFICES ASSUME BatchInv, [Next]_vars PROVE BatchInv'
  BY Zenon
<1>1. WorkerInv /\ WorkerInv'
  BY WorkerInvNext, Zenon DEF BatchInv
<1> DEFINE Quiet == \A w \in Starts : wpc[w] # "cb"
<1>2. Quiet => \A c \in Clients : cl[c] # "accepted"
  BY Zenon DEF BatchInv, AcceptedIsPassedOn
<1>3. ASSUME NEW w \in Starts, wpc[w] \in {"run", "accept"} PROVE Quiet
  BY <1>1, <1>3 DEF WorkerInv, Dead
<1>4. CASE Start
  <2>1. Quiet
    BY <1>1, <1>4 DEF Start, WorkerInv, Dead, Starts
  <2> QED
    BY <1>1, <1>2, <1>4, <2>1 DEF Start, clVars, BatchInv, AcceptedIsPassedOn, WorkerInv
<1>5. CASE \/ StartFails \/ Serve \/ Served \/ Stop \/ Stopped \/ Fini \/ Finished \/ Reinit
           \/ OtherStop \/ OtherStopped \/ UNCHANGED vars
  <2>1. UNCHANGED <<wpc, clVars>>
    BY <1>5, Zenon DEF StartFails, Serve, Served, Stop, Stopped, Fini, Finished, Reinit, OtherStop,
                OtherStopped, vars
  <2> QED
    BY <1>1, <2>1, Zenon DEF clVars, BatchInv, AcceptedIsPassedOn
<1>6. ASSUME NEW w \in Starts, WorkerStarts(w) \/ AcceptFails(w) \/ AcceptInterrupted(w)
      PROVE  BatchInv'
  <2>1. Quiet /\ UNCHANGED clVars
    BY <1>3, <1>6 DEF WorkerStarts, AcceptFails, AcceptInterrupted
  <2>2. \A u \in Starts : wpc'[u] # "cb"
    BY <1>1, <1>6, <2>1 DEF WorkerStarts, AcceptFails, AcceptInterrupted, LoopHead, WorkerInv
  <2> QED
    BY <1>1, <1>2, <2>1, <2>2 DEF clVars, BatchInv, AcceptedIsPassedOn
<1>7. ASSUME NEW w \in Starts, Accept(w) PROVE BatchInv'
  <2>1. Quiet /\ Waiting \subseteq Clients
    BY <1>3, <1>7, Zenon DEF Accept, Waiting
  <2>2. ToSet(batch') = Waiting /\ batch' \in Seq(Clients)
    BY <1>7, <2>1, AllAreListed, FS_Subset, ServerAssumption DEF Accept
  <2>3. /\ cl' = [c \in Clients |-> IF c \in Waiting THEN "accepted" ELSE cl[c]]
        /\ wpc'[w] = "cb" /\ Waiting # {}
    BY <1>1, <1>7, Zenon DEF Accept, WorkerInv
  <2>4. batch' # <<>>
    BY <2>2, <2>3 DEF ToSet
  <2> QED
    BY <1>1, <1>2, <2>1, <2>2, <2>3, <2>4 DEF BatchInv, AcceptedIsPassedOn
<1>8. ASSUME NEW w \in Starts, Callback(w) PROVE BatchInv'
  <2>1. /\ cl' = [cl EXCEPT ![Head(batch)] = "handled"] /\ batch' = Tail(batch)
        /\ wpc' = [wpc EXCEPT ![w] = IF Tail(batch) = <<>> THEN LoopHead ELSE "cb"]
    BY <1>8, Zenon DEF Callback
  <2>2. ASSUME NEW c \in Clients, cl'[c] = "accepted"
        PROVE  c \in ToSet(batch') /\ wpc'[w] = "cb"
    <3>1. cl[c] = "accepted" /\ c # Head(batch)
      BY <2>1, <2>2 DEF BatchInv
    <3>2. c \in ToSet(batch)
      BY <3>1, Zenon DEF BatchInv, AcceptedIsPassedOn
    <3>3. c \in ToSet(Tail(batch)) /\ Tail(batch) # <<>>
      BY <3>1, <3>2, InTail DEF BatchInv
    <3> QED
      BY <1>1, <2>1, <3>3 DEF WorkerInv
  <2>3. batch' \in Seq(Clients)
    BY <1>8, <2>1 DEF Callback, BatchInv
  <2>4. ASSUME NEW u \in Starts, wpc'[u] = "cb" PROVE batch' # <<>>
    <3>1. u = w
      BY <1>1, <1>8, <2>1, <2>4 DEF Callback, WorkerInv, Dead
    <3> QED
      BY <1>1, <2>1, <2>4, <3>1, Zenon DEF WorkerInv, LoopHead
  <2>5. cl' \in [Clients -> {"new", "pending", "accepted", "handled", "dropped"}]
    BY <2>1, Zenon DEF BatchInv
  <2> QED
    BY <1>1, <2>2, <2>3, <2>4, <2>5 DEF BatchInv, AcceptedIsPassedOn
<1>9. ASSUME NEW w \in Starts, CallbackFails(w) PROVE BatchInv'
  <2>1. \A c \in Clients : cl'[c] # "accepted"
    <3> SUFFICES ASSUME NEW c \in Clients, cl[c] = "accepted", c # Head(batch)
                 PROVE  c \in ToSet(Tail(batch))
      BY <1>9, Zenon DEF CallbackFails
    <3> QED
      BY InTail, Zenon DEF BatchInv, AcceptedIsPassedOn
  <2>2. batch' = <<>> /\ cl' \in [Clients -> {"new", "pending", "accepted", "handled", "dropped"}]
    BY <1>9, Zenon DEF CallbackFails, BatchInv
  <2>3. \A u \in Starts : wpc'[u] # "cb"
    BY <1>1, <1>9, Zenon DEF CallbackFails, LoopHead, WorkerInv, Dead
  <2> QED
    BY <1>1, <2>1, <2>2, <2>3 DEF BatchInv, AcceptedIsPassedOn
<1>10. ASSUME NEW c \in Clients, ClientConnect(c) PROVE BatchInv'
  BY <1>1, <1>10, Zenon DEF ClientConnect, BatchInv, AcceptedIsPassedOn
<1> QED
  BY <1>4, <1>5, <1>6, <1>7, <1>8, <1>9, <1>10, Zenon DEF Next, Owner, Worker

-----------------------------------------------------------------------------
\* What TypeOK says of the owner, the other thread, the sockets and srv->thread.
OwnerTypes ==
    /\ pc \in {"init", "started", "serve", "served", "stop", "stopped", "fini", "end"}
    /\ family \in Families
    /\ other \in {"idle", "stop"}
    /\ starts \in 0 .. MaxStarts
    /\ thread \in 0 .. starts /\ fd \in 0 .. starts /\ bound \in 0 .. starts
    /\ shutting_down \in BOOLEAN
    /\ listening \subseteq Starts /\ intr \subseteq Starts
    /\ at \in [Clients -> 0 .. starts]

LEMMA OwnerTypesInit == Init => OwnerTypes
<1> SUFFICES ASSUME Init PROVE OwnerTypes
  BY Zenon
<1>1. 0 \in 0 .. MaxStarts /\ 0 \in 0 .. 0
  BY ServerAssumption
<1>2. at \in [Clients -> 0 .. 0]
  BY <1>1, Zenon DEF Init
<1>3. starts = 0 /\ thread = 0 /\ fd = 0 /\ bound = 0
  BY Zenon DEF Init
<1>4. shutting_down \in BOOLEAN /\ family \in Families /\ listening = {} /\ intr = {}
  BY Zenon DEF Init
<1> QED
  BY <1>1, <1>2, <1>3, <1>4 DEF Init, OwnerTypes

LEMMA OwnerTypesNext == OwnerTypes /\ [Next]_vars => OwnerTypes'
<1> SUFFICES ASSUME OwnerTypes, [Next]_vars PROVE OwnerTypes'
  BY Zenon
<1> USE ServerAssumption DEF OwnerTypes, Starts
<1>1. CASE Start
  <2>1. starts + 1 \in Starts /\ 0 .. starts \subseteq 0 .. starts + 1
    BY <1>1 DEF Start
  <2>2. at' = at /\ starts' = starts + 1
    BY <1>1, Zenon DEF Start, clVars
  <2>3. at' \in [Clients -> 0 .. starts']
    BY <2>1, <2>2
  <2> QED
    BY <1>1, <2>1, <2>2, <2>3 DEF Start, clVars
<1>2. CASE Stop \/ Fini \/ OtherStop
  <2>0. BeginStop
    BY <1>2, Zenon DEF Stop, Fini, OtherStop
  <2>1. intr' \subseteq Starts /\ shutting_down' = TRUE
    BY <2>0 DEF BeginStop
  <2> QED
    BY <1>2, <2>1 DEF Stop, Fini, OtherStop, sockVars, clVars
<1>3. CASE StartFails \/ Finished \/ Reinit
  <2>1. 0 \in 0 .. starts
    OBVIOUS
  <2>2. CASE StartFails
    BY <2>1, <2>2, Zenon DEF StartFails, clVars
  <2>3. CASE Finished
    BY <2>1, <2>3, Zenon DEF Finished, sockVars, clVars
  <2>4. CASE Reinit
    BY <2>1, <2>4 DEF Reinit, sockVars, clVars
  <2> QED
    BY <1>3, <2>2, <2>3, <2>4, Zenon
<1>7. CASE Serve \/ Served \/ Stopped \/ OtherStopped
  <2>1. CASE Serve \/ Served
    BY <2>1, Zenon DEF Serve, Served, srvVars, sockVars, clVars
  <2>2. CASE Stopped \/ OtherStopped
    <3>1. 0 \in 0 .. starts
      OBVIOUS
    <3>2. /\ thread' = 0 /\ pc' \in {pc, "stopped"} /\ other' \in {other, "idle"}
          /\ UNCHANGED <<shutting_down, fd, family, starts, listening, bound, intr, at>>
      BY <2>2, Zenon DEF Stopped, OtherStopped, sockVars, clVars
    <3> QED
      BY <3>1, <3>2
  <2> QED
    BY <1>7, <2>1, <2>2
<1>4. ASSUME NEW w \in Starts, Worker(w) \/ AcceptFails(w) PROVE OwnerTypes'
  BY <1>4, Zenon DEF Worker, WorkerStarts, Accept, AcceptInterrupted, AcceptFails, Callback,
              CallbackFails, srvVars, sockVars, clVars
<1>5. ASSUME NEW c \in Clients, ClientConnect(c) PROVE OwnerTypes'
  BY <1>5, Zenon DEF ClientConnect, srvVars, sockVars
<1>6. CASE UNCHANGED vars
  BY <1>6, Zenon DEF vars, srvVars, sockVars, clVars
<1> QED
  BY <1>1, <1>2, <1>3, <1>4, <1>5, <1>6, <1>7 DEF Next, Owner

-----------------------------------------------------------------------------
(* local_server().                                                         *)

\* PathLeadsToServer and OneBatchAfterShutdown made inductive: a batch after the
\* shutdown is a thread's last one.
LocalInv ==
    /\ path \in [Threads -> Paths] /\ file \in [Paths -> Threads \cup {NoThread}]
    /\ tpc \in [Threads -> {"new", "accept", "end"}]
    /\ late \in [Threads -> Nat]
    /\ \A t \in Threads : late[t] = 0 \/ (late[t] = 1 /\ tpc[t] = "end")
    /\ PathLeadsToServer

LEMMA LocalInvInit == LocalInit => LocalInv
  BY DEF LocalInit, LocalInv, PathLeadsToServer

LEMMA LocalInvNext == LocalInv /\ [LocalNext]_localVars => LocalInv'
<1> SUFFICES ASSUME LocalInv, [LocalNext]_localVars PROVE LocalInv'
  BY Zenon
<1> USE LocalAssumption DEF LocalInv, PathLeadsToServer, OwnPath
<1>1. CASE Shutdown \/ UNCHANGED localVars \/ \E c \in LocalClients, p \in Paths : Connect(c, p)
  BY <1>1, Zenon DEF Shutdown, localVars, Connect
<1>2. ASSUME NEW t \in Threads, Begin(t) PROVE LocalInv'
  BY <1>2 DEF Begin, Leave
<1>3. ASSUME NEW t \in Threads, AcceptAll(t) PROVE LocalInv'
  BY <1>3 DEF AcceptAll, Loop, Leave
<1>4. ASSUME NEW t \in Threads, AcceptAllFails(t) PROVE LocalInv'
  BY <1>4, Zenon DEF AcceptAllFails, Leave
<1> QED
  BY <1>1, <1>2, <1>3, <1>4, Zenon DEF LocalNext

-----------------------------------------------------------------------------
(* The theorems.                                                           *)

\* When mnapp_tcp_server_stop() has returned no worker runs, whichever of two
\* threads returns from it first, and however often the server was started.
THEOREM StoppedIsQuiet == ServersSpec => []QuietWhenStopped
<1>1. ServersInit => WorkerInv
  BY WorkerInvInit, Zenon DEF ServersInit
<1>2. WorkerInv /\ [Tcp(Next) \/ Local(LocalNext)]_serversVars => WorkerInv'
  <2>1. [Tcp(Next) \/ Local(LocalNext)]_serversVars => [Next]_vars
    BY Zenon DEF Tcp, Local, serversVars
  <2> QED
    BY <2>1, WorkerInvNext, Zenon
<1> QED
  BY <1>1, <1>2, WorkerInvQuiet, PTL DEF ServersSpec

\* No connection that mnapp_tcp_server_worker() has accepted is forgotten, however
\* many come at once and whenever the server is stopped.
THEOREM NoneIsForgotten == ServersSpec => []AcceptedIsPassedOn
<1>1. ServersInit => BatchInv
  BY BatchInvInit, Zenon DEF ServersInit
<1>2. BatchInv /\ [Tcp(Next) \/ Local(LocalNext)]_serversVars => BatchInv'
  <2>1. [Tcp(Next) \/ Local(LocalNext)]_serversVars => [Next]_vars
    BY Zenon DEF Tcp, Local, serversVars
  <2> QED
    BY <2>1, BatchInvNext, Zenon
<1>3. BatchInv => AcceptedIsPassedOn
  BY Zenon DEF BatchInv
<1> QED
  BY <1>1, <1>2, <1>3, PTL DEF ServersSpec

\* The variables keep their types, for any number of clients and starts: in
\* particular mnapp_tcp_server_stop() and _fini(), called by whichever thread and
\* in whichever order, interrupt only a worker that start() has spawned.
THEOREM ServerTypes == ServersSpec => []TypeOK
<1>1. ServersInit => BatchInv /\ OwnerTypes
  BY BatchInvInit, OwnerTypesInit, Zenon DEF ServersInit
<1>2. BatchInv /\ OwnerTypes /\ [Tcp(Next) \/ Local(LocalNext)]_serversVars
         => BatchInv' /\ OwnerTypes'
  <2>1. [Tcp(Next) \/ Local(LocalNext)]_serversVars => [Next]_vars
    BY Zenon DEF Tcp, Local, serversVars
  <2> QED
    BY <2>1, BatchInvNext, OwnerTypesNext
<1>3. BatchInv /\ OwnerTypes => TypeOK
  BY Zenon DEF BatchInv, WorkerInv, OwnerTypes, TypeOK
<1> QED
  BY <1>1, <1>2, <1>3, PTL DEF ServersSpec

\* LocalInv is an invariant of local_server().
LEMMA LocalInvariant == ServersSpec => []LocalInv
<1>1. ServersInit => LocalInv
  BY LocalInvInit, Zenon DEF ServersInit
<1>2. LocalInv /\ [Tcp(Next) \/ Local(LocalNext)]_serversVars => LocalInv'
  <2>1. [Tcp(Next) \/ Local(LocalNext)]_serversVars => [LocalNext]_localVars
    BY Zenon DEF Tcp, Local, serversVars
  <2> QED
    BY <2>1, LocalInvNext
<1> QED
  BY <1>1, <1>2, PTL DEF ServersSpec

\* A path of its own leads to a thread local_server() just while that listens.
THEOREM PathIsKept == ServersSpec => []PathLeadsToServer
<1>1. LocalInv => PathLeadsToServer
  BY DEF LocalInv
<1> QED
  BY <1>1, LocalInvariant, PTL

\* After local_server_shutdown() a thread accepts at most once.
THEOREM AcceptsOnceMore == ServersSpec => []OneBatchAfterShutdown
<1>1. LocalInv => OneBatchAfterShutdown
  BY DEF LocalInv, OneBatchAfterShutdown
<1> QED
  BY <1>1, LocalInvariant, PTL
=============================================================================
