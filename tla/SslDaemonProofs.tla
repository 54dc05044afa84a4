---------------------------- MODULE SslDaemonProofs ----------------------------
(* daemonize(), for any set of programs and both ways of locking the pidfile,
   and the TLS stream functions, for buffers and streams of any size.  *)
EXTENDS Daemonize, SslStream, TLAPS

-----------------------------------------------------------------------------
(* The pidfile: a program beyond the lock holds it, so that the file does  *)
(* not change between its seek, its write and its end.                     *)

FileTypes ==
    /\ pc \in [Procs -> {"call", "session", "fork", "files", "stdin", "stdout", "stderr",
                         "pidfile", "lock", "seek", "write", "run", "gone"}]
    /\ content \in Seq(0 .. 9)
    /\ off \in [Procs -> Nat]

Early == {"call", "session", "fork", "files", "stdin", "stdout", "stderr", "pidfile"}

\* Where a program is in the file, and that it has a pidfile, if it is there.
Placed(p) ==
    /\ pc[p] \in {"pidfile", "lock", "seek", "write"} => args[p].pidfile # "NULL"
    /\ Locked(p) => lock = p
    /\ pc[p] \in Early => off[p] = 0
    /\ exlock => pc[p] \notin {"lock", "seek"} /\ off[p] = 0
    /\ pc[p] = "write" => off[p] = Len(content)
    /\ pc[p] = "write" /\ exlock => content = <<>>
    /\ Daemon(p) => SubSeq(content, off[p] + 1, Len(content)) = Pid[p]
    /\ Daemon(p) /\ off[p] = 0 => content = Pid[p]

\* What makes OneDaemon and PidfileNamesDaemon inductive.
FileInv == FileTypes /\ \A p \in Procs : Placed(p)

\* daemonize() is entered with no lock held and nothing written.
LEMMA FileInvInit == DaemonInit => FileInv
  BY DEF DaemonInit, FileInv, FileTypes, Placed, Locked, Daemon, Early

\* A write at the end of the file appends the process ID.
LEMMA WriteAtEnd ==
    ASSUME NEW S, NEW s \in Seq(S), NEW t \in Seq(S)
    PROVE  SubSeq(s, 1, Len(s)) \o t \o SubSeq(s, Len(s) + Len(t) + 1, Len(s)) = s \o t
<1>1. SubSeq(s, 1, Len(s)) = s
  OBVIOUS
<1>2. SubSeq(s, Len(s) + Len(t) + 1, Len(s)) = <<>>
  OBVIOUS
<1>3. s \o t \o <<>> = s \o t
  OBVIOUS
<1> QED
  BY <1>1, <1>2, <1>3, Zenon

LEMMA EndOfFile ==
    ASSUME NEW S, NEW s \in Seq(S), NEW t \in Seq(S)
    PROVE  /\ s \o t \in Seq(S)
           /\ SubSeq(s \o t, Len(s) + 1, Len(s \o t)) = t
           /\ Len(s) = 0 => s \o t = t
  OBVIOUS

\* The steps that get beyond the lock find it free; a program that dies drops
\* only its own lock, and only the holder of the lock changes the file.
LEMMA FileInvNext == FileInv /\ [DaemonNext]_daemonVars => FileInv'
<1> SUFFICES ASSUME FileInv, [DaemonNext]_daemonVars PROVE FileInv'
  BY Zenon
<1>0. CASE UNCHANGED daemonVars
  BY <1>0, Zenon DEF FileInv, FileTypes, Placed, Locked, Daemon, daemonVars
<1>1. ASSUME NEW p \in Procs, Program(p), UNCHANGED <<exlock, args, rlim>> PROVE FileInv'
  <2>0. NoProc \notin Procs
    BY DaemonAssumption, Zenon
  <2>1. CASE Fork(p) \/ Setsid(p) \/ ForkAgain(p) \/ CloseAll(p)
    BY <1>1, <2>1, ZenonT(40)
       DEF FileInv, FileTypes, Placed, Locked, Daemon, Early, Fork, Setsid, ForkAgain,
           CloseAll, To, fileVars
  <2>8. CASE OpenStdin(p) \/ OpenStdout(p) \/ OpenStderr(p)
    BY <1>1, <2>8, ZenonT(40)
       DEF FileInv, FileTypes, Placed, Locked, Daemon, Early, OpenStdin, OpenStdout,
           OpenStderr, To, fileVars
  <2>2. CASE OpenExlock(p)
    <3>1. CASE lock = NoProc
      <4>1. /\ pc[p] = "pidfile" /\ exlock /\ off[p] = 0 /\ args[p].pidfile # "NULL"
            /\ pc' = [pc EXCEPT ![p] = "write"] /\ lock' = p /\ content' = <<>>
            /\ UNCHANGED <<off, exlock, args>>
        BY <1>1, <2>2, <3>1, Zenon DEF OpenExlock, To, FileInv, Placed, Early
      <4>2. \A q \in Procs : ~Locked(q)
        BY <2>0, <3>1, Zenon DEF FileInv, Placed
      <4>3. FileTypes'
        BY <4>1 DEF FileInv, FileTypes
      <4>4. \A q \in Procs : Placed(q)'
        BY <4>1, <4>2, Zenon DEF FileInv, FileTypes, Placed, Locked, Daemon, Early
      <4> QED
        BY <4>3, <4>4, Zenon DEF FileInv
    <3>2. CASE lock # NoProc
      BY <1>1, <2>0, <2>2, <3>2
         DEF FileInv, FileTypes, Placed, Locked, Daemon, Early, OpenExlock, To, Die
    <3> QED
      BY <3>1, <3>2, Zenon
  <2>3. CASE Open(p)
    BY <1>1, <2>3, Zenon DEF FileInv, FileTypes, Placed, Locked, Daemon, Early, Open, To
  <2>4. CASE Seek(p)
    <3>1. FileTypes'
      BY <2>4 DEF Seek, To, FileInv, FileTypes
    <3>2. \A q \in Procs : Placed(q)'
      BY <1>1, <2>4, Zenon DEF FileInv, FileTypes, Placed, Locked, Daemon, Early, Seek, To
    <3> QED
      BY <3>1, <3>2, Zenon DEF FileInv
  <2>5. CASE Flock(p)
    <3>1. CASE lock = NoProc
      <4>1. /\ pc[p] = "lock" /\ args[p].pidfile # "NULL" /\ ~exlock
            /\ pc' = [pc EXCEPT ![p] = "seek"] /\ lock' = p
            /\ UNCHANGED <<content, off, exlock, args>>
        BY <1>1, <2>5, <3>1 DEF Flock, To, FileInv, Placed
      <4>2. \A q \in Procs : ~Locked(q)
        BY <2>0, <3>1, Zenon DEF FileInv, Placed
      <4>3. FileTypes'
        BY <4>1, Zenon DEF FileInv, FileTypes
      <4>4. \A q \in Procs : Placed(q)'
        BY <4>1, <4>2, Zenon DEF FileInv, FileTypes, Placed, Locked, Daemon, Early
      <4> QED
        BY <4>3, <4>4, Zenon DEF FileInv
    <3>2. CASE lock # NoProc
      BY <1>1, <2>0, <2>5, <3>2, SMTT(30)
         DEF FileInv, FileTypes, Placed, Locked, Daemon, Early, Flock, To, Die
    <3> QED
      BY <3>1, <3>2, Zenon
  <2>6. CASE WritePid(p)
    <3>0. /\ pc[p] = "write" /\ off[p] = Len(content) /\ content \in Seq(0 .. 9)
          /\ Pid[p] \in Seq(0 .. 9)
      BY <2>6, DaemonAssumption, Zenon DEF WritePid, FileInv, FileTypes, Placed
    <3>1. content' = content \o Pid[p]
      <4>1. content' = SubSeq(content, 1, Len(content)) \o Pid[p]
                           \o SubSeq(content, Len(content) + Len(Pid[p]) + 1, Len(content))
        BY <2>6, <3>0, Zenon DEF WritePid
      <4> HIDE <1>1, <2>6
      <4> QED
        BY <3>0, <4>1, WriteAtEnd, Zenon
    <3>2. /\ content' \in Seq(0 .. 9)
          /\ SubSeq(content', off[p] + 1, Len(content')) = Pid[p]
          /\ off[p] = 0 => content' = Pid[p]
      <4>1. /\ content \o Pid[p] \in Seq(0 .. 9)
            /\ SubSeq(content \o Pid[p], Len(content) + 1, Len(content \o Pid[p])) = Pid[p]
            /\ Len(content) = 0 => content \o Pid[p] = Pid[p]
        BY <3>0, EndOfFile
      <4> QED
        BY <3>0, <3>1, <4>1, Zenon
    <3>4. /\ pc' = [pc EXCEPT ![p] = "run"] /\ args[p].pidfile # "NULL"
          /\ UNCHANGED <<lock, off, exlock, args>>
      BY <1>1, <2>6, <3>0 DEF WritePid, To, FileInv, Placed
    <3>5. \A q \in Procs : Locked(q) => q = p
      BY <3>0, <3>4 DEF FileInv, Placed, Locked
    <3>6. FileTypes'
      BY <3>2, <3>4 DEF FileInv, FileTypes
    <3>7. \A q \in Procs : Placed(q)'
      BY <3>0, <3>2, <3>4, <3>5, SMTT(30) DEF FileInv, FileTypes, Placed, Locked, Daemon, Early
    <3> QED
      BY <3>6, <3>7, Zenon DEF FileInv
  <2>7. CASE Crash(p)
    BY <1>1, <2>0, <2>7 DEF FileInv, FileTypes, Placed, Locked, Daemon, Early, Crash, To, Die
  <2> QED
    BY <1>1, <2>1, <2>2, <2>3, <2>4, <2>5, <2>6, <2>7, <2>8 DEF Program
<1> QED
  BY <1>0, <1>1, Zenon DEF DaemonNext

\* Whatever programs call daemonize() with the same pidfile, and whenever they
\* die, one at a time is beyond its lock.
THEOREM MutualExclusion == DaemonSpec => []OneDaemon
<1>1. FileInv => OneDaemon
  BY DEF FileInv, Placed, OneDaemon
<1> QED
  BY <1>1, FileInvInit, FileInvNext, PTL DEF DaemonSpec

\* The pidfile ends in the process ID of the running daemon, behind what it found
\* there, and with O_EXLOCK it holds nothing else.
THEOREM PidfileIsRight == DaemonSpec => []PidfileNamesDaemon
<1>1. FileInv => PidfileNamesDaemon
  BY Zenon DEF FileInv, Placed, PidfileNamesDaemon
<1> QED
  BY <1>1, FileInvInit, FileInvNext, PTL DEF DaemonSpec

-----------------------------------------------------------------------------
(* What a program has at each stage of daemonize().                        *)

\* The first k descriptors are those of daemonize(); below nfiles the others are
\* closed, and beyond they may be the caller's.
Table(p, k) ==
    /\ k > 0 => fds[p][0] = "/dev/null"
    /\ k > 1 => fds[p][1] = args[p].out
    /\ k > 2 => fds[p][2] = args[p].err
    /\ k > 3 => fds[p][3] = "pidfile" /\ nfiles(p) > 3
    /\ \A d \in Fds : d >= k =>
         fds[p][d] = "closed" \/ (fds[p][d] = "caller" /\ d >= nfiles(p))

\* Before the last step of daemonize(), and what makes Detached inductive.
Stage(p) ==
    /\ pc[p] \in {"files", "stdin", "stdout", "stderr", "pidfile", "lock", "seek", "write", "run"}
         => ~leader[p]
    /\ pc[p] \in {"pidfile", "lock", "seek", "write", "run"} => umask[p] = "own"
    /\ pc[p] \in {"pidfile", "lock", "seek", "write"} => args[p].pidfile # "NULL"
    /\ pc[p] \in {"call", "session", "fork", "files"} =>
         \A d \in Fds : fds[p][d] \in {"closed", "caller"}
    /\ pc[p] = "stdin" => Table(p, 0)
    /\ pc[p] = "stdout" => Table(p, 1)
    /\ pc[p] = "stderr" => Table(p, 2)
    /\ pc[p] = "pidfile" => Table(p, 3)
    /\ pc[p] \in {"lock", "seek", "write"} => Table(p, 4)
    /\ pc[p] = "run" => Table(p, IF Daemon(p) THEN 4 ELSE 3)
    /\ pc[p] # "gone" => cwd[p] = IF Daemon(p) THEN "/" ELSE "own"

Shape ==
    /\ pc = [q \in Procs |-> pc[q]]
    /\ fds = [q \in Procs |-> fds[q]]
    /\ \A q \in Procs : fds[q] = [d \in Fds |-> fds[q][d]]
    /\ leader = [q \in Procs |-> leader[q]] /\ umask = [q \in Procs |-> umask[q]]
    /\ cwd = [q \in Procs |-> cwd[q]]

\* What does not change.
Given ==
    \A q \in Procs : /\ args[q].out \in Files /\ args[q].err \in Files
                     /\ rlim[q] \in Limits \cup {NoLimit}

StageInv == Given /\ Shape /\ \A p \in Procs : Stage(p)

\* daemonize() is entered in the directory of the program.
LEMMA StageInit == DaemonInit => StageInv
<1> SUFFICES ASSUME DaemonInit PROVE StageInv
  BY Zenon
<1>1. PICK open \in [Procs -> Callers] :
         fds = [p \in Procs |-> [d \in Fds |-> IF d \in open[p] THEN "caller" ELSE "closed"]]
  BY Zenon DEF DaemonInit
<1>2. Given
  BY DEF DaemonInit, Given, Args
<1>3. Shape
  <2>1. fds = [q \in Procs |-> fds[q]] /\ \A q \in Procs : fds[q] = [d \in Fds |-> fds[q][d]]
    BY <1>1, Zenon
  <2> QED
    BY <2>1, Zenon DEF DaemonInit, Shape
<1>4. \A p \in Procs : Stage(p)
  <2>1. \A p \in Procs, d \in Fds : fds[p][d] \in {"closed", "caller"}
    BY <1>1, Zenon
  <2> QED
    BY <2>1, Zenon DEF DaemonInit, Stage, Daemon
<1> QED
  BY <1>2, <1>3, <1>4, Zenon DEF StageInv

\* A step of p changes only what belongs to p.
Others(p) ==
    \A q \in Procs \ {p} :
        /\ pc'[q] = pc[q] /\ fds'[q] = fds[q] /\ leader'[q] = leader[q]
        /\ umask'[q] = umask[q] /\ cwd'[q] = cwd[q]

\* A descriptor of p is given a file.
Sets(p, d, name) == fds' = [fds EXCEPT ![p][d] = name]

LEMMA SetsOne ==
    ASSUME Shape, NEW p \in Procs, NEW d \in Fds, NEW name, Sets(p, d, name)
    PROVE  /\ fds' = [q \in Procs |-> fds'[q]]
           /\ \A q \in Procs : fds'[q] = [e \in Fds |-> fds'[q][e]]
           /\ \A q \in Procs \ {p} : fds'[q] = fds[q]
           /\ fds'[p][d] = name /\ \A e \in Fds \ {d} : fds'[p][e] = fds[p][e]
<1>1. fds' = [fds EXCEPT ![p] = [fds[p] EXCEPT ![d] = name]]
  BY Zenon DEF Sets
<1>2. fds'[p] = [fds[p] EXCEPT ![d] = name]
  BY <1>1, Zenon DEF Shape
<1> QED
  BY <1>1, <1>2, Zenon DEF Shape

LEMMA FirstFds == {0, 1, 2, 3} \subseteq Fds /\ \A d \in Fds : d \in Int
  BY DaemonAssumption DEF Fds

\* How the steps that open a file change the descriptors.
LEMMA OpeningSets ==
    ASSUME NEW p \in Procs
    PROVE  /\ OpenStdin(p) => Sets(p, 0, "/dev/null")
           /\ OpenStdout(p) => Sets(p, 1, IF args[p].out = "/dev/null" THEN fds[p][0] ELSE args[p].out)
           /\ OpenStderr(p) => Sets(p, 2, IF args[p].err = args[p].out THEN fds[p][1] ELSE args[p].err)
           /\ Open(p) \/ (OpenExlock(p) /\ lock = NoProc) =>
                \E d \in Fds : Opens(p, d, "pidfile") /\ Sets(p, d, "pidfile")
<1>1. OpenStdin(p) => Sets(p, 0, "/dev/null")
  BY Zenon DEF OpenStdin, Opens, Sets
<1>2. OpenStdout(p) => Sets(p, 1, IF args[p].out = "/dev/null" THEN fds[p][0] ELSE args[p].out)
  BY Zenon DEF OpenStdout, Opens, dup2, Sets
<1>3. OpenStderr(p) => Sets(p, 2, IF args[p].err = args[p].out THEN fds[p][1] ELSE args[p].err)
  BY Zenon DEF OpenStderr, Opens, dup2, Sets
<1>4. Open(p) \/ (OpenExlock(p) /\ lock = NoProc) =>
        \E d \in Fds : Opens(p, d, "pidfile") /\ Sets(p, d, "pidfile")
  BY Zenon DEF Open, OpenExlock, Opens, Sets
<1> QED
  BY <1>1, <1>2, <1>3, <1>4, Zenon

\* No process of daemonize() touches another one.
LEMMA OthersKeep == ASSUME Shape, NEW p \in Procs, Program(p) PROVE Shape' /\ Others(p)
<1> USE DEF Shape, Others, To
<1>1. CASE Fork(p) \/ Setsid(p) \/ ForkAgain(p)
  BY <1>1 DEF Fork, Setsid, ForkAgain
<1>2. CASE CloseAll(p)
  BY <1>2, Zenon DEF CloseAll
<1>3. CASE OpenExlock(p) /\ lock # NoProc
  BY <1>3 DEF OpenExlock, Die
<1>4. CASE Flock(p) \/ Seek(p)
  BY <1>4, SMTT(30) DEF Flock, Seek, Die
<1>5. CASE WritePid(p) \/ Crash(p)
  BY <1>5 DEF WritePid, Crash, Die
<1>6. ASSUME NEW d \in Fds, NEW name, Sets(p, d, name),
             pc' = [q \in Procs |-> pc'[q]], \A q \in Procs \ {p} : pc'[q] = pc[q],
             UNCHANGED <<leader, cwd>>,
             umask' = umask \/ umask' = [umask EXCEPT ![p] = "own"]
      PROVE  Shape' /\ Others(p)
  BY <1>6, SetsOne, Zenon
<1>7. CASE OpenStdin(p) \/ OpenStdout(p) \/ OpenStderr(p)
  <2>1. /\ pc' = [q \in Procs |-> pc'[q]] /\ \A q \in Procs \ {p} : pc'[q] = pc[q]
        /\ UNCHANGED <<leader, cwd>>
        /\ umask' = umask \/ umask' = [umask EXCEPT ![p] = "own"]
    BY <1>7, Zenon DEF OpenStdin, OpenStdout, OpenStderr
  <2> QED
    BY <1>6, <1>7, <2>1, OpeningSets, FirstFds, Zenon
<1>8. CASE Open(p) \/ (OpenExlock(p) /\ lock = NoProc)
  <2>1. /\ pc' = [q \in Procs |-> pc'[q]] /\ \A q \in Procs \ {p} : pc'[q] = pc[q]
        /\ UNCHANGED <<leader, cwd, umask>>
    BY <1>8, Zenon DEF Open, OpenExlock
  <2> QED
    BY <1>6, <1>8, <2>1, OpeningSets, Zenon
<1> QED
  BY <1>1, <1>2, <1>3, <1>4, <1>5, <1>7, <1>8, Zenon DEF Program

\* Descriptors 0 to 2 are in use, so open() takes 3 for the pidfile; with a limit
\* of 3 it fails.
LEMMA PidfileIsThird ==
    ASSUME StageInv, NEW p \in Procs, pc[p] = "pidfile", NEW d \in Fds, Opens(p, d, "pidfile")
    PROVE  d = 3 /\ nfiles(p) > 3
<1>1. Table(p, 3)
  BY Zenon DEF StageInv, Stage
<1>2. IsLowest(fds[p], d) /\ (rlim[p] = NoLimit \/ d < rlim[p])
  BY Zenon DEF Opens
<1>3. args[p].out # "closed" /\ args[p].err # "closed"
  BY DaemonAssumption, Zenon DEF StageInv, Given
<1>4. fds[p][0] # "closed" /\ fds[p][1] # "closed" /\ fds[p][2] # "closed"
  BY <1>1, <1>3 DEF Table
<1>5. d \notin {0, 1, 2}
  BY <1>2, <1>4, Zenon DEF IsLowest
<1>6. d \in Int /\ d >= 0
  BY DEF Fds
<1>7. nfiles(p) > 3
  <2>1. CASE rlim[p] = NoLimit
    BY <2>1, DaemonAssumption DEF nfiles
  <2>2. CASE rlim[p] # NoLimit
    <3>1. nfiles(p) = rlim[p] /\ rlim[p] \in Nat /\ d < rlim[p]
      BY <1>2, <2>2, DaemonAssumption, Zenon DEF nfiles, StageInv, Given
    <3> QED
      BY <1>5, <1>6, <3>1
  <2> QED
    BY <2>1, <2>2
<1>8. nfiles(p) \in Int
  BY DaemonAssumption DEF nfiles, StageInv, Given, NoLimit
<1>9. fds[p][3] = "closed"
  BY <1>1, <1>7, <1>8, FirstFds DEF Table
<1>10. d <= 3
  BY <1>2, <1>9, FirstFds, Zenon DEF IsLowest
<1> QED
  BY <1>5, <1>6, <1>7, <1>10

\* Each step sets what the next stage expects, for its own process only.
LEMMA StageNext == StageInv /\ [DaemonNext]_daemonVars => StageInv'
<1> SUFFICES ASSUME StageInv, [DaemonNext]_daemonVars PROVE StageInv'
  BY Zenon
<1>0. CASE UNCHANGED daemonVars
  BY <1>0 DEF StageInv, Given, Shape, Stage, Table, nfiles, Daemon, daemonVars
<1>1. ASSUME NEW p \in Procs, Program(p), UNCHANGED <<exlock, args, rlim>> PROVE StageInv'
  <2>1. Shape' /\ Others(p)
    BY <1>1, OthersKeep, Zenon DEF StageInv
  <2>2. Given' /\ \A q \in Procs : nfiles(q)' = nfiles(q) /\ args'[q] = args[q]
    BY <1>1, Zenon DEF StageInv, Given, nfiles
  <2>3. \A q \in Procs \ {p} : Stage(q)'
    <3> SUFFICES ASSUME NEW q \in Procs \ {p} PROVE Stage(q)'
      BY Zenon
    <3>1. /\ pc'[q] = pc[q] /\ fds'[q] = fds[q] /\ leader'[q] = leader[q]
          /\ umask'[q] = umask[q] /\ cwd'[q] = cwd[q]
      BY <2>1, Zenon DEF Others
    <3>2. nfiles(q)' = nfiles(q) /\ args'[q] = args[q]
      BY <2>2, Zenon
    <3>3. Stage(q) /\ Daemon(q)' = Daemon(q)
      BY <3>1, <3>2, Zenon DEF StageInv, Daemon
    <3>4. ASSUME NEW k PROVE Table(q, k) => Table(q, k)'
      BY <3>1, <3>2, Zenon DEF Table
    <3> QED
      BY <3>1, <3>2, <3>3, <3>4, Zenon DEF Stage
  <2>4. Stage(p)'
    <3> USE DEF To
    <3>0. Stage(p) /\ Shape
      BY Zenon DEF StageInv
    <3>1. CASE Fork(p) \/ Setsid(p) \/ ForkAgain(p)
      BY <2>2, <3>0, <3>1, Zenon DEF Fork, Setsid, ForkAgain, Stage, Shape, Daemon
    <3>2. CASE CloseAll(p)
      <4>1. /\ pc[p] = "files" /\ pc'[p] = "stdin" /\ ~leader'[p] /\ cwd'[p] = cwd[p]
            /\ fds'[p] = [d \in Fds |-> IF d < nfiles(p) THEN "closed" ELSE fds[p][d]]
        BY <3>0, <3>2, Zenon DEF CloseAll, Stage, Shape
      <4>2. nfiles(p) \in Int
        BY DaemonAssumption DEF nfiles, StageInv, Given, NoLimit
      <4>3. \A d \in Fds : fds[p][d] \in {"closed", "caller"}
        BY <3>0, <4>1, Zenon DEF Stage
      <4>4. \A d \in Fds : fds'[p][d] = "closed" \/ (fds'[p][d] = "caller" /\ d >= nfiles(p))
        BY <4>1, <4>2, <4>3, FirstFds
      <4>5. Table(p, 0)'
        BY <2>2, <4>4 DEF Table
      <4> QED
        BY <2>2, <3>0, <4>1, <4>5, Zenon DEF Stage, Daemon
    <3>3. CASE OpenStdin(p)
      <4>1. /\ pc[p] = "stdin" /\ pc'[p] = "stdout" /\ ~leader'[p] /\ cwd'[p] = cwd[p]
        BY <3>0, <3>3, Zenon DEF OpenStdin, Stage, Shape
      <4>2. fds'[p][0] = "/dev/null" /\ \A d \in Fds \ {0} : fds'[p][d] = fds[p][d]
        BY <3>0, <3>3, OpeningSets, SetsOne, FirstFds
      <4>3. Table(p, 0)
        BY <3>0, <4>1, Zenon DEF Stage
      <4>4. Table(p, 1)'
        BY <2>2, <4>2, <4>3, FirstFds DEF Table
      <4> QED
        BY <2>2, <3>0, <4>1, <4>4, Zenon DEF Stage, Daemon
    <3>4. CASE OpenStdout(p)
      <4>1. /\ pc[p] = "stdout" /\ pc'[p] = "stderr" /\ ~leader'[p] /\ cwd'[p] = cwd[p]
        BY <3>0, <3>4, Zenon DEF OpenStdout, Stage, Shape
      <4>2. /\ fds'[p][1] = IF args[p].out = "/dev/null" THEN fds[p][0] ELSE args[p].out
            /\ \A d \in Fds \ {1} : fds'[p][d] = fds[p][d]
        BY <3>0, <3>4, OpeningSets, SetsOne, FirstFds
      <4>3. Table(p, 1)
        BY <3>0, <4>1, Zenon DEF Stage
      <4>4. Table(p, 2)'
        BY <2>2, <4>2, <4>3, FirstFds DEF Table
      <4> QED
        BY <2>2, <3>0, <4>1, <4>4, Zenon DEF Stage, Daemon
    <3>5. CASE OpenStderr(p)
      <4>1. /\ pc[p] = "stderr" /\ ~leader'[p] /\ cwd'[p] = cwd[p] /\ umask'[p] = "own"
            /\ pc'[p] = IF args[p].pidfile = "NULL" THEN "run" ELSE "pidfile"
        BY <3>0, <3>5, Zenon DEF OpenStderr, Stage, Shape
      <4>2. /\ fds'[p][2] = IF args[p].err = args[p].out THEN fds[p][1] ELSE args[p].err
            /\ \A d \in Fds \ {2} : fds'[p][d] = fds[p][d]
        BY <3>0, <3>5, OpeningSets, SetsOne, FirstFds
      <4>3. Table(p, 2)
        BY <3>0, <4>1, Zenon DEF Stage
      <4>4. Table(p, 3)'
        BY <2>2, <4>2, <4>3, FirstFds DEF Table
      <4> QED
        BY <2>2, <3>0, <4>1, <4>4, Zenon DEF Stage, Daemon
    <3>6. CASE Open(p) \/ (OpenExlock(p) /\ lock = NoProc)
      <4>1. /\ pc[p] = "pidfile" /\ pc'[p] \in {"lock", "write"}
            /\ ~leader'[p] /\ cwd'[p] = cwd[p] /\ umask'[p] = "own"
        BY <3>0, <3>6, Zenon DEF Open, OpenExlock, Stage, Shape
      <4>2. PICK d \in Fds : Opens(p, d, "pidfile") /\ Sets(p, d, "pidfile")
        BY <3>6, OpeningSets, Zenon
      <4>3. d = 3 /\ nfiles(p) > 3
        BY <4>1, <4>2, PidfileIsThird
      <4>4. fds'[p][3] = "pidfile" /\ \A e \in Fds \ {3} : fds'[p][e] = fds[p][e]
        BY <3>0, <4>2, <4>3, SetsOne
      <4>5. Table(p, 3)
        BY <3>0, <4>1, Zenon DEF Stage
      <4>6. Table(p, 4)'
        BY <2>2, <4>3, <4>4, <4>5, FirstFds DEF Table
      <4> QED
        BY <2>2, <3>0, <4>1, <4>6, Zenon DEF Stage, Daemon
    <3>7. CASE (OpenExlock(p) /\ lock # NoProc) \/ Crash(p)
      <4>1. pc'[p] = "gone"
        BY <3>0, <3>7, Zenon DEF OpenExlock, Crash, Die, Shape
      <4> QED
        BY <4>1, Zenon DEF Stage, Daemon
    <3>8. CASE Flock(p) \/ Seek(p) \/ WritePid(p)
      <4>1. /\ UNCHANGED <<fds, leader, umask>>
            /\ \/ pc'[p] = "gone"
               \/ pc[p] \in {"lock", "seek"} /\ pc'[p] \in {"seek", "write"} /\ cwd' = cwd
               \/ pc[p] = "write" /\ pc'[p] = "run" /\ cwd'[p] = "/"
        BY <3>0, <3>8, Zenon DEF Flock, Seek, WritePid, Die, Shape
      <4> QED
        BY <2>2, <3>0, <4>1, Zenon DEF Stage, Table, Daemon
    <3> QED
      BY <1>1, <3>1, <3>2, <3>3, <3>4, <3>5, <3>6, <3>7, <3>8, Zenon DEF Program
  <2> QED
    BY <2>1, <2>2, <2>3, <2>4, Zenon DEF StageInv
<1> QED
  BY <1>0, <1>1, Zenon DEF DaemonNext

\* Every program that daemonize() returns to has its files, no terminal, its own
\* umask and, with a pidfile, the root directory; of its caller's files it has only
\* those from nfiles on.
THEOREM DaemonIsDetached == DaemonSpec => []Detached
<1>1. StageInv => Detached
  <2> SUFFICES ASSUME StageInv, NEW p \in Procs, pc[p] = "run"
               PROVE  /\ ~leader[p] /\ umask[p] = "own"
                      /\ fds[p][0] = "/dev/null" /\ fds[p][1] = args[p].out
                      /\ fds[p][2] = args[p].err
                      /\ {d \in Fds : fds[p][d] = "pidfile"} = IF Daemon(p) THEN {3} ELSE {}
                      /\ \A d \in Fds : fds[p][d] = "caller" => d >= nfiles(p)
                      /\ cwd[p] = IF Daemon(p) THEN "/" ELSE "own"
    BY Zenon DEF Detached
  <2>1. /\ ~leader[p] /\ umask[p] = "own"
        /\ cwd[p] = IF Daemon(p) THEN "/" ELSE "own"
        /\ Daemon(p) => Table(p, 4)
        /\ ~Daemon(p) => Table(p, 3)
    BY Zenon DEF StageInv, Stage
  <2>2. /\ args[p].out \notin {"caller", "pidfile"} /\ args[p].err \notin {"caller", "pidfile"}
    BY DaemonAssumption, Zenon DEF StageInv, Given
  <2>3. fds[p][0] = "/dev/null" /\ fds[p][1] = args[p].out /\ fds[p][2] = args[p].err
    BY <2>1 DEF Table
  <2>4. \A d \in Fds : \/ d \in {0, 1, 2}
                       \/ d = 3 /\ Daemon(p) /\ fds[p][3] = "pidfile"
                       \/ fds[p][d] = "closed" /\ ~(d = 3 /\ Daemon(p))
                       \/ fds[p][d] = "caller" /\ d >= nfiles(p) /\ ~(d = 3 /\ Daemon(p))
    BY <2>1 DEF Table, Fds
  <2>5. \A d \in Fds : fds[p][d] = "pidfile" <=> d = 3 /\ Daemon(p)
    BY <2>2, <2>3, <2>4
  <2> QED
    BY <2>1, <2>2, <2>3, <2>4, <2>5, FirstFds
<1> QED
  BY <1>1, StageInit, StageNext, PTL DEF DaemonSpec

-----------------------------------------------------------------------------
(* Receiving: the room that was made stays.                                *)

\* RoomForRead with what it needs: a stream is never smaller than a block.
RecvInv ==
    /\ eod \in Nat /\ insz \in Nat /\ eod <= insz /\ Block <= insz
    /\ RoomForRead

LEMMA RecvInvInit == Init => RecvInv
  BY SslAssumption DEF Init, RecvInv, RoomForRead

\* Growing makes room for a block, and all that other threads do to the stream
\* before SSL_read() is called again makes it emptier.
LEMMA RecvInvNext == RecvInv /\ [Next]_vars => RecvInv'
<1> SUFFICES ASSUME RecvInv, [Next]_vars PROVE RecvInv'
  BY Zenon
<1> USE SslAssumption DEF RecvInv, RoomForRead
<1>1. CASE UNCHANGED recvVars
  BY <1>1, Zenon DEF recvVars
<1>2. CASE Gc
  BY <1>2 DEF Gc
<1>3. CASE Recv
  BY <1>3 DEF Recv, Need
<1>4. ASSUME NEW n \in 1 .. Block, Read(n) PROVE RecvInv'
  BY <1>4 DEF Read
<1>5. CASE RecvPlain \/ WantRecv \/ WakeRecv \/ RecvFails
  BY <1>5, Zenon DEF RecvPlain, WantRecv, WakeRecv, RecvFails
<1>6. ASSUME NEW n \in 0 .. MaxIn + Block, Recycle(n) PROVE RecvInv'
  BY <1>6 DEF Recycle
<1>7. CASE \/ UNCHANGED vars \/ \E n \in 1 .. MaxBytes : Write(n)
           \/ Respond \/ Send \/ SendPlain \/ Written \/ WantSend \/ WakeSend \/ BadRetry
           \/ SendFails
  BY <1>1, <1>7
     DEF vars, Write, Respond, Send, SendPlain, Written, WantSend, WakeSend, BadRetry, SendFails
<1> QED
  BY <1>2, <1>3, <1>4, <1>5, <1>6, <1>7 DEF Next

\* bytestream_ssl_recv_more() never lets SSL_read() write behind the buffer.
THEOREM RoomStays == Spec => []RoomForRead
<1>1. RecvInv => RoomForRead
  BY Zenon DEF RecvInv
<1> QED
  BY <1>1, RecvInvInit, RecvInvNext, PTL DEF Spec

-----------------------------------------------------------------------------
(* Sending.                                                                *)

SendTypes ==
    /\ out \in Seq(Nat) /\ given \in Seq(Nat) /\ taken \in Seq(Nat) /\ retry \in Seq(Nat)
    /\ pos \in Nat /\ sz \in Nat /\ pos <= Len(out)
    /\ spc \in {"idle", "call", "wait", "dead"}

\* What was given, g, is what was taken, t, followed by what is in the stream, o,
\* from p on.
Follows(g, t, o, p) ==
    /\ Len(g) = Len(t) + (Len(o) - p)
    /\ \A i \in 1 .. Len(t) : g[i] = t[i]
    /\ \A i \in 1 .. (Len(o) - p) : g[Len(t) + i] = o[p + i]

\* RetryIsSame and the pipe made inductive.
Sound ==
    /\ SendTypes
    /\ spc \in {"call", "wait"} => /\ sz > 0 /\ pos + sz <= Len(out)
                                   /\ retry = SubSeq(out, pos + 1, pos + sz)
    /\ spc # "dead" => Follows(given, taken, out, pos)

SendInv == plain \in BOOLEAN /\ (~plain => Sound)

LEMMA SendInvInit == Init => SendInv
<1> SUFFICES ASSUME Init PROVE SendInv
  BY Zenon
<1>1. Sound
  BY DEF Init, Sound, SendTypes, Follows
<1> QED
  BY <1>1, Zenon DEF Init, SendInv

\* Facts about sequences of bytes.
LEMMA Joined ==
    ASSUME NEW s \in Seq(Nat), NEW t \in Seq(Nat)
    PROVE  /\ s \o t \in Seq(Nat) /\ Len(s \o t) = Len(s) + Len(t)
           /\ \A i \in 1 .. Len(s) : (s \o t)[i] = s[i]
           /\ \A i \in 1 .. Len(t) : (s \o t)[Len(s) + i] = t[i]
  OBVIOUS

LEMMA Part ==
    ASSUME NEW s \in Seq(Nat), NEW p \in Nat, NEW n \in Nat, p + n <= Len(s)
    PROVE  /\ SubSeq(s, p + 1, p + n) \in Seq(Nat) /\ Len(SubSeq(s, p + 1, p + n)) = n
           /\ \A i \in 1 .. n : SubSeq(s, p + 1, p + n)[i] = s[p + i]
<1> DEFINE lo == p + 1
           hi == p + n
           a == SubSeq(s, lo, hi)
<1>1. \A i \in lo .. hi : s[i] \in Nat
  OBVIOUS
<1>2. /\ lo \in Int /\ hi \in Int
      /\ lo <= hi => hi - lo + 1 = n
      /\ ~(lo <= hi) => n = 0
      /\ hi - lo + 1 = n
      /\ \A i \in 1 .. n : lo + i - 1 = p + i
  OBVIOUS
<1> HIDE DEF lo, hi
<1>3. /\ SubSeq(s, lo, hi) \in Seq(Nat)
      /\ Len(SubSeq(s, lo, hi)) = IF lo <= hi THEN hi - lo + 1 ELSE 0
      /\ \A i \in 1 .. hi - lo + 1 : SubSeq(s, lo, hi)[i] = s[lo + i - 1]
  BY <1>1, <1>2, SMTT(30)
<1>4. a \in Seq(Nat) /\ Len(a) = n /\ \A i \in 1 .. n : a[i] = s[lo + i - 1]
  <2> HIDE DEF a
  <2>1. a = SubSeq(s, lo, hi)
    BY Zenon DEF a
  <2> QED
    BY <1>2, <1>3, <2>1, Zenon
<1> HIDE DEF a
<1>5. \A i \in 1 .. n : a[i] = s[p + i]
  BY <1>2, <1>4, Zenon
<1> QED
  BY <1>4, <1>5 DEF a, lo, hi

\* What is written behind the argument of SSL_write() does not change it.
LEMMA ArgumentStays ==
    ASSUME NEW s \in Seq(Nat), NEW t \in Seq(Nat), NEW p \in Nat, NEW n \in Nat,
           p + n <= Len(s)
    PROVE  SubSeq(s \o t, p + 1, p + n) = SubSeq(s, p + 1, p + n)
  OBVIOUS

\* A request is written to the end of the stream.
LEMMA FollowsWrite ==
    ASSUME NEW g \in Seq(Nat), NEW t \in Seq(Nat), NEW o \in Seq(Nat), NEW p \in Nat,
           p <= Len(o), NEW b \in Seq(Nat), Follows(g, t, o, p)
    PROVE  Follows(g \o b, t, o \o b, p)
<1> DEFINE gb == g \o b
           ob == o \o b
<1>1. /\ Len(gb) = Len(g) + Len(b) /\ Len(ob) = Len(o) + Len(b)
      /\ \A i \in 1 .. Len(g) : gb[i] = g[i]
      /\ \A i \in 1 .. Len(o) : ob[i] = o[i]
      /\ \A i \in 1 .. Len(b) : gb[Len(g) + i] = b[i] /\ ob[Len(o) + i] = b[i]
  <2>1. /\ Len(gb) = Len(g) + Len(b) /\ \A i \in 1 .. Len(g) : gb[i] = g[i]
        /\ \A i \in 1 .. Len(b) : gb[Len(g) + i] = b[i]
    BY Joined, Zenon
  <2>2. /\ Len(ob) = Len(o) + Len(b) /\ \A i \in 1 .. Len(o) : ob[i] = o[i]
        /\ \A i \in 1 .. Len(b) : ob[Len(o) + i] = b[i]
    BY Joined, Zenon
  <2> HIDE DEF gb, ob
  <2> QED
    BY <2>1, <2>2, Zenon
<1>2. /\ Len(g) \in Nat /\ Len(t) \in Nat /\ Len(o) \in Nat /\ Len(b) \in Nat
      /\ Len(g) = Len(t) + (Len(o) - p)
  BY DEF Follows
<1> HIDE DEF gb, ob
<1>3. Len(gb) = Len(t) + (Len(ob) - p)
  BY <1>1, <1>2
<1>4. ASSUME NEW i \in 1 .. Len(t) PROVE gb[i] = t[i]
  <2>1. i \in 1 .. Len(g)
    BY <1>2
  <2>2. g[i] = t[i]
    BY Zenon DEF Follows
  <2> QED
    BY <1>1, <2>1, <2>2
<1>5. ASSUME NEW i \in 1 .. (Len(ob) - p) PROVE gb[Len(t) + i] = ob[p + i]
  <2>1. CASE i <= Len(o) - p
    <3>1. /\ i \in 1 .. (Len(o) - p)
          /\ Len(t) + i \in 1 .. Len(g) /\ p + i \in 1 .. Len(o)
      BY <1>1, <1>2, <2>1, SMTT(30)
    <3>2. g[Len(t) + i] = o[p + i]
      BY <3>1, Zenon DEF Follows
    <3> QED
      BY <1>1, <3>1, <3>2, Zenon
  <2>2. CASE i > Len(o) - p
    <3> DEFINE j == i - (Len(o) - p)
    <3>1. j \in 1 .. Len(b) /\ Len(t) + i = Len(g) + j /\ p + i = Len(o) + j
      BY <1>1, <1>2, <2>2
    <3> HIDE DEF j
    <3> QED
      BY <1>1, <3>1, SMTT(30)
  <2> QED
    BY <1>1, <1>2, <2>1, <2>2, SMTT(30)
<1>6. Follows(gb, t, ob, p)
  BY <1>3, <1>4, <1>5 DEF Follows
<1> QED
  BY <1>6 DEF gb, ob

\* n bytes are taken from the stream.
LEMMA FollowsTake ==
    ASSUME NEW g \in Seq(Nat), NEW t \in Seq(Nat), NEW o \in Seq(Nat), NEW p \in Nat,
           NEW n \in Nat, p + n <= Len(o), Follows(g, t, o, p)
    PROVE  Follows(g, t \o SubSeq(o, p + 1, p + n), o, p + n)
<1> DEFINE a == SubSeq(o, p + 1, p + n)
           ta == t \o a
<1>1. a \in Seq(Nat) /\ Len(a) = n /\ \A i \in 1 .. n : a[i] = o[p + i]
  BY Part, Zenon
<1> HIDE DEF a
<1>2. /\ Len(ta) = Len(t) + n
      /\ \A i \in 1 .. Len(t) : ta[i] = t[i]
      /\ \A i \in 1 .. n : ta[Len(t) + i] = a[i]
  BY <1>1, Joined, Zenon
<1>3. /\ Len(g) \in Nat /\ Len(t) \in Nat /\ Len(o) \in Nat
      /\ Len(g) = Len(t) + (Len(o) - p)
  BY DEF Follows
<1> HIDE DEF ta
<1>4. ASSUME NEW i \in 1 .. Len(ta) PROVE g[i] = ta[i]
  <2>1. CASE i <= Len(t)
    BY <1>2, <1>3, <2>1 DEF Follows
  <2>2. CASE i > Len(t)
    <3> DEFINE j == i - Len(t)
    <3>1. j \in 1 .. n /\ j \in 1 .. (Len(o) - p) /\ i = Len(t) + j
      BY <1>2, <1>3, <2>2
    <3> HIDE DEF j
    <3> QED
      BY <1>1, <1>2, <3>1, Zenon DEF Follows
  <2> QED
    BY <1>2, <1>3, <2>1, <2>2, SMTT(30)
<1>5. ASSUME NEW i \in 1 .. (Len(o) - (p + n)) PROVE g[Len(ta) + i] = o[(p + n) + i]
  <2> DEFINE j == n + i
  <2>1. j \in 1 .. (Len(o) - p) /\ Len(ta) + i = Len(t) + j /\ (p + n) + i = p + j
    BY <1>2, <1>3
  <2> HIDE DEF j
  <2> QED
    BY <2>1, Zenon DEF Follows
<1>6. Follows(g, ta, o, p + n)
  BY <1>2, <1>3, <1>4, <1>5 DEF Follows
<1> QED
  BY <1>6, Zenon DEF a, ta

\* A stream of which all is sent is as good as an empty one.
LEMMA FollowsRewind ==
    ASSUME NEW g \in Seq(Nat), NEW t \in Seq(Nat), NEW o \in Seq(Nat),
           Follows(g, t, o, Len(o))
    PROVE  Follows(g, t, <<>>, 0)
<1>1. Len(g) = Len(t) /\ Len(<<>>) = 0
  BY DEF Follows
<1>2. \A i \in 1 .. Len(t) : g[i] = t[i]
  BY Zenon DEF Follows
<1>3. 1 .. (Len(<<>>) - 0) = {}
  BY <1>1
<1>4. Len(g) = Len(t) + (Len(<<>>) - 0)
  BY <1>1
<1> QED
  BY <1>2, <1>3, <1>4 DEF Follows

\* What a write of mnhttpc_request_finalize() does to the stream.
LEMMA WriteKeeps ==
    ASSUME Sound, NEW n \in 1 .. MaxBytes, Write(n)
    PROVE  Sound'
<1> DEFINE new == [i \in 1 .. n |-> Len(given) + i]
<1>1. new \in Seq(Nat)
  BY DEF Sound, SendTypes
<1>2. /\ out' = out \o new /\ given' = given \o new
      /\ pos' = pos /\ spc' = spc /\ sz' = sz /\ retry' = retry /\ taken' = taken
      /\ spc # "dead"
  BY Zenon DEF Write
<1> HIDE DEF new
<1>3. SendTypes
  BY Zenon DEF Sound
<1>4. out' \in Seq(Nat) /\ given' \in Seq(Nat) /\ Len(out') = Len(out) + Len(new)
  BY <1>1, <1>2, <1>3, Joined DEF SendTypes
<1>5. SendTypes'
  BY <1>1, <1>2, <1>3, <1>4 DEF SendTypes
<1>6. ASSUME spc \in {"call", "wait"}
      PROVE  sz > 0 /\ pos + sz <= Len(out') /\ retry = SubSeq(out', pos + 1, pos + sz)
  <2>1. sz > 0 /\ pos + sz <= Len(out) /\ retry = SubSeq(out, pos + 1, pos + sz)
    BY <1>6, Zenon DEF Sound
  <2>2. SubSeq(out', pos + 1, pos + sz) = SubSeq(out, pos + 1, pos + sz)
    BY <1>1, <1>2, <1>3, <2>1, ArgumentStays DEF SendTypes
  <2>3. Len(new) \in Nat /\ Len(out) \in Nat /\ pos \in Nat /\ sz \in Nat
    BY <1>1, <1>3 DEF SendTypes
  <2>4. pos + sz <= Len(out')
    BY <1>4, <2>1, <2>3
  <2> QED
    BY <2>1, <2>2, <2>4
<1>7. Follows(given', taken', out', pos')
  <2>1. Follows(given, taken, out, pos)
    BY <1>2 DEF Sound
  <2> QED
    BY <1>1, <1>2, <1>3, <2>1, FollowsWrite, SMTT(30) DEF SendTypes
<1> QED
  BY <1>2, <1>5, <1>6, <1>7, Zenon DEF Sound

\* SSL_write() takes its argument, the first bytes that are not sent.
LEMMA WrittenTakes ==
    ASSUME Sound, Written
    PROVE  /\ taken' = taken \o SubSeq(out, pos + 1, pos + sz)
           /\ SendTypes /\ sz > 0 /\ pos + sz <= Len(out)
           /\ Follows(given, taken, out, pos)
  BY Zenon DEF Sound, Written

LEMMA WrittenKeeps ==
    ASSUME Sound, Written
    PROVE  Sound'
<1> DEFINE a == SubSeq(out, pos + 1, pos + sz)
<1>1. taken' = taken \o a /\ SendTypes /\ sz > 0 /\ pos + sz <= Len(out)
  BY WrittenTakes, Zenon
<1>2. Follows(given, taken \o a, out, pos + sz)
  BY <1>1, WrittenTakes, FollowsTake DEF SendTypes
<1>3. a \in Seq(Nat)
  BY <1>1, Part DEF SendTypes
<1> HIDE DEF a
<1>4. retry' = <<>> /\ sz' = 0 /\ spc' = "idle" /\ given' = given
  BY Zenon DEF Written
<1>5. taken' \in Seq(Nat)
  BY <1>1, <1>3, Joined DEF SendTypes
<1>6. CASE pos + sz >= Len(out)
  <2>1. out' = <<>> /\ pos' = 0
    BY <1>6 DEF Written, Advance
  <2>2. SendTypes'
    BY <1>1, <1>4, <1>5, <2>1, SMTT(30) DEF SendTypes
  <2>3. pos + sz = Len(out)
    BY <1>1, <1>6 DEF SendTypes
  <2>4. Follows(given, taken', <<>>, 0)
    BY <1>1, <1>2, <1>5, <2>3, FollowsRewind DEF SendTypes
  <2> QED
    BY <1>4, <2>1, <2>2, <2>4, SMTT(30) DEF Sound
<1>7. CASE ~(pos + sz >= Len(out))
  <2>1. out' = out /\ pos' = pos + sz
    BY <1>7 DEF Written, Advance
  <2>2. SendTypes'
    BY <1>1, <1>4, <1>5, <2>1, SMTT(30) DEF SendTypes
  <2> QED
    BY <1>1, <1>2, <1>4, <2>1, <2>2 DEF Sound
<1> QED
  BY <1>6, <1>7

LEMMA SendInvNext == SendInv /\ [Next]_vars => SendInv'
<1> SUFFICES ASSUME SendInv, [Next]_vars PROVE SendInv'
  BY Zenon
<1>0. CASE Gc
  BY <1>0, Zenon DEF Gc, SendInv
<1>1. CASE UNCHANGED <<plain, sendVars>>
  BY <1>1, Zenon DEF sendVars, SendInv, Sound, SendTypes
<1>2. CASE \/ UNCHANGED vars
           \/ Recv \/ RecvPlain \/ (\E n \in 1 .. Block : Read(n)) \/ WantRecv \/ WakeRecv
           \/ RecvFails \/ \E n \in 0 .. MaxIn + Block : Recycle(n)
  BY <1>1, <1>2, SMTT(30)
     DEF vars, Recv, RecvPlain, Read, WantRecv, WakeRecv, RecvFails, Recycle
<1>3. CASE \/ \E n \in 1 .. MaxBytes : Write(n)
           \/ Respond \/ Send \/ SendPlain \/ Written \/ WantSend \/ WakeSend \/ BadRetry
           \/ SendFails
  <2>1. plain' = plain
    BY <1>3, Zenon
       DEF Write, Respond, Send, SendPlain, Written, WantSend, WakeSend, BadRetry, SendFails
  <2> SUFFICES ASSUME ~plain PROVE Sound'
    BY <2>1, Zenon DEF SendInv
  <2>2. Sound
    BY Zenon DEF SendInv
  <2>3. ASSUME NEW n \in 1 .. MaxBytes, Write(n) PROVE Sound'
    BY <2>2, <2>3, WriteKeeps, Zenon
  <2>4. CASE Written
    BY <2>2, <2>4, WrittenKeeps, Zenon
  <2>5. CASE Respond \/ WantSend \/ WakeSend
    BY <2>2, <2>5 DEF Respond, WantSend, WakeSend, Sound, SendTypes
  <2>6. CASE SendPlain \/ BadRetry \/ SendFails
    BY <2>2, <2>6 DEF SendPlain, BadRetry, SendFails, Sound, SendTypes
  <2>7. CASE Send
    <3>1. /\ spc = "idle" /\ pos < Len(out) /\ sz' = Len(out) - pos /\ spc' = "call"
          /\ retry' = SubSeq(out, pos + 1, Len(out)) /\ UNCHANGED <<out, pos, given, taken>>
      BY <2>7, Zenon DEF Send
    <3> DEFINE n == Len(out) - pos
    <3>2. pos + n = Len(out) /\ n \in Nat /\ n > 0 /\ pos + n <= Len(out) /\ pos \in Nat
      BY <2>2, <3>1 DEF Sound, SendTypes
    <3>3. sz' = n /\ retry' = SubSeq(out, pos + 1, pos + n)
      BY <3>1, <3>2, Zenon
    <3> HIDE DEF n
    <3>4. retry' \in Seq(Nat)
      BY <2>2, <3>2, <3>3, Part DEF Sound, SendTypes
    <3>5. SendTypes'
      BY <2>2, <3>1, <3>2, <3>3, <3>4 DEF Sound, SendTypes
    <3> QED
      BY <2>2, <3>1, <3>2, <3>3, <3>5, Zenon DEF Sound
  <2> QED
    BY <1>3, <2>3, <2>4, <2>5, <2>6, <2>7, Zenon
<1> QED
  BY <1>0, <1>2, <1>3, SMTT(30) DEF Next

\* bytestream_ssl_send() repeats a write with the same bytes, whatever was written
\* to the stream while it waited, until mnhttpc_gc() makes the stream a plain one.
THEOREM RepeatsTheWrite == Spec => []RetryIsSame
<1>1. SendInv => RetryIsSame
  BY Zenon DEF SendInv, Sound, RetryIsSame
<1> QED
  BY <1>1, SendInvInit, SendInvNext, PTL DEF Spec

-----------------------------------------------------------------------------
(* The stream is a byte pipe.                                              *)

LEMMA JoinedExtends ==
    ASSUME NEW s \in Seq(Nat), NEW t \in Seq(Nat), Len(t) > 0
    PROVE  Pipe!IsStrictPrefix(s, s \o t)
<1>1. Len(s \o t) = Len(s) + Len(t) /\ Len(s) \in Nat /\ Len(t) \in Nat
  BY Joined
<1>2. SubSeq(s \o t, 1, Len(s)) = SubSeq(s, 1, Len(s))
  BY Joined
<1>3. s # s \o t /\ Len(s) <= Len(s \o t)
  BY <1>1
<1> QED
  BY <1>2, <1>3 DEF Pipe!IsStrictPrefix, Pipe!IsPrefix

\* What was taken is the beginning of what was given.
LEMMA TakenIsFirst ==
    ASSUME NEW g \in Seq(Nat), NEW t \in Seq(Nat), NEW o \in Seq(Nat), NEW p \in Nat,
           p <= Len(o), Follows(g, t, o, p)
    PROVE  t = SubSeq(g, 1, Len(t)) /\ Len(t) <= Len(g)
<1>1. Len(t) <= Len(g) /\ Len(t) \in Nat /\ Len(g) \in Nat
  BY DEF Follows
<1> DEFINE a == SubSeq(g, 1, Len(t))
<1>2. /\ a \in Seq(Nat) /\ Len(a) = Len(t)
      /\ \A i \in 1 .. Len(t) : a[i] = g[i]
  BY <1>1
<1> HIDE DEF a
<1>3. \A i \in 1 .. Len(t) : a[i] = t[i]
  BY <1>2 DEF Follows
<1>4. t = a
  <2>1. t = [i \in 1 .. Len(t) |-> t[i]]
    OBVIOUS
  <2>2. a = [i \in 1 .. Len(a) |-> a[i]]
    BY <1>2
  <2>3. [i \in 1 .. Len(t) |-> t[i]] = [i \in 1 .. Len(a) |-> a[i]]
    BY <1>2, <1>3, Zenon
  <2> QED
    BY <2>1, <2>2, <2>3, Zenon
<1> QED
  BY <1>1, <1>4 DEF a

LEMMA PipeInit == Init => Pipe!Init
  BY DEF Init, Pipe!Init

LEMMA PipeNext == SendInv /\ SendInv' /\ [Next]_vars => [Pipe!Next]_(Pipe!vars)
<1> SUFFICES ASSUME SendInv, SendInv', [Next]_vars
             PROVE  \/ Pipe!Next
                    \/ UNCHANGED <<given, taken>>
                       /\ (spc = "dead" \/ plain)' = (spc = "dead" \/ plain)
  BY Zenon DEF Pipe!vars
<1>0. CASE plain
  <2>1. UNCHANGED plain \/ plain' = TRUE
    BY ZenonT(30)
       DEF Next, vars, Write, Respond, Gc, Send, SendPlain, Written, WantSend, WakeSend, BadRetry,
           SendFails, Recv, RecvPlain, Read, WantRecv, WakeRecv, RecvFails, Recycle
  <2> QED
    BY <1>0, <2>1 DEF Pipe!Broken, Pipe!Next
<1> SUFFICES ASSUME ~plain
             PROVE  \/ Pipe!Next
                    \/ UNCHANGED <<given, taken>>
                       /\ (spc = "dead" \/ plain)' = (spc = "dead" \/ plain)
  BY <1>0, Zenon
<1>s. Sound
  BY Zenon DEF SendInv
<1>1. ASSUME NEW n \in 1 .. MaxBytes, Write(n) PROVE Pipe!Give
  <2> DEFINE new == [i \in 1 .. n |-> Len(given) + i]
  <2>1. new \in Seq(Nat) /\ Len(new) > 0
    BY <1>s DEF Sound, SendTypes
  <2>2. given' = given \o new /\ spc # "dead" /\ UNCHANGED <<taken, spc, plain>>
    BY <1>1, Zenon DEF Write
  <2> HIDE DEF new
  <2>3. Pipe!IsStrictPrefix(given, given')
    BY <1>s, <2>1, <2>2, JoinedExtends, SMTT(30) DEF Sound, SendTypes
  <2> QED
    BY <2>2, <2>3 DEF Pipe!Give
<1>2. CASE Written
  <2>1. spc = "call" /\ spc' = "idle" /\ given' = given /\ plain' = plain
    BY <1>2, Zenon DEF Written
  <2>0. Sound'
    BY <2>1, Zenon DEF SendInv
  <2>2. taken' = SubSeq(given, 1, Len(taken')) /\ Len(taken') <= Len(given)
    BY <2>0, <2>1, TakenIsFirst DEF Sound, SendTypes
  <2>3. Len(taken') = Len(taken) + sz /\ sz \in Nat /\ sz > 0
    <3> DEFINE a == SubSeq(out, pos + 1, pos + sz)
    <3>1. taken' = taken \o a /\ SendTypes /\ sz > 0 /\ pos + sz <= Len(out)
      BY <1>s, <1>2, WrittenTakes, Zenon
    <3>2. a \in Seq(Nat) /\ Len(a) = sz
      BY <3>1, Part DEF SendTypes
    <3> HIDE DEF a
    <3> QED
      BY <3>1, <3>2, Joined DEF SendTypes
  <2>4. Len(taken') \in Len(taken) + 1 .. Len(given)
    BY <1>s, <2>1, <2>2, <2>3, SMTT(30) DEF Sound, SendTypes
  <2> QED
    BY <2>1, <2>2, <2>4 DEF Pipe!Take, Pipe!Next
<1>3. CASE SendPlain \/ BadRetry \/ SendFails
  BY <1>3 DEF SendPlain, BadRetry, SendFails, Pipe!Break, Pipe!Next
<1>4. CASE Gc
  <2>1. plain' /\ UNCHANGED <<given, taken, spc>>
    BY <1>4 DEF Gc
  <2> QED
    BY <2>1 DEF Pipe!Break, Pipe!Broken, Pipe!Next
<1>5. CASE Send \/ WantSend \/ WakeSend
  BY <1>5, SMTT(30) DEF Send, WantSend, WakeSend
<1>6. CASE \/ UNCHANGED vars \/ Respond
           \/ Recv \/ RecvPlain \/ (\E n \in 1 .. Block : Read(n)) \/ WantRecv \/ WakeRecv
           \/ RecvFails \/ \E n \in 0 .. MaxIn + Block : Recycle(n)
  BY <1>6
     DEF vars, sendVars, Respond, Recv, RecvPlain, Read, WantRecv, WakeRecv, RecvFails, Recycle
<1> QED
  BY <1>1, <1>2, <1>3, <1>4, <1>5, <1>6 DEF Next, Pipe!Next

\* Whatever the waits and the writes of other threads, the bytes that are given to
\* the stream are sent in their order, each once, until the connection fails or
\* mnhttpc_gc() is called.
THEOREM PipeIsKept == Spec => Pipe!Init /\ [][Pipe!Next]_(Pipe!vars)
  BY PipeInit, PipeNext, SendInvInit, SendInvNext, PTL DEF Spec
=============================================================================
