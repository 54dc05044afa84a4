------------------------------- MODULE Daemonize -------------------------------
(***************************************************************************)
(* daemonize(): programs that call it with the same pidfile or with none,  *)
(* one after the other or at the same time.  Processes may die at any      *)
(* point, and the kernel then drops their locks.  A file is a sequence of  *)
(* characters, of which only the digits of process IDs are of interest.    *)
(***************************************************************************)
EXTENDS Integers, Sequences

CONSTANTS Procs,        \* the programs
          NoProc,       \* no program
          Pid,          \* the digits of the process ID of each daemon
          Files,        \* names for stdoutfile and stderrfile; NULL stands for
                        \* "/dev/null"
          MaxFd,        \* bound: the largest descriptor
          Default,      \* how many descriptors are closed without a limit: 1024
          Limits,       \* values of rlim_cur
          Callers       \* the descriptors that callers have open: sets of them

NoLimit == -1           \* RLIM_INFINITY, or getrlimit() fails
Fds == 0 .. MaxFd

ASSUME DaemonAssumption ==
    /\ NoProc \notin Procs
    /\ Pid \in [Procs -> Seq(0 .. 9) \ {<<>>}]
    /\ Files \subseteq STRING \ {"closed", "caller", "pidfile"}
    /\ MaxFd \in Nat /\ Default \in 4 .. MaxFd
    /\ \A n \in Limits : n \in Nat /\ n >= 3
    /\ Callers \subseteq SUBSET Fds

VARIABLES exlock,   \* is O_EXLOCK defined where the programs were built?
          args,     \* pidfile, stdoutfile and stderrfile of each program
          pc,       \* where each program is in daemonize()
          rlim,     \* its limit of open files
          fds,      \* the file that each of its descriptors refers to
          leader,   \* is it the leader of its session?
          umask,    \* its file mode creation mask: its "own" one, or "0"
          cwd,      \* its working directory: its "own" one, or "/"
          content,  \* what is in the pidfile
          lock,     \* the holder of the lock on the pidfile
          off       \* where each program will write to the pidfile

daemonVars == <<exlock, args, rlim, pc, fds, leader, umask, cwd, content, lock, off>>
fileVars == <<content, lock, off>>

\* The pidfile is the one that all programs share, or NULL.
Args == [pidfile : {"NULL", "pidfile"}, out : Files, err : Files]

DaemonInit ==
    /\ exlock \in BOOLEAN
    /\ args \in [Procs -> Args]
    /\ rlim \in [Procs -> Limits \cup {NoLimit}]
    /\ pc = [p \in Procs |-> "call"]
    /\ \E open \in [Procs -> Callers] :
         fds = [p \in Procs |-> [d \in Fds |-> IF d \in open[p] THEN "caller" ELSE "closed"]]
    /\ leader = [p \in Procs |-> FALSE]
    /\ umask = [p \in Procs |-> "own"] /\ cwd = [p \in Procs |-> "own"]
    /\ content = <<>> /\ lock = NoProc
    /\ off = [p \in Procs |-> 0]

To(p, where) == pc' = [pc EXCEPT ![p] = where]

\* The process is gone, and its lock with it.
Die(p) ==
    /\ To(p, "gone")
    /\ lock' = IF lock = p THEN NoProc ELSE lock

\* The first fork: the child is in the session of its parent.  It makes a
\* session of its own, and the second child is not the leader of that one.
Fork(p) ==
    /\ pc[p] = "call"
    /\ To(p, "session")
    /\ UNCHANGED <<fds, leader, umask, cwd, fileVars>>

Setsid(p) ==
    /\ pc[p] = "session"
    /\ umask' = [umask EXCEPT ![p] = "0"]
    /\ leader' = [leader EXCEPT ![p] = TRUE]
    /\ To(p, "fork")
    /\ UNCHANGED <<fds, cwd, fileVars>>

ForkAgain(p) ==
    /\ pc[p] = "fork"
    /\ leader' = [leader EXCEPT ![p] = FALSE]
    /\ To(p, "files")
    /\ UNCHANGED <<fds, umask, cwd, fileVars>>

nfiles(p) == IF rlim[p] = NoLimit THEN Default ELSE rlim[p]

\* Mutant: the loop stops a descriptor early.
CloseAllButLast(p) ==
    /\ pc[p] = "files"
    /\ fds' = [fds EXCEPT ![p] = [d \in Fds |-> IF d < nfiles(p) - 1 THEN "closed" ELSE @[d]]]
    /\ To(p, "stdin")
    /\ UNCHANGED <<leader, umask, cwd, fileVars>>

CloseAll(p) ==
    /\ pc[p] = "files"
    /\ fds' = [fds EXCEPT ![p] = [d \in Fds |-> IF d < nfiles(p) THEN "closed" ELSE @[d]]]
    /\ To(p, "stdin")
    /\ UNCHANGED <<leader, umask, cwd, fileVars>>

\* open() takes the lowest descriptor that is closed, if the limit allows it.
IsLowest(f, d) == d \in Fds /\ f[d] = "closed" /\ \A e \in Fds : f[e] = "closed" => d <= e
Opens(p, d, name) ==
    /\ IsLowest(fds[p], d) /\ (rlim[p] = NoLimit \/ d < rlim[p])
    /\ fds' = [fds EXCEPT ![p][d] = name]

dup2(p, old, new) == fds' = [fds EXCEPT ![p][new] = fds[p][old]]

\* Descriptors 0, 1 and 2 are opened in this order.  A program that gets another
\* one dies in an assertion.
OpenStdin(p) ==
    /\ pc[p] = "stdin"
    /\ Opens(p, 0, "/dev/null")
    /\ To(p, "stdout")
    /\ UNCHANGED <<leader, umask, cwd, fileVars>>

OpenStdout(p) ==
    /\ pc[p] = "stdout"
    /\ IF args[p].out = "/dev/null" THEN dup2(p, 0, 1) ELSE Opens(p, 1, args[p].out)
    /\ To(p, "stderr")
    /\ UNCHANGED <<leader, umask, cwd, fileVars>>

\* Without a pidfile daemonize() returns.
OpenStderr(p) ==
    /\ pc[p] = "stderr"
    /\ IF args[p].err = args[p].out THEN dup2(p, 1, 2) ELSE Opens(p, 2, args[p].err)
    /\ umask' = [umask EXCEPT ![p] = "own"]
    /\ To(p, IF args[p].pidfile = "NULL" THEN "run" ELSE "pidfile")
    /\ UNCHANGED <<leader, cwd, fileVars>>

\* Mutant: the file is truncated before it is locked.
OpenExlockTruncates(p) ==
    /\ pc[p] = "pidfile" /\ exlock
    /\ content' = <<>>
    /\ IF lock = NoProc
         THEN /\ lock' = p /\ To(p, "write")
              /\ \E d \in Fds : Opens(p, d, "pidfile")
         ELSE Die(p) /\ UNCHANGED fds
    /\ UNCHANGED <<leader, umask, cwd, off>>

\* With O_EXLOCK: open, lock and, once locked, truncate.
OpenExlock(p) ==
    /\ pc[p] = "pidfile" /\ exlock
    /\ IF lock = NoProc
         THEN /\ lock' = p /\ content' = <<>> /\ To(p, "write")
              /\ \E d \in Fds : Opens(p, d, "pidfile")
         ELSE Die(p) /\ UNCHANGED <<content, fds>>
    /\ UNCHANGED <<leader, umask, cwd, off>>

\* Without: open, then flock(), then seek to the end.
Open(p) ==
    /\ pc[p] = "pidfile" /\ ~exlock
    /\ \E d \in Fds : Opens(p, d, "pidfile")
    /\ To(p, "lock")
    /\ UNCHANGED <<leader, umask, cwd, content, lock, off>>

\* Mutant: the result of flock() is not looked at.
FlockUnchecked(p) ==
    /\ pc[p] = "lock"
    /\ lock' = IF lock = NoProc THEN p ELSE lock
    /\ To(p, "seek")
    /\ UNCHANGED <<fds, leader, umask, cwd, content, off>>

Flock(p) ==
    /\ pc[p] = "lock"
    /\ IF lock = NoProc THEN lock' = p /\ To(p, "seek") ELSE Die(p)
    /\ UNCHANGED <<fds, leader, umask, cwd, content, off>>

Seek(p) ==
    /\ pc[p] = "seek"
    /\ off' = [off EXCEPT ![p] = Len(content)]
    /\ To(p, "write")
    /\ UNCHANGED <<fds, leader, umask, cwd, content, lock>>

\* write() at the offset, of the digits alone; then fsync() and chdir(), and
\* daemonize() returns.
WritePid(p) ==
    /\ pc[p] = "write"
    /\ content' = SubSeq(content, 1, off[p]) \o Pid[p]
                      \o SubSeq(content, off[p] + Len(Pid[p]) + 1, Len(content))
    /\ cwd' = [cwd EXCEPT ![p] = "/"]
    /\ To(p, "run")
    /\ UNCHANGED <<fds, leader, umask, lock, off>>

\* A signal, a failed assertion, or exit(1) where a file cannot be opened.
Crash(p) ==
    /\ pc[p] # "gone"
    /\ Die(p)
    /\ UNCHANGED <<fds, leader, umask, cwd, content, off>>

Program(p) ==
    \/ Fork(p) \/ Setsid(p) \/ ForkAgain(p) \/ CloseAll(p)
    \/ OpenStdin(p) \/ OpenStdout(p) \/ OpenStderr(p)
    \/ OpenExlock(p) \/ Open(p) \/ Flock(p) \/ Seek(p) \/ WritePid(p)
    \/ Crash(p)

DaemonNext == \E p \in Procs : Program(p) /\ UNCHANGED <<exlock, args, rlim>>

DaemonSpec == DaemonInit /\ [][DaemonNext]_daemonVars

-----------------------------------------------------------------------------
\* Programs beyond the lock of the pidfile, and daemons that have written it.
Locked(p) == args[p].pidfile # "NULL" /\ pc[p] \in {"seek", "write", "run"}
Daemon(p) == args[p].pidfile # "NULL" /\ pc[p] = "run"

\* One program at a time gets beyond the lock of the pidfile, however the calls
\* of daemonize() and crashes of the programs interleave.
OneDaemon == \A p, q \in Procs : Locked(p) /\ Locked(q) => p = q

\* The pidfile ends in the process ID of the running daemon, behind what the
\* daemon found there when it had the lock: nobody has written into the file
\* since.  Where O_EXLOCK is defined, or the file was empty, that is all there is;
\* otherwise the digits of an earlier daemon run together with it.
PidfileNamesDaemon ==
    \A p \in Procs : Daemon(p) =>
        /\ SubSeq(content, off[p] + 1, Len(content)) = Pid[p]
        /\ exlock \/ off[p] = 0 => content = Pid[p]

\* A program that daemonize() has returned to cannot acquire a controlling
\* terminal, and its output goes where the caller said, although open() is not
\* told which descriptor to take.  A daemon keeps the file that it has locked
\* open, as 3.  Of its caller's files it has only those from nfiles on, which is
\* none if all are below its limit, but those from 1024 on if it has no limit.  It
\* has its umask back, and if it has a pidfile, it is in "/".
Detached ==
    \A p \in Procs : pc[p] = "run" =>
        /\ ~leader[p] /\ umask[p] = "own"
        /\ fds[p][0] = "/dev/null" /\ fds[p][1] = args[p].out /\ fds[p][2] = args[p].err
        /\ {d \in Fds : fds[p][d] = "pidfile"} = IF Daemon(p) THEN {3} ELSE {}
        /\ \A d \in Fds : fds[p][d] = "caller" => d >= nfiles(p)
        /\ cwd[p] = IF Daemon(p) THEN "/" ELSE "own"
=============================================================================
