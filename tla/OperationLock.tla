----------------------------- MODULE OperationLock -----------------------------
(***************************************************************************)
(* The lock that serializes every writer of one instance, across processes *)
(* (internal/manager/lock.go, lock_linux.go): an advisory lock on a file,  *)
(* tried without blocking and then polled until a deadline or until the    *)
(* caller cancels.                                                         *)
(*                                                                         *)
(* The kernel locks the file a process has open, its inode, not the path.  *)
(* A path that is removed and made again is another inode, which another   *)
(* process can lock at the same time; so the lock file lies outside the    *)
(* two roots an uninstall removes (paths_linux.go:4, paths.go:26-27).      *)
(***************************************************************************)
EXTENDS Naturals

CONSTANTS Procs,    \* processes
          Deadline, \* polls after which a waiter gives up: 2 s of 25 ms
          MaxInodes \* bound on the inodes the path may come to name

ASSUME DeadlineAssumption == Deadline \in Nat
ASSUME InodesAssumption == MaxInodes \in Nat \ {0}

VARIABLES
    pc,     \* per process: where it is in Acquire, or that it holds the lock
    fd,     \* per process: the inode it has open
    waited, \* per process: polls so far
    path,   \* the inode the lock path names
    locks,  \* per inode: the processes that hold its lock
    roots   \* whether the installation and manager roots exist

vars == <<pc, fd, waited, path, locks, roots>>

Inodes == 1..MaxInodes
NoFile == 0

Waiting == {"try", "poll"}

TypeOK == /\ pc \in [Procs -> {"idle", "try", "poll", "holding"}]
          /\ fd \in [Procs -> Inodes \cup {NoFile}]
          /\ waited \in [Procs -> 0..Deadline]
          /\ path \in Inodes
          /\ locks \in [Inodes -> SUBSET Procs]
          /\ roots \in BOOLEAN

Init == /\ pc = [p \in Procs |-> "idle"]
        /\ fd = [p \in Procs |-> NoFile]
        /\ waited = [p \in Procs |-> 0]
        /\ path = 1
        /\ locks = [i \in Inodes |-> {}]
        /\ roots \in BOOLEAN
-------------------------------------------------------------------------------
\* Acquire opens the file, making it when it is not there.  An earlier error,
\* or a context that is already cancelled, leaves nothing open.
Open(p) == /\ pc[p] = "idle"
           /\ pc' = [pc EXCEPT ![p] = "try"]
           /\ fd' = [fd EXCEPT ![p] = path]
           /\ waited' = [waited EXCEPT ![p] = 0]
           /\ UNCHANGED <<path, locks, roots>>

\* Mutant: a shared lock.
LocksShared(p) == /\ locks' = [locks EXCEPT ![fd[p]] = @ \cup {p}]
                  /\ pc' = [pc EXCEPT ![p] = "holding"]
                  /\ UNCHANGED <<fd, path, roots>>

\* flock(LOCK_EX | LOCK_NB) on the open file (external): at most one holder per
\* inode.
Locks(p) == /\ locks[fd[p]] = {}
            /\ locks' = [locks EXCEPT ![fd[p]] = {p}]
            /\ pc' = [pc EXCEPT ![p] = "holding"]
            /\ UNCHANGED <<fd, path, roots>>

\* Mutant: the descriptor stays open, and its lock held.
NotClosed(p) == /\ pc' = [pc EXCEPT ![p] = "idle"]
                /\ fd' = [fd EXCEPT ![p] = NoFile]
                /\ UNCHANGED <<waited, path, locks, roots>>

Closed(p) == /\ pc' = [pc EXCEPT ![p] = "idle"]
             /\ fd' = [fd EXCEPT ![p] = NoFile]
             /\ locks' = [i \in Inodes |-> locks[i] \ {p}]
             /\ UNCHANGED <<waited, path, roots>>

TryLock(p) == /\ pc[p] = "try"
              /\ \/ Locks(p) /\ UNCHANGED waited
                 \/ /\ locks[fd[p]] # {}
                    /\ pc' = [pc EXCEPT ![p] = "poll"]
                    /\ UNCHANGED <<fd, waited, path, locks, roots>>

\* Mutant: every poll sets the deadline anew.
PollAnew(p) == /\ pc[p] = "poll"
               /\ waited[p] < Deadline
               /\ waited' = [waited EXCEPT ![p] = 0]
               /\ \/ Locks(p)
                  \/ locks[fd[p]] # {} /\ UNCHANGED <<pc, fd, path, locks, roots>>

\* The ticker fires.  At the deadline both timers are ready, and the select may
\* still take this one.
Poll(p) == /\ pc[p] = "poll"
           /\ \/ /\ waited[p] < Deadline
                 /\ waited' = [waited EXCEPT ![p] = @ + 1]
                 /\ \/ Locks(p)
                    \/ locks[fd[p]] # {} /\ UNCHANGED <<pc, fd, path, locks, roots>>
              \/ waited[p] = Deadline /\ Locks(p) /\ UNCHANGED waited

\* The deadline: the caller is told that the instance is busy.
GiveUp(p) == pc[p] = "poll" /\ waited[p] = Deadline /\ Closed(p)

\* The caller's context ends, or locking fails for another reason than that the
\* lock is held.
Abandon(p) == pc[p] \in Waiting /\ Closed(p)

Release(p) == pc[p] = "holding" /\ Closed(p)

\* The process dies; the kernel closes what it had open.
Die(p) == pc[p] # "idle" /\ Closed(p)

\* Mutant: the lock file lies in a root the uninstall removes.
RemoveLockToo(p) == /\ pc[p] = "holding" /\ roots /\ roots' = FALSE
                    /\ path < MaxInodes /\ path' = path + 1
                    /\ UNCHANGED <<pc, fd, waited, locks>>

\* An uninstall removes the roots while it holds the lock, an install makes
\* them; the path of the lock keeps its inode.
RemoveRoots(p) == /\ pc[p] = "holding" /\ roots /\ roots' = FALSE
                  /\ UNCHANGED <<pc, fd, waited, path, locks>>
MakeRoots(p) == /\ pc[p] = "holding" /\ ~roots /\ roots' = TRUE
                /\ UNCHANGED <<pc, fd, waited, path, locks>>

Acquiring(p) == TryLock(p) \/ Poll(p) \/ GiveUp(p)

Next == \E p \in Procs : \/ Open(p) \/ Acquiring(p) \/ Abandon(p)
                         \/ Release(p) \/ Die(p)
                         \/ RemoveRoots(p) \/ MakeRoots(p)

\* A process in Acquire is scheduled; nothing makes a holder release.
Fairness == \A p \in Procs : WF_vars(Acquiring(p))

Spec == Init /\ [][Next]_vars /\ Fairness
-------------------------------------------------------------------------------
\* Two processes never both think they hold the instance, whatever inodes they
\* have open (lock.go:26, manager.go:99).
MutualExclusion ==
    \A p, q \in Procs : pc[p] = "holding" /\ pc[q] = "holding" => p = q

\* The lock is never held on behalf of a process that does not know it: one that
\* gave up, was cancelled or died does not block the others (lock.go:62-79).
NoOrphan == \A i \in Inodes : \A p \in locks[i] : pc[p] = "holding"

\* Every Acquire is answered, with the lock or with an error, even if the holder
\* never releases it (lock.go:55-69).
Answered == \A p \in Procs : pc[p] \in Waiting ~> pc[p] \notin Waiting

\* What mutual exclusion rests on: one inode, and a holder in its lock.
OneInode == /\ \A p \in Procs : fd[p] \in {NoFile, path}
            /\ \A p \in Procs : fd[p] = NoFile <=> pc[p] = "idle"
Exclusive == /\ \A p \in Procs : pc[p] = "holding" => locks[path] = {p}
             /\ \A i \in Inodes : i # path => locks[i] = {}
Inv == TypeOK /\ OneInode /\ Exclusive /\ NoOrphan
===============================================================================
