-------------------------- MODULE OperationLockProofs --------------------------
(***************************************************************************)
(* The instance lock excludes, for every number of processes, every        *)
(* deadline and every number of inodes.  The path names one inode for      *)
(* good, every process that has a file open has that inode open, and the   *)
(* kernel gives its lock to one of them.                                   *)
(***************************************************************************)
EXTENDS OperationLock, TLAPS

\* In the beginning no file is open and no lock held.
LEMMA InitInv == Init => Inv
  BY InodesAssumption, DeadlineAssumption
  DEF Init, Inv, TypeOK, OneInode, Exclusive, NoOrphan, Inodes, NoFile

\* Opening the lock file gives a process the inode the path names.
LEMMA OpenInv == ASSUME Inv, NEW p \in Procs, Open(p) PROVE Inv'
<1>1. TypeOK'
  BY DeadlineAssumption DEF Inv, TypeOK, Open
<1>2. OneInode'
  BY DEF Inv, TypeOK, OneInode, Open, NoFile, Inodes
<1>3. Exclusive' /\ NoOrphan'
  BY DEF Inv, TypeOK, Exclusive, NoOrphan, Open
<1> QED BY <1>1, <1>2, <1>3 DEF Inv

\* Taking the lock: nobody has it, so nobody holds.
LEMMA LocksInv ==
  ASSUME Inv, NEW p \in Procs, pc[p] \in Waiting, Locks(p),
         waited' \in [Procs -> 0..Deadline]
  PROVE  Inv'
<1>1. fd[p] = path /\ path \in Inodes /\ locks[path] = {}
  BY DEF Inv, TypeOK, OneInode, Locks, Waiting
<1>2. TypeOK'
  BY <1>1 DEF Inv, TypeOK, Locks
<1>3. OneInode'
  BY <1>1 DEF Inv, TypeOK, OneInode, Locks, Waiting
<1>4. \A q \in Procs : pc[q] # "holding"
  BY <1>1 DEF Inv, Exclusive
<1>5. Exclusive' /\ NoOrphan'
  BY <1>1, <1>4 DEF Inv, TypeOK, Exclusive, NoOrphan, Locks
<1> QED BY <1>2, <1>3, <1>5 DEF Inv

\* Closing gives up the file and whatever lock it carried.
LEMMA ClosedInv == ASSUME Inv, NEW p \in Procs, Closed(p) PROVE Inv'
<1>1. TypeOK'
  BY DEF Inv, TypeOK, Closed, NoFile
<1>2. OneInode'
  BY DEF Inv, TypeOK, OneInode, Closed, NoFile, Inodes
<1>3. NoOrphan'
  BY DEF Inv, TypeOK, NoOrphan, Closed
<1>4. Exclusive'
  BY DEF Inv, TypeOK, Exclusive, NoOrphan, Closed
<1> QED BY <1>1, <1>2, <1>3, <1>4 DEF Inv

\* Every step keeps the invariant.
LEMMA NextInv == Inv /\ [Next]_vars => Inv'
<1> SUFFICES ASSUME Inv, [Next]_vars PROVE Inv'
  OBVIOUS
<1>1. CASE UNCHANGED vars
  BY <1>1 DEF Inv, TypeOK, OneInode, Exclusive, NoOrphan, vars
<1>2. ASSUME NEW p \in Procs, Open(p) PROVE Inv'
  BY <1>2, OpenInv
<1>3. ASSUME NEW p \in Procs, TryLock(p) PROVE Inv'
  <2>1. CASE Locks(p) /\ UNCHANGED waited
    BY <1>3, <2>1, LocksInv DEF Inv, TypeOK, TryLock, Waiting
  <2>2. CASE pc' = [pc EXCEPT ![p] = "poll"]
               /\ UNCHANGED <<fd, waited, path, locks, roots>>
    BY <1>3, <2>2 DEF Inv, TypeOK, OneInode, Exclusive, NoOrphan, TryLock
  <2> QED BY <1>3, <2>1, <2>2 DEF TryLock
<1>4. ASSUME NEW p \in Procs, Poll(p) PROVE Inv'
  <2>1. waited' \in [Procs -> 0..Deadline]
    BY <1>4, DeadlineAssumption DEF Inv, TypeOK, Poll
  <2>2. CASE Locks(p)
    BY <1>4, <2>1, <2>2, LocksInv DEF Poll, Waiting
  <2>3. CASE UNCHANGED <<pc, fd, path, locks, roots>>
    BY <2>1, <2>3 DEF Inv, TypeOK, OneInode, Exclusive, NoOrphan
  <2> QED BY <1>4, <2>2, <2>3 DEF Poll
<1>5. ASSUME NEW p \in Procs,
             GiveUp(p) \/ Abandon(p) \/ Release(p) \/ Die(p)
      PROVE  Inv'
  BY <1>5, ClosedInv DEF GiveUp, Abandon, Release, Die
<1>6. ASSUME NEW p \in Procs, RemoveRoots(p) \/ MakeRoots(p) PROVE Inv'
  BY <1>6 DEF Inv, TypeOK, OneInode, Exclusive, NoOrphan, RemoveRoots, MakeRoots
<1> QED BY <1>1, <1>2, <1>3, <1>4, <1>5, <1>6 DEF Next, Acquiring

\* The invariant holds in every reachable state.
THEOREM Invariance == Spec => []Inv
  BY InitInv, NextInv, PTL DEF Spec

\* No two processes hold the instance lock at once, however many there are.
THEOREM LockExcludes == Spec => []MutualExclusion
<1>1. Inv => MutualExclusion
  BY DEF Inv, Exclusive, MutualExclusion
<1> QED BY <1>1, Invariance, PTL

\* A lock is held only for a process that is in its critical section: one that
\* gave up, was cancelled or died never blocks the others.
THEOREM LockIsNotOrphaned == Spec => []NoOrphan
<1>1. Inv => NoOrphan
  BY DEF Inv
<1> QED BY <1>1, Invariance, PTL
===============================================================================
