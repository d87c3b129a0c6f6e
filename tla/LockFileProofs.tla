--------------------------- MODULE LockFileProofs ---------------------------
(* Mutual exclusion of bb.utils.lockfile for every number of processes,       *)
(* inodes and calls.  IInv is inductive: flock keeps the locks of one inode   *)
(* apart, and only the exclusive owner of the inode on disk unlinks the path, *)
(* so two callers that passed the inode comparison hold the same inode.       *)
EXTENDS LockFile, TLAPS

\* The initial state satisfies the inductive invariant.
LEMMA InitIInv == Init => IInv
<1> SUFFICES ASSUME Init PROVE IInv
  OBVIOUS
<1>1. TypeOK
  BY MaxCallsAssumption DEF Init, TypeOK, Args, PCs
<1>2. QED
  BY <1>1 DEF Init, IInv, FlockOK, ProcInv, Owner

\* Every system call, and every exit, preserves the inductive invariant.
LEMMA NextIInv == IInv /\ [Next]_vars => IInv'
<1> USE InodesAssumption, MaxCallsAssumption
<1> SUFFICES ASSUME IInv, [Next]_vars PROVE IInv'
  OBVIOUS
<1>1. ASSUME NEW p \in Procs, NEW a \in Args, Call(p, a) PROVE IInv'
  BY <1>1 DEF Call, IInv, TypeOK, FlockOK, Args, PCs, ProcInv, Mode, Owner
<1>2. ASSUME NEW p \in Procs, Open(p) PROVE IInv'
  <2>1. TypeOK' /\ FlockOK'
    <3>1. fd[p] = NoFile /\ lk[p] = "no"
      BY <1>2 DEF Open, IInv, TypeOK, ProcInv
    <3>2. QED
      BY <1>2, <3>1 DEF Open, IInv, TypeOK, FlockOK, PCs, Free
  <2>2. QED
    BY <1>2, <2>1 DEF Open, IInv, TypeOK, PCs, ProcInv, Mode, Owner, Free
<1>3. ASSUME NEW p \in Procs, Flock(p) PROVE IInv'
  <2>1. TypeOK'
    BY <1>3 DEF Flock, IInv, TypeOK, PCs, Mode
  <2>2. FlockOK'
    BY <1>3 DEF Flock, IInv, TypeOK, FlockOK, PCs, Mode, Grantable
  <2>3. QED
    BY <1>3, <2>1, <2>2 DEF Flock, IInv, TypeOK, PCs, ProcInv, Mode, Owner
<1>4. ASSUME NEW p \in Procs, FlockBusy(p) PROVE IInv'
  BY <1>4 DEF FlockBusy, IInv, TypeOK, FlockOK, PCs, ProcInv, Mode, Owner
<1>5. ASSUME NEW p \in Procs, Exists(p) PROVE IInv'
  BY <1>5 DEF Exists, IInv, TypeOK, FlockOK, PCs, ProcInv, Mode, Owner
<1>6. ASSUME NEW p \in Procs, Stat(p) PROVE IInv'
  BY <1>6 DEF Stat, IInv, TypeOK, FlockOK, PCs, ProcInv, Mode, Owner
<1>7. ASSUME NEW p \in Procs, Close(p) PROVE IInv'
  BY <1>7 DEF Close, IInv, TypeOK, FlockOK, PCs, ProcInv, Mode, Owner
<1>8. ASSUME NEW p \in Procs, Promote(p) PROVE IInv'
  <2>1. TypeOK'
    BY <1>8 DEF Promote, IInv, TypeOK, PCs
  <2>2. FlockOK'
    BY <1>8 DEF Promote, IInv, TypeOK, FlockOK, PCs, Grantable
  <2>3. QED
    BY <1>8, <2>1, <2>2 DEF Promote, IInv, TypeOK, PCs, ProcInv, Mode, Owner
<1>9. ASSUME NEW p \in Procs, Unlink(p) PROVE IInv'
  <2>1. TypeOK' /\ FlockOK'
    BY <1>9 DEF Unlink, IInv, TypeOK, FlockOK, PCs
  <2>2. ASSUME NEW q \in Procs, Owner(q)' PROVE FALSE
    \* Another owner would have the inode p holds exclusively open and locked.
    <3>1. q # p /\ Owner(q)
      BY <1>9, <2>2 DEF Unlink, Owner, ProcInv, IInv, TypeOK, PCs
    <3>2. fd[q] = fd[p] /\ lk[p] = "ex" /\ lk[q] # "no"
      BY <1>9, <3>1 DEF Unlink, Owner, ProcInv, IInv, Mode
    <3>3. QED
      BY <3>1, <3>2 DEF IInv, FlockOK
  <2>3. QED
    BY <1>9, <2>1, <2>2 DEF Unlink, IInv, TypeOK, PCs, ProcInv, Mode, Owner
<1>10. ASSUME NEW p \in Procs, Unlock(p) PROVE IInv'
  BY <1>10 DEF Unlock, IInv, TypeOK, FlockOK, PCs, ProcInv, Mode, Owner
<1>11. ASSUME NEW p \in Procs, Exit(p) PROVE IInv'
  BY <1>11 DEF Exit, IInv, TypeOK, FlockOK, PCs, ProcInv, Mode, Owner
<1>12. CASE UNCHANGED vars
  BY <1>12 DEF vars, IInv, TypeOK, FlockOK, ProcInv, Mode, Owner
<1>13. QED
  BY <1>1, <1>2, <1>3, <1>4, <1>5, <1>6, <1>7, <1>8, <1>9, <1>10, <1>11, <1>12
  DEF Next, Step

\* Two owners have the inode on disk open, and flock tells them apart.
LEMMA IInvMutex == IInv => Mutex
<1> SUFFICES ASSUME IInv, NEW p \in Procs, NEW q \in Procs,
                    p # q, Holds(p), Holds(q)
             PROVE  arg[p].shared /\ arg[q].shared
  BY DEF Mutex
<1>1. fd[p] = fd[q] /\ lk[p] = Mode(p) /\ lk[q] = Mode(q)
  BY DEF IInv, ProcInv, Holds, Owner
<1>2. lk[p] # "ex" /\ lk[q] # "ex"
  BY <1>1 DEF IInv, FlockOK, Mode
<1>3. QED
  BY <1>1, <1>2 DEF Mode, IInv, TypeOK, Args

\* The inductive invariant, and with it type correctness, holds throughout.
THEOREM Inductive == Spec => []IInv
<1>1. Init => IInv
  BY InitIInv
<1>2. IInv /\ [Next]_vars => IInv'
  BY NextIInv
<1>3. QED
  BY <1>1, <1>2, PTL DEF Spec

\* An exclusive holder is alone although the file is unlinked and made again.
THEOREM MutualExclusion == Spec => []Mutex
BY Inductive, IInvMutex, PTL

\* unlockfile() unlinks the inode it has locked and never another holder's.
THEOREM OwnUnlink == Spec => []UnlinkOwn
<1>1. IInv => UnlinkOwn
  BY DEF IInv, ProcInv, UnlinkOwn, Owner
<1>2. QED
  BY Inductive, <1>1, PTL
=============================================================================
