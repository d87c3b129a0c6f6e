------------------------------ MODULE LockFile ------------------------------
(* bb.utils.lockfile / unlockfile: advisory locking on a lock file that is    *)
(* removed when the lock is released.  Several processes open, flock, stat    *)
(* and unlink the same path; each system call is one step.  The kernel's part *)
(* (flock, inodes, process exit) is external to the repository.               *)
EXTENDS Naturals, FiniteSets

CONSTANTS Procs,     \* processes that use the lock file
          Inodes,    \* inode numbers the file system hands out (and reuses)
          NoFile,    \* "the path does not exist" / "no file open"
          MaxCalls   \* bound: lockfile() calls one process makes

ASSUME InodesAssumption == NoFile \notin Inodes
ASSUME MaxCallsAssumption == MaxCalls \in Nat

VARIABLES file,      \* inode the path refers to, or NoFile
          pc,        \* next system call of each process
          fd,        \* inode each process has open, or NoFile
          lk,        \* flock lock each process holds on that inode
          arg,       \* arguments of its current lockfile() call
          calls      \* lockfile() calls made so far

vars == <<file, pc, fd, lk, arg, calls>>

Args == [shared : BOOLEAN, retry : BOOLEAN, block : BOOLEAN]

PCs == {"idle", "none", "open", "flock", "exists", "stat", "close", "held",
        "unlink", "unlock"}

TypeOK ==
  /\ file \in Inodes \cup {NoFile}
  /\ pc \in [Procs -> PCs]
  /\ fd \in [Procs -> Inodes \cup {NoFile}]
  /\ lk \in [Procs -> {"no", "sh", "ex"}]
  /\ arg \in [Procs -> Args]
  /\ calls \in [Procs -> 0..MaxCalls]

Init ==
  /\ file = NoFile
  /\ pc = [p \in Procs |-> "idle"]
  /\ fd = [p \in Procs |-> NoFile]
  /\ lk = [p \in Procs |-> "no"]
  /\ arg = [p \in Procs |-> [shared |-> FALSE, retry |-> TRUE, block |-> FALSE]]
  /\ calls = [p \in Procs |-> 0]

-----------------------------------------------------------------------------
(* The kernel *)

\* An inode number is free when neither the path nor an open file refers to it.
Free(i) == i # file /\ \A p \in Procs : fd[p] # i

\* flock compatibility of a lock of mode m for p on the inode it has open.
Grantable(p, m) ==
  \A q \in Procs \ {p} :
    fd[q] = fd[p] /\ lk[q] # "no" => m = "sh" /\ lk[q] = "sh"

-----------------------------------------------------------------------------
(* lockfile(name, shared, retry, block) *)

Mode(p) == IF arg[p].shared THEN "sh" ELSE "ex"
NonBlocking(p) == ~arg[p].retry /\ ~arg[p].block

Call(p, a) ==
  /\ pc[p] \in {"idle", "none"}
  /\ calls[p] < MaxCalls
  /\ calls' = [calls EXCEPT ![p] = @ + 1]
  /\ arg' = [arg EXCEPT ![p] = a]
  /\ pc' = [pc EXCEPT ![p] = "open"]
  /\ UNCHANGED <<file, fd, lk>>

\* open(name, 'a+') creates the file when it is not there.
Open(p) ==
  /\ pc[p] = "open"
  /\ \E i \in Inodes :
       /\ IF file = NoFile THEN Free(i) ELSE i = file
       /\ file' = i
       /\ fd' = [fd EXCEPT ![p] = i]
  /\ pc' = [pc EXCEPT ![p] = "flock"]
  /\ UNCHANGED <<lk, arg, calls>>

Flock(p) ==
  /\ pc[p] = "flock"
  /\ Grantable(p, Mode(p))
  /\ lk' = [lk EXCEPT ![p] = Mode(p)]
  /\ pc' = [pc EXCEPT ![p] = "exists"]
  /\ UNCHANGED <<file, fd, arg, calls>>

\* LOCK_NB and the lock is taken: OSError, close, and no retry.
FlockBusy(p) ==
  /\ pc[p] = "flock"
  /\ NonBlocking(p)
  /\ ~Grantable(p, Mode(p))
  /\ pc' = [pc EXCEPT ![p] = "close"]
  /\ UNCHANGED <<file, fd, lk, arg, calls>>

\* os.path.exists(lf.name)
Exists(p) ==
  /\ pc[p] = "exists"
  /\ pc' = [pc EXCEPT ![p] = IF file # NoFile THEN "stat" ELSE "close"]
  /\ UNCHANGED <<file, fd, lk, arg, calls>>

\* Mutant of Stat: any file under the name is taken for the locked one.
StatAnyInode(p) ==
  /\ pc[p] = "stat"
  /\ pc' = [pc EXCEPT ![p] = IF file # NoFile THEN "held" ELSE "close"]
  /\ UNCHANGED <<file, fd, lk, arg, calls>>

\* statinfo.st_ino == os.stat(lf.name).st_ino; a path that has gone since
\* exists() raises, which ends in close as well.
Stat(p) ==
  /\ pc[p] = "stat"
  /\ pc' = [pc EXCEPT ![p] = IF file = fd[p] THEN "held" ELSE "close"]
  /\ UNCHANGED <<file, fd, lk, arg, calls>>

\* lf.close(); then round the loop again or return None.
Close(p) ==
  /\ pc[p] = "close"
  /\ fd' = [fd EXCEPT ![p] = NoFile]
  /\ lk' = [lk EXCEPT ![p] = "no"]
  /\ pc' = [pc EXCEPT ![p] = IF arg[p].retry THEN "open" ELSE "none"]
  /\ UNCHANGED <<file, arg, calls>>

-----------------------------------------------------------------------------
(* unlockfile(lf) *)

\* Mutant of Promote: a shared holder unlinks without the exclusive lock.
PromoteNot(p) ==
  /\ pc[p] = "held"
  /\ pc' = [pc EXCEPT ![p] = "unlink"]
  /\ UNCHANGED <<file, fd, lk, arg, calls>>

\* flock(LOCK_EX|LOCK_NB): Linux drops a shared lock, tests for conflicts and
\* installs the exclusive one under one spinlock; a failed conversion leaves no
\* lock at all.  The failure is ignored, and then nothing is unlinked.
Promote(p) ==
  /\ pc[p] = "held"
  /\ IF Grantable(p, "ex")
     THEN /\ lk' = [lk EXCEPT ![p] = "ex"]
          /\ pc' = [pc EXCEPT ![p] = "unlink"]
     ELSE /\ lk' = [lk EXCEPT ![p] = "no"]
          /\ pc' = [pc EXCEPT ![p] = "unlock"]
  /\ UNCHANGED <<file, fd, arg, calls>>

\* os.unlink(lf.name) removes whatever the path names at that moment.
Unlink(p) ==
  /\ pc[p] = "unlink"
  /\ file' = NoFile
  /\ pc' = [pc EXCEPT ![p] = "unlock"]
  /\ UNCHANGED <<fd, lk, arg, calls>>

\* Mutant of Unlock: the descriptor, and the lock with it, leaks.
UnlockLeaks(p) ==
  /\ pc[p] = "unlock"
  /\ pc' = [pc EXCEPT ![p] = "idle"]
  /\ UNCHANGED <<file, fd, lk, arg, calls>>

\* flock(LOCK_UN) and lf.close()
Unlock(p) ==
  /\ pc[p] = "unlock"
  /\ fd' = [fd EXCEPT ![p] = NoFile]
  /\ lk' = [lk EXCEPT ![p] = "no"]
  /\ pc' = [pc EXCEPT ![p] = "idle"]
  /\ UNCHANGED <<file, arg, calls>>

\* The process exits or just closes the file: the lock goes, the path stays.
Exit(p) ==
  /\ pc[p] \notin {"idle", "none"}
  /\ fd' = [fd EXCEPT ![p] = NoFile]
  /\ lk' = [lk EXCEPT ![p] = "no"]
  /\ pc' = [pc EXCEPT ![p] = "idle"]
  /\ UNCHANGED <<file, arg, calls>>

-----------------------------------------------------------------------------
Step(p) ==
  \/ Open(p) \/ Flock(p) \/ FlockBusy(p) \/ Exists(p) \/ Stat(p) \/ Close(p)
  \/ Promote(p) \/ Unlink(p) \/ Unlock(p)

Next == \E p \in Procs : Step(p) \/ Exit(p) \/ \E a \in Args : Call(p, a)

Spec == Init /\ [][Next]_vars

\* Every process that can make its next system call eventually makes it, and
\* who holds the lock eventually releases it.  flock wakes every waiter when a
\* lock is released, but promises no order among them.
FairSpec == Spec /\ \A p \in Procs : WF_vars(Step(p))

-----------------------------------------------------------------------------
Holds(p) == pc[p] = "held"

\* lockfile() promises mutual exclusion: while one caller has an exclusive
\* lock no other has any, although the file is removed and made again.
Mutex ==
  \A p, q \in Procs :
    p # q /\ Holds(p) /\ Holds(q) => arg[p].shared /\ arg[q].shared

\* unlockfile() never removes a lock file that somebody else holds: os.unlink
\* goes by the name, the lock by the inode.
UnlinkOwn ==
  \A p \in Procs : pc[p] = "unlink" => file = fd[p]

\* "block: True to block until the lock succeeds, False otherwise"
\* (utils.py:451).  This does not hold: after waiting for a holder that unlinked the
\* file a call with retry=False returns None.
BlockSucceeds ==
  \A p \in Procs : pc[p] = "none" => ~arg[p].block

\* Every call returns: a process that retries is not sent round the loop for
\* ever by others that unlink the file, when the others' calls are finite.
CallsReturn ==
  \A p \in Procs : pc[p] = "open" ~> pc[p] \in {"held", "none", "idle"}

-----------------------------------------------------------------------------
(* The inductive invariant: an owner that has compared inodes holds a lock on *)
(* the inode on disk, and flock keeps exclusive locks on one inode apart.     *)

Owner(p) == pc[p] \in {"held", "unlink"}

FlockOK ==
  \A p, q \in Procs :
    p # q /\ fd[p] = fd[q] /\ lk[p] = "ex" => lk[q] = "no"

ProcInv(p) ==
  /\ fd[p] = NoFile <=> pc[p] \in {"idle", "none", "open"}
  /\ lk[p] # "no" => fd[p] # NoFile
  /\ pc[p] \in {"exists", "stat", "held"} => lk[p] = Mode(p)
  /\ pc[p] = "unlink" => lk[p] = "ex"
  /\ Owner(p) => file = fd[p]

IInv == TypeOK /\ FlockOK /\ \A p \in Procs : ProcInv(p)
=============================================================================
