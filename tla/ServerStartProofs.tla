-------------------------- MODULE ServerStartProofs --------------------------
(* For any number of clients, servers, tries and kills, bitbake.lock and       *)
(* bitbake.sock lead to the one server that serves, no server that ends by     *)
(* itself leaves its pid behind, and servers implement SingleServer.           *)
(*                                                                             *)
(* ServerReached alone is not inductive.  A server keeps the lock it inherits  *)
(* from its client until it has closed its descriptor, so that what Bind, Run  *)
(* and UnlinkSocket do to the files is done by the only process that may: that *)
(* is HolderInv.  NoStalePid needs that a server which waits to remove the     *)
(* lock file compares it with its own pid.                                     *)
EXTENDS ServerStart, TLAPS

\* The places at which a server has the lock it was started with, or has it again.
Holding == {"started", "bound", "serving", "quit", "unlinked", "read", "relocked"}

HolderInv ==
  /\ \A c \in Clients : client[c] \in {"start", "unlock"} => holder = c
  /\ \A n \in Servers : server[n] \in Holding => holder = n

\* The files as the server finds them that has made them.
FilesInv ==
  \A n \in Servers :
    /\ server[n] \in Listening => sockfile = n
    /\ server[n] \in {"serving", "quit", "unlinked", "read"} => lockfile = n
    /\ server[n] \in {"read", "closed", "compare", "relocked"} => saw[n] = n
    /\ server[n] \in {"no", "started", "bound"} => lockfile # n

\* A served client knows its server, and clients have tries left until they give up.
ClientInv ==
  /\ \A n \in Servers, c \in Clients : serving[n] = c => mine[c] = n
  /\ \A c \in Clients : client[c] # "fatal" => tries[c] < MaxTries

IInv == TypeOK /\ HolderInv /\ FilesInv /\ ClientInv /\ NoStalePid

\* No server is there and no client has begun.
LEMMA InitIInv == Init => IInv
BY StartAssumption DEF Init, IInv, TypeOK, HolderInv, FilesInv, ClientInv, NoStalePid,
                       Holding, Listening, Alive, Empty

\* Who takes or gives back the lock finds it free, or has it: no server that has a use
\* for it is disturbed.
LEMMA LockingIInv ==
  ASSUME IInv, NEW c \in Clients,
         GetsLock(c) \/ NotRunning(c) \/ Start(c) \/ WaitGetsLock(c) \/ GivesLockBack(c)
  PROVE  IInv'
<1> USE StartAssumption DEF IInv, TypeOK, HolderInv, FilesInv, ClientInv, NoStalePid, Holding,
                            Listening, Alive, fileVars, serverVars, clientVars
<1>1. CASE GetsLock(c)
  BY <1>1 DEF GetsLock, Goto, Lock, Empty
<1>2. CASE Start(c)
  BY <1>2 DEF Start, Goto
<1>3. CASE WaitGetsLock(c)
  BY <1>3 DEF WaitGetsLock, Goto, Lock, Empty
<1>4. CASE GivesLockBack(c)
  BY <1>4 DEF GivesLockBack, Goto, Unlock
<1>5. CASE NotRunning(c)
  BY <1>5 DEF NotRunning, Goto
<1>6. QED
  BY <1>1, <1>2, <1>3, <1>4, <1>5

\* The other steps of a client leave the files alone.
LEMMA ClientIInv ==
  ASSUME IInv, NEW c \in Clients,
         \/ Begin(c) \/ NoLock(c) \/ Started(c) \/ NotStarted(c) \/ StartTimesOut(c)
         \/ Socket(c) \/ WaitEnds(c) \/ Connect(c) \/ ConnectionLost(c) \/ AskingTimesOut(c)
         \/ Retry(c) \/ Leave(c) \/ Interrupted(c)
  PROVE  IInv'
<1> USE StartAssumption DEF IInv, TypeOK, HolderInv, FilesInv, ClientInv, NoStalePid, Holding,
                            Listening, Alive, fileVars, serverVars, clientVars
<1>1. CASE Begin(c)
  BY <1>1 DEF Begin, Goto
<1>2. CASE NoLock(c)
  BY <1>2 DEF NoLock, Goto
<1>3. CASE Started(c)
  BY <1>3 DEF Started, Goto
<1>4. CASE NotStarted(c)
  BY <1>4 DEF NotStarted, Goto
<1>5. CASE StartTimesOut(c)
  BY <1>5 DEF StartTimesOut, Goto
<1>6. CASE Socket(c)
  BY <1>6 DEF Socket, Goto
<1>7. CASE WaitEnds(c)
  BY <1>7 DEF WaitEnds, Goto
<1>8. CASE Connect(c)
  BY <1>8 DEF Connect, Goto, Accepting
<1>9. CASE ConnectionLost(c)
  BY <1>9 DEF ConnectionLost, Goto
<1>10. CASE AskingTimesOut(c)
  BY <1>10 DEF AskingTimesOut, Goto
<1>11. CASE Retry(c)
  BY <1>11 DEF Retry, Goto
<1>12. CASE Leave(c)
  BY <1>12 DEF Leave, Goto
<1>13. CASE Interrupted(c)
  BY <1>13 DEF Interrupted, Goto
<1>14. QED
  BY <1>1, <1>2, <1>3, <1>4, <1>5, <1>6, <1>7, <1>8, <1>9, <1>10, <1>11, <1>12, <1>13

\* A server begins and serves; what it writes it writes as the holder of the lock.
LEMMA ServingIInv ==
  ASSUME IInv, NEW n \in Servers,
         Bind(n) \/ StartFails(n) \/ Run(n) \/ Serve(n) \/ Fork(n) \/ Quit(n) \/ Crash(n)
  PROVE  IInv'
<1> USE StartAssumption DEF IInv, TypeOK, HolderInv, FilesInv, ClientInv, NoStalePid, Holding,
                            Listening, Alive, fileVars, serverVars, clientVars
<1>1. CASE Bind(n)
  BY <1>1 DEF Bind, To
<1>2. CASE StartFails(n)
  BY <1>2 DEF StartFails, To, Release
<1>3. CASE Run(n)
  BY <1>3 DEF Run, To
<1>4. CASE Serve(n)
  BY <1>4 DEF Serve, Goto
<1>5. CASE Fork(n)
  BY <1>5 DEF Fork
<1>6. CASE Quit(n)
  BY <1>6 DEF Quit, To
<1>7. CASE Crash(n)
  BY <1>7 DEF Crash, To, Release
<1>8. QED
  BY <1>1, <1>2, <1>3, <1>4, <1>5, <1>6, <1>7

\* A server ends: it closes the lock, takes it again or sees another pid in the file.
LEMMA EndingIInv ==
  ASSUME IInv, NEW n \in Servers,
         \/ UnlinkSocket(n) \/ ReadLock(n) \/ CloseLock(n) \/ ChildrenEnd(n) \/ Relock(n)
         \/ NoRelock(n) \/ Compare(n) \/ RemoveLock(n)
  PROVE  IInv'
<1> USE StartAssumption DEF IInv, TypeOK, HolderInv, FilesInv, ClientInv, NoStalePid, Holding,
                            Listening, Alive, fileVars, serverVars, clientVars
<1>1. CASE UnlinkSocket(n)
  BY <1>1 DEF UnlinkSocket, To
<1>2. CASE ReadLock(n)
  BY <1>2 DEF ReadLock, To
<1>3. CASE CloseLock(n)
  BY <1>3 DEF CloseLock, To, Release
<1>4. CASE ChildrenEnd(n)
  BY <1>4 DEF ChildrenEnd, Release
<1>5. CASE Relock(n)
  BY <1>5 DEF Relock, To, Lock, Empty
<1>6. CASE NoRelock(n)
  BY <1>6 DEF NoRelock, To
<1>7. CASE Compare(n)
  BY <1>7 DEF Compare, To
<1>8. CASE RemoveLock(n)
  BY <1>8 DEF RemoveLock, To, Unlock
<1>9. QED
  BY <1>1, <1>2, <1>3, <1>4, <1>5, <1>6, <1>7, <1>8

\* Every step preserves the inductive invariant.
LEMMA NextIInv == IInv /\ [Next]_vars => IInv'
<1> SUFFICES ASSUME IInv, [Next]_vars PROVE IInv'
  OBVIOUS
<1>1. ASSUME NEW c \in Clients,
             Client(c) \/ Begin(c) \/ StartTimesOut(c) \/ AskingTimesOut(c) \/ Interrupted(c)
      PROVE  IInv'
  BY <1>1, LockingIInv, ClientIInv DEF Client
<1>2. ASSUME NEW n \in Servers,
             Server(n) \/ Fork(n) \/ ChildrenEnd(n) \/ Quit(n) \/ Crash(n)
      PROVE  IInv'
  BY <1>2, ServingIInv, EndingIInv DEF Server
<1>3. CASE UNCHANGED vars
  BY <1>3 DEF vars, fileVars, serverVars, clientVars, IInv, TypeOK, HolderInv, FilesInv,
              ClientInv, NoStalePid
<1>4. QED
  BY <1>1, <1>2, <1>3 DEF Next

\* The inductive invariant, types included, holds throughout.
THEOREM Inductive == Spec => []IInv
<1>1. Init => IInv
  BY InitIInv
<1>2. IInv /\ [Next]_vars => IInv'
  BY NextIInv
<1>3. QED
  BY <1>1, <1>2, PTL DEF Spec

\* bitbake.sock and bitbake.lock lead to the server that serves and the lock is its
\* own (ServerReached), and no pid outlives a server that ended by itself (NoStalePid).
THEOREM FilesLeadToServer == Spec => []FilesRight
<1>1. IInv => FilesRight
  BY DEF IInv, HolderInv, FilesInv, FilesRight, ServerReached, Holding, Listening
<1>2. QED
  BY <1>1, Inductive, PTL

-----------------------------------------------------------------------------
(* The servers of a build directory are one server at a time. *)

\* The refinement mapping: the server that listens, and those that no longer do.
Listens == IF AcceptsNow = {} THEN None ELSE CHOOSE n \in AcceptsNow : TRUE
Stopped == {n \in Servers : server[n] \in {"unlinked", "read", "closed", "compare",
                                          "relocked", "over"}}

\* At most one server listens, because all that do hold the lock.
LEMMA ListensOne ==
  ASSUME IInv
  PROVE  /\ \A n \in Servers : Listens = n <=> server[n] \in Listening
         /\ Listens = None <=> \A n \in Servers : server[n] \notin Listening
<1>1. \A m, n \in AcceptsNow : m = n
  BY DEF AcceptsNow, IInv, HolderInv, Holding, Listening
<1>2. CASE AcceptsNow = {}
  BY <1>2, StartAssumption DEF Listens, AcceptsNow
<1>3. CASE AcceptsNow # {}
  <2>1. Listens \in AcceptsNow
    BY <1>3 DEF Listens
  <2>2. QED
    BY <2>1, <1>1, StartAssumption DEF AcceptsNow
<1>4. QED
  BY <1>2, <1>3

\* The same after a step.
LEMMA ListensOneNext ==
  ASSUME IInv'
  PROVE  /\ \A n \in Servers : Listens' = n <=> server'[n] \in Listening
         /\ Listens' = None <=> \A n \in Servers : server'[n] \notin Listening
<1>1. \A m, n \in AcceptsNow' : m = n
  BY DEF AcceptsNow, IInv, HolderInv, Holding, Listening
<1>2. CASE AcceptsNow' = {}
  BY <1>2, StartAssumption DEF Listens, AcceptsNow
<1>3. CASE AcceptsNow' # {}
  <2>1. Listens' \in AcceptsNow'
    BY <1>3 DEF Listens
  <2>2. QED
    BY <2>1, <1>1, StartAssumption DEF AcceptsNow
<1>4. QED
  BY <1>2, <1>3

\* A step of SingleServer, written with the two mapped variables.
LEMMA MappedStep ==
  ASSUME NEW n \in Servers,
         \/ Listens = None /\ n \notin Stopped /\ Listens' = n /\ Stopped' = Stopped
         \/ Listens = n /\ Listens' = None /\ Stopped' = Stopped \cup {n}
         \/ Listens # n /\ Listens' = Listens /\ Stopped' = Stopped \cup {n}
         \/ UNCHANGED <<Listens, Stopped>>
  PROVE  [One!Next]_(One!vars)
BY DEF Listens, Stopped, One!Next, One!vars, One!Listen, One!Stop, One!GiveUp

\* When only server n moves, the mapped variables say where it came from and goes.
LEMMA ServerMoves ==
  ASSUME IInv, IInv', NEW n \in Servers, NEW step \in Alive \cup {"no", "over"}, To(n, step)
  PROVE  /\ Listens' = CASE step \in Listening                             -> n
                         [] step \notin Listening /\ server[n] \in Listening -> None
                         [] OTHER                                         -> Listens
         /\ Stopped' = IF step \in {"unlinked", "read", "closed", "compare", "relocked", "over"}
                       THEN Stopped \cup {n} ELSE Stopped \ {n}
<1>1. server' = [server EXCEPT ![n] = step] /\ server \in [Servers -> Alive \cup {"no", "over"}]
  BY DEF To, IInv, TypeOK
<1>2. Listens' = CASE step \in Listening                             -> n
                  [] step \notin Listening /\ server[n] \in Listening -> None
                  [] OTHER                                         -> Listens
  <2>1. CASE step \in Listening
    BY <1>1, <2>1, ListensOneNext
  <2>2. CASE step \notin Listening /\ server[n] \in Listening
    BY <1>1, <2>2, ListensOne, ListensOneNext
  <2>3. CASE step \notin Listening /\ server[n] \notin Listening
    <3>1. AcceptsNow' = AcceptsNow
      BY <1>1, <2>3 DEF AcceptsNow
    <3>2. QED
      BY <2>3, <3>1 DEF Listens
  <2>4. QED
    BY <2>1, <2>2, <2>3
<1>3. Stopped' = IF step \in {"unlinked", "read", "closed", "compare", "relocked", "over"}
                 THEN Stopped \cup {n} ELSE Stopped \ {n}
  BY <1>1 DEF Stopped
<1>4. QED
  BY <1>2, <1>3

\* Steps at which no server moves are no steps of SingleServer.
LEMMA ServersStay ==
  ASSUME UNCHANGED server PROVE [One!Next]_(One!vars)
BY DEF One!vars, AcceptsNow

\* No server listens in the initial state.
LEMMA InitOne == Init => One!Init
BY DEF Init, One!Init, AcceptsNow, Listening

\* A client starts a server, or tells one to end that goes on listening for now.
LEMMA ClientOne ==
  ASSUME IInv, IInv', NEW c \in Clients,
         Client(c) \/ Begin(c) \/ StartTimesOut(c) \/ AskingTimesOut(c) \/ Interrupted(c)
  PROVE  [One!Next]_(One!vars)
<1>1. CASE Start(c)
  <2>1. PICK n \in Servers : server[n] = "no" /\ To(n, "started")
    BY <1>1 DEF Start, To
  <2>2. UNCHANGED <<Listens, Stopped>>
    BY <2>1, ServerMoves DEF Listening, Alive, Stopped
  <2>3. QED
    BY <2>2, MappedStep
<1>2. CASE Leave(c)
  <2>1. mine[c] \in Servers
    BY <1>2 DEF Leave, IInv, TypeOK, ClientInv
  <2>2. CASE server[mine[c]] = "serving" /\ To(mine[c], "quit")
    <3>1. Listens' = Listens
      BY <2>1, <2>2, ServerMoves, ListensOne DEF Listening, Alive
    <3>2. Stopped' = Stopped
      BY <2>1, <2>2, ServerMoves DEF Listening, Alive, Stopped
    <3>3. QED
      BY <2>1, <3>1, <3>2, MappedStep
  <2>3. QED
    BY <1>2, <2>2, ServersStay DEF Leave, To
<1>3. CASE UNCHANGED server
  BY <1>3, ServersStay
<1>4. QED
  BY <1>1, <1>2, <1>3
  DEF Client, Begin, StartTimesOut, AskingTimesOut, Interrupted, GetsLock, NotRunning, NoLock, Started, NotStarted,
      Socket, WaitGetsLock, WaitEnds, GivesLockBack, Connect, ConnectionLost, Retry,
      serverVars

\* A server binds its socket when no other listens, removes it or ends.
LEMMA ServerOne ==
  ASSUME IInv, IInv', NEW n \in Servers,
         Server(n) \/ Fork(n) \/ ChildrenEnd(n) \/ Quit(n) \/ Crash(n)
  PROVE  [One!Next]_(One!vars)
<1> USE DEF Listening, Alive
<1>1. CASE Bind(n)
  <2>1. server[n] = "started" /\ To(n, "bound")
    BY <1>1 DEF Bind
  <2>2. Listens = None /\ n \notin Stopped
    BY <2>1, ListensOne DEF IInv, HolderInv, Holding, Stopped
  <2>3. Listens' = n /\ Stopped' = Stopped
    BY <2>1, <2>2, ServerMoves
  <2>4. QED
    BY <2>2, <2>3, MappedStep
<1>2. CASE StartFails(n) \/ UnlinkSocket(n)
  <2>1. PICK step \in {"over", "unlinked"} : server[n] \in {"bound", "quit"} /\ To(n, step)
    BY <1>2 DEF StartFails, UnlinkSocket
  <2>2. Listens = n
    BY <2>1, ListensOne
  <2>3. Listens' = None /\ Stopped' = Stopped \cup {n}
    BY <2>1, ServerMoves
  <2>4. QED
    BY <2>2, <2>3, MappedStep
<1>3. CASE Run(n) \/ Quit(n)
  <2>1. PICK step \in {"serving", "quit"} : server[n] \in {"bound", "serving"} /\ To(n, step)
    BY <1>3 DEF Run, Quit
  <2>2. Listens = n /\ n \notin Stopped
    BY <2>1, ListensOne DEF Stopped
  <2>3. Listens' = n /\ Stopped' = Stopped
    BY <2>1, <2>2, ServerMoves
  <2>4. QED
    BY <2>2, <2>3, MappedStep
<1>4. CASE ReadLock(n) \/ CloseLock(n) \/ Relock(n) \/ NoRelock(n) \/ Compare(n) \/ RemoveLock(n)
  <2>1. PICK step \in {"read", "closed", "relocked", "compare", "over"} :
          server[n] \in {"unlinked", "read", "closed", "compare", "relocked"} /\ To(n, step)
    BY <1>4 DEF ReadLock, CloseLock, Relock, NoRelock, Compare, RemoveLock, To
  <2>2. n \in Stopped
    BY <2>1 DEF Stopped
  <2>3. UNCHANGED <<Listens, Stopped>>
    BY <2>1, <2>2, ServerMoves
  <2>4. QED
    BY <2>3, MappedStep
<1>5. CASE Crash(n)
  <2>1. To(n, "over")
    BY <1>5 DEF Crash
  <2>2. CASE server[n] \in Listening
    <3>1. Listens = n
      BY <2>2, ListensOne
    <3>2. Listens' = None /\ Stopped' = Stopped \cup {n}
      BY <2>1, <2>2, ServerMoves
    <3>3. QED
      BY <3>1, <3>2, MappedStep
  <2>3. CASE server[n] \notin Listening
    <3>1. Listens # n
      BY <2>3, ListensOne
    <3>2. Listens' = Listens /\ Stopped' = Stopped \cup {n}
      BY <2>1, <2>3, ServerMoves
    <3>3. QED
      BY <3>1, <3>2, MappedStep
  <2>4. QED
    BY <2>2, <2>3
<1>6. CASE Serve(n) \/ Fork(n) \/ ChildrenEnd(n)
  BY <1>6, ServersStay DEF Serve, Fork, ChildrenEnd
<1>7. QED
  BY <1>1, <1>2, <1>3, <1>4, <1>5, <1>6 DEF Server

\* The servers of a build directory implement SingleServer: at most one accepts
\* connections at a time, and one that has stopped never does again.
THEOREM Refinement == Spec => OneServer
<1>1. Init => One!Init
  BY InitOne
<1>2. IInv /\ IInv' /\ [Next]_vars => [One!Next]_(One!vars)
  <2> SUFFICES ASSUME IInv, IInv', [Next]_vars PROVE [One!Next]_(One!vars)
    OBVIOUS
  <2>1. CASE UNCHANGED vars
    BY <2>1, ServersStay DEF vars, serverVars
  <2>2. QED
    BY <2>1, ClientOne, ServerOne DEF Next
<1>3. QED
  BY <1>1, <1>2, Inductive, PTL DEF Spec, OneServer, One!Spec
==============================================================================
