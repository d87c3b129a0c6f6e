---------------------------- MODULE ServerStart ----------------------------
(* How clients find, start and wait for a bitbake server, and how a server     *)
(* ends (main.py: setup_bitbake, lockBitbake; server/process.py: BitBakeServer, *)
(* execServer, connectProcessServer, the end of ProcessServer.main), over two  *)
(* files of the build directory: bitbake.lock, which a server holds and writes *)
(* its pid into, and bitbake.sock.                                             *)
(*                                                                             *)
(* The lock is taken in one step: the holder of the file the name leads to is  *)
(* unique (LockFileProofs).  A client's call may fail all the same, when the   *)
(* file is removed while it opens it.  What a server does for its clients is   *)
(* in ProcessServer; here it serves them one after another.                    *)
EXTENDS Naturals, FiniteSets

CONSTANTS Clients,
          Servers,     \* the server processes, in the order they are started
          None,
          MaxTries,    \* bound: 8 tries of setup_bitbake
          MaxCrashes   \* bound: servers killed by a signal

ASSUME StartAssumption ==
  /\ Servers \subseteq Nat \ {0} /\ Clients \cap Servers = {}   \* a pid is positive
  /\ None \notin Clients \cup Servers \cup Nat
  /\ MaxTries \in Nat \ {0} /\ MaxCrashes \in Nat

VARIABLES lockfile,    \* what bitbake.lock contains, or None when it is not there
          holder,      \* the process that holds the lock on it
          sockfile,    \* the server that bound bitbake.sock, or None
          server,      \* per server: where it is
          serving,     \* per server: the client it serves
          saw,         \* per server: lockcontents
          children,    \* servers with children that hold bitbake.lock open
          client,      \* per client: where it is
          mine,        \* per client: the server it started or connected to
          tries,
          crashed

fileVars   == <<lockfile, holder, sockfile>>
serverVars == <<server, serving, saw, children, crashed>>
clientVars == <<client, mine, tries>>
vars == <<fileVars, serverVars, clientVars>>

Empty == 0   \* a lock file no server has written to

Listening == {"bound", "serving", "quit"}
Alive     == Listening \cup {"started", "unlinked", "read", "closed", "compare", "relocked"}

TypeOK ==
  /\ lockfile \in Servers \cup {Empty, None}
  /\ holder \in Clients \cup Servers \cup {None}
  /\ sockfile \in Servers \cup {None}
  /\ server \in [Servers -> Alive \cup {"no", "over"}]
  /\ serving \in [Servers -> Clients \cup {None}]
  /\ saw \in [Servers -> Servers \cup {Empty, None}]
  /\ children \subseteq Servers
  /\ client \in [Clients -> {"away", "lock", "start", "started", "socket", "wait", "unlock",
                             "connect", "asking", "served", "orphan", "retry", "done",
                             "fatal"}]
  /\ mine \in [Clients -> Servers \cup {None}]
  /\ tries \in [Clients -> 0..MaxTries]
  /\ \A c \in Clients : client[c] = "served" <=> \E n \in Servers : serving[n] = c

Init ==
  /\ lockfile = None /\ holder = None /\ sockfile = None
  /\ server = [n \in Servers |-> "no"] /\ serving = [n \in Servers |-> None]
  /\ saw = [n \in Servers |-> None] /\ children = {} /\ crashed = {}
  /\ client = [c \in Clients |-> "away"] /\ mine = [c \in Clients |-> None]
  /\ tries = [c \in Clients |-> 0]

-----------------------------------------------------------------------------
(* bitbake.lock *)

\* Mutant of Lock: the lock is shared.
LockShared(p) ==
  /\ holder' = p
  /\ lockfile' = IF lockfile = None THEN Empty ELSE lockfile

\* lockfile() opens the file, which creates it, and holds the lock.
Lock(p) ==
  /\ holder = None
  /\ holder' = p
  /\ lockfile' = IF lockfile = None THEN Empty ELSE lockfile

\* unlockfile() removes the file; whoever opens the name next has a new one.
Unlock == lockfile' = None /\ holder' = None

\* A process closes its descriptor; children it has may keep the lock.
Release(n, others) == holder' = IF holder = n /\ ~others THEN None ELSE holder

-----------------------------------------------------------------------------
(* Clients *)

Goto(c, step) == client' = [client EXCEPT ![c] = step]

Begin(c) ==
  /\ client[c] = "away"
  /\ Goto(c, "lock")
  /\ UNCHANGED <<fileVars, serverVars, mine, tries>>

GetsLock(c) ==
  /\ client[c] = "lock"
  /\ Lock(c)
  /\ Goto(c, "start")
  /\ UNCHANGED <<sockfile, serverVars, mine, tries>>

\* --status-only or --kill-server, and no server is running: the lock is closed, the
\* file stays.
NotRunning(c) ==
  /\ client[c] = "start"
  /\ holder' = None
  /\ Goto(c, "done")
  /\ UNCHANGED <<lockfile, sockfile, serverVars, mine, tries>>

NoLock(c) ==
  /\ client[c] = "lock"
  /\ Goto(c, "socket")
  /\ UNCHANGED <<fileVars, serverVars, mine, tries>>

\* BitBakeServer: the daemon inherits the locked descriptor, the client closes its own.
Start(c) ==
  /\ client[c] = "start"
  /\ \E n \in Servers :
       /\ server[n] = "no" /\ \A m \in Servers : m < n => server[m] # "no"
       /\ server' = [server EXCEPT ![n] = "started"]
       /\ holder' = n
       /\ mine' = [mine EXCEPT ![c] = n]
  /\ Goto(c, "started")
  /\ UNCHANGED <<lockfile, sockfile, serving, saw, children, crashed, tries>>

\* The ready pipe delivers "r", or its end, or nothing for 5 and 90 seconds.
Started(c) ==
  /\ client[c] = "started"
  /\ server[mine[c]] \notin {"started", "bound", "over"}
  /\ Goto(c, "connect")
  /\ UNCHANGED <<fileVars, serverVars, mine, tries>>

NotStarted(c) ==
  /\ client[c] = "started"
  /\ server[mine[c]] = "over"
  /\ Goto(c, "retry")
  /\ UNCHANGED <<fileVars, serverVars, mine, tries>>

StartTimesOut(c) ==
  /\ client[c] = "started"
  /\ server[mine[c]] \in {"started", "bound"}
  /\ Goto(c, "retry")
  /\ UNCHANGED <<fileVars, serverVars, mine, tries>>

\* if not os.path.exists(sockname)
Socket(c) ==
  /\ client[c] = "socket"
  /\ Goto(c, IF sockfile = None THEN "wait" ELSE "connect")
  /\ UNCHANGED <<fileVars, serverVars, mine, tries>>

\* For 5 seconds the lock is tried again and again; it is given back at once.
WaitGetsLock(c) ==
  /\ client[c] = "wait"
  /\ Lock(c)
  /\ Goto(c, "unlock")
  /\ UNCHANGED <<sockfile, serverVars, mine, tries>>

WaitEnds(c) ==
  /\ client[c] = "wait"
  /\ Goto(c, "retry")
  /\ UNCHANGED <<fileVars, serverVars, mine, tries>>

GivesLockBack(c) ==
  /\ client[c] = "unlock"
  /\ Unlock
  /\ Goto(c, "retry")
  /\ UNCHANGED <<sockfile, serverVars, mine, tries>>

Accepting == IF sockfile = None THEN FALSE ELSE server[sockfile] \in Listening

\* connectProcessServer: connect() fails without a server that listens, and may
\* when its backlog is full.
Connect(c) ==
  /\ client[c] = "connect"
  /\ \/ /\ Accepting
        /\ mine' = [mine EXCEPT ![c] = sockfile]
        /\ Goto(c, "asking")
     \/ /\ Accepting => \E d \in Clients \ {c} : client[d] = "asking" /\ mine[d] = sockfile
        /\ Goto(c, "retry") /\ UNCHANGED mine
  /\ UNCHANGED <<fileVars, serverVars, tries>>

\* EOF: the server closed the connection, or ended with it.
ConnectionLost(c) ==
  /\ client[c] = "asking"
  /\ server[mine[c]] \notin Listening
  /\ Goto(c, "retry")
  /\ UNCHANGED <<fileVars, serverVars, mine, tries>>

\* ProcessTimeout: no answer for 60 seconds
AskingTimesOut(c) ==
  /\ client[c] = "asking"
  /\ Goto(c, "retry")
  /\ UNCHANGED <<fileVars, serverVars, mine, tries>>

Retry(c) ==
  /\ client[c] = "retry"
  /\ tries' = [tries EXCEPT ![c] = @ + 1]
  /\ mine' = [mine EXCEPT ![c] = None]
  /\ Goto(c, IF tries[c] + 1 = MaxTries THEN "fatal" ELSE "lock")
  /\ UNCHANGED <<fileVars, serverVars>>

\* The client goes, with terminateServer as its last command or without.
Leave(c) ==
  /\ client[c] = "served"
  /\ LET n == mine[c] IN
       /\ serving' = [serving EXCEPT ![n] = None]
       /\ \/ UNCHANGED server
          \/ server[n] = "serving" /\ server' = [server EXCEPT ![n] = "quit"]
  /\ Goto(c, "done")
  /\ mine' = [mine EXCEPT ![c] = None]
  /\ UNCHANGED <<fileVars, saw, children, crashed, tries>>

\* The user interrupts an interface whose server was killed: the command it wants to
\* send raises, and it ends.
Interrupted(c) ==
  /\ client[c] = "orphan"
  /\ Goto(c, "done")
  /\ UNCHANGED <<fileVars, serverVars, mine, tries>>

-----------------------------------------------------------------------------
(* Servers *)

To(n, step) == server' = [server EXCEPT ![n] = step]

\* execServer removes a socket left behind and binds its own.
Bind(n) ==
  /\ server[n] = "started"
  /\ sockfile' = n
  /\ To(n, "bound")
  /\ UNCHANGED <<lockfile, holder, serving, saw, children, crashed, clientVars>>

\* BBCooker() raises: the process ends, the socket stays.
StartFails(n) ==
  /\ server[n] = "bound"
  /\ To(n, "over")
  /\ Release(n, FALSE)
  /\ UNCHANGED <<lockfile, sockfile, serving, saw, children, crashed, clientVars>>

\* "r" to the client, then run() writes the pid.
Run(n) ==
  /\ server[n] = "bound"
  /\ To(n, "serving")
  /\ lockfile' = IF holder = n THEN n ELSE lockfile
  /\ UNCHANGED <<holder, sockfile, serving, saw, children, crashed, clientVars>>

\* The main loop takes up a client that waits.
Serve(n) ==
  /\ server[n] = "serving" /\ serving[n] = None
  /\ \E c \in Clients :
       /\ client[c] = "asking" /\ mine[c] = n
       /\ serving' = [serving EXCEPT ![n] = c]
       /\ Goto(c, "served")
  /\ UNCHANGED <<fileVars, server, saw, children, crashed, mine, tries>>

\* A hash server, a PR server or a worker inherits the descriptor of the lock.
Fork(n) ==
  /\ server[n] = "serving" /\ serving[n] # None /\ n \notin children
  /\ children' = children \cup {n}
  /\ UNCHANGED <<fileVars, server, serving, saw, crashed, clientVars>>

\* The last client has left, or none came in time.
Quit(n) ==
  /\ server[n] = "serving" /\ serving[n] = None
  /\ To(n, "quit")
  /\ UNCHANGED <<fileVars, serving, saw, children, crashed, clientVars>>

\* os.unlink(self.sockname), self.sock.close()
UnlinkSocket(n) ==
  /\ server[n] = "quit"
  /\ sockfile' = None
  /\ To(n, "unlinked")
  /\ UNCHANGED <<lockfile, holder, serving, saw, children, crashed, clientVars>>

\* The cooker has been shut down: get_lock_contents()
ReadLock(n) ==
  /\ server[n] = "unlinked"
  /\ saw' = [saw EXCEPT ![n] = lockfile]
  /\ To(n, "read")
  /\ UNCHANGED <<fileVars, serving, children, crashed, clientVars>>

CloseLock(n) ==
  /\ server[n] = "read"
  /\ Release(n, n \in children)
  /\ To(n, "closed")
  /\ UNCHANGED <<lockfile, sockfile, serving, saw, children, crashed, clientVars>>

\* The children of a server end some time after it has told them to.
ChildrenEnd(n) ==
  /\ n \in children /\ server[n] \notin {"started", "bound", "serving"}
  /\ children' = children \ {n}
  /\ Release(n, server[n] \notin {"closed", "compare", "over"})
  /\ UNCHANGED <<lockfile, sockfile, server, serving, saw, crashed, clientVars>>

Relock(n) ==
  /\ server[n] = "closed"
  /\ Lock(n)
  /\ To(n, "relocked")
  /\ UNCHANGED <<sockfile, serving, saw, children, crashed, clientVars>>

NoRelock(n) ==
  /\ server[n] = "closed" /\ holder # None
  /\ To(n, "compare")
  /\ UNCHANGED <<fileVars, serving, saw, children, crashed, clientVars>>

\* Mutant of Compare: the socket is removed when the process ends.
CompareTidies(n) ==
  /\ server[n] = "compare"
  /\ To(n, IF lockfile # saw[n] THEN "over" ELSE "closed")
  /\ saw' = [saw EXCEPT ![n] = IF lockfile # saw[n] THEN None ELSE @]
  /\ sockfile' = IF lockfile # saw[n] THEN None ELSE sockfile
  /\ UNCHANGED <<lockfile, holder, serving, children, crashed, clientVars>>

\* Mutant of Compare: it waits for the lock, whatever the file says.
CompareNever(n) ==
  /\ server[n] = "compare"
  /\ To(n, "closed")
  /\ UNCHANGED <<fileVars, serving, saw, children, crashed, clientVars>>

\* Another server has written to the lock file: this one can go.
Compare(n) ==
  /\ server[n] = "compare"
  /\ To(n, IF lockfile # saw[n] THEN "over" ELSE "closed")
  /\ saw' = [saw EXCEPT ![n] = IF lockfile # saw[n] THEN None ELSE @]
  /\ UNCHANGED <<fileVars, serving, children, crashed, clientVars>>

RemoveLock(n) ==
  /\ server[n] = "relocked"
  /\ Unlock
  /\ To(n, "over")
  /\ saw' = [saw EXCEPT ![n] = None]
  /\ UNCHANGED <<sockfile, serving, children, crashed, clientVars>>

\* SIGKILL: nothing is cleaned up, the files stay.  The client has a command under way,
\* whose reply is EOF, or it waits for events: then the thread that reads them ends and
\* nothing tells the interface.
Crash(n) ==
  /\ server[n] \in Alive /\ Cardinality(crashed) < MaxCrashes
  /\ crashed' = crashed \cup {n}
  /\ To(n, "over")
  /\ Release(n, n \in children)
  /\ serving' = [serving EXCEPT ![n] = None] /\ saw' = [saw EXCEPT ![n] = None]
  /\ \E step \in {"done", "orphan"} :
       client' = [c \in Clients |-> IF serving[n] = c THEN step ELSE client[c]]
  /\ UNCHANGED <<lockfile, sockfile, children, mine, tries>>

-----------------------------------------------------------------------------
Client(c) ==
  \/ GetsLock(c) \/ NotRunning(c) \/ NoLock(c) \/ Start(c) \/ Started(c) \/ NotStarted(c)
  \/ Socket(c) \/ WaitGetsLock(c) \/ WaitEnds(c) \/ GivesLockBack(c) \/ Connect(c)
  \/ ConnectionLost(c) \/ Retry(c) \/ Leave(c)

Server(n) ==
  \/ Bind(n) \/ StartFails(n) \/ Run(n) \/ Serve(n) \/ UnlinkSocket(n) \/ ReadLock(n)
  \/ CloseLock(n) \/ Relock(n) \/ NoRelock(n) \/ Compare(n) \/ RemoveLock(n)

Next ==
  \/ \E c \in Clients : Client(c) \/ Begin(c) \/ StartTimesOut(c) \/ AskingTimesOut(c)
                         \/ Interrupted(c)
  \/ \E n \in Servers : Server(n) \/ Fork(n) \/ ChildrenEnd(n) \/ Quit(n) \/ Crash(n)

\* Processes run; the children of a server that ends do so too.
Spec ==
  /\ Init /\ [][Next]_vars
  /\ \A c \in Clients : WF_vars(Client(c))
  /\ \A n \in Servers : WF_vars(Server(n)) /\ WF_vars(ChildrenEnd(n))

-----------------------------------------------------------------------------
(* Properties *)

\* A client that follows bitbake.sock reaches the server that serves, and the
\* lock file names it: no server that ends removes what its successor has made.
ServerReached ==
  \A n \in Servers :
    server[n] = "serving" => sockfile = n /\ lockfile = n /\ holder = n

\* "hide stale pid data": a server that was not killed leaves no lock file with
\* its own pid in it.
NoStalePid == \A n \in Servers \ crashed : server[n] = "over" => lockfile # n

\* The files lead to the server that is there, and to no other.
FilesRight == TypeOK /\ ServerReached /\ NoStalePid

\* Servers that are to end do, whoever holds bitbake.lock meanwhile.
Ending == {n \in Servers : server[n] \notin {"no", "started", "bound", "serving", "over"}}
ServersEnd == Ending # {} ~> Ending = {}

\* Clients are served or give up: none waits for ever for a server that was not started,
\* ends, or is killed before it takes the client up.
Waiting == {c \in Clients : client[c] \notin {"away", "done", "fatal", "orphan"}}
ClientsEnd == Waiting # {} ~> Waiting = {}

NobodyWaits == ServersEnd /\ ClientsEnd

\* An interface sees in the end that its server was killed.  This does not hold: it
\* waits for events until its user interrupts it.
KillSeen == \A c \in Clients : client[c] = "orphan" ~> client[c] = "done"

\* The lock makes the servers of a build directory one server at a time.
AcceptsNow == {n \in Servers : server[n] \in Listening}
One == INSTANCE SingleServer WITH
         listening <- IF AcceptsNow = {} THEN None ELSE CHOOSE n \in AcceptsNow : TRUE,
         stopped   <- {n \in Servers : server[n] \in {"unlinked", "read", "closed", "compare",
                                                      "relocked", "over"}}
OneServer == One!Spec
=============================================================================
