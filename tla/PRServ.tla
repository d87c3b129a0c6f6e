------------------------------- MODULE PRServ -------------------------------
(* The PR service (prserv/serv.py, prserv/db.py): it numbers the builds of a  *)
(* package version, one number per checksum of the package.  A server is one  *)
(* asyncio loop that handles a request at a time; several servers may share   *)
(* one SQLite file, which one of them locks by an exclusive transaction.      *)
(*                                                                            *)
(* A key stands for a pair (version, pkgarch), a table for its rows' values.  *)
EXTENDS Integers, FiniteSets

CONSTANTS Servers, Clients, None,
          Home,         \* Home[c]: the server client c talks to
          Modes,        \* which servers may be started read-only
          Tables,       \* what earlier servers may have left in the file
          Importers,    \* clients that run bitbake-prserv-tool import as well
          Keys, Checksums,
          Imports,      \* values of the rows that clients import
          MaxRetries,   \* retries of a request after a lost connection: 3
          MaxAsks,      \* bound: requests
          MaxDowns      \* bound: servers killed or stopped

ASSUME PRAssumption ==
  /\ None \notin Servers \cup Clients
  /\ Home \in [Clients -> Servers] /\ Modes \subseteq [Servers -> BOOLEAN]
  /\ Importers \subseteq Clients /\ Imports \subseteq Nat
  /\ MaxRetries \in Nat
  /\ MaxAsks \in Nat /\ MaxDowns \in Nat
  /\ Tables \subseteq [Keys \X Checksums -> Nat \cup {-1}]
  \* earlier servers have numbered the checksums of a key differently
  /\ \A t \in Tables, k \in Keys, c, d \in Checksums :
       t[<<k, c>>] = t[<<k, d>>] /\ t[<<k, c>>] # -1 => c = d

VARIABLES nohist, readonly, \* the modes of the table, the same for a behaviour
          file,      \* the committed table
          owner,     \* the server inside a transaction
          pending,   \* the table as that server sees it
          up,        \* which servers are running
          dirty,     \* per server: PRTable.dirty
          pc,        \* per server: where its handler is
          work,      \* per server: the request it handles
          serving,   \* per server: the client that waits for it, None once it has left
          res,       \* per server: the value it will answer, NoValue for None
          cstate, ask, count, \* per client: state, request, count of retries
          late,      \* requests whose client has left before they were read
          given,     \* history: what was answered, by servers that may write
          floor,     \* history, per client: the highest answer when it asked
          imported,  \* history: keys that were imported
          lost,      \* history: a server was killed between an answer and its commit
          asks, downs

modeVars   == <<nohist, readonly>>
tableVars  == <<file, owner, pending>>
serverVars == <<dirty, pc, work, serving, res>>
clientVars == <<cstate, ask, count>>
history    == <<given, floor, imported, lost>>
vars == <<modeVars, tableVars, up, serverVars, clientVars, late, history, asks, downs>>

-----------------------------------------------------------------------------
(* Tables *)

NoValue == -1   \* no row

Table == [Keys \X Checksums -> Nat \cup {NoValue}]

Request == [kind : {"get"}, key : Keys, checksum : Checksums]
             \cup [kind : {"import"}, key : Keys, checksum : Checksums, value : Imports]

ASSUME RequestAssumption == None \notin Request

Row(r) == <<r.key, r.checksum>>

\* The table as server s reads it.
View(s) == IF owner = s THEN pending ELSE file

\* Outside another server's transaction; _execute retries for 20 seconds.
Readable(s) == owner \in {s, None}

IsMaximum(t, k, v) == /\ \A c \in Checksums : t[<<k, c>>] <= v
                      /\ \E c \in Checksums : t[<<k, c>>] = v

\* ifnull(max(value)+1, 0), as a set of one value
NextValue(t, k) == {v + 1 : v \in {w \in {t[<<k, c>>] : c \in Checksums} : IsMaximum(t, k, w)}}

\* Mutant of Found: without history any row will do.
FoundAny(t, r) == t[Row(r)] # NoValue

\* The row the first SELECT finds: without history only the one of the highest value.
Found(t, r) ==
  /\ t[Row(r)] # NoValue
  /\ nohist => \A c \in Checksums : t[<<r.key, c>>] <= t[Row(r)]

\* The value of the row after INSERT, INSERT OR REPLACE or UPDATE.
Stored(t, r) ==
  LET old == t[Row(r)] IN
  IF ~nohist /\ old # NoValue THEN {old}   \* IntegrityError, logged
  ELSE IF r.kind = "get" THEN NextValue(t, r.key)
  ELSE {IF old < r.value THEN r.value ELSE old}

-----------------------------------------------------------------------------
(* Servers *)

Init ==
  /\ nohist \in BOOLEAN
  /\ readonly \in Modes
  /\ file \in Tables /\ pending = file /\ owner = None
  /\ up = Servers
  /\ dirty = [s \in Servers |-> FALSE]
  /\ pc = [s \in Servers |-> "idle"]
  /\ work = [s \in Servers |-> None]
  /\ serving = [s \in Servers |-> None]
  /\ res = [s \in Servers |-> NoValue]
  /\ cstate = [c \in Clients |-> "idle"]
  /\ ask = [c \in Clients |-> None]
  /\ count = [c \in Clients |-> 0]
  /\ late = {}
  /\ given = {<<x[1], x[2], file[x]>> : x \in {y \in Keys \X Checksums : file[y] # NoValue}}
  /\ floor = [c \in Clients |-> NoValue]
  /\ imported = {} /\ lost = FALSE
  /\ asks = 0 /\ downs = 0

\* Clients that wait for s see their connection break.
Broken(s) == [c \in Clients |-> IF Home[c] = s /\ cstate[c] = "waiting" THEN "broken"
                                ELSE cstate[c]]

\* _serve_forever opens the database; CREATE TABLE needs it unlocked.
Start(s) ==
  /\ s \notin up /\ owner = None
  /\ up' = up \cup {s}
  /\ UNCHANGED <<modeVars, tableVars, serverVars, clientVars, late, history, asks, downs>>

\* Where the handler of r begins.
FirstStep(s, r) ==
  IF r.kind = "import" /\ readonly[s] THEN "answer"
  ELSE IF r.kind = "import" /\ nohist THEN "store" ELSE "select"

Begin(s, r, c) ==
  /\ s \in up /\ pc[s] = "idle"
  /\ pc' = [pc EXCEPT ![s] = FirstStep(s, r)]
  /\ work' = [work EXCEPT ![s] = r]
  /\ serving' = [serving EXCEPT ![s] = c]
  /\ res' = [res EXCEPT ![s] = NoValue]
  /\ UNCHANGED <<modeVars, tableVars, up, dirty, clientVars, history, asks, downs>>

\* The loop reads the request of a client, or of one that has left.
Take(s, c) == /\ Home[c] = s /\ cstate[c] = "waiting" /\ \A x \in Servers : serving[x] # c
              /\ Begin(s, ask[c], c)
              /\ UNCHANGED late
TakeLate(s, r) == /\ <<s, r>> \in late
                  /\ Begin(s, r, None)
                  /\ late' = late \ {<<s, r>>}

Handling(s, step) == s \in up /\ pc[s] = step

Goto(s, step) == pc' = [pc EXCEPT ![s] = step]

\* The first SELECT of getValue and _importHist.
Select(s) ==
  LET r == work[s] IN
  /\ Handling(s, "select") /\ Readable(s)
  /\ IF Found(View(s), r)
     THEN Goto(s, "answer") /\ res' = [res EXCEPT ![s] = View(s)[Row(r)]]
     ELSE Goto(s, IF readonly[s] THEN "peek" ELSE "store") /\ UNCHANGED res
  /\ UNCHANGED <<modeVars, tableVars, up, dirty, work, serving, clientVars, late, history, asks, downs>>

\* A read-only server answers the next value without storing it.
Peek(s) ==
  /\ Handling(s, "peek") /\ Readable(s)
  /\ \E v \in NextValue(View(s), work[s].key) : res' = [res EXCEPT ![s] = v]
  /\ Goto(s, "answer")
  /\ UNCHANGED <<modeVars, tableVars, up, dirty, work, serving, clientVars, late, history, asks, downs>>

\* The statement that writes begins a transaction unless s is inside one; the
\* SELECT after it reads the row back.
Store(s) ==
  LET r == work[s] IN
  /\ Handling(s, "store") /\ Readable(s)
  /\ \E v \in Stored(View(s), r) :
       /\ pending' = [View(s) EXCEPT ![Row(r)] = v]
       /\ res' = [res EXCEPT ![s] = v]
  /\ owner' = s
  /\ dirty' = [dirty EXCEPT ![s] = TRUE]
  /\ Goto(s, "answer")
  /\ imported' = IF r.kind = "import" THEN imported \cup {r.key} ELSE imported
  /\ UNCHANGED <<modeVars, file, up, work, serving, clientVars, late, given, floor, lost, asks, downs>>

\* Mutant of Locked: no limit to the retries of _execute.
LockedForEver(s) == Handling(s, "select") /\ FALSE /\ UNCHANGED vars

\* "database is locked" for 20 seconds: handle_get_pr catches the error and
\* answers None, handle_import_one does not and dispatch_message calls sync().
Locked(s) ==
  /\ \E step \in {"select", "peek", "store"} : Handling(s, step)
  /\ ~Readable(s)
  /\ Goto(s, IF work[s].kind = "get" THEN "answer" ELSE "commit-raise")
  /\ UNCHANGED <<modeVars, tableVars, up, dirty, work, serving, res, clientVars, late, history, asks, downs>>

\* The handler has returned.
Idle(s) == /\ serving' = [serving EXCEPT ![s] = None]
           /\ work' = [work EXCEPT ![s] = None]
           /\ res' = [res EXCEPT ![s] = NoValue]

\* Mutant of AfterAnswer: what was stored is committed with the next request.
IdleAfterAnswer(s) == "idle"

\* sync_if_dirty
AfterAnswer(s) == IF dirty[s] THEN "commit" ELSE "idle"

\* The request of c has ended, with a value, without or with an exception.
Ended(c) == /\ cstate' = [cstate EXCEPT ![c] = "idle"]
            /\ ask' = [ask EXCEPT ![c] = None]
            /\ count' = [count EXCEPT ![c] = 0]
            /\ floor' = [floor EXCEPT ![c] = NoValue]

\* write_message, before sync_if_dirty
Answer(s) ==
  LET c == serving[s] IN
  /\ Handling(s, "answer")
  /\ IF c = None THEN UNCHANGED <<clientVars, floor, given>>
     ELSE /\ Ended(c)
          /\ given' = IF readonly[s] \/ res[s] = NoValue THEN given
                      ELSE given \cup {<<work[s].key, work[s].checksum, res[s]>>}
  /\ Goto(s, AfterAnswer(s))
  /\ IF AfterAnswer(s) = "idle" THEN Idle(s) ELSE UNCHANGED <<serving, work, res>>
  /\ UNCHANGED <<modeVars, tableVars, up, dirty, late, imported, lost, asks, downs>>

\* sync(): connection.commit()
Commit(s) ==
  /\ \E step \in {"commit", "commit-raise"} :
       Handling(s, step) /\ Goto(s, IF step = "commit" THEN "begin" ELSE "begin-raise")
  /\ file' = View(s)
  /\ owner' = IF owner = s THEN None ELSE owner
  /\ UNCHANGED <<modeVars, pending, up, dirty, work, serving, res, clientVars, late, history, asks, downs>>

Waiting(c) == c # None /\ cstate[c] = "waiting"

\* The exception ends the connection.
Disconnect(s) ==
  /\ cstate' = IF Waiting(serving[s]) THEN [cstate EXCEPT ![serving[s]] = "broken"] ELSE cstate
  /\ UNCHANGED <<ask, count>>

\* sync(): BEGIN EXCLUSIVE TRANSACTION, which keeps other servers out.
Lock(s) ==
  /\ owner = None
  /\ owner' = s /\ pending' = file
  /\ \/ /\ Handling(s, "begin")
        /\ dirty' = [dirty EXCEPT ![s] = FALSE]
        /\ UNCHANGED clientVars
     \/ /\ Handling(s, "begin-raise")
        /\ Disconnect(s)
        /\ UNCHANGED dirty
  /\ Goto(s, "idle") /\ Idle(s)
  /\ UNCHANGED <<modeVars, file, up, late, history, asks, downs>>

\* Another server has the lock for 20 seconds: the exception leaves dirty alone.
LockFails(s) ==
  /\ Handling(s, "begin") \/ Handling(s, "begin-raise")
  /\ ~Readable(s)
  /\ Disconnect(s)
  /\ Goto(s, "idle") /\ Idle(s)
  /\ UNCHANGED <<modeVars, tableVars, up, dirty, late, history, asks, downs>>

\* The process of s is gone, and its transaction with it.
Gone(s) ==
  /\ up' = up \ {s}
  /\ IF owner = s THEN owner' = None /\ pending' = file' ELSE UNCHANGED <<owner, pending>>
  /\ Goto(s, "idle") /\ Idle(s)
  /\ dirty' = [dirty EXCEPT ![s] = FALSE]
  /\ cstate' = Broken(s)
  /\ late' = {x \in late : x[1] # s}
  /\ downs' = downs + 1

\* SIGTERM, between two requests: signal_handler calls sync(), whose transaction
\* ends at once when the database is closed.
Stop(s) ==
  /\ Handling(s, "idle") /\ downs < MaxDowns
  /\ file' = View(s)
  /\ Gone(s)
  /\ UNCHANGED <<modeVars, ask, count, given, floor, imported, lost, asks>>

\* The process is killed; what it has not committed is rolled back.
Crash(s) ==
  /\ s \in up /\ downs < MaxDowns
  /\ lost' = (lost \/ (pc[s] = "commit" /\ owner = s))
  /\ file' = file
  /\ Gone(s)
  /\ UNCHANGED <<modeVars, ask, count, given, floor, imported, asks>>

-----------------------------------------------------------------------------
(* Clients: bb.asyncrpc.AsyncClient as the package tasks use it *)

Highest(k) == {g[3] : g \in {x \in given : x[1] = k}} \cup {NoValue}

Ask(c) ==
  /\ cstate[c] = "idle" /\ Home[c] \in up /\ asks < MaxAsks
  /\ cstate' = [cstate EXCEPT ![c] = "waiting"]
  /\ \E r \in Request :
       /\ r.kind = "import" => c \in Importers
       /\ ask' = [ask EXCEPT ![c] = r]
       /\ \E v \in IF r.kind = "get" THEN Highest(r.key) ELSE {NoValue} :
            /\ r.kind = "get" => \A w \in Highest(r.key) : w <= v
            /\ floor' = [floor EXCEPT ![c] = v]
  /\ count' = [count EXCEPT ![c] = 0]
  /\ asks' = asks + 1
  /\ UNCHANGED <<modeVars, tableVars, up, serverVars, late, given, imported, lost, downs>>

\* wait_for() gives up after 30 seconds, which a handler takes only when it waits
\* for the lock, 20 seconds a statement; the request stays with the server.
Timeout(c) ==
  LET s == Home[c] IN
  /\ cstate[c] = "waiting" /\ pc[s] # "idle" /\ ~Readable(s)
  /\ cstate' = [cstate EXCEPT ![c] = "broken"]
  /\ IF serving[s] = c /\ work[s] = ask[c] /\ pc[s] \notin {"commit", "begin"}
     THEN serving' = [serving EXCEPT ![s] = None] /\ UNCHANGED late
     ELSE late' = late \cup {<<s, ask[c]>>} /\ UNCHANGED serving
  /\ UNCHANGED <<modeVars, tableVars, up, dirty, pc, work, res, ask, count, history, asks, downs>>

\* _send_wrapper closes the connection and sends the request again.
Retry(c) ==
  /\ cstate[c] = "broken"
  /\ IF count[c] >= MaxRetries THEN Ended(c)
     ELSE /\ count' = [count EXCEPT ![c] = @ + 1]
          /\ cstate' = [cstate EXCEPT ![c] = IF Home[c] \in up THEN "waiting" ELSE "broken"]
          /\ UNCHANGED <<ask, floor>>
  /\ UNCHANGED <<modeVars, tableVars, up, serverVars, late, given, imported, lost, asks, downs>>

\* One step of the handler.
Step(s) == Select(s) \/ Peek(s) \/ Store(s) \/ Locked(s) \/ Answer(s)
             \/ Commit(s) \/ Lock(s) \/ LockFails(s)

Next ==
  \/ \E s \in Servers :
       \/ Start(s) \/ Stop(s) \/ Crash(s) \/ Step(s)
       \/ \E c \in Clients : Take(s, c)
       \/ \E r \in Request : TakeLate(s, r)
  \/ \E c \in Clients : Ask(c) \/ Timeout(c) \/ Retry(c)

\* The loop reads its sockets and runs its handlers, clients retry.
Fairness ==
  /\ \A s \in Servers : WF_vars(Step(s) \/ \E c \in Clients : Take(s, c))
  /\ \A c \in Clients : WF_vars(Retry(c))

Spec == Init /\ [][Next]_vars /\ Fairness

-----------------------------------------------------------------------------
(* Properties *)

TypeOK ==
  /\ nohist \in BOOLEAN /\ readonly \in [Servers -> BOOLEAN]
  /\ file \in Table /\ pending \in Table /\ owner \in Servers \cup {None}
  /\ up \subseteq Servers
  /\ dirty \in [Servers -> BOOLEAN]
  /\ pc \in [Servers -> {"idle", "select", "peek", "store", "answer", "commit", "begin",
                         "commit-raise", "begin-raise"}]
  /\ work \in [Servers -> Request \cup {None}]
  /\ serving \in [Servers -> Clients \cup {None}]
  /\ res \in [Servers -> Nat \cup {NoValue}]
  /\ \A s \in Servers : pc[s] = "idle" => work[s] = None /\ serving[s] = None /\ res[s] = NoValue
  /\ \A s \in Servers : pc[s] # "idle" => s \in up /\ work[s] # None
  /\ cstate \in [Clients -> {"idle", "waiting", "broken"}]
  /\ ask \in [Clients -> Request \cup {None}]
  /\ count \in [Clients -> Nat]
  /\ late \subseteq Servers \X Request
  /\ given \subseteq Keys \X Checksums \X Nat
  /\ floor \in [Clients -> Nat \cup {NoValue}]
  /\ imported \subseteq Keys /\ lost \in BOOLEAN
  /\ asks \in Nat /\ downs \in Nat

\* Server s, which may write, is about to answer client c with a number.
Numbers(s, c) ==
  /\ pc[s] = "answer" /\ serving[s] = c /\ c # None
  /\ work[s].kind = "get" /\ res[s] # NoValue /\ ~readonly[s]

\* "The PR value returned can NOT be decremented" (db.py:22-24): without history a
\* server that may write answers a request with at least what was answered for the
\* key before it was made, by any server, also after restarts and to requests that
\* were sent twice, as long as no server was killed between an answer and its commit.
NeverDecremented ==
  nohist /\ ~lost =>
    \A s \in Servers, c \in Clients : Numbers(s, c) => res[s] >= floor[c]

\* Two checksums of a key that was never imported get two numbers, so two builds of
\* a package that differ never have the same version.
NumbersDiffer ==
  ~lost => \A a, b \in given :
             a[1] = b[1] /\ a[1] \notin imported /\ a[3] = b[3] => a[2] = b[2]

\* With history a checksum always gets the number it got first.
NumbersStay ==
  ~nohist /\ ~lost => \A a, b \in given : a[1] = b[1] /\ a[2] = b[2] => a[3] = b[3]

\* What was answered is in the file, or in the transaction of the server that has
\* answered it and is about to commit.
AnswersKept ==
  ~lost => \A g \in given :
     \/ file[<<g[1], g[2]>>] >= g[3]
     \/ \E s \in Servers : /\ pc[s] = "commit" /\ owner = s
                           /\ pending[<<g[1], g[2]>>] >= g[3]

\* The numbers in packages that were built stay theirs, through retries, imports,
\* two servers over one file and crashes.
NumbersKept == TypeOK /\ NumbersDiffer /\ NumbersStay /\ AnswersKept

\* A client never waits for ever: a locked database, a lost connection and a server
\* that is gone all end its request.
RequestsEnd ==
  \A c \in Clients : cstate[c] = "waiting" ~> cstate[c] = "idle"
=============================================================================
