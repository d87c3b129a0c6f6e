------------------------------ MODULE HashServ ------------------------------
(* The hash equivalence server (hashserv/server.py): clients report which     *)
(* output a task produced, and tasks with equal output get one unihash.  The  *)
(* server is one asyncio loop over one SQLite connection; it is atomic except *)
(* where a handler awaits an answer of the upstream server, whose clients     *)
(* report to it meanwhile.                                                    *)
(*                                                                            *)
(* Every query is confined to one method, so a taskhash stands for a pair     *)
(* (method, taskhash), and a unihash is the taskhash it was first made from.  *)
EXTENDS Naturals, FiniteSets, Sequences

CONSTANTS Clients,      \* sessions
          Taskhashes, Outhashes,
          NoHash,       \* no row, None
          Kinds,        \* requests the clients make
          MaxRequests,  \* bound: requests to a server with an upstream server
          MaxAlone,     \* bound: requests to a server without
          MaxUpstream,  \* bound: reports to the upstream server
          MaxFailures   \* bound: lost connections and crashes

ASSUME HashAssumption ==
  NoHash \notin Taskhashes \cup Outhashes /\ {"idle", "dead"} \cap Taskhashes = {}
ASSUME KindsAssumption ==
  Kinds \subseteq {"report", "equiv", "get", "get-all", "get-outhash", "stream", "wait"}
ASSUME BoundsAssumption == {MaxRequests, MaxAlone, MaxUpstream, MaxFailures} \subseteq Nat

VARIABLES upstream,   \* whether an upstream server is configured
          db, up,     \* database of this server and of the upstream server
          pending,    \* rows of db.outs inserted and not yet committed
          pc,         \* per client: "idle", awaiting upstream, or awaiting join()
          req,        \* the request it is served
          answer,     \* what the upstream server has answered to it
          queue,      \* backfill_queue
          unfinished, \* its count of unfinished tasks
          worker,     \* backfill worker: "idle", "dead", or the taskhash it copies
          told,       \* history: <<taskhash, unihash>> answered to reports
          assigned,   \* history: outhash whose report gave a taskhash its unihash
          promised,   \* history: what was queued since nothing was unfinished
          clock,      \* time of the last report, for created
          requests, failures

dbVars == <<db, up, pending, told, assigned, clock>>
clientVars == <<pc, req, answer>>
backfillVars == <<queue, unfinished, worker, promised>>
vars == <<upstream, dbVars, clientVars, backfillVars, requests, failures>>

\* unihashes_v2 and outhashes_v2, with their UNIQUE keys
Row == [taskhash : Taskhashes, outhash : Outhashes, created : Nat]
NoRow == [taskhash |-> NoHash, outhash |-> NoHash, created |-> 0, unihash |-> NoHash]

Request == [kind : Kinds, taskhash : Taskhashes \cup {NoHash},
            outhash : Outhashes \cup {NoHash}, unihash : Taskhashes \cup {NoHash}]
NoRequest == [kind |-> "none"]

\* A row of the join; a plain unihash comes without the output hash.
Answer == [taskhash : Taskhashes, outhash : Outhashes \cup {NoHash}, created : Nat,
           unihash : Taskhashes] \cup {NoRow}

Database == [uni : [Taskhashes -> Taskhashes \cup {NoHash}], outs : SUBSET Row]

\* The UNIQUE key of outhashes_v2
UniqueRows(d) ==
  \A r, s \in d.outs : r.taskhash = s.taskhash /\ r.outhash = s.outhash => r = s

TypeOK ==
  /\ upstream \in BOOLEAN
  /\ db \in Database /\ UniqueRows(db) /\ pending \subseteq db.outs
  /\ up \in Database /\ UniqueRows(up)
  /\ pc \in [Clients -> {"idle", "ask", "resume", "join"}]
  /\ req \in [Clients -> Request \cup {NoRequest}]
  /\ answer \in [Clients -> Answer]
  /\ queue \in Seq(Taskhashes)
  /\ clock \in Nat
  /\ worker \in Taskhashes \cup {"idle", "dead"}
  /\ unfinished \in Nat

-----------------------------------------------------------------------------
(* Tables *)

\* Mutant of InsertUnihash: Resolve.REPLACE.
ReplaceUnihash(d, t, u) == [d EXCEPT !.uni[t] = u]

\* insert_unihash(..., Resolve.IGNORE)
InsertUnihash(d, t, u) ==
  IF d.uni[t] = NoHash THEN [d EXCEPT !.uni[t] = u] ELSE d

\* Mutant of InsertOuthash: a repeated report adds a row.
InsertOuthashAgain(d, t, o, at) ==
  [d EXCEPT !.outs = @ \cup {[taskhash |-> t, outhash |-> o, created |-> at]}]

\* insert_outhash(..., Resolve.IGNORE)
InsertOuthash(d, t, o, at) ==
  IF \E r \in d.outs : r.taskhash = t /\ r.outhash = o THEN d
  ELSE [d EXCEPT !.outs = @ \cup {[taskhash |-> t, outhash |-> o, created |-> at]}]

\* outhashes_v2 INNER JOIN unihashes_v2
Joined(d) == {r \in d.outs : d.uni[r.taskhash] # NoHash}

\* Mutant of Pick: the newest row.
PickNewest(d, R) ==
  IF R = {} THEN NoRow
  ELSE LET r == CHOOSE x \in R : \A y \in R : x.created >= y.created
       IN  [taskhash |-> r.taskhash, outhash |-> r.outhash, created |-> r.created,
            unihash |-> d.uni[r.taskhash]]

\* ORDER BY created ASC LIMIT 1
Pick(d, R) ==
  IF R = {} THEN NoRow
  ELSE LET r == CHOOSE x \in R : \A y \in R : x.created <= y.created
       IN  [taskhash |-> r.taskhash, outhash |-> r.outhash, created |-> r.created,
            unihash |-> d.uni[r.taskhash]]

\* Another task with this output hash, in handle_report.
Equivalent(d, t, o) ==
  Pick(d, {r \in Joined(d) : r.outhash = o /\ r.taskhash # t})

ByTaskhash(d, t) == Pick(d, {r \in Joined(d) : r.taskhash = t})
ByOuthash(d, o) == Pick(d, {r \in Joined(d) : r.outhash = o})

\* handle_report on a server without upstream
Reported(d, t, o, u, at) ==
  LET d1 == InsertOuthash(d, t, o, at)
      e  == Equivalent(d1, t, o)
  IN  InsertUnihash(d1, t, IF e = NoRow THEN u ELSE e.unihash)

update_unified(d, a) ==
  IF a = NoRow THEN d
  ELSE InsertOuthash(InsertUnihash(d, a.taskhash, a.unihash), a.taskhash, a.outhash, a.created)

-----------------------------------------------------------------------------
EmptyDb == [uni |-> [t \in Taskhashes |-> NoHash], outs |-> {}]

\* create_async_client of the worker may fail as soon as the loop starts.
WorkerStarts == IF upstream THEN {"idle", "dead"} ELSE {"idle"}

Init ==
  /\ upstream \in BOOLEAN
  /\ db = EmptyDb /\ up = EmptyDb /\ pending = {}
  /\ pc = [c \in Clients |-> "idle"]
  /\ req = [c \in Clients |-> NoRequest]
  /\ answer = [c \in Clients |-> NoRow]
  /\ queue = <<>> /\ unfinished = 0 /\ worker \in WorkerStarts
  /\ told = {} /\ promised = {}
  /\ assigned = [t \in Taskhashes |-> NoHash]
  /\ clock = 0 /\ requests = 0 /\ failures = 0

\* What siggen reports for t: the taskhash, or the unihash a server has given it.
\* Which one is of no consequence when the table has a unihash for t.
Reportable(t) ==
  IF db.uni[t] # NoHash THEN {db.uni[t]} ELSE {t, up.uni[t]} \ {NoHash}

-----------------------------------------------------------------------------
(* Steps of a session.  Answered: it waits for its next request, and nothing  *)
(* of the last one is left.                                                   *)

Begin(c, r) ==
  /\ pc[c] = "idle" /\ r.kind \in Kinds
  /\ requests < (IF upstream THEN MaxRequests ELSE MaxAlone)
  /\ requests' = requests + 1
  /\ UNCHANGED <<upstream, failures>>

Answered(c) ==
  /\ pc' = [pc EXCEPT ![c] = "idle"]
  /\ req' = [req EXCEPT ![c] = NoRequest]
  /\ answer' = [answer EXCEPT ![c] = NoRow]

Ask(c, r) ==
  /\ pc' = [pc EXCEPT ![c] = "ask"]
  /\ req' = [req EXCEPT ![c] = r]
  /\ UNCHANGED answer

\* db.commit() commits what any handler has inserted.
Commit(d) == db' = d /\ pending' = {}

Tell(t) == told' = told \cup {<<t, db'.uni[t]>>}

Req(k, t, o, u) == [kind |-> k, taskhash |-> t, outhash |-> o, unihash |-> u]

\* The end of handle_report, with d the database and u the unihash chosen.
FinishReport(c, d, t, o, u) ==
  /\ Commit(InsertUnihash(d, t, u))
  /\ Tell(t)
  /\ assigned' = [assigned EXCEPT ![t] = IF d.uni[t] = NoHash THEN o ELSE @]
  /\ Answered(c)

\* The equivalence query runs for every report: "inserted" compares the
\* lastrowid of a fresh cursor with None, so it is true of an ignored row too.
Report(c, t, o, u) ==
  /\ Begin(c, Req("report", t, o, u))
  /\ clock' = clock + 1
  /\ LET d == InsertOuthash(db, t, o, clock')
         e == Equivalent(d, t, o)
     IN  IF e = NoRow /\ upstream
         THEN /\ db' = d /\ pending' = pending \cup (d.outs \ db.outs)
              /\ Ask(c, Req("report", t, o, u))
              /\ UNCHANGED <<told, assigned>>
         ELSE FinishReport(c, d, t, o, IF e = NoRow THEN u ELSE e.unihash)
  /\ UNCHANGED <<up, backfillVars>>

\* upstream_client.get_outhash() has returned.
ReportResume(c) ==
  /\ pc[c] = "resume" /\ req[c].kind = "report"
  /\ FinishReport(c, db, req[c].taskhash, req[c].outhash,
                  IF answer[c] = NoRow THEN req[c].unihash ELSE answer[c].unihash)
  /\ UNCHANGED <<upstream, up, clock, backfillVars, requests, failures>>

EquivReport(c, t, u) ==
  /\ Begin(c, Req("equiv", t, NoHash, u))
  /\ Commit(InsertUnihash(db, t, u))
  /\ Tell(t)
  /\ Answered(c)
  /\ UNCHANGED <<up, assigned, clock, backfillVars>>

\* The local answer to a query: a row, or NoRow to ask upstream.
Found(r) ==
  CASE r.kind \in {"get", "stream"} -> db.uni[r.taskhash] # NoHash
    [] r.kind = "get-all"           -> ByTaskhash(db, r.taskhash) # NoRow
    [] r.kind = "get-outhash"       -> ByOuthash(db, r.outhash) # NoRow

\* handle_get, handle_get_outhash and one line of handle_get_stream
Query(c, r) ==
  /\ Begin(c, r)
  /\ IF Found(r) \/ ~upstream THEN Answered(c) ELSE Ask(c, r)
  /\ UNCHANGED <<dbVars, backfillVars>>

\* The upstream server answers.
UpAnswer(r) ==
  CASE r.kind \in {"get", "stream"} ->
         IF up.uni[r.taskhash] = NoHash THEN NoRow
         ELSE [NoRow EXCEPT !.taskhash = r.taskhash, !.unihash = up.uni[r.taskhash]]
    [] r.kind = "get-all" -> ByTaskhash(up, r.taskhash)
    [] OTHER              -> ByOuthash(up, r.outhash)

UpstreamAnswers(c) ==
  /\ pc[c] = "ask"
  /\ answer' = [answer EXCEPT ![c] = UpAnswer(req[c])]
  /\ pc' = [pc EXCEPT ![c] = "resume"]
  /\ UNCHANGED <<upstream, dbVars, req, backfillVars, requests, failures>>

\* The connection to upstream is lost and cannot be made again: the exception
\* ends the session.  What the handler has inserted stays in the transaction.
UpstreamLost(c) ==
  /\ pc[c] = "ask" /\ failures < MaxFailures
  /\ failures' = failures + 1
  /\ Answered(c)
  /\ UNCHANGED <<upstream, dbVars, backfillVars, requests>>

\* get_unihash() without "all": an unknown taskhash raises AttributeError, which
\* ends the session as well.
GetResume(c) ==
  /\ pc[c] = "resume" /\ req[c].kind = "get"
  /\ IF answer[c] = NoRow THEN UNCHANGED <<db, pending>>
     ELSE Commit(InsertUnihash(db, answer[c].taskhash, answer[c].unihash))
  /\ Answered(c)
  /\ UNCHANGED <<upstream, up, told, assigned, clock, backfillVars, requests, failures>>

UnifiedResume(c) ==
  /\ pc[c] = "resume" /\ req[c].kind \in {"get-all", "get-outhash"}
  /\ Commit(update_unified(db, answer[c]))
  /\ Answered(c)
  /\ UNCHANGED <<upstream, up, told, assigned, clock, backfillVars, requests, failures>>

\* The answer is written and, if there is one, its taskhash queued.
StreamResume(c) ==
  /\ pc[c] = "resume" /\ req[c].kind = "stream"
  /\ IF answer[c] = NoRow THEN UNCHANGED <<queue, unfinished, promised>>
     ELSE /\ queue' = Append(queue, answer[c].taskhash)
          /\ unfinished' = unfinished + 1
          /\ promised' = promised \cup {answer[c].taskhash}
  /\ Answered(c)
  /\ UNCHANGED <<upstream, dbVars, worker, requests, failures>>

\* handle_backfill_wait: join() returns at once when nothing is unfinished.
BackfillWait(c) ==
  /\ Begin(c, Req("wait", NoHash, NoHash, NoHash))
  /\ IF unfinished = 0 THEN Answered(c)
     ELSE /\ pc' = [pc EXCEPT ![c] = "join"]
          /\ req' = [req EXCEPT ![c] = Req("wait", NoHash, NoHash, NoHash)]
          /\ UNCHANGED answer
  /\ UNCHANGED <<dbVars, backfillVars>>

-----------------------------------------------------------------------------
(* The backfill worker *)

\* task_done(); the last one wakes every join().
TaskDone ==
  /\ unfinished' = unfinished - 1
  /\ IF unfinished' = 0
     THEN /\ pc' = [c \in Clients |-> IF pc[c] = "join" THEN "idle" ELSE pc[c]]
          /\ req' = [c \in Clients |-> IF pc[c] = "join" THEN NoRequest ELSE req[c]]
     ELSE UNCHANGED <<pc, req>>
  /\ promised' = IF unfinished' = 0 THEN {} ELSE promised
  /\ UNCHANGED answer

\* Mutant of BackfillTake: task_done() before the copy.
BackfillTakeDone ==
  /\ worker = "idle" /\ queue # <<>>
  /\ worker' = Head(queue) /\ queue' = Tail(queue)
  /\ TaskDone
  /\ UNCHANGED <<upstream, dbVars, requests, failures>>

BackfillTake ==
  /\ worker = "idle" /\ queue # <<>>
  /\ worker' = Head(queue) /\ queue' = Tail(queue)
  /\ UNCHANGED <<upstream, dbVars, clientVars, unfinished, promised, requests, failures>>

\* Mutant of BackfillCopy: task_done() is forgotten.
BackfillCopyOnly ==
  /\ worker \in Taskhashes
  /\ IF up.uni[worker] = NoHash THEN UNCHANGED <<db, pending>>
     ELSE Commit(InsertUnihash(db, worker, up.uni[worker]))
  /\ worker' = "idle"
  /\ UNCHANGED <<upstream, up, told, assigned, clock, clientVars, queue, unfinished,
                 promised, requests, failures>>

\* copy_unihash_from_upstream() and task_done().  What upstream answers for a
\* taskhash it has streamed is settled, so asking and storing are one step.
BackfillCopy ==
  /\ worker \in Taskhashes
  /\ IF up.uni[worker] = NoHash THEN UNCHANGED <<db, pending>>
     ELSE Commit(InsertUnihash(db, worker, up.uni[worker]))
  /\ worker' = "idle"
  /\ TaskDone
  /\ UNCHANGED <<upstream, up, told, assigned, clock, queue, requests, failures>>

\* The worker's connection is lost: the exception ends it, and nobody starts
\* it again.
BackfillLost ==
  /\ worker \in Taskhashes /\ failures < MaxFailures
  /\ worker' = "dead"
  /\ failures' = failures + 1
  /\ UNCHANGED <<upstream, dbVars, clientVars, queue, unfinished, promised, requests>>

-----------------------------------------------------------------------------
(* The rest of the world *)

UpstreamReport(t, o, u) ==
  /\ upstream /\ Cardinality(up.outs) < MaxUpstream
  /\ clock' = clock + 1
  /\ up' = Reported(up, t, o, u, clock')
  /\ UNCHANGED <<upstream, db, pending, told, assigned, clientVars, backfillVars,
                 requests, failures>>

\* The server is killed and started again: sessions, queue and uncommitted rows
\* are gone, and the worker may fail to connect.
Crash ==
  /\ failures < MaxFailures
  /\ failures' = failures + 1
  /\ db' = [db EXCEPT !.outs = @ \ pending]
  /\ pending' = {}
  /\ pc' = [c \in Clients |-> "idle"]
  /\ req' = [c \in Clients |-> NoRequest]
  /\ answer' = [c \in Clients |-> NoRow]
  /\ queue' = <<>> /\ unfinished' = 0 /\ promised' = {}
  /\ worker' \in WorkerStarts
  /\ UNCHANGED <<upstream, up, told, assigned, clock, requests>>

-----------------------------------------------------------------------------
Server ==
  \/ \E c \in Clients : \/ UpstreamAnswers(c) \/ ReportResume(c) \/ GetResume(c)
                        \/ UnifiedResume(c) \/ StreamResume(c)
  \/ BackfillTake \/ BackfillCopy

ClientRequest(c) ==
  \/ \E t \in Taskhashes, o \in Outhashes : \E u \in Reportable(t) : Report(c, t, o, u)
  \/ \E t, u \in Taskhashes : EquivReport(c, t, u)
  \/ \E t \in Taskhashes, k \in {"get", "get-all", "stream"} :
       Query(c, Req(k, t, NoHash, NoHash))
  \/ \E o \in Outhashes : Query(c, Req("get-outhash", NoHash, o, NoHash))
  \/ BackfillWait(c)

Next ==
  \/ Server
  \/ \E c \in Clients : ClientRequest(c) \/ UpstreamLost(c)
  \/ BackfillLost \/ Crash
  \/ \E t \in Taskhashes, o \in Outhashes : UpstreamReport(t, o, t)

Spec == Init /\ [][Next]_vars

-----------------------------------------------------------------------------
(* Properties *)

\* A unihash answered to a report is what the server has for that task from
\* then on, although reports race, upstream has another one, the backfill
\* writes the same row and the server is killed.
ToldStays == \A p \in told : db.uni[p[1]] = p[2]

\* "a second reported task with the same outhash will be assigned the same
\* unihash" (hashserv/tests.py:89): it takes the oldest equivalent row.
EquivalentReports ==
  \A t, s \in Taskhashes :
    assigned[t] # NoHash /\ assigned[t] = assigned[s] => db.uni[t] = db.uni[s]

\* That holds of a server of its own.
EquivalentAlone == ~upstream => EquivalentReports

\* "After waiting for the downstream client to finish backfilling the task from
\* the upstream server, it should appear in the side server" (tests.py:211):
\* when a wait returns, all that was queued before is in the database.
WaitMeansCopied ==
  [][\A c \in Clients :
       pc[c] = "join" /\ pc'[c] = "idle" /\ failures' = failures =>
         \A t \in promised : db'.uni[t] # NoHash]_vars

\* Nobody waits for nothing: while a backfill-wait waits, the worker has an item
\* to finish, or it is dead.
WaitersWoken ==
  \A c \in Clients : pc[c] = "join" => queue # <<>> \/ worker # "idle"
=============================================================================
