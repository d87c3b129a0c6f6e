--------------------------- MODULE HashServProofs ---------------------------
(* What the hash equivalence server has answered to a report stands, and no   *)
(* backfill-wait is forgotten or returns too early, for any number of         *)
(* sessions, hashes, requests and failures.                                   *)
(*                                                                            *)
(* ToldStays is inductive once every answer is known to be a unihash: a row   *)
(* is only ignored by the next insert when there is one.  That needs the      *)
(* types of the tables, of the requests that wait for upstream (SessionInv),  *)
(* and that "the oldest row" exists.  WaitersWoken needs the queue's count,   *)
(* EquivalentAlone what the oldest row of an output says (AloneInv), and      *)
(* WaitMeansCopied where each queued item is (CopyInv).                       *)
EXTENDS HashServ, WellFoundedInduction, TLAPS

-----------------------------------------------------------------------------
(* Tables *)

CompleteAnswer == [taskhash : Taskhashes, outhash : Outhashes, created : Nat,
                   unihash : Taskhashes]

\* A non-empty set of times has a least one.
LEMMA LeastTime ==
  ASSUME NEW T, T \subseteq Nat, T # {}
  PROVE  \E x \in T : \A y \in T : x <= y
<1>1. IsWellFoundedOn(OpToRel(<, Nat), Nat)
  BY NatLessThanWellFounded
<1>2. PICK x \in T : \A y \in T : <<y, x>> \notin OpToRel(<, Nat)
  BY <1>1, WFMin
<1>3. \A y \in T : ~(y < x)
  BY <1>2 DEF OpToRel
<1>4. QED
  BY <1>3

\* A query that finds rows returns one of them with its unihash.
LEMMA PickRow ==
  ASSUME NEW d \in Database, NEW R, R \subseteq Joined(d)
  PROVE  Pick(d, R) \in CompleteAnswer \cup {NoRow}
<1>1. CASE R = {}
  BY <1>1 DEF Pick
<1>2. CASE R # {}
  <2>1. R \subseteq Row /\ \A r \in R : d.uni[r.taskhash] \in Taskhashes
    BY DEF Joined, Database, Row
  <2>2. {r.created : r \in R} \subseteq Nat /\ {r.created : r \in R} # {}
    BY <1>2, <2>1 DEF Row
  <2>3. PICK x \in {r.created : r \in R} : \A y \in {r.created : r \in R} : x <= y
    BY <2>2, LeastTime
  <2>4. \E r \in R : \A s \in R : r.created <= s.created
    BY <2>3
  <2>5. DEFINE r == CHOOSE r \in R : \A s \in R : r.created <= s.created
  <2>6. r \in R
    BY <2>4
  <2>7. Pick(d, R) = [taskhash |-> r.taskhash, outhash |-> r.outhash,
                      created |-> r.created, unihash |-> d.uni[r.taskhash]]
    BY <1>2 DEF Pick
  <2>8. QED
    BY <2>1, <2>6, <2>7 DEF CompleteAnswer, Row
<1>3. QED
  BY <1>1, <1>2

\* An ignored insert changes nothing, another one only a taskhash without row.
LEMMA InsertUnihashKeeps ==
  ASSUME NEW d \in Database, NEW t \in Taskhashes, NEW u \in Taskhashes
  PROVE  /\ InsertUnihash(d, t, u) \in Database
         /\ InsertUnihash(d, t, u).outs = d.outs
         /\ InsertUnihash(d, t, u).uni[t] \in Taskhashes
         /\ \A x \in Taskhashes : d.uni[x] # NoHash =>
              InsertUnihash(d, t, u).uni[x] = d.uni[x]
  BY DEF InsertUnihash, Database

\* An output hash is added under a key that was free, and no unihash changes.
LEMMA InsertOuthashKeeps ==
  ASSUME NEW d \in Database, NEW t \in Taskhashes, NEW o \in Outhashes, NEW at \in Nat
  PROVE  /\ InsertOuthash(d, t, o, at) \in Database
         /\ InsertOuthash(d, t, o, at).uni = d.uni
         /\ d.outs \subseteq InsertOuthash(d, t, o, at).outs
         /\ UniqueRows(d) => UniqueRows(InsertOuthash(d, t, o, at))
  BY DEF InsertOuthash, Database, Row, UniqueRows

\* What update_unified and a report do to a database.
LEMMA UnifiedKeeps ==
  ASSUME NEW d \in Database, NEW a \in CompleteAnswer \cup {NoRow}
  PROVE  /\ update_unified(d, a) \in Database
         /\ d.outs \subseteq update_unified(d, a).outs
         /\ UniqueRows(d) => UniqueRows(update_unified(d, a))
         /\ \A x \in Taskhashes : d.uni[x] # NoHash =>
              update_unified(d, a).uni[x] = d.uni[x]
<1>1. CASE a = NoRow
  BY <1>1 DEF update_unified
<1>2. CASE a \in CompleteAnswer /\ a # NoRow
  <2>1. DEFINE d1 == InsertUnihash(d, a.taskhash, a.unihash)
  <2>2. a.taskhash \in Taskhashes /\ a.unihash \in Taskhashes /\ a.outhash \in Outhashes
          /\ a.created \in Nat
    BY <1>2 DEF CompleteAnswer
  <2>3. /\ d1 \in Database /\ d1.outs = d.outs
        /\ \A x \in Taskhashes : d.uni[x] # NoHash => d1.uni[x] = d.uni[x]
    BY <2>2, InsertUnihashKeeps
  <2>4. update_unified(d, a) = InsertOuthash(d1, a.taskhash, a.outhash, a.created)
    BY <1>2 DEF update_unified
  <2>5. UniqueRows(d) => UniqueRows(d1)
    BY <2>3 DEF UniqueRows
  <2>6. HIDE DEF d1
  <2>7. QED
    BY <2>2, <2>3, <2>4, <2>5, InsertOuthashKeeps
<1>3. QED
  BY <1>1, <1>2

-----------------------------------------------------------------------------
(* The invariant *)

Types ==
  /\ db \in Database /\ up \in Database /\ clock \in Nat
  /\ pc \in [Clients -> {"idle", "ask", "resume", "join"}]
  /\ req \in [Clients -> Request \cup {NoRequest}]
  /\ answer \in [Clients -> Answer]

\* A request that asks upstream names what its handler will use.
Asked ==
  {r \in Request :
     \/ r.kind = "report" /\ r.taskhash \in Taskhashes /\ r.outhash \in Outhashes
          /\ r.unihash \in Taskhashes
     \/ r.kind \in {"get", "get-all", "stream"} /\ r.taskhash \in Taskhashes
     \/ r.kind = "get-outhash" /\ r.outhash \in Outhashes}

SessionInv ==
  \A c \in Clients :
    /\ pc[c] \in {"ask", "resume"} => req[c] \in Asked
    /\ pc[c] = "resume" /\ req[c].kind \notin {"get", "stream"} =>
         answer[c] \in CompleteAnswer \cup {NoRow}

ToldInv ==
  told \subseteq Taskhashes \X Taskhashes /\ \A p \in told : db.uni[p[1]] = p[2]

TableInv == Types /\ SessionInv /\ ToldInv

\* The steps of a session and of the server that leave tables and sessions alone.
LEMMA QuietTables ==
  ASSUME TableInv, UNCHANGED <<db, up, clock, pc, req, answer, told>>
  PROVE  TableInv'
  BY DEF TableInv, Types, SessionInv, ToldInv

\* A session that is answered, or dropped, waits for nothing.
LEMMA AnsweredSession ==
  ASSUME Types, SessionInv, NEW c \in Clients, Answered(c)
  PROVE  /\ pc' \in [Clients -> {"idle", "ask", "resume", "join"}]
         /\ req' \in [Clients -> Request \cup {NoRequest}]
         /\ answer' \in [Clients -> Answer]
         /\ SessionInv'
  BY DEF Answered, Types, SessionInv, Answer

\* A session that asks upstream.
LEMMA AskingSession ==
  ASSUME Types, SessionInv, NEW c \in Clients, NEW r \in Asked, Ask(c, r)
  PROVE  /\ pc' \in [Clients -> {"idle", "ask", "resume", "join"}]
         /\ req' \in [Clients -> Request \cup {NoRequest}]
         /\ answer' \in [Clients -> Answer]
         /\ SessionInv'
  BY DEF Ask, Types, SessionInv, Asked

\* As long as unihashes stay, so does what was told.
LEMMA ToldKept ==
  ASSUME ToldInv, told' = told, db \in Database,
         \A x \in Taskhashes : db.uni[x] # NoHash => db'.uni[x] = db.uni[x]
  PROVE  ToldInv'
  BY HashAssumption DEF ToldInv

\* Committing an insert and telling what the table has then.
LEMMA ToldMore ==
  ASSUME ToldInv, db \in Database, NEW d \in Database, d.uni = db.uni,
         NEW t \in Taskhashes, NEW u \in Taskhashes,
         Commit(InsertUnihash(d, t, u)), Tell(t)
  PROVE  db' \in Database /\ ToldInv'
<1>1. /\ db' \in Database /\ db'.uni[t] \in Taskhashes
      /\ \A x \in Taskhashes : db.uni[x] # NoHash => db'.uni[x] = db.uni[x]
  BY InsertUnihashKeeps DEF Commit
<1>2. \A p \in told : p \in Taskhashes \X Taskhashes /\ db'.uni[p[1]] = p[2]
  BY <1>1, HashAssumption DEF ToldInv
<1>3. QED
  BY <1>1, <1>2 DEF ToldInv, Tell

-----------------------------------------------------------------------------
(* It holds in every step *)

\* Nothing is stored, asked or told at the start.
LEMMA InitTables == Init => TableInv
  BY DEF Init, TableInv, Types, SessionInv, ToldInv, EmptyDb, Database, Answer

\* handle_report() up to its answer or its await.
LEMMA ReportTables ==
  ASSUME TableInv, NEW c \in Clients, NEW t \in Taskhashes, NEW o \in Outhashes,
         NEW u \in Taskhashes, Report(c, t, o, u)
  PROVE  TableInv'
<1> DEFINE d == InsertOuthash(db, t, o, clock')
           e == Equivalent(d, t, o)
           r == Req("report", t, o, u)
<1>1. db \in Database /\ up' = up /\ up \in Database /\ clock' \in Nat
  BY DEF Report, TableInv, Types
<1>2. d \in Database /\ d.uni = db.uni
  BY <1>1, InsertOuthashKeeps
<1>3. e \in CompleteAnswer \cup {NoRow}
  BY <1>2, PickRow DEF Equivalent
<1>4. r \in Asked
  BY DEF Report, Begin, Req, Asked, Request
<1>5. CASE e = NoRow /\ upstream
  <2>1. db' = d /\ Ask(c, r) /\ told' = told
    BY <1>5 DEF Report
  <2>2. ToldInv'
    BY <1>1, <1>2, <2>1, ToldKept DEF TableInv
  <2>3. QED
    BY <1>1, <1>2, <1>4, <2>1, <2>2, AskingSession DEF TableInv, Types
<1>6. CASE ~(e = NoRow /\ upstream)
  <2>1. DEFINE h == IF e = NoRow THEN u ELSE e.unihash
  <2>2. h \in Taskhashes
    BY <1>3 DEF CompleteAnswer
  <2>3. Commit(InsertUnihash(d, t, h)) /\ Tell(t) /\ Answered(c)
    BY <1>6 DEF Report, FinishReport
  <2>4. db' \in Database /\ ToldInv'
    BY <1>1, <1>2, <2>2, <2>3, ToldMore DEF TableInv
  <2>5. QED
    BY <1>1, <2>3, <2>4, AnsweredSession DEF TableInv, Types
<1>7. QED
  BY <1>5, <1>6

\* What the handlers do with the answer of the upstream server.
LEMMA ResumeTables ==
  ASSUME TableInv, NEW c \in Clients,
         ReportResume(c) \/ GetResume(c) \/ UnifiedResume(c) \/ StreamResume(c)
  PROVE  TableInv'
<1>1. db \in Database /\ up' = up /\ up \in Database /\ clock' = clock /\ clock \in Nat
  BY DEF TableInv, Types, ReportResume, GetResume, UnifiedResume, StreamResume, dbVars
<1>2. answer[c] \in Answer /\ Types /\ SessionInv /\ ToldInv
  BY DEF TableInv, Types
<1>3. CASE ReportResume(c)
  <2>1. DEFINE t == req[c].taskhash
               u == IF answer[c] = NoRow THEN req[c].unihash ELSE answer[c].unihash
  <2>2. t \in Taskhashes /\ u \in Taskhashes
    BY <1>2, <1>3 DEF ReportResume, SessionInv, Asked, Answer
  <2>3. Commit(InsertUnihash(db, t, u)) /\ Tell(t) /\ Answered(c)
    BY <1>3 DEF ReportResume, FinishReport
  <2>4. db' \in Database /\ ToldInv'
    BY <1>1, <1>2, <2>2, <2>3, ToldMore
  <2>5. QED
    BY <1>1, <1>2, <2>3, <2>4, AnsweredSession DEF TableInv, Types
<1>4. CASE GetResume(c)
  <2>1. /\ db' \in Database
        /\ \A x \in Taskhashes : db.uni[x] # NoHash => db'.uni[x] = db.uni[x]
    <3>1. CASE answer[c] = NoRow
      BY <1>1, <1>4, <3>1 DEF GetResume
    <3>2. CASE answer[c] # NoRow
      <4>1. answer[c].taskhash \in Taskhashes /\ answer[c].unihash \in Taskhashes
        BY <1>2, <3>2 DEF Answer
      <4>2. db' = InsertUnihash(db, answer[c].taskhash, answer[c].unihash)
        BY <1>4, <3>2 DEF GetResume, Commit
      <4>3. QED
        BY <1>1, <4>1, <4>2, InsertUnihashKeeps
    <3>3. QED
      BY <3>1, <3>2
  <2>2. told' = told /\ Answered(c)
    BY <1>4 DEF GetResume
  <2>3. QED
    BY <1>1, <1>2, <2>1, <2>2, ToldKept, AnsweredSession DEF TableInv, Types
<1>5. CASE UnifiedResume(c)
  <2>1. answer[c] \in CompleteAnswer \cup {NoRow}
    BY <1>2, <1>5 DEF UnifiedResume, SessionInv
  <2>2. db' = update_unified(db, answer[c]) /\ told' = told /\ Answered(c)
    BY <1>5 DEF UnifiedResume, Commit
  <2>3. /\ db' \in Database
        /\ \A x \in Taskhashes : db.uni[x] # NoHash => db'.uni[x] = db.uni[x]
    BY <1>1, <2>1, <2>2, UnifiedKeeps
  <2>4. QED
    BY <1>1, <1>2, <2>2, <2>3, ToldKept, AnsweredSession DEF TableInv, Types
<1>6. CASE StreamResume(c)
  <2>1. db' = db /\ told' = told /\ Answered(c)
    BY <1>6 DEF StreamResume, dbVars
  <2>2. QED
    BY <1>1, <1>2, <2>1, ToldKept, AnsweredSession DEF TableInv, Types
<1>7. QED
  BY <1>3, <1>4, <1>5, <1>6

\* The requests that are answered at once, or ask upstream without a change.
LEMMA RequestTables ==
  ASSUME TableInv, NEW c \in Clients, ClientRequest(c) \/ UpstreamLost(c)
  PROVE  TableInv'
<1>1. Types /\ SessionInv /\ ToldInv /\ db \in Database /\ up \in Database /\ clock \in Nat
  BY DEF TableInv, Types
<1>2. ASSUME NEW t \in Taskhashes, NEW o \in Outhashes, NEW u \in Reportable(t),
             Report(c, t, o, u)
      PROVE  TableInv'
  <2>1. u \in Taskhashes
    BY <1>1 DEF Reportable, Database
  <2>2. QED
    BY <1>2, <2>1, ReportTables
<1>3. ASSUME NEW t \in Taskhashes, NEW u \in Taskhashes, EquivReport(c, t, u)
      PROVE  TableInv'
  <2>1. Commit(InsertUnihash(db, t, u)) /\ Tell(t) /\ Answered(c) /\ up' = up /\ clock' = clock
    BY <1>3 DEF EquivReport
  <2>2. db' \in Database /\ ToldInv'
    BY <1>1, <2>1, ToldMore
  <2>3. QED
    BY <1>1, <2>1, <2>2, AnsweredSession DEF TableInv, Types
<1>4. ASSUME NEW r \in Asked, Query(c, r) PROVE TableInv'
  <2>1. db' = db /\ up' = up /\ clock' = clock /\ told' = told /\ (Answered(c) \/ Ask(c, r))
    BY <1>4 DEF Query, dbVars
  <2>2. QED
    BY <1>1, <2>1, ToldKept, AnsweredSession, AskingSession DEF TableInv, Types
<1>5. ASSUME NEW t \in Taskhashes, NEW k \in {"get", "get-all", "stream"},
             Query(c, Req(k, t, NoHash, NoHash))
      PROVE  TableInv'
  <2>1. Req(k, t, NoHash, NoHash) \in Asked
    BY <1>5 DEF Query, Begin, Req, Asked, Request
  <2>2. QED
    BY <1>4, <1>5, <2>1
<1>6. ASSUME NEW o \in Outhashes, Query(c, Req("get-outhash", NoHash, o, NoHash))
      PROVE  TableInv'
  <2>1. Req("get-outhash", NoHash, o, NoHash) \in Asked
    BY <1>6 DEF Query, Begin, Req, Asked, Request
  <2>2. QED
    BY <1>4, <1>6, <2>1
<1>7. CASE BackfillWait(c)
  <2>1. db' = db /\ up' = up /\ clock' = clock /\ told' = told
    BY <1>7 DEF BackfillWait, dbVars
  <2>2. CASE Answered(c)
    BY <1>1, <2>1, <2>2, ToldKept, AnsweredSession DEF TableInv, Types
  <2>3. CASE ~Answered(c)
    <3>1. /\ pc' = [pc EXCEPT ![c] = "join"] /\ answer' = answer
          /\ req' = [req EXCEPT ![c] = Req("wait", NoHash, NoHash, NoHash)]
      BY <1>7, <2>3 DEF BackfillWait
    <3>2. Req("wait", NoHash, NoHash, NoHash) \in Request
      BY <1>7 DEF BackfillWait, Begin, Req, Request
    <3>3. ToldInv'
      BY <1>1, <2>1, ToldKept
    <3>4. SessionInv'
      BY <1>1, <3>1 DEF SessionInv, Types
    <3>5. QED
      BY <1>1, <2>1, <3>1, <3>2, <3>3, <3>4 DEF TableInv, Types
  <2>4. QED
    BY <2>2, <2>3
<1>8. CASE UpstreamLost(c)
  <2>1. db' = db /\ up' = up /\ clock' = clock /\ told' = told /\ Answered(c)
    BY <1>8 DEF UpstreamLost, dbVars
  <2>2. QED
    BY <1>1, <2>1, ToldKept, AnsweredSession DEF TableInv, Types
<1>9. QED
  BY <1>2, <1>3, <1>5, <1>6, <1>7, <1>8 DEF ClientRequest

\* The upstream server answers with what its own tables hold.
LEMMA UpstreamTables ==
  ASSUME TableInv, NEW c \in Clients, UpstreamAnswers(c)
  PROVE  TableInv'
<1>1. Types /\ SessionInv /\ ToldInv /\ up \in Database
  BY DEF TableInv, Types
<1>2. /\ UNCHANGED <<db, up, clock, told, req>> /\ req[c] \in Asked
      /\ pc' = [pc EXCEPT ![c] = "resume"]
      /\ answer' = [answer EXCEPT ![c] = UpAnswer(req[c])]
  BY <1>1 DEF UpstreamAnswers, SessionInv, dbVars
<1>3. /\ UpAnswer(req[c]) \in Answer
      /\ req[c].kind \notin {"get", "stream"} => UpAnswer(req[c]) \in CompleteAnswer \cup {NoRow}
  <2>1. CASE req[c].kind \in {"get", "stream"}
    <3>1. req[c].taskhash \in Taskhashes
      BY <1>2, <2>1 DEF Asked
    <3>2. up.uni[req[c].taskhash] # NoHash => up.uni[req[c].taskhash] \in Taskhashes
      BY <1>1, <3>1 DEF Database
    <3>3. QED
      BY <2>1, <3>1, <3>2 DEF UpAnswer, Answer, NoRow
  <2>2. CASE req[c].kind \notin {"get", "stream"}
    <3>1. ByTaskhash(up, req[c].taskhash) \in CompleteAnswer \cup {NoRow}
      BY <1>1, PickRow DEF ByTaskhash
    <3>2. ByOuthash(up, req[c].outhash) \in CompleteAnswer \cup {NoRow}
      BY <1>1, PickRow DEF ByOuthash
    <3>3. UpAnswer(req[c]) \in CompleteAnswer \cup {NoRow}
      BY <2>2, <3>1, <3>2 DEF UpAnswer
    <3>4. CompleteAnswer \cup {NoRow} \subseteq Answer
      BY DEF CompleteAnswer, Answer
    <3>5. QED
      BY <2>2, <3>3, <3>4
  <2>3. QED
    BY <2>1, <2>2
<1>4. Types'
  BY <1>1, <1>2, <1>3 DEF Types
<1>5. SessionInv'
  BY <1>1, <1>2, <1>3 DEF SessionInv, Types
<1>6. ToldInv'
  BY <1>1, <1>2 DEF ToldInv
<1>7. QED
  BY <1>4, <1>5, <1>6 DEF TableInv

\* Reports to the upstream server change its tables only.
LEMMA UpstreamReportTables ==
  ASSUME TableInv, NEW t \in Taskhashes, NEW o \in Outhashes, UpstreamReport(t, o, t)
  PROVE  TableInv'
<1> DEFINE d == InsertOuthash(up, t, o, clock')
           e == Equivalent(d, t, o)
           u == IF e = NoRow THEN t ELSE e.unihash
<1>1. up \in Database /\ clock' \in Nat
  BY DEF TableInv, Types, UpstreamReport
<1>2. d \in Database
  BY <1>1, InsertOuthashKeeps
<1>3. u \in Taskhashes
  <2>1. e \in CompleteAnswer \cup {NoRow}
    BY <1>2, PickRow DEF Equivalent
  <2>2. QED
    BY <2>1 DEF CompleteAnswer
<1>4. up' = InsertUnihash(d, t, u)
  BY DEF UpstreamReport, Reported
<1>5. up' \in Database
  BY <1>2, <1>3, <1>4, InsertUnihashKeeps
<1>6. UNCHANGED <<db, pc, req, answer, told>>
  BY DEF UpstreamReport, clientVars
<1>7. QED
  BY <1>1, <1>5, <1>6 DEF TableInv, Types, SessionInv, ToldInv

\* The worker, and the sessions it wakes.
LEMMA WorkerTables ==
  ASSUME TableInv, BackfillTake \/ BackfillCopy \/ BackfillLost
  PROVE  TableInv'
<1>1. CASE BackfillTake \/ BackfillLost
  BY <1>1, QuietTables DEF BackfillTake, BackfillLost, dbVars, clientVars
<1>2. CASE BackfillCopy
  <2>1. Types /\ SessionInv /\ ToldInv /\ db \in Database /\ up \in Database
    BY DEF TableInv, Types
  <2>2. /\ db' \in Database
        /\ \A x \in Taskhashes : db.uni[x] # NoHash => db'.uni[x] = db.uni[x]
    <3>1. CASE up.uni[worker] = NoHash
      BY <1>2, <2>1, <3>1 DEF BackfillCopy
    <3>2. CASE up.uni[worker] # NoHash
      <4>1. worker \in Taskhashes /\ up.uni[worker] \in Taskhashes
        BY <1>2, <2>1, <3>2 DEF BackfillCopy, Database
      <4>2. db' = InsertUnihash(db, worker, up.uni[worker])
        BY <1>2, <3>2 DEF BackfillCopy, Commit
      <4>3. QED
        BY <2>1, <4>1, <4>2, InsertUnihashKeeps
    <3>3. QED
      BY <3>1, <3>2
  <2>3. UNCHANGED <<up, clock, told, answer>>
    BY <1>2 DEF BackfillCopy, TaskDone
  <2>4. /\ pc' = pc /\ req' = req
        \/ /\ pc' = [c \in Clients |-> IF pc[c] = "join" THEN "idle" ELSE pc[c]]
           /\ req' = [c \in Clients |-> IF pc[c] = "join" THEN NoRequest ELSE req[c]]
    BY <1>2 DEF BackfillCopy, TaskDone
  <2>5. Types'
    BY <2>1, <2>2, <2>3, <2>4 DEF Types
  <2>6. SessionInv'
    BY <2>1, <2>3, <2>4 DEF SessionInv, Types
  <2>7. QED
    BY <2>1, <2>2, <2>3, <2>5, <2>6, ToldKept DEF TableInv
<1>3. QED
  BY <1>1, <1>2

\* A crash takes uncommitted output hashes, and no unihash.
LEMMA CrashTables ==
  ASSUME TableInv, Crash
  PROVE  TableInv'
<1>1. /\ UNCHANGED <<up, clock, told>>
      /\ db' = [db EXCEPT !.outs = @ \ pending]
      /\ pc' = [c \in Clients |-> "idle"]
      /\ req' = [c \in Clients |-> NoRequest]
      /\ answer' = [c \in Clients |-> NoRow]
  BY DEF Crash
<1>2. db' \in Database /\ db'.uni = db.uni
  BY <1>1 DEF TableInv, Types, Database
<1>3. QED
  BY <1>1, <1>2 DEF TableInv, Types, SessionInv, ToldInv, Answer

\* Every step preserves the invariant of the tables.
LEMMA NextTables == TableInv /\ [Next]_vars => TableInv'
<1> SUFFICES ASSUME TableInv, [Next]_vars PROVE TableInv'
  OBVIOUS
<1>1. CASE UNCHANGED vars
  BY <1>1, QuietTables DEF vars, dbVars, clientVars
<1>2. CASE Next
  BY <1>2, RequestTables, ResumeTables, UpstreamTables, UpstreamReportTables, WorkerTables,
     CrashTables DEF Next, Server
<1>3. QED
  BY <1>1, <1>2

\* A unihash answered to a report stays that of its task: handle_report and
\* handle_equivreport answer what the table has after an insert that ignores
\* conflicts, and so does every other insert.
THEOREM ReportsStand == Spec => []ToldStays
<1>1. Spec => []TableInv
  BY InitTables, NextTables, PTL DEF Spec
<1>2. TableInv => ToldStays
  BY DEF TableInv, ToldInv, ToldStays
<1>3. QED
  BY <1>1, <1>2, PTL

-----------------------------------------------------------------------------
(* The backfill queue: what is unfinished is queued or with the worker, and   *)
(* who waits waits for something.                                             *)

QueueInv ==
  /\ queue \in Seq(Taskhashes) /\ unfinished \in Nat
  /\ worker \in Taskhashes \cup {"idle", "dead"}
  /\ worker = "idle" => unfinished = Len(queue)
  /\ worker \in Taskhashes => unfinished = Len(queue) + 1
  /\ \A c \in Clients : pc[c] = "join" => unfinished > 0

\* The queue is empty at the start.
LEMMA InitQueue == Init => QueueInv
  BY HashAssumption DEF Init, QueueInv, WorkerStarts

\* A session that is answered, or asks upstream, does not wait for the queue.
LEMMA SessionQueue ==
  ASSUME TableInv, QueueInv, UNCHANGED backfillVars, NEW c \in Clients,
         Answered(c) \/ (\E r : Ask(c, r))
  PROVE  QueueInv'
  BY DEF QueueInv, TableInv, Types, backfillVars, Answered, Ask

\* Requests queue nothing, and only a backfill-wait with work unfinished waits.
LEMMA RequestQueue ==
  ASSUME TableInv, QueueInv, NEW c \in Clients, ClientRequest(c) \/ UpstreamLost(c)
  PROVE  QueueInv'
<1>1. ASSUME NEW t, NEW o, NEW u, Report(c, t, o, u) PROVE QueueInv'
  <2>1. UNCHANGED backfillVars /\ (Answered(c) \/ \E r : Ask(c, r))
    BY <1>1 DEF Report, FinishReport
  <2>2. QED
    BY <2>1, SessionQueue
<1>2. ASSUME NEW t, NEW u, EquivReport(c, t, u) PROVE QueueInv'
  BY <1>2, SessionQueue DEF EquivReport
<1>3. ASSUME NEW r, Query(c, r) PROVE QueueInv'
  BY <1>3, SessionQueue DEF Query
<1>4. CASE BackfillWait(c)
  <2>1. CASE unfinished = 0
    BY <1>4, <2>1, SessionQueue DEF BackfillWait
  <2>2. CASE unfinished # 0
    BY <1>4, <2>2 DEF BackfillWait, backfillVars, QueueInv, TableInv, Types
  <2>3. QED
    BY <2>1, <2>2
<1>5. CASE UpstreamLost(c)
  BY <1>5, SessionQueue DEF UpstreamLost
<1>6. QED
  BY <1>1, <1>2, <1>3, <1>4, <1>5 DEF ClientRequest

\* An answer from upstream is queued and counted in one step.
LEMMA ResumeQueue ==
  ASSUME TableInv, QueueInv, NEW c \in Clients,
         \/ UpstreamAnswers(c) \/ ReportResume(c) \/ GetResume(c) \/ UnifiedResume(c)
         \/ StreamResume(c)
  PROVE  QueueInv'
<1>1. CASE UpstreamAnswers(c)
  BY <1>1 DEF UpstreamAnswers, backfillVars, QueueInv, TableInv, Types
<1>2. CASE ReportResume(c) \/ GetResume(c) \/ UnifiedResume(c)
  BY <1>2, SessionQueue DEF ReportResume, FinishReport, GetResume, UnifiedResume
<1>3. CASE StreamResume(c)
  <2>1. Answered(c) /\ worker' = worker
    BY <1>3 DEF StreamResume
  <2>2. CASE answer[c] = NoRow
    <3>1. UNCHANGED backfillVars
      BY <1>3, <2>2 DEF StreamResume, backfillVars
    <3>2. QED
      BY <2>1, <3>1, SessionQueue
  <2>3. CASE answer[c] # NoRow
    <3>1. answer[c].taskhash \in Taskhashes
      BY <2>3 DEF TableInv, Types, Answer
    <3>2. queue' = Append(queue, answer[c].taskhash) /\ unfinished' = unfinished + 1
      BY <1>3, <2>3 DEF StreamResume
    <3>3. queue' \in Seq(Taskhashes) /\ Len(queue') = Len(queue) + 1
      BY <3>1, <3>2 DEF QueueInv
    <3>4. QED
      BY <2>1, <3>2, <3>3 DEF QueueInv
  <2>4. QED
    BY <2>2, <2>3
<1>4. QED
  BY <1>1, <1>2, <1>3

\* The worker takes an item and is done with it once.
LEMMA WorkerQueue ==
  ASSUME TableInv, QueueInv, BackfillTake \/ BackfillCopy \/ BackfillLost
  PROVE  QueueInv'
<1>1. CASE BackfillTake
  <2>1. Head(queue) \in Taskhashes /\ Tail(queue) \in Seq(Taskhashes)
          /\ Len(Tail(queue)) = Len(queue) - 1 /\ Len(queue) \in Nat
    BY <1>1 DEF BackfillTake, QueueInv
  <2>2. QED
    BY <1>1, <2>1, HashAssumption DEF BackfillTake, QueueInv, clientVars
<1>2. CASE BackfillCopy
  <2>1. unfinished = Len(queue) + 1 /\ Len(queue) \in Nat
    BY <1>2 DEF BackfillCopy, QueueInv
  <2>2. /\ worker' = "idle" /\ queue' = queue /\ unfinished' = unfinished - 1
        /\ unfinished' = 0 => pc' = [c \in Clients |-> IF pc[c] = "join" THEN "idle" ELSE pc[c]]
    BY <1>2 DEF BackfillCopy, TaskDone
  <2>3. QED
    BY <2>1, <2>2, HashAssumption DEF QueueInv
<1>3. CASE BackfillLost
  BY <1>3, HashAssumption DEF BackfillLost, QueueInv, clientVars
<1>4. QED
  BY <1>1, <1>2, <1>3

\* Every step preserves the invariant of the queue.
LEMMA NextQueue == TableInv /\ QueueInv /\ [Next]_vars => QueueInv'
<1> SUFFICES ASSUME TableInv, QueueInv, [Next]_vars PROVE QueueInv'
  OBVIOUS
<1>1. CASE UNCHANGED vars
  BY <1>1 DEF vars, clientVars, backfillVars, QueueInv
<1>2. CASE Crash
  BY <1>2, HashAssumption DEF Crash, WorkerStarts, QueueInv
<1>3. ASSUME NEW t, NEW o, UpstreamReport(t, o, t) PROVE QueueInv'
  BY <1>3 DEF UpstreamReport, clientVars, backfillVars, QueueInv
<1>4. QED
  BY <1>1, <1>2, <1>3, RequestQueue, ResumeQueue, WorkerQueue DEF Next, Server

\* No backfill-wait sleeps over an empty queue and an idle worker: task_done() is
\* called once for each item, and the last call wakes every join().
THEOREM NoWaiterForgotten == Spec => []WaitersWoken
<1>1. Init => TableInv /\ QueueInv
  BY InitTables, InitQueue
<1>2. TableInv /\ QueueInv /\ [Next]_vars => (TableInv /\ QueueInv)'
  BY NextTables, NextQueue
<1>3. TableInv /\ QueueInv => WaitersWoken
  BY DEF QueueInv, WaitersWoken
<1>4. QED
  BY <1>1, <1>2, <1>3, PTL DEF Spec

-----------------------------------------------------------------------------
(* What was queued is copied before a backfill-wait returns.                  *)

\* A taskhash that has a unihash keeps it.
Extends(d, e) == \A x \in Taskhashes : d.uni[x] # NoHash => e.uni[x] = d.uni[x]

\* Whatever is inserted.
LEMMA InsertExtends ==
  ASSUME NEW d \in Database, NEW t, NEW u
  PROVE  Extends(d, InsertUnihash(d, t, u))
  BY DEF InsertUnihash, Database, Extends

\* After an output hash was added as well.
LEMMA ReportExtends ==
  ASSUME NEW d \in Database, NEW t \in Taskhashes, NEW o \in Outhashes, NEW at \in Nat, NEW u
  PROVE  /\ Extends(d, InsertOuthash(d, t, o, at))
         /\ Extends(d, InsertUnihash(InsertOuthash(d, t, o, at), t, u))
<1> DEFINE e == InsertOuthash(d, t, o, at)
<1>1. e \in Database /\ e.uni = d.uni
  BY InsertOuthashKeeps
<1> HIDE DEF e
<1>2. Extends(e, InsertUnihash(e, t, u))
  BY <1>1, InsertExtends
<1>3. QED
  BY <1>1, <1>2 DEF Extends, e

\* Neither server ever loses or changes a unihash, also when it is killed.
LEMMA UnihashesStay ==
  ASSUME TableInv, Next
  PROVE  Extends(db, db') /\ Extends(up, up')
<1>0. db \in Database /\ up \in Database /\ clock \in Nat /\ Extends(db, db) /\ Extends(up, up)
  BY DEF TableInv, Types, Extends
<1>1. ASSUME NEW c \in Clients, NEW t \in Taskhashes, NEW o \in Outhashes, NEW u,
             Report(c, t, o, u)
      PROVE  Extends(db, db') /\ Extends(up, up')
  <2>1. /\ clock' \in Nat /\ up' = up
        /\ \/ db' = InsertOuthash(db, t, o, clock')
           \/ \E h : db' = InsertUnihash(InsertOuthash(db, t, o, clock'), t, h)
    BY <1>0, <1>1 DEF Report, FinishReport, Commit
  <2>2. QED
    BY <1>0, <2>1, ReportExtends
<1>2. ASSUME NEW c \in Clients, ReportResume(c) \/ GetResume(c) \/ UnifiedResume(c)
      PROVE  Extends(db, db') /\ Extends(up, up')
  <2>1. CASE ReportResume(c) \/ GetResume(c)
    BY <1>0, <2>1, InsertExtends DEF ReportResume, GetResume, FinishReport, Commit
  <2>2. CASE UnifiedResume(c)
    <3>1. answer[c] \in CompleteAnswer \cup {NoRow} /\ db' = update_unified(db, answer[c])
          /\ up' = up
      BY <2>2 DEF UnifiedResume, TableInv, SessionInv, Commit
    <3>2. QED
      BY <1>0, <3>1, UnifiedKeeps DEF Extends
  <2>3. QED
    BY <1>2, <2>1, <2>2
<1>3. ASSUME NEW c \in Clients, NEW t, NEW u, EquivReport(c, t, u)
      PROVE  Extends(db, db') /\ Extends(up, up')
  BY <1>0, <1>3, InsertExtends DEF EquivReport, Commit
<1>4. CASE BackfillCopy
  BY <1>0, <1>4, InsertExtends DEF BackfillCopy, Commit
<1>5. ASSUME NEW t \in Taskhashes, NEW o \in Outhashes, UpstreamReport(t, o, t)
      PROVE  Extends(db, db') /\ Extends(up, up')
  <2>1. /\ clock' \in Nat /\ db' = db
        /\ \E h : up' = InsertUnihash(InsertOuthash(up, t, o, clock'), t, h)
    BY <1>0, <1>5 DEF UpstreamReport, Reported
  <2>2. QED
    BY <1>0, <2>1, ReportExtends
<1>6. CASE Crash
  BY <1>0, <1>6 DEF Crash, Database, Extends
<1>7. CASE UNCHANGED <<db, up>>
  BY <1>0, <1>7
<1>8. QED
  BY <1>1, <1>2, <1>3, <1>4, <1>5, <1>6, <1>7
     DEF Next, Server, ClientRequest, UpstreamAnswers, StreamResume, BackfillTake, Query,
         BackfillWait, UpstreamLost, BackfillLost, dbVars

\* What a stream was answered, and what is queued since nothing was unfinished, has a
\* unihash upstream, and the latter is copied, with the worker or still queued, unless
\* the worker is dead.
CopyInv ==
  /\ failures \in Nat
  /\ \A c \in Clients : pc[c] = "resume" /\ req[c].kind = "stream" /\ answer[c] # NoRow =>
       up.uni[answer[c].taskhash] # NoHash
  /\ \A t \in promised :
       /\ t \in Taskhashes /\ up.uni[t] # NoHash
       /\ \/ db.uni[t] # NoHash \/ t = worker \/ worker = "dead"
          \/ \E i \in 1..Len(queue) : queue[i] = t

\* Every step keeps that.
LEMMA NextCopy ==
  ASSUME TableInv, QueueInv, CopyInv, [Next]_vars
  PROVE  CopyInv'
<1>0. /\ Types /\ SessionInv /\ db \in Database /\ up \in Database
      /\ \A c \in Clients : answer[c] \in Answer
      /\ queue \in Seq(Taskhashes) /\ NoRow.unihash = NoHash
  BY DEF TableInv, Types, QueueInv, NoRow
<1> DEFINE Sessions == \A c \in Clients :
             pc'[c] = "resume" /\ req'[c].kind = "stream" /\ answer'[c] # NoRow =>
               \/ pc[c] = "resume" /\ req[c].kind = "stream" /\ answer[c] = answer'[c]
               \/ up.uni[answer'[c].taskhash] # NoHash /\ answer'[c].taskhash \in Taskhashes
<1>1. CASE UNCHANGED vars
  BY <1>1 DEF vars, dbVars, clientVars, backfillVars, CopyInv
<1>2. CASE Next
  <2>1. Extends(db, db') /\ Extends(up, up')
    BY <1>2, UnihashesStay
  <2>2. Sessions
    <3>1. ASSUME NEW c \in Clients, UpstreamAnswers(c) PROVE Sessions
      <4>1. /\ answer' = [answer EXCEPT ![c] = UpAnswer(req[c])]
            /\ pc' = [pc EXCEPT ![c] = "resume"] /\ req' = req /\ req[c] \in Asked
        BY <1>0, <3>1 DEF UpstreamAnswers, SessionInv
      <4>2. req[c].kind = "stream" /\ UpAnswer(req[c]) # NoRow =>
              /\ up.uni[UpAnswer(req[c]).taskhash] # NoHash
              /\ UpAnswer(req[c]).taskhash \in Taskhashes
        BY <4>1 DEF UpAnswer, Asked, NoRow
      <4>3. QED
        BY <1>0, <4>1, <4>2 DEF Types
    <3>2. ASSUME NEW c \in Clients, Answered(c) \/ (\E r : Ask(c, r)) PROVE Sessions
      BY <1>0, <3>2 DEF Answered, Ask, Types
    <3>3. ASSUME NEW c \in Clients, BackfillWait(c) PROVE Sessions
      BY <1>0, <3>2, <3>3 DEF BackfillWait, Types
    <3>4. CASE BackfillCopy
      BY <1>0, <3>4 DEF BackfillCopy, TaskDone, Types
    <3>5. CASE Crash
      BY <1>0, <3>5 DEF Crash, Types
    <3>6. CASE UNCHANGED <<pc, req, answer>>
      BY <3>6
    <3>7. QED
      BY <1>2, <3>1, <3>2, <3>3, <3>4, <3>5, <3>6
         DEF Next, Server, ClientRequest, ReportResume, GetResume, UnifiedResume, StreamResume,
             FinishReport, Report, EquivReport, Query, BackfillTake, UpstreamLost, BackfillLost,
             UpstreamReport, clientVars
  <2>3. \A c \in Clients : pc'[c] = "resume" /\ req'[c].kind = "stream" /\ answer'[c] # NoRow =>
          up'.uni[answer'[c].taskhash] # NoHash
    <3> SUFFICES ASSUME NEW c \in Clients, pc'[c] = "resume", req'[c].kind = "stream",
                        answer'[c] # NoRow
                 PROVE  up'.uni[answer'[c].taskhash] # NoHash
      OBVIOUS
    <3>1. up.uni[answer'[c].taskhash] # NoHash /\ answer'[c].taskhash \in Taskhashes
      BY <1>0, <2>2 DEF CopyInv, Answer
    <3>2. QED
      BY <2>1, <3>1 DEF Extends
  <2> HIDE DEF Sessions
  <2>4. ASSUME NEW t \in promised' PROVE t \in Taskhashes /\ up.uni[t] # NoHash
    <3>1. CASE \E c \in Clients : StreamResume(c)
      <4>1. PICK c \in Clients : StreamResume(c)
        BY <3>1
      <4>2. t \in promised \/ (t = answer[c].taskhash /\ answer[c] # NoRow)
        BY <2>4, <4>1 DEF StreamResume
      <4>3. QED
        BY <1>0, <4>1, <4>2 DEF CopyInv, StreamResume, Answer
    <3>2. CASE promised' \subseteq promised
      BY <2>4, <3>2 DEF CopyInv
    <3>3. QED
      BY <1>2, <3>1, <3>2
         DEF Next, Server, ClientRequest, UpstreamAnswers, ReportResume, GetResume, UnifiedResume,
             Report, EquivReport, Query, BackfillWait, BackfillTake, BackfillCopy, TaskDone,
             UpstreamLost, BackfillLost, Crash, UpstreamReport, backfillVars
  <2>5. ASSUME NEW t \in promised'
        PROVE  \/ db'.uni[t] # NoHash \/ t = worker' \/ worker' = "dead"
               \/ \E i \in 1..Len(queue') : queue'[i] = t
    <3>0. t \in Taskhashes /\ up.uni[t] # NoHash
      BY <2>4, <2>5
    <3> DEFINE Q == \E i \in 1..Len(queue) : queue[i] = t
    <3>1. CASE \E c \in Clients : StreamResume(c)
      <4>1. PICK c \in Clients : StreamResume(c)
        BY <3>1
      <4>2. CASE answer[c] = NoRow
        BY <2>5, <4>1, <4>2 DEF StreamResume, CopyInv, dbVars
      <4>3. CASE answer[c] # NoRow
        <5>1. /\ queue' = Append(queue, answer[c].taskhash) /\ db' = db /\ worker' = worker
              /\ promised' = promised \cup {answer[c].taskhash}
              /\ answer[c].taskhash \in Taskhashes
          BY <1>0, <4>1, <4>3 DEF StreamResume, dbVars, Answer
        <5>2. /\ Len(queue') = Len(queue) + 1 /\ Len(queue) \in Nat
              /\ queue'[Len(queue) + 1] = answer[c].taskhash
              /\ \A i \in 1..Len(queue) : queue'[i] = queue[i]
          BY <1>0, <5>1
        <5>3. CASE t = answer[c].taskhash
          BY <5>2, <5>3
        <5>4. CASE t \in promised
          <6>1. db.uni[t] # NoHash \/ t = worker \/ worker = "dead" \/ Q
            BY <5>4 DEF CopyInv
          <6>2. Q => \E i \in 1..Len(queue') : queue'[i] = t
            BY <5>2
          <6>3. QED
            BY <5>1, <6>1, <6>2
        <5>5. QED
          BY <2>5, <5>1, <5>3, <5>4
      <4>4. QED
        BY <4>2, <4>3
    <3>2. CASE BackfillTake
      <4>1. /\ worker = "idle" /\ worker' = Head(queue) /\ queue' = Tail(queue) /\ queue # <<>>
            /\ db' = db /\ promised' = promised
        BY <3>2 DEF BackfillTake, dbVars
      <4>2. db.uni[t] # NoHash \/ Q
        BY <2>5, <3>0, <4>1, HashAssumption DEF CopyInv
      <4>3. Q => t = worker' \/ \E i \in 1..Len(queue') : queue'[i] = t
        <5>1. /\ Len(queue') = Len(queue) - 1 /\ Len(queue) \in Nat /\ worker' = queue[1]
              /\ \A i \in 1..Len(queue') : queue'[i] = queue[i + 1]
          BY <1>0, <4>1
        <5> SUFFICES ASSUME NEW i \in 1..Len(queue), queue[i] = t, i # 1
                     PROVE  \E j \in 1..Len(queue') : queue'[j] = t
          BY <5>1
        <5>2. i - 1 \in 1..Len(queue') /\ queue'[i - 1] = queue[i]
          BY <5>1
        <5>3. QED
          BY <5>2
      <4>4. QED
        BY <4>1, <4>2, <4>3
    <3>3. CASE BackfillCopy
      <4>1. /\ worker \in Taskhashes /\ queue' = queue /\ t \in promised
            /\ up.uni[worker] # NoHash => db' = InsertUnihash(db, worker, up.uni[worker])
        BY <2>5, <3>3 DEF BackfillCopy, TaskDone, Commit
      <4>2. db.uni[t] # NoHash \/ t = worker \/ Q
        BY <4>1, HashAssumption DEF CopyInv
      <4>3. CASE t = worker
        BY <1>0, <3>0, <4>1, <4>3, InsertUnihashKeeps, HashAssumption DEF InsertUnihash, Database
      <4>4. CASE db.uni[t] # NoHash
        BY <2>1, <3>0, <4>4 DEF Extends
      <4>5. QED
        BY <4>1, <4>2, <4>3, <4>4
    <3>4. CASE BackfillLost
      BY <3>4 DEF BackfillLost
    <3>5. CASE Crash
      BY <2>5, <3>5 DEF Crash
    <3>6. CASE UNCHANGED backfillVars
      BY <2>1, <2>5, <3>0, <3>6 DEF CopyInv, Extends, backfillVars
    <3>7. QED
      BY <1>2, <3>1, <3>2, <3>3, <3>4, <3>5, <3>6
         DEF Next, Server, ClientRequest, UpstreamAnswers, ReportResume, GetResume, UnifiedResume,
             Report, EquivReport, Query, BackfillWait, UpstreamLost, UpstreamReport
  <2>6. ASSUME NEW t \in Taskhashes, up.uni[t] # NoHash PROVE up'.uni[t] # NoHash
    BY <2>1, <2>6 DEF Extends
  <2>7. failures' \in Nat
    BY <1>2 DEF CopyInv, Next, Server, ClientRequest, Begin, UpstreamAnswers, ReportResume,
                GetResume, UnifiedResume, StreamResume, Report, EquivReport, Query,
                BackfillWait, BackfillTake, BackfillCopy, UpstreamLost, BackfillLost, Crash,
                UpstreamReport
  <2>8. QED
    BY <2>3, <2>4, <2>5, <2>6, <2>7 DEF CopyInv
<1>3. QED
  BY <1>1, <1>2

\* "After waiting for the downstream client to finish backfilling the task from the
\* upstream server, it should appear in the side server": when a backfill-wait returns,
\* and the server was not killed, the database has all that was queued before.
THEOREM WaitingMeansCopied == Spec => WaitMeansCopied
<1> DEFINE A == \A c \in Clients :
                  pc[c] = "join" /\ pc'[c] = "idle" /\ failures' = failures =>
                    \A t \in promised : db'.uni[t] # NoHash
<1>1. Init => TableInv /\ QueueInv /\ CopyInv
  BY InitTables, InitQueue DEF Init, CopyInv
<1>2. TableInv /\ QueueInv /\ CopyInv /\ [Next]_vars => (TableInv /\ QueueInv /\ CopyInv)'
  BY NextTables, NextQueue, NextCopy
<1>3. TableInv /\ QueueInv /\ CopyInv /\ [Next]_vars => [A]_vars
  <2> SUFFICES ASSUME TableInv, QueueInv, CopyInv, Next, NEW c \in Clients, pc[c] = "join",
                      pc'[c] = "idle", failures' = failures, NEW t \in promised
               PROVE  db'.uni[t] # NoHash
    OBVIOUS
  <2>1. pc \in [Clients -> {"idle", "ask", "resume", "join"}] /\ failures \in Nat
    BY DEF TableInv, Types, CopyInv
  <2>2. ~Crash
    BY <2>1 DEF Crash
  <2>3. ASSUME NEW b \in Clients, Answered(b) \/ (\E r : Ask(b, r)), pc[b] # "join" PROVE FALSE
    BY <2>1, <2>3 DEF Answered, Ask
  <2>4. ~UNCHANGED pc
    OBVIOUS
  <2>5. BackfillCopy /\ unfinished' = 0
    BY <2>1, <2>2, <2>3, <2>4
       DEF Next, Server, ClientRequest, Begin, UpstreamAnswers, ReportResume, FinishReport,
           GetResume, UnifiedResume, StreamResume, Report, EquivReport, Query, BackfillWait,
           BackfillTake, BackfillCopy, TaskDone, UpstreamLost, BackfillLost, UpstreamReport,
           clientVars
  <2>6. Len(queue) = 0 /\ worker \in Taskhashes
    BY <2>5 DEF BackfillCopy, TaskDone, QueueInv
  <2>7. t \in Taskhashes /\ up.uni[t] # NoHash /\ (db.uni[t] # NoHash \/ t = worker)
    BY <2>6, HashAssumption DEF CopyInv
  <2>8. CASE t = worker
    BY <2>5, <2>7, <2>8, InsertUnihashKeeps, HashAssumption
       DEF BackfillCopy, Commit, TableInv, Types, InsertUnihash, Database
  <2>9. CASE db.uni[t] # NoHash
    BY <2>7, <2>9, UnihashesStay DEF Extends
  <2>10. QED
    BY <2>7, <2>8, <2>9
<1> HIDE DEF A
<1>4. QED
  BY <1>1, <1>2, <1>3, PTL DEF Spec, WaitMeansCopied, A

-----------------------------------------------------------------------------
(* The keys of the tables, and what is not committed                          *)

KeyInv ==
  upstream \in BOOLEAN /\ UniqueRows(db) /\ UniqueRows(up) /\ pending \subseteq db.outs

\* Inserting a unihash leaves the output hashes alone.
LEMMA CommitKeys ==
  ASSUME NEW d \in Database, UniqueRows(d), NEW t \in Taskhashes, NEW u \in Taskhashes,
         Commit(InsertUnihash(d, t, u))
  PROVE  UniqueRows(db') /\ pending' \subseteq db'.outs
<1>1. db'.outs = d.outs /\ pending' = {}
  BY InsertUnihashKeeps DEF Commit
<1>2. QED
  BY <1>1 DEF UniqueRows

\* A report inserts at most one row, and only under a key that has none.
LEMMA ReportKeys ==
  ASSUME TableInv, KeyInv, NEW c \in Clients, NEW t \in Taskhashes, NEW o \in Outhashes,
         NEW u \in Taskhashes, Report(c, t, o, u)
  PROVE  KeyInv'
<1> DEFINE d == InsertOuthash(db, t, o, clock')
           e == Equivalent(d, t, o)
<1>1. UNCHANGED <<upstream, up>> /\ clock' \in Nat /\ db \in Database
  BY DEF Report, Begin, TableInv, Types
<1>2. d \in Database /\ UniqueRows(d) /\ db.outs \subseteq d.outs
  BY <1>1, InsertOuthashKeeps DEF KeyInv
<1>3. CASE e = NoRow /\ upstream
  <2>1. db' = d /\ pending' = pending \cup (d.outs \ db.outs)
    BY <1>3 DEF Report
  <2>2. QED
    BY <1>1, <1>2, <2>1 DEF KeyInv
<1>4. CASE ~(e = NoRow /\ upstream)
  <2>1. (IF e = NoRow THEN u ELSE e.unihash) \in Taskhashes
    <3>1. e \in CompleteAnswer \cup {NoRow}
      BY <1>2, PickRow DEF Equivalent
    <3>2. QED
      BY <3>1 DEF CompleteAnswer
  <2>2. Commit(InsertUnihash(d, t, IF e = NoRow THEN u ELSE e.unihash))
    BY <1>4 DEF Report, FinishReport
  <2>3. UniqueRows(db') /\ pending' \subseteq db'.outs
    BY <1>2, <2>1, <2>2, CommitKeys
  <2>4. QED
    BY <1>1, <2>3 DEF KeyInv, UniqueRows
<1>5. QED
  BY <1>3, <1>4

\* Requests and lost connections to upstream preserve them.
LEMMA RequestKeys ==
  ASSUME TableInv, KeyInv, NEW c \in Clients, ClientRequest(c) \/ UpstreamLost(c)
  PROVE  KeyInv'
<1>1. db \in Database /\ up \in Database
  BY DEF TableInv, Types
<1>2. ASSUME NEW t \in Taskhashes, NEW o \in Outhashes, NEW u \in Reportable(t),
             Report(c, t, o, u)
      PROVE  KeyInv'
  <2>1. u \in Taskhashes
    BY <1>1 DEF Reportable, Database
  <2>2. QED
    BY <1>2, <2>1, ReportKeys
<1>3. ASSUME NEW t \in Taskhashes, NEW u \in Taskhashes, EquivReport(c, t, u)
      PROVE  KeyInv'
  <2>1. Commit(InsertUnihash(db, t, u)) /\ UNCHANGED <<upstream, up>>
    BY <1>3 DEF EquivReport, Begin
  <2>2. UniqueRows(db') /\ pending' \subseteq db'.outs
    BY <1>1, <2>1, CommitKeys DEF KeyInv
  <2>3. QED
    BY <2>1, <2>2 DEF KeyInv, UniqueRows
<1>4. ASSUME NEW r, Query(c, r) PROVE KeyInv'
  BY <1>4 DEF Query, Begin, dbVars, KeyInv, UniqueRows
<1>5. CASE BackfillWait(c) \/ UpstreamLost(c)
  BY <1>5 DEF BackfillWait, UpstreamLost, Begin, dbVars, KeyInv, UniqueRows
<1>6. QED
  BY <1>2, <1>3, <1>4, <1>5 DEF ClientRequest

\* So do answers of upstream, the backfill worker and a restart.
LEMMA ServerKeys ==
  ASSUME TableInv, KeyInv, Server \/ BackfillLost \/ Crash
  PROVE  KeyInv'
<1>1. db \in Database /\ up \in Database /\ UniqueRows(db)
  BY DEF TableInv, Types, KeyInv
<1>2. ASSUME NEW c \in Clients, ReportResume(c) PROVE KeyInv'
  <2>1. DEFINE t == req[c].taskhash
               u == IF answer[c] = NoRow THEN req[c].unihash ELSE answer[c].unihash
  <2>2. t \in Taskhashes /\ u \in Taskhashes
    BY <1>2 DEF ReportResume, TableInv, SessionInv, Types, Asked, Answer
  <2>3. Commit(InsertUnihash(db, t, u)) /\ UNCHANGED <<upstream, up>>
    BY <1>2 DEF ReportResume, FinishReport
  <2>4. UniqueRows(db') /\ pending' \subseteq db'.outs
    BY <1>1, <2>2, <2>3, CommitKeys
  <2>5. QED
    BY <2>3, <2>4 DEF KeyInv, UniqueRows
<1>3. ASSUME NEW c \in Clients, GetResume(c) PROVE KeyInv'
  <2>1. CASE answer[c] = NoRow
    BY <1>3, <2>1 DEF GetResume, KeyInv, UniqueRows
  <2>2. CASE answer[c] # NoRow
    <3>1. answer[c].taskhash \in Taskhashes /\ answer[c].unihash \in Taskhashes
      BY <2>2 DEF TableInv, Types, Answer
    <3>2. UniqueRows(db') /\ pending' \subseteq db'.outs
      BY <1>1, <1>3, <2>2, <3>1, CommitKeys DEF GetResume
    <3>3. QED
      BY <1>3, <3>2 DEF GetResume, KeyInv, UniqueRows
  <2>3. QED
    BY <2>1, <2>2
<1>4. ASSUME NEW c \in Clients, UnifiedResume(c) PROVE KeyInv'
  <2>1. answer[c] \in CompleteAnswer \cup {NoRow}
    BY <1>4 DEF UnifiedResume, TableInv, SessionInv
  <2>2. db' = update_unified(db, answer[c]) /\ pending' = {} /\ UNCHANGED <<upstream, up>>
    BY <1>4 DEF UnifiedResume, Commit
  <2>3. QED
    BY <1>1, <2>1, <2>2, UnifiedKeeps DEF KeyInv, UniqueRows
<1>5. ASSUME NEW c \in Clients, StreamResume(c) \/ UpstreamAnswers(c) PROVE KeyInv'
  BY <1>5 DEF StreamResume, UpstreamAnswers, dbVars, KeyInv, UniqueRows
<1>6. CASE BackfillTake \/ BackfillLost
  BY <1>6 DEF BackfillTake, BackfillLost, dbVars, KeyInv, UniqueRows
<1>7. CASE BackfillCopy
  <2>1. CASE up.uni[worker] = NoHash
    BY <1>7, <2>1 DEF BackfillCopy, KeyInv, UniqueRows
  <2>2. CASE up.uni[worker] # NoHash
    <3>1. worker \in Taskhashes /\ up.uni[worker] \in Taskhashes
      BY <1>1, <1>7, <2>2 DEF BackfillCopy, Database
    <3>2. UniqueRows(db') /\ pending' \subseteq db'.outs
      BY <1>1, <1>7, <2>2, <3>1, CommitKeys DEF BackfillCopy
    <3>3. QED
      BY <1>7, <3>2 DEF BackfillCopy, KeyInv, UniqueRows
  <2>3. QED
    BY <2>1, <2>2
<1>8. CASE Crash
  <2>1. db'.outs = db.outs \ pending /\ pending' = {} /\ UNCHANGED <<upstream, up>>
    BY <1>1, <1>8 DEF Crash, Database
  <2>2. QED
    BY <2>1 DEF KeyInv, UniqueRows
<1>9. QED
  BY <1>2, <1>3, <1>4, <1>5, <1>6, <1>7, <1>8 DEF Server

\* The upstream server's own table has the same key.
LEMMA UpstreamKeys ==
  ASSUME TableInv, KeyInv, NEW t \in Taskhashes, NEW o \in Outhashes, UpstreamReport(t, o, t)
  PROVE  KeyInv'
<1> DEFINE d == InsertOuthash(up, t, o, clock')
           e == Equivalent(d, t, o)
           u == IF e = NoRow THEN t ELSE e.unihash
<1>1. up \in Database /\ clock' \in Nat /\ UniqueRows(up)
  BY DEF TableInv, Types, UpstreamReport, KeyInv
<1>2. d \in Database /\ UniqueRows(d)
  BY <1>1, InsertOuthashKeeps
<1>3. u \in Taskhashes
  <2>1. e \in CompleteAnswer \cup {NoRow}
    BY <1>2, PickRow DEF Equivalent
  <2>2. QED
    BY <2>1 DEF CompleteAnswer
<1>4. up' = InsertUnihash(d, t, u) /\ UNCHANGED <<upstream, db, pending>>
  BY DEF UpstreamReport, Reported
<1>5. up'.outs = d.outs
  BY <1>2, <1>3, <1>4, InsertUnihashKeeps
<1>6. QED
  BY <1>2, <1>4, <1>5 DEF KeyInv, UniqueRows

\* The tables are well typed and keep their keys, every waiting request has its
\* fields, and the queue counts a natural number of tasks.
THEOREM TypesHold == Spec => []TypeOK
<1>1. Init => TableInv /\ QueueInv /\ KeyInv
  <2>1. Init => KeyInv
    BY DEF Init, KeyInv, EmptyDb, UniqueRows
  <2>2. QED
    BY <2>1, InitTables, InitQueue
<1>2. TableInv /\ QueueInv /\ KeyInv /\ [Next]_vars => (TableInv /\ QueueInv /\ KeyInv)'
  <2>1. TableInv /\ KeyInv /\ [Next]_vars => KeyInv'
    <3>1. KeyInv /\ UNCHANGED vars => KeyInv'
      BY DEF vars, dbVars, KeyInv, UniqueRows
    <3>2. QED
      BY <3>1, RequestKeys, ServerKeys, UpstreamKeys DEF Next
  <2>2. QED
    BY <2>1, NextTables, NextQueue
<1>3. TableInv /\ QueueInv /\ KeyInv => TypeOK
  BY DEF TableInv, Types, QueueInv, KeyInv, TypeOK
<1>4. QED
  BY <1>1, <1>2, <1>3, PTL DEF Spec

-----------------------------------------------------------------------------
(* A server without an upstream server.  Nothing waits, so every row has a    *)
(* unihash from the report that made it: a row that is already there never    *)
(* joins the table later, and the oldest row of an output hash is settled.    *)

\* f is the first row of its output hash.
Oldest(f) == \A r \in db.outs : r.outhash = f.outhash => f.created <= r.created

AloneInv ==
  /\ pending = {} /\ \A c \in Clients : pc[c] \notin {"ask", "resume"}
  /\ \A t \in Taskhashes : up.uni[t] = NoHash
  /\ \A r \in db.outs : db.uni[r.taskhash] # NoHash /\ r.created <= clock
  /\ \A r, s \in db.outs : r.created = s.created => r = s
  /\ assigned \in [Taskhashes -> Outhashes \cup {NoHash}]
  /\ \A t \in Taskhashes : assigned[t] # NoHash =>
       \E f \in db.outs :
         Oldest(f) /\ f.outhash = assigned[t] /\ db.uni[t] = db.uni[f.taskhash]

\* A query that finds rows answers the unihash of the oldest one.
LEMMA PickOldest ==
  ASSUME NEW d \in Database, NEW R, R \subseteq Joined(d), R # {}
  PROVE  \E f \in R : /\ \A r \in R : f.created <= r.created
                      /\ Pick(d, R) # NoRow /\ Pick(d, R).unihash = d.uni[f.taskhash]
<1>1. R \subseteq Row
  BY DEF Joined, Database
<1>2. {r.created : r \in R} \subseteq Nat /\ {r.created : r \in R} # {}
  BY <1>1 DEF Row
<1>3. PICK x \in {r.created : r \in R} : \A y \in {r.created : r \in R} : x <= y
  BY <1>2, LeastTime
<1>4. \E r \in R : \A s \in R : r.created <= s.created
  BY <1>3
<1> DEFINE f == CHOOSE r \in R : \A s \in R : r.created <= s.created
<1>5. f \in R /\ \A s \in R : f.created <= s.created
  BY <1>4
<1>6. Pick(d, R) = [taskhash |-> f.taskhash, outhash |-> f.outhash,
                    created |-> f.created, unihash |-> d.uni[f.taskhash]]
  BY DEF Pick
<1> HIDE DEF f
<1>7. f.taskhash # NoHash
  BY <1>1, <1>5, HashAssumption DEF Row
<1>8. QED
  BY <1>5, <1>6, <1>7 DEF NoRow

\* Without a change of the rows, a unihash more or less for tasks that had none
\* is of no consequence.
LEMMA AloneKept ==
  ASSUME TableInv, AloneInv, db' \in Database, db'.outs = db.outs, clock' = clock,
         up' = up, pending' = {}, assigned' = assigned,
         \A c \in Clients : pc'[c] \notin {"ask", "resume"},
         \A x \in Taskhashes : db.uni[x] # NoHash => db'.uni[x] = db.uni[x]
  PROVE  AloneInv'
<1>1. db \in Database /\ db.outs \subseteq Row
  BY DEF TableInv, Types, Database
<1>2. \A r \in db.outs : r.taskhash \in Taskhashes
  BY <1>1 DEF Row
<1>3. \A r \in db.outs : db'.uni[r.taskhash] = db.uni[r.taskhash]
  BY <1>2 DEF AloneInv
<1>4. ASSUME NEW t \in Taskhashes, assigned[t] # NoHash
      PROVE  \E f \in db'.outs :
               Oldest(f)' /\ f.outhash = assigned'[t] /\ db'.uni[t] = db'.uni[f.taskhash]
  <2>1. PICK f \in db.outs :
          Oldest(f) /\ f.outhash = assigned[t] /\ db.uni[t] = db.uni[f.taskhash]
    BY <1>4 DEF AloneInv
  <2>2. db'.uni[t] = db.uni[t] /\ db'.uni[f.taskhash] = db.uni[f.taskhash]
    BY <1>3, <2>1 DEF AloneInv
  <2>3. Oldest(f)'
    BY <2>1 DEF Oldest
  <2>4. QED
    BY <2>1, <2>2, <2>3
<1>5. QED
  BY <1>3, <1>4 DEF AloneInv

\* handle_report(): a new row is younger than all others, and the task it gives
\* a unihash takes that of the oldest row with its output hash, or is that row.
LEMMA AloneReport ==
  ASSUME TableInv, AloneInv, ~upstream, NEW c \in Clients, NEW t \in Taskhashes,
         NEW o \in Outhashes, NEW u \in Taskhashes, Report(c, t, o, u)
  PROVE  AloneInv'
<1> DEFINE d == InsertOuthash(db, t, o, clock')
           e == Equivalent(d, t, o)
           h == IF e = NoRow THEN u ELSE e.unihash
<1>0. PICK n : n = [taskhash |-> t, outhash |-> o, created |-> clock']
  OBVIOUS
<1>1. /\ db \in Database /\ db.outs \subseteq Row /\ clock \in Nat /\ clock' = clock + 1
      /\ up' = up
  BY DEF Report, TableInv, Types, Database
<1>2. \A r \in db.outs : r.taskhash \in Taskhashes /\ r.created \in Nat /\ r.created <= clock
  BY <1>1 DEF Row, AloneInv
<1>3. d \in Database /\ d.uni = db.uni
  BY <1>1, InsertOuthashKeeps
<1>4. /\ Commit(InsertUnihash(d, t, h)) /\ Answered(c)
      /\ assigned' = [assigned EXCEPT ![t] = IF d.uni[t] = NoHash THEN o ELSE @]
  BY DEF Report, FinishReport
<1>5. h \in Taskhashes
  <2>1. e \in CompleteAnswer \cup {NoRow}
    BY <1>3, PickRow DEF Equivalent
  <2>2. QED
    BY <2>1 DEF CompleteAnswer
<1>6. /\ db' \in Database /\ db'.outs = d.outs /\ db'.uni[t] \in Taskhashes /\ pending' = {}
      /\ \A x \in Taskhashes : db.uni[x] # NoHash => db'.uni[x] = db.uni[x]
  BY <1>3, <1>4, <1>5, InsertUnihashKeeps DEF Commit
<1>7. \A k \in Clients : pc'[k] \notin {"ask", "resume"}
  BY <1>4 DEF Answered, AloneInv, TableInv, Types
<1>8. d.outs = db.outs \/ d.outs = db.outs \cup {n}
  BY <1>0, <1>1 DEF InsertOuthash, Database
<1>9. d.outs = db.outs => \E r \in db.outs : r.taskhash = t /\ r.outhash = o
  <2>1. n \notin db.outs
    BY <1>0, <1>1, <1>2
  <2>2. CASE ~ \E r \in db.outs : r.taskhash = t /\ r.outhash = o
    <3>1. n \in d.outs
      BY <1>0, <1>1, <2>2 DEF InsertOuthash, Database
    <3>2. QED
      BY <2>1, <3>1
  <2>3. QED
    BY <2>2
<1>10. db.uni[t] = NoHash => db'.uni[t] = h
  BY <1>3, <1>4, <1>5 DEF Commit, InsertUnihash, Database
<1>11. t \in DOMAIN assigned /\ \A s \in Taskhashes \ {t} : assigned'[s] = assigned[s]
  BY <1>4 DEF AloneInv
<1> HIDE DEF d, e, h
<1>12. n.taskhash = t /\ n.outhash = o /\ n.created = clock + 1
  BY <1>0, <1>1
<1>13. \A r \in db'.outs : db'.uni[r.taskhash] # NoHash /\ r.created <= clock'
  <2>1. \A r \in db.outs : db'.uni[r.taskhash] # NoHash /\ r.created <= clock'
    BY <1>1, <1>2, <1>6 DEF AloneInv
  <2>2. QED
    BY <1>1, <1>6, <1>8, <1>12, <2>1, HashAssumption
<1>14. \A r, s \in db'.outs : r.created = s.created => r = s
  BY <1>1, <1>2, <1>6, <1>8, <1>12 DEF AloneInv
<1>15. ASSUME NEW f \in db.outs, Oldest(f) PROVE f \in db'.outs /\ Oldest(f)'
  BY <1>1, <1>2, <1>6, <1>8, <1>12, <1>15 DEF Oldest
<1>16. \A f \in db.outs : db'.uni[f.taskhash] = db.uni[f.taskhash]
  BY <1>2, <1>6 DEF AloneInv
<1>17. ASSUME NEW s \in Taskhashes, assigned[s] # NoHash, assigned'[s] = assigned[s]
       PROVE  \E f \in db'.outs :
                Oldest(f)' /\ f.outhash = assigned'[s] /\ db'.uni[s] = db'.uni[f.taskhash]
  <2>1. PICK f \in db.outs :
          Oldest(f) /\ f.outhash = assigned[s] /\ db.uni[s] = db.uni[f.taskhash]
    BY <1>17 DEF AloneInv
  <2>2. db.uni[s] # NoHash
    BY <2>1 DEF AloneInv
  <2>3. QED
    BY <1>6, <1>15, <1>16, <1>17, <2>1, <2>2
<1>18. CASE db.uni[t] # NoHash
  <2>1. assigned' = assigned
    BY <1>3, <1>4, <1>18 DEF AloneInv
  <2>2. QED
    BY <1>1, <1>6, <1>7, <1>13, <1>14, <1>17, <2>1 DEF AloneInv
<1>19. CASE db.uni[t] = NoHash
  <2>1. assigned'[t] = o
    BY <1>3, <1>4, <1>11, <1>19
  <2>2. \A r \in db.outs : r.taskhash # t
    BY <1>19 DEF AloneInv
  <2>3. d.outs = db.outs \cup {n}
    BY <1>8, <1>9, <2>2
  <2> DEFINE R == {r \in Joined(d) : r.outhash = o /\ r.taskhash # t}
  <2>4. R = {r \in db.outs : r.outhash = o}
    <3>1. Joined(d) = db.outs
      BY <1>3, <1>12, <1>19, <2>3 DEF Joined, AloneInv
    <3>2. QED
      BY <2>2, <3>1
  <2>5. e = Pick(d, R) /\ h = (IF e = NoRow THEN u ELSE e.unihash)
    BY DEF e, h, Equivalent
  <2>6. R \subseteq Joined(d)
    OBVIOUS
  <2> HIDE DEF R
  <2>7. \E f \in db'.outs : Oldest(f)' /\ f.outhash = o /\ db'.uni[t] = db'.uni[f.taskhash]
    <3>1. CASE R = {}
      <4>1. n \in db'.outs /\ Oldest(n)'
        BY <1>1, <1>6, <1>12, <2>3, <2>4, <3>1 DEF Oldest
      <4>2. QED
        BY <1>12, <4>1
    <3>2. CASE R # {}
      <4>1. PICK f \in R : /\ \A r \in R : f.created <= r.created
                           /\ Pick(d, R) # NoRow /\ Pick(d, R).unihash = d.uni[f.taskhash]
        BY <1>3, <2>6, <3>2, PickOldest
      <4>2. f \in db.outs /\ f.outhash = o /\ Oldest(f)
        BY <2>4, <4>1 DEF Oldest
      <4>3. h = db.uni[f.taskhash]
        BY <1>3, <2>5, <4>1
      <4>4. QED
        BY <1>10, <1>15, <1>16, <1>19, <4>2, <4>3
    <3>3. QED
      BY <3>1, <3>2
  <2>8. \A s \in Taskhashes : assigned'[s] # NoHash =>
          \E f \in db'.outs :
            Oldest(f)' /\ f.outhash = assigned'[s] /\ db'.uni[s] = db'.uni[f.taskhash]
    BY <1>11, <1>17, <2>1, <2>7
  <2>9. assigned' \in [Taskhashes -> Outhashes \cup {NoHash}]
    BY <1>4 DEF AloneInv
  <2>10. QED
    BY <1>1, <1>6, <1>7, <1>13, <1>14, <2>8, <2>9 DEF AloneInv
<1>20. QED
  BY <1>18, <1>19

\* No other request adds or removes a row, and nobody asks upstream.
LEMMA AloneOther ==
  ASSUME TableInv, AloneInv, ~upstream, NEW c \in Clients,
         \/ \E t, u \in Taskhashes : EquivReport(c, t, u)
         \/ \E r : Query(c, r)
         \/ BackfillWait(c) \/ UpstreamLost(c) \/ UpstreamAnswers(c)
         \/ ReportResume(c) \/ GetResume(c) \/ UnifiedResume(c) \/ StreamResume(c)
  PROVE  AloneInv'
<1>1. /\ db \in Database /\ pending = {} /\ pc \in [Clients -> {"idle", "ask", "resume", "join"}]
      /\ \A k \in Clients : pc[k] \notin {"ask", "resume"}
  BY DEF TableInv, Types, AloneInv
<1>2. ASSUME NEW t \in Taskhashes, NEW u \in Taskhashes, EquivReport(c, t, u)
      PROVE  AloneInv'
  <2>1. /\ db' = InsertUnihash(db, t, u) /\ pending' = {} /\ UNCHANGED <<up, clock, assigned>>
        /\ Answered(c)
    BY <1>2 DEF EquivReport, Commit
  <2>2. \A k \in Clients : pc'[k] \notin {"ask", "resume"}
    BY <1>1, <2>1 DEF Answered
  <2>3. QED
    BY <1>1, <2>1, <2>2, InsertUnihashKeeps, AloneKept
<1>3. ASSUME NEW r, Query(c, r) PROVE AloneInv'
  <2>1. UNCHANGED dbVars /\ \A k \in Clients : pc'[k] \notin {"ask", "resume"}
    BY <1>1, <1>3 DEF Query, Answered
  <2>2. QED
    BY <1>1, <2>1, AloneKept DEF dbVars
<1>4. CASE BackfillWait(c)
  <2>1. UNCHANGED dbVars /\ \A k \in Clients : pc'[k] \notin {"ask", "resume"}
    BY <1>1, <1>4 DEF BackfillWait, Answered
  <2>2. QED
    BY <1>1, <2>1, AloneKept DEF dbVars
<1>5. CASE \/ UpstreamLost(c) \/ UpstreamAnswers(c) \/ ReportResume(c) \/ GetResume(c)
           \/ UnifiedResume(c) \/ StreamResume(c)
  BY <1>1, <1>5 DEF UpstreamLost, UpstreamAnswers, ReportResume, GetResume, UnifiedResume,
                    StreamResume
<1>6. QED
  BY <1>2, <1>3, <1>4, <1>5

\* The backfill worker finds nothing upstream, and a crash has nothing to roll
\* back.
LEMMA AloneWorker ==
  ASSUME TableInv, AloneInv, BackfillTake \/ BackfillCopy \/ BackfillLost \/ Crash
  PROVE  AloneInv'
<1>1. /\ db \in Database /\ pending = {} /\ pc \in [Clients -> {"idle", "ask", "resume", "join"}]
      /\ \A k \in Clients : pc[k] \notin {"ask", "resume"}
  BY DEF TableInv, Types, AloneInv
<1>2. CASE BackfillTake \/ BackfillLost
  BY <1>1, <1>2, AloneKept DEF BackfillTake, BackfillLost, dbVars, clientVars
<1>3. CASE BackfillCopy
  <2>1. up.uni[worker] = NoHash
    BY <1>3 DEF BackfillCopy, AloneInv
  <2>2. UNCHANGED <<db, pending, up, clock, assigned>>
    BY <1>3, <2>1 DEF BackfillCopy
  <2>3. \A k \in Clients : pc'[k] \notin {"ask", "resume"}
    BY <1>1, <1>3 DEF BackfillCopy, TaskDone
  <2>4. QED
    BY <1>1, <2>2, <2>3, AloneKept
<1>4. CASE Crash
  <2>1. /\ db' = [db EXCEPT !.outs = db.outs \ pending] /\ pending' = {}
        /\ pc' = [k \in Clients |-> "idle"] /\ UNCHANGED <<up, clock, assigned>>
    BY <1>4 DEF Crash
  <2>2. db' = db
    BY <1>1, <2>1 DEF Database
  <2>3. QED
    BY <1>1, <2>1, <2>2, AloneKept
<1>5. QED
  BY <1>2, <1>3, <1>4

\* Tasks that were given their unihash by reports of the same output hash have
\* the same one, on a server without an upstream server: they all took that of
\* the oldest row, whoever reported when.
THEOREM SameOuthashSameUnihash == Spec => []EquivalentAlone
<1> DEFINE Alone == ~upstream => AloneInv
<1>1. Init => Alone
  BY DEF Init, AloneInv, EmptyDb
<1>2. TableInv /\ Alone /\ [Next]_vars => Alone'
  <2> SUFFICES ASSUME TableInv, Alone, [Next]_vars, ~upstream' PROVE AloneInv'
    OBVIOUS
  <2>1. CASE UNCHANGED vars
    BY <2>1, AloneKept DEF vars, dbVars, clientVars, AloneInv, TableInv, Types
  <2>2. CASE Next
    <3>1. upstream' = upstream
      BY <2>2 DEF Next, Server, ClientRequest, Report, EquivReport, Query, BackfillWait, Begin,
                  UpstreamAnswers, ReportResume, GetResume, UnifiedResume, StreamResume,
                  BackfillTake, BackfillCopy, UpstreamLost, BackfillLost, Crash, UpstreamReport
    <3>2. AloneInv
      BY <3>1
    <3>3. ASSUME NEW c \in Clients, NEW t \in Taskhashes, NEW o \in Outhashes,
                 NEW u \in Reportable(t), Report(c, t, o, u)
          PROVE  AloneInv'
      <4>1. u \in Taskhashes
        BY DEF Reportable, TableInv, Types, Database
      <4>2. QED
        BY <3>1, <3>2, <3>3, <4>1, AloneReport
    <3>4. CASE BackfillTake \/ BackfillCopy \/ BackfillLost \/ Crash
      BY <3>1, <3>2, <3>4, AloneWorker
    <3>5. CASE \E t \in Taskhashes, o \in Outhashes : UpstreamReport(t, o, t)
      BY <3>1, <3>5 DEF UpstreamReport
    <3>6. QED
      BY <2>2, <3>1, <3>2, <3>3, <3>4, <3>5, AloneOther DEF Next, Server, ClientRequest
  <2>3. QED
    BY <2>1, <2>2
<1>3. TableInv /\ Alone => EquivalentAlone
  <2> SUFFICES ASSUME TableInv, AloneInv, NEW t \in Taskhashes, NEW s \in Taskhashes,
                      assigned[t] # NoHash, assigned[t] = assigned[s]
               PROVE  db.uni[t] = db.uni[s]
    BY DEF EquivalentAlone, EquivalentReports
  <2>1. PICK f \in db.outs :
          Oldest(f) /\ f.outhash = assigned[t] /\ db.uni[t] = db.uni[f.taskhash]
    BY DEF AloneInv
  <2>2. PICK g \in db.outs :
          Oldest(g) /\ g.outhash = assigned[s] /\ db.uni[s] = db.uni[g.taskhash]
    BY DEF AloneInv
  <2>3. f.created \in Nat /\ g.created \in Nat
    BY DEF TableInv, Types, Database, Row
  <2>4. f.created = g.created
    BY <2>1, <2>2, <2>3 DEF Oldest
  <2>5. QED
    BY <2>1, <2>2, <2>4 DEF AloneInv
<1>4. QED
  BY <1>1, <1>2, <1>3, InitTables, NextTables, PTL DEF Spec
=============================================================================
