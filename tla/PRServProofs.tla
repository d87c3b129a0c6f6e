---------------------------- MODULE PRServProofs ----------------------------
(* For any servers over one file, clients, imports, retries and crashes: the   *)
(* numbers that were answered stay in the file, differ for different packages  *)
(* and are never decremented.                                                  *)
(*                                                                             *)
(* NumbersDiffer speaks of answers only, and the number that the next INSERT   *)
(* makes must differ from everything that may be answered yet: the rows of the *)
(* file, those of an open transaction, and what servers have read and not sent *)
(* (Known).  It does because whoever writes is alone with the file and sees a  *)
(* row at least as high as every one of them (KeptInv).                        *)
EXTENDS PRServ, TLAPS

\* Server s will answer a number that counts.
Answering(s) == pc[s] = "answer" /\ ~readonly[s] /\ res[s] # NoValue

\* The number of checksum c of key k is v somewhere.
Known(k, c, v) ==
  \/ <<k, c, v>> \in given
  \/ file[<<k, c>>] = v
  \/ owner # None /\ pending[<<k, c>>] = v
  \/ \E s \in Servers : Answering(s) /\ work[s].key = k /\ work[s].checksum = c /\ res[s] = v

\* Where handlers can be, and whom they serve: the client that waits for that request,
\* until it is answered.
HandlerInv ==
  \A s \in Servers :
    /\ pc[s] \in {"select", "peek", "store"} => res[s] = NoValue
    /\ pc[s] = "store" => ~readonly[s]
    /\ pc[s] = "peek" => readonly[s]
    /\ serving[s] # None =>
         /\ Home[serving[s]] = s
         /\ pc[s] \in {"select", "peek", "store", "answer"} =>
              cstate[serving[s]] = "waiting" /\ ask[serving[s]] = work[s]

\* A client that waits has asked, and its floor is an answer.
ClientInv ==
  \A c \in Clients : cstate[c] # "idle" =>
    /\ ask[c] \in Request
    /\ floor[c] # NoValue => \E d \in Checksums : <<ask[c].key, d, floor[c]>> \in given

\* A transaction only raises numbers, and has something to commit between the
\* statement that wrote and the commit.
TransactionInv ==
  owner # None =>
    /\ \A x \in Keys \X Checksums : pending[x] >= file[x]
    /\ pending # file => pc[owner] \in {"answer", "commit"} /\ dirty[owner]

\* What a server is about to answer is in the file or in its transaction.
Kept(s) == \/ file[Row(work[s])] >= res[s]
           \/ owner = s /\ pending[Row(work[s])] >= res[s]

KeptInv == \A s \in Servers : Answering(s) => Kept(s)

\* A key that was not imported has no number twice; with history a checksum has one.
KnownInv ==
  ~lost =>
    \A k \in Keys, c, d \in Checksums, v, w \in Nat :
      Known(k, c, v) /\ Known(k, d, w) =>
        /\ k \notin imported /\ v = w => c = d
        /\ ~nohist /\ c = d => v = w

IInv ==
  /\ TypeOK /\ HandlerInv /\ ClientInv /\ TransactionInv /\ KeptInv
  /\ AnswersKept /\ KnownInv /\ NeverDecremented

\* What the fields of a request are.
LEMMA RequestFacts ==
  ASSUME NEW r \in Request
  PROVE  /\ r # None /\ r.key \in Keys /\ r.checksum \in Checksums /\ r.kind \in {"get", "import"}
         /\ Row(r) \in Keys \X Checksums
         /\ r.kind = "import" => r.value \in Nat
BY RequestAssumption, PRAssumption DEF Request, Row

\* The numbers of the file and of the transaction.
LEMMA TableFacts ==
  ASSUME TypeOK
  PROVE  /\ \A x \in Keys \X Checksums :
              file[x] \in Nat \cup {NoValue} /\ pending[x] \in Nat \cup {NoValue}
         /\ \A s \in Servers : View(s) \in Table
BY DEF TypeOK, Table, View

\* What a handler that is not idle works at.
LEMMA WorkFacts ==
  ASSUME TypeOK, NEW s \in Servers, pc[s] # "idle"
  PROVE  /\ s \in up /\ work[s] \in Request /\ work[s].key \in Keys /\ work[s].checksum \in Checksums
         /\ work[s].kind \in {"get", "import"}
         /\ Row(work[s]) \in Keys \X Checksums /\ Row(work[s]) = <<work[s].key, work[s].checksum>>
         /\ View(s)[Row(work[s])] \in Nat \cup {NoValue}
<1>1. s \in up /\ work[s] \in Request
  BY DEF TypeOK
<1>2. QED
  BY <1>1, RequestFacts, TableFacts DEF Row, Table

\* A new number is above all of its key.
LEMMA NextValueFacts ==
  ASSUME NEW t \in Table, NEW k \in Keys, NEW w \in NextValue(t, k)
  PROVE  w \in Nat /\ \A c \in Checksums : t[<<k, c>>] < w
<1>1. \A c \in Checksums : t[<<k, c>>] \in Nat \cup {NoValue}
  BY DEF Table
<1>2. PICK v \in {x \in {t[<<k, c>>] : c \in Checksums} : IsMaximum(t, k, x)} : w = v + 1
  BY DEF NextValue
<1>3. PICK c \in Checksums : v = t[<<k, c>>]
  BY <1>2
<1>4. v \in Nat \cup {NoValue} /\ \A d \in Checksums : t[<<k, d>>] <= v
  BY <1>1, <1>2, <1>3 DEF IsMaximum
<1>5. QED
  BY <1>1, <1>2, <1>4 DEF NoValue

\* INSERT and UPDATE write a number at least as high as the one that was there; with
\* history it is that one.
LEMMA StoredFacts ==
  ASSUME NEW r \in Request, NEW t \in Table, NEW v \in Stored(t, r)
  PROVE  /\ v \in Nat /\ v >= t[Row(r)]
         /\ ~nohist /\ t[Row(r)] # NoValue => v = t[Row(r)]
         /\ (nohist \/ t[Row(r)] = NoValue) /\ r.kind = "get" =>
              \A c \in Checksums : t[<<r.key, c>>] < v
<1>1. /\ r.key \in Keys /\ r.checksum \in Checksums /\ Row(r) = <<r.key, r.checksum>>
      /\ r.kind \in {"get", "import"} /\ (r.kind = "import" => r.value \in Nat)
  BY RequestFacts DEF Row
<1>2. \A k \in Keys, c \in Checksums : t[<<k, c>>] \in Nat \cup {NoValue}
  BY DEF Table
<1>3. \A w \in NextValue(t, r.key) : w \in Nat /\ \A c \in Checksums : t[<<r.key, c>>] < w
  BY <1>1, NextValueFacts
<1>4. CASE ~nohist /\ t[Row(r)] # NoValue
  BY <1>1, <1>2, <1>4 DEF Stored, NoValue
<1>5. CASE nohist \/ t[Row(r)] = NoValue
  <2>1. CASE r.kind = "get"
    BY <1>1, <1>2, <1>3, <1>5, <2>1 DEF Stored, NoValue
  <2>2. CASE r.kind = "import"
    BY <1>1, <1>2, <1>5, <2>2 DEF Stored, NoValue
  <2>3. QED
    BY <1>1, <2>1, <2>2
<1>6. QED
  BY <1>4, <1>5

\* What a step of INSERT or UPDATE does.
LEMMA StoreFacts ==
  ASSUME TypeOK, HandlerInv, TransactionInv, NEW s \in Servers, Store(s)
  PROVE  /\ pc[s] = "store" /\ s \in up /\ ~readonly[s] /\ owner \in {s, None} /\ View(s) = file
         /\ owner' = s /\ file' = file /\ pending' = [file EXCEPT ![Row(work[s])] = res'[s]]
         /\ res'[s] \in Nat /\ res' = [res EXCEPT ![s] = res'[s]]
         /\ res'[s] \in Stored(file, work[s])
         /\ pc' = [pc EXCEPT ![s] = "answer"]
         /\ imported' = IF work[s].kind = "import" THEN imported \cup {work[s].key} ELSE imported
<1>1. PICK v \in Stored(View(s), work[s]) : /\ pending' = [View(s) EXCEPT ![Row(work[s])] = v]
                                            /\ res' = [res EXCEPT ![s] = v]
  BY DEF Store
<1>2. pc[s] = "store" /\ s \in up /\ owner \in {s, None} /\ ~readonly[s]
  BY DEF Store, Handling, Readable, HandlerInv
<1>3. View(s) = file
  BY <1>2, PRAssumption DEF View, TransactionInv
<1>4. v \in Nat
  BY <1>2, WorkFacts, TableFacts, StoredFacts
<1>5. res'[s] = v
  BY <1>1 DEF TypeOK
<1>6. QED
  BY <1>1, <1>2, <1>3, <1>4, <1>5 DEF Store, Goto

\* One step of a server or a client.
AnyStep(s, c, r) ==
  \/ Start(s) \/ Stop(s) \/ Crash(s) \/ Step(s)
  \/ c \in Clients /\ Take(s, c)
  \/ r \in Request /\ TakeLate(s, r)
  \/ c \in Clients /\ (Ask(c) \/ Timeout(c) \/ Retry(c))

\* Every step leads to states of the same type.
LEMMA StepTypes ==
  ASSUME TypeOK, HandlerInv, ClientInv, TransactionInv,
         NEW s \in Servers, NEW c, NEW r, AnyStep(s, c, r)
  PROVE  TypeOK'
<1> USE PRAssumption DEF TypeOK, modeVars, tableVars, serverVars, clientVars, history
<1>1. CASE Start(s)
  BY <1>1 DEF Start
<1>2. CASE Stop(s)
  BY <1>2, TableFacts DEF Stop, Handling, Gone, Goto, Idle, Broken
<1>3. CASE Crash(s)
  BY <1>3 DEF Crash, Gone, Goto, Idle, Broken
<1>4. CASE Select(s)
  <2>1. pc[s] = "select" /\ (res' = res \/ res' = [res EXCEPT ![s] = View(s)[Row(work[s])]])
        /\ \E x \in {"answer", "peek", "store"} : pc' = [pc EXCEPT ![s] = x]
        /\ UNCHANGED <<modeVars, tableVars, up, dirty, work, serving, clientVars, late, history>>
        /\ asks' = asks /\ downs' = downs
    BY <1>4 DEF Select, Handling, Goto
  <2>2. res' \in [Servers -> Nat \cup {NoValue}]
    BY <2>1, WorkFacts
  <2>3. /\ \A q \in Servers : pc'[q] = "idle" =>
             work'[q] = None /\ serving'[q] = None /\ res'[q] = NoValue
        /\ \A q \in Servers : pc'[q] # "idle" => q \in up' /\ work'[q] # None
    BY <2>1
  <2>4. pc' \in [Servers -> {"idle", "select", "peek", "store", "answer", "commit", "begin",
                             "commit-raise", "begin-raise"}]
    BY <2>1
  <2>5. QED
    BY <2>1, <2>2, <2>3, <2>4
<1>5. CASE Peek(s)
  <2>1. pc[s] = "peek" /\ s \in up
    BY <1>5 DEF Peek, Handling
  <2>2. PICK v \in NextValue(View(s), work[s].key) : res' = [res EXCEPT ![s] = v]
    BY <1>5 DEF Peek
  <2>3. v \in Nat
    BY <2>1, <2>2, WorkFacts, TableFacts, NextValueFacts
  <2>4. QED
    BY <1>5, <2>1, <2>2, <2>3 DEF Peek, Goto
<1>6. CASE Store(s)
  <2>1. pc[s] = "store"
    BY <1>6, StoreFacts
  <2>2. res'[s] \in Nat /\ res' = [res EXCEPT ![s] = res'[s]]
    BY <1>6, StoreFacts
  <2>3. pending' = [file EXCEPT ![Row(work[s])] = res'[s]]
    BY <1>6, StoreFacts
  <2>4. imported' \subseteq Keys
    <3>1. work[s].key \in Keys
      BY <2>1, WorkFacts
    <3>2. imported' = imported \/ imported' = imported \cup {work[s].key}
      BY <1>6, StoreFacts
    <3>3. QED
      BY <3>1, <3>2
  <2>5. pending' \in Table
    BY <2>1, <2>2, <2>3, WorkFacts DEF Table
  <2>6. QED
    BY <1>6, <2>1, <2>2, <2>4, <2>5 DEF Store, Goto, Handling
<1>7. CASE Locked(s)
  BY <1>7 DEF Locked, Handling, Goto
<1>8. CASE Answer(s)
  <2>1. given' \subseteq Keys \X Checksums \X Nat
    BY <1>8, WorkFacts DEF Answer, Handling, NoValue
  <2>2. /\ cstate' \in [Clients -> {"idle", "waiting", "broken"}]
        /\ ask' \in [Clients -> Request \cup {None}] /\ count' \in [Clients -> Nat]
        /\ floor' \in [Clients -> Nat \cup {NoValue}]
    <3>1. CASE serving[s] = None
      BY <1>8, <3>1 DEF Answer
    <3>2. CASE serving[s] # None
      <4>1. PICK d \in Clients : d = serving[s]
        BY <3>2
      <4>2. Ended(d)
        BY <1>8, <3>2, <4>1 DEF Answer
      <4>3. QED
        BY <4>2 DEF Ended
    <3>3. QED
      BY <3>1, <3>2
  <2>3. \/ pc' = [pc EXCEPT ![s] = "idle"] /\ Idle(s)
        \/ pc' = [pc EXCEPT ![s] = "commit"] /\ UNCHANGED <<serving, work, res>>
    BY <1>8 DEF Answer, Goto, AfterAnswer
  <2>4. s \in up /\ work[s] # None
    BY <1>8 DEF Answer, Handling
  <2>5. UNCHANGED <<modeVars, tableVars, up, dirty, late, imported, lost, asks, downs>>
    BY <1>8 DEF Answer
  <2>6. QED
    BY <2>1, <2>2, <2>3, <2>4, <2>5 DEF Idle
<1>9. CASE Commit(s)
  BY <1>9, TableFacts DEF Commit, Handling, Goto
<1>10. CASE Lock(s)
  <2>1. cstate' \in [Clients -> {"idle", "waiting", "broken"}] /\ UNCHANGED <<ask, count>>
    BY <1>10 DEF Lock, Disconnect
  <2>2. dirty' \in [Servers -> BOOLEAN]
    BY <1>10 DEF Lock
  <2>3. QED
    BY <1>10, <2>1, <2>2 DEF Lock, Handling, Goto, Idle
<1>11. CASE LockFails(s)
  BY <1>11 DEF LockFails, Handling, Goto, Idle, Disconnect, Waiting
<1>12. CASE c \in Clients /\ Take(s, c)
  BY <1>12, RequestAssumption DEF ClientInv, Take, Begin, FirstStep
<1>13. CASE r \in Request /\ TakeLate(s, r)
  BY <1>13, RequestAssumption DEF TakeLate, Begin, FirstStep
<1>14. CASE c \in Clients /\ Ask(c)
  <2>1. floor' \in [Clients -> Nat \cup {NoValue}]
    BY <1>14 DEF Ask, Highest
  <2>2. QED
    BY <1>14, <2>1 DEF Ask
<1>15. CASE c \in Clients /\ Timeout(c)
  BY <1>15 DEF Timeout, ClientInv
<1>16. CASE c \in Clients /\ Retry(c)
  <2>1. count' \in [Clients -> Nat]
    BY <1>16 DEF Retry, Ended
  <2>2. QED
    <3>1. CASE Ended(c)
      BY <1>16, <2>1, <3>1 DEF Retry, Ended
    <3>2. CASE ~Ended(c)
      BY <1>16, <2>1, <3>2 DEF Retry
    <3>3. QED
      BY <3>1, <3>2
<1>17. QED
  BY <1>1, <1>2, <1>3, <1>4, <1>5, <1>6, <1>7, <1>8, <1>9, <1>10, <1>11, <1>12, <1>13, <1>14,
     <1>15, <1>16 DEF AnyStep, Step

\* A handler stays where its request belongs, and serves the client that waits for it.
LEMMA StepHandlers ==
  ASSUME TypeOK, HandlerInv, ClientInv,
         NEW s \in Servers, NEW c, NEW r, AnyStep(s, c, r)
  PROVE  HandlerInv'
<1> USE PRAssumption DEF TypeOK, HandlerInv, modeVars, tableVars, serverVars, clientVars, history
<1>1. CASE Start(s)
  BY <1>1 DEF Start
<1>2. CASE Stop(s)
  BY <1>2 DEF Stop, Handling, Gone, Goto, Idle, Broken
<1>3. CASE Crash(s)
  BY <1>3 DEF Crash, Gone, Goto, Idle, Broken
<1>4. CASE Select(s)
  BY <1>4 DEF Select, Handling, Goto
<1>5. CASE Peek(s)
  BY <1>5 DEF Peek, Handling, Goto
<1>6. CASE Store(s)
  BY <1>6 DEF Store, Handling, Goto
<1>7. CASE Locked(s)
  BY <1>7 DEF Locked, Handling, Goto
<1>8. CASE Answer(s)
  BY <1>8 DEF Answer, Handling, Goto, AfterAnswer, Idle, Ended
<1>9. CASE Commit(s)
  BY <1>9 DEF Commit, Handling, Goto
<1>10. CASE Lock(s)
  BY <1>10 DEF Lock, Handling, Goto, Idle, Disconnect, Waiting
<1>11. CASE LockFails(s)
  BY <1>11 DEF LockFails, Handling, Goto, Idle, Disconnect, Waiting
<1>12. CASE c \in Clients /\ Take(s, c)
  BY <1>12, RequestFacts DEF ClientInv, Take, Begin, FirstStep
<1>13. CASE r \in Request /\ TakeLate(s, r)
  BY <1>13, RequestFacts DEF TakeLate, Begin, FirstStep
<1>14. CASE c \in Clients /\ Ask(c)
  BY <1>14 DEF Ask
<1>15. CASE c \in Clients /\ Timeout(c)
  BY <1>15 DEF Timeout
<1>16. CASE c \in Clients /\ Retry(c)
  BY <1>16 DEF Retry, Ended
<1>17. QED
  BY <1>1, <1>2, <1>3, <1>4, <1>5, <1>6, <1>7, <1>8, <1>9, <1>10, <1>11, <1>12, <1>13, <1>14,
     <1>15, <1>16 DEF AnyStep, Step

\* The row of an answer.
LEMMA AnswerRow ==
  ASSUME TypeOK, NEW g \in given
  PROVE  /\ g[1] \in Keys /\ g[2] \in Checksums /\ g[3] \in Nat /\ g = <<g[1], g[2], g[3]>>
         /\ <<g[1], g[2]>> \in Keys \X Checksums
BY DEF TypeOK

\* A client that has not ended its request keeps it, and its floor stays an answer.
LEMMA StepClients ==
  ASSUME TypeOK, ClientInv, NEW s \in Servers, NEW c, NEW r, AnyStep(s, c, r)
  PROVE  ClientInv'
<1> USE PRAssumption DEF TypeOK, ClientInv, modeVars, tableVars, serverVars, clientVars, history
<1>1. CASE Start(s)
  BY <1>1 DEF Start
<1>2. CASE Stop(s)
  BY <1>2 DEF Stop, Gone, Broken
<1>3. CASE Crash(s)
  BY <1>3 DEF Crash, Gone, Broken
<1>4. CASE Select(s)
  BY <1>4 DEF Select
<1>5. CASE Peek(s)
  BY <1>5 DEF Peek
<1>6. CASE Store(s)
  BY <1>6 DEF Store
<1>7. CASE Locked(s)
  BY <1>7 DEF Locked
<1>8. CASE Answer(s)
  <2>1. given \subseteq given'
    BY <1>8 DEF Answer
  <2>2. CASE serving[s] = None
    BY <1>8, <2>1, <2>2 DEF Answer
  <2>3. CASE serving[s] # None
    <3>1. PICK d \in Clients : d = serving[s]
      BY <2>3
    <3>2. Ended(d)
      BY <1>8, <2>3, <3>1 DEF Answer
    <3>3. \A x \in Clients : cstate'[x] # "idle" =>
            cstate[x] # "idle" /\ ask'[x] = ask[x] /\ floor'[x] = floor[x]
      BY <3>2 DEF Ended
    <3>4. QED
      BY <2>1, <3>3
  <2>4. QED
    BY <2>2, <2>3
<1>9. CASE Commit(s)
  BY <1>9 DEF Commit
<1>10. CASE Lock(s)
  <2>1. /\ ask' = ask /\ floor' = floor /\ given' = given
        /\ \A x \in Clients : cstate'[x] # "idle" => cstate[x] # "idle"
    BY <1>10 DEF Lock, Disconnect, Waiting
  <2>2. QED
    BY <2>1
<1>11. CASE LockFails(s)
  <2>1. /\ ask' = ask /\ floor' = floor /\ given' = given
        /\ \A x \in Clients : cstate'[x] # "idle" => cstate[x] # "idle"
    BY <1>11 DEF LockFails, Disconnect, Waiting
  <2>2. QED
    BY <2>1
<1>12. CASE c \in Clients /\ Take(s, c)
  BY <1>12 DEF Take, Begin
<1>13. CASE r \in Request /\ TakeLate(s, r)
  BY <1>13 DEF TakeLate, Begin
<1>14. CASE c \in Clients /\ Ask(c)
  <2>1. PICK q \in Request :
          /\ ask' = [ask EXCEPT ![c] = q]
          /\ \E v \in IF q.kind = "get" THEN Highest(q.key) ELSE {NoValue} :
               floor' = [floor EXCEPT ![c] = v]
    BY <1>14 DEF Ask
  <2>2. PICK v \in Highest(q.key) : floor' = [floor EXCEPT ![c] = v]
    BY <2>1 DEF Highest
  <2>3. v = NoValue \/ \E g \in given : g[1] = q.key /\ g[3] = v
    BY <2>2 DEF Highest
  <2>4. v # NoValue => \E d \in Checksums : <<q.key, d, v>> \in given
    BY <2>3, AnswerRow
  <2>5. given' = given /\ cstate' = [cstate EXCEPT ![c] = "waiting"]
    BY <1>14 DEF Ask
  <2>6. QED
    BY <2>1, <2>2, <2>4, <2>5
<1>15. CASE c \in Clients /\ Timeout(c)
  BY <1>15 DEF Timeout
<1>16. CASE c \in Clients /\ Retry(c)
  <2>1. CASE count[c] >= MaxRetries
    <3>1. \A x \in Clients : cstate'[x] # "idle" =>
            cstate[x] # "idle" /\ ask'[x] = ask[x] /\ floor'[x] = floor[x]
      BY <1>16, <2>1 DEF Retry, Ended
    <3>2. QED
      BY <1>16, <3>1 DEF Retry
  <2>2. CASE ~(count[c] >= MaxRetries)
    BY <1>16, <2>2 DEF Retry
  <2>3. QED
    BY <2>1, <2>2
<1>17. QED
  BY <1>1, <1>2, <1>3, <1>4, <1>5, <1>6, <1>7, <1>8, <1>9, <1>10, <1>11, <1>12, <1>13, <1>14,
     <1>15, <1>16 DEF AnyStep, Step

\* A transaction begins with the file, and only writing raises a number in it.
LEMMA StepTransaction ==
  ASSUME TypeOK, HandlerInv, TransactionInv,
         NEW s \in Servers, NEW c, NEW r, AnyStep(s, c, r)
  PROVE  TransactionInv'
<1> USE PRAssumption, TableFacts
    DEF TypeOK, TransactionInv, NoValue, modeVars, tableVars, serverVars, clientVars, history
<1>1. CASE Start(s)
  BY <1>1 DEF Start
<1>2. CASE Stop(s)
  BY <1>2 DEF Stop, Handling, Gone, Goto, View
<1>3. CASE Crash(s)
  BY <1>3 DEF Crash, Gone, Goto
<1>4. CASE Select(s)
  BY <1>4 DEF Select, Handling, Goto
<1>5. CASE Peek(s)
  BY <1>5 DEF Peek, Handling, Goto
<1>6. CASE Store(s)
  <2>1. /\ owner' = s /\ file' = file /\ pending' = [file EXCEPT ![Row(work[s])] = res'[s]]
        /\ pc' = [pc EXCEPT ![s] = "answer"] /\ dirty' = [dirty EXCEPT ![s] = TRUE]
    BY <1>6, StoreFacts DEF Store
  <2>2. work[s] \in Request /\ Row(work[s]) \in Keys \X Checksums /\ res'[s] \in Nat
        /\ res'[s] >= file[Row(work[s])]
    BY <1>6, StoreFacts, WorkFacts, StoredFacts
  <2>3. \A x \in Keys \X Checksums : pending'[x] >= file[x]
    <3>1. SUFFICES ASSUME NEW x \in Keys \X Checksums PROVE pending'[x] >= file[x]
      OBVIOUS
    <3>2. CASE x = Row(work[s])
      BY <2>1, <2>2, <3>2 DEF Table
    <3>3. CASE x # Row(work[s])
      <4>1. pending'[x] = file[x] /\ file[x] \in Int
        BY <2>1, <3>1, <3>3 DEF Table
      <4>2. QED
        BY <4>1
    <3>4. QED
      BY <3>2, <3>3
  <2>4. QED
    BY <2>1, <2>3
<1>7. CASE Locked(s)
  BY <1>7 DEF Locked, Handling, Goto, Readable
<1>8. CASE Answer(s)
  BY <1>8 DEF Answer, Handling, Goto, AfterAnswer
<1>9. CASE Commit(s)
  BY <1>9 DEF Commit, Handling, Goto, View
<1>10. CASE Lock(s)
  BY <1>10 DEF Lock
<1>11. CASE LockFails(s)
  BY <1>11 DEF LockFails, Handling, Goto, Readable
<1>12. CASE c \in Clients /\ Take(s, c)
  BY <1>12 DEF Take, Begin
<1>13. CASE r \in Request /\ TakeLate(s, r)
  BY <1>13 DEF TakeLate, Begin
<1>14. CASE c \in Clients /\ Ask(c)
  BY <1>14 DEF Ask
<1>15. CASE c \in Clients /\ Timeout(c)
  BY <1>15 DEF Timeout
<1>16. CASE c \in Clients /\ Retry(c)
  BY <1>16 DEF Retry
<1>17. QED
  BY <1>1, <1>2, <1>3, <1>4, <1>5, <1>6, <1>7, <1>8, <1>9, <1>10, <1>11, <1>12, <1>13, <1>14,
     <1>15, <1>16 DEF AnyStep, Step

\* The modes stay, and the history only grows.
LEMMA StepHistory ==
  ASSUME TypeOK, NEW s \in Servers, NEW c, NEW r, AnyStep(s, c, r)
  PROVE  nohist' = nohist /\ readonly' = readonly /\ (~lost' => ~lost) /\ imported \subseteq imported'
<1> USE DEF history, modeVars
<1>1. CASE Step(s)
  BY <1>1 DEF Step, Select, Peek, Store, Locked, Answer, Commit, Lock, LockFails
<1>2. CASE Stop(s) \/ Crash(s)
  <2>1. nohist' = nohist /\ readonly' = readonly /\ imported' = imported
    BY <1>2 DEF Stop, Crash
  <2>2. lost \in BOOLEAN
    BY DEF TypeOK
  <2>3. CASE Stop(s)
    BY <2>1, <2>3 DEF Stop
  <2>4. CASE Crash(s)
    <3>1. lost' = (lost \/ (pc[s] = "commit" /\ owner = s))
      BY <2>4 DEF Crash
    <3>2. ~lost' => ~lost
      BY <2>2, <3>1
    <3>3. QED
      BY <2>1, <3>2
  <2>5. QED
    BY <1>2, <2>3, <2>4
<1>3. CASE Start(s) \/ (c \in Clients /\ Take(s, c)) \/ (r \in Request /\ TakeLate(s, r))
  BY <1>3 DEF Start, Take, TakeLate, Begin
<1>4. CASE c \in Clients /\ (Ask(c) \/ Timeout(c) \/ Retry(c))
  BY <1>4 DEF Ask, Timeout, Retry
<1>5. QED
  BY <1>1, <1>2, <1>3, <1>4 DEF AnyStep

\* No row of the file is ever lowered.
LEMMA FileRises ==
  ASSUME TypeOK, TransactionInv,
         NEW s \in Servers, NEW c, NEW r, AnyStep(s, c, r)
  PROVE  \A x \in Keys \X Checksums : file'[x] >= file[x]
<1>1. file' = file \/ file' = View(s)
  BY DEF AnyStep, Step, Start, Stop, Crash, Select, Peek, Store, Locked, Answer, Commit, Lock,
         LockFails, Take, TakeLate, Begin, Ask, Timeout, Retry, tableVars
<1>2. \A x \in Keys \X Checksums : View(s)[x] >= file[x]
  BY PRAssumption, TableFacts DEF View, TransactionInv, NoValue
<1>3. QED
  BY <1>1, <1>2, TableFacts DEF NoValue

\* What a server has read and not yet answered stays there.
LEMMA StepKept ==
  ASSUME TypeOK, HandlerInv, TransactionInv, KeptInv, TypeOK',
         NEW s \in Servers, NEW c, NEW r, AnyStep(s, c, r)
  PROVE  KeptInv'
<1> SUFFICES ASSUME NEW q \in Servers, Answering(q)'
             PROVE  Kept(q)'
  BY DEF KeptInv
<1>a. pc'[q] = "answer" /\ ~readonly'[q] /\ res'[q] # NoValue
  BY DEF Answering
<1>b. ASSUME Answering(q)
      PROVE  Kept(q) /\ Row(work[q]) \in Keys \X Checksums /\ res[q] \in Int
  <2>1. Row(work[q]) \in Keys \X Checksums
    BY <1>b, WorkFacts DEF Answering
  <2>2. res[q] \in Int
    BY DEF TypeOK, NoValue
  <2>3. QED
    BY <1>b, <2>1, <2>2 DEF KeptInv
<1>c. \A x \in Keys \X Checksums : file'[x] >= file[x] /\ file[x] \in Int /\ file'[x] \in Int
  BY FileRises, TableFacts DEF TypeOK, Table, NoValue
<1>d. ASSUME Answering(q), res'[q] = res[q], work'[q] = work[q],
             owner = q => owner' = q /\ pending' = pending
      PROVE  Kept(q)'
  <2>1. Kept(q) /\ Row(work[q]) \in Keys \X Checksums /\ res[q] \in Int
    BY <1>b, <1>d
  <2>2. Row(work[q])' = Row(work[q])
    BY <1>d DEF Row
  <2>3. LET x == Row(work[q])
        IN  file'[x] >= file[x] /\ file[x] \in Int /\ file'[x] \in Int
    BY <1>c, <2>1
  <2>4. QED
    BY <1>d, <2>1, <2>2, <2>3 DEF Kept
<1> USE PRAssumption DEF modeVars, tableVars, serverVars, clientVars, history
<1>1. CASE Start(s)
  BY <1>1, <1>a, <1>d DEF Start, Answering
<1>2. CASE Stop(s) \/ Crash(s)
  <2>1. q # s
    BY <1>2, <1>a DEF Stop, Crash, Gone, Goto, TypeOK
  <2>2. QED
    BY <1>2, <1>a, <1>d, <2>1 DEF Stop, Crash, Gone, Goto, Idle, TypeOK, Answering
<1>3. CASE Select(s)
  <2>1. CASE q = s
    <3>1. pc[s] = "select" /\ res'[s] = View(s)[Row(work[s])] /\ work' = work
          /\ UNCHANGED <<file, pending, owner>>
      BY <1>3, <1>a, <2>1 DEF Select, Handling, Goto, TypeOK, HandlerInv
    <3>2. View(s)[Row(work[s])] \in Int
      BY <3>1, WorkFacts DEF NoValue
    <3>3. Row(work[s])' = Row(work[s])
      BY <3>1 DEF Row
    <3>4. QED
      BY <2>1, <3>1, <3>2, <3>3 DEF Kept, View
  <2>2. CASE q # s
    BY <1>3, <1>a, <1>d, <2>2 DEF Select, Goto, Answering, TypeOK
  <2>3. QED
    BY <2>1, <2>2
<1>4. CASE Peek(s)
  <2>1. q # s
    BY <1>4, <1>a DEF Peek, Handling, HandlerInv
  <2>2. QED
    BY <1>4, <1>a, <1>d, <2>1 DEF Peek, Goto, Answering, TypeOK
<1>5. CASE Store(s)
  <2>1. /\ owner \in {s, None} /\ owner' = s /\ file' = file
        /\ pending' = [file EXCEPT ![Row(work[s])] = res'[s]]
        /\ res' = [res EXCEPT ![s] = res'[s]] /\ work' = work /\ readonly' = readonly
        /\ pc' = [pc EXCEPT ![s] = "answer"] /\ pc[s] = "store" /\ res'[s] \in Nat
    BY <1>5, StoreFacts DEF Store
  <2>2. CASE q = s
    <3>1. pending'[Row(work[s])] = res'[s]
      BY <2>1, WorkFacts DEF TypeOK, Table
    <3>2. QED
      BY <2>1, <2>2, <3>1 DEF Kept
  <2>3. CASE q # s
    BY <1>a, <1>d, <2>1, <2>3 DEF Answering, TypeOK
  <2>4. QED
    BY <2>2, <2>3
<1>6. CASE Locked(s)
  <2>1. q # s
    BY <1>6, <1>a DEF Locked, HandlerInv, Handling
  <2>2. QED
    BY <1>6, <1>a, <1>d, <2>1 DEF Locked, Goto, Answering, TypeOK
<1>7. CASE Answer(s)
  <2>1. q # s
    BY <1>7, <1>a DEF Answer, Goto, AfterAnswer, TypeOK
  <2>2. QED
    BY <1>7, <1>a, <1>d, <2>1 DEF Answer, Goto, Idle, Answering, TypeOK
<1>8. CASE Commit(s)
  <2>1. q # s
    BY <1>8, <1>a DEF Commit, Goto, TypeOK
  <2>2. QED
    BY <1>8, <1>a, <1>d, <2>1 DEF Commit, Goto, Answering, TypeOK
<1>9. CASE Lock(s) \/ LockFails(s)
  <2>1. q # s
    BY <1>9, <1>a DEF Lock, LockFails, Goto, TypeOK
  <2>2. QED
    BY <1>9, <1>a, <1>d, <2>1 DEF Lock, LockFails, Goto, Idle, Answering, TypeOK
<1>10. CASE (c \in Clients /\ Take(s, c)) \/ (r \in Request /\ TakeLate(s, r))
  <2>1. q # s
    BY <1>10, <1>a DEF Take, TakeLate, Begin, TypeOK
  <2>2. QED
    BY <1>10, <1>a, <1>d, <2>1 DEF Take, TakeLate, Begin, Answering, TypeOK
<1>11. CASE c \in Clients /\ (Ask(c) \/ Timeout(c) \/ Retry(c))
  BY <1>11, <1>a, <1>d DEF Ask, Timeout, Retry, Answering
<1>12. QED
  BY <1>1, <1>2, <1>3, <1>4, <1>5, <1>6, <1>7, <1>8, <1>9, <1>10, <1>11 DEF AnyStep, Step

\* What was answered stays in the file or in the transaction that is about to commit it.
LEMMA StepAnswers ==
  ASSUME TypeOK, HandlerInv, TransactionInv, KeptInv, AnswersKept, TypeOK',
         NEW s \in Servers, NEW c, NEW r, AnyStep(s, c, r)
  PROVE  AnswersKept'
<1> DEFINE InFile(g) == file[<<g[1], g[2]>>] >= g[3]
           InCommit(g, q) == pc[q] = "commit" /\ owner = q /\ pending[<<g[1], g[2]>>] >= g[3]
<1> SUFFICES ASSUME ~lost', NEW g \in given'
             PROVE  InFile(g)' \/ \E q \in Servers : InCommit(g, q)'
  BY DEF AnswersKept
<1>b. ~lost
  BY StepHistory
<1>c. <<g[1], g[2]>> \in Keys \X Checksums /\ g[3] \in Nat
  BY DEF TypeOK
<1>d. LET x == <<g[1], g[2]>>
      IN  file'[x] >= file[x] /\ file[x] \in Int /\ file'[x] \in Int
  BY <1>c, FileRises, TableFacts DEF TypeOK, Table, NoValue
<1>e. ASSUME g \in given PROVE InFile(g) \/ \E q \in Servers : InCommit(g, q)
  BY <1>b, <1>e DEF AnswersKept
<1>f. InFile(g) => InFile(g)'
  BY <1>c, <1>d
<1>g. ASSUME g \in given,
             \A q \in Servers : pc[q] = "commit" /\ owner = q =>
               pc'[q] = "commit" /\ owner' = q /\ pending' = pending
      PROVE  InFile(g)' \/ \E q \in Servers : InCommit(g, q)'
  BY <1>e, <1>f, <1>g
<1> HIDE DEF InFile, InCommit
<1> USE PRAssumption DEF modeVars, tableVars, serverVars, clientVars, history
<1>1. CASE Start(s)
  BY <1>1, <1>g DEF Start
<1>2. CASE Stop(s)
  BY <1>2, <1>g DEF Stop, Gone, Goto, Handling, TypeOK
<1>3. CASE Crash(s)
  <2>1. ~(pc[s] = "commit" /\ owner = s)
    BY <1>3 DEF Crash
  <2>2. QED
    BY <1>3, <1>g, <2>1 DEF Crash, Gone, Goto, TypeOK
<1>4. CASE Select(s) \/ Peek(s) \/ Locked(s)
  BY <1>4, <1>g DEF Select, Peek, Locked, Handling, Goto, TypeOK
<1>5. CASE Store(s)
  <2>1. /\ owner \in {s, None} /\ pc[s] = "store" /\ given' = given
    BY <1>5, StoreFacts DEF Store
  <2>2. \A q \in Servers : ~InCommit(g, q)
    BY <2>1 DEF InCommit
  <2>3. QED
    BY <1>e, <1>f, <2>1, <2>2
<1>6. CASE Answer(s)
  <2>1. CASE g \in given
    BY <1>6, <1>g, <2>1 DEF Answer, Goto, Handling, TypeOK
  <2>2. CASE g \notin given
    <3>1. /\ g = <<work[s].key, work[s].checksum, res[s]>> /\ Answering(s)
          /\ UNCHANGED <<file, owner, pending>> /\ pc' = [pc EXCEPT ![s] = AfterAnswer(s)]
      BY <1>6, <2>2 DEF Answer, Handling, Goto, Answering
    <3>2. <<g[1], g[2]>> = Row(work[s]) /\ g[3] = res[s]
      BY <3>1 DEF Row
    <3>3. \/ file[<<g[1], g[2]>>] >= g[3]
          \/ owner = s /\ pending[<<g[1], g[2]>>] >= g[3]
      BY <3>1, <3>2 DEF KeptInv, Kept
    <3>4. CASE file[<<g[1], g[2]>>] >= g[3]
      BY <1>f, <3>4 DEF InFile
    <3>5. CASE ~(file[<<g[1], g[2]>>] >= g[3])
      <4>1. owner = s /\ pending[<<g[1], g[2]>>] >= g[3] /\ pending # file
        BY <3>3, <3>5
      <4>2. dirty[s]
        BY <4>1 DEF TransactionInv
      <4>3. InCommit(g, s)'
        BY <3>1, <4>1, <4>2 DEF InCommit, AfterAnswer, TypeOK
      <4>4. QED
        BY <4>3
    <3>6. QED
      BY <3>4, <3>5
  <2>3. QED
    BY <2>1, <2>2
<1>7. CASE Commit(s)
  <2>1. CASE owner = s
    <3>1. file' = pending /\ given' = given
      BY <1>7, <2>1 DEF Commit, View
    <3>2. ASSUME NEW q \in Servers, InCommit(g, q) PROVE InFile(g)'
      BY <3>1, <3>2 DEF InCommit, InFile
    <3>3. QED
      BY <1>e, <1>f, <3>1, <3>2
  <2>2. CASE owner # s
    BY <1>7, <1>g, <2>2 DEF Commit, Goto, TypeOK
  <2>3. QED
    BY <2>1, <2>2
<1>8. CASE Lock(s)
  <2>1. \A q \in Servers : ~InCommit(g, q)
    BY <1>8 DEF Lock, InCommit
  <2>2. QED
    BY <1>8, <1>e, <1>f, <2>1 DEF Lock
<1>9. CASE LockFails(s)
  BY <1>9, <1>g DEF LockFails, Handling, Goto, TypeOK
<1>10. CASE (c \in Clients /\ Take(s, c)) \/ (r \in Request /\ TakeLate(s, r))
  BY <1>10, <1>g DEF Take, TakeLate, Begin, TypeOK
<1>11. CASE c \in Clients /\ (Ask(c) \/ Timeout(c) \/ Retry(c))
  BY <1>11, <1>g DEF Ask, Timeout, Retry
<1>12. QED
  BY <1>1, <1>2, <1>3, <1>4, <1>5, <1>6, <1>7, <1>8, <1>9, <1>10, <1>11 DEF AnyStep, Step

\* A server that reads the file sees what its client has seen.
LEMMA FloorSeen ==
  ASSUME TypeOK, HandlerInv, ClientInv, TransactionInv, AnswersKept, ~lost,
         NEW s \in Servers, pc[s] \in {"select", "store"}, Readable(s),
         NEW d \in Clients, serving[s] = d, floor[d] # NoValue
  PROVE  \E e \in Checksums : View(s)[<<work[s].key, e>>] >= floor[d]
<1>1. d # None /\ cstate[d] = "waiting" /\ ask[d] = work[s]
  BY PRAssumption DEF HandlerInv
<1>2. PICK e \in Checksums : <<work[s].key, e, floor[d]>> \in given
  BY <1>1 DEF ClientInv
<1>3. work[s].key \in Keys /\ floor[d] \in Nat
  BY WorkFacts DEF TypeOK, NoValue
<1>4. PICK x \in Keys \X Checksums : x = <<work[s].key, e>>
  BY <1>3
<1>5. file[x] >= floor[d]
  BY <1>2, <1>4, PRAssumption DEF AnswersKept, Readable
<1>6. View(s)[x] >= file[x] /\ View(s)[x] \in Int /\ file[x] \in Int
  BY TableFacts, PRAssumption DEF TransactionInv, View, NoValue
<1>7. QED
  BY <1>3, <1>4, <1>5, <1>6

\* Without history what is answered is at least the floor of the client.
LEMMA StepFloors ==
  ASSUME TypeOK, HandlerInv, ClientInv, TransactionInv, AnswersKept, NeverDecremented,
         NEW s \in Servers, NEW c, NEW r, AnyStep(s, c, r)
  PROVE  NeverDecremented'
<1> SUFFICES ASSUME nohist', ~lost', NEW q \in Servers, NEW d \in Clients, Numbers(q, d)'
             PROVE  res'[q] >= floor'[d]
  BY DEF NeverDecremented
<1>a. pc'[q] = "answer" /\ serving'[q] = d /\ d # None /\ work'[q].kind = "get"
      /\ res'[q] # NoValue /\ ~readonly'[q]
  BY DEF Numbers
<1>b. nohist /\ ~lost
  BY StepHistory
<1>c. ASSUME Numbers(q, d), res'[q] = res[q], floor'[d] = floor[d]
      PROVE  res'[q] >= floor'[d]
  BY <1>b, <1>c DEF NeverDecremented
<1>d. pc[q] = "answer" /\ serving[q] = d => Home[d] = q /\ cstate[d] = "waiting"
  BY <1>a DEF HandlerInv
<1> USE PRAssumption DEF modeVars, tableVars, serverVars, clientVars, history
<1>1. CASE Start(s)
  BY <1>1, <1>a, <1>c DEF Start, Numbers
<1>2. CASE Stop(s) \/ Crash(s)
  <2>1. /\ pc' = [pc EXCEPT ![s] = "idle"] /\ serving' = [serving EXCEPT ![s] = None]
        /\ work' = [work EXCEPT ![s] = None] /\ res' = [res EXCEPT ![s] = NoValue]
        /\ readonly' = readonly /\ floor' = floor
    BY <1>2 DEF Stop, Crash, Gone, Goto, Idle
  <2>2. q # s
    BY <1>a, <2>1 DEF TypeOK
  <2>3. QED
    BY <1>a, <1>c, <2>1, <2>2 DEF Numbers, TypeOK
<1>3. CASE Select(s)
  <2>1. CASE q = s
    <3>1. /\ pc[s] = "select" /\ Readable(s) /\ serving[s] = d /\ floor'[d] = floor[d]
          /\ Found(View(s), work[s]) /\ res'[s] = View(s)[Row(work[s])]
      BY <1>3, <1>a, <2>1 DEF Select, Handling, Goto, TypeOK, HandlerInv
    <3>2. \A e \in Checksums : View(s)[<<work[s].key, e>>] <= res'[s]
      BY <1>b, <3>1 DEF Found
    <3>3. work[s].key \in Keys /\ View(s) \in Table
      BY <3>1, WorkFacts, TableFacts
    <3>4. /\ \A e \in Checksums : View(s)[<<work[s].key, e>>] \in Int
          /\ res'[s] \in Nat \cup {NoValue} /\ floor[d] \in Nat \cup {NoValue}
      BY <3>1, <3>3, WorkFacts DEF Table, NoValue, TypeOK
    <3>5. CASE floor[d] = NoValue
      BY <2>1, <3>1, <3>4, <3>5 DEF NoValue
    <3>6. CASE floor[d] # NoValue
      <4>1. PICK e \in Checksums : View(s)[<<work[s].key, e>>] >= floor[d]
        BY <1>b, <3>1, <3>6, FloorSeen
      <4>2. QED
        BY <2>1, <3>1, <3>2, <3>4, <4>1 DEF NoValue
    <3>7. QED
      BY <3>5, <3>6
  <2>2. CASE q # s
    BY <1>3, <1>a, <1>c, <2>2 DEF Select, Goto, Numbers, TypeOK
  <2>3. QED
    BY <2>1, <2>2
<1>4. CASE Peek(s)
  <2>1. q # s
    BY <1>4, <1>a DEF Peek, Handling, HandlerInv
  <2>2. QED
    BY <1>4, <1>a, <1>c, <2>1 DEF Peek, Goto, Numbers, TypeOK
<1>5. CASE Store(s)
  <2>1. /\ pc[s] = "store" /\ Readable(s) /\ View(s) = file /\ res'[s] \in Stored(file, work[s])
        /\ res'[s] \in Nat /\ res' = [res EXCEPT ![s] = res'[s]]
        /\ UNCHANGED <<work, serving, floor, readonly>> /\ pc' = [pc EXCEPT ![s] = "answer"]
    BY <1>5, StoreFacts DEF Store
  <2>2. CASE q = s
    <3>1. work[s] \in Request /\ work[s].key \in Keys /\ file \in Table /\ work[s].kind = "get"
          /\ floor[d] \in Nat \cup {NoValue}
      BY <1>a, <2>1, <2>2, WorkFacts, TableFacts DEF TypeOK
    <3>2. \A e \in Checksums : file[<<work[s].key, e>>] < res'[s]
      BY <1>b, <2>1, <3>1, StoredFacts
    <3>3. \A e \in Checksums : file[<<work[s].key, e>>] \in Int
      BY <3>1 DEF Table, NoValue
    <3>4. CASE floor[d] = NoValue
      BY <2>1, <2>2, <3>4 DEF NoValue
    <3>5. CASE floor[d] # NoValue
      <4>1. PICK e \in Checksums : View(s)[<<work[s].key, e>>] >= floor[d]
        BY <1>a, <1>b, <2>1, <2>2, <3>5, FloorSeen
      <4>2. QED
        BY <2>1, <2>2, <3>1, <3>2, <3>3, <4>1 DEF NoValue
    <3>6. QED
      BY <3>4, <3>5
  <2>3. CASE q # s
    BY <1>a, <1>c, <2>1, <2>3 DEF Numbers, TypeOK
  <2>4. QED
    BY <2>2, <2>3
<1>6. CASE Locked(s)
  <2>1. q # s
    BY <1>6, <1>a DEF Locked, HandlerInv, Handling
  <2>2. QED
    BY <1>6, <1>a, <1>c, <2>1 DEF Locked, Goto, Numbers, TypeOK
<1>7. CASE Answer(s)
  <2>1. q # s
    BY <1>7, <1>a DEF Answer, Goto, AfterAnswer, TypeOK
  <2>2. pc[q] = "answer" /\ serving[q] = d /\ work'[q] = work[q] /\ res'[q] = res[q]
        /\ UNCHANGED readonly
    BY <1>7, <1>a, <2>1 DEF Answer, Goto, Idle, TypeOK
  <2>3. serving[s] # d
    BY <1>a, <1>d, <2>1, <2>2 DEF HandlerInv
  <2>4. floor'[d] = floor[d]
    BY <1>7, <2>3 DEF Answer, Ended, TypeOK
  <2>5. QED
    BY <1>a, <1>c, <2>2, <2>4 DEF Numbers
<1>8. CASE Commit(s)
  <2>1. q # s
    BY <1>8, <1>a DEF Commit, Goto, TypeOK
  <2>2. QED
    BY <1>8, <1>a, <1>c, <2>1 DEF Commit, Goto, Numbers, TypeOK
<1>9. CASE Lock(s) \/ LockFails(s)
  <2>1. /\ pc' = [pc EXCEPT ![s] = "idle"] /\ serving' = [serving EXCEPT ![s] = None]
        /\ work' = [work EXCEPT ![s] = None] /\ res' = [res EXCEPT ![s] = NoValue]
        /\ readonly' = readonly /\ floor' = floor
    BY <1>9 DEF Lock, LockFails, Goto, Idle
  <2>2. q # s
    BY <1>a, <2>1 DEF TypeOK
  <2>3. QED
    BY <1>a, <1>c, <2>1, <2>2 DEF Numbers, TypeOK
<1>10. CASE (c \in Clients /\ Take(s, c)) \/ (r \in Request /\ TakeLate(s, r))
  <2>1. PICK x, y : x \in Clients \cup {None} /\ Begin(s, y, x)
    BY <1>10 DEF Take, TakeLate
  <2>2. q # s
    BY <1>a, <2>1 DEF Begin, TypeOK
  <2>3. QED
    BY <1>a, <1>c, <2>1, <2>2 DEF Begin, Numbers, TypeOK
<1>11. CASE c \in Clients /\ (Ask(c) \/ Timeout(c) \/ Retry(c))
  <2>1. /\ pc' = pc /\ work' = work /\ res' = res /\ readonly' = readonly
        /\ serving' = serving \/ \E x \in Servers : serving' = [serving EXCEPT ![x] = None]
    BY <1>11 DEF Ask, Timeout, Retry
  <2>2. serving[q] = d /\ cstate[d] = "waiting"
    BY <1>a, <1>d, <2>1 DEF TypeOK
  <2>3. floor'[d] = floor[d]
    <3>1. CASE Ask(c)
      BY <2>2, <3>1 DEF Ask, TypeOK
    <3>2. CASE Timeout(c)
      BY <3>2 DEF Timeout
    <3>3. CASE Retry(c)
      BY <2>2, <3>3 DEF Retry, Ended, TypeOK
    <3>4. QED
      BY <1>11, <3>1, <3>2, <3>3
  <2>4. QED
    BY <1>a, <1>c, <2>1, <2>2, <2>3 DEF Numbers
<1>12. QED
  BY <1>1, <1>2, <1>3, <1>4, <1>5, <1>6, <1>7, <1>8, <1>9, <1>10, <1>11 DEF AnyStep, Step

\* Only writing makes new numbers: every other step repeats numbers that are known.
LEMMA KnownShrinks ==
  ASSUME TypeOK, HandlerInv, NEW s \in Servers, NEW c, NEW r, AnyStep(s, c, r), ~Store(s),
         NEW k \in Keys, NEW d \in Checksums, NEW v \in Nat, Known(k, d, v)'
  PROVE  Known(k, d, v) /\ imported' = imported
<1> USE PRAssumption DEF modeVars, tableVars, serverVars, clientVars, history
<1> DEFINE Told(q) == Answering(q) /\ work[q].key = k /\ work[q].checksum = d /\ res[q] = v
<1>a. \/ <<k, d, v>> \in given' \/ file'[<<k, d>>] = v
      \/ owner' # None /\ pending'[<<k, d>>] = v
      \/ \E q \in Servers : Told(q)'
  BY DEF Known
<1>b. /\ <<k, d, v>> \in given => Known(k, d, v)
      /\ file[<<k, d>>] = v => Known(k, d, v)
      /\ \A q \in Servers : View(q)[<<k, d>>] = v => Known(k, d, v)
      /\ owner # None /\ pending[<<k, d>>] = v => Known(k, d, v)
      /\ \A q \in Servers : Told(q) => Known(k, d, v)
  BY DEF Known, View
<1>c. ASSUME NEW q \in Servers, pc'[q] = pc[q], work'[q] = work[q], res'[q] = res[q],
             readonly' = readonly, Told(q)'
      PROVE  Told(q)
  BY <1>c DEF Answering
<1>d. ASSUME UNCHANGED <<given, tableVars, imported>>,
             \A q \in Servers : Told(q)' => Told(q)
      PROVE  Known(k, d, v) /\ imported' = imported
  BY <1>a, <1>b, <1>d
<1> HIDE DEF Told
<1>1. CASE Start(s)
  BY <1>1, <1>c, <1>d DEF Start
<1>2. CASE Stop(s) \/ Crash(s)
  <2>1. /\ pc' = [pc EXCEPT ![s] = "idle"] /\ work' = [work EXCEPT ![s] = None]
        /\ res' = [res EXCEPT ![s] = NoValue] /\ readonly' = readonly
        /\ given' = given /\ imported' = imported
        /\ file' = file \/ file' = View(s)
        /\ owner' # None => owner' = owner /\ pending' = pending
    BY <1>2 DEF Stop, Crash, Gone, Goto, Idle
  <2>2. \A q \in Servers : Told(q)' => Told(q)
    <3>1. SUFFICES ASSUME NEW q \in Servers, Told(q)' PROVE Told(q)
      OBVIOUS
    <3>2. q # s
      BY <2>1, <3>1 DEF Told, Answering, TypeOK
    <3>3. QED
      BY <1>c, <2>1, <3>1, <3>2 DEF TypeOK
  <2>3. QED
    BY <1>a, <1>b, <2>1, <2>2
<1>3. CASE Select(s)
  <2>1. /\ res' = res \/ res' = [res EXCEPT ![s] = View(s)[Row(work[s])]]
        /\ work' = work /\ readonly' = readonly /\ pc[s] = "select"
        /\ \E x : pc' = [pc EXCEPT ![s] = x]
        /\ UNCHANGED <<given, tableVars, imported>>
    BY <1>3 DEF Select, Goto, Handling
  <2>2. ASSUME NEW q \in Servers, Told(q)' PROVE Known(k, d, v)
    <3>1. CASE q # s
      <4>1. Told(q)
        BY <1>c, <2>1, <2>2, <3>1 DEF TypeOK
      <4>2. QED
        BY <1>b, <4>1
    <3>2. CASE q = s
      <4>1. View(s)[Row(work[s])] = v /\ Row(work[s]) = <<k, d>>
        BY <2>1, <2>2, <3>2 DEF Told, Answering, Row, HandlerInv, TypeOK
      <4>2. QED
        BY <1>b, <4>1
    <3>3. QED
      BY <3>1, <3>2
  <2>3. QED
    BY <1>a, <1>b, <2>1, <2>2
<1>4. CASE Peek(s)
  <2>1. /\ readonly[s] /\ readonly' = readonly /\ work' = work
        /\ pc' = [pc EXCEPT ![s] = "answer"] /\ \E x : res' = [res EXCEPT ![s] = x]
        /\ UNCHANGED <<given, tableVars, imported>>
    BY <1>4 DEF Peek, Goto, Handling, HandlerInv
  <2>2. \A q \in Servers : Told(q)' => q # s
    BY <2>1 DEF Told, Answering
  <2>3. QED
    BY <1>c, <1>d, <2>1, <2>2 DEF TypeOK
<1>5. CASE Locked(s)
  <2>1. /\ readonly' = readonly /\ work' = work /\ res' = res /\ res[s] = NoValue
        /\ \E x : pc' = [pc EXCEPT ![s] = x]
        /\ UNCHANGED <<given, tableVars, imported>>
    BY <1>5 DEF Locked, Goto, Handling, HandlerInv
  <2>2. \A q \in Servers : Told(q)' => q # s
    BY <2>1 DEF Told, Answering
  <2>3. QED
    BY <1>c, <1>d, <2>1, <2>2 DEF TypeOK
<1>6. CASE Answer(s)
  <2>1. /\ readonly' = readonly /\ imported' = imported /\ UNCHANGED tableVars
        /\ pc' = [pc EXCEPT ![s] = AfterAnswer(s)] /\ AfterAnswer(s) # "answer"
        /\ work' = work \/ work' = [work EXCEPT ![s] = None]
        /\ res' = res \/ res' = [res EXCEPT ![s] = NoValue]
    BY <1>6 DEF Answer, Goto, Idle, AfterAnswer
  <2>2. \A q \in Servers : Told(q)' => q # s
    BY <2>1 DEF Told, Answering, TypeOK
  <2>3. ASSUME NEW q \in Servers, Told(q)' PROVE Told(q)
    BY <1>c, <2>1, <2>2, <2>3 DEF TypeOK
  <2>4. <<k, d, v>> \in given' => <<k, d, v>> \in given \/ Told(s)
    BY <1>6 DEF Answer, Handling, Answering, Told
  <2>5. QED
    BY <1>a, <1>b, <2>1, <2>3, <2>4
<1>7. CASE Commit(s)
  <2>1. /\ readonly' = readonly /\ work' = work /\ res' = res /\ file' = View(s)
        /\ \E x \in {"begin", "begin-raise"} : pc' = [pc EXCEPT ![s] = x]
        /\ owner' # None => owner' = owner /\ pending' = pending
        /\ given' = given /\ imported' = imported
    BY <1>7 DEF Commit, Goto
  <2>2. \A q \in Servers : Told(q)' => Told(q)
    BY <1>c, <2>1 DEF TypeOK, Told, Answering
  <2>3. QED
    BY <1>a, <1>b, <2>1, <2>2
<1>8. CASE Lock(s) \/ LockFails(s)
  <2>1. /\ pc' = [pc EXCEPT ![s] = "idle"] /\ work' = [work EXCEPT ![s] = None]
        /\ res' = [res EXCEPT ![s] = NoValue] /\ readonly' = readonly
        /\ UNCHANGED <<given, imported, file>>
        /\ pending' = file \/ (owner' = owner /\ pending' = pending)
    BY <1>8 DEF Lock, LockFails, Goto, Idle
  <2>2. \A q \in Servers : Told(q)' => q # s
    BY <2>1 DEF Told, Answering, TypeOK
  <2>3. \A q \in Servers : Told(q)' => Told(q)
    BY <1>c, <2>1, <2>2 DEF TypeOK
  <2>4. QED
    BY <1>a, <1>b, <2>1, <2>3
<1>9. CASE (c \in Clients /\ Take(s, c)) \/ (r \in Request /\ TakeLate(s, r))
  <2>1. PICK x, y : x \in Clients \cup {None} /\ Begin(s, y, x)
    BY <1>9 DEF Take, TakeLate
  <2>2. \A q \in Servers : Told(q)' => q # s
    BY <2>1 DEF Begin, Told, Answering, TypeOK
  <2>3. QED
    BY <1>c, <1>d, <2>1, <2>2 DEF Begin, TypeOK
<1>10. CASE c \in Clients /\ (Ask(c) \/ Timeout(c) \/ Retry(c))
  <2>1. /\ pc' = pc /\ work' = work /\ res' = res /\ readonly' = readonly
        /\ UNCHANGED <<given, tableVars, imported>>
    BY <1>10 DEF Ask, Timeout, Retry
  <2>2. QED
    BY <1>c, <1>d, <2>1
<1>11. QED
  BY <1>1, <1>2, <1>3, <1>4, <1>5, <1>6, <1>7, <1>8, <1>9, <1>10 DEF AnyStep, Step

\* Whoever writes is alone with the file, and sees a row at least as high as all that is known.
LEMMA WriterSeesAll ==
  ASSUME TypeOK, HandlerInv, TransactionInv, KeptInv, AnswersKept, ~lost,
         NEW s \in Servers, Store(s),
         NEW k \in Keys, NEW d \in Checksums, NEW v \in Nat, Known(k, d, v)
  PROVE  file[<<k, d>>] >= v
<1> USE PRAssumption
<1>1. owner \in {s, None} /\ pc[s] = "store" /\ View(s) = file
  BY StoreFacts
<1>2. PICK x \in Keys \X Checksums : x = <<k, d>>
  OBVIOUS
<1>3. CASE <<k, d, v>> \in given
  BY <1>1, <1>3 DEF AnswersKept
<1>4. CASE file[x] = v \/ (owner # None /\ pending[x] = v)
  BY <1>1, <1>2, <1>4 DEF View
<1>5. CASE \E q \in Servers : Answering(q) /\ work[q].key = k /\ work[q].checksum = d /\ res[q] = v
  <2>1. PICK q \in Servers : Answering(q) /\ work[q].key = k /\ work[q].checksum = d /\ res[q] = v
    BY <1>5
  <2>2. Kept(q) /\ q # s /\ Row(work[q]) = x
    BY <1>1, <1>2, <2>1 DEF KeptInv, Answering, Row
  <2>3. QED
    BY <1>1, <1>2, <2>1, <2>2 DEF Kept
<1>6. QED
  BY <1>2, <1>3, <1>4, <1>5 DEF Known

\* The only number a writer adds is the one it stored.
LEMMA WriterAddsOne ==
  ASSUME TypeOK, HandlerInv, TransactionInv, NEW s \in Servers, Store(s),
         NEW k \in Keys, NEW d \in Checksums, NEW v \in Nat, Known(k, d, v)'
  PROVE  \/ Known(k, d, v)
         \/ k = work[s].key /\ d = work[s].checksum /\ v = res'[s]
<1>1. /\ file' = file /\ pending' = [file EXCEPT ![Row(work[s])] = res'[s]]
      /\ res' = [res EXCEPT ![s] = res'[s]] /\ pc' = [pc EXCEPT ![s] = "answer"]
      /\ work' = work /\ given' = given /\ readonly' = readonly
  BY StoreFacts DEF Store, modeVars
<1>2. CASE <<k, d, v>> \in given' \/ file'[<<k, d>>] = v
  BY <1>1, <1>2 DEF Known
<1>3. CASE pending'[<<k, d>>] = v
  <2>1. <<k, d>> = Row(work[s]) \/ file[<<k, d>>] = v
    BY <1>1, <1>3 DEF TypeOK, Table
  <2>2. CASE <<k, d>> = Row(work[s])
    <3>1. Row(work[s]) \in Keys \X Checksums
      BY <2>2
    <3>2. pending'[<<k, d>>] = res'[s]
      BY <1>1, <2>2, <3>1 DEF TypeOK, Table
    <3>3. k = work[s].key /\ d = work[s].checksum
      BY <2>2 DEF Row
    <3>4. QED
      BY <1>3, <3>2, <3>3
  <2>3. QED
    BY <2>1, <2>2 DEF Known
<1>4. CASE \E q \in Servers : Answering(q)' /\ work'[q].key = k /\ work'[q].checksum = d /\ res'[q] = v
  <2>1. PICK q \in Servers : Answering(q)' /\ work'[q].key = k /\ work'[q].checksum = d /\ res'[q] = v
    BY <1>4
  <2>2. CASE q = s
    BY <1>1, <2>1, <2>2
  <2>3. CASE q # s
    BY <1>1, <2>1, <2>3 DEF Known, Answering, TypeOK
  <2>4. QED
    BY <2>2, <2>3
<1>5. QED
  BY <1>2, <1>3, <1>4 DEF Known

\* What is said of two known numbers.
Apart(k, c, v, d, w) == /\ k \notin imported /\ v = w => c = d
                        /\ ~nohist /\ c = d => v = w

\* The number a writer stores is apart from every number that is known.
LEMMA WriterKeepsApart ==
  ASSUME TypeOK, HandlerInv, TransactionInv, KeptInv, AnswersKept, KnownInv, ~lost,
         NEW s \in Servers, Store(s), NEW k \in Keys, NEW d \in Checksums, NEW v \in Nat, Known(k, d, v),
         NEW e \in Checksums, NEW w \in Nat, k = work[s].key, e = work[s].checksum, w = res'[s]
  PROVE  Apart(k, d, v, e, w)'
<1> DEFINE q == work[s]
           old == file[Row(q)]
<1>1. /\ res'[s] \in Stored(file, q) /\ res'[s] \in Nat /\ work' = work
      /\ imported' = (IF q.kind = "import" THEN imported \cup {q.key} ELSE imported)
      /\ nohist' = nohist /\ pc[s] = "store"
  BY StoreFacts DEF Store, modeVars
<1>2. /\ q \in Request /\ q.key \in Keys /\ q.checksum \in Checksums /\ file \in Table
      /\ Row(q) \in Keys \X Checksums /\ Row(q) = <<q.key, q.checksum>>
      /\ q.kind \in {"get", "import"}
  BY <1>1, WorkFacts DEF TypeOK
<1>3. file[<<q.key, d>>] >= v /\ file[<<q.key, d>>] \in Int /\ old \in Nat \cup {NoValue}
  BY <1>2, WriterSeesAll, TableFacts DEF NoValue
<1>4. CASE ~nohist /\ old # NoValue
  <2>1. res'[s] = old
    BY <1>1, <1>2, <1>4, StoredFacts
  <2>2. Known(q.key, q.checksum, res'[s])
    BY <1>2, <2>1 DEF Known
  <2>3. Apart(k, d, v, e, w)
    BY <1>1, <1>2, <2>2 DEF KnownInv, Apart
  <2>4. QED
    BY <1>1, <2>3 DEF Apart
<1>5. CASE nohist \/ old = NoValue
  <2>1. ~nohist => d # q.checksum
    BY <1>2, <1>3, <1>5 DEF NoValue
  <2>2. CASE q.kind = "get"
    <3>1. file[<<q.key, d>>] < res'[s]
      BY <1>1, <1>2, <1>5, <2>2, StoredFacts
    <3>2. v # res'[s]
      BY <1>1, <1>3, <3>1
    <3>3. QED
      BY <1>1, <2>1, <3>2 DEF Apart
  <2>3. CASE q.kind = "import"
    <3>1. q.key \in imported'
      BY <1>1, <2>3
    <3>2. QED
      BY <1>1, <2>1, <3>1 DEF Apart
  <2>4. QED
    BY <1>2, <2>2, <2>3
<1>6. QED
  BY <1>4, <1>5

\* Numbers stay apart.
LEMMA StepKnown ==
  ASSUME TypeOK, HandlerInv, TransactionInv, KeptInv, AnswersKept, KnownInv,
         NEW s \in Servers, NEW c, NEW r, AnyStep(s, c, r)
  PROVE  KnownInv'
<1> SUFFICES ASSUME ~lost', NEW k \in Keys, NEW d \in Checksums, NEW e \in Checksums,
                    NEW v \in Nat, NEW w \in Nat, Known(k, d, v)', Known(k, e, w)'
             PROVE  Apart(k, d, v, e, w)'
  BY DEF KnownInv, Apart
<1>1. ~lost /\ nohist' = nohist /\ imported \subseteq imported'
  BY StepHistory
<1>2. CASE Known(k, d, v) /\ Known(k, e, w)
  BY <1>1, <1>2 DEF KnownInv, Apart
<1>3. CASE ~Store(s)
  BY <1>2, <1>3, KnownShrinks
<1>4. CASE Store(s)
  <2>1. \/ Known(k, d, v)
        \/ k = work[s].key /\ d = work[s].checksum /\ v = res'[s]
    BY <1>4, WriterAddsOne
  <2>2. \/ Known(k, e, w)
        \/ k = work[s].key /\ e = work[s].checksum /\ w = res'[s]
    BY <1>4, WriterAddsOne
  <2>3. CASE ~Known(k, d, v) /\ Known(k, e, w)
    <3>1. Apart(k, e, w, d, v)'
      BY <1>1, <1>4, <2>1, <2>3, WriterKeepsApart
    <3>2. QED
      BY <3>1 DEF Apart
  <2>4. CASE Known(k, d, v) /\ ~Known(k, e, w)
    BY <1>1, <1>4, <2>2, <2>4, WriterKeepsApart
  <2>5. CASE ~Known(k, d, v) /\ ~Known(k, e, w)
    BY <2>1, <2>2, <2>5 DEF Apart
  <2>6. QED
    BY <1>2, <2>3, <2>4, <2>5
<1>5. QED
  BY <1>3, <1>4

\* Every server starts with a table that earlier servers left.
LEMMA InitIInv ==
  ASSUME Init
  PROVE  IInv
<1> USE PRAssumption
<1>1. file \in Table /\ pending = file /\ owner = None /\ file \in Tables
  BY DEF Init, Table, NoValue
<1>2. \A g \in given : \E x \in Keys \X Checksums :
        g = <<x[1], x[2], file[x]>> /\ file[x] # NoValue
  BY DEF Init
<1>3. given \subseteq Keys \X Checksums \X Nat
  BY <1>1, <1>2 DEF Table
<1>4. TypeOK
  BY <1>1, <1>3 DEF Init, TypeOK, NoValue
<1>5. HandlerInv /\ ClientInv /\ TransactionInv /\ KeptInv /\ NeverDecremented
  BY <1>1 DEF Init, HandlerInv, ClientInv, TransactionInv, KeptInv, Answering, NeverDecremented, Numbers
<1>6. \A g \in given : file[<<g[1], g[2]>>] = g[3] /\ g[3] \in Nat
  BY <1>2, <1>3
<1>7. AnswersKept
  <2>1. ASSUME NEW g \in given PROVE file[<<g[1], g[2]>>] >= g[3]
    <3>1. file[<<g[1], g[2]>>] = g[3] /\ g[3] \in Nat
      BY <1>6
    <3>2. QED
      BY <3>1
  <2>2. QED
    BY <2>1 DEF AnswersKept
<1>8. \A k \in Keys, c \in Checksums, v \in Nat : Known(k, c, v) => file[<<k, c>>] = v
  BY <1>1, <1>6 DEF Init, Known, Answering
<1>9. KnownInv
  <2>1. \A k \in Keys, c, d \in Checksums :
          file[<<k, c>>] = file[<<k, d>>] /\ file[<<k, c>>] # -1 => c = d
    BY <1>1
  <2>2. SUFFICES ASSUME NEW k \in Keys, NEW c \in Checksums, NEW d \in Checksums,
                        NEW v \in Nat, NEW w \in Nat, Known(k, c, v), Known(k, d, w)
                 PROVE  (v = w => c = d) /\ (c = d => v = w)
    BY DEF KnownInv
  <2>3. file[<<k, c>>] = v /\ file[<<k, d>>] = w /\ v # -1
    BY <1>8, <2>2
  <2>4. QED
    BY <2>1, <2>3
<1>10. QED
  BY <1>4, <1>5, <1>7, <1>9 DEF IInv

\* Every step keeps the invariant.
LEMMA NextIInv ==
  ASSUME IInv, [Next]_vars
  PROVE  IInv'
<1> USE DEF IInv
<1>1. ASSUME NEW s \in Servers, NEW c, NEW r, AnyStep(s, c, r)
      PROVE  IInv'
  <2>1. TypeOK'
    BY <1>1, StepTypes
  <2>2. QED
    BY <1>1, <2>1, StepHandlers, StepClients, StepTransaction, StepKept, StepAnswers, StepKnown,
       StepFloors
<1>2. CASE UNCHANGED vars
  <2> USE <1>2 DEF vars, modeVars, tableVars, serverVars, clientVars, history
  <2>1. TypeOK'
    BY DEF TypeOK
  <2>2. HandlerInv' /\ ClientInv' /\ TransactionInv'
    BY DEF HandlerInv, ClientInv, TransactionInv
  <2>3. KeptInv' /\ AnswersKept'
    BY DEF KeptInv, Kept, Answering, Row, AnswersKept
  <2>4. KnownInv' /\ NeverDecremented'
    BY DEF KnownInv, Known, Answering, NeverDecremented, Numbers
  <2>5. QED
    BY <2>1, <2>2, <2>3, <2>4
<1>3. CASE \E s \in Servers : Start(s) \/ Stop(s) \/ Crash(s) \/ Step(s)
  BY <1>1, <1>3 DEF AnyStep
<1>4. CASE \E s \in Servers : \/ \E c \in Clients : Take(s, c)
                              \/ \E r \in Request : TakeLate(s, r)
  BY <1>1, <1>4 DEF AnyStep
<1>5. CASE \E c \in Clients : Ask(c) \/ Timeout(c) \/ Retry(c)
  <2>1. PICK c \in Clients : Ask(c) \/ Timeout(c) \/ Retry(c)
    BY <1>5
  <2>2. Home[c] \in Servers
    BY PRAssumption
  <2>3. QED
    BY <1>1, <2>1, <2>2 DEF AnyStep
<1>6. QED
  BY <1>2, <1>3, <1>4, <1>5 DEF Next

\* The strengthened invariant holds in every reachable state.
THEOREM Inductive == Spec => []IInv
BY InitIInv, NextIInv, PTL DEF Spec

\* Two packages of a key that was not imported never get one number, with history a
\* package keeps its number, and what was answered is on disk or about to be: for any
\* servers over one file, clients, imports, retries, stops and crashes.
THEOREM NumbersStayTheirs == Spec => []NumbersKept
<1>1. IInv => NumbersKept
  <2>1. SUFFICES ASSUME IInv PROVE NumbersKept
    OBVIOUS
  <2>2. \A g \in given : /\ g[1] \in Keys /\ g[2] \in Checksums /\ g[3] \in Nat
                         /\ Known(g[1], g[2], g[3])
    BY <2>1, AnswerRow DEF IInv, Known
  <2>3. NumbersDiffer
    BY <2>1, <2>2 DEF IInv, KnownInv, NumbersDiffer
  <2>4. NumbersStay
    BY <2>1, <2>2 DEF IInv, KnownInv, NumbersStay
  <2>5. QED
    BY <2>1, <2>3, <2>4 DEF IInv, NumbersKept
<1>2. QED
  BY <1>1, Inductive, PTL

\* Without history no request is answered with less than what was answered before it
\* was made, unless a server was killed between an answer and its commit.
THEOREM NeverDown == Spec => []NeverDecremented
<1>1. IInv => NeverDecremented
  BY DEF IInv
<1>2. QED
  BY <1>1, Inductive, PTL
=============================================================================
