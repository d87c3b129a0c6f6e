--------------------------- MODULE FetcherProofs ---------------------------
(* For any tasks, files, premirrors and mirrors, and any number of kills and of *)
(* changes by users, as long as a file that is replaced in a mirror is newer    *)
(* than the stamps of the one before (~DatesKept): DL_DIR is left right by      *)
(* every fetch, a fetch that returns has the file the recipe asks for,          *)
(* do_unpack finds it, and a fetch that fails has tried what there is.          *)
(*                                                                              *)
(* All of it rests on what the one task that has the lock has found out at each *)
(* place of download() (PhaseInv, SourceInv): the checks are made at other      *)
(* places than the ones that rely on them, and between them are up to three     *)
(* calls that rename the file or remove the stamp.                              *)
EXTENDS Fetcher, TLAPS, SequenceTheorems

\* There is a file, and it is the recipe's if that has a checksum.
Matches(t) == Exists /\ ~Mismatch(t, Content)

\* The places at which a source has been chosen and nothing is obtained from it yet.
Fetching == {"source", "download", "downloading", "clean"}

\* What a task knows of localpath and of the stamp at its place in download().
PhaseInv(t) ==
  /\ pc[t] \in {"source", "download"} => ~Exists
  /\ pc[t] \in Fetching => stamp = None
  /\ pc[t] = "verify" =>
       /\ at[t] \in Verifying
       /\ at[t] = "recheck" => Matches(t)
       /\ at[t] = "mirror" => ~Exists /\ n[t] \in Sources
  /\ pc[t] = "store" => at[t] \in {"start", "recheck"} \cup Updating /\ Matches(t)
  /\ pc[t] = "unstamp" => at[t] \in {"start", "clean"} \cup Updating /\ file = None
  /\ pc[t] = "update" => at[t] \in Updating
  /\ pc[t] \in {"final", "update"} => Exists /\ (stamp # None => stamp = Content /\ Matches(t))
  /\ pc[t] \in {"download", "downloading", "clean"} => n[t] \in Sources
  /\ pc[t] \in {"update", "store", "unstamp"} /\ at[t] \in {"filemirror", "premirror", "upstream"}
       => n[t] \in Sources

\* While no fetch was killed, part of a file is only there during a download.
PartialInv ==
  kills = 0 /\ file = Partial => \E t \in Tasks : pc[t] \in {"downloading", "clean"}

\* Between do_fetch and do_unpack others leave the file, or none.
LeftForUnpack ==
  \A t \in Tasks :
    /\ lock = None /\ kills = 0 /\ pc[t] = "fetched" /\ expected[t] # None
    /\ \A u \in Tasks : expected[u] = expected[t]
    => Content \in {expected[t], None}

\* No source before m gave the right file, and one was left out only when an earlier
\* one of its list gave a wrong file.
TriedBefore(t, m) ==
  \A s \in Sources :
    s < m =>
      /\ answer[t][s] # expected[t]
      /\ answer[t][s] = "untried" =>
           \E r \in 1..(s - 1) : Plan[r].list = Plan[s].list /\ answer[t][r] \in Contents

UntriedFrom(t, m) == \A s \in Sources : s >= m => answer[t][s] = "untried"

\* The source that is being tried gave a wrong file.
WrongAnswer(t) ==
  /\ TriedBefore(t, n[t]) /\ UntriedFrom(t, n[t] + 1)
  /\ n[t] \in Sources /\ answer[t][n[t]] \in Contents \ {expected[t]}

\* What a task that has a checksum knows of the sources.
SourceInv(t) ==
  expected[t] # None =>
    /\ pc[t] \in {"verify", "unstamp"} /\ at[t] = "start" => UntriedFrom(t, 1)
    /\ \/ pc[t] \in {"source", "download", "downloading"}
       \/ pc[t] = "verify" /\ at[t] = "mirror"
       => TriedBefore(t, n[t]) /\ UntriedFrom(t, n[t])
    /\ pc[t] = "clean" =>
         /\ TriedBefore(t, n[t]) /\ UntriedFrom(t, n[t] + 1)
         /\ answer[t][n[t]] \notin {expected[t], "untried"}
    /\ pc[t] \in {"final", "update"} /\ Mismatch(t, Content) =>
         /\ WrongAnswer(t)
         /\ pc[t] = "update" /\ at[t] = "premirror" => n[t] < Upstream
         /\ pc[t] = "final" \/ at[t] = "final" => n[t] > Upstream
    /\ pc[t] = "unstamp" /\ at[t] \in Updating =>
         /\ WrongAnswer(t)
         /\ at[t] = "premirror" => n[t] < Upstream
         /\ at[t] = "final" => n[t] > Upstream
    /\ pc[t] = "failed" => TriedBefore(t, Len(Plan) + 1)

DiskInv == StampTrue /\ PartialInv /\ \A t \in Tasks : PhaseInv(t)

IInv ==
  /\ TypeOK /\ DiskInv
  /\ LeftForUnpack /\ UnpackedRight
  /\ \A t \in Tasks : SourceInv(t)

\* What Step adds to the checks: the answers are forgotten when the fetch returns.
Forgets(t) == answer' = IF pc'[t] = "fetched" THEN [answer EXCEPT ![t] = NoAnswers] ELSE answer
\* What a step of download() leaves alone.
Keeps == UNCHANGED <<got, recipeVars, kills, changes>>

\* What a step of download() or clean() does to the file: at the end it is the recipe's,
\* or there is none, and only a download leaves a part.
FileRight(t) ==
  /\ pc'[t] \in AtRest /\ expected[t] # None => Content' \in {expected[t], None}
  /\ pc'[t] = "fetched" => Content' # None /\ (expected[t] # None => Content' = expected[t])
  /\ pc'[t] # "unpacked"
  /\ file' = Partial =>
       pc'[t] \in {"downloading", "clean"} \/ (file = Partial /\ pc[t] \notin {"downloading", "clean"})

\* What the prover has to be told about \o, once: ...
LEMMA ConcatFacts ==
  ASSUME NEW S, NEW a \in Seq(S), NEW b \in Seq(S)
  PROVE  /\ a \o b \in Seq(S) /\ Len(a \o b) = Len(a) + Len(b)
OBVIOUS

\* ... and for one more element.
LEMMA ConcatOne ==
  ASSUME NEW S, NEW a \in Seq(S), NEW u \in S
  PROVE  (a \o <<u>>)[Len(a) + 1] = u
OBVIOUS

\* Plan is the premirrors, the URL and the mirrors.
LEMMA PlanFacts ==
  /\ Upstream \in Nat \ {0} /\ Len(Plan) \in Nat /\ Sources = 1..Len(Plan)
  /\ Upstream \in Sources /\ Plan[Upstream].kind = "net"
  /\ \A s \in Sources :
       /\ s < Upstream => Plan[s].list = "premirror"
       /\ s > Upstream => Plan[s].list = "mirror"
<1> DEFINE pre == [i \in DOMAIN Premirrors |-> [list |-> "premirror", kind |-> Premirrors[i]]]
           up  == <<[list |-> "upstream", kind |-> "net"]>>
           mir == [i \in DOMAIN Mirrors |-> [list |-> "mirror", kind |-> Mirrors[i]]]
           R   == [list : {"premirror", "upstream", "mirror"}, kind : {"net", "file"}]
<1>0. /\ Premirrors \in [1..Len(Premirrors) -> {"net", "file"}] /\ Len(Premirrors) \in Nat
      /\ Mirrors \in [1..Len(Mirrors) -> {"net", "file"}] /\ Len(Mirrors) \in Nat
  BY FetcherAssumption, LenProperties
<1>1. pre \in Seq(R) /\ Len(pre) = Len(Premirrors) /\ \A i \in 1..Len(pre) : pre[i].list = "premirror"
  <2>1. pre \in [1..Len(Premirrors) -> R]
    BY <1>0
  <2>2. pre \in Seq(R)
    BY <2>1, <1>0, SeqDef
  <2>3. Len(pre) = Len(Premirrors)
    BY <2>1, <2>2, <1>0, LenProperties
  <2>4. QED
    BY <2>2, <2>3, <1>0
<1>2. mir \in Seq(R) /\ Len(mir) = Len(Mirrors) /\ \A i \in 1..Len(mir) : mir[i].list = "mirror"
  <2>1. mir \in [1..Len(Mirrors) -> R]
    BY <1>0
  <2>2. mir \in Seq(R)
    BY <2>1, <1>0, SeqDef
  <2>3. Len(mir) = Len(Mirrors)
    BY <2>1, <2>2, <1>0, LenProperties
  <2>4. QED
    BY <2>2, <2>3, <1>0
<1>3. up \in Seq(R) /\ Len(up) = 1 /\ up[1].kind = "net"
  OBVIOUS
<1>4. Plan = (pre \o up) \o mir
  BY DEF Plan
<1> HIDE DEF pre, up, mir, R
<1>5. /\ pre \o up \in Seq(R) /\ Len(pre \o up) = Upstream
      /\ \A i \in 1..Len(Premirrors) : (pre \o up)[i] = pre[i]
      /\ (pre \o up)[Upstream] = up[1]
  <2>1. pre \o up \in Seq(R) /\ Len(pre \o up) = Upstream
    <3>1. pre \in Seq(R) /\ up \in Seq(R) /\ Len(pre) = Len(Premirrors) /\ Len(up) = 1
      BY <1>1, <1>3
    <3>2. pre \o up \in Seq(R) /\ Len(pre \o up) = Len(pre) + Len(up)
      BY <3>1, ConcatFacts
    <3>3. QED
      BY <3>1, <3>2 DEF Upstream
  <2>2. ASSUME NEW i \in 1..Len(Premirrors) PROVE (pre \o up)[i] = pre[i]
    BY <1>0, <1>1, <1>3
  <2>3. (pre \o up)[Upstream] = up[1]
    <3>1. up = <<up[1]>> /\ up[1] \in R
      BY DEF up, R
    <3>2. (pre \o up)[Len(pre) + 1] = up[1]
      BY <3>1, <1>1, ConcatOne
    <3>3. QED
      BY <3>2, <1>1 DEF Upstream
  <2>4. QED
    BY <2>1, <2>2, <2>3
<1>6. /\ Plan \in Seq(R) /\ Len(Plan) = Upstream + Len(Mirrors)
      /\ \A i \in 1..Upstream : Plan[i] = (pre \o up)[i]
      /\ \A i \in 1..Len(Mirrors) : Plan[Upstream + i] = mir[i]
  <2> DEFINE beg == pre \o up
  <2>0. beg \in Seq(R) /\ Len(beg) = Upstream /\ Upstream \in Nat /\ Plan = beg \o mir
    BY <1>0, <1>4, <1>5 DEF Upstream
  <2> HIDE DEF beg
  <2>1. Plan \in Seq(R) /\ Len(Plan) = Upstream + Len(Mirrors)
    <3>1. beg \in Seq(R) /\ mir \in Seq(R) /\ Len(mir) = Len(Mirrors)
      BY <2>0, <1>2
    <3>2. beg \o mir \in Seq(R) /\ Len(beg \o mir) = Len(beg) + Len(mir)
      BY <3>1, ConcatFacts
    <3>3. QED
      BY <3>1, <3>2, <2>0
  <2>2. ASSUME NEW i \in 1..Upstream PROVE Plan[i] = beg[i]
    BY <2>0, <1>2
  <2>3. ASSUME NEW i \in 1..Len(Mirrors) PROVE Plan[Upstream + i] = mir[i]
    BY <1>0, <2>0, <1>2
  <2>4. QED
    BY <2>1, <2>2, <2>3 DEF beg
<1>7. Upstream \in Nat \ {0} /\ Len(Plan) \in Nat /\ Sources = 1..Len(Plan) /\ Upstream \in Sources
  <2>1. Upstream \in Nat \ {0} /\ Len(Plan) \in Nat /\ Upstream \in 1..Len(Plan)
    BY <1>0, <1>6 DEF Upstream
  <2>2. DOMAIN Plan = 1..Len(Plan)
    BY <1>6, LenProperties
  <2>3. QED
    BY <2>1, <2>2 DEF Sources
<1>8. Plan[Upstream].kind = "net"
  BY <1>3, <1>5, <1>6, <1>7
<1>9. ASSUME NEW s \in Sources, s < Upstream PROVE Plan[s].list = "premirror"
  <2>1. s \in 1..Upstream /\ s \in 1..Len(Premirrors)
    BY <1>0, <1>7, <1>9 DEF Upstream
  <2>2. Plan[s] = pre[s]
    BY <2>1, <1>5, <1>6
  <2>3. QED
    BY <2>1, <2>2, <1>1
<1>10. ASSUME NEW s \in Sources, s > Upstream PROVE Plan[s].list = "mirror"
  <2>1. s - Upstream \in 1..Len(Mirrors) /\ s = Upstream + (s - Upstream)
    BY <1>0, <1>6, <1>7, <1>10
  <2>2. QED
    BY <2>1, <1>2, <1>6
<1>11. QED
  BY <1>7, <1>8, <1>9, <1>10

\* Where download() goes on, place by place: after verify_donestamp returned False, ...
LEMMA UnverifiedCases ==
  ASSUME NEW t \in Tasks, at[t] \in Verifying, Unverified(t)
  PROVE  \/ at[t] = "start" /\ TryNext(t, 1)
         \/ at[t] = "mirror" /\ Goto(t, "download") /\ UNCHANGED <<at, n, lock>>
         \/ at[t] = "recheck" /\ Goto(t, "final") /\ UNCHANGED <<at, n, lock>>
BY DEF Unverified, Verifying

\* ... after it returned True or update_stamp returned, ...
LEMMA VerifiedCases ==
  ASSUME NEW t \in Tasks, at[t] \in Verifying \cup Updating, Verified(t)
  PROVE  \/ at[t] \in {"start", "premirror"} /\ GotoAt(t, "verify", "recheck") /\ UNCHANGED <<n, lock>>
         \/ /\ at[t] \in {"mirror", "filemirror"} /\ n[t] < Upstream
            /\ GotoAt(t, "update", "premirror") /\ UNCHANGED <<n, lock>>
         \/ /\ at[t] \in {"mirror", "filemirror"} /\ ~(n[t] < Upstream)
            /\ Goto(t, "final") /\ UNCHANGED <<at, n, lock>>
         \/ at[t] \in {"recheck", "upstream"} /\ Goto(t, "final") /\ UNCHANGED <<at, n, lock>>
         \/ at[t] = "final" /\ End(t, "fetched")
BY DEF Verified, Verifying, Updating, Obtained

\* ... after wget has finished, ...
LEMMA DownloadedCases ==
  ASSUME NEW t \in Tasks, Downloaded(t)
  PROVE  \/ n[t] = Upstream /\ GotoAt(t, "update", "upstream") /\ UNCHANGED <<n, lock>>
         \/ n[t] < Upstream /\ GotoAt(t, "update", "premirror") /\ UNCHANGED <<n, lock>>
         \/ /\ n[t] # Upstream /\ ~(n[t] < Upstream)
            /\ Goto(t, "final") /\ UNCHANGED <<at, n, lock>>
BY DEF Downloaded, Obtained

\* ... after all sources, ...
LEMMA FinalCases ==
  ASSUME NEW t \in Tasks, Final(t)
  PROVE  \/ Exists /\ GotoAt(t, "update", "final") /\ UNCHANGED <<n, lock>>
         \/ ~Exists /\ End(t, "failed")
BY DEF Final

\* ... after update_stamp raised ChecksumError, ...
LEMMA RejectedCases ==
  ASSUME NEW t \in Tasks, at[t] \in Updating, Rejected(t)
  PROVE  \/ at[t] = "filemirror" /\ TryNext(t, n[t] + 1)
         \/ at[t] = "premirror" /\ TryNext(t, Upstream)
         \/ at[t] = "upstream" /\ Goto(t, "clean") /\ UNCHANGED <<at, n, lock>>
         \/ at[t] = "final" /\ End(t, "failed")
BY DEF Rejected, Updating

\* ... and after the stamp was removed.
LEMMA UnstampCases ==
  ASSUME NEW t \in Tasks, at[t] \in {"start", "clean"} \cup Updating, Unstamp(t)
  PROVE  \/ at[t] = "start" /\ TryNext(t, 1)
         \/ at[t] = "filemirror" /\ TryNext(t, n[t] + 1)
         \/ at[t] = "premirror" /\ TryNext(t, Upstream)
         \/ at[t] = "upstream" /\ Goto(t, "clean") /\ UNCHANGED <<at, n, lock>>
         \/ at[t] = "final" /\ End(t, "failed")
         \/ at[t] = "clean" /\ End(t, "idle")
<1>1. CASE at[t] = "start"
  <2>1. Unverified(t)
    BY <1>1 DEF Unstamp, Verifying, Updating
  <2>2. QED
    BY <2>1, <1>1, UnverifiedCases DEF Verifying
<1>2. CASE at[t] \in Updating
  <2>1. Rejected(t)
    BY <1>2 DEF Unstamp, Verifying, Updating
  <2>2. QED
    BY <2>1, <1>2, RejectedCases DEF Updating
<1>3. CASE at[t] = "clean"
  BY <1>3 DEF Unstamp, Verifying, Updating
<1>4. QED
  BY <1>1, <1>2, <1>3

\* The numbers of sources that download() computes are in range.
LEMMA SourceNumbers ==
  /\ 1 \in 1..(Len(Plan) + 1) /\ Upstream \in 1..(Len(Plan) + 1)
  /\ \A m \in Sources : m \in 1..(Len(Plan) + 1) /\ m + 1 \in 1..(Len(Plan) + 1)
  /\ NoAnswers \in [Sources -> Contents \cup {"untried", "failed"}]
BY PlanFacts DEF NoAnswers

\* What is no source comes after them.
LEMMA AfterSources == \A m \in 1..(Len(Plan) + 1) : m \notin Sources => m = Len(Plan) + 1
BY PlanFacts

\* The types, and the lock that every task has which is in download() or clean().
LEMMA StampingType ==
  ASSUME TypeOK, NEW t \in Tasks, PhaseInv(t), Stamping(t), Forgets(t), Keeps
  PROVE  TypeOK' /\ pc[t] \notin AtRest
<1> USE FetcherAssumption, SourceNumbers DEF TypeOK, PhaseInv, Forgets, Keeps, Goto, GotoAt, End,
        diskVars,
        recipeVars, AtRest, Verifying, Updating
<1>1. CASE VerifyMissing(t)
  <2>0. pc[t] = "verify" /\ ~Exists /\ stamp' = None /\ newer' = FALSE /\ UNCHANGED <<file, mirror>>
    BY <1>1 DEF VerifyMissing
  <2>1. \/ at[t] = "start" /\ TryNext(t, 1)
        \/ at[t] = "mirror" /\ Goto(t, "download") /\ UNCHANGED <<at, n, lock>>
        \/ at[t] = "recheck" /\ Goto(t, "final") /\ UNCHANGED <<at, n, lock>>
    BY <1>1, <2>0, UnverifiedCases DEF VerifyMissing
  <2>2. CASE at[t] = "start" /\ TryNext(t, 1)
    BY <2>0, <2>2 DEF TryNext
  <2>3. CASE at[t] = "mirror" /\ Goto(t, "download") /\ UNCHANGED <<at, n, lock>>
    BY <2>0, <2>3 DEF TryNext
  <2>4. CASE at[t] = "recheck" /\ Goto(t, "final") /\ UNCHANGED <<at, n, lock>>
    BY <2>0, <2>4 DEF TryNext
  <2>5. QED
    BY <2>1, <2>2, <2>3, <2>4
<1>2. CASE VerifyStamped(t)
  <2>0. pc[t] = "verify" /\ Exists /\ Precomputed # None /\ ~Mismatch(t, Precomputed) /\ UNCHANGED diskVars
    BY <1>2 DEF VerifyStamped
  <2>1. \/ at[t] \in {"start", "premirror"} /\ GotoAt(t, "verify", "recheck") /\ UNCHANGED <<n, lock>>
        \/ /\ at[t] \in {"mirror", "filemirror"} /\ n[t] < Upstream
           /\ GotoAt(t, "update", "premirror") /\ UNCHANGED <<n, lock>>
        \/ /\ at[t] \in {"mirror", "filemirror"} /\ ~(n[t] < Upstream)
           /\ Goto(t, "final") /\ UNCHANGED <<at, n, lock>>
        \/ at[t] \in {"recheck", "upstream"} /\ Goto(t, "final") /\ UNCHANGED <<at, n, lock>>
        \/ at[t] = "final" /\ End(t, "fetched")
    BY <1>2, <2>0, VerifiedCases DEF VerifyStamped
  <2>2. CASE at[t] \in {"start", "premirror"} /\ GotoAt(t, "verify", "recheck") /\ UNCHANGED <<n, lock>>
    BY <2>0, <2>2
  <2>3. CASE /\ at[t] \in {"mirror", "filemirror"} /\ n[t] < Upstream
             /\ GotoAt(t, "update", "premirror") /\ UNCHANGED <<n, lock>>
    BY <2>0, <2>3
  <2>4. CASE /\ at[t] \in {"mirror", "filemirror"} /\ ~(n[t] < Upstream)
             /\ Goto(t, "final") /\ UNCHANGED <<at, n, lock>>
    BY <2>0, <2>4
  <2>5. CASE at[t] \in {"recheck", "upstream"} /\ Goto(t, "final") /\ UNCHANGED <<at, n, lock>>
    BY <2>0, <2>5
  <2>6. CASE at[t] = "final" /\ End(t, "fetched")
    BY <2>0, <2>6
  <2>7. QED
    BY <2>1, <2>2, <2>3, <2>4, <2>5, <2>6
<1>3. CASE VerifyFile(t)
  BY <1>3 DEF VerifyFile, OpenStamp
<1>4. CASE VerifyBad(t)
  BY <1>4 DEF VerifyBad, RenameBad
<1>5. CASE Touch(t)
  <2>0. pc[t] = "update" /\ stamp # None /\ newer' = TRUE /\ UNCHANGED <<file, mirror, stamp>>
    BY <1>5 DEF Touch
  <2>1. \/ at[t] \in {"start", "premirror"} /\ GotoAt(t, "verify", "recheck") /\ UNCHANGED <<n, lock>>
        \/ /\ at[t] \in {"mirror", "filemirror"} /\ n[t] < Upstream
           /\ GotoAt(t, "update", "premirror") /\ UNCHANGED <<n, lock>>
        \/ /\ at[t] \in {"mirror", "filemirror"} /\ ~(n[t] < Upstream)
           /\ Goto(t, "final") /\ UNCHANGED <<at, n, lock>>
        \/ at[t] \in {"recheck", "upstream"} /\ Goto(t, "final") /\ UNCHANGED <<at, n, lock>>
        \/ at[t] = "final" /\ End(t, "fetched")
    BY <1>5, <2>0, VerifiedCases DEF Touch
  <2>2. CASE at[t] \in {"start", "premirror"} /\ GotoAt(t, "verify", "recheck") /\ UNCHANGED <<n, lock>>
    BY <2>0, <2>2
  <2>3. CASE /\ at[t] \in {"mirror", "filemirror"} /\ n[t] < Upstream
             /\ GotoAt(t, "update", "premirror") /\ UNCHANGED <<n, lock>>
    BY <2>0, <2>3
  <2>4. CASE /\ at[t] \in {"mirror", "filemirror"} /\ ~(n[t] < Upstream)
             /\ Goto(t, "final") /\ UNCHANGED <<at, n, lock>>
    BY <2>0, <2>4
  <2>5. CASE at[t] \in {"recheck", "upstream"} /\ Goto(t, "final") /\ UNCHANGED <<at, n, lock>>
    BY <2>0, <2>5
  <2>6. CASE at[t] = "final" /\ End(t, "fetched")
    BY <2>0, <2>6
  <2>7. QED
    BY <2>1, <2>2, <2>3, <2>4, <2>5, <2>6
<1>6. CASE Update(t)
  BY <1>6 DEF Update, OpenStamp
<1>7. CASE UpdateBad(t)
  BY <1>7 DEF UpdateBad, RenameBad
<1>8. CASE RaiseNoChecksum(t)
  BY <1>8 DEF RaiseNoChecksum
<1>9. CASE Store(t)
  <2>0. pc[t] = "store" /\ stamp' = Content /\ newer' = TRUE /\ UNCHANGED <<file, mirror>>
    BY <1>9 DEF Store
  <2>1. \/ at[t] \in {"start", "premirror"} /\ GotoAt(t, "verify", "recheck") /\ UNCHANGED <<n, lock>>
        \/ /\ at[t] \in {"mirror", "filemirror"} /\ n[t] < Upstream
           /\ GotoAt(t, "update", "premirror") /\ UNCHANGED <<n, lock>>
        \/ /\ at[t] \in {"mirror", "filemirror"} /\ ~(n[t] < Upstream)
           /\ Goto(t, "final") /\ UNCHANGED <<at, n, lock>>
        \/ at[t] \in {"recheck", "upstream"} /\ Goto(t, "final") /\ UNCHANGED <<at, n, lock>>
        \/ at[t] = "final" /\ End(t, "fetched")
    BY <1>9, <2>0, VerifiedCases DEF Store
  <2>2. CASE at[t] \in {"start", "premirror"} /\ GotoAt(t, "verify", "recheck") /\ UNCHANGED <<n, lock>>
    BY <2>0, <2>2 DEF Content, Exists, Matches
  <2>3. CASE /\ at[t] \in {"mirror", "filemirror"} /\ n[t] < Upstream
             /\ GotoAt(t, "update", "premirror") /\ UNCHANGED <<n, lock>>
    BY <2>0, <2>3 DEF Content, Exists, Matches
  <2>4. CASE /\ at[t] \in {"mirror", "filemirror"} /\ ~(n[t] < Upstream)
             /\ Goto(t, "final") /\ UNCHANGED <<at, n, lock>>
    BY <2>0, <2>4 DEF Content, Exists, Matches
  <2>5. CASE at[t] \in {"recheck", "upstream"} /\ Goto(t, "final") /\ UNCHANGED <<at, n, lock>>
    BY <2>0, <2>5 DEF Content, Exists, Matches
  <2>6. CASE at[t] = "final" /\ End(t, "fetched")
    BY <2>0, <2>6 DEF Content, Exists, Matches
  <2>7. QED
    BY <2>1, <2>2, <2>3, <2>4, <2>5, <2>6
<1>10. CASE StoreFails(t)
  BY <1>10 DEF StoreFails
<1>11. CASE Unstamp(t)
  <2>0. /\ pc[t] = "unstamp" /\ stamp' = None /\ newer' = FALSE /\ UNCHANGED file
        /\ mirror' \in {None, mirror}
    BY <1>11 DEF Unstamp
  <2>1. \/ at[t] = "start" /\ TryNext(t, 1)
        \/ at[t] = "filemirror" /\ TryNext(t, n[t] + 1)
        \/ at[t] = "premirror" /\ TryNext(t, Upstream)
        \/ at[t] = "upstream" /\ Goto(t, "clean") /\ UNCHANGED <<at, n, lock>>
        \/ at[t] = "final" /\ End(t, "failed")
        \/ at[t] = "clean" /\ End(t, "idle")
    BY <1>11, <2>0, UnstampCases
  <2>2. CASE at[t] = "start" /\ TryNext(t, 1)
    BY <2>0, <2>2 DEF TryNext
  <2>3. CASE at[t] = "filemirror" /\ TryNext(t, n[t] + 1)
    BY <2>0, <2>3 DEF TryNext
  <2>4. CASE at[t] = "premirror" /\ TryNext(t, Upstream)
    BY <2>0, <2>4 DEF TryNext
  <2>5. CASE at[t] = "upstream" /\ Goto(t, "clean") /\ UNCHANGED <<at, n, lock>>
    BY <2>0, <2>5 DEF TryNext
  <2>6. CASE at[t] = "final" /\ End(t, "failed")
    BY <2>0, <2>6 DEF TryNext
  <2>7. CASE at[t] = "clean" /\ End(t, "idle")
    BY <2>0, <2>7 DEF TryNext
  <2>8. QED
    BY <2>1, <2>2, <2>3, <2>4, <2>5, <2>6, <2>7
<1>12. QED
  BY <1>1, <1>2, <1>3, <1>4, <1>5, <1>6, <1>7, <1>8, <1>9, <1>10, <1>11 DEF Stamping, Sourcing

\* The same for the steps that ask the sources.
LEMMA SourcingType ==
  ASSUME TypeOK, NEW t \in Tasks, PhaseInv(t), Sourcing(t), Keeps
  PROVE  TypeOK' /\ pc[t] \notin AtRest
<1> USE FetcherAssumption, SourceNumbers DEF TypeOK, PhaseInv, Forgets, Keeps, Goto, GotoAt, End,
        diskVars,
        recipeVars, AtRest, Verifying, Updating
<1>1. CASE NetSource(t)
  <2>1. /\ pc[t] = "source" /\ UNCHANGED <<diskVars, n, lock, answer>>
        /\ \/ Goto(t, "download") /\ UNCHANGED at
           \/ GotoAt(t, "verify", "mirror")
    BY <1>1 DEF NetSource
  <2>2. CASE Goto(t, "download") /\ UNCHANGED at
    BY <2>1, <2>2
  <2>3. CASE GotoAt(t, "verify", "mirror")
    BY <2>1, <2>3
  <2>4. QED
    BY <2>1, <2>2, <2>3
<1>2. CASE FileMissing(t)
  BY <1>2 DEF FileMissing, TryNext, Answered
<1>3. CASE FileSource(t)
  BY <1>3 DEF FileSource, Answered, NewFile
<1>4. CASE NoSource(t)
  BY <1>4 DEF NoSource
<1>5. CASE Download(t)
  BY <1>5 DEF Download
<1>6. CASE Downloaded(t)
  <2>0. PICK c \in Contents :
          pc[t] = "downloading" /\ UNCHANGED <<mirror, stamp>> /\ NewFile /\ file' = c /\ Answered(t, c)
    BY <1>6 DEF Downloaded
  <2>1. \/ n[t] = Upstream /\ GotoAt(t, "update", "upstream") /\ UNCHANGED <<n, lock>>
        \/ n[t] < Upstream /\ GotoAt(t, "update", "premirror") /\ UNCHANGED <<n, lock>>
        \/ /\ n[t] # Upstream /\ ~(n[t] < Upstream)
           /\ Goto(t, "final") /\ UNCHANGED <<at, n, lock>>
    BY <1>6, <2>0, DownloadedCases
  <2>2. CASE n[t] = Upstream /\ GotoAt(t, "update", "upstream") /\ UNCHANGED <<n, lock>>
    BY <2>0, <2>2 DEF Answered, NewFile
  <2>3. CASE n[t] < Upstream /\ GotoAt(t, "update", "premirror") /\ UNCHANGED <<n, lock>>
    BY <2>0, <2>3 DEF Answered, NewFile
  <2>4. CASE /\ n[t] # Upstream /\ ~(n[t] < Upstream)
             /\ Goto(t, "final") /\ UNCHANGED <<at, n, lock>>
    BY <2>0, <2>4 DEF Answered, NewFile
  <2>5. QED
    BY <2>1, <2>2, <2>3, <2>4
<1>7. CASE DownloadFails(t)
  BY <1>7 DEF DownloadFails, Answered
<1>8. CASE Clean(t)
  BY <1>8 DEF Clean, TryNext
<1>9. CASE Final(t)
  <2>0. pc[t] = "final" /\ UNCHANGED <<diskVars, answer>>
    BY <1>9 DEF Final
  <2>1. \/ Exists /\ GotoAt(t, "update", "final") /\ UNCHANGED <<n, lock>>
        \/ ~Exists /\ End(t, "failed")
    BY <1>9, <2>0, FinalCases
  <2>2. CASE Exists /\ GotoAt(t, "update", "final") /\ UNCHANGED <<n, lock>>
    BY <2>0, <2>2
  <2>3. CASE ~Exists /\ End(t, "failed")
    BY <2>0, <2>3
  <2>4. QED
    BY <2>1, <2>2, <2>3
<1>10. QED
  BY <1>1, <1>2, <1>3, <1>4, <1>5, <1>6, <1>7, <1>8, <1>9 DEF Stamping, Sourcing

\* Checks, renames and stamps keep what is known of the file and its stamp.
LEMMA StampingDisk ==
  ASSUME TypeOK, StampTrue, NEW t \in Tasks, PhaseInv(t), Stamping(t), Forgets(t), Keeps
  PROVE  StampTrue' /\ PhaseInv(t)' /\ FileRight(t)
<1> USE FetcherAssumption, SourceNumbers DEF TypeOK, StampTrue, PhaseInv, FileRight, Matches, Mismatch,
        NoChecksum, Precomputed, Checksum, Content, Exists, Fetching, Forgets, Keeps, Goto, GotoAt,
        End, diskVars,
        recipeVars, AtRest, Verifying, Updating
<1>1. CASE VerifyMissing(t)
  <2>0. pc[t] = "verify" /\ ~Exists /\ stamp' = None /\ newer' = FALSE /\ UNCHANGED <<file, mirror>>
    BY <1>1 DEF VerifyMissing
  <2>1. \/ at[t] = "start" /\ TryNext(t, 1)
        \/ at[t] = "mirror" /\ Goto(t, "download") /\ UNCHANGED <<at, n, lock>>
        \/ at[t] = "recheck" /\ Goto(t, "final") /\ UNCHANGED <<at, n, lock>>
    BY <1>1, <2>0, UnverifiedCases DEF VerifyMissing
  <2>2. CASE at[t] = "start" /\ TryNext(t, 1)
    BY <2>0, <2>2 DEF TryNext
  <2>3. CASE at[t] = "mirror" /\ Goto(t, "download") /\ UNCHANGED <<at, n, lock>>
    BY <2>0, <2>3 DEF TryNext
  <2>4. CASE at[t] = "recheck" /\ Goto(t, "final") /\ UNCHANGED <<at, n, lock>>
    BY <2>0, <2>4 DEF TryNext
  <2>5. QED
    BY <2>1, <2>2, <2>3, <2>4
<1>2. CASE VerifyStamped(t)
  <2>0. pc[t] = "verify" /\ Exists /\ Precomputed # None /\ ~Mismatch(t, Precomputed) /\ UNCHANGED diskVars
    BY <1>2 DEF VerifyStamped
  <2>1. \/ at[t] \in {"start", "premirror"} /\ GotoAt(t, "verify", "recheck") /\ UNCHANGED <<n, lock>>
        \/ /\ at[t] \in {"mirror", "filemirror"} /\ n[t] < Upstream
           /\ GotoAt(t, "update", "premirror") /\ UNCHANGED <<n, lock>>
        \/ /\ at[t] \in {"mirror", "filemirror"} /\ ~(n[t] < Upstream)
           /\ Goto(t, "final") /\ UNCHANGED <<at, n, lock>>
        \/ at[t] \in {"recheck", "upstream"} /\ Goto(t, "final") /\ UNCHANGED <<at, n, lock>>
        \/ at[t] = "final" /\ End(t, "fetched")
    BY <1>2, <2>0, VerifiedCases DEF VerifyStamped
  <2>2. CASE at[t] \in {"start", "premirror"} /\ GotoAt(t, "verify", "recheck") /\ UNCHANGED <<n, lock>>
    BY <2>0, <2>2
  <2>3. CASE /\ at[t] \in {"mirror", "filemirror"} /\ n[t] < Upstream
             /\ GotoAt(t, "update", "premirror") /\ UNCHANGED <<n, lock>>
    BY <2>0, <2>3
  <2>4. CASE /\ at[t] \in {"mirror", "filemirror"} /\ ~(n[t] < Upstream)
             /\ Goto(t, "final") /\ UNCHANGED <<at, n, lock>>
    BY <2>0, <2>4
  <2>5. CASE at[t] \in {"recheck", "upstream"} /\ Goto(t, "final") /\ UNCHANGED <<at, n, lock>>
    BY <2>0, <2>5
  <2>6. CASE at[t] = "final" /\ End(t, "fetched")
    BY <2>0, <2>6
  <2>7. QED
    BY <2>1, <2>2, <2>3, <2>4, <2>5, <2>6
<1>3. CASE VerifyFile(t)
  BY <1>3 DEF VerifyFile, OpenStamp
<1>4. CASE VerifyBad(t)
  BY <1>4 DEF VerifyBad, RenameBad
<1>5. CASE Touch(t)
  <2>0. pc[t] = "update" /\ stamp # None /\ newer' = TRUE /\ UNCHANGED <<file, mirror, stamp>>
    BY <1>5 DEF Touch
  <2>1. \/ at[t] \in {"start", "premirror"} /\ GotoAt(t, "verify", "recheck") /\ UNCHANGED <<n, lock>>
        \/ /\ at[t] \in {"mirror", "filemirror"} /\ n[t] < Upstream
           /\ GotoAt(t, "update", "premirror") /\ UNCHANGED <<n, lock>>
        \/ /\ at[t] \in {"mirror", "filemirror"} /\ ~(n[t] < Upstream)
           /\ Goto(t, "final") /\ UNCHANGED <<at, n, lock>>
        \/ at[t] \in {"recheck", "upstream"} /\ Goto(t, "final") /\ UNCHANGED <<at, n, lock>>
        \/ at[t] = "final" /\ End(t, "fetched")
    BY <1>5, <2>0, VerifiedCases DEF Touch
  <2>2. CASE at[t] \in {"start", "premirror"} /\ GotoAt(t, "verify", "recheck") /\ UNCHANGED <<n, lock>>
    BY <2>0, <2>2
  <2>3. CASE /\ at[t] \in {"mirror", "filemirror"} /\ n[t] < Upstream
             /\ GotoAt(t, "update", "premirror") /\ UNCHANGED <<n, lock>>
    BY <2>0, <2>3
  <2>4. CASE /\ at[t] \in {"mirror", "filemirror"} /\ ~(n[t] < Upstream)
             /\ Goto(t, "final") /\ UNCHANGED <<at, n, lock>>
    BY <2>0, <2>4
  <2>5. CASE at[t] \in {"recheck", "upstream"} /\ Goto(t, "final") /\ UNCHANGED <<at, n, lock>>
    BY <2>0, <2>5
  <2>6. CASE at[t] = "final" /\ End(t, "fetched")
    BY <2>0, <2>6
  <2>7. QED
    BY <2>1, <2>2, <2>3, <2>4, <2>5, <2>6
<1>6. CASE Update(t)
  BY <1>6 DEF Update, OpenStamp
<1>7. CASE UpdateBad(t)
  BY <1>7 DEF UpdateBad, RenameBad
<1>8. CASE RaiseNoChecksum(t)
  BY <1>8 DEF RaiseNoChecksum
<1>9. CASE Store(t)
  <2>0. pc[t] = "store" /\ stamp' = Content /\ newer' = TRUE /\ UNCHANGED <<file, mirror>>
    BY <1>9 DEF Store
  <2>1. \/ at[t] \in {"start", "premirror"} /\ GotoAt(t, "verify", "recheck") /\ UNCHANGED <<n, lock>>
        \/ /\ at[t] \in {"mirror", "filemirror"} /\ n[t] < Upstream
           /\ GotoAt(t, "update", "premirror") /\ UNCHANGED <<n, lock>>
        \/ /\ at[t] \in {"mirror", "filemirror"} /\ ~(n[t] < Upstream)
           /\ Goto(t, "final") /\ UNCHANGED <<at, n, lock>>
        \/ at[t] \in {"recheck", "upstream"} /\ Goto(t, "final") /\ UNCHANGED <<at, n, lock>>
        \/ at[t] = "final" /\ End(t, "fetched")
    BY <1>9, <2>0, VerifiedCases DEF Store
  <2>2. CASE at[t] \in {"start", "premirror"} /\ GotoAt(t, "verify", "recheck") /\ UNCHANGED <<n, lock>>
    BY <2>0, <2>2 DEF Content, Exists, Matches
  <2>3. CASE /\ at[t] \in {"mirror", "filemirror"} /\ n[t] < Upstream
             /\ GotoAt(t, "update", "premirror") /\ UNCHANGED <<n, lock>>
    BY <2>0, <2>3 DEF Content, Exists, Matches
  <2>4. CASE /\ at[t] \in {"mirror", "filemirror"} /\ ~(n[t] < Upstream)
             /\ Goto(t, "final") /\ UNCHANGED <<at, n, lock>>
    BY <2>0, <2>4 DEF Content, Exists, Matches
  <2>5. CASE at[t] \in {"recheck", "upstream"} /\ Goto(t, "final") /\ UNCHANGED <<at, n, lock>>
    BY <2>0, <2>5 DEF Content, Exists, Matches
  <2>6. CASE at[t] = "final" /\ End(t, "fetched")
    BY <2>0, <2>6 DEF Content, Exists, Matches
  <2>7. QED
    BY <2>1, <2>2, <2>3, <2>4, <2>5, <2>6
<1>10. CASE StoreFails(t)
  BY <1>10 DEF StoreFails
<1>11. CASE Unstamp(t)
  <2>0. /\ pc[t] = "unstamp" /\ stamp' = None /\ newer' = FALSE /\ UNCHANGED file
        /\ mirror' \in {None, mirror}
    BY <1>11 DEF Unstamp
  <2>1. \/ at[t] = "start" /\ TryNext(t, 1)
        \/ at[t] = "filemirror" /\ TryNext(t, n[t] + 1)
        \/ at[t] = "premirror" /\ TryNext(t, Upstream)
        \/ at[t] = "upstream" /\ Goto(t, "clean") /\ UNCHANGED <<at, n, lock>>
        \/ at[t] = "final" /\ End(t, "failed")
        \/ at[t] = "clean" /\ End(t, "idle")
    BY <1>11, <2>0, UnstampCases
  <2>2. CASE at[t] = "start" /\ TryNext(t, 1)
    BY <2>0, <2>2 DEF TryNext
  <2>3. CASE at[t] = "filemirror" /\ TryNext(t, n[t] + 1)
    BY <2>0, <2>3 DEF TryNext
  <2>4. CASE at[t] = "premirror" /\ TryNext(t, Upstream)
    BY <2>0, <2>4 DEF TryNext
  <2>5. CASE at[t] = "upstream" /\ Goto(t, "clean") /\ UNCHANGED <<at, n, lock>>
    BY <2>0, <2>5 DEF TryNext
  <2>6. CASE at[t] = "final" /\ End(t, "failed")
    BY <2>0, <2>6 DEF TryNext
  <2>7. CASE at[t] = "clean" /\ End(t, "idle")
    BY <2>0, <2>7 DEF TryNext
  <2>8. QED
    BY <2>1, <2>2, <2>3, <2>4, <2>5, <2>6, <2>7
<1>12. QED
  BY <1>1, <1>2, <1>3, <1>4, <1>5, <1>6, <1>7, <1>8, <1>9, <1>10, <1>11 DEF Stamping, Sourcing

\* What the sources give is no part of a file when it is to be stamped.
LEMMA SourcingDisk ==
  ASSUME TypeOK, StampTrue, NEW t \in Tasks, PhaseInv(t), Sourcing(t), Keeps
  PROVE  StampTrue' /\ PhaseInv(t)' /\ FileRight(t)
<1> USE FetcherAssumption, SourceNumbers DEF TypeOK, StampTrue, PhaseInv, FileRight, Matches, Mismatch,
        NoChecksum, Precomputed, Checksum, Content, Exists, Fetching, Forgets, Keeps, Goto, GotoAt,
        End, diskVars,
        recipeVars, AtRest, Verifying, Updating
<1>1. CASE NetSource(t)
  BY <1>1 DEF NetSource
<1>2. CASE FileMissing(t)
  BY <1>2 DEF FileMissing, TryNext, Answered
<1>3. CASE FileSource(t)
  <2>1. /\ pc[t] = "source" /\ mirror # None /\ file' = Link /\ newer' \in BOOLEAN /\ stamp = None
        /\ n[t] \in Sources /\ GotoAt(t, "update", "filemirror") /\ UNCHANGED <<mirror, stamp, n, lock>>
    BY <1>3 DEF FileSource, NewFile
  <2>2. StampTrue'
    BY <2>1
  <2>3. PhaseInv(t)'
    BY <2>1
  <2>4. FileRight(t)
    <3>1. pc'[t] = "update" /\ file' # Partial
      BY <2>1 DEF Partial, Link
    <3>2. QED
      BY <3>1
  <2>5. QED
    BY <2>2, <2>3, <2>4
<1>4. CASE NoSource(t)
  BY <1>4 DEF NoSource
<1>5. CASE Download(t)
  BY <1>5 DEF Download
<1>6. CASE Downloaded(t)
  <2>0. PICK c \in Contents :
          pc[t] = "downloading" /\ UNCHANGED <<mirror, stamp>> /\ NewFile /\ file' = c /\ Answered(t, c)
    BY <1>6 DEF Downloaded
  <2>1. \/ n[t] = Upstream /\ GotoAt(t, "update", "upstream") /\ UNCHANGED <<n, lock>>
        \/ n[t] < Upstream /\ GotoAt(t, "update", "premirror") /\ UNCHANGED <<n, lock>>
        \/ /\ n[t] # Upstream /\ ~(n[t] < Upstream)
           /\ Goto(t, "final") /\ UNCHANGED <<at, n, lock>>
    BY <1>6, <2>0, DownloadedCases
  <2>2. CASE n[t] = Upstream /\ GotoAt(t, "update", "upstream") /\ UNCHANGED <<n, lock>>
    BY <2>0, <2>2 DEF Answered, NewFile
  <2>3. CASE n[t] < Upstream /\ GotoAt(t, "update", "premirror") /\ UNCHANGED <<n, lock>>
    BY <2>0, <2>3 DEF Answered, NewFile
  <2>4. CASE /\ n[t] # Upstream /\ ~(n[t] < Upstream)
             /\ Goto(t, "final") /\ UNCHANGED <<at, n, lock>>
    BY <2>0, <2>4 DEF Answered, NewFile
  <2>5. QED
    BY <2>1, <2>2, <2>3, <2>4
<1>7. CASE DownloadFails(t)
  BY <1>7 DEF DownloadFails, Answered
<1>8. CASE Clean(t)
  BY <1>8 DEF Clean, TryNext
<1>9. CASE Final(t)
  <2>0. pc[t] = "final" /\ UNCHANGED <<diskVars, answer>>
    BY <1>9 DEF Final
  <2>1. \/ Exists /\ GotoAt(t, "update", "final") /\ UNCHANGED <<n, lock>>
        \/ ~Exists /\ End(t, "failed")
    BY <1>9, <2>0, FinalCases
  <2>2. CASE Exists /\ GotoAt(t, "update", "final") /\ UNCHANGED <<n, lock>>
    BY <2>0, <2>2
  <2>3. CASE ~Exists /\ End(t, "failed")
    BY <2>0, <2>3
  <2>4. QED
    BY <2>1, <2>2, <2>3
<1>10. QED
  BY <1>1, <1>2, <1>3, <1>4, <1>5, <1>6, <1>7, <1>8, <1>9 DEF Stamping, Sourcing

\* The other tasks stay where they are.
LEMMA StampingOthers ==
  ASSUME TypeOK, NEW t \in Tasks, PhaseInv(t), Stamping(t), Forgets(t), NEW u \in Tasks \ {t}
  PROVE  pc'[u] = pc[u] /\ answer'[u] = answer[u]
<1>0. answer'[u] = answer[u]
  BY DEF Forgets, TypeOK
<1> USE <1>0 DEF TypeOK, Goto, GotoAt, End, PhaseInv, Verifying
<1>1. CASE VerifyMissing(t)
  <2>0. pc[t] = "verify" /\ ~Exists /\ stamp' = None /\ newer' = FALSE /\ UNCHANGED <<file, mirror>>
    BY <1>1 DEF VerifyMissing
  <2>1. \/ at[t] = "start" /\ TryNext(t, 1)
        \/ at[t] = "mirror" /\ Goto(t, "download") /\ UNCHANGED <<at, n, lock>>
        \/ at[t] = "recheck" /\ Goto(t, "final") /\ UNCHANGED <<at, n, lock>>
    BY <1>1, <2>0, UnverifiedCases DEF VerifyMissing
  <2>2. CASE at[t] = "start" /\ TryNext(t, 1)
    BY <2>0, <2>2 DEF TryNext
  <2>3. CASE at[t] = "mirror" /\ Goto(t, "download") /\ UNCHANGED <<at, n, lock>>
    BY <2>0, <2>3 DEF TryNext
  <2>4. CASE at[t] = "recheck" /\ Goto(t, "final") /\ UNCHANGED <<at, n, lock>>
    BY <2>0, <2>4 DEF TryNext
  <2>5. QED
    BY <2>1, <2>2, <2>3, <2>4
<1>2. CASE VerifyStamped(t)
  <2>0. pc[t] = "verify" /\ Exists /\ Precomputed # None /\ ~Mismatch(t, Precomputed) /\ UNCHANGED diskVars
    BY <1>2 DEF VerifyStamped
  <2>1. \/ at[t] \in {"start", "premirror"} /\ GotoAt(t, "verify", "recheck") /\ UNCHANGED <<n, lock>>
        \/ /\ at[t] \in {"mirror", "filemirror"} /\ n[t] < Upstream
           /\ GotoAt(t, "update", "premirror") /\ UNCHANGED <<n, lock>>
        \/ /\ at[t] \in {"mirror", "filemirror"} /\ ~(n[t] < Upstream)
           /\ Goto(t, "final") /\ UNCHANGED <<at, n, lock>>
        \/ at[t] \in {"recheck", "upstream"} /\ Goto(t, "final") /\ UNCHANGED <<at, n, lock>>
        \/ at[t] = "final" /\ End(t, "fetched")
    BY <1>2, <2>0, VerifiedCases DEF VerifyStamped
  <2>2. CASE at[t] \in {"start", "premirror"} /\ GotoAt(t, "verify", "recheck") /\ UNCHANGED <<n, lock>>
    BY <2>0, <2>2
  <2>3. CASE /\ at[t] \in {"mirror", "filemirror"} /\ n[t] < Upstream
             /\ GotoAt(t, "update", "premirror") /\ UNCHANGED <<n, lock>>
    BY <2>0, <2>3
  <2>4. CASE /\ at[t] \in {"mirror", "filemirror"} /\ ~(n[t] < Upstream)
             /\ Goto(t, "final") /\ UNCHANGED <<at, n, lock>>
    BY <2>0, <2>4
  <2>5. CASE at[t] \in {"recheck", "upstream"} /\ Goto(t, "final") /\ UNCHANGED <<at, n, lock>>
    BY <2>0, <2>5
  <2>6. CASE at[t] = "final" /\ End(t, "fetched")
    BY <2>0, <2>6
  <2>7. QED
    BY <2>1, <2>2, <2>3, <2>4, <2>5, <2>6
<1>3. CASE VerifyFile(t)
  BY <1>3 DEF VerifyFile, OpenStamp
<1>4. CASE VerifyBad(t)
  BY <1>4 DEF VerifyBad, RenameBad
<1>5. CASE Touch(t)
  <2>0. pc[t] = "update" /\ stamp # None /\ newer' = TRUE /\ UNCHANGED <<file, mirror, stamp>>
    BY <1>5 DEF Touch
  <2>1. \/ at[t] \in {"start", "premirror"} /\ GotoAt(t, "verify", "recheck") /\ UNCHANGED <<n, lock>>
        \/ /\ at[t] \in {"mirror", "filemirror"} /\ n[t] < Upstream
           /\ GotoAt(t, "update", "premirror") /\ UNCHANGED <<n, lock>>
        \/ /\ at[t] \in {"mirror", "filemirror"} /\ ~(n[t] < Upstream)
           /\ Goto(t, "final") /\ UNCHANGED <<at, n, lock>>
        \/ at[t] \in {"recheck", "upstream"} /\ Goto(t, "final") /\ UNCHANGED <<at, n, lock>>
        \/ at[t] = "final" /\ End(t, "fetched")
    BY <1>5, <2>0, VerifiedCases DEF Touch
  <2>2. CASE at[t] \in {"start", "premirror"} /\ GotoAt(t, "verify", "recheck") /\ UNCHANGED <<n, lock>>
    BY <2>0, <2>2
  <2>3. CASE /\ at[t] \in {"mirror", "filemirror"} /\ n[t] < Upstream
             /\ GotoAt(t, "update", "premirror") /\ UNCHANGED <<n, lock>>
    BY <2>0, <2>3
  <2>4. CASE /\ at[t] \in {"mirror", "filemirror"} /\ ~(n[t] < Upstream)
             /\ Goto(t, "final") /\ UNCHANGED <<at, n, lock>>
    BY <2>0, <2>4
  <2>5. CASE at[t] \in {"recheck", "upstream"} /\ Goto(t, "final") /\ UNCHANGED <<at, n, lock>>
    BY <2>0, <2>5
  <2>6. CASE at[t] = "final" /\ End(t, "fetched")
    BY <2>0, <2>6
  <2>7. QED
    BY <2>1, <2>2, <2>3, <2>4, <2>5, <2>6
<1>6. CASE Update(t)
  BY <1>6 DEF Update, OpenStamp
<1>7. CASE UpdateBad(t)
  BY <1>7 DEF UpdateBad, RenameBad
<1>8. CASE RaiseNoChecksum(t)
  BY <1>8 DEF RaiseNoChecksum
<1>9. CASE Store(t)
  <2>0. pc[t] = "store" /\ stamp' = Content /\ newer' = TRUE /\ UNCHANGED <<file, mirror>>
    BY <1>9 DEF Store
  <2>1. \/ at[t] \in {"start", "premirror"} /\ GotoAt(t, "verify", "recheck") /\ UNCHANGED <<n, lock>>
        \/ /\ at[t] \in {"mirror", "filemirror"} /\ n[t] < Upstream
           /\ GotoAt(t, "update", "premirror") /\ UNCHANGED <<n, lock>>
        \/ /\ at[t] \in {"mirror", "filemirror"} /\ ~(n[t] < Upstream)
           /\ Goto(t, "final") /\ UNCHANGED <<at, n, lock>>
        \/ at[t] \in {"recheck", "upstream"} /\ Goto(t, "final") /\ UNCHANGED <<at, n, lock>>
        \/ at[t] = "final" /\ End(t, "fetched")
    BY <1>9, <2>0, VerifiedCases DEF Store
  <2>2. CASE at[t] \in {"start", "premirror"} /\ GotoAt(t, "verify", "recheck") /\ UNCHANGED <<n, lock>>
    BY <2>0, <2>2 DEF Content, Exists, Matches
  <2>3. CASE /\ at[t] \in {"mirror", "filemirror"} /\ n[t] < Upstream
             /\ GotoAt(t, "update", "premirror") /\ UNCHANGED <<n, lock>>
    BY <2>0, <2>3 DEF Content, Exists, Matches
  <2>4. CASE /\ at[t] \in {"mirror", "filemirror"} /\ ~(n[t] < Upstream)
             /\ Goto(t, "final") /\ UNCHANGED <<at, n, lock>>
    BY <2>0, <2>4 DEF Content, Exists, Matches
  <2>5. CASE at[t] \in {"recheck", "upstream"} /\ Goto(t, "final") /\ UNCHANGED <<at, n, lock>>
    BY <2>0, <2>5 DEF Content, Exists, Matches
  <2>6. CASE at[t] = "final" /\ End(t, "fetched")
    BY <2>0, <2>6 DEF Content, Exists, Matches
  <2>7. QED
    BY <2>1, <2>2, <2>3, <2>4, <2>5, <2>6
<1>10. CASE StoreFails(t)
  BY <1>10 DEF StoreFails
<1>11. CASE Unstamp(t)
  <2>0. /\ pc[t] = "unstamp" /\ stamp' = None /\ newer' = FALSE /\ UNCHANGED file
        /\ mirror' \in {None, mirror}
    BY <1>11 DEF Unstamp
  <2>1. \/ at[t] = "start" /\ TryNext(t, 1)
        \/ at[t] = "filemirror" /\ TryNext(t, n[t] + 1)
        \/ at[t] = "premirror" /\ TryNext(t, Upstream)
        \/ at[t] = "upstream" /\ Goto(t, "clean") /\ UNCHANGED <<at, n, lock>>
        \/ at[t] = "final" /\ End(t, "failed")
        \/ at[t] = "clean" /\ End(t, "idle")
    BY <1>11, <2>0, UnstampCases
  <2>2. CASE at[t] = "start" /\ TryNext(t, 1)
    BY <2>0, <2>2 DEF TryNext
  <2>3. CASE at[t] = "filemirror" /\ TryNext(t, n[t] + 1)
    BY <2>0, <2>3 DEF TryNext
  <2>4. CASE at[t] = "premirror" /\ TryNext(t, Upstream)
    BY <2>0, <2>4 DEF TryNext
  <2>5. CASE at[t] = "upstream" /\ Goto(t, "clean") /\ UNCHANGED <<at, n, lock>>
    BY <2>0, <2>5 DEF TryNext
  <2>6. CASE at[t] = "final" /\ End(t, "failed")
    BY <2>0, <2>6 DEF TryNext
  <2>7. CASE at[t] = "clean" /\ End(t, "idle")
    BY <2>0, <2>7 DEF TryNext
  <2>8. QED
    BY <2>1, <2>2, <2>3, <2>4, <2>5, <2>6, <2>7
<1>12. QED
  BY <1>1, <1>2, <1>3, <1>4, <1>5, <1>6, <1>7, <1>8, <1>9, <1>10, <1>11 DEF Stamping, Sourcing

\* The same for the steps that ask the sources.
LEMMA SourcingOthers ==
  ASSUME TypeOK, NEW t \in Tasks, Sourcing(t), NEW u \in Tasks \ {t}
  PROVE  pc'[u] = pc[u] /\ answer'[u] = answer[u]
<1> USE DEF TypeOK, Goto, GotoAt, End
<1>1. CASE NetSource(t)
  BY <1>1 DEF NetSource
<1>2. CASE FileMissing(t)
  BY <1>2 DEF FileMissing, TryNext, Answered
<1>3. CASE FileSource(t)
  BY <1>3 DEF FileSource, Answered, NewFile
<1>4. CASE NoSource(t)
  BY <1>4 DEF NoSource
<1>5. CASE Download(t)
  BY <1>5 DEF Download
<1>6. CASE Downloaded(t)
  <2>0. PICK c \in Contents :
          pc[t] = "downloading" /\ UNCHANGED <<mirror, stamp>> /\ NewFile /\ file' = c /\ Answered(t, c)
    BY <1>6 DEF Downloaded
  <2>1. \/ n[t] = Upstream /\ GotoAt(t, "update", "upstream") /\ UNCHANGED <<n, lock>>
        \/ n[t] < Upstream /\ GotoAt(t, "update", "premirror") /\ UNCHANGED <<n, lock>>
        \/ /\ n[t] # Upstream /\ ~(n[t] < Upstream)
           /\ Goto(t, "final") /\ UNCHANGED <<at, n, lock>>
    BY <1>6, <2>0, DownloadedCases
  <2>2. CASE n[t] = Upstream /\ GotoAt(t, "update", "upstream") /\ UNCHANGED <<n, lock>>
    BY <2>0, <2>2 DEF Answered, NewFile
  <2>3. CASE n[t] < Upstream /\ GotoAt(t, "update", "premirror") /\ UNCHANGED <<n, lock>>
    BY <2>0, <2>3 DEF Answered, NewFile
  <2>4. CASE /\ n[t] # Upstream /\ ~(n[t] < Upstream)
             /\ Goto(t, "final") /\ UNCHANGED <<at, n, lock>>
    BY <2>0, <2>4 DEF Answered, NewFile
  <2>5. QED
    BY <2>1, <2>2, <2>3, <2>4
<1>7. CASE DownloadFails(t)
  BY <1>7 DEF DownloadFails, Answered
<1>8. CASE Clean(t)
  BY <1>8 DEF Clean, TryNext
<1>9. CASE Final(t)
  <2>0. pc[t] = "final" /\ UNCHANGED <<diskVars, answer>>
    BY <1>9 DEF Final
  <2>1. \/ Exists /\ GotoAt(t, "update", "final") /\ UNCHANGED <<n, lock>>
        \/ ~Exists /\ End(t, "failed")
    BY <1>9, <2>0, FinalCases
  <2>2. CASE Exists /\ GotoAt(t, "update", "final") /\ UNCHANGED <<n, lock>>
    BY <2>0, <2>2
  <2>3. CASE ~Exists /\ End(t, "failed")
    BY <2>0, <2>3
  <2>4. QED
    BY <2>1, <2>2, <2>3
<1>10. QED
  BY <1>1, <1>2, <1>3, <1>4, <1>5, <1>6, <1>7, <1>8, <1>9 DEF Stamping, Sourcing

\* A source that gave no right file is another one that was tried.
LEMMA TriedOneMore ==
  ASSUME NEW t \in Tasks, NEW m \in Sources, TriedBefore(t, m), answer[t][m] \notin {expected[t], "untried"}
  PROVE  TriedBefore(t, m + 1)
BY PlanFacts DEF TriedBefore

\* After a wrong file of a premirror the other premirrors are left out, ...
LEMMA PremirrorsDone ==
  ASSUME NEW t \in Tasks, expected[t] \in Contents, WrongAnswer(t), n[t] < Upstream
  PROVE  TriedBefore(t, Upstream) /\ UntriedFrom(t, Upstream)
<1>1. ASSUME NEW s \in Sources, s < Upstream
      PROVE  /\ answer[t][s] # expected[t]
             /\ answer[t][s] = "untried" =>
                  \E r \in 1..(s - 1) : Plan[r].list = Plan[s].list /\ answer[t][r] \in Contents
  <2>1. CASE s < n[t]
    BY <2>1 DEF WrongAnswer, TriedBefore
  <2>2. CASE s = n[t]
    BY <2>2, FetcherAssumption DEF WrongAnswer
  <2>3. CASE s > n[t]
    <3>1. answer[t][s] = "untried" /\ n[t] \in 1..(s - 1)
      BY <2>3, PlanFacts DEF WrongAnswer, UntriedFrom
    <3>2. Plan[n[t]].list = Plan[s].list /\ answer[t][n[t]] \in Contents
      BY <1>1, <2>3, PlanFacts DEF WrongAnswer
    <3>3. QED
      BY <3>1, <3>2, FetcherAssumption
  <2>4. QED
    BY <2>1, <2>2, <2>3, PlanFacts DEF WrongAnswer
<1>2. UntriedFrom(t, Upstream)
  BY PlanFacts DEF WrongAnswer, UntriedFrom
<1>3. QED
  BY <1>1, <1>2 DEF TriedBefore

\* ... and after one of a mirror the other mirrors.
LEMMA MirrorsDone ==
  ASSUME NEW t \in Tasks, expected[t] \in Contents, WrongAnswer(t), n[t] > Upstream
  PROVE  TriedBefore(t, Len(Plan) + 1)
<1>1. ASSUME NEW s \in Sources
      PROVE  /\ answer[t][s] # expected[t]
             /\ answer[t][s] = "untried" =>
                  \E r \in 1..(s - 1) : Plan[r].list = Plan[s].list /\ answer[t][r] \in Contents
  <2>1. CASE s < n[t]
    BY <2>1 DEF WrongAnswer, TriedBefore
  <2>2. CASE s = n[t]
    BY <2>2, FetcherAssumption DEF WrongAnswer
  <2>3. CASE s > n[t]
    <3>1. answer[t][s] = "untried" /\ n[t] \in 1..(s - 1)
      BY <2>3, PlanFacts DEF WrongAnswer, UntriedFrom
    <3>2. Plan[n[t]].list = Plan[s].list /\ answer[t][n[t]] \in Contents
      BY <2>3, PlanFacts DEF WrongAnswer
    <3>3. QED
      BY <3>1, <3>2, FetcherAssumption
  <2>4. QED
    BY <2>1, <2>2, <2>3, PlanFacts DEF WrongAnswer
<1>2. QED
  BY <1>1 DEF TriedBefore

\* A wrong file sends the task to the sources that are still to be asked.
LEMMA StampingSources ==
  ASSUME TypeOK, StampTrue, NEW t \in Tasks, PhaseInv(t), SourceInv(t), Stamping(t), Forgets(t), Keeps
  PROVE  SourceInv(t)'
<1> USE FetcherAssumption, SourceNumbers DEF TypeOK, StampTrue, PhaseInv, Matches, Mismatch,
        NoChecksum, Precomputed, Checksum, Content, Exists, Fetching, Forgets, Keeps, Goto, GotoAt,
        End, diskVars,
        recipeVars, AtRest, Verifying, Updating, SourceInv, TriedBefore, UntriedFrom, WrongAnswer
<1>1. CASE VerifyMissing(t)
  <2>0. pc[t] = "verify" /\ ~Exists /\ stamp' = None /\ newer' = FALSE /\ UNCHANGED <<file, mirror>>
    BY <1>1 DEF VerifyMissing
  <2>1. \/ at[t] = "start" /\ TryNext(t, 1)
        \/ at[t] = "mirror" /\ Goto(t, "download") /\ UNCHANGED <<at, n, lock>>
        \/ at[t] = "recheck" /\ Goto(t, "final") /\ UNCHANGED <<at, n, lock>>
    BY <1>1, <2>0, UnverifiedCases DEF VerifyMissing
  <2>2. CASE at[t] = "start" /\ TryNext(t, 1)
    BY <2>0, <2>2 DEF TryNext
  <2>3. CASE at[t] = "mirror" /\ Goto(t, "download") /\ UNCHANGED <<at, n, lock>>
    BY <2>0, <2>3 DEF TryNext
  <2>4. CASE at[t] = "recheck" /\ Goto(t, "final") /\ UNCHANGED <<at, n, lock>>
    BY <2>0, <2>4 DEF TryNext
  <2>5. QED
    BY <2>1, <2>2, <2>3, <2>4
<1>2. CASE VerifyStamped(t)
  <2>0. pc[t] = "verify" /\ Exists /\ Precomputed # None /\ ~Mismatch(t, Precomputed) /\ UNCHANGED diskVars
    BY <1>2 DEF VerifyStamped
  <2>1. \/ at[t] \in {"start", "premirror"} /\ GotoAt(t, "verify", "recheck") /\ UNCHANGED <<n, lock>>
        \/ /\ at[t] \in {"mirror", "filemirror"} /\ n[t] < Upstream
           /\ GotoAt(t, "update", "premirror") /\ UNCHANGED <<n, lock>>
        \/ /\ at[t] \in {"mirror", "filemirror"} /\ ~(n[t] < Upstream)
           /\ Goto(t, "final") /\ UNCHANGED <<at, n, lock>>
        \/ at[t] \in {"recheck", "upstream"} /\ Goto(t, "final") /\ UNCHANGED <<at, n, lock>>
        \/ at[t] = "final" /\ End(t, "fetched")
    BY <1>2, <2>0, VerifiedCases DEF VerifyStamped
  <2>2. CASE at[t] \in {"start", "premirror"} /\ GotoAt(t, "verify", "recheck") /\ UNCHANGED <<n, lock>>
    BY <2>0, <2>2
  <2>3. CASE /\ at[t] \in {"mirror", "filemirror"} /\ n[t] < Upstream
             /\ GotoAt(t, "update", "premirror") /\ UNCHANGED <<n, lock>>
    BY <2>0, <2>3
  <2>4. CASE /\ at[t] \in {"mirror", "filemirror"} /\ ~(n[t] < Upstream)
             /\ Goto(t, "final") /\ UNCHANGED <<at, n, lock>>
    BY <2>0, <2>4
  <2>5. CASE at[t] \in {"recheck", "upstream"} /\ Goto(t, "final") /\ UNCHANGED <<at, n, lock>>
    BY <2>0, <2>5
  <2>6. CASE at[t] = "final" /\ End(t, "fetched")
    BY <2>0, <2>6
  <2>7. QED
    BY <2>1, <2>2, <2>3, <2>4, <2>5, <2>6
<1>3. CASE VerifyFile(t)
  BY <1>3 DEF VerifyFile, OpenStamp
<1>4. CASE VerifyBad(t)
  BY <1>4 DEF VerifyBad, RenameBad
<1>5. CASE Touch(t)
  <2>0. pc[t] = "update" /\ stamp # None /\ newer' = TRUE /\ UNCHANGED <<file, mirror, stamp>>
    BY <1>5 DEF Touch
  <2>1. \/ at[t] \in {"start", "premirror"} /\ GotoAt(t, "verify", "recheck") /\ UNCHANGED <<n, lock>>
        \/ /\ at[t] \in {"mirror", "filemirror"} /\ n[t] < Upstream
           /\ GotoAt(t, "update", "premirror") /\ UNCHANGED <<n, lock>>
        \/ /\ at[t] \in {"mirror", "filemirror"} /\ ~(n[t] < Upstream)
           /\ Goto(t, "final") /\ UNCHANGED <<at, n, lock>>
        \/ at[t] \in {"recheck", "upstream"} /\ Goto(t, "final") /\ UNCHANGED <<at, n, lock>>
        \/ at[t] = "final" /\ End(t, "fetched")
    BY <1>5, <2>0, VerifiedCases DEF Touch
  <2>2. CASE at[t] \in {"start", "premirror"} /\ GotoAt(t, "verify", "recheck") /\ UNCHANGED <<n, lock>>
    BY <2>0, <2>2
  <2>3. CASE /\ at[t] \in {"mirror", "filemirror"} /\ n[t] < Upstream
             /\ GotoAt(t, "update", "premirror") /\ UNCHANGED <<n, lock>>
    BY <2>0, <2>3
  <2>4. CASE /\ at[t] \in {"mirror", "filemirror"} /\ ~(n[t] < Upstream)
             /\ Goto(t, "final") /\ UNCHANGED <<at, n, lock>>
    BY <2>0, <2>4
  <2>5. CASE at[t] \in {"recheck", "upstream"} /\ Goto(t, "final") /\ UNCHANGED <<at, n, lock>>
    BY <2>0, <2>5
  <2>6. CASE at[t] = "final" /\ End(t, "fetched")
    BY <2>0, <2>6
  <2>7. QED
    BY <2>1, <2>2, <2>3, <2>4, <2>5, <2>6
<1>6. CASE Update(t)
  BY <1>6 DEF Update, OpenStamp
<1>7. CASE UpdateBad(t)
  BY <1>7 DEF UpdateBad, RenameBad
<1>8. CASE RaiseNoChecksum(t)
  BY <1>8 DEF RaiseNoChecksum
<1>9. CASE Store(t)
  <2>0. pc[t] = "store" /\ stamp' = Content /\ newer' = TRUE /\ UNCHANGED <<file, mirror>>
    BY <1>9 DEF Store
  <2>1. \/ at[t] \in {"start", "premirror"} /\ GotoAt(t, "verify", "recheck") /\ UNCHANGED <<n, lock>>
        \/ /\ at[t] \in {"mirror", "filemirror"} /\ n[t] < Upstream
           /\ GotoAt(t, "update", "premirror") /\ UNCHANGED <<n, lock>>
        \/ /\ at[t] \in {"mirror", "filemirror"} /\ ~(n[t] < Upstream)
           /\ Goto(t, "final") /\ UNCHANGED <<at, n, lock>>
        \/ at[t] \in {"recheck", "upstream"} /\ Goto(t, "final") /\ UNCHANGED <<at, n, lock>>
        \/ at[t] = "final" /\ End(t, "fetched")
    BY <1>9, <2>0, VerifiedCases DEF Store
  <2>2. CASE at[t] \in {"start", "premirror"} /\ GotoAt(t, "verify", "recheck") /\ UNCHANGED <<n, lock>>
    BY <2>0, <2>2 DEF Content, Exists, Matches
  <2>3. CASE /\ at[t] \in {"mirror", "filemirror"} /\ n[t] < Upstream
             /\ GotoAt(t, "update", "premirror") /\ UNCHANGED <<n, lock>>
    BY <2>0, <2>3 DEF Content, Exists, Matches
  <2>4. CASE /\ at[t] \in {"mirror", "filemirror"} /\ ~(n[t] < Upstream)
             /\ Goto(t, "final") /\ UNCHANGED <<at, n, lock>>
    BY <2>0, <2>4 DEF Content, Exists, Matches
  <2>5. CASE at[t] \in {"recheck", "upstream"} /\ Goto(t, "final") /\ UNCHANGED <<at, n, lock>>
    BY <2>0, <2>5 DEF Content, Exists, Matches
  <2>6. CASE at[t] = "final" /\ End(t, "fetched")
    BY <2>0, <2>6 DEF Content, Exists, Matches
  <2>7. QED
    BY <2>1, <2>2, <2>3, <2>4, <2>5, <2>6
<1>10. CASE StoreFails(t)
  BY <1>10 DEF StoreFails
<1>11. CASE Unstamp(t)
  <2>0. /\ pc[t] = "unstamp" /\ stamp' = None /\ newer' = FALSE /\ UNCHANGED file
        /\ mirror' \in {None, mirror}
    BY <1>11 DEF Unstamp
  <2>1. \/ at[t] = "start" /\ TryNext(t, 1)
        \/ at[t] = "filemirror" /\ TryNext(t, n[t] + 1)
        \/ at[t] = "premirror" /\ TryNext(t, Upstream)
        \/ at[t] = "upstream" /\ Goto(t, "clean") /\ UNCHANGED <<at, n, lock>>
        \/ at[t] = "final" /\ End(t, "failed")
        \/ at[t] = "clean" /\ End(t, "idle")
    BY <1>11, <2>0, UnstampCases
  <2>2. CASE at[t] = "start" /\ TryNext(t, 1)
    BY <2>0, <2>2 DEF TryNext
  <2>3. CASE at[t] = "filemirror" /\ TryNext(t, n[t] + 1)
    BY <2>0, <2>3 DEF TryNext
  <2>4. CASE at[t] = "premirror" /\ TryNext(t, Upstream)
    <3> HIDE DEF TriedBefore, UntriedFrom
    <3>1. ASSUME expected[t] # None PROVE TriedBefore(t, Upstream) /\ UntriedFrom(t, Upstream)
      BY <3>1, <2>0, <2>4, PremirrorsDone
    <3>2. QED
      BY <2>0, <2>4, <3>1 DEF TryNext, TriedBefore, UntriedFrom
  <2>5. CASE at[t] = "upstream" /\ Goto(t, "clean") /\ UNCHANGED <<at, n, lock>>
    BY <2>0, <2>5 DEF TryNext
  <2>6. CASE at[t] = "final" /\ End(t, "failed")
    <3>1. ASSUME expected[t] # None PROVE TriedBefore(t, Len(Plan) + 1)
      BY <3>1, <2>0, <2>6, MirrorsDone
    <3>2. QED
      BY <2>0, <2>6, <3>1 DEF TryNext
  <2>7. CASE at[t] = "clean" /\ End(t, "idle")
    BY <2>0, <2>7 DEF TryNext
  <2>8. QED
    BY <2>1, <2>2, <2>3, <2>4, <2>5, <2>6, <2>7
<1>12. QED
  BY <1>1, <1>2, <1>3, <1>4, <1>5, <1>6, <1>7, <1>8, <1>9, <1>10, <1>11 DEF Stamping, Sourcing

\* An answer is remembered, and the earlier ones are.
LEMMA AnswerKept ==
  ASSUME TypeOK, NEW t \in Tasks, NEW m \in Sources, m = n[t],
         NEW a \in Contents \cup {"failed"}, Answered(t, a), UNCHANGED expected
  PROVE  /\ answer'[t][m] = a
         /\ TriedBefore(t, m) => TriedBefore(t, m)' /\ (a # expected[t] => TriedBefore(t, m + 1)')
         /\ UntriedFrom(t, m) => UntriedFrom(t, m + 1)'
<1>1. answer'[t] = [answer[t] EXCEPT ![m] = a]
  BY DEF TypeOK, Answered
<1>2. answer'[t][m] = a /\ \A s \in Sources \ {m} : answer'[t][s] = answer[t][s]
  BY <1>1 DEF TypeOK
<1>3. UntriedFrom(t, m) => UntriedFrom(t, m + 1)'
  BY <1>2, PlanFacts DEF UntriedFrom
<1>4. ASSUME TriedBefore(t, m), NEW s \in Sources, s < m
      PROVE  /\ answer'[t][s] # expected[t]
             /\ answer'[t][s] = "untried" =>
                  \E r \in 1..(s - 1) : Plan[r].list = Plan[s].list /\ answer'[t][r] \in Contents
  <2>1. \A r \in 1..s : r \in Sources \ {m} /\ answer'[t][r] = answer[t][r]
    BY <1>2, <1>4, PlanFacts
  <2>2. answer'[t][s] = answer[t][s]
    BY <1>2, <1>4, PlanFacts
  <2>3. answer[t][s] # expected[t]
    BY <1>4 DEF TriedBefore
  <2>4. ASSUME answer[t][s] = "untried"
        PROVE  \E r \in 1..(s - 1) : Plan[r].list = Plan[s].list /\ answer'[t][r] \in Contents
    <3>1. PICK r \in 1..(s - 1) : Plan[r].list = Plan[s].list /\ answer[t][r] \in Contents
      BY <1>4, <2>4 DEF TriedBefore
    <3>2. answer'[t][r] = answer[t][r]
      BY <2>1, PlanFacts
    <3>3. QED
      BY <3>1, <3>2
  <2>5. QED
    BY <2>2, <2>3, <2>4
<1>5. TriedBefore(t, m) => TriedBefore(t, m)'
  BY <1>4 DEF TriedBefore
<1>6. ASSUME TriedBefore(t, m), a # expected[t] PROVE TriedBefore(t, m + 1)'
  <2>1. ASSUME NEW s \in Sources, s < m + 1 PROVE s < m \/ s = m
    BY <2>1, PlanFacts
  <2>2. answer'[t][m] # expected[t] /\ answer'[t][m] # "untried"
    BY <1>2, <1>6, FetcherAssumption
  <2>3. QED
    BY <1>4, <1>6, <2>1, <2>2 DEF TriedBefore
<1>7. QED
  BY <1>2, <1>3, <1>5, <1>6

\* Every answer counts in what is tried next.
LEMMA SourcingSources ==
  ASSUME TypeOK, StampTrue, NEW t \in Tasks, PhaseInv(t), SourceInv(t), Sourcing(t), Keeps
  PROVE  SourceInv(t)'
<1>0. PICK m : m = n[t]
  OBVIOUS
<1> USE <1>0, FetcherAssumption, SourceNumbers DEF TypeOK, PhaseInv, Mismatch, Content, Exists,
        Fetching, Keeps, Goto, GotoAt, End,
        diskVars, recipeVars, AtRest, Verifying, Updating, SourceInv, WrongAnswer
<1>1. CASE NetSource(t)
  <2>1. /\ pc[t] = "source" /\ UNCHANGED <<diskVars, n, lock, answer>>
        /\ \/ pc' = [pc EXCEPT ![t] = "download"]
           \/ pc' = [pc EXCEPT ![t] = "verify"] /\ at' = [at EXCEPT ![t] = "mirror"]
    BY <1>1 DEF NetSource
  <2>2. TriedBefore(t, m)' = TriedBefore(t, m) /\ UntriedFrom(t, m)' = UntriedFrom(t, m)
    BY <2>1 DEF TriedBefore, UntriedFrom
  <2>3. QED
    BY <2>1, <2>2
<1>2. CASE FileMissing(t)
  <2>1. m \in Sources /\ Answered(t, "failed") /\ n' = [n EXCEPT ![t] = m + 1]
    BY <1>2 DEF FileMissing, TryNext
  <2>2. /\ TriedBefore(t, m) => ("failed" # expected[t] => TriedBefore(t, m + 1)')
        /\ UntriedFrom(t, m) => UntriedFrom(t, m + 1)'
    BY <2>1, AnswerKept
  <2>3. QED
    BY <1>2, <2>1, <2>2 DEF FileMissing, TryNext
<1>3. CASE FileSource(t)
  <2>1. m \in Sources /\ mirror \in Contents /\ Answered(t, mirror) /\ n' = n
    BY <1>3 DEF FileSource
  <2>2. /\ answer'[t][m] = mirror
        /\ TriedBefore(t, m) => TriedBefore(t, m)'
        /\ UntriedFrom(t, m) => UntriedFrom(t, m + 1)'
    BY <2>1, AnswerKept
  <2>3. QED
    BY <1>3, <2>1, <2>2 DEF FileSource
<1>4. CASE NoSource(t)
  <2>1. m = Len(Plan) + 1
    <3>1. n[t] \in 1..(Len(Plan) + 1) /\ n[t] \notin Sources
      BY <1>4 DEF NoSource
    <3>2. QED
      BY <3>1, AfterSources
  <2>2. answer' = answer
    BY <1>4 DEF NoSource
  <2>3. TriedBefore(t, Len(Plan) + 1) => TriedBefore(t, Len(Plan) + 1)'
    BY <2>2 DEF TriedBefore
  <2>4. QED
    BY <1>4, <2>1, <2>3 DEF NoSource
<1>5. CASE Download(t)
  BY <1>5 DEF Download, TriedBefore, UntriedFrom
<1>6. CASE Downloaded(t)
  <2>0. PICK c \in Contents :
          pc[t] = "downloading" /\ UNCHANGED <<mirror, stamp>> /\ NewFile /\ file' = c /\ Answered(t, c)
    BY <1>6 DEF Downloaded
  <2>1. m \in Sources /\ n' = n
    BY <1>6, <2>0, DownloadedCases
  <2>2. /\ answer'[t][m] = c
        /\ TriedBefore(t, m) => TriedBefore(t, m)'
        /\ UntriedFrom(t, m) => UntriedFrom(t, m + 1)'
    BY <2>0, <2>1, AnswerKept
  <2>3. \/ n[t] = Upstream /\ GotoAt(t, "update", "upstream") /\ UNCHANGED <<n, lock>>
        \/ n[t] < Upstream /\ GotoAt(t, "update", "premirror") /\ UNCHANGED <<n, lock>>
        \/ n[t] # Upstream /\ ~(n[t] < Upstream) /\ Goto(t, "final") /\ UNCHANGED <<at, n, lock>>
    BY <1>6, DownloadedCases
  <2>4. CASE n[t] = Upstream /\ GotoAt(t, "update", "upstream") /\ UNCHANGED <<n, lock>>
    BY <2>0, <2>1, <2>2, <2>4
  <2>5. CASE n[t] < Upstream /\ GotoAt(t, "update", "premirror") /\ UNCHANGED <<n, lock>>
    BY <2>0, <2>1, <2>2, <2>5
  <2>6. CASE n[t] # Upstream /\ ~(n[t] < Upstream) /\ Goto(t, "final") /\ UNCHANGED <<at, n, lock>>
    <3>1. n[t] > Upstream
      BY <2>1, <2>6, PlanFacts
    <3>2. QED
      BY <2>0, <2>1, <2>2, <2>6, <3>1
  <2>7. QED
    BY <2>3, <2>4, <2>5, <2>6
<1>7. CASE DownloadFails(t)
  <2>1. m \in Sources /\ Answered(t, "failed") /\ n' = n
    BY <1>7 DEF DownloadFails
  <2>2. /\ answer'[t][m] = "failed"
        /\ TriedBefore(t, m) => TriedBefore(t, m)'
        /\ UntriedFrom(t, m) => UntriedFrom(t, m + 1)'
    BY <2>1, AnswerKept
  <2>3. QED
    BY <1>7, <2>1, <2>2 DEF DownloadFails
<1>8. CASE Clean(t)
  <2>1. m \in Sources /\ n' = [n EXCEPT ![t] = m + 1] /\ answer' = answer
    BY <1>8 DEF Clean, TryNext
  <2>2. ASSUME expected[t] # None PROVE TriedBefore(t, m + 1) /\ UntriedFrom(t, m + 1)
    BY <1>8, <2>1, <2>2, TriedOneMore DEF Clean
  <2>3. ASSUME expected[t] # None PROVE (TriedBefore(t, m + 1) /\ UntriedFrom(t, m + 1))'
    BY <1>8, <2>1, <2>2, <2>3 DEF TriedBefore, UntriedFrom
  <2>4. QED
    BY <1>8, <2>1, <2>3 DEF Clean, TryNext
<1>9. CASE Final(t)
  <2>1. answer' = answer /\ n' \in {n, [n EXCEPT ![t] = 1]}
    BY <1>9 DEF Final
  <2>2. QED
    BY <1>9, <2>1 DEF Final, TriedBefore, UntriedFrom
<1>10. QED
  BY <1>1, <1>2, <1>3, <1>4, <1>5, <1>6, <1>7, <1>8, <1>9 DEF Sourcing

\* A step of a task that is in download() or clean().
LEMMA StepFacts ==
  ASSUME IInv, NEW t \in Tasks, Step(t)
  PROVE  /\ TypeOK' /\ StampTrue' /\ PartialInv' /\ PhaseInv(t)' /\ SourceInv(t)'
         /\ FileRight(t) /\ pc[t] \notin AtRest
         /\ UNCHANGED <<got, expected, strict, kills, changes>>
         /\ \A u \in Tasks \ {t} : pc'[u] = pc[u] /\ answer'[u] = answer[u] /\ pc[u] \in AtRest
<1>1. \/ Stamping(t) /\ Forgets(t) /\ Keeps
      \/ Sourcing(t) /\ Keeps
  BY DEF Step, Forgets, Keeps
<1>2. TypeOK /\ StampTrue /\ PartialInv /\ PhaseInv(t) /\ SourceInv(t)
  BY DEF IInv, DiskInv
<1>3. TypeOK' /\ pc[t] \notin AtRest
  BY <1>1, <1>2, StampingType, SourcingType
<1>4. StampTrue' /\ PhaseInv(t)' /\ FileRight(t)
  BY <1>1, <1>2, StampingDisk, SourcingDisk
<1>5. SourceInv(t)'
  BY <1>1, <1>2, StampingSources, SourcingSources
<1>6. ASSUME NEW u \in Tasks \ {t}
      PROVE  pc'[u] = pc[u] /\ answer'[u] = answer[u] /\ pc[u] \in AtRest
  <2>1. pc'[u] = pc[u] /\ answer'[u] = answer[u]
    BY <1>1, <1>2, StampingOthers, SourcingOthers
  <2>2. pc[u] \in AtRest
    BY <1>2, <1>3 DEF TypeOK
  <2>3. QED
    BY <2>1, <2>2
<1>7. UNCHANGED <<got, expected, strict, kills, changes>>
  BY <1>1 DEF Keeps, recipeVars
<1>8. PartialInv'
  BY <1>2, <1>4, <1>6, <1>7 DEF PartialInv, FileRight, AtRest
<1>9. QED
  BY <1>2, <1>3, <1>4, <1>5, <1>6, <1>7, <1>8

\* What the task that has the lock leaves is what the others rely on.
LEMMA StepIInv ==
  ASSUME IInv, NEW t \in Tasks, Step(t)
  PROVE  IInv'
<1>1. /\ TypeOK' /\ StampTrue' /\ PartialInv' /\ PhaseInv(t)' /\ SourceInv(t)'
      /\ FileRight(t) /\ pc[t] \notin AtRest
      /\ UNCHANGED <<got, expected, strict, kills, changes>>
      /\ \A u \in Tasks \ {t} : pc'[u] = pc[u] /\ answer'[u] = answer[u] /\ pc[u] \in AtRest
  BY StepFacts
<1>2. \A u \in Tasks : PhaseInv(u)'
  BY <1>1 DEF PhaseInv, AtRest, Fetching
<1>3. ASSUME NEW u \in Tasks \ {t} PROVE SourceInv(u)'
  <2>1. SourceInv(u) /\ pc'[u] = pc[u] /\ answer'[u] = answer[u] /\ pc[u] \in AtRest /\ expected' = expected
    BY <1>1, <1>3 DEF IInv
  <2>2. QED
    BY <2>1 DEF SourceInv, AtRest, TriedBefore
<1>4. LeftForUnpack'
  <2>1. ASSUME NEW u \in Tasks, lock' = None, kills' = 0, pc'[u] = "fetched", expected'[u] # None,
               \A v \in Tasks : expected'[v] = expected'[u]
        PROVE  Content' \in {expected'[u], None}
    <3>1. pc'[t] \in AtRest
      BY <1>1, <2>1, FetcherAssumption DEF TypeOK
    <3>2. expected[t] # None /\ expected'[u] = expected[t]
      BY <1>1, <2>1
    <3>3. QED
      BY <1>1, <3>1, <3>2 DEF FileRight
  <2>2. QED
    BY <2>1 DEF LeftForUnpack
<1>5. UnpackedRight'
  BY <1>1 DEF IInv, UnpackedRight, FileRight
<1>6. QED
  BY <1>1, <1>2, <1>3, <1>4, <1>5 DEF IInv, DiskInv

\* The first state: nothing is known yet, and nothing is stamped.
LEMMA InitIInv == Init => IInv
<1> SUFFICES ASSUME Init PROVE IInv
  OBVIOUS
<1> USE FetcherAssumption, SourceNumbers DEF Init
<1>1. TypeOK
  <2>1. /\ pc \in [Tasks -> AtRest \cup {"verify", "store", "unstamp", "source", "download", "downloading",
                                         "clean", "update", "final"}]
        /\ at \in [Tasks -> Verifying \cup Updating \cup {"clean"}]
    BY DEF AtRest, Verifying
  <2>2. n \in [Tasks -> 1..(Len(Plan) + 1)]
    OBVIOUS
  <2>3. answer \in [Tasks -> [Sources -> Contents \cup {"untried", "failed"}]]
    OBVIOUS
  <2>4. \A t \in Tasks : lock = t <=> pc[t] \notin AtRest
    BY DEF AtRest
  <2>5. got \in [Tasks -> Contents \cup {Partial, None}]
    OBVIOUS
  <2>6. /\ file \in Contents \cup {Partial, Link, None} /\ mirror \in Contents \cup {None}
        /\ stamp \in Contents \cup {Partial, Empty, None} /\ newer \in BOOLEAN
        /\ lock \in Tasks \cup {None}
        /\ expected \in [Tasks -> Contents \cup {None}] /\ strict \in BOOLEAN
    OBVIOUS
  <2>7. kills \in 0..MaxKills /\ changes \in 0..MaxBetween
    OBVIOUS
  <2>8. QED
    BY <2>1, <2>2, <2>3, <2>4, <2>5, <2>6, <2>7 DEF TypeOK
<1>2. StampTrue /\ PartialInv
  BY DEF StampTrue, PartialInv, Precomputed
<1>3. \A t \in Tasks : PhaseInv(t) /\ SourceInv(t)
  BY DEF PhaseInv, SourceInv, Fetching
<1>4. LeftForUnpack /\ UnpackedRight
  BY DEF LeftForUnpack, UnpackedRight
<1>5. QED
  BY <1>1, <1>2, <1>3, <1>4 DEF IInv, DiskInv

\* A task begins and has the lock alone.
LEMMA StartIInv ==
  ASSUME IInv, NEW t \in Tasks, Start(t)
  PROVE  IInv'
<1> USE FetcherAssumption, SourceNumbers DEF IInv, DiskInv, TypeOK, Start, Goto, GotoAt, diskVars,
        recipeVars, AtRest, Verifying
<1>1. TypeOK'
  OBVIOUS
<1>2. (StampTrue /\ PartialInv)'
  BY DEF StampTrue, PartialInv, Precomputed, Content, Exists
<1>3. ASSUME NEW u \in Tasks PROVE PhaseInv(u)' /\ SourceInv(u)'
  <2>1. CASE u = t
    BY <2>1 DEF PhaseInv, SourceInv, Fetching, NoAnswers, UntriedFrom
  <2>2. CASE u # t
    <3>1. pc'[u] = pc[u] /\ answer'[u] = answer[u] /\ pc[u] \in AtRest
      BY <2>2
    <3>2. QED
      BY <3>1 DEF PhaseInv, SourceInv, Fetching, TriedBefore
  <2>3. QED
    BY <2>1, <2>2
<1>4. (LeftForUnpack /\ UnpackedRight)'
  BY DEF LeftForUnpack, UnpackedRight
<1>5. QED
  BY <1>1, <1>2, <1>3, <1>4

\* do_unpack finds what was left for it.
LEMMA UnpackIInv ==
  ASSUME IInv, NEW t \in Tasks, Unpack(t)
  PROVE  IInv'
<1> USE FetcherAssumption, SourceNumbers DEF IInv, DiskInv, TypeOK, Unpack, Unlocked, Goto, diskVars,
        recipeVars, AtRest
<1>1. TypeOK'
  BY DEF Content
<1>2. (StampTrue /\ PartialInv)'
  BY DEF StampTrue, PartialInv, Precomputed, Content, Exists
<1>3. ASSUME NEW u \in Tasks PROVE PhaseInv(u)' /\ SourceInv(u)'
  <2>1. CASE u = t
    BY <2>1 DEF PhaseInv, SourceInv, Fetching
  <2>2. CASE u # t
    <3>1. pc'[u] = pc[u] /\ answer'[u] = answer[u] /\ pc[u] \in AtRest
      BY <2>2
    <3>2. QED
      BY <3>1 DEF PhaseInv, SourceInv, Fetching, TriedBefore
  <2>3. QED
    BY <2>1, <2>2
<1>4. LeftForUnpack' /\ UnpackedRight'
  BY DEF LeftForUnpack, UnpackedRight, Content
<1>5. QED
  BY <1>1, <1>2, <1>3, <1>4

\* A clean-up begins: the file is gone, and the stamp will be.
LEMMA CleanAllIInv ==
  ASSUME IInv, NEW t \in Tasks, CleanAll(t)
  PROVE  IInv'
<1> USE FetcherAssumption, SourceNumbers DEF IInv, DiskInv, TypeOK, CleanAll, Goto, GotoAt, diskVars,
        recipeVars, AtRest
<1>1. TypeOK'
  OBVIOUS
<1>2. (StampTrue /\ PartialInv)'
  BY DEF StampTrue, PartialInv, Precomputed, Content, Exists
<1>3. ASSUME NEW u \in Tasks PROVE PhaseInv(u)' /\ SourceInv(u)'
  <2>1. CASE u = t
    BY <2>1 DEF PhaseInv, SourceInv, Fetching, Updating
  <2>2. CASE u # t
    <3>1. pc'[u] = pc[u] /\ answer'[u] = answer[u] /\ pc[u] \in AtRest
      BY <2>2
    <3>2. QED
      BY <3>1 DEF PhaseInv, SourceInv, Fetching, TriedBefore
  <2>3. QED
    BY <2>1, <2>2
<1>4. (LeftForUnpack /\ UnpackedRight)'
  BY DEF LeftForUnpack, UnpackedRight
<1>5. QED
  BY <1>1, <1>2, <1>3, <1>4

\* A task is killed: from then on a file may be a part.
LEMMA KillIInv ==
  ASSUME IInv, NEW t \in Tasks, Kill(t)
  PROVE  IInv'
<1> USE FetcherAssumption, SourceNumbers DEF IInv, DiskInv, TypeOK, Kill, Goto, GotoAt, End, diskVars,
        recipeVars, AtRest,
        Verifying
<1>1. TypeOK'
  OBVIOUS
<1>2. (StampTrue /\ PartialInv)'
  BY DEF StampTrue, PartialInv, Precomputed, Content, Exists
<1>3. ASSUME NEW u \in Tasks PROVE PhaseInv(u)' /\ SourceInv(u)'
  <2>1. CASE u = t
    BY <2>1 DEF PhaseInv, SourceInv, Fetching
  <2>2. CASE u # t
    <3>1. pc'[u] = pc[u] /\ answer'[u] = answer[u] /\ pc[u] \in AtRest
      BY <2>2
    <3>2. QED
      BY <3>1 DEF PhaseInv, SourceInv, Fetching, TriedBefore
  <2>3. QED
    BY <2>1, <2>2
<1>4. (LeftForUnpack /\ UnpackedRight)'
  BY DEF LeftForUnpack, UnpackedRight
<1>5. QED
  BY <1>1, <1>2, <1>3, <1>4

\* Between two builds no task knows anything; a linked file that changes is newer than
\* the stamp.
LEMMA BetweenIInv ==
  ASSUME ~DatesKept, IInv, Between
  PROVE  IInv'
<1> USE FetcherAssumption, SourceNumbers DEF IInv, DiskInv, TypeOK, Between, diskVars, AtRest
<1>0. \/ expected' \in [Tasks -> Contents \cup {None}] /\ UNCHANGED diskVars
      \/ file' = None /\ UNCHANGED <<mirror, stamp, newer, expected>>
      \/ /\ mirror' \in Contents \cup {None} /\ newer' = (newer /\ file # Link)
         /\ UNCHANGED <<file, stamp, expected>>
  <2>1. CASE \E t \in Tasks, e \in Contents \cup {None} :
               expected' = [expected EXCEPT ![t] = e] /\ UNCHANGED diskVars
    BY <2>1
  <2>2. CASE ~ \E t \in Tasks, e \in Contents \cup {None} :
               expected' = [expected EXCEPT ![t] = e] /\ UNCHANGED diskVars
    BY <2>2
  <2>3. QED
    BY <2>1, <2>2
<1>1. TypeOK'
  <2>1. /\ file' \in Contents \cup {Partial, Link, None} /\ mirror' \in Contents \cup {None}
        /\ stamp' \in Contents \cup {Partial, Empty, None} /\ newer' \in BOOLEAN
        /\ expected' \in [Tasks -> Contents \cup {None}]
    BY <1>0
  <2>2. /\ pc' = [t \in Tasks |-> "idle"] /\ lock' = None
        /\ answer' = [t \in Tasks |-> NoAnswers] /\ got' = [t \in Tasks |-> None]
    <3>1. lock = None
      OBVIOUS
    <3>2. QED
      BY <3>1
  <2>3. answer' \in [Tasks -> [Sources -> Contents \cup {"untried", "failed"}]]
    BY <2>2
  <2>4. \A t \in Tasks : lock' = t <=> pc'[t] \notin AtRest
    BY <2>2
  <2>5. changes' \in 0..MaxBetween
    OBVIOUS
  <2>6. QED
    BY <2>1, <2>2, <2>3, <2>4, <2>5
<1>2. (StampTrue /\ PartialInv)'
  <2>1. StampTrue'
    <3>1. CASE UNCHANGED diskVars
      BY <3>1 DEF StampTrue, Precomputed, Content, Exists
    <3>2. CASE file' = None /\ UNCHANGED <<mirror, stamp, newer, expected>>
      BY <3>2 DEF StampTrue, Precomputed, Content, Exists
    <3>3. CASE newer' = (newer /\ file # Link) /\ UNCHANGED <<file, stamp, expected>>
      BY <3>3 DEF StampTrue, Precomputed, Content, Exists
    <3>4. QED
      BY <1>0, <3>1, <3>2, <3>3
  <2>2. PartialInv'
    BY <1>0 DEF PartialInv
  <2>3. QED
    BY <2>1, <2>2
<1>3. \A t \in Tasks : (PhaseInv(t) /\ SourceInv(t))'
  BY DEF PhaseInv, SourceInv, Fetching
<1>4. (LeftForUnpack /\ UnpackedRight)'
  BY DEF LeftForUnpack, UnpackedRight
<1>5. QED
  BY <1>1, <1>2, <1>3, <1>4

\* Every step preserves the inductive invariant.
LEMMA NextIInv ==
  ASSUME ~DatesKept, IInv, [Next]_vars
  PROVE  IInv'
<1>1. CASE UNCHANGED vars
  BY <1>1 DEF vars, diskVars, taskVars, recipeVars, IInv, DiskInv, TypeOK, StampTrue, PartialInv,
       PhaseInv, Matches,
     Mismatch, LeftForUnpack, UnpackedRight, SourceInv, TriedBefore, UntriedFrom, WrongAnswer,
     Precomputed, Content,
     Exists
<1>2. CASE Next
  BY <1>2, StepIInv, StartIInv, UnpackIInv, CleanAllIInv, KillIInv, BetweenIInv DEF Next
<1>3. QED
  BY <1>1, <1>2

\* The inductive invariant holds throughout.
THEOREM Inductive ==
  ASSUME ~DatesKept
  PROVE  Spec => []IInv
<1>1. Init => IInv
  BY InitIInv
<1>2. IInv /\ [Next]_vars => IInv'
  BY NextIInv
<1>3. QED
  BY <1>1, <1>2, PTL DEF Spec

\* verify_donestamp, update_stamp and clean keep the stamp true of the file whatever is
\* killed, renamed or replaced, and leave nothing for wget -c to continue.
THEOREM DiskStaysRight ==
  ASSUME ~DatesKept
  PROVE  Spec => []DiskRight
<1>1. IInv => DiskRight
  BY DEF IInv, DiskInv, DiskRight, FreshDownload, PhaseInv
<1>2. QED
  BY <1>1, Inductive, PTL

\* Between do_fetch and do_unpack the lock is free, and still do_unpack finds the file
\* that all recipes ask for, or none.
THEOREM UnpackFindsIt ==
  ASSUME ~DatesKept
  PROVE  Spec => []UnpackedRight
<1>1. IInv => UnpackedRight
  BY DEF IInv
<1>2. QED
  BY <1>1, Inductive, PTL

\* download() gives up only when no source is left that could have the file.
THEOREM AllSourcesTried ==
  ASSUME ~DatesKept
  PROVE  Spec => []SourcesTried
<1>1. IInv => SourcesTried
  <2> SUFFICES ASSUME IInv, NEW t \in Tasks, pc[t] = "failed", expected[t] # None, NEW s \in Sources
               PROVE  /\ answer[t][s] # expected[t]
                      /\ answer[t][s] = "untried" =>
                           \E r \in 1..(s - 1) : Plan[r].list = Plan[s].list /\ answer[t][r] \in Contents
    BY DEF SourcesTried
  <2>1. TriedBefore(t, Len(Plan) + 1)
    BY DEF IInv, SourceInv
  <2>2. s < Len(Plan) + 1
    BY PlanFacts
  <2>3. QED
    BY <2>1, <2>2 DEF TriedBefore
<1>2. QED
  BY <1>1, Inductive, PTL

\* A fetch that returns has left the file of the recipe, complete unless a task was killed.
THEOREM FetchesRight ==
  ASSUME ~DatesKept
  PROVE  Spec => FetchedRight
<1> DEFINE Right(t) ==
             pc[t] # "fetched" /\ pc'[t] = "fetched" =>
               /\ expected[t] # None => Content' = expected[t]
               /\ Content' # None /\ (kills = 0 => Content' # Partial)
<1>1. ASSUME IInv, [Next]_vars, NEW t \in Tasks, pc[t] # "fetched", pc'[t] = "fetched"
      PROVE  /\ expected[t] # None => Content' = expected[t]
             /\ Content' # None /\ (kills = 0 => Content' # Partial)
  <2>1. Step(t)
    <3>1. ASSUME NEW u \in Tasks, u # t PROVE ~Step(u)
      BY <1>1, <3>1, StepFacts
    <3>2. ASSUME NEW u \in Tasks, Start(u) \/ Unpack(u) \/ CleanAll(u) \/ Kill(u) PROVE FALSE
      BY <1>1, <3>2 DEF Start, Unpack, CleanAll, Kill, Goto, GotoAt, End, IInv, TypeOK
    <3>3. ~Between
      BY <1>1 DEF Between
    <3>4. pc' # pc
      BY <1>1
    <3>5. QED
      BY <1>1, <3>1, <3>2, <3>3, <3>4 DEF Next, vars, taskVars
  <2>2. /\ TypeOK' /\ PartialInv' /\ FileRight(t) /\ kills' = kills
        /\ \A u \in Tasks \ {t} : pc'[u] = pc[u] /\ pc[u] \in AtRest
    BY <1>1, <2>1, StepFacts
  <2>3. Content' # None /\ (expected[t] # None => Content' = expected[t])
    BY <1>1, <2>2 DEF FileRight
  <2>4. ASSUME kills = 0 PROVE Content' # Partial
    <3>1. file' # Partial
      BY <1>1, <2>2, <2>4 DEF PartialInv, AtRest
    <3>2. QED
      BY <2>2, <3>1, FetcherAssumption DEF Content, TypeOK
  <2>5. QED
    BY <2>3, <2>4
<1>2. IInv /\ [Next]_vars => [\A t \in Tasks : Right(t)]_vars
  BY <1>1
<1>3. QED
  BY <1>2, Inductive, PTL DEF Spec, FetchedRight
=============================================================================
