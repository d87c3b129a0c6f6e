------------------------------ MODULE Fetcher ------------------------------
(* do_fetch of several tasks that store the same file in DL_DIR (bb/fetch2:     *)
(* Fetch.download, unpack and clean, verify_donestamp, update_stamp, try_mirrors, *)
(* for the wget and file:// methods): the file, its .done stamp with the        *)
(* checksums, and the local path of a file:// mirror, through failing and wrong *)
(* sources, tasks that are killed, recipes that change and users who clean up.  *)
(*                                                                              *)
(* Tasks with other local files share nothing with these.  The lock file is     *)
(* taken in one step (LockFileProofs).  uri_replace gives a mirror the local    *)
(* name of the original URL, so a mirror fetched with wget has the same file,   *)
(* stamp and lock.  Between two steps a task may be killed.                     *)
EXTENDS Naturals, Sequences

CONSTANTS Tasks,
          Contents,    \* complete files, told apart by their checksums
          Premirrors,  \* the PREMIRRORS and
          Mirrors,     \* the MIRRORS of the URL: a sequence of "net" or "file"
          None,
          DatesKept,   \* a file replaced in the mirror may be older than a stamp
          MaxKills,    \* bound: tasks that are killed
          MaxBetween   \* bound: changes by users between two builds

Partial == "partial"     \* what an interrupted wget leaves
Link    == "link"        \* a symbolic link to the mirror's file
Empty   == "empty"       \* a stamp that was opened and not written

\* A complete file is none of these, and not the answer of a source that gave none.
ASSUME FetcherAssumption ==
  /\ Premirrors \in Seq({"net", "file"}) /\ Mirrors \in Seq({"net", "file"})
  /\ Contents \cap {Partial, Link, Empty, "untried", "failed"} = {}
  /\ None \notin Contents \cup Tasks \cup {Partial, Link, Empty}
  /\ DatesKept \in BOOLEAN /\ MaxKills \in Nat /\ MaxBetween \in Nat

VARIABLES file,      \* localpath in DL_DIR
          mirror,    \* the file below a file:// mirror
          stamp,     \* what the .done file has: nothing, or the checksums of a file
          newer,     \* the stamp is newer than what localpath leads to
          lock,      \* the task that holds the lock file
          pc,
          at,        \* the place a verification or a stamp is done for
          n,         \* the source being tried
          answer,    \* per task and source: what it gave in this fetch
          got,       \* what do_unpack found
          expected,  \* the checksum in the recipe, None when it has none
          strict,    \* BB_STRICT_CHECKSUM is 1
          kills, changes

recipeVars == <<expected, strict>>
diskVars == <<file, mirror, stamp, newer>>
taskVars == <<pc, at, n, answer, got>>
vars == <<diskVars, lock, taskVars, recipeVars, kills, changes>>

\* download() tries the premirrors, the URL and the mirrors in this order.
Plan == [i \in DOMAIN Premirrors |-> [list |-> "premirror", kind |-> Premirrors[i]]]
        \o <<[list |-> "upstream", kind |-> "net"]>>
        \o [i \in DOMAIN Mirrors |-> [list |-> "mirror", kind |-> Mirrors[i]]]
Upstream == Len(Premirrors) + 1
Sources  == DOMAIN Plan

\* The places of verify_donestamp, of update_stamp, and of Fetch.clean.
Verifying == {"start", "recheck", "mirror"}
Updating  == {"filemirror", "premirror", "upstream", "final"}

NoAnswers == [s \in Sources |-> "untried"]

AtRest == {"idle", "fetched", "failed", "unpacked"}

TypeOK ==
  /\ file \in Contents \cup {Partial, Link, None}
  /\ mirror \in Contents \cup {None}
  /\ stamp \in Contents \cup {Partial, Empty, None} /\ newer \in BOOLEAN
  /\ lock \in Tasks \cup {None}
  /\ pc \in [Tasks -> AtRest \cup {"verify", "store", "unstamp", "source", "download", "downloading",
                                   "clean", "update", "final"}]
  /\ at \in [Tasks -> Verifying \cup Updating \cup {"clean"}]
  /\ n \in [Tasks -> 1..(Len(Plan) + 1)]
  /\ answer \in [Tasks -> [Sources -> Contents \cup {"untried", "failed"}]]
  /\ got \in [Tasks -> Contents \cup {Partial, None}]
  /\ expected \in [Tasks -> Contents \cup {None}] /\ strict \in BOOLEAN
  /\ \A t \in Tasks : lock = t <=> pc[t] \notin AtRest
  /\ kills \in 0..MaxKills /\ changes \in 0..MaxBetween

Init ==
  /\ file \in Contents \cup {None} /\ mirror \in Contents \cup {None}
  /\ stamp = None /\ newer = FALSE
  /\ lock = None
  /\ pc = [t \in Tasks |-> "idle"] /\ at = [t \in Tasks |-> "start"]
  /\ n = [t \in Tasks |-> 1]
  /\ answer = [t \in Tasks |-> NoAnswers]
  /\ got = [t \in Tasks |-> None]
  /\ expected \in [Tasks -> Contents \cup {None}] /\ strict \in BOOLEAN
  /\ kills = 0 /\ changes = 0

-----------------------------------------------------------------------------
(* The disk *)

\* What opening localpath finds; None also when a link leads nowhere.
Content == IF file = Link THEN mirror ELSE file
Exists  == Content # None

\* The checksums verify_checksum starts from: those of the stamp are taken when
\* the stamp is newer than the file, the others are computed.
Precomputed == IF stamp \notin {Empty, None} /\ newer THEN stamp ELSE None
Checksum    == IF Precomputed # None THEN Precomputed ELSE Content

\* verify_checksum raises NoChecksumError, or ChecksumError.
NoChecksum(t)      == strict /\ expected[t] = None
Mismatch(t, sum)   == expected[t] \notin {None, sum}

Goto(t, place) == pc' = [pc EXCEPT ![t] = place]
GotoAt(t, place, why) == Goto(t, place) /\ at' = [at EXCEPT ![t] = why]

\* The end of download(): its variables are gone, the lock is released.
End(t, how) ==
  /\ GotoAt(t, how, "start")
  /\ n' = [n EXCEPT ![t] = 1]
  /\ lock' = None

-----------------------------------------------------------------------------
(* Where download() goes on *)

TryNext(t, source) ==
  n' = [n EXCEPT ![t] = source] /\ Goto(t, "source") /\ UNCHANGED <<at, lock>>

\* try_mirror_url returned a path.
Obtained(t) ==
  IF n[t] < Upstream THEN GotoAt(t, "update", "premirror") /\ UNCHANGED <<n, lock>>
  ELSE Goto(t, "final") /\ UNCHANGED <<at, n, lock>>

\* verify_donestamp returned True, or update_stamp returned.
Verified(t) ==
  CASE at[t] \in {"start", "premirror"}   -> GotoAt(t, "verify", "recheck") /\ UNCHANGED <<n, lock>>
    [] at[t] \in {"mirror", "filemirror"} -> Obtained(t)
    [] at[t] \in {"recheck", "upstream"}  -> Goto(t, "final") /\ UNCHANGED <<at, n, lock>>
    [] at[t] = "final"                    -> End(t, "fetched")

\* verify_donestamp returned False.
Unverified(t) ==
  CASE at[t] = "start"   -> TryNext(t, 1)
    [] at[t] = "mirror"  -> Goto(t, "download") /\ UNCHANGED <<at, n, lock>>
    [] at[t] = "recheck" -> Goto(t, "final") /\ UNCHANGED <<at, n, lock>>

\* Mutant of Rejected: the premirror's wrong file still counts as done.
RejectedDone(t) ==
  CASE at[t] = "filemirror" -> TryNext(t, n[t] + 1)
    [] at[t] = "premirror"  -> Goto(t, "final") /\ UNCHANGED <<at, n, lock>>
    [] at[t] = "upstream"   -> Goto(t, "clean") /\ UNCHANGED <<at, n, lock>>
    [] at[t] = "final"      -> End(t, "failed")

\* update_stamp raised ChecksumError.
Rejected(t) ==
  CASE at[t] = "filemirror" -> TryNext(t, n[t] + 1)
    [] at[t] = "premirror"  -> TryNext(t, Upstream)
    [] at[t] = "upstream"   -> Goto(t, "clean") /\ UNCHANGED <<at, n, lock>>
    [] at[t] = "final"      -> End(t, "failed")

-----------------------------------------------------------------------------
(* verify_donestamp and update_stamp *)

\* A new file at localpath; wget and links keep the date the source gives it.
NewFile == newer' \in IF stamp = None THEN {FALSE} ELSE BOOLEAN

\* The stamp file is opened for writing.
OpenStamp(t) ==
  /\ stamp' = Empty /\ newer' = TRUE
  /\ Goto(t, "store")
  /\ UNCHANGED <<file, mirror, at, n, lock>>

\* rename_bad_checksum
RenameBad(t) ==
  /\ file' = None
  /\ Goto(t, "unstamp")
  /\ UNCHANGED <<mirror, stamp, newer, at, n, lock>>

\* Mutant of VerifyMissing: the stamp of a missing file is kept.
VerifyMissingKeeps(t) ==
  pc[t] = "verify" /\ ~Exists /\ Unverified(t) /\ UNCHANGED diskVars

VerifyMissing(t) ==
  /\ pc[t] = "verify" /\ ~Exists
  /\ stamp' = None /\ newer' = FALSE
  /\ Unverified(t)
  /\ UNCHANGED <<file, mirror>>

VerifyStamped(t) ==
  /\ pc[t] = "verify" /\ Exists /\ ~NoChecksum(t)
  /\ Precomputed # None /\ ~Mismatch(t, Precomputed)
  /\ Verified(t)
  /\ UNCHANGED diskVars

VerifyFile(t) ==
  /\ pc[t] = "verify" /\ Exists /\ ~NoChecksum(t)
  /\ Precomputed = None /\ ~Mismatch(t, Content)
  /\ OpenStamp(t)

VerifyBad(t) ==
  /\ pc[t] = "verify" /\ Exists /\ ~NoChecksum(t) /\ Mismatch(t, Checksum)
  /\ RenameBad(t)

\* Only the existence of the stamp is looked at.
Touch(t) ==
  /\ pc[t] = "update" /\ stamp # None
  /\ newer' = TRUE
  /\ Verified(t)
  /\ UNCHANGED <<file, mirror, stamp>>

Update(t) ==
  /\ pc[t] = "update" /\ stamp = None /\ ~NoChecksum(t) /\ ~Mismatch(t, Content)
  /\ OpenStamp(t)

UpdateBad(t) ==
  /\ pc[t] = "update" /\ stamp = None /\ ~NoChecksum(t) /\ Mismatch(t, Content)
  /\ RenameBad(t)

\* NoChecksumError is handled nowhere.
RaiseNoChecksum(t) ==
  /\ \/ pc[t] = "verify" /\ Exists
     \/ pc[t] = "update" /\ stamp = None
  /\ NoChecksum(t)
  /\ End(t, "failed")
  /\ UNCHANGED diskVars

Store(t) ==
  /\ pc[t] = "store"
  /\ stamp' = Content /\ newer' = TRUE
  /\ Verified(t)
  /\ UNCHANGED <<file, mirror>>

\* The disk is full: download() drops an IOError other than ESTALE and returns.
StoreFails(t) == pc[t] = "store" /\ End(t, "fetched") /\ UNCHANGED diskVars

\* The stamp goes after the file; the file:// mirror's file is renamed too.
Unstamp(t) ==
  /\ pc[t] = "unstamp"
  /\ stamp' = None /\ newer' = FALSE
  /\ mirror' = IF at[t] = "filemirror" THEN None ELSE mirror
  /\ CASE at[t] \in Verifying -> Unverified(t)
       [] at[t] \in Updating  -> Rejected(t)
       [] at[t] = "clean"     -> End(t, "idle")
  /\ UNCHANGED file

-----------------------------------------------------------------------------
(* The sources *)

Answered(t, a) == answer' = [answer EXCEPT ![t][n[t]] = a]

Source(t) == Plan[n[t]]

NetSource(t) ==
  /\ pc[t] = "source" /\ n[t] \in Sources /\ Source(t).kind = "net"
  /\ IF n[t] = Upstream THEN Goto(t, "download") /\ UNCHANGED at ELSE GotoAt(t, "verify", "mirror")
  /\ UNCHANGED <<diskVars, n, lock, answer>>

FileMissing(t) ==
  /\ pc[t] = "source" /\ n[t] \in Sources /\ Source(t).kind = "file" /\ mirror = None
  /\ Answered(t, "failed")
  /\ TryNext(t, n[t] + 1)
  /\ UNCHANGED diskVars

\* ensure_symlink
FileSource(t) ==
  /\ pc[t] = "source" /\ n[t] \in Sources /\ Source(t).kind = "file" /\ mirror # None
  /\ IF Exists THEN UNCHANGED <<file, newer>> ELSE file' = Link /\ NewFile
  /\ Answered(t, mirror)
  /\ GotoAt(t, "update", "filemirror")
  /\ UNCHANGED <<mirror, stamp, n, lock>>

NoSource(t) ==
  /\ pc[t] = "source" /\ n[t] \notin Sources
  /\ End(t, "failed")
  /\ UNCHANGED <<diskVars, answer>>

\* wget creates the file, or continues the one that is there (it does not create a
\* file below a link that leads nowhere), ...
Download(t) ==
  /\ pc[t] = "download" /\ (file = Link => Exists)
  /\ file' = Partial
  /\ newer' = FALSE
  /\ Goto(t, "downloading")
  /\ UNCHANGED <<mirror, stamp, at, n, lock, answer>>

\* ... finishes it, ...
Downloaded(t) ==
  /\ pc[t] = "downloading"
  /\ \E c \in Contents : file' = c /\ Answered(t, c)
  /\ NewFile
  /\ IF n[t] = Upstream THEN GotoAt(t, "update", "upstream") /\ UNCHANGED <<n, lock>>
     ELSE Obtained(t)
  /\ UNCHANGED <<mirror, stamp>>

\* ... or fails, before or after it wrote something; Clean removes what is left, also
\* an empty file, which wget's own check has removed already.
DownloadFails(t) ==
  /\ pc[t] \in {"download", "downloading"}
  /\ Answered(t, "failed")
  /\ Goto(t, "clean")
  /\ UNCHANGED <<diskVars, at, n, lock>>

\* Mutant of Clean: what was written stays.
CleanNot(t) ==
  pc[t] = "clean" /\ TryNext(t, n[t] + 1) /\ UNCHANGED <<diskVars, answer>>

Clean(t) ==
  /\ pc[t] = "clean"
  /\ file' = None
  /\ TryNext(t, n[t] + 1)
  /\ UNCHANGED <<mirror, stamp, newer, answer>>

Final(t) ==
  /\ pc[t] = "final"
  /\ IF Exists THEN GotoAt(t, "update", "final") /\ UNCHANGED <<n, lock>> ELSE End(t, "failed")
  /\ UNCHANGED <<diskVars, answer>>

-----------------------------------------------------------------------------
(* Fetch.download, unpack and clean of a task, and what happens to it *)

Start(t) ==
  /\ pc[t] \in AtRest /\ lock = None
  /\ lock' = t
  /\ answer' = [answer EXCEPT ![t] = NoAnswers]
  /\ got' = [got EXCEPT ![t] = None]
  /\ GotoAt(t, "verify", "start")
  /\ UNCHANGED <<diskVars, n, recipeVars, kills, changes>>

\* Mutant of Unlocked: unpack does not wait for the lock.
AnyTime == TRUE

Unlocked == lock = None

Unpack(t) ==
  /\ pc[t] = "fetched" /\ Unlocked
  /\ got' = [got EXCEPT ![t] = Content]
  /\ Goto(t, "unpacked")
  /\ UNCHANGED <<diskVars, lock, at, n, answer, recipeVars, kills, changes>>

\* do_cleanall
CleanAll(t) ==
  /\ pc[t] \in AtRest \ {"fetched"} /\ lock = None
  /\ lock' = t
  /\ file' = None
  /\ GotoAt(t, "unstamp", "clean")
  /\ answer' = [answer EXCEPT ![t] = NoAnswers]
  /\ got' = [got EXCEPT ![t] = None]
  /\ UNCHANGED <<mirror, stamp, newer, n, recipeVars, kills, changes>>

Kill(t) ==
  /\ pc[t] \notin AtRest /\ kills < MaxKills
  /\ kills' = kills + 1
  /\ End(t, "idle")
  /\ answer' = [answer EXCEPT ![t] = NoAnswers]
  /\ UNCHANGED <<diskVars, got, recipeVars, changes>>

\* Between two builds a recipe, DL_DIR or the mirror changes.  Unless dates are kept, a
\* file replaced in the mirror is new: newer than any stamp.
Between ==
  /\ \A t \in Tasks : pc[t] \in AtRest \ {"fetched"}
  /\ changes < MaxBetween
  /\ changes' = changes + 1
  /\ \/ \E t \in Tasks, e \in Contents \cup {None} :
          expected' = [expected EXCEPT ![t] = e] /\ UNCHANGED diskVars
     \/ file' = None /\ UNCHANGED <<mirror, stamp, newer, expected>>
     \/ /\ mirror' \in Contents \cup {None}
        /\ \/ newer' = (newer /\ file # Link)
           \/ DatesKept /\ UNCHANGED newer
        /\ UNCHANGED <<file, stamp, expected>>
  /\ pc' = [t \in Tasks |-> "idle"]
  /\ got' = [t \in Tasks |-> None]
  /\ answer' = [t \in Tasks |-> NoAnswers]
  /\ UNCHANGED <<lock, at, n, strict, kills>>

Stamping(t) ==
  \/ VerifyMissing(t) \/ VerifyStamped(t) \/ VerifyFile(t) \/ VerifyBad(t)
  \/ Touch(t) \/ Update(t) \/ UpdateBad(t) \/ RaiseNoChecksum(t)
  \/ Store(t) \/ StoreFails(t) \/ Unstamp(t)

Sourcing(t) ==
  \/ NetSource(t) \/ FileMissing(t) \/ FileSource(t) \/ NoSource(t)
  \/ Download(t) \/ Downloaded(t) \/ DownloadFails(t) \/ Clean(t) \/ Final(t)

Step(t) ==
  /\ \/ /\ Stamping(t)
        /\ answer' = IF pc'[t] = "fetched" THEN [answer EXCEPT ![t] = NoAnswers] ELSE answer
     \/ Sourcing(t)
  /\ UNCHANGED <<got, recipeVars, kills, changes>>

Next ==
  \/ \E t \in Tasks : Step(t) \/ Start(t) \/ Unpack(t) \/ CleanAll(t) \/ Kill(t)
  \/ Between

Spec == Init /\ [][Next]_vars

-----------------------------------------------------------------------------
(* Properties *)

\* A stamp that verify_donestamp would believe has the checksums of the file that
\* is there, whatever was killed, renamed, removed or replaced since.
StampTrue == Precomputed # None /\ Exists => Precomputed = Content

\* wget never continues (-c) a file that is there: what verify_donestamp and clean
\* leave is no file.
FreshDownload == \A t \in Tasks : pc[t] = "download" => ~Exists

\* What every fetch finds and leaves in DL_DIR.
DiskRight == TypeOK /\ StampTrue /\ FreshDownload

\* When the fetch has returned, the file matches the recipe's checksum; without
\* a checksum it is at least complete, unless a task was killed before.
FetchedRight ==
  [][\A t \in Tasks : pc[t] # "fetched" /\ pc'[t] = "fetched" =>
       /\ expected[t] # None => Content' = expected[t]
       /\ Content' # None /\ (kills = 0 => Content' # Partial)]_vars

\* When all recipes ask for the same file and no fetch was killed, do_unpack finds
\* that file or none, although the lock is free between do_fetch and do_unpack and
\* others clean and fetch meanwhile.
UnpackedRight ==
  \A t \in Tasks :
    /\ pc[t] = "unpacked" /\ expected[t] # None /\ kills = 0
    /\ \A u \in Tasks : expected[u] = expected[t]
    => got[t] \in {expected[t], None}

\* A fetch that fails was not given the right file by any source, and only left
\* out sources of a list in which an earlier one gave a wrong file.
SourcesTried ==
  \A t \in Tasks :
    pc[t] = "failed" /\ expected[t] # None =>
      \A s \in Sources :
        /\ answer[t][s] # expected[t]
        /\ answer[t][s] = "untried" =>
             \E r \in 1..(s - 1) : Plan[r].list = Plan[s].list /\ answer[t][r] \in Contents

\* "After a file has been downloaded and has had its checksum checked, a .done
\* stamp is placed" (bitbake-user-manual-fetching.rst:131).  This does not hold: when
\* the recipe has no checksum, verify_donestamp stamps what a killed wget has left.
StampWhole == stamp # Partial
=============================================================================
