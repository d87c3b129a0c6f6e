-------------------------- MODULE RunQueueExecute --------------------------
(* RunQueueExecute of bitbake's runqueue.py: one loop that runs the setscene  *)
(* queue and the real queue of a task graph over a pool of worker processes,  *)
(* takes the workers' results as they arrive and re-plans setscene tasks when *)
(* the hash equivalence server changes a hash.                                *)
(*                                                                            *)
(* The server process is sequential: pc says how far the current call of      *)
(* execute() is, and the workers' messages are read where the code reads the  *)
(* pipes.                                                                     *)
EXTENDS RunQueueData, Integers, FiniteSetsExt, SequencesExt

CONSTANTS number_tasks,    \* BB_NUMBER_THREADS
          Halt,            \* FALSE with bitbake -k
          Noexec,          \* tasks with the noexec flag
          Enforced,        \* tasks BB_SETSCENE_ENFORCE does not allow to execute
          DepValid,        \* setscene tasks the depvalidate function lets be skipped
          Forced,          \* bitbake -f
          SkipSetscene,    \* bitbake --skip-setscene
          SetsceneOnly,    \* bitbake --setscene-only
          Fn,              \* Fn[t]: the recipe file (and multiconfig) of a task
          Recipe,          \* Recipe[t]: its PN, equal in every multiconfig
          Hashes,          \* unihashes
          InitHash,        \* unihash of each task before the build
          NoHash,
          Cached,          \* sstate objects <<recipe, hash>> that may pre-exist
          Stamped,         \* tasks whose stamp may pre-exist
          Rehash,          \* setscene tasks whose execution may report a new unihash
          FakerootFails,   \* tasks whose fakeroot worker cannot be spawned
          Interrupts,      \* what may end the build: "stop", "now"
          FailingTasks,    \* bound: tasks that may fail for real
          FailingSetscene, \* bound: setscene tasks that may fail
          MaxDebt          \* bound: stats.active stops decreasing at -MaxDebt

ASSUME NumberTasksAssumption == number_tasks \in Nat \ {0}
ASSUME ConfigAssumption ==
  /\ {Halt, Forced, SkipSetscene, SetsceneOnly} \subseteq BOOLEAN
  /\ Noexec \subseteq Tasks /\ Enforced \subseteq Tasks /\ Stamped \subseteq Tasks
  /\ DepValid \subseteq Setscene /\ Rehash \subseteq Setscene
ASSUME HashAssumption == InitHash \in [Tasks -> Hashes] /\ NoHash \notin Hashes
ASSUME MaxDebtAssumption == MaxDebt \in Nat

VARIABLES
  state,                  \* rq.state: "running", "cleanup", "failed", "complete"
  pc,                     \* next part of execute()
  runq_buildable, runq_running, runq_complete, runq_tasksrun,
  failed_tids,
  active,                 \* stats.active
  sq,                     \* setscene bookkeeping, see SqState
  sq_live, sq_deferred, sqdone,
  tasks_covered, tasks_notcovered, holdoff_tasks,
  updated_taskhash_queue, pending_migrations,
  unihash,                \* runtaskentries[t].unihash
  changed,                \* local of process_possible_migrations
  worker,                 \* process of each task: "none", "run", "ok", "fail"
  reported,               \* hash the running process has reported, or NoHash
  stamp,                  \* stamp and setscene stamp files: 0 absent,
  sstamp,                 \*   1 from an earlier build, 2 from this one
  sstate                  \* sstate objects <<recipe, hash>> that exist

runqVars == <<runq_buildable, runq_running, runq_complete, runq_tasksrun,
              failed_tids, active>>
sqVars == <<sq, sq_live, sq_deferred, sqdone>>
holdoffVars == <<tasks_covered, tasks_notcovered, holdoff_tasks>>
hashVars == <<updated_taskhash_queue, pending_migrations, unihash, changed>>
workerVars == <<worker, reported, stamp, sstamp, sstate>>

vars == <<state, pc, runqVars, sqVars, holdoffVars, hashVars, workerVars>>

\* The setscene bookkeeping of the server, handled as one value by the nested
\* handlers of the scene queue.  need is holdoff_need_update.
SqState == [buildable : SUBSET Setscene, running : SUBSET Setscene,
            covered : SUBSET Setscene, notcovered : SUBSET Setscene,
            notneeded : SUBSET Setscene, outrightfail : SUBSET Setscene,
            done : SUBSET Tasks, need : BOOLEAN]

TypeOK ==
  /\ state \in {"running", "cleanup", "failed", "complete"}
  /\ pc \in {"begin", "read", "migrate", "setscene", "holdoff", "sqdone", "real", "wait"}
  /\ runq_buildable \subseteq Tasks /\ runq_running \subseteq Tasks
  /\ runq_complete \subseteq Tasks /\ runq_tasksrun \subseteq Tasks
  /\ failed_tids \subseteq Tasks
  /\ active \in Int /\ -MaxDebt <= active
  /\ sq \in SqState
  /\ sq_live \subseteq Setscene
  /\ DOMAIN sq_deferred \subseteq Setscene
  /\ \A t \in DOMAIN sq_deferred : sq_deferred[t] \in Setscene
  /\ sqdone \in BOOLEAN
  /\ tasks_covered \subseteq Tasks /\ tasks_notcovered \subseteq Tasks
  /\ holdoff_tasks \subseteq Tasks
  /\ updated_taskhash_queue \subseteq Setscene \X Hashes
  /\ pending_migrations \subseteq Setscene
  /\ unihash \in [Tasks -> Hashes]
  /\ changed \in BOOLEAN
  /\ worker \in [Tasks -> {"none", "run", "ok", "fail"}]
  /\ reported \in [Tasks -> Hashes \cup {NoHash}]
  /\ stamp \in [Tasks -> 0..2] /\ sstamp \in [Tasks -> 0..2]

Live == {t \in Tasks : worker[t] # "none"}
RealLive == Live \ sq_live
InFlight == runq_running \ runq_complete    \* started and not finished

\* BB_SETSCENE_ENFORCE is on
setscene_enforce == Enforced # {}

-----------------------------------------------------------------------------
(* Stamps and sstate objects *)

SetsceneNewer(d) == sstamp[d] # 0 /\ (stamp[d] = 0 \/ sstamp[d] > stamp[d])

\* check_stamp_task(t, taskname): only dependencies of the same recipe count,
\* and of those a newer or only setscene stamp is good as it is.
StampCurrent(t) ==
  /\ stamp[t] # 0
  /\ \A d \in depends[t] :
       Fn[d] = Fn[t] => SetsceneNewer(d) \/ (stamp[d] # 0 /\ stamp[t] >= stamp[d])

\* check_stamp_task(t, taskname, recurse=True)
StampCurrentRec[t \in Tasks] ==
  /\ StampCurrent(t)
  /\ \A d \in depends[t] : Fn[d] = Fn[t] => SetsceneNewer(d) \/ StampCurrentRec[d]

\* check_setscene_stamps: noexec, or a stamp is present
NoexecOrStamped(t) == t \in Noexec \/ sstamp[t] # 0 \/ StampCurrentRec[t]

\* validate_hashes
Valid(t, uni) == <<Recipe[t], uni[t]>> \in sstate

-----------------------------------------------------------------------------
(* Handlers of the scene queue, as functions of its bookkeeping *)

Processed(s) == s.covered \cup s.notcovered

\* tasks_scenequeue_done after the setscene tasks F are processed: down the
\* dependency chains, normal tasks all of whose reverse dependencies are done.
SceneQueueDone(done, F) ==
  LET f[n \in 0..Cardinality(Tasks)] ==
        IF n = 0 THEN [all |-> done \cup F, new |-> F]
        ELSE LET p   == f[n - 1]
                 add == {d \in Tasks \ (Setscene \cup p.all) :
                           revdeps[d] \cap p.new # {} /\ revdeps[d] \subseteq p.all}
             IN  [all |-> p.all \cup add, new |-> add]
  IN  f[Cardinality(Tasks)].all

\* Mutant of UpdateCounters: the hold-off is not recomputed.
CountersOnly(s, F, fail) ==
  LET ready == {d \in UNION {sq_deps[t] : t \in F} : sq_revdeps[d] \subseteq Processed(s)}
  IN  [s EXCEPT !.buildable = @ \cup ready, !.done = SceneQueueDone(@, F)]

\* scenequeue_updatecounters for every task of F, just processed.
UpdateCounters(s, F, fail) ==
  LET ready == {d \in Setscene :
                  /\ \E t \in F : d \in sq_deps[t]
                                    /\ (fail => d \notin sq_harddeps[t])
                  /\ sq_revdeps[d] \subseteq Processed(s)}
  IN  [s EXCEPT !.buildable = @ \cup ready,
                !.done = SceneQueueDone(@, F),
                !.need = TRUE]

\* t fails, and with it what hard-depends on it and is not yet processed.
FailedWith(s, t) ==
  LET f[n \in 0..Cardinality(Setscene)] ==
        IF n = 0 THEN {t}
        ELSE LET p == f[n - 1]
             IN  p \cup {d \in UNION {sq_harddeps[x] : x \in p} :
                           d \notin Processed(s) /\ ~NoexecOrStamped(d)}
  IN  f[Cardinality(Setscene)]

sq_task_completeoutright(s, F) ==
  UpdateCounters([s EXCEPT !.covered = @ \cup F], F, FALSE)

sq_task_skip(s, F) ==
  sq_task_completeoutright([s EXCEPT !.running = @ \cup F,
                                     !.buildable = @ \cup F], F)

sq_task_fail(s, t) ==
  LET F == FailedWith(s, t)
  IN  UpdateCounters([s EXCEPT !.notcovered = @ \cup F,
                               !.running = @ \cup (F \ {t}),
                               !.buildable = @ \cup (F \ {t})], F, TRUE)

sq_task_failoutright(s, t) ==
  sq_task_fail([s EXCEPT !.running = @ \cup {t}, !.buildable = @ \cup {t}], t)

\* update_scenequeue_data(T, ...) with the hashes uni and deferrals def
update_scenequeue_data(s, T, uni, def) ==
  LET skip == {t \in T : NoexecOrStamped(t)}
      s1   == IF skip = {} THEN s ELSE sq_task_skip(s, skip)
      bad  == {t \in T \ skip : /\ ~Valid(t, uni)
                                /\ t \notin Processed(s1)
                                /\ t \notin DOMAIN def}
  IN  [s1 EXCEPT !.outrightfail = (@ \ T) \cup bad]

-----------------------------------------------------------------------------
(* Construction: RunQueueExecute.__init__ and build_scenequeue_data *)

HashIndex(t, uni) == <<Recipe[t], uni[t]>>

\* sqdata.hashes, filled once: the first setscene task with each index
hashes == [h \in {HashIndex(t, InitHash) : t \in Setscene} |->
             Min({t \in Setscene : HashIndex(t, InitHash) = h})]

\* Tasks of T whose index belongs to another task: they wait for that one.
Twins(T, uni) ==
  {t \in T : HashIndex(t, uni) \in DOMAIN hashes /\ hashes[HashIndex(t, uni)] # t}

Defer(def, T, uni) ==
  [t \in DOMAIN def \cup Twins(T, uni) |->
     IF t \in Twins(T, uni) THEN hashes[HashIndex(t, uni)] ELSE def[t]]

InitDeferred == Defer([t \in {} |-> t], Setscene, InitHash)

InitSq ==
  update_scenequeue_data(
    [buildable |-> {t \in Setscene : sq_revdeps[t] = {}}, running |-> {},
     covered |-> {}, notcovered |-> {}, notneeded |-> {}, outrightfail |-> {},
     done |-> unskippable \ Setscene, need |-> TRUE],
    Setscene, InitHash, InitDeferred)

Init ==
  /\ state = "running" /\ pc = "begin"
  /\ unihash = InitHash
  /\ \E S \in SUBSET Stamped : \E X \in SUBSET (Setscene \cap (Stamped \ S)) :
       /\ stamp = [t \in Tasks |-> IF t \in S THEN 1 ELSE 0]
       \* check_setscene_stamps stamps a noexec setscene task
       /\ sstamp = [t \in Tasks |-> IF t \in Noexec \cap Setscene THEN 2
                                     ELSE IF t \in X THEN 1 ELSE 0]
  /\ sstate \in SUBSET Cached
  /\ worker = [t \in Tasks |-> "none"]
  /\ reported = [t \in Tasks |-> NoHash]
  /\ sq = InitSq
  /\ sq_live = {} /\ sq_deferred = InitDeferred
  /\ sqdone = (Setscene = {})
  \* without setscene tasks every task without dependencies is buildable
  /\ runq_buildable = {t \in IF Setscene = {} THEN Tasks ELSE unskippable \ Setscene :
                         depends[t] = {}}
  /\ tasks_notcovered = IF Setscene = {} THEN Tasks ELSE {}
  /\ tasks_covered = {} /\ holdoff_tasks = {}
  /\ runq_running = {} /\ runq_complete = {} /\ runq_tasksrun = {}
  /\ failed_tids = {} /\ active = 0
  /\ updated_taskhash_queue = {} /\ pending_migrations = {} /\ changed = FALSE

-----------------------------------------------------------------------------
(* The workers *)

\* A process may report the unihash the server gave its output (once).
WorkerUniHash(t, h) ==
  /\ pc \in {"begin", "read"} /\ state \in {"running", "cleanup"}
  /\ t \in Rehash \ sq_live /\ worker[t] = "run" /\ reported[t] = NoHash
  /\ ~setscene_enforce
  /\ reported' = [reported EXCEPT ![t] = h]
  /\ updated_taskhash_queue' = updated_taskhash_queue \cup {<<t, h>>}
  /\ UNCHANGED <<state, pc, runqVars, sqVars, holdoffVars, pending_migrations,
                 unihash, changed, worker, stamp, sstamp, sstate>>

\* The process ends.  A real task that succeeds replaces the stamps of its task
\* (make_stamp removes the setscene stamp too) and, if it is setscene-able, adds
\* the sstate object of the hash it ended up with.  With setscene_enforce the
\* worker only pretends to execute it.
ExitOk(t) ==
  /\ worker' = [worker EXCEPT ![t] = "ok"]
  /\ stamp' = [stamp EXCEPT ![t] = IF t \in sq_live \/ setscene_enforce THEN @ ELSE 2]
  /\ sstamp' = [sstamp EXCEPT ![t] = IF t \in sq_live THEN 2
                                     ELSE IF setscene_enforce THEN @ ELSE 0]
  /\ sstate' = IF t \in sq_live \/ t \notin Setscene \/ setscene_enforce THEN sstate
               ELSE sstate \cup {<<Recipe[t], IF reported[t] = NoHash THEN unihash[t]
                                             ELSE reported[t]>>}

ExitFail(t) ==
  /\ t \in IF t \in sq_live THEN FailingSetscene ELSE FailingTasks
  /\ ~setscene_enforce \/ t \in sq_live
  /\ worker' = [worker EXCEPT ![t] = "fail"]
  /\ UNCHANGED <<stamp, sstamp, sstate>>

WorkerExit(t) ==
  /\ pc = "begin" /\ worker[t] = "run"
  /\ ExitOk(t) \/ ExitFail(t)
  /\ UNCHANGED <<state, pc, runqVars, sqVars, holdoffVars, hashVars, reported>>

-----------------------------------------------------------------------------
(* runqueue_process_waitpid: the exit code of t is read from the pipe *)

\* task_completeoutright(T) for one task; the deferred setscene tasks that
\* waited for it are looked up again.
task_completeoutright(t) ==
  LET ready == {r \in revdeps[t] : /\ r \notin runq_running \cup runq_buildable
                                   /\ depends[r] \subseteq runq_complete \cup {t}}
      freed == {d \in DOMAIN sq_deferred : sq_deferred[d] = t}
      def   == [d \in DOMAIN sq_deferred \ freed |-> sq_deferred[d]]
  IN  /\ runq_complete' = runq_complete \cup {t}
      /\ runq_buildable' = runq_buildable \cup ready
      /\ sq_deferred' = def
      /\ sq' = IF freed = {} THEN sq ELSE update_scenequeue_data(sq, freed, unihash, def)

\* Mutants of Decreased.
CountedTwice == active - 2

\* stats.taskCompleted() and stats.taskFailed() count down whatever the count.
Decreased == IF active > -MaxDebt THEN active - 1 ELSE active

ReadPhase == pc \in {"begin", "read"} /\ state \in {"running", "cleanup"}

TaskComplete(t) ==
  /\ ReadPhase /\ t \notin sq_live /\ worker[t] = "ok"
  /\ worker' = [worker EXCEPT ![t] = "none"]
  /\ active' = Decreased
  /\ task_completeoutright(t)
  /\ runq_tasksrun' = runq_tasksrun \cup {t}
  /\ UNCHANGED <<state, pc, runq_running, failed_tids, sq_live, sqdone,
                 holdoffVars, hashVars, reported, stamp, sstamp, sstate>>

\* stats.taskFailed() and failed_tids, for a task that ran or was refused
task_fail(t) ==
  /\ active' = Decreased
  /\ failed_tids' = failed_tids \cup {t}
  /\ state' = IF Halt THEN "cleanup" ELSE state

TaskFail(t) ==
  /\ ReadPhase /\ t \notin sq_live /\ worker[t] = "fail"
  /\ worker' = [worker EXCEPT ![t] = "none"]
  /\ task_fail(t)
  /\ UNCHANGED <<pc, runq_buildable, runq_running, runq_complete, runq_tasksrun,
                 sqVars, holdoffVars, hashVars, reported, stamp, sstamp, sstate>>

SetsceneComplete(t) ==
  /\ ReadPhase /\ t \in sq_live /\ worker[t] = "ok"
  /\ worker' = [worker EXCEPT ![t] = "none"]
  /\ sq' = sq_task_completeoutright(sq, {t})
  /\ sq_live' = sq_live \ {t}
  /\ UNCHANGED <<state, pc, runqVars, sq_deferred, sqdone, holdoffVars, hashVars,
                 reported, stamp, sstamp, sstate>>

\* sq_task_fail and sq_check_taskfail
SetsceneFail(t) ==
  /\ ReadPhase /\ t \in sq_live /\ worker[t] = "fail"
  /\ worker' = [worker EXCEPT ![t] = "none"]
  /\ sq' = sq_task_fail(sq, t)
  /\ sq_live' = sq_live \ {t}
  /\ state' = IF t \in Enforced THEN "cleanup" ELSE state
  /\ UNCHANGED <<pc, runqVars, sq_deferred, sqdone, holdoffVars, hashVars,
                 reported, stamp, sstamp, sstate>>

-----------------------------------------------------------------------------
(* execute(), first part: read_workers() and process_possible_migrations() *)

\* execute() is called while the state is running; between here and the end of
\* the "read" phase the workers' messages are taken from the pipes.
Execute ==
  /\ pc = "begin" /\ state = "running"
  /\ pc' = "read"
  /\ UNCHANGED <<state, runqVars, sqVars, holdoffVars, hashVars, workerVars>>

\* process_possible_migrations is not called with both collections empty.
NothingToMigrate ==
  /\ pc = "read" /\ updated_taskhash_queue = {} /\ pending_migrations = {}
  /\ pc' = "setscene"
  /\ UNCHANGED <<state, runqVars, sqVars, holdoffVars, hashVars, workerVars>>

\* The hashes once the ready part of the queue is applied: a task takes along
\* the setscene tasks deferred against it.
Reported(ready) ==
  [t \in Tasks |->
     LET src == {t} \cup {sq_deferred[d] : d \in {t} \cap DOMAIN sq_deferred}
         new == {x \in ready : x[1] \in src /\ x[2] # unihash[x[1]]}
     IN  IF new = {} THEN unihash[t] ELSE (CHOOSE x \in new : TRUE)[2]]

\* Setscene tasks that keep their hash: they ran with it or are running.
Remapped == sq.covered \cup sq_live

\* Mutant of ReadyReports: a running task is rehashed too.
AllReports == updated_taskhash_queue

\* Reports of tasks that have ended.
ReadyReports == {x \in updated_taskhash_queue : x[1] \notin InFlight}

\* First half of process_possible_migrations: apply the reported hashes of tasks
\* that are not in flight and rehash, in dependency order, everything above
\* them.  The server may map a new task hash to any unihash.  A setscene task
\* that is covered or running keeps its hash ("remap").
ProcessTaskHashes ==
  /\ pc = "read" /\ (updated_taskhash_queue # {} \/ pending_migrations # {})
  /\ LET ready == ReadyReports
         uni1  == Reported(ready)
         first == {t \in Tasks : uni1[t] # unihash[t]}
         total == UNION {Above[t] : t \in first}
         twins == {t \in first : ~\E x \in ready : x[1] = t}
     IN  \E new \in [total -> Hashes] :
           /\ \A t \in total : new[t] # uni1[t] =>
                \E d \in depends[t] : d \in first \/ (d \in total /\ new[d] # uni1[d])
           /\ LET moved == {t \in total : new[t] # uni1[t]} \ Remapped
              IN  /\ unihash' = [t \in Tasks |-> IF t \in moved THEN new[t] ELSE uni1[t]]
                  /\ pending_migrations' = pending_migrations \cup (moved \cap Setscene)
                  /\ changed' = (moved # {})
                  \* the stamp files of the old hash no longer count
                  /\ stamp' = [t \in Tasks |-> IF t \in moved \cup twins THEN 0 ELSE stamp[t]]
                  /\ sstamp' = [t \in Tasks |-> IF t \in moved \cup first THEN 0 ELSE sstamp[t]]
         /\ updated_taskhash_queue' = updated_taskhash_queue \ ready
  /\ pc' = "migrate"
  /\ UNCHANGED <<state, runqVars, sqVars, holdoffVars, worker, reported, sstate>>

\* Mutant of Requeued: scenequeue_notcovered keeps the task.
RequeuedKeepsResult(s, t, buildable) ==
  [s EXCEPT !.done = (@ \ {t}) \ (sq_covered_tasks[t] \ (runq_complete \cup unskippable)),
            !.buildable = (@ \ {t}) \cup {x \in {t} : buildable},
            !.running = @ \ {t}, !.outrightfail = @ \ {t},
            !.covered = @ \ {t}, !.notneeded = @ \ {t}]

\* Setscene task t goes back to the scene queue, buildable or not yet.
Requeued(s, t, buildable) ==
  [s EXCEPT !.done = (@ \ {t}) \ (sq_covered_tasks[t] \ (runq_complete \cup unskippable)),
            !.buildable = (@ \ {t}) \cup {x \in {t} : buildable},
            !.running = @ \ {t}, !.outrightfail = @ \ {t},
            !.covered = @ \ {t}, !.notcovered = @ \ {t}, !.notneeded = @ \ {t}]

\* Mutant of CoversRunning.
NeverRunning(t) == FALSE

\* A task that t covers is running.
CoversRunning(t) == sq_covered_tasks[t] \cap InFlight # {}

\* Mutant of HardDepFail.
NeverFailed(s, t) == FALSE

\* A setscene task that t hard-depends on is not available.
HardDepFail(s, t) == \E x \in s.notcovered : t \in sq_harddeps[x]

\* One round of the loop over pending_migrations; m is what it has changed.
MigrateOne(m, t) ==
  LET s      == m.sq
      covers == sq_covered_tasks[t]
      hard   == HardDepFail(s, t)
      ready  == ~hard /\ sq_revdeps[t] \subseteq Processed(s)
      late   == t \in runq_running \cup sq_live
      wait   == CoversRunning(t)
      broken == covers \cap (runq_complete \ runq_tasksrun) # {}
  IN  CASE m.halt -> m
        [] ~m.halt /\ late -> [m EXCEPT !.pending = @ \ {t}]
        [] ~m.halt /\ ~late /\ wait -> m
        \* "marked as completed but now needing to rerun? Halting build."
        [] ~m.halt /\ ~late /\ ~wait /\ broken ->
             [m EXCEPT !.pending = @ \ {t}, !.halt = TRUE, !.failed = {t},
                       !.sq.done = @ \ {t}]
        [] OTHER -> [m EXCEPT !.pending = @ \ {t}, !.migrated = @ \cup {t},
                              !.hard = @ \cup {x \in {t} : hard},
                              !.sq = Requeued(s, t, ready \/ sq_revdeps[t] = {})]

\* The rounds for all pending migrations, in the order ord.
Migrated(ord) ==
  LET f[n \in 0..Cardinality(pending_migrations)] ==
        IF n = 0 THEN [sq |-> sq, pending |-> pending_migrations, migrated |-> {},
                       hard |-> {}, failed |-> {}, halt |-> FALSE]
        ELSE MigrateOne(f[n - 1], ord[n])
  IN  f[Cardinality(pending_migrations)]

\* Those that hard-depend on what is not available fail, in the same order.
HardFailed(s, ord, hard) ==
  LET f[n \in 0..Cardinality(pending_migrations)] ==
        IF n = 0 THEN s
        ELSE IF ord[n] \in hard THEN sq_task_failoutright(f[n - 1], ord[n])
        ELSE f[n - 1]
  IN  f[Cardinality(pending_migrations)]

\* Second half: the setscene tasks whose hash has changed go back to the scene
\* queue.  Iteration over the Python set is in any order.
MigratePending ==
  /\ pc = "migrate"
  /\ \E ord \in SetToSeqs(pending_migrations) :
       LET m   == Migrated(ord)
           def == Defer(sq_deferred, m.migrated, unihash)
           s1  == IF m.migrated = {} THEN m.sq
                  ELSE update_scenequeue_data(m.sq, m.migrated, unihash, def)
           s2  == HardFailed(s1, ord, m.hard)
       IN  /\ pending_migrations' = m.pending
           /\ failed_tids' = failed_tids \cup m.failed
           /\ state' = IF m.halt THEN "cleanup" ELSE state
           /\ sq_deferred' = IF m.halt THEN sq_deferred ELSE def
           /\ sqdone' = (sqdone /\ (m.halt \/ m.migrated = {}))
           /\ sq' = IF m.halt THEN m.sq
                    ELSE [s2 EXCEPT !.need = @ \/ changed \/ m.migrated # {}]
  /\ changed' = FALSE
  /\ pc' = "setscene"
  /\ UNCHANGED <<runq_buildable, runq_running, runq_complete, runq_tasksrun, active,
                 sq_live, holdoffVars, updated_taskhash_queue, unihash, workerVars>>

-----------------------------------------------------------------------------
(* execute(), second part: the setscene queue *)

\* Mutant of can_start_task: live setscene tasks are not counted.
RealTasksOnly == active < number_tasks

can_start_task == active + Cardinality(sq_live) < number_tasks

\* A setscene task nothing needs any more: all that would use it is covered.
Skippable(t) ==
  /\ t \notin unskippable \cup Targets
  /\ sq_revdeps[t] # {} /\ sq_revdeps[t] \subseteq sq.covered
  /\ t \in DepValid

Blocked(t) == t \in DOMAIN sq_deferred /\ sq_deferred[t] \notin runq_complete

\* The tasks at which the loop over sorted_setscene_tids can stop.
SetsceneChoice ==
  IF sqdone \/ ~can_start_task THEN {}
  ELSE {t \in sq.buildable \ sq.running : Skippable(t) \/ ~Blocked(t)}

Undefer(t) == [d \in DOMAIN sq_deferred \ {t} |-> sq_deferred[d]]

NextSetscene(t) == pc = "setscene" /\ SetsceneChoice # {} /\ t = Min(SetsceneChoice)

NoSetscene ==
  /\ pc = "setscene" /\ SetsceneChoice = {}
  /\ pc' = "holdoff"
  /\ UNCHANGED <<state, runqVars, sqVars, holdoffVars, hashVars, workerVars>>

\* Mutant of Unavailable: bitbake -f is ignored.
UnavailableUnforced(t) ==
  \/ t \in DOMAIN sq_deferred /\ ~Valid(t, unihash)
  \/ t \in sq.outrightfail
  \/ StampCurrentRec[t]
  \/ SkipSetscene /\ sstamp[t] = 0

\* Reasons not to run the setscene task but to build what it covers.
Unavailable(t) ==
  \/ t \in DOMAIN sq_deferred /\ ~Valid(t, unihash)
  \/ t \in sq.outrightfail
  \/ StampCurrentRec[t]
  \/ Forced /\ t \in Targets
  \/ SkipSetscene /\ sstamp[t] = 0

SetsceneFailOutright(t) ==
  /\ NextSetscene(t) /\ ~Skippable(t) /\ Unavailable(t)
  /\ sq' = sq_task_failoutright(sq, t)
  /\ sq_deferred' = Undefer(t)
  /\ pc' = "begin"
  /\ UNCHANGED <<state, runqVars, sq_live, sqdone, holdoffVars, hashVars, workerVars>>

\* Not needed, or its setscene stamp is current.
SetsceneSkip(t) ==
  /\ NextSetscene(t)
  /\ Skippable(t) \/ (~Unavailable(t) /\ sstamp[t] # 0)
  /\ sq' = [sq_task_skip(sq, {t}) EXCEPT
              !.notneeded = @ \cup {x \in {t} : Skippable(x)}]
  /\ sq_deferred' = Undefer(t)
  /\ pc' = "begin"
  /\ UNCHANGED <<state, runqVars, sq_live, sqdone, holdoffVars, hashVars, workerVars>>

SetsceneStart(t) ==
  /\ NextSetscene(t) /\ ~Skippable(t) /\ ~Unavailable(t) /\ sstamp[t] = 0
  /\ sq' = [sq EXCEPT !.running = @ \cup {t}]
  /\ sq_live' = sq_live \cup {t}
  /\ sq_deferred' = Undefer(t)
  /\ worker' = [worker EXCEPT ![t] = "run"]
  /\ pc' = IF active + Cardinality(sq_live') < number_tasks THEN "begin" ELSE "holdoff"
  /\ UNCHANGED <<state, runqVars, sqdone, holdoffVars, hashVars,
                 reported, stamp, sstamp, sstate>>

-----------------------------------------------------------------------------
(* execute(), third part: what the scene queue has decided *)

\* update_holdofftasks: what is built, what is covered, what is not decided yet
NotCovered ==
  ( sq.notcovered \cup cantskip \cup (unskippable \ Setscene)
      \cup UNION {sq_covered_tasks[t] : t \in sq.notcovered} ) \cap sq.done

\* Mutant of Covered: tasks that have to be built are covered as well.
CoveredAnyway ==
  (sq.covered \cup UNION {sq_covered_tasks[t] : t \in sq.covered}) \cap sq.done

Covered ==
  ( (sq.covered \cup UNION {sq_covered_tasks[t] : t \in sq.covered}) \ NotCovered )
    \cap sq.done

Holdoff ==
  LET open == Setscene \ Processed(sq)
  IN  open \cup ((UNION {sq_covered_tasks[t] : t \in open}) \ runq_complete)

\* Mutant of NowBuildable: the dependencies are not looked at.
AllDecided == NotCovered \cup Covered

NowBuildable == {t \in NotCovered \cup Covered : depends[t] \subseteq runq_complete}

UpdateHoldoff ==
  /\ pc = "holdoff" /\ sq.need
  /\ tasks_notcovered' = NotCovered
  /\ tasks_covered' = Covered
  /\ runq_buildable' = runq_buildable \cup NowBuildable
  /\ holdoff_tasks' = Holdoff
  /\ sq' = [sq EXCEPT !.need = FALSE]
  /\ pc' = "sqdone"
  /\ UNCHANGED <<state, runq_running, runq_complete, runq_tasksrun, failed_tids, active,
                 sq_live, sq_deferred, sqdone, hashVars, workerVars>>

HoldoffCurrent ==
  /\ pc = "holdoff" /\ ~sq.need
  /\ pc' = "sqdone"
  /\ UNCHANGED <<state, runqVars, sqVars, holdoffVars, hashVars, workerVars>>

\* summarise_scenequeue_errors
SceneQueueError ==
  \/ DOMAIN sq_deferred # {} \/ updated_taskhash_queue # {} \/ holdoff_tasks # {}
  \/ ~(Setscene \subseteq Processed(sq) \cap sq.buildable \cap sq.running)
  \/ ~(Tasks \subseteq (tasks_covered \cup tasks_notcovered) \cap sq.done)
  \/ \E t \in Tasks : depends[t] = {} /\ t \notin runq_buildable

SceneQueueIdle ==
  /\ sq_live = {} /\ ~sqdone /\ DOMAIN sq_deferred = {}
  /\ updated_taskhash_queue = {} /\ holdoff_tasks = {}

SceneQueueOpen ==
  /\ pc = "sqdone" /\ ~SceneQueueIdle
  /\ pc' = "real"
  /\ UNCHANGED <<state, runqVars, sqVars, holdoffVars, hashVars, workerVars>>

SceneQueueComplete ==
  /\ pc = "sqdone" /\ SceneQueueIdle
  /\ IF SceneQueueError
     THEN state' = "failed" /\ pc' = "begin" /\ UNCHANGED sqdone
     ELSE IF SetsceneOnly
     THEN state' = "complete" /\ pc' = "begin" /\ UNCHANGED sqdone
     ELSE sqdone' = TRUE /\ pc' = "real" /\ UNCHANGED state
  /\ UNCHANGED <<runqVars, sq, sq_live, sq_deferred, holdoffVars, hashVars, workerVars>>

-----------------------------------------------------------------------------
(* execute(), fourth part: the real tasks *)

\* Mutant of Schedulable: the hold-off and the coverage are not looked at.
SchedulableAny == IF SetsceneOnly \/ ~can_start_task THEN {} ELSE runq_buildable \ runq_running

\* The tasks sched.next() may return; the priority map decides among them.
Schedulable ==
  IF SetsceneOnly \/ ~can_start_task THEN {}
  ELSE ((runq_buildable \ runq_running) \ holdoff_tasks)
         \cap (tasks_covered \cup tasks_notcovered)

NextTask(t) == pc = "real" /\ t \in Schedulable

NoTask ==
  /\ pc = "real" /\ Schedulable = {}
  /\ pc' = "wait"
  /\ UNCHANGED <<state, runqVars, sqVars, holdoffVars, hashVars, workerVars>>

\* check_setscene_ignore_tasks
Refused(t) ==
  t \in Enforced \ (tasks_covered \cup Noexec) /\ ~StampCurrent(t)

RefuseTask(t) ==
  /\ NextTask(t) /\ Refused(t)
  /\ task_fail(t)
  /\ pc' = "begin"
  /\ UNCHANGED <<runq_buildable, runq_running, runq_complete, runq_tasksrun,
                 sqVars, holdoffVars, hashVars, workerVars>>

\* Mutant of SkippedRan.
NotRun(t) == {}

\* A stamped task counts as run, a covered one does not.
SkippedRan(t) == {t} \ tasks_covered

\* task_skip(task, "covered") or task_skip(task, "existing")
SkipTask(t) ==
  /\ NextTask(t) /\ ~Refused(t) /\ (t \in tasks_covered \/ StampCurrent(t))
  /\ runq_running' = runq_running \cup {t}
  /\ task_completeoutright(t)
  /\ runq_tasksrun' = runq_tasksrun \cup SkippedRan(t)
  /\ pc' = "begin"
  /\ UNCHANGED <<state, failed_tids, active, sq_live, sqdone, holdoffVars, hashVars,
                 workerVars>>

\* No worker can be spawned for t: start_fakeworker raises OSError.
NoFakeroot(t) == t \in FakerootFails /\ ~setscene_enforce

MustRun(t) == ~Refused(t) /\ t \notin tasks_covered /\ ~StampCurrent(t)

NoexecTask(t) ==
  /\ NextTask(t) /\ MustRun(t) /\ t \in Noexec
  /\ runq_running' = runq_running \cup {t}
  /\ stamp' = [stamp EXCEPT ![t] = IF setscene_enforce THEN @ ELSE 2]
  /\ sstamp' = [sstamp EXCEPT ![t] = IF setscene_enforce THEN @ ELSE 0]
  /\ task_completeoutright(t)
  /\ runq_tasksrun' = runq_tasksrun \cup {t}
  /\ pc' = "begin"
  /\ UNCHANGED <<state, failed_tids, active, sq_live, sqdone, holdoffVars, hashVars,
                 worker, reported, sstate>>

StartTask(t) ==
  /\ NextTask(t) /\ MustRun(t) /\ t \notin Noexec /\ ~NoFakeroot(t)
  /\ runq_running' = runq_running \cup {t}
  /\ active' = active + 1
  /\ worker' = [worker EXCEPT ![t] = "run"]
  /\ pc' = IF active' + Cardinality(sq_live) < number_tasks THEN "begin" ELSE "wait"
  /\ UNCHANGED <<state, runq_buildable, runq_complete, runq_tasksrun, failed_tids,
                 sqVars, holdoffVars, hashVars, reported, stamp, sstamp, sstate>>

FakerootSpawnFails(t) ==
  /\ NextTask(t) /\ MustRun(t) /\ t \notin Noexec /\ NoFakeroot(t)
  /\ active' = Decreased
  /\ state' = "failed" /\ pc' = "begin"
  /\ UNCHANGED <<runq_buildable, runq_running, runq_complete, runq_tasksrun, failed_tids,
                 sqVars, holdoffVars, hashVars, workerVars>>

-----------------------------------------------------------------------------
(* execute(), last part: wait, break a deadlock, or end the build *)

\* Mutant of Busy.
BusyAtZero == active >= 0 \/ sq_live # {}

Busy == active > 0 \/ sq_live # {}

WaitForWorkers ==
  /\ pc = "wait" /\ Busy
  /\ pc' = "begin"
  /\ UNCHANGED <<state, runqVars, sqVars, holdoffVars, hashVars, workerVars>>

\* sq_deferred.pop() of one key gives the task that key waited for.
ForceDeferred ==
  /\ pc = "wait" /\ ~Busy /\ DOMAIN sq_deferred # {}
  /\ \E key \in DOMAIN sq_deferred :
       LET t == sq_deferred[key]
       IN  /\ sq_deferred' = Undefer(key)
           /\ sq' = IF t \in runq_complete THEN sq ELSE sq_task_failoutright(sq, t)
  /\ pc' = "begin"
  /\ UNCHANGED <<state, runqVars, sq_live, sqdone, holdoffVars, hashVars, workerVars>>

\* The sanity checks once nothing is left to run.
AllTasksRan == Tasks \subseteq runq_buildable \cap runq_running \cap runq_complete

EndOfBuild ==
  /\ pc = "wait" /\ ~Busy /\ DOMAIN sq_deferred = {}
  /\ state' = IF failed_tids = {} /\ ~SceneQueueError /\ AllTasksRan
              THEN "complete" ELSE "failed"
  /\ pc' = "begin"
  /\ UNCHANGED <<runqVars, sqVars, holdoffVars, hashVars, workerVars>>

\* What finish() waits for.
StillActive == active + Cardinality(sq_live)

\* Mutant of Outcome.
AlwaysComplete == "complete"

\* What finish() and finish_now() make of the build.
Outcome == IF failed_tids = {} THEN "complete" ELSE "failed"

\* finish() while cleaning up
Finish ==
  /\ pc = "begin" /\ state = "cleanup" /\ StillActive <= 0
  /\ state' = Outcome
  /\ UNCHANGED <<pc, runqVars, sqVars, holdoffVars, hashVars, workerVars>>

\* finish_runqueue(): the user's first interrupt, or a full disk
StopBuild ==
  /\ pc = "begin" /\ state = "running" /\ "stop" \in Interrupts
  /\ state' = "cleanup"
  /\ UNCHANGED <<pc, runqVars, sqVars, holdoffVars, hashVars, workerVars>>

\* finish_runqueue(now=True): the second interrupt, or a worker that has died
FinishNow ==
  /\ pc = "begin" /\ state \in {"running", "cleanup"} /\ "now" \in Interrupts
  /\ state' = Outcome
  /\ UNCHANGED <<pc, runqVars, sqVars, holdoffVars, hashVars, workerVars>>

Terminated ==
  /\ pc = "begin" /\ state \in {"failed", "complete"}
  /\ UNCHANGED vars

-----------------------------------------------------------------------------
ReadWorker(t) ==
  TaskComplete(t) \/ TaskFail(t) \/ SetsceneComplete(t) \/ SetsceneFail(t)

Schedule ==
  \/ Execute \/ NothingToMigrate \/ ProcessTaskHashes \/ MigratePending
  \/ NoSetscene
  \/ \E t \in Setscene : \/ SetsceneSkip(t) \/ SetsceneFailOutright(t)
                         \/ SetsceneStart(t)
  \/ UpdateHoldoff \/ HoldoffCurrent \/ SceneQueueOpen \/ SceneQueueComplete
  \/ NoTask
  \/ \E t \in Tasks : \/ RefuseTask(t) \/ SkipTask(t) \/ NoexecTask(t)
                      \/ StartTask(t) \/ FakerootSpawnFails(t)
  \/ WaitForWorkers \/ ForceDeferred \/ EndOfBuild \/ Finish

Next ==
  \/ Schedule
  \/ \E t \in Tasks : WorkerExit(t) \/ ReadWorker(t)
  \/ \E t \in Tasks, h \in Hashes : WorkerUniHash(t, h)
  \/ StopBuild \/ FinishNow
  \/ Terminated

Spec == Init /\ [][Next]_vars

\* The server's main loop calls execute() again and again, every process ends,
\* and what it sent is read.
FairSpec ==
  /\ Spec
  /\ WF_vars(Schedule)
  /\ \A t \in Tasks : SF_vars(WorkerExit(t)) /\ SF_vars(ReadWorker(t))

-----------------------------------------------------------------------------
(* Properties *)

\* Dependency order: a task the scheduler may start, or has started, has every
\* dependency completed, although update_holdofftasks, task_completeoutright
\* and the construction each add to runq_buildable in a test of their own.
DependencyOrder ==
  \A t \in runq_buildable \cup runq_running : depends[t] \subseteq runq_complete

\* A task that executes finds its inputs: each dependency has run or has a
\* current stamp, or is a setscene task that was unpacked.  A dependency that
\* was only skipped as covered, and has no output, is not enough.
RealInputs ==
  \A t \in RealLive : \A d \in depends[t] :
    d \in runq_tasksrun \/ (d \in Setscene /\ d \in sq.covered)

\* "No task should end up in both covered and uncovered, that is a bug."
CoveredOrNot == sq.covered \cap sq.notcovered = {}

\* A task is unpacked or built, never both: its setscene does not run once the
\* task itself was started, and it is not started while its setscene runs.
OneVariant == sq_live \cap runq_running = {} /\ RealLive \cap sq.covered = {}

\* BB_NUMBER_THREADS bounds the processes of both queues together.
ThreadLimit == Cardinality(Live) <= number_tasks

\* The counters can_start_task relies on count the processes that exist.
ActiveCounted == active = Cardinality(RealLive)

\* The sanity checks at the end never find a task that was forgotten or a scene
\* queue that is not finished: a build only fails because a task failed.
NoInternalError ==
  state = "failed" => failed_tids # {}

\* A migration never has to undo a task that was skipped as covered ("marked as
\* completed but now needing to rerun? Halting build.").
NoHalt == failed_tids \subseteq runq_running \cup Enforced

\* What the stages of execute() rest on: the counters count, and a build fails only
\* because a task failed.
SoundBuild == ActiveCounted /\ NoInternalError /\ NoHalt

\* A completed build is complete: everything ran or was skipped with reason.
CompleteBuild == state = "complete" => Tasks \subseteq runq_complete

\* bitbake -k: "as much as possible will be built before stopping" (main.py:132):
\* what is missing at the end is what failed and what depends on it.
KeepGoing ==
  state \in {"failed", "complete"} =>
    Tasks \ runq_complete \subseteq failed_tids \cup UNION {Above[t] : t \in failed_tids}

\* bitbake -f: a target whose stamps were invalidated is built in the end, not
\* taken from sstate.
ForcedTargetsRun ==
  state = "complete" /\ Forced => Targets \subseteq runq_tasksrun

\* A build that ends by itself leaves no process behind: finish() waits for
\* every task that was started, by the counters.
NoOrphans == state \in {"failed", "complete"} => Live = {}

\* A task has at most one process, of one of its two kinds, and none outlives the
\* build.
OneProcess == OneVariant /\ NoOrphans

\* The hash a process was started with is not changed under it.
RunningHashStable ==
  [][\A t \in Tasks : worker[t] = "run" /\ worker'[t] = "run" => unihash'[t] = unihash[t]]_vars

\* "If covered tasks are running, need to wait for them to complete"
\* (runqueue.py:2011): no setscene task starts over a running task it covers.
CoveredTasksWait ==
  [][\A t \in Setscene : t \in sq_live' \ sq_live =>
        sq_covered_tasks[t] \cap InFlight = {}]_vars

\* A setscene task starts only when what it hard-depends on is covered.
HardDependsMet ==
  [][\A t \in Setscene : t \in sq_live' \ sq_live =>
        SetsceneDepends[t] \subseteq sq.covered]_vars

\* Seen from outside, the run queue is a plain task graph execution: every task
\* starts once, after what it depends on, and what is done stays done.
Order == INSTANCE TaskGraph WITH started <- runq_running, done <- runq_complete
OrderSpec == Order!Spec

\* The build ends.
BuildEnds == <>(state \in {"failed", "complete"})
=============================================================================
