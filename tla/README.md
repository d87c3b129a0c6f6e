# A TLA+ model of BitBake

The repository is an OpenBMC tree. Nearly all of it is build metadata, patches and
board data; the program in it is BitBake, under `src/poky/bitbake`, and this project
models the parts of BitBake in which several processes or sessions interleave.
Paths below are relative to `src/poky/bitbake` unless they start with `src/`.

| Module | Models | Proofs |
| --- | --- | --- |
| `LockFile` | `lockfile()` / `unlockfile()` of `lib/bb/utils.py`, per system call | `LockFileProofs` |
| `RunQueueData` | the static data of a run queue (`RunQueueData`, `build_scenequeue_data`) | |
| `RunQueueExecute` | `RunQueueExecute` and the state machine of `RunQueue` in `lib/bb/runqueue.py`, the workers and the stamps | `RunQueueProofs` |
| `TaskGraph` | abstract specification: a plain execution of a task graph | |
| `HashServ` | `lib/hashserv/server.py` with its sessions, upstream server and backfill | `HashServProofs` |
| `PRServ` | `lib/prserv/db.py` and `serv.py`, with clients that retry and two servers over one file | `PRServProofs` |
| `ParserPool` | `Parser` and `CookerParser` of `lib/bb/cooker.py` with their queues and signals | `ParserPoolProofs` |
| `ProcessServer` | `ProcessServer.main` of `lib/bb/server/process.py`, commands, cooker states, queued events, clients | `ProcessServerProofs` |
| `ServerStart` | `setup_bitbake`, `BitBakeServer`, `execServer`, the end of `ProcessServer.main`: `bitbake.lock` and `bitbake.sock` | `ServerStartProofs` |
| `SingleServer` | abstract specification: one listening server at a time | |
| `Fetcher` | `Fetch.download`, `unpack`, `clean`, `try_mirrors` and the done stamps of `lib/bb/fetch2` | `FetcherProofs` |
| `MC*` | instances for TLC | |

`PROJECT.json` maps every definition to its source lines and lists runs, mutants,
findings, hazards and theorems.

## 1. Inventory

### The system's parts and how they interact

A user interface starts a *server process* (or connects to the one that holds
`bitbake.lock`), registers for events and sends commands. The server's *cooker*
parses recipes in parallel processes, and hands the targets to a *run queue*: the
graph of all tasks, some with a *setscene* variant that unpacks a result from the
shared-state cache instead of building it. The run queue starts task processes
through `bitbake-worker`, and reads exit codes and events from pipes. A task that
has been built reports the hash of its output to the *hash equivalence server*;
the answer may be another unihash for the task, which reaches the run queue as an
event and makes it re-plan setscene tasks while the build goes on. Package
revisions come from the *PR service*. Downloads, `bitbake.lock`, and parts of the
shared state are guarded by *lock files*.

| Component | State | Operations | Hard behaviour | What makes it correct |
| --- | --- | --- | --- | --- |
| Run queue, real tasks (`runqueue.py`) | buildable / running / complete sets, stats, failed tids, state | `execute`, `task_complete`, `task_fail`, `task_skip`, `finish`, `finish_now` | workers' results between any two steps; stops; -k | order of dependencies, thread limit, nothing forgotten, nothing left running, an end |
| Run queue, scene queue | covered / not covered / deferred / done sets, hold-off | `sq_task_*`, `update_scenequeue_data`, `update_holdofftasks` | failures, hard dependencies, deferral across multiconfigs, forced targets | a task is built or unpacked and never both, inputs exist, a consistent verdict |
| Hash migration (`process_possible_migrations`) | queue of reports, pending migrations, unihashes | apply reports, re-queue setscene tasks | reports arrive late, while covered tasks run | a running task keeps its hash, no finished work is undone |
| Worker (`bin/bitbake-worker`) | processes | fork, wait, pipe | death, fakeroot | each process belongs to a task |
| Stamps (`build.py`) | stamp files | `make_stamp`, `check_stamp_task` | stale stamps of earlier builds | |
| Hash equivalence server | two tables, open transaction, queue of the backfill worker | `get`, `get-outhash`, `get-stream`, `report`, `report-equiv`, `backfill-wait` | awaits between read and write; lost connections; kill | answers stay true, equal outputs get one unihash, waits end |
| Lock files (`utils.py`) | path, inode, descriptors, flock | `lockfile`, `unlockfile` | unlink on release | mutual exclusion, own file removed |
| PR service (`prserv`) | table of PR values, open transaction, dirty flag | `getPR`, `importone`, `export`, stop | answer before commit, two servers over one file, retried requests, kill | values never go down, stay, and differ |
| Server process (`server/process.py`) | listening socket, controller, queued connections | accept, command, disconnect, time out, exit | clients that leave with a command running, queued clients, quit while one connects | nobody waits for ever, the next client finds a server as new |
| Server start (`main.py`, `server/process.py`) | `bitbake.lock`, `bitbake.sock`, ready pipe | lock, start, connect, retry, replace, remove | an exiting server, its children and a new server over the same files; kill | one server listens; the files lead to it |
| Cooker and commands (`cooker.py`, `command.py`) | cooker state, current asynchronous command | `runCommand`, `updateCache`, `shutdown` | shutdown while parsing, client lost mid-command | requests seen, commands refused only while one runs |
| Events (`event.py`) | handlers, queue of events before a UI is ready | `fire`, `register_UIHhandler` | threads, worker events | each event once, in order |
| Parallel parsing (`cooker.py`) | job lists, result queue, quit tokens, event pipe | `CookerParser`, `shutdown` | parsers killed, signals inside critical sections, results nobody reads | all recipes or an error, no lock or process left, an end |
| Fetcher (`fetch2`) | files, done stamps, lock files, mirrors | `download`, `unpack`, `clean` | tasks sharing a file, wrong mirrors, kills, changed recipes | what was fetched matches the recipe, stamps tell the truth |
| Caches (`cache.py`, `persist_data.py`, `siggen.py`) | recipe cache, SQLite tables | | staleness | |
| Asynchronous RPC (`asyncrpc`) | connection | request, retry | repeated requests | |
| Parser, data store, providers, UI, Toaster, OE-Core classes, recipes | | | mostly sequential, or data | |

`PROJECT.json` "components" gives the status of each, and "hazards" the places in
the code that are hard to test, each at its line with the property that covers it.

### Modelled, and why in this order

The run queue decides what every build contains, has the largest state and the most
subtle comments ("No task should end up in both covered and uncovered, that is a
bug"). The hash server feeds it from a concurrent program of its own. Lock files
guard everything shared between builds. Then the parts that fail between processes
rather than inside one: numbers that packages carry for good (PR service), the pool of
parsers, the server with its clients, how servers replace one another, and the
downloads that builds share.

### Not modelled, and why

- *Code without interleavings or state of its own*: data store and its expansion,
  BitBake parser, code analysis, providers and taskdata, signature hashing. They are
  sequential computations over strings and dictionaries; a model would repeat the
  code. `RunQueueData.prepare()` belongs here too: what it leaves, an acyclic graph, is a
  constant with an assumption.
- *Caches*: `cache.py` compares file times in one process and is written by one;
  `persist_data.py` is a dictionary in SQLite, whose retry of a locked database is the
  one `PRServ` has.
- *Presentation, frameworks and vendored code*: user interfaces (what knotty asks of the
  server is in `ProcessServer`), Toaster, `ply`, `bs4`, `pyinotify`, simplediff.
- *Metadata*: recipes, machines, layers, OE-Core classes and the image tests. They are most of
  the repository's files; they run in BitBake tasks, and what BitBake sees of them
  (which tasks fail, what `setscene_depvalid` says) are constants here.
- *Command line tools* (`devtool`, `recipetool`, `wic`, `oe-selftest`): they run once, in
  order, over files and git trees.

Inside modelled parts the gaps are listed in the sections below, under "Not modelled".

## 2. Plan

Done, in this order: `LockFile`; `RunQueueData`, `RunQueueExecute`, `TaskGraph`; their
proofs; `HashServ` and its proofs; `PRServ`; `ParserPool`; `ProcessServer`; `ServerStart`
with `SingleServer`; `Fetcher`. What composes what: `RunQueueExecute` extends
`RunQueueData` and refines `TaskGraph`; `ServerStart` refines `SingleServer`, takes
`LockFile`'s result as one step (`MutualExclusion` is what justifies it), as does
`Fetcher`, and takes `ProcessServer`'s service of one client after the other as one state.

Proofs, done: the lock file; the real queue (`Invariance`, `BuildOrder`, `Refinement`);
the hash server; server start with its refinement; the fetcher; the PR service; the
parser pool; the server process; the scene queue's invariant (`QueueInvariance`) with
what follows from it (`TargetsAreBuilt` and, for builds of one configuration,
`CoverageSound`, `InputsExist`, `UnpackedOrBuilt`, `HardDependenciesMet`, `HashesKept`); how a
build ends (`FailsForAReason`, `NothingLeftBehind`, `BuiltAsMuchAsPossible`); the copies of the
hash server (`WaitingMeansCopied`). Every safety invariant and every action property a run
checks is now stated by a theorem, some under hypotheses that sections 4 and 5 give;
the liveness properties are model-checked only, as `ENABLED` is beyond the prover.

Next, proofs, most important first:

1. The results of *One configuration* and *How a build ends* for several multiconfigs, where
   they hold. `CoveredOrNot` does not (section 11), so `OneConfiguration` has to be replaced
   by what makes the deadlock breaker harmless: no `--setscene-only`, and no failure under `-k`.
2. `NothingLeftBehind` with a fakeroot worker that cannot start where nothing else runs, which
   `rq_chain` checks. With another process running it is false (section 4), so the
   condition has to be found first.

## 3. LockFile

**State.** `file` is the inode the path names, `fd` and `lk` the descriptor and flock
of each process, `pc` its next system call, `arg` the arguments of its call.
Actions are system calls: `Open`, `Flock`, `FlockBusy`, `Exists`, `Stat`, `Close` of
`lockfile()`, then `Promote`, `Unlink`, `Unlock` of `unlockfile()`. `Exit` is a process
that dies or drops the file anywhere in between: the lock goes, the file stays.
External, the kernel: `Free` (inode numbers are reused), `Grantable` (flock). The
SH to EX conversion is one step, as in Linux, and a failed one loses the lock.

**Runs.** `lockfile`: two processes, two inodes, two calls each with every mix of
shared / retry / block; 60,385 states. It shows `Mutex`, `UnlinkOwn`, the inductive
invariant `IInv`, and the liveness `CallsReturn` under weak fairness of every process's
next system call: that is the scheduler's fairness plus the assumption that an owner
releases in the end. flock promises no order among waiters, and none is assumed. Two
calls per process are needed for one to come back to a file the other still has
open.

**Proofs** (any number of processes and inodes). `Inductive`: `IInv` is
`TypeOK /\ FlockOK /\ ProcInv(p)` for every p. `Mutex` alone is not inductive: it needs
that an owner who has compared inodes holds its lock on the inode the path names now
(`Owner(p) => file = fd[p]`), which holds because nobody but an exclusive owner unlinks.
`MutualExclusion` and `OwnUnlink` follow. `CallsReturn` is model-checked only.

## 4. The run queue

**Data.** `RunQueueData` has the acyclic graph `prepare()` leaves as a constant (its
acyclicity is an assumption because `prepare()` refuses loops) and derives what
`build_scenequeue_data` computes: which tasks a setscene task covers, dependencies
between setscene tasks, hard dependencies, unskippable tasks.

**State.** The names are those of the code. `sq` is one record because the
scene-queue handlers call each other recursively and are written as functions of it:
`buildable, running, covered, notcovered, notneeded, outrightfail, done` are
`sq_buildable`, ..., `tasks_scenequeue_done`; `need` is `holdoff_need_update`. `pc` is the
place within one call of `execute()`. `worker` and `reported` are the task
processes, `stamp`, `sstamp`, `sstate` the files: 0 absent, 1 from an earlier build, 2
from this one.

**Actions.** One call of `execute()` is a chain: `Execute`, then messages
(`TaskComplete`, `TaskFail`, `SetsceneComplete`, `SetsceneFail`, `WorkerUniHash`) as long
as `read_workers()` finds any, `ProcessTaskHashes` and `MigratePending` (or
`NothingToMigrate`), one setscene decision (`SetsceneSkip`, `SetsceneFailOutright`,
`SetsceneStart`, or `NoSetscene`), `UpdateHoldoff`, the end of the scene queue, one real
task (`RefuseTask`, `SkipTask`, `NoexecTask`, `StartTask`, `FakerootSpawnFails`, or
`NoTask`), then `WaitForWorkers`, `ForceDeferred` or `EndOfBuild`. Early returns go
back to "begin". `StopBuild`, `FinishNow` and `Finish` are the user's interrupts, a full
disk or a dead worker, and `finish()`.

**Abstractions.** Data kept small: a hash is a number; a recipe's task hash and
the unihash the server maps it to are one choice in `ProcessTaskHashes`; a stamp's
name contains the hash, so a changed hash finds no stamp. The scheduler's priority map
is a free choice among the tasks it may return. `depvalidate` is a constant set.
`WorkerExit` happens at "begin" only (a process's end is seen only when it is read).
Worker death calls `finish_now` inside the read; the model lets it happen between two
calls. `ForceDeferred` pops any
key, where the code takes the one inserted first. `finish()` of an interrupted build sets "cleanup" and
is then called again by the loop: `StopBuild` and `Finish`. `stats.active` may go below
zero in the code; `MaxDebt` bounds how far. Under `BB_SETSCENE_ENFORCE` the worker
only pretends to execute (dry run), so nothing is stamped.

Not modelled: `dry_run`, the print-diff mode, per-task `number_threads`, tasks that share
a stamp file, the stamp cache, `prepare()`, the shortcut for an empty queue.
`SkipSetscene = TRUE` is written down and exercised by no run.

**Runs.** Each instance is a small graph chosen for what it makes happen.

| Run | Instance | Shows |
| --- | --- | --- |
| `rq_chain` (45,548 states) | two recipes in a chain and an image; a setscene task that hard-depends on another; failures, new hashes, noexec, old stamps, a fakeroot worker that cannot start, an interrupt | `TypeOK`, `DependencyOrder`, `OneProcess`, `RunningHashStable`, `HardDependsMet` |
| `rq_shared` (853,000) | `-k -f`, two setscene tasks over one compilation and one over two, failures, new hashes while covered tasks run | `SoundBuild`, `CoveredOrNot`, `RealInputs`, `KeepGoing`, `ForcedTargetsRun`, `CoveredTasksWait` |
| `rq_enforce` (23,000) | `BB_SETSCENE_ENFORCE`, one thread, refused tasks, an immediate stop | `ThreadLimit` |
| `rq_live` (3,970) | two multiconfigs of one recipe: one setscene task is deferred until the other's task completes | `CompleteBuild`, refinement of `TaskGraph`, `BuildEnds` |

`OneProcess` is `OneVariant` (a task is not built and unpacked at once) with `NoOrphans` (no
process outlives its build); `SoundBuild` is `ActiveCounted`, `NoInternalError` (the
"never processed" and "never completed" checks stay silent) and `NoHalt` (a build
does not stop by itself).

Five to seven tasks are what the interesting relations need: a task covered by two
setscene tasks, one covering two, a dependency across recipes, and one task above
them. Two threads make real and setscene tasks overlap. Two hashes suffice because
a property can only tell "the hash it was started with" from another. `FailingTasks` and
`FailingSetscene` bound which tasks may fail, `Rehash` which may get a new hash.

*Fairness* (`FairSpec`, only `BuildEnds` needs it): weak fairness of `Schedule`, because
`idle_commands` of the server calls the run queue again on every turn of its loop; strong
fairness of `WorkerExit` and `ReadWorker` per task, because every task process ends in
the end and each pass reads all pipes (strong since the actions are enabled only at
some values of `pc`, over and over).

*Observations.* The `continue` after "If covered tasks are running, need to wait" (2014-2016)
ends the inner loop only; `CoveredTasksWait` holds all the same, through the hold-off and
the check in `process_possible_migrations`. The hold-off and the coverage filter of the
scheduler make each other redundant: either mutant alone breaks nothing. `ActiveCounted`
does not hold under `BB_SETSCENE_ENFORCE`, where a refused task is counted down without
having been counted up.

`stats.active` is also what `finish()` waits for, so `OneProcess` fails, and the build ends with a
process running, in two cases. A fakeroot worker that cannot be spawned sets the state to
"failed" at once (2152) whatever else runs: `MCRunQueueEnforce.cfg` with `OneProcess`,
`number_tasks = 2`, `Enforced = {}`, `Noexec = {}`, `Stamped = {}`, `Interrupts = {}` and
`FakerootFails = {4}`. A task refused beside a running one takes the count to zero or
below: the same file with `number_tasks = 2`, `Enforced = {3}`, `Interrupts = {}`. In `rq_chain` the
task with such a worker is the image, the last one, which nothing runs beside; one that fails
earlier ends every build there and leaves less to explore, not more.

`pending_hash_index` puts the literal "taskname" into the index
(82) although its comment says the task name is matched: `Recipe` stands for what is left.

**Proofs** (every acyclic graph, any configuration, from the assumptions named in the
modules). *The real queue.* `Invariance`: `Inv == WorkerType /\ WorkersStarted /\ DependencyOrder`.
`DependencyOrder` by itself is preserved by the scheduler but not by the workers'
messages: `WorkersStarted` (a process belongs to a started task or a live setscene task)
says that a completed task had been started. `BuildOrder` is its consequence, and
`Refinement` shows `Spec => Order!Spec` with `started <- runq_running` and
`done <- runq_complete`: each action maps to `Start`, `Skip`, `Finish` of `TaskGraph` or to a
stutter. Both treat the scene queue as arbitrary, so they hold whatever it decides.

*Induction over data.* The scene queue's handlers are recursive functions over rounds and
the graph's closures are recursive functions over tasks. The library's induction
theorems need an operator as a parameter, which no prover here instantiates, but
induction in the form of sets does without: `Least` (a non-empty set of numbers has a least
one), `Recursion` (a function defined from its values at smaller numbers satisfies its
equation), `StepByStep` (a set that has 0, and with n also n + 1, has every number) and `LastStep`
(a set of numbers below n that has 0 has one whose successor it lacks).

*The scene queue.* `QueueInvariance`: `QueueInv` is `TypeOK` with eight parts. `CoveredTasksWait`
alone is not inductive: the scheduler holds tasks back by the hold-off it computed last
(`HoldoffHolds`), and skips tasks by the coverage it computed with it (`DecisionsKept`); both
may be out of date while `holdoff_need_update` is set, and are not when a real task is looked
for (`HoldoffRecent`). An undecided setscene task was not started and covers nothing that is
running (`OpenIsQuiet`); a setscene task that waits to be taken back was started or has failed
(`PendingRejected`), so what it covers was built and not skipped (`SkippedCovered`).
`Grows` is what every handler does to the bookkeeping, `RoundsKeep` what a
migration may take back. From it follow `TypesHold`, `SetsceneWaits` (`CoveredTasksWait`) and
`NotUnpackedOver`, the first half of `OneVariant` as a step property: no setscene task starts
for a task that was started. `NeverHalted` (`NoHalt`, a part of `SoundBuild`): the "Halting build"
branch of a migration (2395) is unreachable in every configuration. `ThreadsBounded` (`ThreadLimit`) assumes `Halt \/ Enforced = {}`: with
`-k` and `BB_SETSCENE_ENFORCE` a refused task is counted down without having been
counted up, so more processes run than the counter says. `BuildIsComplete` (`CompleteBuild`)
assumes what the run does: no `--setscene-only`, no interrupt, no `BB_SETSCENE_ENFORCE`, each
of which ends a build with tasks left by design or by the disagreements in section 11.

`TargetsAreBuilt` (`ForcedTargetsRun`) is about builds whose forced targets are neither noexec nor
stamped (`NoStampedTargets`: `bitbake -f` and `-C` have removed the stamps), again without
`--setscene-only`, interrupts and `BB_SETSCENE_ENFORCE`. `ForcedInv`: a target that is a setscene
task and was not started is not covered, not being unpacked and has no stamp.

*One configuration.* `CoveredOrNot` is false when a setscene task is deferred behind the same task
of another multiconfig: with `--setscene-only`, or with `-k` after a failure, the deadlock breaker
fails a task that is covered already (section 11). It is part of the inductive invariant of
`RealInputs`, the second half of `OneVariant`, `HardDependsMet` and `RunningHashStable`, so all five
are proved under `OneConfiguration` (no two setscene tasks have the same recipe and task, so
nothing is ever deferred, `NothingDeferred`) and `NoStampedHard` (a setscene task with hard
dependencies is not stamped at the start: it could lose its stamp by a new hash after a failure
has spread along the hard dependencies, and be started in spite of it). `SceneInv`: a setscene
task that is being unpacked is neither decided nor started and has its hard dependencies covered
(`LiveRight`), what waits to be taken back is not covered (`PendingFree`), what is built was rejected
(`BuiltRejected`), what is skipped is covered (`SkippedRight`). `HardInv`: a failure has reached
whatever hard-depends on it. A failure is followed round by round (`HardFailedRounds`); the rounds
stop because there are only so many setscene tasks (`FailsWhole`, `LastStep`), and what they reach
is closed (`FailedWithClosed`). Their conjunction `ApartInv` is inductive and gives `CoverageSound`,
`InputsExist`, `UnpackedOrBuilt` and `HardDependenciesMet`. `HashesKept` adds `RealOpen` and
`ReportInv`: a new hash reaches only the task that reported it and what is above it
(`AboveEquation`, `AcyclicAbove`), and nothing above a task that is not complete has been started
(`AboveIdle`).

*How a build ends.* The sanity checks of the code ("Task %s was never processed
by the setscene code", "Task %s never buildable!" and the others) and the decision of `finish()` to wait or not are all
about something forgotten. `Whole` says that the scene queue forgets nothing: what all the
setscene tasks above an undecided one are decided about is buildable there (`OpenReady`),
what is above the decided ones alone is in one of the coverage sets (`DoneRight`), and nothing else
is marked (`OnlyMarked`). `RealReady` says the same of the real queue, `Accounted` that what was
started runs, is complete or has failed, `ActiveCounted` that `stats.active` is the number
of real processes. `Settled` and `LastLook`: a call of `execute()` that ends with nothing being executed
had no setscene task and no real one to start. Their conjunction `EndInv` is inductive given the
invariants above (`EndInvariance`). At the end nothing is executed, so no setscene task is open (an
open one with nothing open before it could be started, and `SceneAcyclic` says that there is one);
then every task is covered or not (`AllDecidedAbout`, from `NormalCovered`: a task that is
not above a setscene task alone is `unskippable`), nothing is held off, and of
the tasks that were not built and have not failed the lowest would be schedulable
(`NothingMissing`). Hence
- `FailsForAReason` (`SoundBuild`): a build fails only when a task has,
- `NothingLeftBehind` (`OneProcess`): also after a failure or an interrupt no process outlives the build,
- `BuiltAsMuchAsPossible` (`KeepGoing`): with `-k` only what failed and what needs it is missing.

Their hypotheses are `PlainBuild` and no `--setscene-only`. `OneConfiguration` and `NoStampedHard` are
needed for the invariants above. The others are needed by the results themselves: `SceneAcyclic`, no
setscene tasks that wait for each other in a circle (`GraphAcyclic`: it follows from the graph
when there are no hard dependencies, which the metadata adds); no `BB_SETSCENE_ENFORCE` and no fakeroot
worker that cannot start, as either counts a task down that was never counted up, and the
latter ends a build as failed with nothing in `failed_tids`. `--setscene-only` leaves
tasks by design, a second interrupt ("now") leaves processes, and `KeepGoing` assumes none.
`rq_shared` checks all three but `OneProcess` on an instance that satisfies them.

*Model-checked only.* These properties in builds of several multiconfigs (`rq_live` has two)
and with a fakeroot worker that cannot start beside nothing else (`rq_chain`); `BuildEnds`, which is
liveness.

## 5. The hash equivalence server

**State.** `db` and `up` are the two tables of this server and of its upstream server:
`uni` is `unihashes_v2`, `outs` is `outhashes_v2`; `pending` the rows inserted and not
committed. Per client session: `pc` (idle, asked upstream, answer arrived, waiting in
`join()`), `req`, `answer`. `queue`, `unfinished`, `worker` are the `asyncio.Queue` and the
backfill worker. `told`, `assigned`, `promised` are history: what reports were answered,
which output hash gave a task its unihash, what was queued since nothing was
unfinished. `clock` orders rows by `created`.

**Actions.** The server is one event loop, so a handler is atomic up to an await.
`Report`, `EquivReport`, `Query` (get, get with "all", get-outhash, one line of get-stream) and
`BackfillWait` are the requests, `UpstreamAnswers` the answer of the upstream server, and
`ReportResume`, `GetResume`, `UnifiedResume`, `StreamResume` the rest of a handler after its
await. `BackfillTake`, `BackfillCopy`, `BackfillLost` are the worker. `UpstreamLost` is a
connection that fails after the retries of `asyncrpc/client.py`: the exception ends the
session, and its half-done insert stays in the transaction all sessions share.
`Crash` kills the process and starts it again: what is not committed is gone. External:
`UpAnswer`, `UpstreamAnswers`, `UpstreamReport` (the upstream server is a hash server
without upstream, with clients of its own) and `Crash`.

**Abstractions.** Every query is confined to one method, so a taskhash stands for the pair.
A unihash is the taskhash it was first made from. Both servers' clocks are one: only
the order of `created` matters. A client's retry after a lost connection is the same
request again. `drain()` does not suspend, as a client waits for its reply, so
writing a streamed answer and queueing its taskhash are one step. What upstream says
of a taskhash it has streamed never changes (`ToldStays` of that server), so the
worker's query and its insert are one step. The equivalence query runs for
every report: `inserted` compares `lastrowid` of a fresh cursor with None (139). `get` of an
unknown taskhash raises on None (262) and ends the session, as in `GetResume`. The kill
is of the process, not of the machine: committed rows are in the log. Not modelled:
statistics, handshake, read-only mode (the same without reports), draining on SIGTERM.

**Runs.** `hashserv`: two clients, three taskhashes, two output hashes, every request kind,
three requests with an upstream server that gets one report of its own, five
requests without, two lost connections or kills; about 484,000 states up to symmetry.
Two sessions are what a race needs; three taskhashes with two outputs are the least
for "the oldest equivalent row" to differ from the newest, and a server of its own
needs four requests for it. Symmetry is sound as rows are chosen by distinct
times and nothing temporal but step properties is checked. Deadlock is not checked: bounded
requests run out. It shows
- `ToldStays`: what a report was answered stays the task's unihash,
- `EquivalentAlone`: without upstream, tasks that got their unihash by the same output
  share it,
- `WaitMeansCopied`: a backfill-wait returns after the copies it waited for,
- `WaitersWoken`: none waits over an empty queue and an idle worker. A dead worker is
  excepted: nobody restarts it, and then every backfill-wait with work left waits for ever.

**Proofs** (any clients, hashes, bounds). `TableInv` (types, what each waiting
session's request and answer contain, `ToldInv`) gives `ReportsStand`: every insert ignores
conflicts, so a row once there stays. A kill drops only uncommitted output hashes because
unihashes are committed in the step that inserts them. `QueueInv` counts: unfinished is the
length of the queue plus the item the worker has, and who waits waits with a positive
count; it gives `NoWaiterForgotten`. `KeyInv` (UNIQUE key of both tables; uncommitted rows are
rows) with the two gives `TypesHold`. That a query's row is well typed needs a least
time in a non-empty set of rows (`LeastTime`), from the library's facts on well-founded
relations. `SameOuthashSameUnihash` states `EquivalentAlone`: without upstream a row is
made together with its task's unihash, so the oldest row of an output is settled, and who
got a unihash by that output has the one of that row's task (`AloneInv`).
`WaitingMeansCopied` (`WaitMeansCopied`) follows each item from the queue through the worker to
the table: neither server loses a unihash, also when it is killed (`UnihashesStay`), so
what was promised has one upstream and is copied, with the worker or still queued, unless the
worker is dead (`CopyInv`); the `task_done` that wakes the waiters finds the queue empty.

## 6. The PR service

**State.** `file` is the committed table, `owner` the server whose transaction is open and
`pending` the table it sees; per server `dirty` and the place of its handler (`pc`, `work`,
`serving`, `res`); per client its request and retries. `late` are requests whose client
has given up while they wait. `given`, `floor`, `imported`, `lost` are history.

**Actions.** A handler is cut at every statement that can find the database locked:
`Select` (the first SELECT of `_getValueHist`, `_getValueNoHist`, `_importHist`), `Peek` (a
read-only server), `Store` (INSERT, INSERT OR REPLACE or UPDATE and the SELECT after it),
`Answer` (the reply), then `Commit` and `Lock` (`sync_if_dirty`: commit, then
`BEGIN EXCLUSIVE`). `Locked` and `LockFails` are the 20 seconds of `_execute` running out.
`Stop` is SIGTERM, whose handler calls `sync()`; `Crash` is a kill; `Start` a new process.
`Ask`, `Timeout`, `Retry` are `asyncrpc/client.py`: 30 seconds without an answer close the
connection, and the same request is sent again up to three times.

**Abstractions.** A key is a (version, pkgarch) pair. A statement holds SQLite's lock as one
step: readers are kept out only by an exclusive transaction, which is how `sync()` opens
it. Not modelled: `export` (reads), the daemon's start and stop, the table's creation.

**Run.** `prserv` (529,000 states): two servers over one file, the second perhaps read-only,
a client each, both may import, with and without history, on a new file and on one
with two numbered checksums; two requests, one retry, two kills or stops. Two servers are what
a lock needs, two requests what an order needs, and one retry shows what the second
and third do. `NumbersKept` is `TypeOK` with `NumbersDiffer`, `NumbersStay` and
`AnswersKept`; `NeverDecremented` is the promise of `db.py` 22-24. Both except a server killed
between `Answer` and `Commit` (`lost`), where the code keeps no promise. An import may
lower nothing but may give two checksums one number, so `NumbersDiffer` leaves
imported keys out. *Fairness*: the server's loop runs its handlers, and clients retry;
nothing is assumed of restarts. `RequestsEnd` needs no more.

**Proofs** (any servers over the file, clients, keys, checksums and requests, from
`PRAssumption` and `RequestAssumption`). `NumbersStayTheirs` is `NumbersKept`, `NeverDown` is
`NeverDecremented`. `NumbersDiffer` speaks of answers only; the invariant adds what the
servers have read and not sent (`Known`) and that whoever has the transaction sees, in
every row, at least what the file and every known number have (`KeptInv`). That holds
because a SELECT and the INSERT after it are separated only by the wait for the
exclusive transaction (`TransactionInv`, `HandlerInv`). `RequestsEnd` is liveness.

## 7. Parallel parsing

**State.** Per parser: its list of jobs, the recipe it parses, the `buffer` of its feeder
thread, signals sent, `deferred` (`signal_received`), and whether its UI handler was
dropped (`muted`). `wlock` and `elock` are the write locks of the result queue and of the
event pipe, `pipe` the results in the kernel, `tokens` the content of `parser_quit`. For
the server: `main` (a place of `parse_generator` or `shutdown`), `processes`, `empty`,
`parsed`, `error`, `haveshutdown`.

**Actions.** `Quit`, `NextJob`, `Parsed`, `Exit` are `Parser.realrun`; `SendEvent`, `LockEvents`,
`Sent` are `ConnectionWriter.send`; `Feed`, `Fed` the feeder thread of a
`multiprocessing.Queue`; `Deliver` is `catch_sig`. `Generate`, `Take`, `TimedOut`, `Progress` are a turn of
`parse_generator` and `parse_next`; `Shutdown`, `Drain`, `Interrupt`, `Terminate`, `Join` are
`CookerParser.shutdown` in its order: tokens, drain, SIGINT after half a second per
process, SIGTERM, `join()`. `AskShutdown` is a client's request between two turns, and `Again` the
command that resumes the same generator afterwards.

**Abstractions.** The result queue has no limit, so `results.put` never raises Full. The timers
of half a second may be over at any time. The user interface always reads its pipe. A
parser is not killed from outside while it holds one of the two locks: the kernel's
kill there leaves the lock taken, which no code could mend. What a recipe parses to is
"good" or "failed".

**Runs.** `parser_pool` (835,000 states): two parsers, three recipes, one of which may fail, room for
two results, one event each, one kill. `OutcomeRight` is `AllParsed` with `NoFalseError`,
`NothingLeft` is `TypeOK` with `EventLockReleased` and `NoneLeft`. *Fairness*: parsers,
feeders, signal delivery and the server run, and parsing a recipe ends. `EndsUndeferred`
says parsing ends in every behaviour in which no signal is deferred for ever;
`parser_ends` shows that the exception is needed: a SIGTERM that finds the parser inside
`ConnectionWriter.send` is dropped by a `TypeError` (`process.py` 761), and `join()` waits
for a parser that waits for a reader of its results. It needs only room for one result.

**Proofs** (any parsers, recipes, room and kills, from `PoolAssumption`). `NothingIsLeft` is
`NothingLeft`, `OutcomeIsRight` is `OutcomeRight`. That parsing does not fail without a
reason is the hard half: no recipe may get lost between the list of its parser and the
count of the server. `Accounted` says where every recipe is as long as nobody was killed
and no shutdown has begun, and `EmptyInv` that the server finds the pipe empty only
for good. `ParseEnds` and `EndsUndeferred` are liveness.

## 8. The server and its clients

**State.** `ProcessServer` has the variables of `main()` by their names (`ready`,
`controllersock`, `newconnections`, `command_channel`, `hadanyui`, `quit`), the current
asynchronous command and its idle function, the cooker's `state`, parser and
`parsecache_valid`, the `ui_queue` of `event.py`, and per client its place, socket, sent
descriptors, command pipe and what it has received.

**Actions.** A round of the loop is `Top` (accept), `Ui` (descriptors, or the end of the
connection), `Timers`, `Eof` / `TerminateServer` / `RunCommand`, one idle function
(`NothingIdle`, `CommandStopped`, `ParseNext`, `ParseDone`, `ParseFails`, `StartBuild`,
`NothingToBuild`, `BuildGoesOn`, `BuildEnds`, `IdleRaises`), then `Select`. `Exit` is what follows
the loop. Clients `Connect`, `SendFds`, give a `Command`, `Interrupt` it as knotty does, see
an answer or a completion, time out, leave, or are killed.

**Abstractions.** All clients ask for the same features, so `setFeatures` never resets the
cooker. Synchronous commands that change nothing are left out, `buildTargets` stands for
the asynchronous ones. A heartbeat and any other event that is no completion is
`FireOther`. Not modelled: XMLRPC clients and observers, servers started with
`--server-only`.

A timeout is "given" on the command line, and counts from the start, or "configured" in
`BB_SERVER_TIMEOUT`, and counts once the configuration is parsed. The first `updateCache()` may find
every recipe in its cache, or fail in the configuration before it has a parser. A kill
of the server is in `ServerStart`.

**Run.** `server_loop` (806,000 states): two clients, one of which may be run with
`--kill-server`, no timeout or one of either kind, one killed client. Two clients are what
hand-over and queueing need; the second one waits in the kernel's backlog or in
`newconnections`, whose order (last come first served) cannot starve anyone with two.
`CommandsSound` is `TypeOK` with `BusyWhileWorking` and `ShutdownSeen`. `CleanHandover` excepts
clients that leave while their command runs: `disconnect_client` does not stop it, and the
next client may be told "Busy", be refused its features, or see a completion that is not
its own. `StrayCompletions` says what holds for those completions: only a command that was left
behind (`abandoned`) has one, and it is told or queued, never both. *Fairness*: the loop goes round and clients go on; a parse or a build ends
when its idle function is called often enough (strong, for the loop is elsewhere in
between). `ClientsEnd` follows: no client waits for ever, also on a server that ends because it
is told to, because nobody comes, or because an idle function raises.

**Proofs** (any clients, time-out and kills, from `ServerAssumption`). `StopsAreSeen` is
`CommandsSound`, `HandoverIsClean` is `CleanHandover`. `ShutdownSeen` is not inductive: a
disconnection resets the state whatever was asked. It holds because a request is
carried out in the round that reads it, so it is `owed` from the command to the idle
functions only, or on the way out (`OwedInv`). `StrayOnesToldOnce` is `StrayCompletions`; its
invariant follows the command of a client until it is complete or left behind (`Told`, `NotYet`). The handover needs that until some
client leaves its command behind, the running command is the registered client's
(`OwnerInv`), no event is queued and no parser runs alone. `ClientsEnd` is liveness.

## 9. How servers start and end

**State.** `ServerStart` has the two files (`lockfile` is what `bitbake.lock` contains, `sockfile`
who bound `bitbake.sock`), the `holder` of the lock, per server its place, the client it
serves and the `lockcontents` it saw, `children` that inherited the descriptor, per client its
place in `setup_bitbake` and its tries.

**Actions.** `GetsLock`, `NoLock`, `Start`, `Started`, `NotStarted`, `StartTimesOut`, `Socket`,
`WaitGetsLock`, `WaitEnds`, `GivesLockBack`, `Connect`, `ConnectionLost`, `AskingTimesOut`, `Retry`
are a try of the client; `NotRunning` is `--status-only` or `--kill-server` that gets the lock.
`Interrupted` is the user who ends an interface whose server is gone. `Bind`, `StartFails`, `Run`, `Serve`, `Fork`, `Quit`, then `UnlinkSocket`,
`ReadLock`, `CloseLock`, `Relock` or `NoRelock` and `Compare`, `RemoveLock` are the server.
`ChildrenEnd` are hash server, PR server and workers, which hold the lock open until they end.
`Crash` is SIGKILL.

**Abstractions.** `lockfile()` is one step, which `LockFileProofs` justifies; a client's call may
fail without a holder (the file was removed while it opened it). Any client that a server takes up is
served until it leaves. A client whose server is killed sees the end of its connection when it has a
command under way; when it waits for events it is an "orphan". `fuser`, `lsof` and the
debug output around them are left out.

**Run.** `server_start` (399,000 states): two clients with two tries, four servers, one kill.
Each client can start a server per try, so four are enough and none is turned away for want
of a number. `FilesRight` is `TypeOK` with `ServerReached` (the server that serves is the one both files
name, and holds the lock) and `NoStalePid`. `OneServer` is the refinement of `SingleServer`.
`NobodyWaits` is `ServersEnd` with `ClientsEnd`: an ending server always gets through the
loop of relock and compare, although a child or a client may hold the lock. `ClientsEnd` excepts
orphans, for whom it is false. *Fairness*: processes run and children of an ending server
end; `Quit`, `Crash`, `Interrupted` and the time-outs need not happen.

*Observation.* An interface does not notice that its server was killed while it waits for
events: the thread that reads them ends at EOF (`process.py` 704), and knotty's loop
(`ui/knotty.py` 633-646) waits on an empty queue without looking at the server, until its
user interrupts it. That is `KillSeen`, which `MCServerStart.cfg` refutes.

**Proofs** (any clients, pids, tries and kills, from `StartAssumption`). `FilesLeadToServer` is
`FilesRight`, `Refinement` is `OneServer`. `ServerReached` needs `HolderInv`: a server keeps the
lock it inherits from its client until it has closed its descriptor, so `Bind`, `Run` and
`UnlinkSocket` change the files only for the holder. `NoStalePid` needs that a server that
waits to remove the lock file compares it with its own pid. `NobodyWaits` is liveness.

## 10. The fetcher

**State.** `file` is `localpath` in `DL_DIR`: a content, part of one, a link to the mirror's file, or
nothing; `mirror` is the file below a `file://` mirror; `stamp` is the `.done` file with the
checksums of some file, and `newer` whether its date is at least the file's. `lock` is the task
that holds the lock file; per task `pc`, `at` (for whom a verification or a stamp is done), `n`
(the source), `answer` (what each source gave), `got` (what `do_unpack` found).

**Actions.** `verify_donestamp` and `update_stamp`: `VerifyMissing`, `VerifyStamped`, `VerifyFile`,
`VerifyBad`, `Touch`, `Update`, `UpdateBad`, `RaiseNoChecksum`, `Store`, `StoreFails`, `Unstamp`;
the sources in the order of `Fetch.download`: `NetSource`, `FileSource`, `FileMissing`, `NoSource`,
`Download`, `Downloaded`, `DownloadFails`, `Clean`, `Final`; then `Start`, `Unpack`, `CleanAll`, `Kill`, and
`Between`: a recipe, `DL_DIR` or a mirror changes between two builds. Operators `Verified`,
`Unverified`, `Rejected`, `Obtained` say where `download()` goes on, for each place a
verification is called from.

**Abstractions.** Only tasks with one local file share state, so there is one file. Checksums
tell contents apart. Files that wget or a link gives may have any date. `DatesKept` says whether a file that replaces
another in a mirror may keep an older date than a stamp here (as `cp -p` or `rsync -t` would); the
run and the proofs assume not. When it may, `DiskRight` and `FetchedRight` are false: the time test
of `verify_donestamp` (676) follows the link to the new file and believes a stamp with the
checksums of the old one (`MCFetcher.cfg` with `DatesKept = TRUE`). That wget removes an empty file
by itself (`wget.py` 141-143) is part of `DownloadFails`, after which `Clean` removes it anyway. Not modelled:
git and the other methods, mirror tarballs, `checkstatus`, `BB_NO_NETWORK` and
`BB_FETCH_PREMIRRORONLY`, a wget that outlives its killed task.

**Run.** `fetcher` (768,000 states): two tasks, two contents, one `file://` premirror and one
network premirror, a network mirror before a `file://` mirror, two kills, two changes. Two
contents are "the right one" and "another"; two kills interrupt both tasks or one
twice. `DiskRight` is `TypeOK` with `StampTrue` and `FreshDownload`. `SourcesTried` says a fetch
fails only when nobody gave the right file, with the exception the code makes: a list of mirrors
ends at the first one that gives any file, right or wrong. `UnpackedRight` needs recipes
that agree and no kill. All are safety; deadlock is checked.

*Observations.* An `IOError` other than ESTALE is dropped (1796-1799) and the fetch counts as
done. A `file://` mirror that has a wrong file gets that file renamed in the mirror itself
(1077-1082).

**Proofs** (any tasks, contents, premirrors, mirrors, kills and changes, from
`FetcherAssumption` and `~DatesKept`). `DiskStaysRight`, `UnpackFindsIt`, `AllSourcesTried` and `FetchesRight` state
the four properties of the run. The checks of `download()` are made at other places than
those that rely on them, with calls in between that rename the file or remove the stamp:
`PhaseInv` is what the holder of the lock knows at each place about file and stamp,
`SourceInv` what the answers of the sources so far say, `PartialInv` that without a
kill a part of a file is there only while it is downloaded, and `LeftForUnpack` what stays true of the
file between `do_fetch` and `do_unpack` while others fetch it.

## 11. Where code and documentation disagree

`parser_ends` (section 7) is a run. The others were found the same way and are kept as
definitions or as a change of a `.cfg` that anybody can repeat:

| Disagreement | To see it |
| --- | --- |
| `lockfile(block=True, retry=False)` may return `None` without the lock (`utils.py` 508), although "block: True to block until the lock succeeds" (451) | `BlockSucceeds` in `MCLockFile.cfg` |
| with `--setscene-only`, or with `-k` after a failure, the deadlock breaker (`runqueue.py` 2178) fails a setscene task that is already covered: it is in both sets, "that is a bug" (1960) | `CoveredOrNot` in `MCRunQueueLive.cfg` with `SetsceneOnly = TRUE`, or with `Halt = FALSE` and one more target that depends on task 1 |
| a failing setscene task under `BB_SETSCENE_ENFORCE` (2510) ends the run queue as complete, "all succeeded" (1509), although tasks never ran | `CompleteBuild` in `MCRunQueueEnforce.cfg` with `Enforced = {1, 2, 3, 4, 5}`, `Interrupts = {}` |
| under `BB_SETSCENE_ENFORCE` with `-k` a refused task (2112) is never marked as running, is scheduled for ever, and nothing else is built; "as much as possible will be built" (`main.py` 132) | `BuildEnds` in `MCRunQueueEnforce.cfg` with `Enforced = {3}`, `Halt = FALSE`, `FairSpec` |
| with an upstream server two reports of one output both look, both wait for upstream (`hashserv/server.py` 425), and keep different unihashes; the tests promise one (`tests.py` 89) | `EquivalentReports` in `MCHashServ.cfg` with `Kinds = {"report"}` and `MaxUpstream = 0` |
| `--kill-server`: "Terminate any running bitbake server" (`main.py` 264); with a server timeout the loop may drop the client (`process.py` 192) before it reads the command | `ServerTerminated` in `MCProcessServer.cfg` |
| "we always take and leave the cooker in state.initial" (`command.py` 279): not when the previous client left its command running (`cooker.py` 340) | `FeaturesAccepted` in `MCProcessServer.cfg` |
| a `.done` stamp is placed "after a file has been downloaded and has had its checksum checked" (`bitbake-user-manual-fetching.rst` 131); without a checksum in the recipe what a killed wget left is stamped (`fetch2/__init__.py` 687-698) | `StampWhole` in `MCFetcher.cfg` |
| "Check whether the done stamp file has the right checksums" (`fetch2/__init__.py` 647): not when a mirror's file is replaced by one with an older date (676) | `DiskRight` in `MCFetcher.cfg` with `DatesKept = TRUE` |
| "The PR value returned can NOT be decremented" (`prserv/db.py` 22): a server killed after its answer and before its commit (`serv.py` 42) forgets it | `NeverDecremented` without `~lost` |

## 12. Running

    tlc -workers 2 -config MCRunQueueChain.cfg MCRunQueue
    tlapm RunQueueProofs.tla

Every property has a mutant: an operator in the module, commented "Mutant of ...", that
stands for a plausible mistake in the code; put in the place of the definition it
makes TLC find the property violated.
