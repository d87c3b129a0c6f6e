--------------------------- MODULE RunQueueProofs ---------------------------
(* What the run queue guarantees for every task graph, every set of setscene  *)
(* tasks and every setting.                                                   *)
(*                                                                            *)
(* Part 1, the real queue: tasks are executed in dependency order, and the    *)
(* run queue implements TaskGraph, whatever the scene queue, the hash server, *)
(* a failure or the user do to it.  DependencyOrder is nearly inductive.  It  *)
(* has to speak of runq_buildable as well as of runq_running, because the     *)
(* scheduler only looks at the former, and the exit code of a real task must  *)
(* come from a task that was started, which WorkersStarted adds.              *)
(*                                                                            *)
(* Parts 2 to 4, the scene queue beside it: the types, the rule that no       *)
(* setscene task starts over a running task it covers, the bound on the       *)
(* processes of both queues, and what a completed build has done.  Its        *)
(* handlers are recursive functions over rounds, so part 2 shows, by          *)
(* induction in the form of sets of numbers, what such functions return.      *)
(* Part 3 says what each handler does to the bookkeeping (Grows, Adds) and    *)
(* what a migration takes back (RoundsKeep).  Part 4 is QueueInv: the         *)
(* scheduler only holds tasks back by what it computed last, so the invariant *)
(* has to follow when that is out of date (sq.need).                          *)
(*                                                                            *)
(* Part 5, what the scene queue covers: ForcedInv follows the targets of      *)
(* bitbake -f.  The rest is about builds of one configuration, where no       *)
(* setscene task is deferred against another (in a build of several           *)
(* multiconfigs it does not hold in general): SceneInv relates what is        *)
(* covered to what is live, built, skipped and waiting to be taken back,      *)
(* HardInv adds the hard dependencies, and ReportInv the reported hashes.     *)
(*                                                                            *)
(* Part 6, how a build ends.  Whole says that the scene queue forgets no      *)
(* setscene task and no task above the decided ones, RealReady and Accounted  *)
(* the same of the real queue, ActiveCounted that the counter counts, and     *)
(* Settled and LastLook that a call of execute() that starts nothing had      *)
(* nothing to start.  From EndInv, which is all of it, and the acyclic graph  *)
(* follows that the last checks of a build find nothing but failed tasks.     *)
EXTENDS RunQueueExecute, FiniteSetTheorems, WellFoundedInduction, TLAPS

-----------------------------------------------------------------------------
(* Part 1.  The real queue.                                                   *)

WorkerType == worker \in [Tasks -> {"none", "run", "ok", "fail"}]

\* A process was started as a setscene task that is still live, or as a task.
WorkersStarted == \A t \in Tasks : worker[t] # "none" => t \in sq_live \cup runq_running

Inv == WorkerType /\ WorkersStarted /\ DependencyOrder

\* The tasks a completion makes buildable have all their dependencies complete.
LEMMA CompletionOrder ==
  ASSUME NEW t \in Tasks, DependencyOrder, task_completeoutright(t),
         runq_running' \subseteq runq_running \cup {t},
         t \in runq_buildable \cup runq_running
  PROVE  DependencyOrder'
  BY DEF DependencyOrder, task_completeoutright

\* The scheduler returns only buildable tasks that were not started.
LEMMA NextTaskReady ==
  ASSUME NEW t, DependencyOrder, NextTask(t)
  PROVE  t \in runq_buildable \ runq_running /\ depends[t] \subseteq runq_complete
  BY DEF NextTask, Schedulable, DependencyOrder

\* Nothing is started and no process exists when the run queue is constructed.
LEMMA InitInv == Init => Inv
  BY DEF Init, Inv, WorkerType, WorkersStarted, DependencyOrder

\* Steps that leave the real queue and the worker processes alone.
LEMMA QuietInv ==
  ASSUME Inv, UNCHANGED <<runq_buildable, runq_running, runq_complete, worker, sq_live>>
  PROVE  Inv'
  BY DEF Inv, WorkerType, WorkersStarted, DependencyOrder

\* The workers' messages, and the processes themselves.
LEMMA WorkerInv ==
  ASSUME Inv, NEW t \in Tasks,
         WorkerExit(t) \/ ReadWorker(t) \/ \E h \in Hashes : WorkerUniHash(t, h)
  PROVE  Inv'
<1>1. CASE WorkerExit(t)
  BY <1>1 DEF WorkerExit, ExitOk, ExitFail, runqVars, sqVars,
              Inv, WorkerType, WorkersStarted, DependencyOrder
<1>2. CASE TaskComplete(t)
  <2>1. WorkerType' /\ WorkersStarted'
    BY <1>2 DEF TaskComplete, Inv, WorkerType, WorkersStarted
  <2>2. t \in runq_running
    BY <1>2 DEF TaskComplete, Inv, WorkersStarted
  <2>3. task_completeoutright(t) /\ runq_running' = runq_running
    BY <1>2 DEF TaskComplete
  <2>4. DependencyOrder'
    BY <2>2, <2>3, CompletionOrder DEF Inv
  <2>5. QED
    BY <2>1, <2>4 DEF Inv
<1>3. CASE TaskFail(t)
  BY <1>3 DEF TaskFail, sqVars, Inv, WorkerType, WorkersStarted, DependencyOrder
<1>4. CASE SetsceneComplete(t)
  BY <1>4 DEF SetsceneComplete, runqVars, Inv, WorkerType, WorkersStarted, DependencyOrder
<1>5. CASE SetsceneFail(t)
  BY <1>5 DEF SetsceneFail, runqVars, Inv, WorkerType, WorkersStarted, DependencyOrder
<1>6. CASE \E h \in Hashes : WorkerUniHash(t, h)
  BY <1>6, QuietInv DEF WorkerUniHash, runqVars, sqVars
<1>7. QED
  BY <1>1, <1>2, <1>3, <1>4, <1>5, <1>6 DEF ReadWorker

\* The parts of execute() that read, migrate and run the scene queue.
LEMMA SceneQueueInv ==
  ASSUME Inv,
         \/ Execute \/ NothingToMigrate \/ ProcessTaskHashes \/ MigratePending \/ NoSetscene
         \/ \E t \in Setscene : SetsceneSkip(t) \/ SetsceneFailOutright(t) \/ SetsceneStart(t)
  PROVE  Inv'
<1>1. CASE Execute \/ NothingToMigrate \/ NoSetscene
  BY <1>1, QuietInv DEF Execute, NothingToMigrate, NoSetscene, runqVars, sqVars, workerVars
<1>2. CASE ProcessTaskHashes
  BY <1>2, QuietInv DEF ProcessTaskHashes, runqVars, sqVars
<1>3. CASE MigratePending
  BY <1>3, QuietInv DEF MigratePending, workerVars
<1>4. ASSUME NEW t \in Setscene, SetsceneSkip(t) \/ SetsceneFailOutright(t) PROVE Inv'
  BY <1>4, QuietInv DEF SetsceneSkip, SetsceneFailOutright, runqVars, workerVars
<1>5. ASSUME NEW t \in Setscene, SetsceneStart(t) PROVE Inv'
  <2>1. WorkerType' /\ WorkersStarted'
    BY <1>5 DEF SetsceneStart, runqVars, Inv, WorkerType, WorkersStarted
  <2>2. DependencyOrder'
    BY <1>5 DEF SetsceneStart, runqVars, Inv, DependencyOrder
  <2>3. QED
    BY <2>1, <2>2 DEF Inv
<1>6. QED
  BY <1>1, <1>2, <1>3, <1>4, <1>5

\* The parts that take over the scene queue's decisions and end the build.
LEMMA DecisionInv ==
  ASSUME Inv,
         \/ UpdateHoldoff \/ HoldoffCurrent \/ SceneQueueOpen \/ SceneQueueComplete \/ NoTask
         \/ WaitForWorkers \/ ForceDeferred \/ EndOfBuild \/ Finish
         \/ StopBuild \/ FinishNow \/ Terminated
  PROVE  Inv'
<1>1. CASE UpdateHoldoff
  <2>1. WorkerType' /\ WorkersStarted'
    BY <1>1 DEF UpdateHoldoff, workerVars, Inv, WorkerType, WorkersStarted
  <2>2. DependencyOrder'
    BY <1>1 DEF UpdateHoldoff, NowBuildable, Inv, DependencyOrder
  <2>3. QED
    BY <2>1, <2>2 DEF Inv
<1>2. CASE HoldoffCurrent \/ SceneQueueOpen \/ NoTask \/ WaitForWorkers
  BY <1>2, QuietInv DEF HoldoffCurrent, SceneQueueOpen, NoTask, WaitForWorkers,
                        runqVars, sqVars, workerVars
<1>3. CASE SceneQueueComplete
  BY <1>3, QuietInv DEF SceneQueueComplete, runqVars, workerVars
<1>4. CASE ForceDeferred
  BY <1>4, QuietInv DEF ForceDeferred, runqVars, workerVars
<1>5. CASE EndOfBuild \/ Finish \/ StopBuild \/ FinishNow \/ Terminated
  BY <1>5, QuietInv DEF EndOfBuild, Finish, StopBuild, FinishNow, Terminated, vars,
                        runqVars, sqVars, workerVars
<1>6. QED
  BY <1>1, <1>2, <1>3, <1>4, <1>5

\* The part that takes a real task from the scheduler.
LEMMA RealTaskInv ==
  ASSUME Inv, NEW t \in Tasks,
         RefuseTask(t) \/ SkipTask(t) \/ NoexecTask(t) \/ StartTask(t) \/ FakerootSpawnFails(t)
  PROVE  Inv'
<1>1. CASE RefuseTask(t)
  BY <1>1, QuietInv DEF RefuseTask, sqVars, workerVars
<1>2. CASE SkipTask(t)
  <2>1. WorkerType' /\ WorkersStarted'
    BY <1>2 DEF SkipTask, workerVars, Inv, WorkerType, WorkersStarted
  <2>2. t \in runq_buildable
    BY <1>2, NextTaskReady DEF SkipTask, Inv
  <2>3. DependencyOrder'
    BY <1>2, <2>2, CompletionOrder DEF SkipTask, Inv
  <2>4. QED
    BY <2>1, <2>3 DEF Inv
<1>3. CASE NoexecTask(t)
  <2>1. WorkerType' /\ WorkersStarted'
    BY <1>3 DEF NoexecTask, Inv, WorkerType, WorkersStarted
  <2>2. t \in runq_buildable
    BY <1>3, NextTaskReady DEF NoexecTask, Inv
  <2>3. DependencyOrder'
    BY <1>3, <2>2, CompletionOrder DEF NoexecTask, Inv
  <2>4. QED
    BY <2>1, <2>3 DEF Inv
<1>4. CASE StartTask(t)
  <2>1. WorkerType' /\ WorkersStarted'
    BY <1>4 DEF StartTask, sqVars, Inv, WorkerType, WorkersStarted
  <2>2. depends[t] \subseteq runq_complete
    BY <1>4, NextTaskReady DEF StartTask, Inv
  <2>3. DependencyOrder'
    BY <1>4, <2>2 DEF StartTask, Inv, DependencyOrder
  <2>4. QED
    BY <2>1, <2>3 DEF Inv
<1>5. CASE FakerootSpawnFails(t)
  BY <1>5, QuietInv DEF FakerootSpawnFails, sqVars, workerVars
<1>6. QED
  BY <1>1, <1>2, <1>3, <1>4, <1>5

\* Every step of the specification preserves Inv.
LEMMA NextInv == Inv /\ [Next]_vars => Inv'
<1> SUFFICES ASSUME Inv, [Next]_vars PROVE Inv'
  OBVIOUS
<1>1. CASE Next
  BY <1>1, WorkerInv, SceneQueueInv, DecisionInv, RealTaskInv DEF Next, Schedule
<1>2. CASE UNCHANGED vars
  BY <1>2, QuietInv DEF vars, runqVars, sqVars, workerVars
<1>3. QED
  BY <1>1, <1>2

\* Inv is an invariant of the run queue.
THEOREM Invariance == Spec => []Inv
<1>1. Init => Inv
  BY InitInv
<1>2. Inv /\ [Next]_vars => Inv'
  BY NextInv
<1>3. QED
  BY <1>1, <1>2, PTL DEF Spec

\* Nothing is buildable, running or complete before what it depends on: the
\* three places that fill runq_buildable agree (task_completeoutright,
\* update_holdofftasks, build_scenequeue_data).
THEOREM BuildOrder == Spec => []DependencyOrder
<1>1. Inv => DependencyOrder
  BY DEF Inv
<1>2. QED
  BY <1>1, Invariance, PTL

\* A step that starts and completes nothing is a stutter of TaskGraph.
LEMMA QuietStep ==
  ASSUME UNCHANGED <<runq_running, runq_complete>>
  PROVE  [Order!Next]_Order!vars
  BY DEF Order!vars

\* Messages of the workers: a task that was started finishes.
LEMMA WorkerStep ==
  ASSUME Inv, NEW t \in Tasks,
         WorkerExit(t) \/ ReadWorker(t) \/ \E h \in Hashes : WorkerUniHash(t, h)
  PROVE  [Order!Next]_Order!vars
<1>1. CASE TaskComplete(t)
  <2>1. t \in runq_running
    BY <1>1 DEF TaskComplete, Inv, WorkersStarted
  <2>2. Order!Finish(t)
    BY <1>1, <2>1 DEF TaskComplete, task_completeoutright, Order!Finish
  <2>3. QED
    BY <2>2 DEF Order!Next
<1>2. CASE TaskFail(t) \/ SetsceneComplete(t) \/ SetsceneFail(t)
  BY <1>2, QuietStep DEF TaskFail, SetsceneComplete, SetsceneFail, runqVars
<1>3. CASE WorkerExit(t) \/ \E h \in Hashes : WorkerUniHash(t, h)
  BY <1>3, QuietStep DEF WorkerExit, WorkerUniHash, runqVars
<1>4. QED
  BY <1>1, <1>2, <1>3 DEF ReadWorker

\* A task taken from the scheduler starts, or starts and finishes at once.
LEMMA RealTaskStep ==
  ASSUME Inv, NEW t \in Tasks,
         RefuseTask(t) \/ SkipTask(t) \/ NoexecTask(t) \/ StartTask(t) \/ FakerootSpawnFails(t)
  PROVE  [Order!Next]_Order!vars
<1>1. CASE RefuseTask(t) \/ FakerootSpawnFails(t)
  BY <1>1, QuietStep DEF RefuseTask, FakerootSpawnFails
<1>2. CASE SkipTask(t) \/ NoexecTask(t) \/ StartTask(t)
  <2>1. Order!CanStart(t)
    BY <1>2, NextTaskReady DEF SkipTask, NoexecTask, StartTask, Inv, Order!CanStart
  <2>2. Order!Skip(t) \/ Order!Start(t)
    BY <1>2, <2>1 DEF SkipTask, NoexecTask, StartTask, task_completeoutright,
                      Order!Skip, Order!Start
  <2>3. QED
    BY <2>2 DEF Order!Next
<1>3. QED
  BY <1>1, <1>2

\* Every other step starts and completes nothing.
LEMMA OtherStep ==
  ASSUME \/ Execute \/ NothingToMigrate \/ ProcessTaskHashes \/ MigratePending \/ NoSetscene
         \/ \E t \in Setscene : SetsceneSkip(t) \/ SetsceneFailOutright(t) \/ SetsceneStart(t)
         \/ UpdateHoldoff \/ HoldoffCurrent \/ SceneQueueOpen \/ SceneQueueComplete \/ NoTask
         \/ WaitForWorkers \/ ForceDeferred \/ EndOfBuild \/ Finish
         \/ StopBuild \/ FinishNow \/ Terminated
  PROVE  [Order!Next]_Order!vars
<1>1. CASE MigratePending
  BY <1>1, QuietStep DEF MigratePending
<1>2. CASE UpdateHoldoff
  BY <1>2, QuietStep DEF UpdateHoldoff
<1>3. CASE Execute \/ NothingToMigrate \/ ProcessTaskHashes \/ NoSetscene
  BY <1>3, QuietStep DEF Execute, NothingToMigrate, ProcessTaskHashes, NoSetscene, runqVars
<1>4. ASSUME NEW t \in Setscene, SetsceneSkip(t) \/ SetsceneFailOutright(t) \/ SetsceneStart(t)
      PROVE  [Order!Next]_Order!vars
  BY <1>4, QuietStep DEF SetsceneSkip, SetsceneFailOutright, SetsceneStart, runqVars
<1>5. CASE HoldoffCurrent \/ SceneQueueOpen \/ SceneQueueComplete \/ NoTask
           \/ WaitForWorkers \/ ForceDeferred
  BY <1>5, QuietStep DEF HoldoffCurrent, SceneQueueOpen, SceneQueueComplete, NoTask,
                         WaitForWorkers, ForceDeferred, runqVars
<1>6. CASE EndOfBuild \/ Finish \/ StopBuild \/ FinishNow \/ Terminated
  BY <1>6, QuietStep DEF EndOfBuild, Finish, StopBuild, FinishNow, Terminated, vars, runqVars
<1>7. QED
  BY <1>1, <1>2, <1>3, <1>4, <1>5, <1>6

\* The run queue implements TaskGraph: a task starts once, after everything it
\* depends on is done, and no re-planning ever takes back what is done.
THEOREM Refinement == Spec => OrderSpec
<1>1. Init => Order!Init
  BY DEF Init, Order!Init
<1>2. Inv /\ [Next]_vars => [Order!Next]_Order!vars
  <2> SUFFICES ASSUME Inv, [Next]_vars PROVE [Order!Next]_Order!vars
    OBVIOUS
  <2>1. CASE Next
    BY <2>1, WorkerStep, RealTaskStep, OtherStep DEF Next, Schedule
  <2>2. CASE UNCHANGED vars
    BY <2>2, QuietStep DEF vars, runqVars
  <2>3. QED
    BY <2>1, <2>2
<1>3. QED
  BY <1>1, <1>2, Invariance, PTL DEF Spec, OrderSpec, Order!Spec

-----------------------------------------------------------------------------
(* Part 2.  Induction over data.                                              *)
(*                                                                            *)
(* A LET definition by recursion on the rounds is f[N] of a function chosen   *)
(* by its equation; these lemmas show that the function exists and that what  *)
(* every round keeps holds of its last value.                                 *)

\* Every nonempty set of numbers has a least element.
LEMMA Least ==
  ASSUME NEW T \in SUBSET Nat, T # {}
  PROVE  \E x \in T : \A y \in T : x <= y
<1> DEFINE R == OpToRel(<, Nat)
<1>1. IsWellFoundedOn(R, Nat)
  BY NatLessThanWellFounded
<1>2. ASSUME NEW x \in Nat, NEW y \in Nat, <<y, x>> \notin R
      PROVE  x <= y
  <2>1. ~(y < x)
    BY <1>2 DEF OpToRel
  <2>2. QED
    BY <2>1
<1> HIDE DEF R
<1>3. PICK x \in T : \A y \in T : ~ (<<y, x>> \in R)
  BY <1>1, WFMin
<1>4. \A y \in T : x <= y
  BY <1>2, <1>3
<1>5. QED
  BY <1>4

\* A property of the first value that every step keeps holds of all values.
LEMMA StepByStep ==
  ASSUME NEW N \in Nat, NEW f, NEW S, f[0] \in S,
         \A n \in 1..N : f[n - 1] \in S => f[n] \in S
  PROVE  \A n \in 0..N : f[n] \in S
<1> DEFINE T == {n \in 0..N : f[n] \notin S}
<1>1. CASE T = {}
  BY <1>1
<1>2. CASE T # {}
  <2>a. T \in SUBSET Nat
    OBVIOUS
  <2> HIDE DEF T
  <2>1. PICK n \in T : \A k \in T : n <= k
    BY <1>2, <2>a, Least
  <2> USE DEF T
  <2>2. n \in 1..N /\ n - 1 \notin T
    BY <2>1
  <2>3. QED
    BY <2>2
<1>3. QED
  BY <1>1, <1>2

\* Steps that keep a set from 0 to N reach N.
LEMMA LastStep ==
  ASSUME NEW N \in Nat, NEW P, 0 \in P, \A n \in 1..N : n - 1 \in P => n \in P
  PROVE  N \in P
<1> DEFINE f == [n \in 0..N |-> n]
<1>1. \A n \in 0..N : f[n] = n
  OBVIOUS
<1>2. 0 \in 0..N /\ N \in 0..N /\ \A n \in 1..N : n \in 0..N /\ n - 1 \in 0..N
  OBVIOUS
<1> HIDE DEF f
<1>3. f[0] \in P /\ \A n \in 1..N : f[n - 1] \in P => f[n] \in P
  BY <1>1, <1>2
<1>4. \A n \in 0..N : f[n] \in P
  BY <1>3, StepByStep
<1>5. QED
  BY <1>1, <1>2, <1>4

\* The steps g take values of M to values of M; the values they go through exist.
Steps(g, N, M) == g \in [1..N -> [M -> M]]
Iterable(base, g, N, M) ==
  \E f \in [0..N -> M] : f[0] = base /\ \A n \in 1..N : f[n] = g[n][f[n - 1]]

\* Values that are defined from the one before exist.
LEMMA Recursion ==
  ASSUME NEW N, N \in Nat, NEW M, NEW base, base \in M, NEW g, Steps(g, N, M)
  PROVE  Iterable(base, g, N, M)
<1>0. g \in [1..N -> [M -> M]]
  BY DEF Steps
<1> DEFINE Upto(k) == \E f \in [0..k -> M] : f[0] = base /\ \A n \in 1..k : f[n] = g[n][f[n - 1]]
           T == {k \in 0..N : ~Upto(k)}
<1>1. Upto(0)
  <2>1. [n \in 0..0 |-> base] \in [0..0 -> M]
    OBVIOUS
  <2>2. [n \in 0..0 |-> base][0] = base /\ 1..0 = {}
    OBVIOUS
  <2>3. QED
    BY <2>1, <2>2
<1>2. ASSUME NEW k \in 1..N, Upto(k - 1) PROVE Upto(k)
  <2>1. PICK f \in [0..(k - 1) -> M] :
          f[0] = base /\ \A n \in 1..(k - 1) : f[n] = g[n][f[n - 1]]
    BY <1>2
  <2> DEFINE h == [n \in 0..k |-> IF n = k THEN g[k][f[k - 1]] ELSE f[n]]
  <2>2. g[k][f[k - 1]] \in M
    <3>1. f[k - 1] \in M /\ g[k] \in [M -> M]
      BY <1>0
    <3>2. QED
      BY <3>1
  <2>3. h \in [0..k -> M]
    BY <2>2
  <2>4. h[0] = base
    BY <2>1
  <2>5. ASSUME NEW n \in 1..k PROVE h[n] = g[n][h[n - 1]]
    BY <2>1
  <2>6. QED
    BY <2>3, <2>4, <2>5
<1> HIDE DEF Upto
<1>3. Upto(N)
  <2>1. CASE T = {}
    BY <2>1
  <2>2. CASE T # {}
    <3>1. T \in SUBSET Nat
      OBVIOUS
    <3> HIDE DEF T
    <3>2. PICK k \in T : \A n \in T : k <= n
      BY <2>2, <3>1, Least
    <3> USE DEF T
    <3>3. k \in 0..N /\ k # 0
      BY <1>1
    <3>4. k \in 1..N /\ k - 1 \in 0..N /\ ~(k <= k - 1)
      BY <3>3
    <3>5. Upto(k - 1)
      BY <3>2, <3>4
    <3>6. QED
      BY <1>2, <3>4, <3>5
  <2>3. QED
    BY <2>1, <2>2
<1>4. QED
  BY <1>3 DEF Upto, Iterable

-----------------------------------------------------------------------------
(* Part 3.  The operators: the task graph and the handlers of the scene queue. *)

\* The tasks that can be reached from t along rel, not going on from those of stop.
Reach(G, rel, stop, t) == UNION {{d} \cup (IF d \in stop THEN {} ELSE G[d]) : d \in rel[t]}

\* Its members.
LEMMA ReachMember ==
  ASSUME NEW G, NEW rel, NEW stop, NEW t, NEW x
  PROVE  x \in Reach(G, rel, stop, t) <=>
           \E d \in rel[t] : x = d \/ (d \notin stop /\ x \in G[d])
  BY DEF Reach

\* There is such a function: the least that is closed under the equation.
LEMMA ReachExists ==
  ASSUME NEW rel \in [Tasks -> SUBSET Tasks], NEW stop
  PROVE  \E G : G = [t \in Tasks |-> Reach(G, rel, stop, t)]
<1> DEFINE Of(G, t) == Reach(G, rel, stop, t)
           Closed == {G \in [Tasks -> SUBSET Tasks] : \A t \in Tasks : Of(G, t) \subseteq G[t]}
           Low == [t \in Tasks |-> {x \in Tasks : \A G \in Closed : x \in G[t]}]
           Image == [t \in Tasks |-> Of(Low, t)]
<1>0. \A t \in Tasks : rel[t] \subseteq Tasks
  OBVIOUS
<1>a. ASSUME NEW t \in Tasks, NEW G \in Closed PROVE Low[t] \subseteq G[t]
  OBVIOUS
<1>b. ASSUME NEW t \in Tasks, NEW x \in Tasks, \A G \in Closed : x \in G[t] PROVE x \in Low[t]
  BY <1>b
<1>c. \A t \in Tasks : Low[t] \subseteq Tasks
  OBVIOUS
<1>d. DOMAIN Low = Tasks /\ Low = [t \in Tasks |-> Low[t]]
  OBVIOUS
<1> HIDE DEF Low
<1>1. ASSUME NEW t \in Tasks PROVE Of(Low, t) \subseteq Low[t]
  <2>1. ASSUME NEW x \in Of(Low, t), NEW G \in Closed PROVE x \in G[t]
    <3>1. PICK d \in rel[t] : x = d \/ (d \notin stop /\ x \in Low[d])
      BY <2>1, ReachMember
    <3>2. x = d \/ (d \notin stop /\ x \in G[d])
      BY <1>0, <1>a, <3>1
    <3>3. x \in Of(G, t)
      BY <3>1, <3>2, ReachMember
    <3>4. QED
      BY <3>3
  <2>2. ASSUME NEW x \in Of(Low, t) PROVE x \in Tasks
    <3>1. PICK d \in rel[t] : x = d \/ (d \notin stop /\ x \in Low[d])
      BY <2>2, ReachMember
    <3>2. QED
      BY <1>0, <1>c, <3>1
  <2>3. QED
    BY <1>b, <2>1, <2>2
<1>2. Image \in Closed
  <2>1. Image \in [Tasks -> SUBSET Tasks]
    BY <1>1, <1>c
  <2>2. ASSUME NEW t \in Tasks, NEW x \in Of(Image, t) PROVE x \in Of(Low, t)
    <3>a. \A d \in Tasks : Image[d] \subseteq Low[d]
      BY <1>1
    <3> HIDE DEF Image
    <3>1. PICK d \in rel[t] : x = d \/ (d \notin stop /\ x \in Image[d])
      BY <2>2, ReachMember
    <3>2. x = d \/ (d \notin stop /\ x \in Low[d])
      BY <1>0, <3>1, <3>a
    <3>3. QED
      BY <3>1, <3>2, ReachMember
  <2>3. QED
    BY <2>1, <2>2
<1>3. Low = Image
  <2>1. ASSUME NEW t \in Tasks PROVE Low[t] = Image[t]
    <3>1. Low[t] \subseteq Image[t]
      BY <1>2, <1>a
    <3>2. QED
      BY <1>1, <3>1
  <2>2. QED
    BY <1>d, <2>1
<1>4. QED
  BY <1>3

\* The tasks below t, by its defining equation.
BelowOf(G, t) == UNION {{d} \cup (IF d \in Setscene THEN {} ELSE G[d]) : d \in depends[t]}

LEMMA BelowMember ==
  ASSUME NEW G, NEW t, NEW x
  PROVE  x \in BelowOf(G, t) <=>
           \E d \in depends[t] : x = d \/ (d \notin Setscene /\ x \in G[d])
  BY DEF BelowOf

LEMMA BelowEquation ==
  Below = [t \in Tasks |-> BelowOf(Below, t)]
<1> DEFINE Fcn(G) == G = [t \in Tasks |-> BelowOf(G, t)]
<1>1. \E G : G = [t \in Tasks |-> Reach(G, depends, Setscene, t)]
  BY ReachExists, DependsAssumption
<1>2. \E G : Fcn(G)
  BY <1>1 DEF Reach, BelowOf
<1>3. Below = CHOOSE G : Fcn(G)
  BY DEF Below, BelowOf
<1> HIDE DEF Fcn
<1>4. Fcn(Below)
  BY <1>2, <1>3
<1>5. QED
  BY <1>4 DEF Fcn

\* What is below a task is a set of tasks.
LEMMA BelowTasks == \A t \in Tasks : Below[t] \subseteq Tasks
<1> DEFINE T == {t \in Tasks : ~(Below[t] \subseteq Tasks)}
<1>1. SUFFICES ASSUME T # {} PROVE FALSE
  OBVIOUS
<1>2. PICK t \in T : depends[t] \cap T = {}
  BY <1>1, AcyclicAssumption
<1>3. depends[t] \subseteq Tasks
  BY DependsAssumption
<1>4. \A d \in depends[t] : Below[d] \subseteq Tasks
  BY <1>2, <1>3
<1>5. Below[t] = BelowOf(Below, t)
  BY BelowEquation
<1>6. Below[t] \subseteq Tasks
  BY <1>3, <1>4, <1>5 DEF BelowOf
<1>7. QED
  BY <1>6

\* What the scene queue derives from it.
LEMMA SceneQueueData ==
  /\ \A t \in Setscene : sq_covered_tasks[t] \subseteq Tasks \ Setscene
  /\ unskippable \subseteq Tasks /\ cantskip \subseteq Tasks
<1>1. \A t \in Setscene : sq_covered_tasks[t] \subseteq Tasks \ Setscene
  BY BelowTasks, SetsceneAssumption DEF sq_covered_tasks
<1>2. cantskip \subseteq Tasks
  BY SetsceneAssumption DEF cantskip
<1>3. unskippable \subseteq Tasks
  BY <1>2, BelowTasks DEF unskippable
<1>4. QED
  BY <1>1, <1>2, <1>3

-----------------------------------------------------------------------------
(* ... the scene queue, ... *)

\* One round of SceneQueueDone, and the rounds.
DoneAdd(p) ==
  {d \in Tasks \ (Setscene \cup p.all) : revdeps[d] \cap p.new # {} /\ revdeps[d] \subseteq p.all}

DoneStep(p) == [all |-> p.all \cup DoneAdd(p), new |-> DoneAdd(p)]

DoneRounds(done, F, f) ==
  /\ Cardinality(Tasks) \in Nat
  /\ f \in [0..Cardinality(Tasks) -> [all : SUBSET Tasks, new : SUBSET Tasks]]
  /\ f[0] = [all |-> done \cup F, new |-> F]
  /\ \A n \in 1..Cardinality(Tasks) : f[n] = DoneStep(f[n - 1])
  /\ SceneQueueDone(done, F) = f[Cardinality(Tasks)].all

LEMMA SceneQueueDoneRounds ==
  ASSUME NEW done \in SUBSET Tasks, NEW F \in SUBSET Tasks
  PROVE  \E f : DoneRounds(done, F, f)
<1> DEFINE N == Cardinality(Tasks)
           M == [all : SUBSET Tasks, new : SUBSET Tasks]
           base == [all |-> done \cup F, new |-> F]
           Fcn(f) == f = [n \in 0..N |-> IF n = 0 THEN base ELSE DoneStep(f[n - 1])]
           f0 == CHOOSE f : Fcn(f)
<1>1. N \in Nat
  BY TasksAssumption, FS_CardinalityType
<1>2. base \in M /\ \A p \in M : DoneStep(p) \in M
  BY DEF DoneStep, DoneAdd
<1>3. SceneQueueDone(done, F) = f0[N].all
  BY DEF SceneQueueDone, DoneStep, DoneAdd
<1> HIDE DEF N, M, base
<1>4. \E f : Fcn(f)
  <2> DEFINE g == [n \in 1..N |-> [p \in M |-> DoneStep(p)]]
  <2>1. Steps(g, N, M)
    BY <1>2 DEF Steps
  <2> HIDE DEF g
  <2>2. Iterable(base, g, N, M)
    BY <1>1, <1>2, <2>1, Recursion
  <2>3. PICK f \in [0..N -> M] : f[0] = base /\ \A n \in 1..N : f[n] = g[n][f[n - 1]]
    BY <2>2 DEF Iterable
  <2>4. ASSUME NEW n \in 1..N PROVE f[n] = DoneStep(f[n - 1])
    <3>1. f[n - 1] \in M
      BY <1>1
    <3>2. QED
      BY <2>3, <3>1 DEF g
  <2>5. f = [n \in 0..N |-> IF n = 0 THEN base ELSE DoneStep(f[n - 1])]
    BY <1>1, <2>3, <2>4
  <2>6. QED
    BY <2>5
<1>5. Fcn(f0)
  BY <1>4
<1> HIDE DEF f0
<1>6. f0[0] = base /\ \A n \in 1..N : f0[n] = DoneStep(f0[n - 1])
  BY <1>1, <1>5
<1>7. \A n \in 0..N : f0[n] \in M
  BY <1>1, <1>2, <1>6, StepByStep
<1>8. DOMAIN f0 = 0..N /\ f0 = [n \in 0..N |-> f0[n]]
  BY <1>5
<1>9. f0 \in [0..N -> M]
  BY <1>7, <1>8
<1>10. DoneRounds(done, F, f0)
  BY <1>1, <1>3, <1>6, <1>9 DEF DoneRounds, N, M, base
<1>11. QED
  BY <1>10

\* SceneQueueDone(done, F) is a set of tasks.
LEMMA SceneQueueDoneType ==
  ASSUME NEW done \in SUBSET Tasks, NEW F \in SUBSET Tasks
  PROVE  SceneQueueDone(done, F) \in SUBSET Tasks
<1>1. PICK f : DoneRounds(done, F, f)
  BY SceneQueueDoneRounds
<1>2. QED
  BY <1>1 DEF DoneRounds

\* A normal task is done once everything that depends on it is.
DoneClosed(D) ==
  \A d \in Tasks \ Setscene : revdeps[d] # {} /\ revdeps[d] \subseteq D => d \in D

\* SceneQueueDone keeps what is done and adds F, and it stops only when that is so
\* again: every round but the last adds a task, and there are not more than Tasks.
LEMMA SceneQueueDoneClosed ==
  ASSUME NEW done \in SUBSET Tasks, NEW F \in SUBSET Tasks, DoneClosed(done)
  PROVE  /\ done \cup F \subseteq SceneQueueDone(done, F)
         /\ DoneClosed(SceneQueueDone(done, F))
<1> DEFINE N == Cardinality(Tasks)
           M == [all : SUBSET Tasks, new : SUBSET Tasks]
           Due(p) == \A d \in Tasks \ Setscene :
                       revdeps[d] # {} /\ revdeps[d] \subseteq p.all
                         => d \in p.all \/ revdeps[d] \cap p.new # {}
<1>0. PICK f : DoneRounds(done, F, f)
  BY SceneQueueDoneRounds
<1>1. /\ N \in Nat /\ f \in [0..N -> M] /\ f[0] = [all |-> done \cup F, new |-> F]
      /\ \A n \in 1..N : f[n] = DoneStep(f[n - 1])
      /\ SceneQueueDone(done, F) = f[N].all
  BY <1>0 DEF DoneRounds
<1>2. \A p \in M : IsFiniteSet(p.all) /\ Cardinality(p.all) \in Nat /\ Cardinality(p.all) <= N
  <2>1. ASSUME NEW p \in M PROVE p.all \in SUBSET Tasks
    OBVIOUS
  <2>2. QED
    BY <2>1, TasksAssumption, FS_Subset, FS_CardinalityType
<1> HIDE DEF N
<1> DEFINE P == {n \in 0..N : /\ done \cup F \subseteq f[n].all /\ Due(f[n])
                              /\ f[n].new = {} \/ Cardinality(f[n].all) > n}
<1>3. 0 \in P
  <2>1. f[0].all = done \cup F /\ f[0].new = F /\ 0 \in 0..N /\ f[0] \in M
    BY <1>1
  <2>2. Due(f[0])
    BY <2>1 DEF DoneClosed
  <2>3. ASSUME F # {} PROVE Cardinality(f[0].all) > 0
    <3>1. IsFiniteSet(f[0].all) /\ f[0].all # {} /\ Cardinality(f[0].all) \in Nat
      BY <1>2, <2>1, <2>3
    <3>2. Cardinality(f[0].all) # 0
      BY <3>1, FS_EmptySet
    <3>3. QED
      BY <3>1, <3>2
  <2>4. QED
    BY <2>1, <2>2, <2>3
<1>4. ASSUME NEW n \in 1..N, n - 1 \in P PROVE n \in P
  <2> DEFINE p == f[n - 1]
             q == f[n]
  <2>1. /\ q.all = p.all \cup DoneAdd(p) /\ q.new = DoneAdd(p) /\ p \in M /\ q \in M
        /\ n \in 0..N
    <3>1. n \in 0..N /\ n - 1 \in 0..N
      BY <1>1
    <3>2. q = DoneStep(p) /\ p \in M /\ q \in M
      BY <1>1, <3>1
    <3> HIDE DEF p, q
    <3>3. QED
      BY <3>1, <3>2 DEF DoneStep
  <2>2. done \cup F \subseteq p.all /\ Due(p) /\ (p.new = {} \/ Cardinality(p.all) > n - 1)
    BY <1>4
  <2> HIDE DEF p, q
  <2>3. Due(q)
    <3> SUFFICES ASSUME NEW d \in Tasks \ Setscene, revdeps[d] # {}, revdeps[d] \subseteq q.all,
                        revdeps[d] \cap q.new = {}
                 PROVE  d \in q.all
      OBVIOUS
    <3>1. revdeps[d] \subseteq p.all
      BY <2>1
    <3>2. d \in p.all \/ revdeps[d] \cap p.new # {}
      BY <2>2, <3>1
    <3>3. QED
      BY <2>1, <3>1, <3>2 DEF DoneAdd
  <2>4. q.new = {} \/ Cardinality(q.all) > n
    <3> SUFFICES ASSUME q.new # {} PROVE Cardinality(q.all) > n
      OBVIOUS
    <3>1. Cardinality(p.all) > n - 1
      BY <2>1, <2>2 DEF DoneAdd
    <3>2. PICK d \in q.all : d \notin p.all
      BY <2>1 DEF DoneAdd
    <3>3. Cardinality(q.all \ {d}) = Cardinality(q.all) - 1 /\ IsFiniteSet(q.all \ {d})
      BY <1>2, <2>1, <3>2, FS_RemoveElement
    <3>4. p.all \subseteq q.all \ {d}
      BY <2>1, <3>2
    <3>5. Cardinality(p.all) <= Cardinality(q.all \ {d})
      BY <3>3, <3>4, FS_Subset
    <3>6. n \in Nat /\ Cardinality(p.all) \in Nat /\ Cardinality(q.all) \in Nat
      <4>1. n \in Nat
        BY <1>1
      <4>2. Cardinality(p.all) \in Nat /\ Cardinality(q.all) \in Nat
        BY <1>2, <2>1
      <4>3. QED
        BY <4>1, <4>2
    <3>7. QED
      BY <3>1, <3>3, <3>5, <3>6
  <2>5. done \cup F \subseteq q.all
    BY <2>1, <2>2
  <2>6. QED
    BY <2>1, <2>3, <2>4, <2>5 DEF q
<1> HIDE DEF P
<1>5. N \in P
  BY <1>1, <1>3, <1>4, LastStep
<1>6. f[N] \in M
  BY <1>1
<1>7. f[N].new = {} /\ Due(f[N]) /\ done \cup F \subseteq f[N].all
  BY <1>1, <1>2, <1>5, <1>6 DEF P
<1>8. QED
  BY <1>1, <1>7 DEF DoneClosed

\* One round of FailedWith, and the rounds.
FailStep(s, p) ==
  p \cup {d \in UNION {sq_harddeps[x] : x \in p} : d \notin Processed(s) /\ ~NoexecOrStamped(d)}

FailRounds(s, t, f) ==
  /\ f \in [0..Cardinality(Setscene) -> SUBSET Setscene]
  /\ f[0] = {t} /\ FailedWith(s, t) = f[Cardinality(Setscene)]
  /\ \A n \in 1..Cardinality(Setscene) : f[n] = FailStep(s, f[n - 1])
  /\ Cardinality(Setscene) \in Nat

LEMMA FailedWithRounds ==
  ASSUME NEW s, NEW t \in Setscene
  PROVE  \E f : FailRounds(s, t, f)
<1> DEFINE N == Cardinality(Setscene)
           M == SUBSET Setscene
           base == {t}
           Fcn(f) == f = [n \in 0..N |-> IF n = 0 THEN base ELSE FailStep(s, f[n - 1])]
           f0 == CHOOSE f : Fcn(f)
<1>1. N \in Nat
  <2>1. IsFiniteSet(Setscene)
    BY TasksAssumption, SetsceneAssumption, FS_Subset
  <2>2. QED
    BY <2>1, FS_CardinalityType
<1>2. base \in M /\ \A p \in M : FailStep(s, p) \in M
  <2>1. \A x \in Setscene : sq_harddeps[x] \subseteq Setscene
    BY DEF sq_harddeps
  <2>2. ASSUME NEW p \in M PROVE UNION {sq_harddeps[x] : x \in p} \subseteq Setscene
    BY <2>1
  <2>3. QED
    BY <2>2 DEF FailStep
<1>3. FailedWith(s, t) = f0[N]
  BY DEF FailedWith, FailStep
<1> HIDE DEF N, M, base
<1>4. \E f : Fcn(f)
  <2> DEFINE g == [n \in 1..N |-> [p \in M |-> FailStep(s, p)]]
  <2>1. Steps(g, N, M)
    BY <1>2 DEF Steps
  <2> HIDE DEF g
  <2>2. Iterable(base, g, N, M)
    BY <1>1, <1>2, <2>1, Recursion
  <2>3. PICK f \in [0..N -> M] : f[0] = base /\ \A n \in 1..N : f[n] = g[n][f[n - 1]]
    BY <2>2 DEF Iterable
  <2>4. ASSUME NEW n \in 1..N PROVE f[n] = FailStep(s, f[n - 1])
    <3>1. f[n - 1] \in M
      BY <1>1
    <3>2. QED
      BY <2>3, <3>1 DEF g
  <2>5. f = [n \in 0..N |-> IF n = 0 THEN base ELSE FailStep(s, f[n - 1])]
    BY <1>1, <2>3, <2>4
  <2>6. QED
    BY <2>5
<1>5. Fcn(f0)
  BY <1>4
<1> HIDE DEF f0
<1>6. f0[0] = base /\ \A n \in 1..N : f0[n] = FailStep(s, f0[n - 1])
  BY <1>1, <1>5
<1>7. \A n \in 0..N : f0[n] \in M
  BY <1>1, <1>2, <1>6, StepByStep
<1>8. f0 \in [0..N -> M]
  BY <1>5, <1>7
<1>9. FailRounds(s, t, f0)
  BY <1>1, <1>3, <1>6, <1>8 DEF M, N, base, FailRounds
<1>10. QED
  BY <1>9

\* What fails with t are setscene tasks.
LEMMA FailedWithType ==
  ASSUME NEW s, NEW t \in Setscene
  PROVE  FailedWith(s, t) \in SUBSET Setscene
<1>1. PICK f : FailRounds(s, t, f)
  BY FailedWithRounds
<1>2. QED
  BY <1>1 DEF FailRounds

\* What fails with a task that is not covered was not processed, and hard-depends
\* on something that is not covered.
LEMMA FailedWithOpen ==
  ASSUME NEW s, NEW t \in Setscene, t \notin s.covered
  PROVE  /\ t \in FailedWith(s, t)
         /\ \A d \in FailedWith(s, t) \ {t} :
              d \notin Processed(s) /\ ~(SetsceneDepends[d] \subseteq s.covered)
<1> DEFINE S == {p \in SUBSET Setscene : t \in p /\ \A d \in p \ {t} :
                   d \notin Processed(s) /\ ~(SetsceneDepends[d] \subseteq s.covered)}
<1>0. PICK f : FailRounds(s, t, f)
  BY FailedWithRounds
<1>1. /\ f \in [0..Cardinality(Setscene) -> SUBSET Setscene]
      /\ f[0] = {t} /\ FailedWith(s, t) = f[Cardinality(Setscene)]
      /\ \A n \in 1..Cardinality(Setscene) : f[n] = FailStep(s, f[n - 1])
      /\ Cardinality(Setscene) \in Nat
  BY <1>0 DEF FailRounds
<1>2. f[0] \in S
  BY <1>1
<1>3. ASSUME NEW p \in S, NEW q \in SUBSET Setscene, q = FailStep(s, p) PROVE q \in S
  <2>1. t \in q
    BY <1>3 DEF FailStep
  <2>2. ASSUME NEW d \in q \ p
        PROVE  d \notin Processed(s) /\ ~(SetsceneDepends[d] \subseteq s.covered)
    <3>1. d \notin Processed(s) /\ d \in Setscene
      BY <1>3, <2>2 DEF FailStep
    <3>2. PICK x \in p : d \in sq_harddeps[x]
      BY <1>3, <2>2 DEF FailStep
    <3>3. x \in SetsceneDepends[d] /\ x \in Setscene
      BY <3>2 DEF sq_harddeps
    <3>4. x \notin s.covered
      BY DEF Processed
    <3>5. QED
      BY <3>1, <3>3, <3>4
  <2>3. QED
    BY <2>1, <2>2
<1> HIDE DEF S
<1>4. \A n \in 1..Cardinality(Setscene) : f[n - 1] \in S => f[n] \in S
  BY <1>1, <1>3
<1>5. \A n \in 0..Cardinality(Setscene) : f[n] \in S
  BY <1>1, <1>2, <1>4, StepByStep
<1>6. f[Cardinality(Setscene)] \in S
  BY <1>1, <1>5
<1>7. QED
  BY <1>1, <1>6 DEF S

\* With a task fails whatever hard-depends on it, unless that is processed or stamped.
FailsWhole(s, F) ==
  \A x \in F : \A d \in sq_harddeps[x] : d \in F \cup Processed(s) \/ NoexecOrStamped(d)

\* The rounds of FailedWith are enough for that: each adds a task or is the last.
LEMMA FailedWithClosed ==
  ASSUME NEW s, NEW t \in Setscene
  PROVE  FailsWhole(s, FailedWith(s, t))
<1> DEFINE N == Cardinality(Setscene)
           M == SUBSET Setscene
<1>0. PICK f : FailRounds(s, t, f)
  BY FailedWithRounds
<1>1. /\ f \in [0..N -> M] /\ f[0] = {t} /\ FailedWith(s, t) = f[N]
      /\ \A n \in 1..N : f[n] = FailStep(s, f[n - 1])
      /\ N \in Nat
  BY <1>0 DEF FailRounds
<1>2. IsFiniteSet(Setscene)
  BY TasksAssumption, SetsceneAssumption, FS_Subset
<1>3. \A p \in M : IsFiniteSet(p) /\ Cardinality(p) \in Nat /\ Cardinality(p) <= N
  BY <1>2, FS_Subset, FS_CardinalityType
<1> HIDE DEF N
<1> DEFINE P == {n \in 0..N : FailStep(s, f[n]) = f[n] \/ Cardinality(f[n]) > n}
<1>4. 0 \in P
  <2>1. Cardinality({t}) = 1
    BY FS_Singleton
  <2>2. QED
    BY <1>1, <2>1
<1>5. ASSUME NEW n \in 1..N, n - 1 \in P PROVE n \in P
  <2> DEFINE p == f[n - 1]
             q == f[n]
  <2>1. q = FailStep(s, p) /\ p \in M /\ q \in M /\ p \subseteq q
    BY <1>1 DEF FailStep
  <2>3. CASE q = p
    BY <1>1, <2>1, <2>3
  <2>4. CASE q # p
    <3>1. Cardinality(p) > n - 1
      BY <1>5, <2>1, <2>4
    <3> HIDE DEF p, q
    <3>2. Cardinality(p) < Cardinality(q)
      <4>1. PICK d \in q : d \notin p
        BY <2>1, <2>4
      <4>2. Cardinality(q \ {d}) = Cardinality(q) - 1
        BY <1>3, <2>1, FS_RemoveElement
      <4>3. p \subseteq q \ {d} /\ IsFiniteSet(q \ {d})
        BY <1>3, <2>1, <4>1, FS_Subset
      <4>4. Cardinality(p) <= Cardinality(q \ {d})
        BY <4>3, FS_Subset
      <4>5. QED
        BY <1>3, <2>1, <4>2, <4>4
    <3>3. Cardinality(q) > n
      BY <1>3, <2>1, <3>1, <3>2
    <3>4. QED
      BY <3>3 DEF q
  <2>5. QED
    BY <2>3, <2>4
<1> HIDE DEF P
<1>7. N \in P
  BY <1>1, <1>4, <1>5, LastStep
<1>8. FailStep(s, f[N]) = f[N]
  BY <1>1, <1>3, <1>7 DEF P
<1>9. ASSUME NEW x \in f[N], NEW d \in sq_harddeps[x]
      PROVE  d \in f[N] \cup Processed(s) \/ NoexecOrStamped(d)
  BY <1>8 DEF FailStep
<1>10. QED
  BY <1>1, <1>9 DEF FailsWhole

\* What processing setscene tasks does to the bookkeeping s: it only adds to what
\* is covered, not covered and running, marks as running what it marks as
\* processed, and asks for a new hold-off when it has changed anything that the
\* hold-off is computed from.
Grows(s, r) ==
  /\ r \in SqState
  /\ s.covered \subseteq r.covered /\ s.notcovered \subseteq r.notcovered
  /\ s.running \subseteq r.running
  /\ s.need => r.need
  /\ ~r.need => r.covered = s.covered /\ r.notcovered = s.notcovered /\ r.done = s.done
  /\ Processed(s) \subseteq s.running => Processed(r) \subseteq r.running

\* scenequeue_updatecounters decides nothing and asks for a new hold-off.
LEMMA UpdateCountersGrows ==
  ASSUME NEW s \in SqState, NEW F \in SUBSET Setscene, NEW fail \in BOOLEAN
  PROVE  /\ UpdateCounters(s, F, fail) \in SqState
         /\ UpdateCounters(s, F, fail).covered = s.covered
         /\ UpdateCounters(s, F, fail).notcovered = s.notcovered
         /\ UpdateCounters(s, F, fail).running = s.running
         /\ UpdateCounters(s, F, fail).need = TRUE
<1>1. SceneQueueDone(s.done, F) \in SUBSET Tasks
  <2>1. s.done \in SUBSET Tasks /\ F \in SUBSET Tasks
    BY SetsceneAssumption DEF SqState
  <2>2. QED
    BY <2>1, SceneQueueDoneType
<1> DEFINE ready == {d \in Setscene :
                  /\ \E t \in F : d \in sq_deps[t]
                                    /\ (fail => d \notin sq_harddeps[t])
                  /\ sq_revdeps[d] \subseteq Processed(s)}
<1>2. ready \in SUBSET Setscene
  OBVIOUS
<1>3. UpdateCounters(s, F, fail) =
        [s EXCEPT !.buildable = @ \cup ready, !.done = SceneQueueDone(@, F), !.need = TRUE]
  BY DEF UpdateCounters
<1> HIDE DEF ready
<1>4. QED
  BY <1>1, <1>2, <1>3 DEF SqState

\* Setscene tasks that were started are covered.
LEMMA CompleteOutrightGrows ==
  ASSUME NEW s \in SqState, NEW F \in SUBSET Setscene, F \subseteq s.running
  PROVE  Grows(s, sq_task_completeoutright(s, F)) /\ sq_task_completeoutright(s, F).need
<1> DEFINE s1 == [s EXCEPT !.covered = @ \cup F]
<1>1. s1 \in SqState
  BY DEF SqState
<1>2. /\ s1.covered = s.covered \cup F /\ s1.notcovered = s.notcovered
      /\ s1.running = s.running
  BY DEF SqState
<1>3. sq_task_completeoutright(s, F) = UpdateCounters(s1, F, FALSE)
  BY DEF sq_task_completeoutright
<1> DEFINE r == UpdateCounters(s1, F, FALSE)
<1>4. /\ r \in SqState /\ r.covered = s1.covered /\ r.notcovered = s1.notcovered
      /\ r.running = s1.running /\ r.need = TRUE
  BY <1>1, UpdateCountersGrows
<1> HIDE DEF r, s1
<1>5. Grows(s, r) /\ r.need
  BY <1>2, <1>4 DEF Grows, Processed
<1>6. QED
  BY <1>3, <1>5 DEF r

\* Setscene tasks are skipped, started or not.
LEMMA SkipGrows ==
  ASSUME NEW s \in SqState, NEW F \in SUBSET Setscene
  PROVE  Grows(s, sq_task_skip(s, F)) /\ sq_task_skip(s, F).need
<1> DEFINE s1 == [s EXCEPT !.running = @ \cup F, !.buildable = @ \cup F]
<1>1. s1 \in SqState
  BY DEF SqState
<1>2. /\ s1.covered = s.covered /\ s1.notcovered = s.notcovered
      /\ s1.running = s.running \cup F /\ s1.need = s.need
  BY DEF SqState
<1>3. sq_task_skip(s, F) = sq_task_completeoutright(s1, F)
  BY DEF sq_task_skip
<1> HIDE DEF s1
<1>4. Grows(s1, sq_task_completeoutright(s1, F)) /\ sq_task_completeoutright(s1, F).need
  BY <1>1, <1>2, CompleteOutrightGrows
<1>5. QED
  BY <1>2, <1>3, <1>4 DEF Grows, Processed

\* A setscene task that was started fails.
LEMMA FailGrows ==
  ASSUME NEW s \in SqState, NEW t \in s.running
  PROVE  Grows(s, sq_task_fail(s, t)) /\ sq_task_fail(s, t).need
<1> DEFINE F == FailedWith(s, t)
           s1 == [s EXCEPT !.notcovered = @ \cup F, !.running = @ \cup (F \ {t}),
                           !.buildable = @ \cup (F \ {t})]
<1>0. F \in SUBSET Setscene
  BY FailedWithType DEF SqState
<1>3. sq_task_fail(s, t) = UpdateCounters(s1, F, TRUE)
  BY DEF sq_task_fail
<1> HIDE DEF F
<1>1. s1 \in SqState
  BY <1>0 DEF SqState
<1>2. /\ s1.covered = s.covered /\ s1.notcovered = s.notcovered \cup F
      /\ s1.running = s.running \cup (F \ {t})
  BY DEF SqState
<1> DEFINE r == UpdateCounters(s1, F, TRUE)
<1>4. /\ r \in SqState /\ r.covered = s1.covered /\ r.notcovered = s1.notcovered
      /\ r.running = s1.running /\ r.need = TRUE
  BY <1>0, <1>1, UpdateCountersGrows
<1> HIDE DEF r, s1
<1>5. Grows(s, r) /\ r.need
  BY <1>2, <1>4 DEF Grows, Processed
<1>6. QED
  BY <1>3, <1>5 DEF r

\* A setscene task fails without being started.
LEMMA FailOutrightGrows ==
  ASSUME NEW s \in SqState, NEW t \in Setscene
  PROVE  Grows(s, sq_task_failoutright(s, t)) /\ sq_task_failoutright(s, t).need
<1> DEFINE s1 == [s EXCEPT !.running = @ \cup {t}, !.buildable = @ \cup {t}]
<1>1. s1 \in SqState
  BY DEF SqState
<1>2. /\ s1.covered = s.covered /\ s1.notcovered = s.notcovered
      /\ s1.running = s.running \cup {t} /\ s1.need = s.need
  BY DEF SqState
<1>3. sq_task_failoutright(s, t) = sq_task_fail(s1, t)
  BY DEF sq_task_failoutright
<1> HIDE DEF s1
<1>4. Grows(s1, sq_task_fail(s1, t)) /\ sq_task_fail(s1, t).need
  BY <1>1, <1>2, FailGrows
<1>5. QED
  BY <1>2, <1>3, <1>4 DEF Grows, Processed

\* update_scenequeue_data takes back nothing.
LEMMA UpdateDataGrows ==
  ASSUME NEW s \in SqState, NEW T \in SUBSET Setscene, NEW uni, NEW def
  PROVE  Grows(s, update_scenequeue_data(s, T, uni, def))
<1> DEFINE skip == {t \in T : NoexecOrStamped(t)}
           s1   == IF skip = {} THEN s ELSE sq_task_skip(s, skip)
           bad  == {t \in T \ skip : /\ ~Valid(t, uni)
                                     /\ t \notin Processed(s1)
                                     /\ t \notin DOMAIN def}
<1>1. skip \in SUBSET Setscene
  OBVIOUS
<1>2. update_scenequeue_data(s, T, uni, def) = [s1 EXCEPT !.outrightfail = (@ \ T) \cup bad]
  BY DEF update_scenequeue_data
<1> HIDE DEF skip
<1>3. Grows(s, s1)
  BY <1>1, SkipGrows DEF Grows
<1> HIDE DEF s1
<1>4. bad \in SUBSET Setscene
  OBVIOUS
<1> HIDE DEF bad
<1>5. s1 \in SqState
  BY <1>3 DEF Grows
<1> DEFINE r == [s1 EXCEPT !.outrightfail = (@ \ T) \cup bad]
<1>6. r \in SqState
  BY <1>4, <1>5 DEF SqState
<1>7. r.covered = s1.covered /\ r.notcovered = s1.notcovered /\ r.running = s1.running
      /\ r.need = s1.need /\ r.done = s1.done
  BY <1>5 DEF SqState
<1> HIDE DEF r
<1>8. Grows(s, r)
  BY <1>3, <1>6, <1>7 DEF Grows, Processed
<1>9. QED
  BY <1>2, <1>8 DEF r

\* What they do exactly: the setscene tasks C are covered and F fail.  What is above
\* them is done when everything above it is, and what is below becomes buildable
\* when all it waits for is processed, unless it hard-depends on what has failed.
Adds(s, r, C, F) ==
  /\ r.covered = s.covered \cup C /\ r.notcovered = s.notcovered \cup F
  /\ r.running = s.running \cup C \cup F
  /\ s.buildable \cup C \cup F \subseteq r.buildable
  /\ \A d \in r.buildable \ (s.buildable \cup C \cup F) : sq_revdeps[d] \subseteq Processed(r)
  /\ \/ r.done = SceneQueueDone(s.done, C \cup F)
     \/ C \cup F = {} /\ r.done = s.done
  /\ \A d \in Setscene : \A x \in C \cup F :
       x \in sq_revdeps[d] /\ sq_revdeps[d] \subseteq Processed(r)
         => d \in r.buildable \/ (x \in F /\ d \in sq_harddeps[x])

LEMMA UpdateCountersAdds ==
  ASSUME NEW s \in SqState, NEW F \in SUBSET Setscene, NEW fail \in BOOLEAN
  PROVE  /\ s.buildable \subseteq UpdateCounters(s, F, fail).buildable
         /\ \A d \in UpdateCounters(s, F, fail).buildable \ s.buildable :
              sq_revdeps[d] \subseteq Processed(s)
         /\ UpdateCounters(s, F, fail).done = SceneQueueDone(s.done, F)
         /\ \A d \in Setscene : \A x \in F :
              x \in sq_revdeps[d] /\ sq_revdeps[d] \subseteq Processed(s)
                => d \in UpdateCounters(s, F, fail).buildable \/ d \in sq_harddeps[x]
<1> DEFINE ready == {d \in Setscene :
                  /\ \E t \in F : d \in sq_deps[t]
                                    /\ (fail => d \notin sq_harddeps[t])
                  /\ sq_revdeps[d] \subseteq Processed(s)}
           r == UpdateCounters(s, F, fail)
<1>1. ASSUME NEW d \in Setscene, NEW x \in F, x \in sq_revdeps[d],
             sq_revdeps[d] \subseteq Processed(s), d \notin sq_harddeps[x]
      PROVE  d \in ready
  <2>1. d \in sq_deps[x]
    BY <1>1 DEF sq_deps
  <2>2. QED
    BY <1>1, <2>1
<1>2. r = [s EXCEPT !.buildable = @ \cup ready, !.done = SceneQueueDone(@, F), !.need = TRUE]
  BY DEF UpdateCounters
<1>a. \A d \in ready : sq_revdeps[d] \subseteq Processed(s)
  OBVIOUS
<1> HIDE DEF ready, r
<1>3. r.buildable = s.buildable \cup ready /\ r.done = SceneQueueDone(s.done, F)
  BY <1>2 DEF SqState
<1>4. /\ s.buildable \subseteq r.buildable
      /\ \A d \in r.buildable \ s.buildable : sq_revdeps[d] \subseteq Processed(s)
      /\ r.done = SceneQueueDone(s.done, F)
      /\ \A d \in Setscene : \A x \in F :
           x \in sq_revdeps[d] /\ sq_revdeps[d] \subseteq Processed(s)
             => d \in r.buildable \/ d \in sq_harddeps[x]
  BY <1>1, <1>a, <1>3
<1>5. QED
  BY <1>4 DEF r

LEMMA CountersPromote ==
  ASSUME NEW s \in SqState, NEW F \in SUBSET Setscene, NEW d \in Setscene, NEW x \in F,
         x \in sq_revdeps[d], sq_revdeps[d] \subseteq Processed(s)
  PROVE  d \in UpdateCounters(s, F, FALSE).buildable
<1> DEFINE ready == {e \in Setscene :
                  /\ \E t \in F : e \in sq_deps[t]
                                    /\ (FALSE => e \notin sq_harddeps[t])
                  /\ sq_revdeps[e] \subseteq Processed(s)}
           r == UpdateCounters(s, F, FALSE)
<1>1. d \in ready
  BY DEF sq_deps
<1>2. r = [s EXCEPT !.buildable = @ \cup ready, !.done = SceneQueueDone(@, F), !.need = TRUE]
  BY DEF UpdateCounters
<1> HIDE DEF ready, r
<1>3. r.buildable = s.buildable \cup ready
  BY <1>2 DEF SqState
<1>4. QED
  BY <1>1, <1>3 DEF r

\* Completion, skipping and failure, ...
LEMMA CompleteAdds ==
  ASSUME NEW s \in SqState, NEW C \in SUBSET Setscene, C \subseteq s.running \cap s.buildable
  PROVE  Adds(s, sq_task_completeoutright(s, C), C, {})
<1> DEFINE s1 == [s EXCEPT !.covered = @ \cup C]
           r == sq_task_completeoutright(s, C)
<1>1. s1 \in SqState
  BY DEF SqState
<1>2. /\ s1.covered = s.covered \cup C /\ s1.notcovered = s.notcovered
      /\ s1.running = s.running /\ s1.buildable = s.buildable /\ s1.done = s.done
  BY DEF SqState
<1>3. r = UpdateCounters(s1, C, FALSE)
  BY DEF sq_task_completeoutright
<1> HIDE DEF r, s1
<1>a. \A d \in Setscene : \A x \in C :
           x \in sq_revdeps[d] /\ sq_revdeps[d] \subseteq Processed(s1) => d \in r.buildable
  BY <1>1, <1>3, CountersPromote
<1>b. r.covered = s1.covered /\ r.notcovered = s1.notcovered /\ r.running = s1.running
  BY <1>1, <1>3, UpdateCountersGrows
<1>4. /\ s1.buildable \subseteq r.buildable /\ r.done = SceneQueueDone(s1.done, C)
      /\ \A d \in r.buildable \ s1.buildable : sq_revdeps[d] \subseteq Processed(s1)
  BY <1>1, <1>3, UpdateCountersAdds
<1>5. Processed(r) = Processed(s1) /\ C \cup {} = C
  BY <1>b DEF Processed
<1>6. Adds(s, r, C, {})
  BY <1>2, <1>a, <1>b, <1>4, <1>5 DEF Adds
<1>7. QED
  BY <1>6 DEF r

LEMMA SkipAdds ==
  ASSUME NEW s \in SqState, NEW C \in SUBSET Setscene
  PROVE  Adds(s, sq_task_skip(s, C), C, {})
<1> DEFINE s1 == [s EXCEPT !.running = @ \cup C, !.buildable = @ \cup C]
           r == sq_task_skip(s, C)
<1>1. s1 \in SqState
  BY DEF SqState
<1>2. /\ s1.covered = s.covered /\ s1.notcovered = s.notcovered /\ s1.done = s.done
      /\ s1.running = s.running \cup C /\ s1.buildable = s.buildable \cup C
  BY DEF SqState
<1>3. r = sq_task_completeoutright(s1, C)
  BY DEF sq_task_skip
<1> HIDE DEF r, s1
<1>4. Adds(s1, r, C, {})
  BY <1>1, <1>2, <1>3, CompleteAdds
<1>5. Adds(s, r, C, {})
  BY <1>2, <1>4 DEF Adds
<1>6. QED
  BY <1>5 DEF r

LEMMA FailAdds ==
  ASSUME NEW s \in SqState, NEW t \in s.running \cap s.buildable
  PROVE  Adds(s, sq_task_fail(s, t), {}, FailedWith(s, t))
<1> DEFINE F == FailedWith(s, t)
           s1 == [s EXCEPT !.notcovered = @ \cup F, !.running = @ \cup (F \ {t}),
                           !.buildable = @ \cup (F \ {t})]
           r == sq_task_fail(s, t)
<1>0. F \in SUBSET Setscene
  BY FailedWithType DEF SqState
<1>3. r = UpdateCounters(s1, F, TRUE)
  BY DEF sq_task_fail
<1> HIDE DEF F, r
<1>1. s1 \in SqState
  BY <1>0 DEF SqState
<1>2. /\ s1.covered = s.covered /\ s1.notcovered = s.notcovered \cup F /\ s1.done = s.done
      /\ s1.running = s.running \cup F /\ s1.buildable = s.buildable \cup F
  BY DEF SqState
<1> HIDE DEF s1
<1>b. r.covered = s1.covered /\ r.notcovered = s1.notcovered /\ r.running = s1.running
  BY <1>0, <1>1, <1>3, UpdateCountersGrows
<1>4. /\ s1.buildable \subseteq r.buildable
      /\ \A d \in r.buildable \ s1.buildable : sq_revdeps[d] \subseteq Processed(s1)
      /\ r.done = SceneQueueDone(s1.done, F)
      /\ \A d \in Setscene : \A x \in F :
           x \in sq_revdeps[d] /\ sq_revdeps[d] \subseteq Processed(s1)
             => d \in r.buildable \/ d \in sq_harddeps[x]
  BY <1>0, <1>1, <1>3, UpdateCountersAdds
<1>5. Processed(r) = Processed(s1) /\ {} \cup F = F
  BY <1>b DEF Processed
<1>6. Adds(s, r, {}, F)
  BY <1>2, <1>b, <1>4, <1>5 DEF Adds
<1>7. QED
  BY <1>6 DEF r, F

\* ... failure without being started, ...
LEMMA FailOutrightAdds ==
  ASSUME NEW s \in SqState, NEW t \in Setscene, t \notin s.covered
  PROVE  \E F \in SUBSET Setscene :
           /\ Adds(s, sq_task_failoutright(s, t), {}, F)
           /\ t \in F
           /\ \A d \in F \ {t} : d \notin Processed(s) /\ ~(SetsceneDepends[d] \subseteq s.covered)
           /\ FailsWhole(s, F)
<1> DEFINE s1 == [s EXCEPT !.running = @ \cup {t}, !.buildable = @ \cup {t}]
           F == FailedWith(s1, t)
           r == sq_task_failoutright(s, t)
<1>1. s1 \in SqState
  BY DEF SqState
<1>2. /\ s1.covered = s.covered /\ s1.notcovered = s.notcovered /\ s1.done = s.done
      /\ s1.running = s.running \cup {t} /\ s1.buildable = s.buildable \cup {t}
  BY DEF SqState
<1>3. r = sq_task_fail(s1, t)
  BY DEF sq_task_failoutright
<1> HIDE DEF s1, r
<1>4. Adds(s1, r, {}, F) /\ F \in SUBSET Setscene
  BY <1>1, <1>2, <1>3, FailAdds, FailedWithType
<1>5. t \in F /\ \A d \in F \ {t} :
         d \notin Processed(s1) /\ ~(SetsceneDepends[d] \subseteq s1.covered)
  BY <1>2, FailedWithOpen
<1>6. Processed(s1) = Processed(s)
  BY <1>2 DEF Processed
<1>a. FailsWhole(s, F)
  BY <1>6, FailedWithClosed DEF FailsWhole
<1> HIDE DEF F
<1>7. Adds(s, r, {}, F)
  BY <1>2, <1>4, <1>5 DEF Adds
<1>8. QED
  BY <1>a, <1>2, <1>4, <1>5, <1>6, <1>7 DEF r

\* ... and the skipping of tasks that are stamped.
LEMMA UpdateDataAdds ==
  ASSUME NEW s \in SqState, NEW T \in SUBSET Setscene, NEW uni, NEW def
  PROVE  Adds(s, update_scenequeue_data(s, T, uni, def), {t \in T : NoexecOrStamped(t)}, {})
<1> DEFINE skip == {t \in T : NoexecOrStamped(t)}
           s1   == IF skip = {} THEN s ELSE sq_task_skip(s, skip)
           bad  == {t \in T \ skip : /\ ~Valid(t, uni)
                                     /\ t \notin Processed(s1)
                                     /\ t \notin DOMAIN def}
           r == update_scenequeue_data(s, T, uni, def)
<1>1. skip \in SUBSET Setscene
  OBVIOUS
<1>2. r = [s1 EXCEPT !.outrightfail = (@ \ T) \cup bad]
  BY DEF update_scenequeue_data
<1> HIDE DEF skip, r
<1>3. Adds(s, s1, skip, {}) /\ s1 \in SqState
  <2>1. CASE skip = {}
    BY <2>1 DEF Adds
  <2>2. CASE skip # {}
    BY <1>1, <2>2, SkipAdds, SkipGrows DEF Grows
  <2>3. QED
    BY <2>1, <2>2
<1> HIDE DEF s1, bad
<1>4. r.covered = s1.covered /\ r.notcovered = s1.notcovered /\ r.running = s1.running
      /\ r.buildable = s1.buildable /\ r.done = s1.done
  BY <1>2, <1>3 DEF SqState
<1>5. Processed(r) = Processed(s1)
  BY <1>4 DEF Processed
<1>6. Adds(s, r, skip, {})
  BY <1>3, <1>4, <1>5 DEF Adds
<1>7. QED
  BY <1>6 DEF r, skip

-----------------------------------------------------------------------------
(* ... and migration. *)

\* The index of a setscene task leads to a setscene task.
LEMMA HashesType == \A h \in DOMAIN hashes : hashes[h] \in Setscene
<1> SUFFICES ASSUME NEW h \in DOMAIN hashes PROVE hashes[h] \in Setscene
  OBVIOUS
<1> DEFINE S == {t \in Setscene : HashIndex(t, InitHash) = h}
<1>1. h \in {HashIndex(t, InitHash) : t \in Setscene}
  BY DEF hashes
<1>2. hashes[h] = Min(S)
  BY <1>1 DEF hashes
<1>3. S # {} /\ S \subseteq Setscene
  BY <1>1
<1>4. S \in SUBSET Nat
  BY TasksAssumption, SetsceneAssumption
<1> HIDE DEF S
<1>5. \E x \in S : \A y \in S : x <= y
  BY <1>3, <1>4, Least
<1>6. Min(S) \in S
  BY <1>5 DEF Min
<1>7. QED
  BY <1>2, <1>3, <1>6

\* A deferred setscene task waits for a setscene task.
DeferredType(def) ==
  /\ DOMAIN def \subseteq Setscene
  /\ \A t \in DOMAIN def : def[t] \in Setscene

\* Deferring keeps that.
LEMMA DeferType ==
  ASSUME NEW def, DeferredType(def), NEW T \in SUBSET Setscene, NEW uni
  PROVE  DeferredType(Defer(def, T, uni))
<1> DEFINE W == Twins(T, uni)
           D == DOMAIN def
           val(t) == IF t \in W THEN hashes[HashIndex(t, uni)] ELSE def[t]
           F == [t \in D \cup W |-> val(t)]
<1>1. W \subseteq Setscene
  BY DEF Twins
<1>2. \A t \in W : hashes[HashIndex(t, uni)] \in Setscene
  BY HashesType DEF Twins
<1>3. D \subseteq Setscene /\ \A t \in D : def[t] \in Setscene
  BY DEF DeferredType
<1>5. Defer(def, T, uni) = F
  BY DEF Defer
<1> HIDE DEF W, D
<1>6. \A t \in D \cup W : val(t) \in Setscene
  BY <1>2, <1>3
<1> HIDE DEF val
<1>7. DeferredType(F)
  BY <1>1, <1>3, <1>6 DEF DeferredType
<1>8. QED
  BY <1>5, <1>7

\* What a migration has changed, after some of its rounds.
MState == [sq : SqState, pending : SUBSET Setscene, migrated : SUBSET Setscene,
           hard : SUBSET Setscene, failed : SUBSET Setscene, halt : BOOLEAN]

\* Every setscene task that is processed or live is marked as running.
Marked(s) == Processed(s) \cup sq_live \subseteq s.running

\* What is no longer done when the setscene tasks T are taken back.
Undone(T) == T \cup ((UNION {sq_covered_tasks[t] : t \in T}) \ (runq_complete \cup unskippable))

\* A round takes a setscene task back only if it was not started and covers no
\* running task, and reports what it takes back.  It never halts the build.  What
\* is taken back is buildable again when everything above it is processed, unless it
\* hard-depends on what is not available.
RoundsKeep(m) ==
  /\ Marked(m.sq)
  /\ m.sq.need = sq.need
  /\ m.sq.covered = sq.covered \ m.migrated
  /\ m.sq.notcovered = sq.notcovered \ m.migrated
  /\ m.sq.running = sq.running \ m.migrated
  /\ m.sq.done = sq.done \ Undone(m.migrated)
  /\ sq.buildable \ m.migrated = m.sq.buildable \ m.migrated
  /\ \A t \in m.migrated \ m.hard :
       /\ sq_revdeps[t] \subseteq Processed(m.sq) => t \in m.sq.buildable
       /\ ~HardDepFail(m.sq, t)
  /\ \A t \in m.migrated \cap m.sq.buildable : SetsceneDepends[t] \subseteq sq.covered
  /\ m.migrated = {} => m.sq = sq
  /\ \A t \in m.migrated : t \notin sq_live \cup runq_running /\ ~CoversRunning(t)
  /\ m.pending \subseteq pending_migrations /\ m.migrated \subseteq pending_migrations \ m.pending
  /\ ~m.halt /\ m.failed = {}
  /\ m.hard \subseteq m.migrated

Rounds == {m \in MState : RoundsKeep(m)}

\* What the requeueing of t, if b as buildable, does to the bookkeeping.
TakenBack(s, t, b, r) ==
  /\ r \in SqState /\ r.need = s.need
  /\ r.covered = s.covered \ {t} /\ r.notcovered = s.notcovered \ {t}
  /\ r.running = s.running \ {t} /\ r.done = s.done \ Undone({t})
  /\ r.buildable = (s.buildable \ {t}) \cup {x \in {t} : b}

LEMMA RequeuedType ==
  ASSUME NEW s \in SqState, NEW t \in Setscene, NEW b
  PROVE  TakenBack(s, t, b, Requeued(s, t, b))
<1> DEFINE gone == sq_covered_tasks[t] \ (runq_complete \cup unskippable)
           some == {x \in {t} : b}
<1>1. Requeued(s, t, b) =
        [s EXCEPT !.done = (@ \ {t}) \ gone, !.buildable = (@ \ {t}) \cup some,
                  !.running = @ \ {t}, !.outrightfail = @ \ {t},
                  !.covered = @ \ {t}, !.notcovered = @ \ {t}, !.notneeded = @ \ {t}]
  BY DEF Requeued
<1>2. some \subseteq {t}
  OBVIOUS
<1> HIDE DEF gone, some
<1> DEFINE r == Requeued(s, t, b)
<1>a. /\ (s.done \ {t}) \ gone \in SUBSET Tasks
      /\ (s.buildable \ {t}) \cup some \in SUBSET Setscene
      /\ s.running \ {t} \in SUBSET Setscene
      /\ s.outrightfail \ {t} \in SUBSET Setscene
      /\ s.covered \ {t} \in SUBSET Setscene
      /\ s.notcovered \ {t} \in SUBSET Setscene
      /\ s.notneeded \ {t} \in SUBSET Setscene
  BY <1>2 DEF SqState
<1>b. r \in SqState
  BY <1>1, <1>a DEF SqState
<1>3. r.need = s.need /\ r.running = s.running \ {t}
  BY <1>1 DEF SqState
<1>4. r.covered = s.covered \ {t} /\ r.notcovered = s.notcovered \ {t}
  BY <1>1 DEF SqState
<1>5. r.done = (s.done \ {t}) \ gone /\ r.buildable = (s.buildable \ {t}) \cup some
  BY <1>1 DEF SqState
<1>6. Undone({t}) = {t} \cup gone
  BY DEF Undone, gone
<1>7. {x \in {t} : b} = some
  BY DEF some
<1> HIDE DEF r
<1>8. TakenBack(s, t, b, r)
  BY <1>b, <1>3, <1>4, <1>5, <1>6, <1>7 DEF TakenBack
<1>9. QED
  BY <1>8 DEF r

\* A task that was skipped as covered stays so: no setscene task that covers it
\* fails, or is to be taken back.
Skipped == runq_complete \ runq_tasksrun
SkippedCovered ==
  \A c \in Skipped : \A t \in Setscene :
    c \in sq_covered_tasks[t] => t \in sq.covered \ pending_migrations

\* A task that waits to be taken back covers none that was skipped.
LEMMA NothingBroken ==
  ASSUME SkippedCovered, NEW t \in pending_migrations, t \in Setscene
  PROVE  sq_covered_tasks[t] \cap Skipped = {}
  BY DEF SkippedCovered

\* Each round keeps it, and a task is taken from the pending ones in its round
\* unless it has to wait.
LEMMA MigrateOneKeeps ==
  ASSUME NEW m \in Rounds, NEW t \in pending_migrations, t \in Setscene, SkippedCovered
  PROVE  /\ MigrateOne(m, t) \in Rounds
         /\ MigrateOne(m, t).pending \subseteq m.pending
         /\ t \in MigrateOne(m, t).pending =>
              CoversRunning(t) /\ t \notin runq_running \cup sq_live
<1> DEFINE s      == m.sq
           hard   == HardDepFail(s, t)
           ready  == ~hard /\ sq_revdeps[t] \subseteq Processed(s)
           late   == t \in runq_running \cup sq_live
           wait   == CoversRunning(t)
           broken == sq_covered_tasks[t] \cap (runq_complete \ runq_tasksrun) # {}
           r      == MigrateOne(m, t)
<1>0. m \in MState /\ RoundsKeep(m) /\ s \in SqState /\ ~m.halt
  BY DEF Rounds, MState, RoundsKeep
<1>a. ~broken
  BY NothingBroken DEF Skipped
<1>1. CASE ~late /\ wait
  <2>1. r = m
    BY <1>0, <1>1 DEF MigrateOne, MState
  <2>2. QED
    BY <1>1, <2>1
<1>2. CASE late
  <2>1. r = [m EXCEPT !.pending = @ \ {t}]
    BY <1>0, <1>2 DEF MigrateOne, MState
  <2> HIDE DEF r
  <2>2. r \in MState /\ r.sq = m.sq /\ r.migrated = m.migrated /\ r.hard = m.hard
        /\ r.failed = m.failed /\ r.halt = m.halt /\ r.pending = m.pending \ {t}
    BY <1>0, <2>1 DEF MState
  <2>3. RoundsKeep(r)
    BY <1>0, <2>2 DEF RoundsKeep
  <2>4. QED
    BY <2>2, <2>3 DEF Rounds, r
<1>4. CASE ~late /\ ~wait
  <2> DEFINE some == {x \in {t} : hard}
             b == ready \/ sq_revdeps[t] = {}
             back == {x \in {t} : b}
             q == Requeued(s, t, b)
  <2>1. r = [m EXCEPT !.pending = @ \ {t}, !.migrated = @ \cup {t},
                      !.hard = @ \cup some, !.sq = q]
    BY <1>0, <1>a, <1>4 DEF MigrateOne, MState
  <2>2. some \subseteq {t} /\ t \notin sq_live \cup runq_running /\ ~CoversRunning(t)
    BY <1>4
  <2>3. /\ hard <=> t \in some
        /\ ~hard /\ sq_revdeps[t] \subseteq Processed(s) => t \in back
    OBVIOUS
  <2>a. ~hard => ~HardDepFail(s, t)
    OBVIOUS
  <2>b. back \subseteq {t} /\ (t \in back => SetsceneDepends[t] \subseteq sq.covered)
    <3>1. SetsceneDepends[t] \subseteq sq_revdeps[t] /\ SetsceneDepends[t] \subseteq Setscene
      BY SetsceneAssumption DEF sq_revdeps
    <3>2. ~hard => SetsceneDepends[t] \cap s.notcovered = {}
      BY <1>0, <3>1 DEF HardDepFail, sq_harddeps, SqState
    <3>3. s.covered \subseteq sq.covered
      BY <1>0 DEF RoundsKeep
    <3>4. QED
      BY <3>1, <3>2, <3>3 DEF Processed
  <2> HIDE DEF some, r, b, hard
  <2>4. /\ q \in SqState /\ q.need = s.need /\ q.covered = s.covered \ {t}
        /\ q.notcovered = s.notcovered \ {t} /\ q.running = s.running \ {t}
        /\ q.done = s.done \ Undone({t}) /\ q.buildable = (s.buildable \ {t}) \cup back
    <3>1. TakenBack(s, t, b, q)
      BY <1>0, RequeuedType
    <3> HIDE DEF q, s
    <3>2. QED
      BY <3>1 DEF TakenBack
  <2> HIDE DEF q, back
  <2>5. r \in MState /\ r.migrated = m.migrated \cup {t} /\ r.hard = m.hard \cup some
        /\ r.failed = m.failed /\ r.halt = m.halt /\ r.sq = q /\ r.pending = m.pending \ {t}
    BY <1>0, <2>1, <2>2, <2>4 DEF MState
  <2>6. Marked(q)
    BY <1>0, <2>2, <2>4 DEF RoundsKeep, Marked, Processed
  <2>7. q.done = sq.done \ Undone(m.migrated \cup {t})
    <3>1. Undone(m.migrated \cup {t}) = Undone(m.migrated) \cup Undone({t})
      BY DEF Undone
    <3>2. QED
      BY <1>0, <2>4, <3>1 DEF RoundsKeep
  <2>8. ASSUME NEW d \in r.migrated \ r.hard, sq_revdeps[d] \subseteq Processed(q)
        PROVE  d \in q.buildable
    <3>1. Processed(q) \subseteq Processed(s)
      BY <2>4 DEF Processed
    <3>2. CASE d = t
      BY <2>3, <2>4, <2>5, <2>8, <3>1, <3>2
    <3>3. CASE d # t
      BY <1>0, <2>4, <2>5, <2>8, <3>1, <3>3 DEF RoundsKeep
    <3>4. QED
      BY <3>2, <3>3
  <2>9. sq.buildable \ r.migrated = q.buildable \ r.migrated
    BY <1>0, <2>b, <2>4, <2>5 DEF RoundsKeep
  <2>c. \A d \in r.migrated \ r.hard : ~HardDepFail(q, d)
    BY <1>0, <2>2, <2>3, <2>a, <2>4, <2>5 DEF RoundsKeep, HardDepFail
  <2>d. \A d \in r.migrated \cap q.buildable : SetsceneDepends[d] \subseteq sq.covered
    BY <1>0, <2>b, <2>4, <2>5 DEF RoundsKeep
  <2>10. RoundsKeep(r)
    BY <1>0, <2>2, <2>4, <2>5, <2>6, <2>7, <2>8, <2>9, <2>c, <2>d DEF RoundsKeep
  <2>11. QED
    BY <2>5, <2>10 DEF Rounds, r
<1>5. QED
  BY <1>1, <1>2, <1>4

\* An order of the pending migrations: every one has its round.
LEMMA OrderType ==
  ASSUME pending_migrations \subseteq Setscene, NEW ord \in SetToSeqs(pending_migrations)
  PROVE  /\ Cardinality(pending_migrations) \in Nat
         /\ \A n \in 1..Cardinality(pending_migrations) :
              ord[n] \in pending_migrations /\ ord[n] \in Setscene
         /\ \A t \in pending_migrations :
              \E n \in 1..Cardinality(pending_migrations) : ord[n] = t
<1> DEFINE N == Cardinality(pending_migrations)
<1>1. IsFiniteSet(pending_migrations)
  BY TasksAssumption, SetsceneAssumption, FS_Subset
<1>2. N \in Nat
  BY <1>1, FS_CardinalityType
<1>3. ord \in [1..N -> pending_migrations] /\ \A i, j \in 1..N : i # j => ord[i] # ord[j]
  BY DEF SetToSeqs
<1> HIDE DEF N
<1>4. ord \in Injection(1..N, pending_migrations)
  BY <1>3 DEF Injection, IsInjective
<1>5. Cardinality(1..N) = N
  BY <1>2, FS_Interval
<1>6. ord \in Surjection(1..N, pending_migrations)
  BY <1>1, <1>4, <1>5, FS_Injection DEF N
<1>7. \A t \in pending_migrations : \E n \in 1..N : ord[n] = t
  BY <1>6 DEF Surjection
<1>8. QED
  BY <1>2, <1>3, <1>7 DEF N

\* All rounds keep it, in whatever order the set is gone through.
LEMMA MigratedKeeps ==
  ASSUME sq \in SqState, Marked(sq), pending_migrations \subseteq Setscene, SkippedCovered,
         NEW ord \in SetToSeqs(pending_migrations)
  PROVE  /\ Migrated(ord) \in Rounds
         /\ \A t \in Migrated(ord).pending :
              CoversRunning(t) /\ t \notin runq_running \cup sq_live
<1> DEFINE N == Cardinality(pending_migrations)
           base == [sq |-> sq, pending |-> pending_migrations, migrated |-> {},
                    hard |-> {}, failed |-> {}, halt |-> FALSE]
           Fcn(f) == f = [n \in 0..N |-> IF n = 0 THEN base ELSE MigrateOne(f[n - 1], ord[n])]
           f0 == CHOOSE f : Fcn(f)
<1>1. /\ N \in Nat
      /\ \A n \in 1..N : ord[n] \in pending_migrations /\ ord[n] \in Setscene
      /\ \A t \in pending_migrations : \E n \in 1..N : ord[n] = t
  BY OrderType
<1>2. base \in Rounds
  <2>1. base \in MState
    BY DEF MState
  <2>2. Undone({}) = {}
    BY DEF Undone
  <2>3. RoundsKeep(base)
    BY <2>2 DEF RoundsKeep
  <2>4. QED
    BY <2>1, <2>3 DEF Rounds
<1>3. Migrated(ord) = f0[N]
  BY DEF Migrated
<1> HIDE DEF N, base
<1>4. \E f : Fcn(f)
  <2> DEFINE g == [n \in 1..N |-> [p \in Rounds |-> MigrateOne(p, ord[n])]]
  <2>1. Steps(g, N, Rounds)
    <3>1. \A n \in 1..N, p \in Rounds : MigrateOne(p, ord[n]) \in Rounds
      BY <1>1, MigrateOneKeeps
    <3>2. QED
      BY <3>1 DEF Steps
  <2> HIDE DEF g
  <2>2. Iterable(base, g, N, Rounds)
    BY <1>1, <1>2, <2>1, Recursion
  <2>3. PICK f \in [0..N -> Rounds] : f[0] = base /\ \A n \in 1..N : f[n] = g[n][f[n - 1]]
    BY <2>2 DEF Iterable
  <2>4. ASSUME NEW n \in 1..N PROVE f[n] = MigrateOne(f[n - 1], ord[n])
    <3>1. f[n - 1] \in Rounds
      BY <1>1
    <3>2. QED
      BY <2>3, <3>1 DEF g
  <2>5. f = [n \in 0..N |-> IF n = 0 THEN base ELSE MigrateOne(f[n - 1], ord[n])]
    BY <1>1, <2>3, <2>4
  <2>6. QED
    BY <2>5
<1>5. Fcn(f0)
  BY <1>4
<1> HIDE DEF f0
<1>6. f0[0] = base /\ \A n \in 1..N : f0[n] = MigrateOne(f0[n - 1], ord[n])
  BY <1>1, <1>5
<1>7. \A n \in 1..N : f0[n - 1] \in Rounds => f0[n] \in Rounds
  BY <1>1, <1>6, MigrateOneKeeps
<1>8. \A n \in 0..N : f0[n] \in Rounds
  BY <1>1, <1>2, <1>6, <1>7, StepByStep
<1>9. ASSUME NEW t \in pending_migrations, ~(CoversRunning(t) /\ t \notin runq_running \cup sq_live)
      PROVE  t \notin f0[N].pending
  <2>1. PICK k \in 1..N : ord[k] = t
    BY <1>1
  <2> DEFINE left == [n \in 0..N |-> IF n < k THEN {} ELSE f0[n].pending]
             S == SUBSET (pending_migrations \ {t})
  <2>2. left[0] \in S
    BY <1>1
  <2>3. ASSUME NEW n \in 1..N, left[n - 1] \in S PROVE left[n] \in S
    <3>1. f0[n] \in Rounds /\ f0[n].pending \subseteq pending_migrations
      BY <1>8 DEF Rounds, RoundsKeep
    <3>2. f0[n - 1] \in Rounds /\ ord[n] \in pending_migrations /\ ord[n] \in Setscene
      BY <1>1, <1>8
    <3>3. /\ f0[n].pending \subseteq f0[n - 1].pending
          /\ ord[n] = t => t \notin f0[n].pending
      BY <1>6, <1>9, <3>2, MigrateOneKeeps
    <3>4. CASE n < k
      BY <3>4
    <3>5. CASE n = k
      BY <2>1, <3>1, <3>3, <3>5
    <3>6. CASE n > k
      <4>1. n - 1 \in 0..N /\ ~(n - 1 < k)
        BY <1>1, <3>6
      <4>2. left[n - 1] = f0[n - 1].pending
        BY <4>1
      <4>3. left[n] = f0[n].pending
        BY <1>1, <3>6
      <4>4. QED
        BY <2>3, <3>1, <3>3, <4>2, <4>3
    <3>7. QED
      BY <3>4, <3>5, <3>6
  <2>4. left[N] = f0[N].pending
    BY <1>1
  <2> HIDE DEF left, S
  <2>5. \A n \in 1..N : left[n - 1] \in S => left[n] \in S
    BY <2>3
  <2>6. \A n \in 0..N : left[n] \in S
    BY <1>1, <2>2, <2>5, StepByStep
  <2>7. left[N] \in S
    BY <1>1, <2>6
  <2>8. QED
    BY <2>4, <2>7 DEF S
<1>10. f0[N] \in Rounds /\ f0[N].pending \subseteq pending_migrations
  BY <1>1, <1>8 DEF Rounds, RoundsKeep
<1>11. QED
  BY <1>3, <1>9, <1>10

\* The failures after the rounds, one by one.
HardStep(ord, hard, n, r) == IF ord[n] \in hard THEN sq_task_failoutright(r, ord[n]) ELSE r

HardRounds(s, ord, hard, M, f) ==
  /\ Cardinality(pending_migrations) \in Nat
  /\ f[0] = s /\ HardFailed(s, ord, hard) = f[Cardinality(pending_migrations)]
  /\ \A n \in 0..Cardinality(pending_migrations) : f[n] \in M
  /\ \A n \in 1..Cardinality(pending_migrations) : f[n] = HardStep(ord, hard, n, f[n - 1])

LEMMA HardFailedRounds ==
  ASSUME NEW hard, NEW M, NEW s \in M,
         \A r \in M : \A t \in hard \cap Setscene : sq_task_failoutright(r, t) \in M,
         pending_migrations \subseteq Setscene, NEW ord \in SetToSeqs(pending_migrations)
  PROVE  \E f : HardRounds(s, ord, hard, M, f)
<1> DEFINE N == Cardinality(pending_migrations)
           Step(n, r) == HardStep(ord, hard, n, r)
           Fcn(f) == f = [n \in 0..N |-> IF n = 0 THEN s
                                        ELSE IF ord[n] \in hard
                                             THEN sq_task_failoutright(f[n - 1], ord[n])
                                             ELSE f[n - 1]]
           f0 == CHOOSE f : Fcn(f)
<1>1. N \in Nat /\ \A n \in 1..N : ord[n] \in Setscene
  BY OrderType
<1>2. HardFailed(s, ord, hard) = f0[N]
  BY DEF HardFailed
<1>3. \A n \in 1..N, r \in M : Step(n, r) \in M
  BY <1>1 DEF HardStep
<1> HIDE DEF N
<1>4. \E f : Fcn(f)
  <2> DEFINE g == [n \in 1..N |-> [p \in M |-> Step(n, p)]]
  <2>1. Steps(g, N, M)
    BY <1>3 DEF Steps
  <2> HIDE DEF g
  <2>2. Iterable(s, g, N, M)
    BY <1>1, <2>1, Recursion
  <2>3. PICK f \in [0..N -> M] : f[0] = s /\ \A n \in 1..N : f[n] = g[n][f[n - 1]]
    BY <2>2 DEF Iterable
  <2>4. ASSUME NEW n \in 1..N PROVE f[n] = Step(n, f[n - 1])
    <3>1. f[n - 1] \in M
      BY <1>1
    <3>2. QED
      BY <2>3, <3>1 DEF g
  <2>5. f = [n \in 0..N |-> IF n = 0 THEN s ELSE Step(n, f[n - 1])]
    BY <1>1, <2>3, <2>4
  <2>6. QED
    BY <2>5 DEF HardStep
<1>5. Fcn(f0)
  BY <1>4
<1> HIDE DEF f0
<1>6. f0[0] = s /\ \A n \in 1..N : f0[n] = Step(n, f0[n - 1])
  BY <1>1, <1>5 DEF HardStep
<1> HIDE DEF Step
<1>7. \A n \in 0..N : f0[n] \in M
  BY <1>1, <1>3, <1>6, StepByStep
<1>8. HardRounds(s, ord, hard, M, f0)
  BY <1>1, <1>2, <1>6, <1>7 DEF HardRounds, N, Step
<1>9. QED
  BY <1>8

\* What a failure keeps they keep,
LEMMA HardFailedKeeps ==
  ASSUME NEW hard, NEW M, NEW s \in M,
         \A r \in M : \A t \in hard \cap Setscene : sq_task_failoutright(r, t) \in M,
         pending_migrations \subseteq Setscene, NEW ord \in SetToSeqs(pending_migrations)
  PROVE  HardFailed(s, ord, hard) \in M
<1>1. PICK f : HardRounds(s, ord, hard, M, f)
  BY HardFailedRounds
<1>2. QED
  BY <1>1 DEF HardRounds

\* and what the failure of t brings about and the others keep holds after all.
LEMMA HardFailedReaches ==
  ASSUME NEW hard, NEW M, NEW s \in M, NEW T, NEW t \in hard \cap pending_migrations,
         \A r \in M : \A x \in hard \cap Setscene : sq_task_failoutright(r, x) \in M,
         \A r \in M : sq_task_failoutright(r, t) \in T,
         \A r \in M \cap T : \A x \in hard \cap Setscene : sq_task_failoutright(r, x) \in T,
         pending_migrations \subseteq Setscene, NEW ord \in SetToSeqs(pending_migrations)
  PROVE  HardFailed(s, ord, hard) \in T
<1> DEFINE N == Cardinality(pending_migrations)
<1>1. PICK f : HardRounds(s, ord, hard, M, f)
  BY HardFailedRounds
<1>2. /\ N \in Nat /\ HardFailed(s, ord, hard) = f[N]
      /\ \A n \in 0..N : f[n] \in M
      /\ \A n \in 1..N : f[n] = HardStep(ord, hard, n, f[n - 1])
  BY <1>1 DEF HardRounds
<1>3. /\ \A n \in 1..N : ord[n] \in Setscene
      /\ \E n \in 1..N : ord[n] = t
  BY OrderType
<1>4. PICK k \in 1..N : ord[k] = t
  BY <1>3
<1> HIDE DEF N
<1> DEFINE P == {n \in 0..N : n < k \/ f[n] \in T}
<1>5. 0 \in P
  BY <1>2
<1>6. ASSUME NEW n \in 1..N, n - 1 \in P PROVE n \in P
  <2>1. n - 1 \in 0..N /\ f[n - 1] \in M /\ f[n] = HardStep(ord, hard, n, f[n - 1])
    BY <1>2
  <2>2. CASE n < k
    BY <2>2
  <2>3. CASE n = k
    BY <1>4, <2>1, <2>3 DEF HardStep
  <2>4. CASE n > k
    <3>1. f[n - 1] \in T
      BY <1>6, <2>1, <2>4
    <3>2. f[n] \in T
      BY <1>3, <2>1, <3>1 DEF HardStep
    <3>3. QED
      BY <3>2
  <2>5. QED
    BY <2>2, <2>3, <2>4
<1> HIDE DEF P
<1>7. N \in P
  BY <1>2, <1>5, <1>6, LastStep
<1>8. QED
  BY <1>2, <1>7 DEF P

\* They take back nothing.
LEMMA HardFailedGrows ==
  ASSUME NEW s \in SqState, pending_migrations \subseteq Setscene,
         NEW ord \in SetToSeqs(pending_migrations), NEW hard
  PROVE  Grows(s, HardFailed(s, ord, hard)) /\ (hard = {} => HardFailed(s, ord, hard) = s)
<1> DEFINE M == {r \in SqState : Grows(s, r)}
<1>1. s \in M
  BY DEF Grows
<1>2. ASSUME NEW r \in M, NEW t \in hard \cap Setscene PROVE sq_task_failoutright(r, t) \in M
  <2> DEFINE q == sq_task_failoutright(r, t)
  <2>1. Grows(r, q)
    BY FailOutrightGrows
  <2> HIDE DEF q
  <2>2. q \in M
    BY <2>1 DEF Grows
  <2>3. QED
    BY <2>2 DEF q
<1>3. HardFailed(s, ord, hard) \in M
  <2> HIDE DEF M
  <2>1. QED
    BY <1>1, <1>2, HardFailedKeeps
<1>4. ASSUME hard = {} PROVE HardFailed(s, ord, hard) \in {s}
  BY <1>4, HardFailedKeeps
<1>5. QED
  BY <1>3, <1>4

-----------------------------------------------------------------------------
(* Part 4.  The scene queue beside the real queue: its invariant and what     *)
(* follows from it.                                                           *)

\* Setscene tasks the scene queue has not decided about.
Open == Setscene \ Processed(sq)

\* What has finished was started.
StartedFirst == runq_complete \subseteq runq_running

\* An undecided setscene task was not started as a real task, and covers nothing
\* that is running.
OpenIsQuiet == \A t \in Open : t \notin runq_running /\ sq_covered_tasks[t] \cap InFlight = {}

\* What was computed last follows the decisions, unless it is known to be out of
\* date: the hold-off holds back what undecided setscene tasks cover,
HoldoffHolds == ~sq.need => Holdoff \subseteq holdoff_tasks

\* and the coverage is what the setscene tasks cover now.
DecisionsKept == ~sq.need => tasks_covered = Covered /\ tasks_notcovered = NotCovered

\* It is not out of date when a real task is looked for.
HoldoffRecent == pc \in {"sqdone", "real", "wait"} => ~sq.need

\* A setscene task that waits to be taken back was started as a real task, or has
\* failed, unless it has just been rehashed.
PendingRejected ==
  \A t \in pending_migrations :
    t \in runq_running \cup sq.notcovered \/ (pc = "migrate" /\ t \notin sq.covered \cup sq_live)

QueueInv ==
  /\ TypeOK /\ Marked(sq) /\ StartedFirst
  /\ OpenIsQuiet /\ HoldoffHolds /\ DecisionsKept /\ HoldoffRecent
  /\ SkippedCovered /\ PendingRejected

\* Nothing may happen.
LEMMA GrowsReflexive == ASSUME sq \in SqState PROVE Grows(sq, sq)
  BY DEF Grows

\* Steps that start nothing and only add to what the scene queue has decided.
LEMMA GrowingCore ==
  ASSUME QueueInv, TypeOK', Grows(sq, sq'), sq_live' \subseteq sq_live \cup sq.running',
         runq_complete \subseteq runq_complete', StartedFirst', InFlight' \subseteq InFlight,
         runq_running' \cap Open \subseteq runq_running, UNCHANGED holdoffVars,
         HoldoffRecent', SkippedCovered', PendingRejected'
  PROVE  QueueInv'
<1>1. Marked(sq)'
  BY DEF QueueInv, Marked, Grows, Processed
<1>2. Open' \subseteq Open
  BY DEF Open, Grows, Processed
<1>3. OpenIsQuiet'
  BY <1>2 DEF QueueInv, OpenIsQuiet
<1>4. Holdoff' \subseteq Holdoff
  BY <1>2 DEF Open, Holdoff
<1>5. HoldoffHolds'
  BY <1>4 DEF QueueInv, HoldoffHolds, Grows, holdoffVars
<1>6. DecisionsKept'
  <2> SUFFICES ASSUME ~sq.need' PROVE tasks_covered' = Covered' /\ tasks_notcovered' = NotCovered'
    BY DEF DecisionsKept
  <2>1. sq.covered' = sq.covered /\ sq.notcovered' = sq.notcovered /\ sq.done' = sq.done
    BY DEF Grows
  <2>2. NotCovered' = NotCovered
    BY <2>1 DEF NotCovered
  <2>3. Covered' = Covered
    BY <2>1, <2>2 DEF Covered
  <2>4. QED
    BY <2>2, <2>3 DEF QueueInv, DecisionsKept, Grows, holdoffVars
<1>7. QED
  BY <1>1, <1>3, <1>5, <1>6 DEF QueueInv

\* Those that skip no task and rehash none.
LEMMA GrowingStep ==
  ASSUME QueueInv, TypeOK', Grows(sq, sq'), sq_live' \subseteq sq_live \cup sq.running',
         runq_complete \subseteq runq_complete', StartedFirst', InFlight' \subseteq InFlight,
         runq_running' \cap Open \subseteq runq_running, UNCHANGED holdoffVars,
         HoldoffRecent', Skipped' \subseteq Skipped, runq_running \subseteq runq_running',
         pc # "migrate", pending_migrations' = pending_migrations
  PROVE  QueueInv'
<1>1. SkippedCovered'
  BY DEF QueueInv, SkippedCovered, Grows
<1>2. PendingRejected'
  BY DEF QueueInv, PendingRejected, Grows
<1>3. QED
  BY <1>1, <1>2, GrowingCore

-----------------------------------------------------------------------------
(* ... the steps, ... *)

\* The construction.
LEMMA InitQueue == Init => QueueInv
<1> SUFFICES ASSUME Init PROVE QueueInv
  OBVIOUS
<1> DEFINE s0 == [buildable |-> {t \in Setscene : sq_revdeps[t] = {}}, running |-> {},
                  covered |-> {}, notcovered |-> {}, notneeded |-> {}, outrightfail |-> {},
                  done |-> unskippable \ Setscene, need |-> TRUE]
<1>1. s0 \in SqState /\ s0.need /\ Processed(s0) = {}
  BY SceneQueueData DEF SqState, Processed
<1>2. sq = update_scenequeue_data(s0, Setscene, InitHash, InitDeferred)
  BY DEF Init, InitSq
<1> HIDE DEF s0
<1>3. Grows(s0, sq)
  BY <1>1, <1>2, UpdateDataGrows
<1>4. Marked(sq)
  BY <1>1, <1>3 DEF Grows, Marked, Init
<1>5. sq \in SqState /\ sq.need = TRUE
  BY <1>1, <1>3 DEF Grows, SqState
<1>6. DeferredType(InitDeferred)
  <2>1. DeferredType([t \in {} |-> t])
    BY DEF DeferredType
  <2>2. QED
    BY <2>1, DeferType DEF InitDeferred
<1>7. TypeOK
  <2>1. stamp \in [Tasks -> 0..2] /\ sstamp \in [Tasks -> 0..2]
    BY DEF Init
  <2>2. runq_buildable \subseteq Tasks
    BY SceneQueueData DEF Init
  <2>3. sqdone \in BOOLEAN /\ changed \in BOOLEAN
    BY DEF Init
  <2>4. DOMAIN sq_deferred \subseteq Setscene
        /\ \A t \in DOMAIN sq_deferred : sq_deferred[t] \in Setscene
    BY <1>6 DEF Init, DeferredType
  <2>5. /\ unihash \in [Tasks -> Hashes] /\ worker \in [Tasks -> {"none", "run", "ok", "fail"}]
        /\ reported \in [Tasks -> Hashes \cup {NoHash}]
    BY HashAssumption DEF Init
  <2>6. active \in Int /\ -MaxDebt <= active
    BY MaxDebtAssumption DEF Init
  <2>7. /\ tasks_covered \subseteq Tasks /\ tasks_notcovered \subseteq Tasks
        /\ updated_taskhash_queue \subseteq Setscene \X Hashes
    BY DEF Init
  <2>8. QED
    BY <1>5, <2>1, <2>2, <2>3, <2>4, <2>5, <2>6, <2>7 DEF Init, TypeOK
<1>8. /\ StartedFirst /\ OpenIsQuiet /\ HoldoffHolds /\ DecisionsKept /\ HoldoffRecent
      /\ SkippedCovered /\ PendingRejected
  BY <1>5 DEF Init, StartedFirst, OpenIsQuiet, HoldoffHolds, DecisionsKept, HoldoffRecent,
              InFlight, SkippedCovered, Skipped, PendingRejected
<1>9. QED
  BY <1>4, <1>7, <1>8 DEF QueueInv

\* task_completeoutright: one more task is complete, and the setscene tasks that
\* were deferred against it are looked up again.
LEMMA CompletionQueue ==
  ASSUME TypeOK, NEW t \in Tasks, task_completeoutright(t)
  PROVE  /\ Grows(sq, sq')
         /\ runq_complete' = runq_complete \cup {t}
         /\ runq_buildable' \subseteq Tasks
         /\ DeferredType(sq_deferred')
<1> DEFINE freed == {d \in DOMAIN sq_deferred : sq_deferred[d] = t}
           def   == [d \in DOMAIN sq_deferred \ freed |-> sq_deferred[d]]
<1>1. /\ runq_complete' = runq_complete \cup {t}
      /\ sq_deferred' = def
      /\ sq' = IF freed = {} THEN sq ELSE update_scenequeue_data(sq, freed, unihash, def)
  BY DEF task_completeoutright
<1>2. runq_buildable' \subseteq Tasks
  <2>1. revdeps[t] \subseteq Tasks
    BY DEF revdeps
  <2>2. QED
    BY <2>1 DEF task_completeoutright, TypeOK
<1>3. freed \in SUBSET Setscene /\ sq \in SqState
  BY DEF TypeOK
<1>4. DeferredType(def)
  BY DEF TypeOK, DeferredType
<1> HIDE DEF freed, def
<1>5. Grows(sq, sq')
  BY <1>1, <1>3, GrowsReflexive, UpdateDataGrows
<1>6. QED
  BY <1>1, <1>2, <1>4, <1>5

\* The workers' messages, and the processes themselves.
LEMMA WorkerQueue ==
  ASSUME QueueInv, Inv, NEW t \in Tasks,
         WorkerExit(t) \/ ReadWorker(t) \/ \E h \in Hashes : WorkerUniHash(t, h)
  PROVE  QueueInv'
<1>0. TypeOK /\ sq \in SqState /\ Grows(sq, sq) /\ Marked(sq) /\ StartedFirst /\ HoldoffRecent
  BY GrowsReflexive DEF QueueInv, TypeOK
<1>1. CASE WorkerExit(t)
  <2>1. stamp' \in [Tasks -> 0..2] /\ sstamp' \in [Tasks -> 0..2]
    BY <1>0, <1>1 DEF WorkerExit, ExitOk, ExitFail, TypeOK
  <2>2. worker' \in [Tasks -> {"none", "run", "ok", "fail"}]
    BY <1>0, <1>1 DEF WorkerExit, ExitOk, ExitFail, TypeOK
  <2>3. UNCHANGED <<state, pc, runqVars, sqVars, holdoffVars, hashVars, reported>>
    BY <1>1 DEF WorkerExit
  <2>4. TypeOK'
    BY <1>0, <2>1, <2>2, <2>3 DEF TypeOK, runqVars, sqVars, holdoffVars, hashVars
  <2>5. QED
    BY <1>0, <1>1, <2>3, <2>4, GrowingStep
       DEF WorkerExit, runqVars, sqVars, holdoffVars, hashVars, StartedFirst, InFlight,
           HoldoffRecent, Skipped
<1>2. CASE TaskComplete(t)
  <2>1. task_completeoutright(t) /\ t \in runq_running
    BY <1>2 DEF TaskComplete, Inv, WorkersStarted
  <2>2. /\ Grows(sq, sq') /\ runq_complete' = runq_complete \cup {t}
        /\ runq_buildable' \subseteq Tasks /\ DeferredType(sq_deferred')
    BY <1>0, <2>1, CompletionQueue
  <2>3. active' \in Int /\ -MaxDebt <= active'
    BY <1>0, <1>2, MaxDebtAssumption DEF TaskComplete, Decreased, TypeOK
  <2>4. worker' \in [Tasks -> {"none", "run", "ok", "fail"}]
    BY <1>0, <1>2 DEF TaskComplete, TypeOK
  <2>5. /\ UNCHANGED <<state, pc, runq_running, failed_tids, sq_live, sqdone,
                       holdoffVars, hashVars, reported, stamp, sstamp, sstate>>
        /\ runq_tasksrun' = runq_tasksrun \cup {t} /\ ReadPhase
    BY <1>2 DEF TaskComplete
  <2>6. TypeOK'
    BY <1>0, <2>2, <2>3, <2>4, <2>5 DEF TypeOK, holdoffVars, hashVars, Grows, DeferredType
  <2>7. StartedFirst' /\ InFlight' \subseteq InFlight
    BY <1>0, <2>1, <2>2, <2>5 DEF StartedFirst, InFlight
  <2>8. QED
    BY <1>0, <2>2, <2>5, <2>6, <2>7, GrowingStep
       DEF holdoffVars, hashVars, HoldoffRecent, ReadPhase, Skipped
<1>3. CASE TaskFail(t)
  <2>1. active' \in Int /\ -MaxDebt <= active'
    BY <1>0, <1>3, MaxDebtAssumption DEF TaskFail, task_fail, Decreased, TypeOK
  <2>2. worker' \in [Tasks -> {"none", "run", "ok", "fail"}]
    BY <1>0, <1>3 DEF TaskFail, TypeOK
  <2>3. /\ UNCHANGED <<pc, runq_buildable, runq_running, runq_complete, runq_tasksrun,
                 sqVars, holdoffVars, hashVars, reported, stamp, sstamp, sstate>>
        /\ failed_tids' = failed_tids \cup {t}
        /\ state' \in {state, "cleanup"} /\ ReadPhase
    BY <1>3 DEF TaskFail, task_fail
  <2>4. TypeOK'
    BY <1>0, <2>1, <2>2, <2>3 DEF TypeOK, sqVars, holdoffVars, hashVars
  <2>5. QED
    BY <1>0, <2>3, <2>4, GrowingStep
       DEF sqVars, holdoffVars, hashVars, StartedFirst, InFlight, HoldoffRecent, ReadPhase, Skipped
<1>4. CASE SetsceneComplete(t)
  <2>1. t \in Setscene /\ {t} \subseteq sq.running
    BY <1>0, <1>4 DEF SetsceneComplete, Marked, SqState
  <2>2. Grows(sq, sq')
    BY <1>0, <1>4, <2>1, CompleteOutrightGrows DEF SetsceneComplete
  <2>3. worker' \in [Tasks -> {"none", "run", "ok", "fail"}]
    BY <1>0, <1>4 DEF SetsceneComplete, TypeOK
  <2>4. /\ UNCHANGED <<state, pc, runqVars, sq_deferred, sqdone, holdoffVars, hashVars,
                 reported, stamp, sstamp, sstate>>
        /\ sq_live' = sq_live \ {t} /\ ReadPhase
    BY <1>4 DEF SetsceneComplete
  <2>5. TypeOK'
    BY <1>0, <2>2, <2>3, <2>4 DEF TypeOK, runqVars, holdoffVars, hashVars, Grows
  <2>6. QED
    BY <1>0, <2>2, <2>4, <2>5, GrowingStep
       DEF runqVars, holdoffVars, hashVars, StartedFirst, InFlight, HoldoffRecent, ReadPhase,
           Skipped
<1>5. CASE SetsceneFail(t)
  <2>1. t \in Setscene /\ t \in sq.running
    BY <1>0, <1>5 DEF SetsceneFail, Marked, SqState
  <2>2. Grows(sq, sq')
    BY <1>0, <1>5, <2>1, FailGrows DEF SetsceneFail
  <2>3. worker' \in [Tasks -> {"none", "run", "ok", "fail"}]
    BY <1>0, <1>5 DEF SetsceneFail, TypeOK
  <2>4. /\ UNCHANGED <<pc, runqVars, sq_deferred, sqdone, holdoffVars, hashVars,
                 reported, stamp, sstamp, sstate>>
        /\ sq_live' = sq_live \ {t} /\ ReadPhase
        /\ state' \in {state, "cleanup"}
    BY <1>5 DEF SetsceneFail
  <2>5. TypeOK'
    BY <1>0, <2>2, <2>3, <2>4 DEF TypeOK, runqVars, holdoffVars, hashVars, Grows
  <2>6. QED
    BY <1>0, <2>2, <2>4, <2>5, GrowingStep
       DEF runqVars, holdoffVars, hashVars, StartedFirst, InFlight, HoldoffRecent, ReadPhase,
           Skipped
<1>6. CASE \E h \in Hashes : WorkerUniHash(t, h)
  <2> PICK h \in Hashes : WorkerUniHash(t, h)
    BY <1>6
  <2>1. updated_taskhash_queue' \subseteq Setscene \X Hashes
    BY <1>0, ConfigAssumption DEF WorkerUniHash, TypeOK
  <2>2. reported' \in [Tasks -> Hashes \cup {NoHash}]
    BY <1>0 DEF WorkerUniHash, TypeOK
  <2>3. /\ UNCHANGED <<state, pc, runqVars, sqVars, holdoffVars, pending_migrations,
                 unihash, changed, worker, stamp, sstamp, sstate>>
        /\ pc \in {"begin", "read"}
    BY DEF WorkerUniHash
  <2>4. TypeOK'
    BY <1>0, <2>1, <2>2, <2>3 DEF TypeOK, runqVars, sqVars, holdoffVars
  <2>5. QED
    BY <1>0, <2>3, <2>4, GrowingStep
       DEF runqVars, sqVars, holdoffVars, StartedFirst, InFlight, HoldoffRecent, Skipped
<1>7. QED
  BY <1>1, <1>2, <1>3, <1>4, <1>5, <1>6 DEF ReadWorker

\* The scheduler of the setscene queue returns a task that was not started.
LEMMA NextSetsceneOpen ==
  ASSUME QueueInv, NEW t, NextSetscene(t)
  PROVE  t \in Open /\ t \notin sq.running
<1>1. SetsceneChoice \subseteq sq.buildable \ sq.running /\ SetsceneChoice # {}
  BY DEF NextSetscene, SetsceneChoice
<1>2. sq.buildable \subseteq Setscene /\ Marked(sq)
  BY DEF QueueInv, TypeOK, SqState
<1>3. SetsceneChoice \in SUBSET Nat
  BY <1>1, <1>2, TasksAssumption, SetsceneAssumption
<1>4. \E x \in SetsceneChoice : \A y \in SetsceneChoice : x <= y
  BY <1>1, <1>3, Least
<1>5. t \in SetsceneChoice
  BY <1>4 DEF NextSetscene, Min
<1>6. QED
  BY <1>1, <1>2, <1>5 DEF Open, Marked

\* A migration: what it takes back covers nothing that runs, and asks for a new
\* hold-off; what has to wait has failed before; and the build goes on.
LEMMA MigratePendingQueue ==
  ASSUME QueueInv, MigratePending
  PROVE  /\ QueueInv' /\ UNCHANGED <<state, failed_tids>>
         /\ ~sq.need' => sq' = sq
         /\ sqdone' => sqdone /\ Open' \subseteq Open
<1>0. /\ TypeOK /\ sq \in SqState /\ Marked(sq) /\ StartedFirst /\ SkippedCovered
      /\ pending_migrations \subseteq Setscene
      /\ DeferredType(sq_deferred)
  BY DEF QueueInv, TypeOK, DeferredType
<1> DEFINE def(m) == Defer(sq_deferred, m.migrated, unihash)
           s1(m)  == IF m.migrated = {} THEN m.sq
                     ELSE update_scenequeue_data(m.sq, m.migrated, unihash, def(m))
           s2(m, ord)  == HardFailed(s1(m), ord, m.hard)
<1>1. PICK ord \in SetToSeqs(pending_migrations) :
        LET m == Migrated(ord)
        IN  /\ pending_migrations' = m.pending
            /\ failed_tids' = failed_tids \cup m.failed
            /\ state' = IF m.halt THEN "cleanup" ELSE state
            /\ sq_deferred' = IF m.halt THEN sq_deferred ELSE def(m)
            /\ sqdone' = (sqdone /\ (m.halt \/ m.migrated = {}))
            /\ sq' = IF m.halt THEN m.sq
                     ELSE [s2(m, ord) EXCEPT !.need = @ \/ changed \/ m.migrated # {}]
  BY DEF MigratePending
<1> DEFINE m == Migrated(ord)
           t1 == s1(m)
           t2 == s2(m, ord)
           t3 == [t2 EXCEPT !.need = @ \/ changed \/ m.migrated # {}]
<1>2. m \in MState /\ RoundsKeep(m)
  BY <1>0, <1>1, MigratedKeeps DEF Rounds
<1>e. \A t \in m.pending : CoversRunning(t) /\ t \notin runq_running \cup sq_live
  BY <1>0, <1>1, MigratedKeeps
<1>a. m.sq \in SqState /\ m.migrated \in SUBSET Setscene /\ m.pending \in SUBSET Setscene
  BY <1>2 DEF MState
<1>b. /\ pending_migrations' = m.pending
      /\ failed_tids' = failed_tids /\ state' = state
      /\ sq_deferred' = def(m)
      /\ sqdone' = (sqdone /\ m.migrated = {})
      /\ sq' = t3
  BY <1>1, <1>2 DEF RoundsKeep
<1>c. DeferredType(sq_deferred')
  BY <1>0, <1>a, <1>b, DeferType
<1>d. /\ pc = "migrate" /\ pc' = "setscene" /\ changed' = FALSE
      /\ UNCHANGED <<runq_buildable, runq_running, runq_complete, runq_tasksrun, active,
                     sq_live, holdoffVars, updated_taskhash_queue, unihash, workerVars>>
  BY DEF MigratePending
<1> HIDE DEF m
<1>3. Grows(m.sq, t1) /\ (m.migrated = {} => t1 = m.sq)
  <2>1. Grows(m.sq, m.sq)
    BY <1>a DEF Grows
  <2>2. QED
    BY <1>a, <2>1, UpdateDataGrows
<1> HIDE DEF t1, s1, def
<1>4. Grows(t1, t2) /\ (m.hard = {} => t2 = t1)
  <2>1. t1 \in SqState
    BY <1>3 DEF Grows
  <2>2. t2 = HardFailed(t1, ord, m.hard)
    BY DEF t1
  <2>3. QED
    BY <1>0, <1>1, <2>1, <2>2, HardFailedGrows
<1> HIDE DEF t2, s2
<1>5. t2 \in SqState /\ m.sq.covered \subseteq t2.covered /\ m.sq.notcovered \subseteq t2.notcovered
      /\ (Marked(m.sq) => Processed(t2) \cup sq_live \subseteq t2.running)
  BY <1>3, <1>4 DEF Grows, Marked
<1>6. t3 \in SqState /\ t3.covered = t2.covered /\ t3.notcovered = t2.notcovered
      /\ t3.running = t2.running
  BY <1>0, <1>5 DEF SqState, TypeOK
<1>7. ~t3.need => t3 = t2 /\ m.migrated = {}
  BY <1>0, <1>5 DEF SqState, TypeOK
<1> HIDE DEF t3
<1>8. /\ m.sq.covered \subseteq sq.covered' /\ m.sq.notcovered \subseteq sq.notcovered'
      /\ sq' \in SqState
  BY <1>5, <1>6, <1>b
<1>10. TypeOK'
  BY <1>0, <1>a, <1>b, <1>c, <1>d, <1>8 DEF TypeOK, holdoffVars, workerVars, DeferredType
<1>11. Marked(sq)'
  BY <1>2, <1>5, <1>6, <1>b, <1>d DEF RoundsKeep, Marked, Processed
<1>f. Open' \subseteq Open \cup m.migrated
  BY <1>2, <1>8 DEF RoundsKeep, Processed, Open
<1>12. OpenIsQuiet'
  <2>1. OpenIsQuiet
    BY DEF QueueInv
  <2>3. \A t \in m.migrated : t \notin runq_running /\ sq_covered_tasks[t] \cap InFlight = {}
    BY <1>2 DEF RoundsKeep, CoversRunning
  <2>4. InFlight' = InFlight /\ runq_running' = runq_running
    BY <1>d DEF InFlight
  <2>5. QED
    BY <1>f, <2>1, <2>3, <2>4 DEF OpenIsQuiet
<1>g. ~sq.need' => sq' = sq
  <2> SUFFICES ASSUME ~sq.need' PROVE sq' = sq
    OBVIOUS
  <2>1. sq' = t2 /\ m.migrated = {}
    BY <1>b, <1>7
  <2>2. QED
    BY <1>2, <1>3, <1>4, <2>1 DEF RoundsKeep
<1>13. HoldoffHolds' /\ DecisionsKept'
  <2> SUFFICES ASSUME ~sq.need'
               PROVE  /\ (Holdoff \subseteq holdoff_tasks)'
                      /\ (tasks_covered = Covered)' /\ (tasks_notcovered = NotCovered)'
    BY DEF HoldoffHolds, DecisionsKept
  <2>1. sq' = sq
    BY <1>g
  <2>2. NotCovered' = NotCovered /\ Holdoff' = Holdoff
    BY <1>d, <2>1 DEF NotCovered, Holdoff
  <2>3. Covered' = Covered
    BY <2>1, <2>2 DEF Covered
  <2>4. QED
    BY <1>d, <2>1, <2>2, <2>3 DEF QueueInv, HoldoffHolds, DecisionsKept, holdoffVars
<1>14. StartedFirst' /\ HoldoffRecent'
  BY <1>0, <1>d DEF StartedFirst, HoldoffRecent
<1>15. SkippedCovered'
  BY <1>0, <1>2, <1>8, <1>b, <1>d DEF RoundsKeep, SkippedCovered, Skipped
<1>16. PendingRejected'
  <2> SUFFICES ASSUME NEW t \in m.pending PROVE t \in sq.notcovered'
    BY <1>b DEF PendingRejected
  <2>1. t \in pending_migrations /\ t \notin m.migrated /\ t \in Setscene
    BY <1>0, <1>2 DEF RoundsKeep
  <2>2. t \notin Open /\ t \notin runq_running \cup sq_live
    BY <1>e DEF QueueInv, OpenIsQuiet, CoversRunning
  <2>3. t \in sq.notcovered
    BY <2>1, <2>2 DEF QueueInv, PendingRejected, Open, Processed
  <2>4. QED
    BY <1>2, <1>8, <2>1, <2>3 DEF RoundsKeep
<1>17. sqdone' => sqdone /\ Open' \subseteq Open
  BY <1>b, <1>f
<1>18. QED
  BY <1>b, <1>g, <1>10, <1>11, <1>12, <1>13, <1>14, <1>15, <1>16, <1>17 DEF QueueInv

\* The parts of execute() that read, migrate and run the scene queue.
LEMMA SceneQueueQueue ==
  ASSUME QueueInv,
         \/ Execute \/ NothingToMigrate \/ ProcessTaskHashes \/ MigratePending \/ NoSetscene
         \/ \E t \in Setscene : SetsceneSkip(t) \/ SetsceneFailOutright(t) \/ SetsceneStart(t)
  PROVE  QueueInv'
<1>0. TypeOK /\ sq \in SqState /\ Grows(sq, sq) /\ Marked(sq) /\ StartedFirst /\ HoldoffRecent
  BY GrowsReflexive DEF QueueInv, TypeOK
<1>1. CASE Execute \/ NothingToMigrate \/ NoSetscene
  <2>1. UNCHANGED <<state, runqVars, sqVars, holdoffVars, hashVars, workerVars>>
    BY <1>1 DEF Execute, NothingToMigrate, NoSetscene
  <2>2. \/ pc = "begin" /\ pc' = "read"
        \/ pc = "read" /\ pc' = "setscene"
        \/ pc = "setscene" /\ pc' = "holdoff"
    BY <1>1 DEF Execute, NothingToMigrate, NoSetscene
  <2>3. TypeOK'
    BY <1>0, <2>1, <2>2 DEF TypeOK, runqVars, sqVars, holdoffVars, hashVars, workerVars
  <2>4. HoldoffRecent'
    BY <2>2 DEF HoldoffRecent
  <2>5. QED
    BY <1>0, <2>1, <2>2, <2>3, <2>4, GrowingStep
       DEF runqVars, sqVars, holdoffVars, hashVars, StartedFirst, InFlight, Skipped
<1>2. CASE ProcessTaskHashes
  <2>1. /\ pc = "read" /\ pc' = "migrate"
        /\ UNCHANGED <<state, runqVars, sqVars, holdoffVars, worker, reported, sstate>>
    BY <1>2 DEF ProcessTaskHashes
  <2>2. /\ unihash' \in [Tasks -> Hashes] /\ pending_migrations' \subseteq Setscene
        /\ changed' \in BOOLEAN /\ stamp' \in [Tasks -> 0..2] /\ sstamp' \in [Tasks -> 0..2]
        /\ updated_taskhash_queue' \subseteq updated_taskhash_queue
        /\ pending_migrations' \cap Remapped \subseteq pending_migrations
    <3> DEFINE ready == ReadyReports
               uni1  == Reported(ready)
               first == {t \in Tasks : uni1[t] # unihash[t]}
               total == UNION {Above[t] : t \in first}
               twins == {t \in first : ~\E x \in ready : x[1] = t}
               Moved(new) == {t \in total : new[t] # uni1[t]} \ Remapped
    <3>1. PICK new \in [total -> Hashes] :
           LET moved == Moved(new)
           IN  /\ unihash' = [t \in Tasks |-> IF t \in moved THEN new[t] ELSE uni1[t]]
               /\ pending_migrations' = pending_migrations \cup (moved \cap Setscene)
               /\ changed' = (moved # {})
               /\ stamp' = [t \in Tasks |-> IF t \in moved \cup twins THEN 0 ELSE stamp[t]]
               /\ sstamp' = [t \in Tasks |-> IF t \in moved \cup first THEN 0 ELSE sstamp[t]]
      BY <1>2 DEF ProcessTaskHashes
    <3>2. ready \subseteq updated_taskhash_queue
      BY DEF ReadyReports
    <3>3. \A t \in Tasks : uni1[t] \in Hashes
      <4> SUFFICES ASSUME NEW t \in Tasks PROVE uni1[t] \in Hashes
        OBVIOUS
      <4> DEFINE src == {t} \cup {sq_deferred[d] : d \in {t} \cap DOMAIN sq_deferred}
                 news == {x \in ready : x[1] \in src /\ x[2] # unihash[x[1]]}
      <4>1. uni1[t] = IF news = {} THEN unihash[t] ELSE (CHOOSE x \in news : TRUE)[2]
        BY DEF Reported
      <4>2. news \subseteq Setscene \X Hashes
        BY <1>0, <3>2 DEF TypeOK
      <4> HIDE DEF news
      <4>3. CASE news = {}
        BY <1>0, <4>1, <4>3 DEF TypeOK
      <4>4. CASE news # {}
        BY <4>1, <4>2, <4>4
      <4>5. QED
        BY <4>3, <4>4
    <3>4. Moved(new) \subseteq total /\ Moved(new) \cap Remapped = {}
      OBVIOUS
    <3> HIDE DEF uni1, total, twins, first, Moved
    <3>5. unihash' \in [Tasks -> Hashes]
      BY <3>1, <3>3, <3>4
    <3>6. pending_migrations' \subseteq Setscene /\ changed' \in BOOLEAN
          /\ pending_migrations' \cap Remapped \subseteq pending_migrations
      BY <1>0, <3>1, <3>4 DEF TypeOK
    <3>7. stamp' \in [Tasks -> 0..2] /\ sstamp' \in [Tasks -> 0..2]
      BY <1>0, <3>1 DEF TypeOK
    <3>8. updated_taskhash_queue' \subseteq updated_taskhash_queue
      BY <1>2 DEF ProcessTaskHashes
    <3>9. QED
      BY <3>5, <3>6, <3>7, <3>8
  <2>3. TypeOK'
    BY <1>0, <2>1, <2>2 DEF TypeOK, runqVars, sqVars, holdoffVars
  <2>4. HoldoffRecent'
    BY <2>1 DEF HoldoffRecent
  <2>5. QED
    <3>1. SkippedCovered'
      BY <2>1, <2>2 DEF QueueInv, SkippedCovered, Skipped, Remapped, runqVars, sqVars
    <3>2. PendingRejected'
      BY <2>1, <2>2 DEF QueueInv, PendingRejected, Remapped, runqVars, sqVars
    <3>3. QED
      BY <1>0, <2>1, <2>3, <2>4, <3>1, <3>2, GrowingCore
         DEF runqVars, sqVars, StartedFirst, InFlight
<1>3. CASE MigratePending
  BY <1>3, MigratePendingQueue
<1>4. ASSUME NEW t \in Setscene, SetsceneSkip(t) PROVE QueueInv'
  <2> DEFINE r == sq_task_skip(sq, {t})
             more == {x \in {t} : Skippable(x)}
  <2>1. sq' = [r EXCEPT !.notneeded = @ \cup more]
    BY <1>4 DEF SetsceneSkip
  <2>2. Grows(sq, r) /\ r.need
    BY <1>0, SkipGrows
  <2>3. more \subseteq Setscene
    OBVIOUS
  <2> HIDE DEF r, more
  <2>4. r \in SqState
    BY <2>2 DEF Grows
  <2>5. sq' \in SqState /\ sq.covered' = r.covered /\ sq.notcovered' = r.notcovered
        /\ sq.running' = r.running /\ sq.need' = r.need
        /\ sq.done' = r.done
    BY <2>1, <2>3, <2>4 DEF SqState
  <2>6. Grows(sq, sq')
    BY <2>2, <2>5 DEF Grows, Processed
  <2>7. /\ UNCHANGED <<state, runqVars, sq_live, sqdone, holdoffVars, hashVars, workerVars>>
        /\ pc = "setscene" /\ pc' = "begin" /\ sq_deferred' = Undefer(t)
    BY <1>4 DEF SetsceneSkip, NextSetscene
  <2>8. TypeOK'
    BY <1>0, <2>5, <2>7 DEF TypeOK, runqVars, holdoffVars, hashVars, workerVars, Undefer
  <2>9. HoldoffRecent'
    BY <2>7 DEF HoldoffRecent
  <2>10. QED
    BY <1>0, <2>6, <2>7, <2>8, <2>9, GrowingStep
       DEF runqVars, holdoffVars, hashVars, StartedFirst, InFlight, Skipped
<1>5. ASSUME NEW t \in Setscene, SetsceneFailOutright(t) PROVE QueueInv'
  <2>1. Grows(sq, sq')
    BY <1>0, <1>5, FailOutrightGrows DEF SetsceneFailOutright
  <2>2. /\ UNCHANGED <<state, runqVars, sq_live, sqdone, holdoffVars, hashVars, workerVars>>
        /\ pc = "setscene" /\ pc' = "begin" /\ sq_deferred' = Undefer(t)
    BY <1>5 DEF SetsceneFailOutright, NextSetscene
  <2>3. TypeOK'
    BY <1>0, <2>1, <2>2
       DEF TypeOK, runqVars, holdoffVars, hashVars, workerVars, Undefer, Grows
  <2>4. HoldoffRecent'
    BY <2>2 DEF HoldoffRecent
  <2>5. QED
    BY <1>0, <2>1, <2>2, <2>3, <2>4, GrowingStep
       DEF runqVars, holdoffVars, hashVars, StartedFirst, InFlight, Skipped
<1>6. ASSUME NEW t \in Setscene, SetsceneStart(t) PROVE QueueInv'
  <2>1. /\ sq' = [sq EXCEPT !.running = @ \cup {t}]
        /\ sq_live' = sq_live \cup {t} /\ sq_deferred' = Undefer(t)
        /\ worker' = [worker EXCEPT ![t] = "run"]
        /\ pc = "setscene" /\ pc' \in {"begin", "holdoff"}
        /\ UNCHANGED <<state, runqVars, sqdone, holdoffVars, hashVars,
                       reported, stamp, sstamp, sstate>>
    BY <1>6 DEF SetsceneStart, NextSetscene
  <2>2. sq' \in SqState /\ sq.covered' = sq.covered /\ sq.notcovered' = sq.notcovered
        /\ sq.running' = sq.running \cup {t} /\ sq.need' = sq.need
        /\ sq.done' = sq.done
    BY <1>0, <2>1 DEF SqState
  <2>3. Grows(sq, sq')
    BY <2>2 DEF Grows, Processed
  <2>4. worker' \in [Tasks -> {"none", "run", "ok", "fail"}]
    BY <1>0, <2>1 DEF TypeOK
  <2>5. TypeOK'
    BY <1>0, <2>1, <2>2, <2>4 DEF TypeOK, runqVars, holdoffVars, hashVars, Undefer
  <2>6. HoldoffRecent'
    BY <2>1 DEF HoldoffRecent
  <2>7. QED
    BY <1>0, <2>1, <2>2, <2>3, <2>5, <2>6, GrowingStep
       DEF runqVars, holdoffVars, hashVars, StartedFirst, InFlight, Skipped
<1>7. QED
  BY <1>1, <1>2, <1>3, <1>4, <1>5, <1>6

\* The parts that take over the scene queue's decisions and end the build.
LEMMA DecisionQueue ==
  ASSUME QueueInv,
         \/ UpdateHoldoff \/ HoldoffCurrent \/ SceneQueueOpen \/ SceneQueueComplete \/ NoTask
         \/ WaitForWorkers \/ ForceDeferred \/ EndOfBuild \/ Finish
         \/ StopBuild \/ FinishNow \/ Terminated
  PROVE  QueueInv'
<1>0. TypeOK /\ sq \in SqState /\ Grows(sq, sq) /\ Marked(sq) /\ StartedFirst /\ HoldoffRecent
  BY GrowsReflexive DEF QueueInv, TypeOK
<1>1. CASE UpdateHoldoff
  <2>1. /\ pc = "holdoff" /\ pc' = "sqdone"
        /\ sq' = [sq EXCEPT !.need = FALSE]
        /\ tasks_notcovered' = NotCovered /\ tasks_covered' = Covered
        /\ runq_buildable' = runq_buildable \cup NowBuildable
        /\ holdoff_tasks' = Holdoff
        /\ UNCHANGED <<state, runq_running, runq_complete, runq_tasksrun, failed_tids, active,
                       sq_live, sq_deferred, sqdone, hashVars, workerVars>>
    BY <1>1 DEF UpdateHoldoff
  <2>2. sq' \in SqState /\ sq.covered' = sq.covered /\ sq.notcovered' = sq.notcovered
        /\ sq.running' = sq.running /\ sq.done' = sq.done
    BY <1>0, <2>1 DEF SqState
  <2>3. sq.done \subseteq Tasks
    BY <1>0 DEF SqState
  <2>4. NotCovered \subseteq Tasks /\ Covered \subseteq Tasks
    BY <2>3 DEF NotCovered, Covered
  <2>5. Holdoff \subseteq Tasks
    BY SceneQueueData, SetsceneAssumption DEF Holdoff
  <2>6. runq_buildable' \subseteq Tasks
    BY <1>0, <2>1, <2>4 DEF NowBuildable, TypeOK
  <2>7. TypeOK'
    BY <1>0, <2>1, <2>2, <2>4, <2>5, <2>6 DEF TypeOK, hashVars, workerVars
  <2>8. Processed(sq)' = Processed(sq)
    BY <2>2 DEF Processed
  <2>9. Marked(sq)'
    BY <1>0, <2>1, <2>2, <2>8 DEF Marked
  <2>10. Holdoff' = Holdoff /\ Open' = Open
    BY <2>1, <2>8 DEF Holdoff, Open
  <2>11. OpenIsQuiet'
    BY <2>1, <2>10 DEF QueueInv, OpenIsQuiet, InFlight
  <2>12. HoldoffHolds'
    BY <2>1, <2>10 DEF HoldoffHolds
  <2>13. HoldoffRecent' /\ StartedFirst'
    BY <1>0, <2>1, <2>2 DEF HoldoffRecent, StartedFirst
  <2>14. DecisionsKept'
    <3>1. NotCovered' = NotCovered
      BY <2>2 DEF NotCovered
    <3>2. Covered' = Covered
      BY <2>2, <3>1 DEF Covered
    <3>3. QED
      BY <2>1, <3>1, <3>2 DEF DecisionsKept
  <2>15. SkippedCovered' /\ PendingRejected'
    BY <2>1, <2>2 DEF QueueInv, SkippedCovered, Skipped, PendingRejected, hashVars
  <2>16. QED
    BY <2>7, <2>9, <2>11, <2>12, <2>13, <2>14, <2>15 DEF QueueInv
<1>2. CASE \/ HoldoffCurrent \/ SceneQueueOpen \/ SceneQueueComplete \/ NoTask \/ WaitForWorkers
           \/ EndOfBuild \/ Finish \/ StopBuild \/ FinishNow \/ Terminated
  <2>1. /\ UNCHANGED <<runqVars, sq, sq_live, sq_deferred, holdoffVars, hashVars, workerVars>>
        /\ sqdone' \in {sqdone, TRUE}
        /\ pc' \in {pc, "begin", "sqdone", "real", "wait"}
        /\ state' \in {state, "cleanup", "failed", "complete"}
    BY <1>2 DEF HoldoffCurrent, SceneQueueOpen, SceneQueueComplete, NoTask, WaitForWorkers,
                EndOfBuild, Finish, StopBuild, FinishNow, Terminated, Outcome, sqVars, vars
  <2>2. TypeOK'
    BY <1>0, <2>1 DEF TypeOK, runqVars, holdoffVars, hashVars, workerVars
  <2>4. HoldoffRecent'
    <3>1. pc' \in {"sqdone", "real", "wait"} => ~sq.need
      BY <1>0, <1>2
         DEF HoldoffCurrent, SceneQueueOpen, SceneQueueComplete, NoTask, WaitForWorkers,
             EndOfBuild, Finish, StopBuild, FinishNow, Terminated, vars, HoldoffRecent
    <3>2. QED
      BY <2>1, <3>1 DEF HoldoffRecent
  <2>5. pc # "migrate"
    BY <1>2 DEF HoldoffCurrent, SceneQueueOpen, SceneQueueComplete, NoTask, WaitForWorkers,
                EndOfBuild, Finish, StopBuild, FinishNow, Terminated
  <2>6. QED
    BY <1>0, <2>1, <2>2, <2>4, <2>5, GrowingStep
       DEF runqVars, holdoffVars, hashVars, StartedFirst, InFlight, Skipped
<1>3. CASE ForceDeferred
  <2>1. PICK key \in DOMAIN sq_deferred :
          /\ sq_deferred' = Undefer(key)
          /\ sq' = IF sq_deferred[key] \in runq_complete THEN sq
                   ELSE sq_task_failoutright(sq, sq_deferred[key])
    BY <1>3 DEF ForceDeferred
  <2>2. sq_deferred[key] \in Setscene
    BY <1>0 DEF TypeOK
  <2>3. Grows(sq, sq')
    BY <1>0, <2>1, <2>2, FailOutrightGrows
  <2>4. /\ pc = "wait" /\ pc' = "begin"
        /\ UNCHANGED <<state, runqVars, sq_live, sqdone, holdoffVars, hashVars, workerVars>>
    BY <1>3 DEF ForceDeferred
  <2>5. TypeOK'
    BY <1>0, <2>1, <2>3, <2>4
       DEF TypeOK, runqVars, holdoffVars, hashVars, workerVars, Undefer, Grows
  <2>6. HoldoffRecent'
    BY <2>4 DEF HoldoffRecent
  <2>7. QED
    BY <1>0, <2>3, <2>4, <2>5, <2>6, GrowingStep
       DEF runqVars, holdoffVars, hashVars, StartedFirst, InFlight, Skipped
<1>4. QED
  BY <1>1, <1>2, <1>3

\* What was started has all that is below it complete.
LEMMA StartedBelow ==
  ASSUME DependencyOrder, StartedFirst, runq_running \subseteq Tasks
  PROVE  \A t \in runq_running : Below[t] \subseteq runq_complete
<1> DEFINE S == {t \in runq_running : ~(Below[t] \subseteq runq_complete)}
<1>1. SUFFICES ASSUME S # {} PROVE FALSE
  OBVIOUS
<1>2. PICK t \in S : depends[t] \cap S = {}
  BY <1>1, AcyclicAssumption
<1>3. depends[t] \subseteq runq_complete
  BY DEF DependencyOrder
<1>4. \A d \in depends[t] : Below[d] \subseteq runq_complete
  BY <1>2, <1>3 DEF StartedFirst
<1>5. Below[t] = BelowOf(Below, t)
  BY BelowEquation
<1>6. Below[t] \subseteq runq_complete
  BY <1>3, <1>4, <1>5 DEF BelowOf
<1>7. QED
  BY <1>6

\* A task the scheduler returns is none that a setscene task still holds back.
LEMMA NextTaskFree ==
  ASSUME QueueInv, NEW t \in Tasks, NextTask(t)
  PROVE  /\ pc = "real" /\ ~sq.need /\ t \notin runq_running \cup runq_complete \cup Open
         /\ \A d \in Open : t \notin sq_covered_tasks[d]
<1>1. /\ t \notin runq_running /\ t \notin holdoff_tasks /\ pc = "real"
      /\ ~sq.need /\ Holdoff \subseteq holdoff_tasks /\ t \notin runq_complete
  BY DEF NextTask, Schedulable, QueueInv, HoldoffHolds, HoldoffRecent, StartedFirst
<1>2. Open \subseteq Holdoff
  BY DEF Open, Holdoff
<1>3. ASSUME NEW d \in Open PROVE sq_covered_tasks[d] \ runq_complete \subseteq Holdoff
  <2> DEFINE C == {sq_covered_tasks[x] : x \in Open}
  <2>1. Holdoff = Open \cup ((UNION C) \ runq_complete)
    BY DEF Holdoff, Open
  <2>2. sq_covered_tasks[d] \in C
    OBVIOUS
  <2> HIDE DEF C
  <2>3. sq_covered_tasks[d] \subseteq UNION C
    BY <2>2
  <2>4. QED
    BY <2>1, <2>3
<1>4. QED
  BY <1>1, <1>2, <1>3

\* The setscene tasks that cover a covered task are covered, and are not to be
\* taken back.
LEMMA CoveredStays ==
  ASSUME Inv, QueueInv, NEW t \in tasks_covered, t \in Tasks, NextTask(t), NEW d \in Setscene,
         t \in sq_covered_tasks[d]
  PROVE  d \in sq.covered \ pending_migrations
<1>1. /\ pc = "real" /\ ~sq.need /\ t \notin runq_complete /\ d \notin Open
  BY NextTaskFree
<1>2. t \in sq.done /\ t \notin NotCovered
  BY <1>1 DEF QueueInv, DecisionsKept, Covered
<1>3. d \notin sq.notcovered
  BY <1>2 DEF NotCovered
<1>4. d \notin runq_running
  <2>1. t \in Below[d]
    BY DEF sq_covered_tasks
  <2>2. QED
    BY <1>1, <2>1, StartedBelow DEF QueueInv, TypeOK, Inv
<1>5. QED
  BY <1>1, <1>3, <1>4 DEF QueueInv, PendingRejected, Open, Processed

\* The part that takes a real task from the scheduler.
LEMMA RealTaskQueue ==
  ASSUME Inv, QueueInv, NEW t \in Tasks,
         RefuseTask(t) \/ SkipTask(t) \/ NoexecTask(t) \/ StartTask(t) \/ FakerootSpawnFails(t)
  PROVE  QueueInv'
<1>0. TypeOK /\ sq \in SqState /\ Grows(sq, sq) /\ Marked(sq) /\ StartedFirst /\ HoldoffRecent
  BY GrowsReflexive DEF QueueInv, TypeOK
<1>1. CASE RefuseTask(t) \/ FakerootSpawnFails(t)
  <2>1. /\ UNCHANGED <<runq_buildable, runq_running, runq_complete, runq_tasksrun,
                       sqVars, holdoffVars, hashVars, workerVars>>
        /\ pc' = "begin" /\ active' = Decreased
        /\ failed_tids' \subseteq failed_tids \cup {t}
        /\ state' \in {state, "cleanup", "failed"}
    BY <1>1 DEF RefuseTask, FakerootSpawnFails, task_fail
  <2>2. active' \in Int /\ -MaxDebt <= active'
    BY <1>0, <2>1, MaxDebtAssumption DEF Decreased, TypeOK
  <2>3. TypeOK'
    BY <1>0, <2>1, <2>2 DEF TypeOK, sqVars, holdoffVars, hashVars, workerVars
  <2>4. HoldoffRecent' /\ pc # "migrate"
    BY <1>1, <2>1 DEF HoldoffRecent, RefuseTask, FakerootSpawnFails, NextTask
  <2>5. QED
    BY <1>0, <2>1, <2>3, <2>4, GrowingStep
       DEF sqVars, holdoffVars, hashVars, StartedFirst, InFlight, Skipped
<1>2. CASE SkipTask(t) \/ NoexecTask(t)
  <2>1. task_completeoutright(t)
    BY <1>2 DEF SkipTask, NoexecTask
  <2>2. /\ Grows(sq, sq') /\ runq_complete' = runq_complete \cup {t}
        /\ runq_buildable' \subseteq Tasks /\ DeferredType(sq_deferred')
    BY <1>0, <2>1, CompletionQueue
  <2>3. /\ UNCHANGED <<state, failed_tids, active, sq_live, sqdone, holdoffVars, hashVars,
                       worker, reported>>
        /\ runq_running' = runq_running \cup {t}
        /\ pc' = "begin"
    BY <1>2 DEF SkipTask, NoexecTask, workerVars
  <2>4. runq_tasksrun' \subseteq Tasks
    BY <1>0, <1>2 DEF SkipTask, NoexecTask, SkippedRan, TypeOK
  <2>5. stamp' \in [Tasks -> 0..2] /\ sstamp' \in [Tasks -> 0..2]
    BY <1>0, <1>2 DEF SkipTask, NoexecTask, workerVars, TypeOK
  <2>6. TypeOK'
    BY <1>0, <2>2, <2>3, <2>4, <2>5 DEF TypeOK, holdoffVars, hashVars, Grows, DeferredType
  <2>7. StartedFirst' /\ InFlight' \subseteq InFlight
    BY <1>0, <2>2, <2>3 DEF StartedFirst, InFlight
  <2>8. HoldoffRecent'
    BY <2>3 DEF HoldoffRecent
  <2>9. pc = "real" /\ t \notin Open /\ NextTask(t)
    BY <1>2, NextTaskFree DEF SkipTask, NoexecTask
  <2>10. PendingRejected'
    BY <2>2, <2>3, <2>9 DEF QueueInv, PendingRejected, Grows, hashVars
  <2>11. SkippedCovered'
    <3>1. \/ Skipped' \subseteq Skipped
          \/ t \in tasks_covered /\ Skipped' \subseteq Skipped \cup {t}
      BY <1>2, <2>2 DEF SkipTask, NoexecTask, SkippedRan, Skipped
    <3>2. \A c \in Skipped' : \A d \in Setscene :
            c \in sq_covered_tasks[d] => d \in sq.covered \ pending_migrations
      BY <2>9, <3>1, CoveredStays DEF QueueInv, SkippedCovered
    <3>3. QED
      BY <2>2, <2>3, <3>2 DEF SkippedCovered, Grows, hashVars
  <2>12. QED
    BY <2>2, <2>3, <2>6, <2>7, <2>8, <2>9, <2>10, <2>11, GrowingCore
<1>3. CASE StartTask(t)
  <2>1. /\ runq_running' = runq_running \cup {t}
        /\ active' = active + 1
        /\ worker' = [worker EXCEPT ![t] = "run"]
        /\ pc = "real" /\ pc' \in {"begin", "wait"}
        /\ UNCHANGED <<state, runq_buildable, runq_complete, runq_tasksrun, failed_tids,
                       sqVars, holdoffVars, hashVars, reported, stamp, sstamp, sstate>>
    BY <1>3 DEF StartTask, NextTask
  <2>2. TypeOK'
    <3>1. active' \in Int /\ -MaxDebt <= active'
      BY <1>0, <2>1, MaxDebtAssumption DEF TypeOK
    <3>2. worker' \in [Tasks -> {"none", "run", "ok", "fail"}]
      BY <1>0, <2>1 DEF TypeOK
    <3>3. QED
      BY <1>0, <2>1, <3>1, <3>2 DEF TypeOK, sqVars, holdoffVars, hashVars
  <2>3. /\ t \notin Open /\ \A d \in Open : t \notin sq_covered_tasks[d]
    BY <1>3, NextTaskFree DEF StartTask
  <2>4. Open' = Open /\ Holdoff' = Holdoff /\ Marked(sq)'
    BY <1>0, <2>1 DEF Open, Holdoff, Marked, Processed, sqVars
  <2>5. OpenIsQuiet'
    <3> SUFFICES ASSUME NEW d \in Open
                 PROVE  d \notin runq_running' /\ sq_covered_tasks[d] \cap InFlight' = {}
      BY <2>1, <2>4 DEF OpenIsQuiet
    <3>1. d \notin runq_running /\ sq_covered_tasks[d] \cap InFlight = {}
      BY DEF QueueInv, OpenIsQuiet
    <3>2. InFlight' \subseteq InFlight \cup {t}
      BY <2>1 DEF InFlight
    <3>3. QED
      BY <2>1, <2>3, <3>1, <3>2
  <2>6. HoldoffHolds' /\ DecisionsKept'
    <3>1. NotCovered' = NotCovered
      BY <2>1 DEF NotCovered, sqVars
    <3>2. Covered' = Covered
      BY <2>1, <3>1 DEF Covered, sqVars
    <3>3. QED
      BY <2>1, <2>4, <3>1, <3>2 DEF QueueInv, HoldoffHolds, DecisionsKept, sqVars, holdoffVars
  <2>7. HoldoffRecent' /\ StartedFirst'
    BY <1>0, <2>1 DEF HoldoffRecent, StartedFirst, sqVars
  <2>8. SkippedCovered' /\ PendingRejected'
    BY <2>1 DEF QueueInv, SkippedCovered, Skipped, PendingRejected, sqVars, hashVars
  <2>9. QED
    BY <2>2, <2>4, <2>5, <2>6, <2>7, <2>8 DEF QueueInv
<1>4. QED
  BY <1>1, <1>2, <1>3

\* Every step of the specification preserves QueueInv.
LEMMA NextQueue == Inv /\ QueueInv /\ [Next]_vars => QueueInv'
<1> SUFFICES ASSUME Inv, QueueInv, [Next]_vars PROVE QueueInv'
  OBVIOUS
<1>1. CASE Next
  BY <1>1, WorkerQueue, SceneQueueQueue, DecisionQueue, RealTaskQueue DEF Next, Schedule
<1>2. CASE UNCHANGED vars
  <2>1. TypeOK'
    BY <1>2 DEF QueueInv, TypeOK, vars, runqVars, sqVars, holdoffVars, hashVars, workerVars
  <2>2. sq \in SqState
    BY DEF QueueInv, TypeOK
  <2>3. SkippedCovered' /\ PendingRejected' /\ HoldoffRecent'
    BY <1>2 DEF vars, runqVars, sqVars, hashVars, QueueInv, SkippedCovered, Skipped,
                PendingRejected, HoldoffRecent
  <2>4. QED
    BY <1>2, <2>1, <2>2, <2>3, GrowsReflexive, GrowingCore
       DEF vars, runqVars, sqVars, holdoffVars, QueueInv, StartedFirst, InFlight
<1>3. QED
  BY <1>1, <1>2

-----------------------------------------------------------------------------
(* ... the theorems, ... *)

\* QueueInv is an invariant of the run queue.
THEOREM QueueInvariance == Spec => []QueueInv
<1>1. Init => QueueInv
  BY InitQueue
<1>2. Inv /\ QueueInv /\ [Next]_vars => QueueInv'
  BY NextQueue
<1>3. QED
  BY <1>1, <1>2, Invariance, PTL DEF Spec

\* The bookkeeping keeps its types: in particular every deferred task waits for a
\* setscene task, and what is done, covered or held back is a set of tasks.
THEOREM TypesHold == Spec => []TypeOK
<1>1. QueueInv => TypeOK
  BY DEF QueueInv
<1>2. QED
  BY <1>1, QueueInvariance, PTL

\* A step that starts a setscene task starts one the scene queue had not decided.
LEMMA SetsceneStartQuiet ==
  ASSUME Inv, QueueInv, Next, NEW t \in Setscene, t \in sq_live' \ sq_live
  PROVE  t \notin runq_running /\ sq_covered_tasks[t] \cap InFlight = {}
<1>1. \E d \in Setscene : SetsceneStart(d)
  BY DEF Next, Schedule, ReadWorker, WorkerExit, WorkerUniHash, TaskComplete, TaskFail,
         SetsceneComplete, SetsceneFail, Execute, NothingToMigrate, ProcessTaskHashes,
         MigratePending, NoSetscene, SetsceneSkip, SetsceneFailOutright, UpdateHoldoff,
         HoldoffCurrent, SceneQueueOpen, SceneQueueComplete, NoTask, RefuseTask, SkipTask,
         NoexecTask, StartTask, FakerootSpawnFails, WaitForWorkers, ForceDeferred, EndOfBuild,
         Finish, StopBuild, FinishNow, Terminated, vars, sqVars
<1>2. PICK d \in Setscene : SetsceneStart(d)
  BY <1>1
<1>3. t = d /\ pc = "setscene" /\ NextSetscene(t)
  BY <1>2 DEF SetsceneStart, NextSetscene
<1>4. t \in Open
  BY <1>3, NextSetsceneOpen
<1>5. QED
  BY <1>3, <1>4 DEF QueueInv, OpenIsQuiet

\* No setscene task starts over a running task that it covers, although hashes
\* change, tasks are taken back and deferred tasks are forced at any time.
THEOREM SetsceneWaits == Spec => CoveredTasksWait
<1> DEFINE A == \A t \in Setscene : t \in sq_live' \ sq_live =>
                  sq_covered_tasks[t] \cap InFlight = {}
<1>1. Inv /\ QueueInv /\ [Next]_vars => [A]_vars
  <2> SUFFICES ASSUME Inv, QueueInv, [Next]_vars, ~UNCHANGED vars PROVE A
    OBVIOUS
  <2>1. Next
    OBVIOUS
  <2>2. QED
    BY <2>1, SetsceneStartQuiet
<1>2. QED
  BY <1>1, Invariance, QueueInvariance, PTL DEF Spec, CoveredTasksWait

\* Nor does it start once its own task was started: what is built is not unpacked
\* over (the other half, that a task is not started while its setscene runs, does
\* not hold in general).
THEOREM NotUnpackedOver ==
  Spec => [][\A t \in Setscene : t \in sq_live' \ sq_live => t \notin runq_running]_vars
<1> DEFINE A == \A t \in Setscene : t \in sq_live' \ sq_live => t \notin runq_running
<1>1. Inv /\ QueueInv /\ [Next]_vars => [A]_vars
  <2> SUFFICES ASSUME Inv, QueueInv, [Next]_vars, ~UNCHANGED vars PROVE A
    OBVIOUS
  <2>1. Next
    OBVIOUS
  <2>2. QED
    BY <2>1, SetsceneStartQuiet
<1>2. QED
  BY <1>1, Invariance, QueueInvariance, PTL DEF Spec

\* What has failed was started, or was refused.
LEMMA NextHalt ==
  ASSUME Inv, QueueInv, NoHalt, Next
  PROVE  NoHalt'
<1>1. runq_running \subseteq runq_running'
  BY DEF Next, Schedule, ReadWorker, WorkerExit, WorkerUniHash, TaskComplete, TaskFail,
         SetsceneComplete, SetsceneFail, Execute, NothingToMigrate, ProcessTaskHashes,
         MigratePending, NoSetscene, SetsceneSkip, SetsceneFailOutright, SetsceneStart,
         UpdateHoldoff, HoldoffCurrent, SceneQueueOpen, SceneQueueComplete, NoTask, RefuseTask,
         SkipTask, NoexecTask, StartTask, FakerootSpawnFails, WaitForWorkers, ForceDeferred,
         EndOfBuild, Finish, StopBuild, FinishNow, Terminated, vars, runqVars
<1>2. CASE MigratePending
  BY <1>1, <1>2, MigratePendingQueue DEF NoHalt
<1>3. ASSUME NEW t \in Tasks, TaskFail(t) PROVE NoHalt'
  <2>1. t \in runq_running
    BY <1>3 DEF TaskFail, Inv, WorkersStarted
  <2>2. QED
    BY <1>1, <1>3, <2>1 DEF NoHalt, TaskFail, task_fail
<1>4. ASSUME NEW t \in Tasks, RefuseTask(t) PROVE NoHalt'
  BY <1>1, <1>4 DEF NoHalt, RefuseTask, Refused, task_fail
<1>5. CASE UNCHANGED failed_tids
  BY <1>1, <1>5 DEF NoHalt
<1>6. QED
  BY <1>2, <1>3, <1>4, <1>5
     DEF Next, Schedule, ReadWorker, WorkerExit, WorkerUniHash, TaskComplete,
         SetsceneComplete, SetsceneFail, Execute, NothingToMigrate, ProcessTaskHashes,
         NoSetscene, SetsceneSkip, SetsceneFailOutright, SetsceneStart,
         UpdateHoldoff, HoldoffCurrent, SceneQueueOpen, SceneQueueComplete, NoTask,
         SkipTask, NoexecTask, StartTask, FakerootSpawnFails, WaitForWorkers, ForceDeferred,
         EndOfBuild, Finish, StopBuild, FinishNow, Terminated, vars, runqVars

\* "marked as completed but now needing to rerun? Halting build." is never
\* reached, in any configuration: no migration has to undo a task that was skipped
\* as covered, so only what was started, or was refused, is ever recorded as failed.
THEOREM NeverHalted == Spec => []NoHalt
<1>1. Init => NoHalt
  BY DEF Init, NoHalt
<1>2. Inv /\ QueueInv /\ NoHalt /\ [Next]_vars => NoHalt'
  BY NextHalt DEF NoHalt, vars, runqVars
<1>3. QED
  BY <1>1, <1>2, Invariance, QueueInvariance, PTL DEF Spec

-----------------------------------------------------------------------------
(* ... and the processes. *)

\* Tasks can still be started, now or later in the current call of execute().
Counting == state = "running" \/ pc # "begin"

\* Every process of a real task is counted, as long as the counter matters.
WorkersCounted ==
  /\ ThreadLimit
  /\ Counting => Cardinality(RealLive) <= active

\* The processes are finitely many.
LEMMA LiveFinite ==
  ASSUME TypeOK
  PROVE  /\ IsFiniteSet(Live) /\ Cardinality(Live) \in Nat
         /\ IsFiniteSet(RealLive) /\ Cardinality(RealLive) \in Nat
         /\ IsFiniteSet(sq_live) /\ Cardinality(sq_live) \in Nat
         /\ Cardinality(Live) <= Cardinality(RealLive) + Cardinality(sq_live)
<1>1. Live \in SUBSET Tasks /\ RealLive \in SUBSET Tasks /\ sq_live \in SUBSET Tasks
  BY SetsceneAssumption DEF Live, RealLive, TypeOK
<1>2. IsFiniteSet(Live) /\ IsFiniteSet(RealLive) /\ IsFiniteSet(sq_live)
  BY <1>1, TasksAssumption, FS_Subset
<1>3. Cardinality(Live) \in Nat /\ Cardinality(RealLive) \in Nat /\ Cardinality(sq_live) \in Nat
  BY <1>2, FS_CardinalityType
<1>4. Live \in SUBSET (RealLive \cup sq_live)
  BY DEF RealLive
<1>5. /\ IsFiniteSet(RealLive \cup sq_live)
      /\ Cardinality(RealLive \cup sq_live) =
           Cardinality(RealLive) + Cardinality(sq_live) - Cardinality(RealLive \cap sq_live)
  BY <1>2, FS_Union
<1>6. Cardinality(RealLive \cap sq_live) \in Nat
  <2>1. RealLive \cap sq_live = {}
    BY DEF RealLive
  <2>2. QED
    BY <2>1, FS_EmptySet
<1>7. Cardinality(Live) <= Cardinality(RealLive \cup sq_live)
  BY <1>4, <1>5, FS_Subset
<1>8. QED
  BY <1>2, <1>3, <1>5, <1>6, <1>7

\* Steps that start and end no process.
LEMMA SameProcesses ==
  ASSUME WorkersCounted, Live' = Live, RealLive' = RealLive, active' = active,
         Counting' => Counting
  PROVE  WorkersCounted'
  BY DEF WorkersCounted, ThreadLimit

\* A process more, while fewer than number_tasks run.
LEMMA StartCounted ==
  ASSUME TypeOK, TypeOK', WorkersCounted, can_start_task, Counting,
         NEW t, Live' \subseteq Live \cup {t}
  PROVE  ThreadLimit'
<1>1. Cardinality(Live) <= Cardinality(RealLive) + Cardinality(sq_live)
      /\ Cardinality(RealLive) \in Nat /\ Cardinality(sq_live) \in Nat
      /\ Cardinality(Live) \in Nat /\ IsFiniteSet(Live)
  BY LiveFinite
<1>2. Cardinality(RealLive) <= active /\ active + Cardinality(sq_live) < number_tasks
  BY DEF WorkersCounted, can_start_task
<1>3. IsFiniteSet(Live \cup {t}) /\ Cardinality(Live \cup {t}) <= Cardinality(Live) + 1
  BY <1>1, FS_AddElement
<1>4. Cardinality(Live') <= Cardinality(Live \cup {t}) /\ Cardinality(Live') \in Nat
  <2>1. Live' \in SUBSET (Live \cup {t})
    OBVIOUS
  <2>2. IsFiniteSet(Live')
    BY <1>3, <2>1, FS_Subset
  <2>3. QED
    BY <1>3, <2>1, <2>2, FS_Subset, FS_CardinalityType
<1>5. Cardinality(Live') <= number_tasks
  <2>1. active \in Int /\ number_tasks \in Nat /\ Cardinality(Live \cup {t}) \in Nat
    BY <1>3, NumberTasksAssumption, FS_CardinalityType DEF TypeOK
  <2>2. QED
    BY <1>1, <1>2, <1>3, <1>4, <2>1
<1>6. QED
  BY <1>5 DEF ThreadLimit

\* The process of a real task ends.
LEMMA EndCounted ==
  ASSUME TypeOK, WorkersCounted, NEW t \in RealLive, RealLive' = RealLive \ {t},
         Live' = Live \ {t}, active' = Decreased, Counting' => Counting
  PROVE  WorkersCounted'
<1>1. /\ IsFiniteSet(Live) /\ Cardinality(Live) \in Nat
      /\ IsFiniteSet(RealLive) /\ Cardinality(RealLive) \in Nat
  BY LiveFinite
<1>2. /\ Cardinality(RealLive') = Cardinality(RealLive) - 1
      /\ Cardinality(Live') <= Cardinality(Live) /\ Cardinality(Live') \in Nat
  <2>1. t \in Live
    BY DEF RealLive
  <2>2. Cardinality(RealLive \ {t}) = Cardinality(RealLive) - 1
    BY <1>1, FS_RemoveElement
  <2>3. Cardinality(Live \ {t}) = Cardinality(Live) - 1 /\ IsFiniteSet(Live \ {t})
    BY <1>1, <2>1, FS_RemoveElement
  <2>4. Cardinality(Live \ {t}) \in Nat
    BY <2>3, FS_CardinalityType
  <2>5. QED
    BY <1>1, <2>2, <2>3, <2>4
<1>3. active \in Int /\ number_tasks \in Nat /\ active' >= active - 1
  BY NumberTasksAssumption, MaxDebtAssumption DEF TypeOK, Decreased
<1>4. active' \in Int
  BY <1>3 DEF Decreased
<1>5. ThreadLimit'
  BY <1>1, <1>2, <1>3 DEF WorkersCounted, ThreadLimit
<1>6. Counting' => Cardinality(RealLive') <= active'
  BY <1>1, <1>2, <1>3, <1>4 DEF WorkersCounted
<1>7. QED
  BY <1>5, <1>6 DEF WorkersCounted

\* Every step keeps the count.
LEMMA NextCounted ==
  ASSUME Halt \/ Enforced = {}
  PROVE  TypeOK /\ TypeOK' /\ WorkersCounted /\ [Next]_vars => WorkersCounted'
<1> SUFFICES ASSUME TypeOK, TypeOK', WorkersCounted, [Next]_vars PROVE WorkersCounted'
  OBVIOUS
<1>w. worker \in [Tasks -> {"none", "run", "ok", "fail"}] /\ sq_live \subseteq Setscene
      /\ Setscene \subseteq Tasks
  BY SetsceneAssumption DEF TypeOK
<1>1. ASSUME NEW t \in Tasks, WorkerExit(t) PROVE WorkersCounted'
  <2>1. worker[t] = "run" /\ (\E r \in {"ok", "fail"} : worker' = [worker EXCEPT ![t] = r])
        /\ UNCHANGED <<state, pc, runqVars, sqVars>>
    BY <1>1 DEF WorkerExit, ExitOk, ExitFail
  <2>2. Live' = Live /\ RealLive' = RealLive
    BY <1>w, <2>1 DEF Live, RealLive, sqVars
  <2>3. QED
    BY <2>1, <2>2, SameProcesses DEF Counting, runqVars
<1>2. ASSUME NEW t \in Tasks, TaskComplete(t) \/ TaskFail(t) PROVE WorkersCounted'
  <2>1. /\ t \notin sq_live /\ worker[t] # "none" /\ worker' = [worker EXCEPT ![t] = "none"]
        /\ active' = Decreased /\ sq_live' = sq_live /\ pc' = pc /\ state' \in {state, "cleanup"}
    BY <1>2 DEF TaskComplete, TaskFail, task_fail, sqVars
  <2>2. t \in RealLive /\ Live' = Live \ {t} /\ RealLive' = RealLive \ {t}
    BY <1>w, <2>1 DEF Live, RealLive
  <2>3. Counting' => Counting
    BY <2>1 DEF Counting
  <2>4. QED
    BY <2>1, <2>2, <2>3, EndCounted
<1>3. ASSUME NEW t \in Tasks, SetsceneComplete(t) \/ SetsceneFail(t) PROVE WorkersCounted'
  <2>1. /\ t \in sq_live /\ worker' = [worker EXCEPT ![t] = "none"]
        /\ active' = active /\ sq_live' = sq_live \ {t} /\ pc' = pc
        /\ state' \in {state, "cleanup"}
    BY <1>3 DEF SetsceneComplete, SetsceneFail, runqVars
  <2>2. Live' \subseteq Live /\ RealLive' = RealLive
    BY <1>w, <2>1 DEF Live, RealLive
  <2>3. Counting' => Counting
    BY <2>1 DEF Counting
  <2>4. Cardinality(Live') <= Cardinality(Live) /\ Cardinality(Live') \in Nat
    <3>1. IsFiniteSet(Live) /\ Live' \in SUBSET Live
      BY <2>2, LiveFinite
    <3>2. QED
      BY <3>1, FS_Subset, FS_CardinalityType
  <2>5. ThreadLimit'
    BY <2>4, LiveFinite, NumberTasksAssumption DEF WorkersCounted, ThreadLimit
  <2>6. QED
    BY <2>1, <2>2, <2>3, <2>5 DEF WorkersCounted
<1>4. ASSUME NEW t \in Setscene, SetsceneStart(t) PROVE WorkersCounted'
  <2>1. /\ pc = "setscene" /\ can_start_task
        /\ worker' = [worker EXCEPT ![t] = "run"] /\ sq_live' = sq_live \cup {t}
        /\ active' = active
    BY <1>4 DEF SetsceneStart, NextSetscene, SetsceneChoice, runqVars
  <2>2. Live' \subseteq Live \cup {t} /\ RealLive' \subseteq RealLive
    BY <1>w, <2>1 DEF Live, RealLive
  <2>3. ThreadLimit'
    BY <2>1, <2>2, StartCounted DEF Counting
  <2>4. Cardinality(RealLive') <= Cardinality(RealLive) /\ Cardinality(RealLive') \in Nat
    <3>1. IsFiniteSet(RealLive) /\ RealLive' \in SUBSET RealLive
      BY <2>2, LiveFinite
    <3>2. QED
      BY <3>1, FS_Subset, FS_CardinalityType
  <2>5. Cardinality(RealLive') <= active'
    BY <2>1, <2>4, LiveFinite DEF WorkersCounted, Counting, TypeOK
  <2>6. QED
    BY <2>3, <2>5 DEF WorkersCounted
<1>5. ASSUME NEW t \in Tasks, StartTask(t) PROVE WorkersCounted'
  <2>1. /\ pc = "real" /\ can_start_task
        /\ worker' = [worker EXCEPT ![t] = "run"] /\ sq_live' = sq_live
        /\ active' = active + 1
    BY <1>5 DEF StartTask, NextTask, Schedulable, sqVars
  <2>2. Live' \subseteq Live \cup {t} /\ RealLive' \subseteq RealLive \cup {t}
    BY <1>w, <2>1 DEF Live, RealLive
  <2>3. ThreadLimit'
    BY <2>1, <2>2, StartCounted DEF Counting
  <2>4. Cardinality(RealLive') <= Cardinality(RealLive) + 1 /\ Cardinality(RealLive') \in Nat
    <3>a. IsFiniteSet(RealLive) /\ Cardinality(RealLive) \in Nat
      BY LiveFinite
    <3>b. IsFiniteSet(RealLive \cup {t})
      BY <3>a, FS_AddElement
    <3>c. Cardinality(RealLive \cup {t}) <= Cardinality(RealLive) + 1
      BY <3>a, FS_AddElement
    <3>d. Cardinality(RealLive \cup {t}) \in Nat
      BY <3>b, FS_CardinalityType
    <3>1. /\ IsFiniteSet(RealLive \cup {t}) /\ Cardinality(RealLive \cup {t}) \in Nat
          /\ Cardinality(RealLive \cup {t}) <= Cardinality(RealLive) + 1
          /\ Cardinality(RealLive) \in Nat
      BY <3>a, <3>b, <3>c, <3>d
    <3>2. RealLive' \in SUBSET (RealLive \cup {t})
      BY <2>2
    <3>3. IsFiniteSet(RealLive') /\ Cardinality(RealLive') <= Cardinality(RealLive \cup {t})
      BY <3>1, <3>2, FS_Subset
    <3>4. Cardinality(RealLive') \in Nat
      BY <3>3, FS_CardinalityType
    <3>5. QED
      BY <3>1, <3>3, <3>4
  <2>5. Cardinality(RealLive') <= active'
    BY <2>1, <2>4, LiveFinite DEF WorkersCounted, Counting, TypeOK
  <2>6. QED
    BY <2>3, <2>5 DEF WorkersCounted
<1>6. ASSUME NEW t \in Tasks, RefuseTask(t) \/ FakerootSpawnFails(t) PROVE WorkersCounted'
  <2>1. UNCHANGED <<worker, sq_live>> /\ pc' = "begin" /\ state' # "running"
    <3>1. CASE RefuseTask(t)
      <4>1. Halt
        BY <3>1 DEF RefuseTask, Refused
      <4>2. QED
        BY <3>1, <4>1 DEF RefuseTask, task_fail, workerVars, sqVars
    <3>2. CASE FakerootSpawnFails(t)
      BY <3>2 DEF FakerootSpawnFails, workerVars, sqVars
    <3>3. QED
      BY <1>6, <3>1, <3>2
  <2>2. Live' = Live
    BY <2>1 DEF Live
  <2>3. QED
    BY <2>1, <2>2 DEF WorkersCounted, ThreadLimit, Counting
<1>7. ASSUME UNCHANGED <<worker, sq_live, active>>, Counting' => Counting PROVE WorkersCounted'
  <2>1. Live' = Live /\ RealLive' = RealLive
    BY <1>7 DEF Live, RealLive
  <2>2. QED
    BY <1>7, <2>1, SameProcesses
<1>8. CASE \/ Execute \/ NothingToMigrate \/ ProcessTaskHashes \/ MigratePending \/ NoSetscene
           \/ UpdateHoldoff \/ HoldoffCurrent \/ SceneQueueOpen \/ SceneQueueComplete \/ NoTask
           \/ WaitForWorkers \/ ForceDeferred \/ EndOfBuild \/ Finish
           \/ StopBuild \/ FinishNow \/ Terminated \/ UNCHANGED vars
  <2>1. UNCHANGED <<worker, sq_live, active>>
    BY <1>8 DEF Execute, NothingToMigrate, ProcessTaskHashes, MigratePending, NoSetscene,
                UpdateHoldoff, HoldoffCurrent, SceneQueueOpen, SceneQueueComplete, NoTask,
                WaitForWorkers, ForceDeferred, EndOfBuild, Finish, StopBuild, FinishNow,
                Terminated, vars, runqVars, sqVars, workerVars
  <2>2. Counting' => Counting
    BY <1>8 DEF Execute, NothingToMigrate, ProcessTaskHashes, MigratePending, NoSetscene,
                UpdateHoldoff, HoldoffCurrent, SceneQueueOpen, SceneQueueComplete, NoTask,
                WaitForWorkers, ForceDeferred, EndOfBuild, Finish, StopBuild, FinishNow,
                Terminated, vars, Counting, Outcome
  <2>3. QED
    BY <1>7, <2>1, <2>2
<1>9. ASSUME NEW t \in Setscene, SetsceneSkip(t) \/ SetsceneFailOutright(t) PROVE WorkersCounted'
  <2>1. UNCHANGED <<worker, sq_live, active, state>> /\ pc = "setscene"
    BY <1>9 DEF SetsceneSkip, SetsceneFailOutright, NextSetscene, runqVars, workerVars
  <2>2. QED
    BY <1>7, <2>1 DEF Counting
<1>10. ASSUME NEW t \in Tasks, SkipTask(t) \/ NoexecTask(t) PROVE WorkersCounted'
  <2>1. UNCHANGED <<worker, sq_live, active, state>> /\ pc = "real"
    BY <1>10 DEF SkipTask, NoexecTask, NextTask, workerVars
  <2>2. QED
    BY <1>7, <2>1 DEF Counting
<1>11. ASSUME NEW t \in Tasks, NEW h \in Hashes, WorkerUniHash(t, h) PROVE WorkersCounted'
  <2>1. UNCHANGED <<worker, sq_live, active, state, pc>>
    BY <1>11 DEF WorkerUniHash, runqVars, sqVars
  <2>2. QED
    BY <1>7, <2>1 DEF Counting
<1>12. QED
  BY <1>1, <1>2, <1>3, <1>4, <1>5, <1>6, <1>8, <1>9, <1>10, <1>11 DEF Next, Schedule, ReadWorker

\* BB_NUMBER_THREADS bounds the processes of both queues on every task graph,
\* unless bitbake -k is combined with BB_SETSCENE_ENFORCE: a task refused then
\* takes the counter below the processes that run, and the build goes on.
THEOREM ThreadsBounded ==
  ASSUME Halt \/ Enforced = {}
  PROVE  Spec => []ThreadLimit
<1>1. Init => WorkersCounted
  <2> SUFFICES ASSUME Init PROVE WorkersCounted
    OBVIOUS
  <2>1. Live = {} /\ RealLive = {}
    BY DEF Init, Live, RealLive
  <2>2. QED
    BY <2>1, FS_EmptySet, NumberTasksAssumption DEF Init, WorkersCounted, ThreadLimit
<1>2. TypeOK /\ TypeOK' /\ WorkersCounted /\ [Next]_vars => WorkersCounted'
  BY NextCounted
<1>3. WorkersCounted => ThreadLimit
  BY DEF WorkersCounted
<1>4. QED
  BY <1>1, <1>2, <1>3, TypesHold, PTL DEF Spec

\* A build that is cleaning up has a failure to report.
FailedOrComplete == (state = "cleanup" => failed_tids # {}) /\ CompleteBuild

\* Every step keeps that.
LEMMA NextComplete ==
  ASSUME ~SetsceneOnly, Interrupts = {}, Enforced = {}
  PROVE  QueueInv /\ FailedOrComplete /\ [Next]_vars => FailedOrComplete'
<1> SUFFICES ASSUME QueueInv, FailedOrComplete, [Next]_vars PROVE FailedOrComplete'
  OBVIOUS
<1>1. CASE MigratePending
  <2>1. PICK ord \in SetToSeqs(pending_migrations) :
          LET m == Migrated(ord)
          IN  /\ failed_tids' = failed_tids \cup m.failed
              /\ state' = IF m.halt THEN "cleanup" ELSE state
    BY <1>1 DEF MigratePending
  <2>2. Migrated(ord) \in Rounds
    BY MigratedKeeps DEF QueueInv, TypeOK
  <2>3. Migrated(ord).halt => Migrated(ord).failed # {}
    BY <2>2 DEF Rounds, RoundsKeep
  <2>4. runq_complete' = runq_complete
    BY <1>1 DEF MigratePending
  <2>5. QED
    BY <2>1, <2>3, <2>4 DEF FailedOrComplete, CompleteBuild
<1>2. CASE EndOfBuild
  BY <1>2 DEF EndOfBuild, AllTasksRan, runqVars, FailedOrComplete, CompleteBuild
<1>3. CASE SceneQueueComplete
  BY <1>3 DEF SceneQueueComplete, runqVars, FailedOrComplete, CompleteBuild
<1>4. CASE Finish \/ StopBuild \/ FinishNow
  BY <1>4 DEF Finish, StopBuild, FinishNow, Outcome, runqVars, FailedOrComplete, CompleteBuild
<1>5. ASSUME UNCHANGED <<state, failed_tids>>, runq_complete \subseteq runq_complete'
      PROVE  FailedOrComplete'
  BY <1>5 DEF FailedOrComplete, CompleteBuild
<1>6. ASSUME NEW t \in Tasks,
             RefuseTask(t) \/ FakerootSpawnFails(t) \/ TaskFail(t) \/ SetsceneFail(t)
      PROVE  FailedOrComplete'
  <2>1. runq_complete' = runq_complete
        /\ (\/ state' = state /\ failed_tids \subseteq failed_tids'
            \/ state' = "cleanup" /\ failed_tids' = failed_tids \cup {t}
            \/ state' = "failed")
    BY <1>6 DEF RefuseTask, FakerootSpawnFails, TaskFail, SetsceneFail, task_fail, runqVars
  <2>2. QED
    BY <2>1 DEF FailedOrComplete, CompleteBuild
<1>7. ASSUME NEW t \in Tasks, SkipTask(t) \/ NoexecTask(t) \/ TaskComplete(t)
      PROVE  FailedOrComplete'
  BY <1>5, <1>7 DEF SkipTask, NoexecTask, TaskComplete, task_completeoutright
<1>8. ASSUME NEW t \in Tasks, StartTask(t) \/ SetsceneComplete(t) \/ WorkerExit(t)
      PROVE  FailedOrComplete'
  BY <1>5, <1>8 DEF StartTask, SetsceneComplete, WorkerExit, runqVars
<1>9. CASE \/ Execute \/ NothingToMigrate \/ ProcessTaskHashes \/ NoSetscene
           \/ UpdateHoldoff \/ HoldoffCurrent \/ SceneQueueOpen \/ NoTask
           \/ WaitForWorkers \/ ForceDeferred \/ Terminated \/ UNCHANGED vars
  BY <1>5, <1>9
     DEF Execute, NothingToMigrate, ProcessTaskHashes, NoSetscene, UpdateHoldoff,
         HoldoffCurrent, SceneQueueOpen, NoTask, WaitForWorkers, ForceDeferred,
         Terminated, vars, runqVars
<1>10. ASSUME NEW t \in Setscene, SetsceneSkip(t) \/ SetsceneFailOutright(t) \/ SetsceneStart(t)
       PROVE  FailedOrComplete'
  BY <1>5, <1>10 DEF SetsceneSkip, SetsceneFailOutright, SetsceneStart, runqVars
<1>11. ASSUME NEW t \in Tasks, NEW h \in Hashes, WorkerUniHash(t, h) PROVE FailedOrComplete'
  BY <1>5, <1>11 DEF WorkerUniHash, runqVars
<1>12. QED
  BY <1>1, <1>2, <1>3, <1>4, <1>6, <1>7, <1>8, <1>9, <1>10, <1>11 DEF Next, Schedule, ReadWorker

\* A build that is not interrupted, does more than its setscene tasks and allows
\* every task to execute is complete only when every task is.
THEOREM BuildIsComplete ==
  ASSUME ~SetsceneOnly, Interrupts = {}, Enforced = {}
  PROVE  Spec => []CompleteBuild
<1>1. Init => FailedOrComplete
  BY DEF Init, FailedOrComplete, CompleteBuild
<1>2. QueueInv /\ FailedOrComplete /\ [Next]_vars => FailedOrComplete'
  BY NextComplete
<1>3. FailedOrComplete => CompleteBuild
  BY DEF FailedOrComplete
<1>4. QED
  BY <1>1, <1>2, <1>3, QueueInvariance, PTL DEF Spec

-----------------------------------------------------------------------------
(* Part 5.  What the scene queue covers: the targets of bitbake -f, ...        *)

\* check_stamp_task(recurse=True) wants what check_stamp_task wants: the recursion
\* has a solution, so StampCurrentRec is one.
StampedIn(S, t) ==
  /\ StampCurrent(t)
  /\ \A d \in depends[t] : Fn[d] = Fn[t] => SetsceneNewer(d) \/ d \in S

LEMMA RecursiveStamp == \A t \in Tasks : StampCurrentRec[t] => StampCurrent(t)
<1> DEFINE Fcn(f) == f = [t \in Tasks |->
                            /\ StampCurrent(t)
                            /\ \A d \in depends[t] : Fn[d] = Fn[t] => SetsceneNewer(d) \/ f[d]]
           Post == {S \in SUBSET Tasks : \A t \in S : StampedIn(S, t)}
           G == UNION Post
           g == [t \in Tasks |-> t \in G]
<1>1. \A t \in G : StampedIn(G, t)
  <2> SUFFICES ASSUME NEW S \in Post, NEW t \in S PROVE StampedIn(G, t)
    OBVIOUS
  <2>1. S \subseteq G /\ StampedIn(S, t)
    OBVIOUS
  <2> HIDE DEF G, Post
  <2>2. QED
    BY <2>1 DEF StampedIn
<1>2. ASSUME NEW t \in Tasks, StampedIn(G, t) PROVE t \in G
  <2>0. G \subseteq Tasks
    OBVIOUS
  <2> DEFINE S == G \cup {t}
  <2> HIDE DEF G
  <2>1. \A x \in S : StampedIn(S, x)
    BY <1>1, <1>2 DEF StampedIn
  <2>2. S \in SUBSET Tasks
    BY <2>0
  <2>3. t \in S
    OBVIOUS
  <2> HIDE DEF S
  <2>4. S \in Post
    BY <2>1, <2>2
  <2> HIDE DEF Post
  <2>5. QED
    BY <2>3, <2>4 DEF G
<1> HIDE DEF G
<1>3. Fcn(g)
  <2> DEFINE Body(t) == /\ StampCurrent(t)
                        /\ \A d \in depends[t] : Fn[d] = Fn[t] => SetsceneNewer(d) \/ g[d]
  <2>1. ASSUME NEW t \in Tasks PROVE t \in G <=> Body(t)
    <3>1. \A d \in depends[t] : g[d] <=> d \in G
      BY DependsAssumption
    <3>2. t \in G <=> StampedIn(G, t)
      BY <1>1, <1>2
    <3> HIDE DEF g
    <3>3. StampedIn(G, t) <=> Body(t)
      BY <3>1, Zenon DEF StampedIn
    <3>4. QED
      BY <3>2, <3>3
  <2>2. ASSUME NEW t \in Tasks PROVE (t \in G) = Body(t)
    <3>1. Body(t) \in BOOLEAN
      OBVIOUS
    <3>2. t \in G <=> Body(t)
      BY <2>1
    <3> HIDE DEF Body, g
    <3>3. QED
      BY <3>1, <3>2
  <2>3. g = [t \in Tasks |-> Body(t)]
    <3> HIDE DEF Body
    <3>1. QED
      BY <2>2
  <2>4. QED
    BY <2>3
<1>4. StampCurrentRec = CHOOSE f : Fcn(f)
  BY DEF StampCurrentRec
<1> HIDE DEF Fcn
<1>5. Fcn(StampCurrentRec)
  BY <1>3, <1>4
<1>6. QED
  BY <1>5 DEF Fcn

\* A task without stamps is not skipped because of its stamps.
LEMMA NoStampNoSkip ==
  ASSUME NEW t \in Tasks, t \notin Noexec, stamp[t] = 0, sstamp[t] = 0
  PROVE  ~NoexecOrStamped(t)
  BY RecursiveStamp DEF NoexecOrStamped, StampCurrent

\* What completion covers, and that failure covers nothing.
LEMMA CompleteCovers ==
  ASSUME NEW s \in SqState, NEW C \in SUBSET Setscene
  PROVE  /\ sq_task_completeoutright(s, C).covered = s.covered \cup C
         /\ sq_task_completeoutright(s, C).notcovered = s.notcovered
<1> DEFINE s1 == [s EXCEPT !.covered = @ \cup C]
           r == sq_task_completeoutright(s, C)
<1>1. s1 \in SqState /\ s1.covered = s.covered \cup C /\ s1.notcovered = s.notcovered
  BY DEF SqState
<1>2. r = UpdateCounters(s1, C, FALSE)
  BY DEF sq_task_completeoutright
<1> HIDE DEF s1, r
<1>3. r.covered = s1.covered /\ r.notcovered = s1.notcovered
  BY <1>1, <1>2, UpdateCountersGrows
<1>4. r.covered = s.covered \cup C /\ r.notcovered = s.notcovered
  BY <1>1, <1>3
<1>5. QED
  BY <1>4 DEF r

LEMMA FailCovers ==
  ASSUME NEW s \in SqState, NEW t \in Setscene
  PROVE  /\ sq_task_fail(s, t).covered = s.covered
         /\ sq_task_fail(s, t).notcovered = s.notcovered \cup FailedWith(s, t)
<1> DEFINE F == FailedWith(s, t)
           s1 == [s EXCEPT !.notcovered = @ \cup F, !.running = @ \cup (F \ {t}),
                           !.buildable = @ \cup (F \ {t})]
           r == sq_task_fail(s, t)
<1>1. F \in SUBSET Setscene
  BY FailedWithType
<1>2. r = UpdateCounters(s1, F, TRUE)
  BY DEF sq_task_fail
<1> HIDE DEF F, r
<1>3. s1 \in SqState /\ s1.covered = s.covered /\ s1.notcovered = s.notcovered \cup F
  BY <1>1 DEF SqState
<1> HIDE DEF s1
<1>4. r.covered = s1.covered /\ r.notcovered = s1.notcovered
  BY <1>1, <1>2, <1>3, UpdateCountersGrows
<1>5. r.covered = s.covered /\ r.notcovered = s.notcovered \cup F
  BY <1>3, <1>4
<1>6. QED
  BY <1>5 DEF F, r

LEMMA FailOutrightCovers ==
  ASSUME NEW s \in SqState, NEW t \in Setscene
  PROVE  sq_task_failoutright(s, t).covered = s.covered
<1> DEFINE s1 == [s EXCEPT !.running = @ \cup {t}, !.buildable = @ \cup {t}]
<1>1. s1 \in SqState /\ s1.covered = s.covered
  BY DEF SqState
<1>2. sq_task_failoutright(s, t) = sq_task_fail(s1, t)
  BY DEF sq_task_failoutright
<1> HIDE DEF s1
<1>3. QED
  BY <1>1, <1>2, FailCovers

\* A completion covers stamped setscene tasks at most, ...
LEMMA CompletionCovers ==
  ASSUME TypeOK, NEW t \in Tasks, task_completeoutright(t)
  PROVE  \A d \in sq.covered' \ sq.covered : NoexecOrStamped(d)
<1> DEFINE freed == {d \in DOMAIN sq_deferred : sq_deferred[d] = t}
           def   == [d \in DOMAIN sq_deferred \ freed |-> sq_deferred[d]]
<1>1. sq' = IF freed = {} THEN sq ELSE update_scenequeue_data(sq, freed, unihash, def)
  BY DEF task_completeoutright
<1>2. freed \in SUBSET Setscene /\ sq \in SqState
  BY DEF TypeOK
<1> HIDE DEF freed, def
<1>3. Adds(sq, update_scenequeue_data(sq, freed, unihash, def),
           {d \in freed : NoexecOrStamped(d)}, {})
  BY <1>2, UpdateDataAdds
<1>4. QED
  BY <1>1, <1>3 DEF Adds

\* A migration takes back the tasks of m.migrated, covers those of them that are
\* stamped, giving r, and fails those of m.hard.
MigratesBy(m, r, ord) ==
  /\ ord \in SetToSeqs(pending_migrations)
  /\ m \in MState /\ RoundsKeep(m) /\ pending_migrations' = m.pending
  /\ r \in SqState /\ Adds(m.sq, r, {t \in m.migrated : NoexecOrStamped(t)}, {})
  /\ sq' = [HardFailed(r, ord, m.hard) EXCEPT !.need = @ \/ changed \/ m.migrated # {}]

LEMMA MigrationSteps ==
  ASSUME QueueInv, MigratePending
  PROVE  \E m, r, ord : MigratesBy(m, r, ord)
<1>0. /\ TypeOK /\ sq \in SqState /\ Marked(sq) /\ SkippedCovered
      /\ pending_migrations \subseteq Setscene
  BY DEF QueueInv, TypeOK
<1> DEFINE def(m) == Defer(sq_deferred, m.migrated, unihash)
           s1(m)  == IF m.migrated = {} THEN m.sq
                     ELSE update_scenequeue_data(m.sq, m.migrated, unihash, def(m))
<1>1. PICK ord \in SetToSeqs(pending_migrations) :
        LET m == Migrated(ord)
        IN  /\ pending_migrations' = m.pending
            /\ sq' = IF m.halt THEN m.sq
                     ELSE [HardFailed(s1(m), ord, m.hard)
                             EXCEPT !.need = @ \/ changed \/ m.migrated # {}]
  BY DEF MigratePending
<1> DEFINE m == Migrated(ord)
           r == s1(m)
           skip == {t \in m.migrated : NoexecOrStamped(t)}
<1>2. m \in MState /\ RoundsKeep(m)
  BY <1>0, <1>1, MigratedKeeps DEF Rounds
<1>3. m.sq \in SqState /\ m.migrated \in SUBSET Setscene
  BY <1>2 DEF MState
<1>4. sq' = [HardFailed(r, ord, m.hard) EXCEPT !.need = @ \/ changed \/ m.migrated # {}]
      /\ pending_migrations' = m.pending
  BY <1>1, <1>2 DEF RoundsKeep
<1> HIDE DEF m
<1>5. r \in SqState /\ Adds(m.sq, r, skip, {})
  <2>1. CASE m.migrated = {}
    BY <1>3, <2>1 DEF Adds
  <2>2. CASE m.migrated # {}
    <3>1. r = update_scenequeue_data(m.sq, m.migrated, unihash, def(m))
      BY <2>2
    <3> HIDE DEF r, s1, def, skip
    <3>2. QED
      BY <1>3, <3>1, UpdateDataAdds, UpdateDataGrows DEF skip, Grows
  <2>3. QED
    BY <2>1, <2>2
<1> HIDE DEF r, s1, def
<1>6. MigratesBy(m, r, ord)
  BY <1>1, <1>2, <1>4, <1>5 DEF MigratesBy
<1>7. QED
  BY <1>6

\* What a migration covers are stamped tasks that it takes back.
LEMMA MigrationCovers ==
  ASSUME QueueInv, MigratePending
  PROVE  \E T \in SUBSET Setscene :
           /\ T \cap (runq_running \cup sq_live) = {} /\ T \subseteq pending_migrations
           /\ sq.covered' = (sq.covered \ T) \cup {t \in T : NoexecOrStamped(t)}
<1>1. PICK m, r, ord : MigratesBy(m, r, ord)
  BY MigrationSteps
<1> DEFINE M == {q \in SqState : q.covered = r.covered}
<1>2. /\ ord \in SetToSeqs(pending_migrations)
      /\ m \in MState /\ RoundsKeep(m)
      /\ r \in SqState /\ Adds(m.sq, r, {t \in m.migrated : NoexecOrStamped(t)}, {})
      /\ sq' = [HardFailed(r, ord, m.hard) EXCEPT !.need = @ \/ changed \/ m.migrated # {}]
      /\ pending_migrations \subseteq Setscene
  BY <1>1 DEF MigratesBy, QueueInv, TypeOK
<1>3. \A q \in M : \A t \in m.hard \cap Setscene : sq_task_failoutright(q, t) \in M
  BY FailOutrightGrows, FailOutrightCovers DEF Grows
<1>4. r \in M
  BY <1>2
<1> HIDE DEF M
<1>5. HardFailed(r, ord, m.hard) \in M
  BY <1>2, <1>3, <1>4, HardFailedKeeps
<1>6. sq.covered' = r.covered
  BY <1>2, <1>5 DEF M, SqState
<1>7. r.covered = (sq.covered \ m.migrated) \cup {t \in m.migrated : NoexecOrStamped(t)}
  BY <1>2 DEF RoundsKeep, Adds
<1>8. /\ m.migrated \in SUBSET Setscene /\ m.migrated \cap (runq_running \cup sq_live) = {}
      /\ m.migrated \subseteq pending_migrations
  BY <1>2 DEF RoundsKeep, MState
<1>9. QED
  BY <1>6, <1>7, <1>8

\* bitbake -f has removed the stamps of the targets: until one is built nothing
\* covers it, it is not unpacked and it has no stamp.
ForcedUntouched ==
  \A t \in Targets \cap Setscene :
    \/ t \in runq_running
    \/ t \notin sq.covered \cup sq_live /\ stamp[t] = 0 /\ sstamp[t] = 0

ForcedInv == Forced => ForcedUntouched /\ Targets \cap Skipped = {}

NoStampedTargets == Targets \cap Setscene \cap (Noexec \cup Stamped) = {}

\* Steps that complete no task keep it if they cover no target that has no stamp.
LEMMA ForcedStep ==
  ASSUME QueueInv, ForcedInv, runq_running \subseteq runq_running', Skipped' \subseteq Skipped,
         \A t \in Targets \cap Setscene :
           \/ t \in runq_running'
           \/ ~Forced
           \/ t \in sq.covered \cup sq_live \/ stamp[t] # 0 \/ sstamp[t] # 0
           \/ t \notin sq.covered' \cup sq_live' /\ stamp'[t] = 0 /\ sstamp'[t] = 0
  PROVE  ForcedInv'
  BY DEF ForcedInv, ForcedUntouched

LEMMA InitForced == NoStampedTargets /\ Init => ForcedInv
<1> SUFFICES ASSUME NoStampedTargets, Init PROVE ForcedInv
  OBVIOUS
<1> DEFINE s0 == [buildable |-> {t \in Setscene : sq_revdeps[t] = {}}, running |-> {},
                  covered |-> {}, notcovered |-> {}, notneeded |-> {}, outrightfail |-> {},
                  done |-> unskippable \ Setscene, need |-> TRUE]
           skip == {t \in Setscene : NoexecOrStamped(t)}
<1>1. s0 \in SqState /\ s0.covered = {}
  BY SceneQueueData DEF SqState
<1>2. sq = update_scenequeue_data(s0, Setscene, InitHash, InitDeferred)
  BY DEF Init, InitSq
<1> HIDE DEF s0
<1>3. Adds(s0, sq, skip, {})
  BY <1>1, <1>2, UpdateDataAdds
<1>4. sq.covered \subseteq skip
  BY <1>1, <1>3 DEF Adds
<1>5. ASSUME NEW t \in Targets \cap Setscene PROVE stamp[t] = 0 /\ sstamp[t] = 0 /\ t \notin skip
  <2>1. t \in Tasks /\ t \notin Noexec \cup Stamped
    BY SetsceneAssumption DEF NoStampedTargets
  <2>2. stamp[t] = 0 /\ sstamp[t] = 0
    BY <2>1 DEF Init
  <2>3. QED
    BY <2>1, <2>2, NoStampNoSkip
<1>6. QED
  BY <1>4, <1>5 DEF ForcedInv, ForcedUntouched, Skipped, Init

\* A step that completes a task.
LEMMA CompletionForced ==
  ASSUME NoStampedTargets, QueueInv, ForcedInv, NEW t \in Tasks, task_completeoutright(t),
         runq_running' = runq_running \cup {t}, sq_live' = sq_live,
         \A d \in Tasks \ {t} : stamp'[d] = stamp[d] /\ sstamp'[d] = sstamp[d],
         t \in runq_tasksrun' \/ ~Forced \/ t \notin Targets,
         runq_tasksrun \subseteq runq_tasksrun'
  PROVE  ForcedInv'
<1>1. TypeOK
  BY DEF QueueInv
<1>2. runq_complete' = runq_complete \cup {t}
  BY DEF task_completeoutright
<1>3. Forced => Targets \cap Skipped' = {}
  BY <1>2 DEF ForcedInv, Skipped
<1>4. ASSUME Forced, NEW d \in Targets \cap Setscene, d \notin runq_running'
      PROVE  d \notin sq.covered' \cup sq_live' /\ stamp'[d] = 0 /\ sstamp'[d] = 0
  <2>1. d \in Tasks \ {t} /\ d \notin Noexec
    BY <1>4, SetsceneAssumption DEF NoStampedTargets
  <2>2. d \notin sq.covered \cup sq_live /\ stamp[d] = 0 /\ sstamp[d] = 0
    BY <1>4 DEF ForcedInv, ForcedUntouched
  <2>3. ~NoexecOrStamped(d)
    BY <2>1, <2>2, NoStampNoSkip
  <2>4. d \notin sq.covered'
    BY <1>1, <2>2, <2>3, CompletionCovers
  <2>5. QED
    BY <2>1, <2>2, <2>4
<1>5. QED
  BY <1>3, <1>4 DEF ForcedInv, ForcedUntouched

\* Every step keeps it: the setscene task of a target fails outright, is not
\* skipped, and the target is not skipped as covered.
LEMMA NextForced ==
  ASSUME NoStampedTargets, Inv, QueueInv, ForcedInv, Next
  PROVE  ForcedInv'
<1>0. TypeOK /\ sq \in SqState /\ Marked(sq) /\ sq_live \subseteq Setscene
  BY DEF QueueInv, TypeOK
<1>1. ASSUME NEW t \in Tasks, WorkerExit(t) PROVE ForcedInv'
  <2>1. t \in sq_live \cup runq_running
    BY <1>1 DEF WorkerExit, Inv, WorkersStarted
  <2>2. /\ \A d \in Tasks \ {t} : stamp'[d] = stamp[d] /\ sstamp'[d] = sstamp[d]
        /\ UNCHANGED <<runqVars, sqVars>>
    BY <1>0, <1>1 DEF WorkerExit, ExitOk, ExitFail, TypeOK
  <2>3. QED
    BY <2>1, <2>2, SetsceneAssumption, ForcedStep DEF runqVars, sqVars, Skipped
<1>2. ASSUME NEW t \in Tasks, TaskComplete(t) PROVE ForcedInv'
  <2>1. t \in runq_running
    BY <1>2 DEF TaskComplete, Inv, WorkersStarted
  <2>2. QED
    BY <1>2, <2>1, CompletionForced DEF TaskComplete
<1>3. ASSUME NEW t \in Tasks, SetsceneComplete(t) PROVE ForcedInv'
  <2>1. sq.covered' = sq.covered \cup {t}
    BY <1>0, <1>3, CompleteCovers DEF SetsceneComplete
  <2>2. QED
    BY <1>3, <2>1, ForcedStep DEF SetsceneComplete, runqVars, Skipped
<1>4. ASSUME NEW t \in Tasks, SetsceneFail(t) PROVE ForcedInv'
  <2>1. sq.covered' = sq.covered
    BY <1>0, <1>4, FailCovers DEF SetsceneFail
  <2>2. QED
    BY <1>4, <2>1, ForcedStep DEF SetsceneFail, runqVars, Skipped
<1>5. CASE ProcessTaskHashes
  <2>1. UNCHANGED <<runqVars, sqVars>>
    BY <1>5 DEF ProcessTaskHashes
  <2>2. \A t \in Tasks : stamp'[t] \in {0, stamp[t]} /\ sstamp'[t] \in {0, sstamp[t]}
    BY <1>5 DEF ProcessTaskHashes
  <2>3. QED
    BY <2>1, <2>2, SetsceneAssumption, ForcedStep DEF runqVars, sqVars, Skipped
<1>6. CASE MigratePending
  <2>1. PICK T \in SUBSET Setscene :
          sq.covered' = (sq.covered \ T) \cup {t \in T : NoexecOrStamped(t)}
    BY <1>6, MigrationCovers
  <2>2. UNCHANGED <<runq_running, runq_complete, runq_tasksrun, sq_live, stamp, sstamp>>
    BY <1>6 DEF MigratePending, workerVars
  <2>3. \A t \in Targets \cap Setscene :
          stamp[t] = 0 /\ sstamp[t] = 0 => ~NoexecOrStamped(t)
    BY NoStampNoSkip, SetsceneAssumption DEF NoStampedTargets
  <2>4. QED
    BY <2>1, <2>2, <2>3, ForcedStep DEF Skipped
<1>7. ASSUME NEW t \in Setscene, SetsceneSkip(t) PROVE ForcedInv'
  <2> DEFINE r == sq_task_skip(sq, {t})
             more == {x \in {t} : Skippable(x)}
  <2>1. sq' = [r EXCEPT !.notneeded = @ \cup more]
    BY <1>7 DEF SetsceneSkip
  <2>2. Grows(sq, r) /\ Adds(sq, r, {t}, {})
    BY <1>0, SkipGrows, SkipAdds
  <2> HIDE DEF r, more
  <2>3. sq.covered' = sq.covered \cup {t}
    BY <2>1, <2>2 DEF Adds, Grows, SqState
  <2>4. Forced => t \notin Targets
    BY <1>7 DEF SetsceneSkip, Skippable, Unavailable
  <2>5. QED
    BY <1>7, <2>3, <2>4, ForcedStep DEF SetsceneSkip, runqVars, workerVars, Skipped
<1>8. ASSUME NEW t \in Setscene, SetsceneFailOutright(t) PROVE ForcedInv'
  <2>1. sq.covered' = sq.covered
    BY <1>0, <1>8, FailOutrightCovers DEF SetsceneFailOutright
  <2>2. QED
    BY <1>8, <2>1, ForcedStep DEF SetsceneFailOutright, runqVars, workerVars, Skipped
<1>9. ASSUME NEW t \in Setscene, SetsceneStart(t) PROVE ForcedInv'
  <2>1. sq.covered' = sq.covered
    BY <1>0, <1>9 DEF SetsceneStart, SqState
  <2>2. Forced => t \notin Targets
    BY <1>9 DEF SetsceneStart, Unavailable
  <2>3. QED
    BY <1>9, <2>1, <2>2, ForcedStep DEF SetsceneStart, runqVars, Skipped
<1>10. CASE ForceDeferred
  <2>1. PICK key \in DOMAIN sq_deferred :
           sq' = IF sq_deferred[key] \in runq_complete THEN sq
                 ELSE sq_task_failoutright(sq, sq_deferred[key])
    BY <1>10 DEF ForceDeferred
  <2>2. sq_deferred[key] \in Setscene
    BY <1>0 DEF TypeOK
  <2>3. sq.covered' = sq.covered
    BY <1>0, <2>1, <2>2, FailOutrightCovers
  <2>4. QED
    BY <1>10, <2>3, ForcedStep DEF ForceDeferred, runqVars, workerVars, Skipped
<1>11. ASSUME NEW t \in Tasks, SkipTask(t) PROVE ForcedInv'
  <2>1. NextTask(t) /\ task_completeoutright(t) /\ UNCHANGED <<sq_live, stamp, sstamp>>
        /\ runq_running' = runq_running \cup {t}
        /\ runq_tasksrun' = runq_tasksrun \cup ({t} \ tasks_covered)
    BY <1>11 DEF SkipTask, SkippedRan, workerVars
  <2>2. ASSUME Forced, t \in Targets, t \in tasks_covered PROVE FALSE
    <3>1. /\ ~sq.need /\ t \notin runq_running
      BY <2>1, NextTaskFree
    <3>2. t \in sq.done /\ t \notin NotCovered
          /\ t \in sq.covered \cup UNION {sq_covered_tasks[d] : d \in sq.covered}
      BY <2>2, <3>1 DEF QueueInv, DecisionsKept, Covered
    <3>3. t \in Setscene
      BY <2>2, <3>2 DEF NotCovered, cantskip
    <3>4. t \in sq.covered
      BY <1>0, <3>2, <3>3, SceneQueueData DEF SqState
    <3>5. QED
      BY <2>2, <3>1, <3>3, <3>4 DEF ForcedInv, ForcedUntouched
  <2>3. QED
    BY <2>1, <2>2, CompletionForced
<1>12. ASSUME NEW t \in Tasks, NoexecTask(t) PROVE ForcedInv'
  <2>1. /\ task_completeoutright(t) /\ runq_running' = runq_running \cup {t}
        /\ runq_tasksrun' = runq_tasksrun \cup {t} /\ UNCHANGED sq_live
        /\ \A d \in Tasks \ {t} : stamp'[d] = stamp[d] /\ sstamp'[d] = sstamp[d]
    BY <1>0, <1>12 DEF NoexecTask, TypeOK
  <2>2. QED
    BY <2>1, CompletionForced
<1>13. CASE UpdateHoldoff
  BY <1>0, <1>13, ForcedStep DEF UpdateHoldoff, workerVars, Skipped, SqState
<1>14. CASE UNCHANGED <<runq_complete, runq_tasksrun, sq, sq_live, stamp, sstamp>>
            /\ runq_running \subseteq runq_running'
  BY <1>14, ForcedStep DEF Skipped
<1>15. QED
  BY <1>1, <1>2, <1>3, <1>4, <1>5, <1>6, <1>7, <1>8, <1>9, <1>10, <1>11, <1>12, <1>13, <1>14
     DEF Next, Schedule, ReadWorker, WorkerUniHash, TaskFail, Execute, NothingToMigrate,
         NoSetscene, HoldoffCurrent, SceneQueueOpen, SceneQueueComplete, NoTask, RefuseTask,
         StartTask, FakerootSpawnFails, WaitForWorkers, EndOfBuild, Finish, StopBuild, FinishNow,
         Terminated, vars, runqVars, sqVars, workerVars

\* bitbake -f, which has removed the stamps of the targets, builds every target:
\* none is taken from sstate, skipped as covered or left out, whatever is deferred,
\* rehashed or fails on the way.
THEOREM TargetsAreBuilt ==
  ASSUME NoStampedTargets, ~SetsceneOnly, Interrupts = {}, Enforced = {}
  PROVE  Spec => []ForcedTargetsRun
<1>1. Init => ForcedInv
  BY InitForced
<1>2. Inv /\ QueueInv /\ ForcedInv /\ [Next]_vars => ForcedInv'
  <2> SUFFICES ASSUME Inv, QueueInv, ForcedInv, [Next]_vars PROVE ForcedInv'
    OBVIOUS
  <2>1. CASE UNCHANGED vars
    BY <2>1 DEF ForcedInv, ForcedUntouched, Skipped, vars, runqVars, sqVars, workerVars
  <2>2. QED
    BY <2>1, NextForced
<1>3. ForcedInv /\ CompleteBuild => ForcedTargetsRun
  BY SetsceneAssumption DEF ForcedInv, Skipped, CompleteBuild, ForcedTargetsRun
<1>4. Spec => []CompleteBuild
  BY BuildIsComplete
<1>5. QED
  BY <1>1, <1>2, <1>3, <1>4, Invariance, QueueInvariance, PTL DEF Spec

-----------------------------------------------------------------------------
(* ... and the coverage of a build in which no setscene task is deferred      *)
(* against another.                                                           *)

NoDeferral == DOMAIN sq_deferred = {}

\* What a live setscene task hard-depends on is covered, and it is neither decided
\* nor started as a task.
LiveRight ==
  /\ sq_live \cap (Processed(sq) \cup runq_running) = {} /\ sq_live \subseteq sq.buildable
  /\ \A t \in sq_live : SetsceneDepends[t] \subseteq sq.covered

\* What waits to be taken back is not covered, and has no stamp unless it was
\* started as a task.
PendingFree ==
  \A t \in pending_migrations :
    /\ t \notin sq.covered \cup sq_live
    /\ t \in runq_running \/ (stamp[t] = 0 /\ sstamp[t] = 0)

\* Tasks without output are covered from the beginning; a setscene task that is built
\* has been rejected.
NoexecCovered == Noexec \cap Setscene \subseteq sq.covered
BuiltRejected == RealLive \cap Setscene \subseteq sq.notcovered

\* What is skipped as covered is, and is none of the tasks the build needs.
SkippedRight ==
  Skipped \cap Setscene \subseteq sq.covered /\ Skipped \cap (unskippable \ Setscene) = {}

SceneInv == CoveredOrNot /\ LiveRight /\ PendingFree /\ NoexecCovered /\ BuiltRejected
              /\ SkippedRight /\ RealInputs

\* The step takes nothing back, and starts only a setscene task that may start.
LEMMA SceneStep ==
  ASSUME SceneInv, CoveredOrNot', LiveRight', PendingFree',
         sq.covered \subseteq sq.covered', RealLive' \cap Setscene \subseteq sq.notcovered',
         RealLive' \subseteq RealLive, runq_tasksrun \subseteq runq_tasksrun', SkippedRight'
  PROVE  SceneInv'
<1>1. NoexecCovered' /\ BuiltRejected'
  BY DEF SceneInv, NoexecCovered, BuiltRejected
<1>2. RealInputs'
  BY DEF SceneInv, RealInputs
<1>3. QED
  BY <1>1, <1>2 DEF SceneInv

\* What is below t is below what t is below, unless t is a setscene task; and the
\* build needs what a task that it needs depends on.
LEMMA BelowBelow ==
  ASSUME NEW x \in Tasks, NEW t \in Below[x] \ Setscene, t \in Tasks, NEW d \in depends[t]
  PROVE  d \in Below[x]
<1> DEFINE S == {y \in Tasks : t \in Below[y] /\ d \notin Below[y]}
<1>1. SUFFICES ASSUME S # {} PROVE FALSE
  OBVIOUS
<1>2. PICK y \in S : depends[y] \cap S = {}
  BY <1>1, AcyclicAssumption
<1>3. \A z \in Tasks : Below[z] = BelowOf(Below, z)
  BY BelowEquation
<1>4. PICK e \in depends[y] : t = e \/ (e \notin Setscene /\ t \in Below[e])
  BY <1>2, <1>3, BelowMember
<1>5. e \in Tasks /\ d \in Tasks
  BY <1>2, DependsAssumption
<1>6. e \notin Setscene /\ d \in Below[e]
  <2>1. CASE t = e
    <3>1. d \in BelowOf(Below, e)
      BY <2>1, BelowMember
    <3>2. QED
      BY <1>3, <1>5, <2>1, <3>1
  <2>2. CASE t # e
    BY <1>2, <1>4, <1>5, <2>2
  <2>3. QED
    BY <2>1, <2>2
<1>7. d \in BelowOf(Below, y)
  BY <1>4, <1>6, BelowMember
<1>8. QED
  BY <1>2, <1>3, <1>7

\* What is below s is needed by s, or by a normal task below s.
LEMMA BelowNeeded ==
  ASSUME NEW s \in Tasks, NEW x \in Below[s]
  PROVE  \E r \in revdeps[x] : r = s \/ r \in Below[s] \ Setscene
<1> DEFINE Link(y) == \E r \in revdeps[x] : r = y \/ r \in Below[y] \ Setscene
           S == {y \in Tasks : x \in Below[y] /\ ~Link(y)}
<1>1. SUFFICES ASSUME S # {} PROVE FALSE
  OBVIOUS
<1>2. PICK y \in S : depends[y] \cap S = {}
  BY <1>1, AcyclicAssumption
<1>3. \A z \in Tasks : Below[z] = BelowOf(Below, z)
  BY BelowEquation
<1>4. PICK e \in depends[y] : x = e \/ (e \notin Setscene /\ x \in Below[e])
  BY <1>2, <1>3, BelowMember
<1>5. y \in Tasks /\ e \in Tasks /\ x \in Tasks
  BY <1>2, <1>4, BelowTasks, DependsAssumption
<1>6. CASE x = e
  <2>1. y \in revdeps[x]
    BY <1>4, <1>5, <1>6 DEF revdeps
  <2>2. QED
    BY <1>2, <2>1
<1>7. CASE x # e
  <2>1. e \notin Setscene /\ x \in Below[e] /\ e \notin S
    BY <1>2, <1>4, <1>7
  <2>2. PICK r \in revdeps[x] : r = e \/ r \in Below[e] \ Setscene
    BY <1>5, <2>1
  <2>3. r \in BelowOf(Below, y) /\ r \notin Setscene
    BY <1>4, <2>1, <2>2, BelowMember
  <2>4. QED
    BY <1>2, <1>3, <1>5, <2>2, <2>3
<1>8. QED
  BY <1>6, <1>7

LEMMA UnskippableClosed ==
  ASSUME NEW t \in unskippable \ Setscene, NEW d \in depends[t]
  PROVE  d \in unskippable
<1> DEFINE roots == {r \in Tasks : revdeps[r] = {}} \cup cantskip
<1>1. unskippable = roots \cup UNION {Below[r] : r \in roots \ Setscene}
  BY DEF unskippable
<1>2. t \in Tasks /\ roots \subseteq Tasks
  BY SceneQueueData
<1> HIDE DEF roots
<1>3. CASE t \in roots
  <2>1. d \in BelowOf(Below, t)
    BY BelowMember
  <2>2. d \in Below[t]
    BY <1>2, <2>1, BelowEquation
  <2>3. QED
    BY <1>1, <1>3, <2>2
<1>4. CASE t \notin roots
  <2>1. PICK r \in roots \ Setscene : t \in Below[r]
    BY <1>1, <1>4
  <2>2. d \in Below[r]
    BY <1>2, <2>1, BelowBelow
  <2>3. QED
    BY <1>1, <2>1, <2>2
<1>5. QED
  BY <1>3, <1>4

\* The construction covers what is stamped.
LEMMA InitScene == Init => SceneInv
<1> SUFFICES ASSUME Init PROVE SceneInv
  OBVIOUS
<1> DEFINE s0 == [buildable |-> {t \in Setscene : sq_revdeps[t] = {}}, running |-> {},
                  covered |-> {}, notcovered |-> {}, notneeded |-> {}, outrightfail |-> {},
                  done |-> unskippable \ Setscene, need |-> TRUE]
           skip == {t \in Setscene : NoexecOrStamped(t)}
<1>1. s0 \in SqState /\ s0.covered = {} /\ s0.notcovered = {}
  BY SceneQueueData DEF SqState
<1>2. sq = update_scenequeue_data(s0, Setscene, InitHash, InitDeferred)
  BY DEF Init, InitSq
<1> HIDE DEF s0
<1>3. Adds(s0, sq, skip, {})
  BY <1>1, <1>2, UpdateDataAdds
<1>4. sq.covered = skip /\ sq.notcovered = {}
  BY <1>1, <1>3 DEF Adds
<1>5. NoexecCovered
  BY <1>4 DEF NoexecCovered, NoexecOrStamped
<1>6. Live = {} /\ RealLive = {}
  BY DEF Init, Live, RealLive
<1> HIDE DEF skip
<1>7. QED
  BY <1>4, <1>5, <1>6 DEF Init, SceneInv, CoveredOrNot, LiveRight, PendingFree, BuiltRejected,
                          SkippedRight, Skipped, RealInputs

\* Without deferred tasks a completion leaves the scene queue alone.
LEMMA CompletionApart ==
  ASSUME NoDeferral, NEW t, task_completeoutright(t)
  PROVE  sq' = sq /\ runq_complete' = runq_complete \cup {t}
<1> DEFINE freed == {d \in DOMAIN sq_deferred : sq_deferred[d] = t}
<1>1. freed = {}
  BY DEF NoDeferral
<1>2. QED
  BY <1>1 DEF task_completeoutright

\* What fails with t is neither covered nor live.
LEMMA FailedApart ==
  ASSUME LiveRight, NEW s, s.covered = sq.covered, NEW t \in Setscene, t \notin s.covered,
         Processed(sq) \subseteq Processed(s)
  PROVE  /\ FailedWith(s, t) \cap s.covered = {}
         /\ FailedWith(s, t) \cap sq_live \subseteq {t}
<1>1. \A d \in FailedWith(s, t) \ {t} :
         d \notin Processed(s) /\ ~(SetsceneDepends[d] \subseteq s.covered)
  BY FailedWithOpen
<1>2. QED
  BY <1>1 DEF LiveRight, Processed

\* A migration covers nothing and what it fails is neither covered nor live.
LEMMA MigrationScene ==
  ASSUME Inv, QueueInv, SceneInv, MigratePending
  PROVE  SceneInv'
<1>1. PICK m, r, ord : MigratesBy(m, r, ord)
  BY MigrationSteps
<1> DEFINE M == {q \in SqState : /\ q.covered = sq.covered /\ r.notcovered \subseteq q.notcovered
                                 /\ q.notcovered \cap (sq.covered \cup sq_live) = {}
                                 /\ r.buildable \subseteq q.buildable}
           F == HardFailed(r, ord, m.hard)
<1>2. /\ ord \in SetToSeqs(pending_migrations)
      /\ m \in MState /\ RoundsKeep(m) /\ pending_migrations' = m.pending
      /\ r \in SqState /\ Adds(m.sq, r, {t \in m.migrated : NoexecOrStamped(t)}, {})
      /\ sq' = [F EXCEPT !.need = @ \/ changed \/ m.migrated # {}]
      /\ pending_migrations \subseteq Setscene
  BY <1>1 DEF MigratesBy, QueueInv, TypeOK
<1>3. /\ m.migrated \cap (runq_running \cup sq_live \cup sq.covered) = {}
      /\ m.hard \subseteq m.migrated /\ m.migrated \subseteq Setscene
      /\ m.migrated \subseteq pending_migrations /\ m.pending \subseteq pending_migrations
  BY <1>2 DEF RoundsKeep, SceneInv, PendingFree
<1>4. {t \in m.migrated : NoexecOrStamped(t)} = {}
  <2> SUFFICES ASSUME NEW t \in m.migrated PROVE ~NoexecOrStamped(t)
    OBVIOUS
  <2>1. t \in Tasks /\ t \notin Noexec
    BY <1>3, SetsceneAssumption DEF SceneInv, NoexecCovered
  <2>2. stamp[t] = 0 /\ sstamp[t] = 0
    BY <1>3 DEF SceneInv, PendingFree
  <2>3. QED
    BY <2>1, <2>2, NoStampNoSkip
<1>5. /\ r.covered = sq.covered /\ r.notcovered = sq.notcovered \ m.migrated
      /\ sq.buildable \ m.migrated \subseteq r.buildable
  BY <1>2, <1>3, <1>4 DEF RoundsKeep, Adds
<1>6. r \in M
  BY <1>2, <1>5 DEF SceneInv, CoveredOrNot, LiveRight, Processed
<1>7. ASSUME NEW q \in M, NEW t \in m.hard \cap Setscene PROVE sq_task_failoutright(q, t) \in M
  <2> DEFINE p == sq_task_failoutright(q, t)
  <2>1. q \in SqState /\ t \notin q.covered \cup sq_live
    BY <1>3
  <2>2. PICK G \in SUBSET Setscene :
           /\ Adds(q, p, {}, G)
           /\ \A d \in G \ {t} : d \notin Processed(q) /\ ~(SetsceneDepends[d] \subseteq q.covered)
    BY <2>1, FailOutrightAdds
  <2>3. p \in SqState
    BY <2>1, FailOutrightGrows DEF Grows
  <2> HIDE DEF p
  <2>4. G \cap (sq.covered \cup sq_live) = {}
    BY <2>1, <2>2 DEF SceneInv, LiveRight, Processed
  <2>5. p \in M
    BY <2>2, <2>3, <2>4 DEF Adds
  <2>6. QED
    BY <2>5 DEF p
<1> HIDE DEF M
<1>8. F \in M
  BY <1>2, <1>6, <1>7, HardFailedKeeps
<1> HIDE DEF F
<1>9. /\ sq.covered' = sq.covered /\ sq.notcovered \ m.migrated \subseteq sq.notcovered'
      /\ sq.notcovered' \cap (sq.covered \cup sq_live) = {}
      /\ sq.buildable \ m.migrated \subseteq sq.buildable'
  BY <1>2, <1>5, <1>8 DEF M, SqState
<1>10. UNCHANGED <<runq_buildable, runq_running, runq_complete, runq_tasksrun, sq_live,
                   workerVars>>
  BY DEF MigratePending
<1>11. RealLive' = RealLive /\ RealLive \subseteq runq_running
  BY <1>10 DEF RealLive, Live, workerVars, Inv, WorkersStarted
<1>12. CoveredOrNot'
  BY <1>9 DEF CoveredOrNot
<1>13. LiveRight'
  BY <1>3, <1>9, <1>10 DEF SceneInv, LiveRight, Processed
<1>14. PendingFree'
  BY <1>2, <1>3, <1>9, <1>10 DEF SceneInv, PendingFree, workerVars
<1>15. RealLive' \cap Setscene \subseteq sq.notcovered'
  BY <1>3, <1>9, <1>11 DEF SceneInv, BuiltRejected
<1>16. SkippedRight'
  BY <1>9, <1>10 DEF SceneInv, SkippedRight, Skipped
<1>17. QED
  BY <1>9, <1>10, <1>11, <1>12, <1>13, <1>14, <1>15, <1>16, SceneStep

\* A task that is taken from the scheduler to be built is needed, and if it is a
\* setscene task it has been rejected.
LEMMA BuiltNeeded ==
  ASSUME Inv, QueueInv, SceneInv, NEW t \in Tasks, NextTask(t), t \notin tasks_covered
  PROVE  /\ t \in NotCovered
         /\ t \in Setscene => t \in sq.notcovered
         /\ \A d \in depends[t] : d \in runq_tasksrun \/ (d \in Setscene /\ d \in sq.covered)
<1>1. ~sq.need /\ t \in tasks_covered \cup tasks_notcovered
  BY NextTaskFree DEF NextTask, Schedulable
<1>2. t \in NotCovered
  BY <1>1 DEF QueueInv, DecisionsKept
<1>3. sq.notcovered \subseteq Setscene
  BY DEF QueueInv, TypeOK, SqState
<1>4. t \in Setscene => t \in sq.notcovered
  BY <1>2, <1>3, SceneQueueData DEF NotCovered, cantskip
<1>5. ASSUME NEW d \in depends[t], d \notin runq_tasksrun PROVE d \in Setscene /\ d \in sq.covered
  <2>1. d \in Skipped /\ d \in Tasks
    BY <1>5, NextTaskReady, DependsAssumption DEF Inv, Skipped
  <2>2. d \in Setscene => d \in sq.covered
    BY <2>1 DEF SceneInv, SkippedRight
  <2>3. ASSUME d \notin Setscene, NEW x \in sq.notcovered,
               t = x \/ t \in sq_covered_tasks[x]
        PROVE  FALSE
    <3>1. d \in Below[x]
      <4>1. CASE t = x
        <5>1. d \in BelowOf(Below, t)
          BY BelowMember
        <5>2. QED
          BY <4>1, <5>1, BelowEquation
      <4>2. CASE t # x
        <5>1. t \in Below[x] \ Setscene /\ x \in Tasks
          BY <1>3, <2>3, <4>2, SetsceneAssumption DEF sq_covered_tasks
        <5>2. QED
          BY <5>1, BelowBelow
      <4>3. QED
        BY <4>1, <4>2
    <3>2. d \in sq_covered_tasks[x]
      BY <1>3, <2>3, <3>1 DEF sq_covered_tasks
    <3>3. x \in sq.covered
      BY <1>3, <2>1, <3>2 DEF QueueInv, SkippedCovered
    <3>4. QED
      BY <3>3 DEF SceneInv, CoveredOrNot
  <2>4. ASSUME d \notin Setscene, t \in unskippable \ Setscene PROVE FALSE
    <3>1. d \in unskippable
      BY <2>4, UnskippableClosed
    <3>2. QED
      BY <2>1, <2>4, <3>1 DEF SceneInv, SkippedRight
  <2>5. cantskip \subseteq unskippable \ Setscene
    BY DEF cantskip, unskippable
  <2>6. \/ t \in unskippable \ Setscene
        \/ \E x \in sq.notcovered : t = x \/ t \in sq_covered_tasks[x]
    BY <1>2, <2>5 DEF NotCovered
  <2>7. QED
    BY <2>2, <2>3, <2>4, <2>6
<1>6. QED
  BY <1>2, <1>4, <1>5

\* Steps that leave the scene queue alone.
LEMMA SceneQuiet ==
  ASSUME SceneInv, sq.covered' = sq.covered, sq.notcovered' = sq.notcovered,
         sq.buildable' = sq.buildable, sq_live' = sq_live, runq_running' = runq_running,
         Skipped' \subseteq Skipped, RealLive' \subseteq RealLive,
         runq_tasksrun \subseteq runq_tasksrun', PendingFree'
  PROVE  SceneInv'
<1>1. CoveredOrNot' /\ LiveRight' /\ SkippedRight'
  BY DEF SceneInv, CoveredOrNot, LiveRight, Processed, SkippedRight
<1>2. RealLive' \cap Setscene \subseteq sq.notcovered'
  BY DEF SceneInv, BuiltRejected
<1>3. QED
  BY <1>1, <1>2, SceneStep

\* The workers' messages, and the processes themselves.
LEMMA WorkerScene ==
  ASSUME Inv, QueueInv, SceneInv, NoDeferral, NEW t \in Tasks,
         WorkerExit(t) \/ ReadWorker(t) \/ \E h \in Hashes : WorkerUniHash(t, h)
  PROVE  SceneInv'
<1>0. TypeOK /\ sq \in SqState /\ Marked(sq) /\ sq_live \subseteq Setscene
  BY DEF QueueInv, TypeOK
<1>1. CASE WorkerExit(t)
  <2>1. t \in sq_live \cup runq_running
    BY <1>1 DEF WorkerExit, Inv, WorkersStarted
  <2>2. /\ \A d \in Tasks \ {t} : stamp'[d] = stamp[d] /\ sstamp'[d] = sstamp[d]
        /\ UNCHANGED <<runqVars, sqVars, hashVars>>
    BY <1>0, <1>1 DEF WorkerExit, ExitOk, ExitFail, TypeOK
  <2>3. RealLive' \subseteq RealLive
    BY <1>0, <1>1, <2>2 DEF WorkerExit, ExitOk, ExitFail, RealLive, Live, TypeOK, sqVars
  <2>4. PendingFree'
    <3>1. pending_migrations \subseteq Tasks
      BY <1>0, SetsceneAssumption DEF TypeOK
    <3>2. QED
      BY <2>1, <2>2, <3>1 DEF SceneInv, PendingFree, runqVars, sqVars, hashVars
  <2>5. QED
    BY <2>2, <2>3, <2>4, SceneQuiet DEF runqVars, sqVars, Skipped
<1>2. CASE TaskComplete(t)
  <2>1. sq' = sq /\ runq_complete' = runq_complete \cup {t}
    BY <1>2, CompletionApart DEF TaskComplete
  <2>2. /\ runq_tasksrun' = runq_tasksrun \cup {t}
        /\ UNCHANGED <<runq_running, sq_live, hashVars, stamp, sstamp>>
        /\ RealLive' \subseteq RealLive
    BY <1>0, <1>2 DEF TaskComplete, RealLive, Live, TypeOK
  <2>3. PendingFree'
    BY <2>1, <2>2 DEF SceneInv, PendingFree, hashVars
  <2>4. QED
    BY <2>1, <2>2, <2>3, SceneQuiet DEF Skipped
<1>3. CASE TaskFail(t)
  <2>1. /\ UNCHANGED <<runq_running, runq_complete, runq_tasksrun, sqVars, hashVars, stamp, sstamp>>
        /\ RealLive' \subseteq RealLive
    BY <1>0, <1>3 DEF TaskFail, RealLive, Live, TypeOK, sqVars
  <2>2. PendingFree'
    BY <2>1 DEF SceneInv, PendingFree, hashVars, sqVars
  <2>3. QED
    BY <2>1, <2>2, SceneQuiet DEF sqVars, Skipped
<1>4. CASE SetsceneComplete(t)
  <2>1. t \in sq_live /\ t \in sq.running /\ t \in sq.buildable /\ t \notin sq.notcovered
        /\ t \notin pending_migrations
    BY <1>0, <1>4 DEF SetsceneComplete, Marked, SceneInv, LiveRight, PendingFree, Processed
  <2>2. Adds(sq, sq', {t}, {})
    BY <1>0, <1>4, <2>1, CompleteAdds DEF SetsceneComplete
  <2>3. /\ sq.covered' = sq.covered \cup {t} /\ sq.notcovered' = sq.notcovered
        /\ sq.buildable \subseteq sq.buildable'
    BY <2>2 DEF Adds
  <2>4. /\ UNCHANGED <<runqVars, hashVars, stamp, sstamp>> /\ sq_live' = sq_live \ {t}
        /\ RealLive' \subseteq RealLive
    BY <1>0, <1>4 DEF SetsceneComplete, RealLive, Live, TypeOK
  <2>5. CoveredOrNot' /\ LiveRight' /\ PendingFree'
    BY <2>1, <2>3, <2>4
       DEF SceneInv, CoveredOrNot, LiveRight, PendingFree, Processed, runqVars, hashVars
  <2>6. RealLive' \cap Setscene \subseteq sq.notcovered' /\ SkippedRight'
    BY <2>3, <2>4 DEF SceneInv, BuiltRejected, SkippedRight, Skipped, runqVars
  <2>7. QED
    BY <2>3, <2>4, <2>5, <2>6, SceneStep DEF runqVars
<1>5. CASE SetsceneFail(t)
  <2>1. t \in sq_live /\ t \in sq.running /\ t \in sq.buildable /\ t \notin sq.covered
    BY <1>0, <1>5 DEF SetsceneFail, Marked, SceneInv, LiveRight, Processed
  <2> DEFINE F == FailedWith(sq, t)
  <2>2. Adds(sq, sq', {}, F)
    BY <1>0, <1>5, <2>1, FailAdds DEF SetsceneFail
  <2>a. F \cap sq.covered = {} /\ F \cap sq_live \subseteq {t}
    BY <1>0, <2>1, FailedApart DEF SceneInv
  <2> HIDE DEF F
  <2>3. /\ sq.covered' = sq.covered /\ sq.notcovered' = sq.notcovered \cup F
        /\ sq.buildable \subseteq sq.buildable'
    BY <2>2 DEF Adds
  <2>4. /\ UNCHANGED <<runqVars, hashVars, stamp, sstamp>> /\ sq_live' = sq_live \ {t}
        /\ RealLive' \subseteq RealLive
    BY <1>0, <1>5 DEF SetsceneFail, RealLive, Live, TypeOK
  <2>5. CoveredOrNot' /\ LiveRight' /\ PendingFree'
    BY <2>1, <2>a, <2>3, <2>4
       DEF SceneInv, CoveredOrNot, LiveRight, PendingFree, Processed, runqVars, hashVars
  <2>6. RealLive' \cap Setscene \subseteq sq.notcovered' /\ SkippedRight'
    BY <2>3, <2>4 DEF SceneInv, BuiltRejected, SkippedRight, Skipped, runqVars
  <2>7. QED
    BY <2>3, <2>4, <2>5, <2>6, SceneStep DEF runqVars
<1>6. CASE \E h \in Hashes : WorkerUniHash(t, h)
  <2>1. UNCHANGED <<runqVars, sqVars, pending_migrations, worker, stamp, sstamp>>
    BY <1>6 DEF WorkerUniHash
  <2>2. PendingFree' /\ RealLive' = RealLive
    BY <2>1 DEF SceneInv, PendingFree, RealLive, Live, runqVars, sqVars
  <2>3. QED
    BY <2>1, <2>2, SceneQuiet DEF runqVars, sqVars, Skipped
<1>7. QED
  BY <1>1, <1>2, <1>3, <1>4, <1>5, <1>6 DEF ReadWorker

\* The reports are applied: what is rehashed has no stamps any more and was neither
\* covered nor live.
LEMMA HashesMoved ==
  ASSUME ProcessTaskHashes
  PROVE  \E moved \in SUBSET Tasks :
           /\ moved \cap Remapped = {} /\ pending_migrations' = pending_migrations \cup (moved \cap Setscene)
           /\ \A t \in moved : stamp'[t] = 0 /\ sstamp'[t] = 0
           /\ \A t \in Tasks : stamp'[t] \in {0, stamp[t]} /\ sstamp'[t] \in {0, sstamp[t]}
<1> DEFINE ready == ReadyReports
           uni1  == Reported(ready)
           first == {t \in Tasks : uni1[t] # unihash[t]}
           total == UNION {Above[t] : t \in first}
           twins == {t \in first : ~\E x \in ready : x[1] = t}
           Moved(new) == {t \in total : new[t] # uni1[t]} \ Remapped
<1>1. PICK new \in [total -> Hashes] :
        LET moved == Moved(new)
        IN  /\ pending_migrations' = pending_migrations \cup (moved \cap Setscene)
            /\ stamp' = [t \in Tasks |-> IF t \in moved \cup twins THEN 0 ELSE stamp[t]]
            /\ sstamp' = [t \in Tasks |-> IF t \in moved \cup first THEN 0 ELSE sstamp[t]]
  BY DEF ProcessTaskHashes
<1> DEFINE M == Moved(new) \cap Tasks
<1>2. M \in SUBSET Tasks /\ M \cap Remapped = {}
  OBVIOUS
<1>3. Moved(new) \cap Setscene = M \cap Setscene
  BY SetsceneAssumption
<1> HIDE DEF first, twins, total
<1>4. /\ \A t \in M : stamp'[t] = 0 /\ sstamp'[t] = 0
      /\ \A t \in Tasks : stamp'[t] \in {0, stamp[t]} /\ sstamp'[t] \in {0, sstamp[t]}
  BY <1>1
<1>5. QED
  BY <1>1, <1>2, <1>3, <1>4

LEMMA HashesScene ==
  ASSUME TypeOK, SceneInv, ProcessTaskHashes
  PROVE  SceneInv'
<1>1. PICK moved \in SUBSET Tasks :
           /\ moved \cap Remapped = {} /\ pending_migrations' = pending_migrations \cup (moved \cap Setscene)
           /\ \A t \in moved : stamp'[t] = 0 /\ sstamp'[t] = 0
           /\ \A t \in Tasks : stamp'[t] \in {0, stamp[t]} /\ sstamp'[t] \in {0, sstamp[t]}
  BY HashesMoved
<1>2. UNCHANGED <<runqVars, sqVars, worker>>
  BY DEF ProcessTaskHashes
<1>3. PendingFree'
  <2> SUFFICES ASSUME NEW t \in pending_migrations'
               PROVE  /\ t \notin sq.covered' \cup sq_live'
                      /\ t \in runq_running' \/ (stamp'[t] = 0 /\ sstamp'[t] = 0)
    BY DEF PendingFree
  <2>1. CASE t \in moved
    BY <1>1, <1>2, <2>1 DEF Remapped, sqVars
  <2>2. CASE t \notin moved
    <3>1. t \in pending_migrations /\ t \in Tasks
      BY <1>1, <2>2, SetsceneAssumption DEF TypeOK
    <3>2. QED
      BY <1>1, <1>2, <3>1 DEF SceneInv, PendingFree, runqVars, sqVars
  <2>3. QED
    BY <2>1, <2>2
<1>4. QED
  BY <1>2, <1>3, SceneQuiet DEF runqVars, sqVars, Skipped, RealLive, Live

\* The part that handles the setscene queue: what is started may start.
LEMMA SceneQueueScene ==
  ASSUME Inv, QueueInv, SceneInv, NEW t \in Setscene,
         SetsceneSkip(t) \/ SetsceneFailOutright(t) \/ SetsceneStart(t),
         \A x \in Setscene : x \in sq_live' \ sq_live => SetsceneDepends[x] \subseteq sq.covered
  PROVE  SceneInv'
<1>0. TypeOK /\ sq \in SqState /\ Marked(sq) /\ sq_live \subseteq Setscene
  BY DEF QueueInv, TypeOK
<1>1. NextSetscene(t) /\ pc = "setscene"
  BY DEF SetsceneSkip, SetsceneFailOutright, SetsceneStart, NextSetscene
<1>2. t \in Open /\ t \notin sq.running
  BY <1>1, NextSetsceneOpen
<1>3. /\ t \notin sq.covered /\ t \notin sq.notcovered /\ t \notin sq_live
      /\ t \notin runq_running /\ t \notin pending_migrations
  BY <1>0, <1>1, <1>2 DEF Open, Processed, Marked, QueueInv, OpenIsQuiet, PendingRejected
<1>4. CASE SetsceneSkip(t)
  <2> DEFINE r == sq_task_skip(sq, {t})
             more == {x \in {t} : Skippable(x)}
  <2>1. sq' = [r EXCEPT !.notneeded = @ \cup more]
    BY <1>4 DEF SetsceneSkip
  <2>2. Grows(sq, r) /\ Adds(sq, r, {t}, {})
    BY <1>0, SkipGrows, SkipAdds
  <2> HIDE DEF r, more
  <2>3. /\ sq.covered' = sq.covered \cup {t} /\ sq.notcovered' = sq.notcovered
        /\ sq.buildable \subseteq sq.buildable'
    BY <2>1, <2>2 DEF Adds, Grows, SqState
  <2>4. UNCHANGED <<runqVars, sq_live, hashVars, workerVars>>
    BY <1>4 DEF SetsceneSkip
  <2>5. CoveredOrNot' /\ LiveRight' /\ PendingFree'
    BY <1>3, <2>3, <2>4
       DEF SceneInv, CoveredOrNot, LiveRight, PendingFree, Processed, runqVars, hashVars, workerVars
  <2>6. RealLive' = RealLive /\ SkippedRight'
    BY <2>3, <2>4 DEF SceneInv, SkippedRight, Skipped, runqVars, workerVars, RealLive, Live
  <2>7. RealLive' \cap Setscene \subseteq sq.notcovered'
    BY <2>3, <2>6 DEF SceneInv, BuiltRejected
  <2>8. QED
    BY <2>3, <2>4, <2>5, <2>6, <2>7, SceneStep DEF runqVars
<1>5. CASE SetsceneFailOutright(t)
  <2>1. PICK F \in SUBSET Setscene :
           /\ Adds(sq, sq', {}, F)
           /\ \A d \in F \ {t} : d \notin Processed(sq) /\ ~(SetsceneDepends[d] \subseteq sq.covered)
    BY <1>0, <1>3, <1>5, FailOutrightAdds DEF SetsceneFailOutright
  <2>2. F \cap (sq.covered \cup sq_live) = {}
    BY <1>3, <2>1 DEF SceneInv, LiveRight, Processed
  <2>3. /\ sq.covered' = sq.covered /\ sq.notcovered' = sq.notcovered \cup F
        /\ sq.buildable \subseteq sq.buildable'
    BY <2>1 DEF Adds
  <2>4. UNCHANGED <<runqVars, sq_live, hashVars, workerVars>>
    BY <1>5 DEF SetsceneFailOutright
  <2>5. CoveredOrNot' /\ LiveRight' /\ PendingFree'
    BY <2>2, <2>3, <2>4
       DEF SceneInv, CoveredOrNot, LiveRight, PendingFree, Processed, runqVars, hashVars, workerVars
  <2>6. RealLive' = RealLive /\ SkippedRight'
    BY <2>3, <2>4 DEF SceneInv, SkippedRight, Skipped, runqVars, workerVars, RealLive, Live
  <2>7. RealLive' \cap Setscene \subseteq sq.notcovered'
    BY <2>3, <2>6 DEF SceneInv, BuiltRejected
  <2>8. QED
    BY <2>3, <2>4, <2>5, <2>6, <2>7, SceneStep DEF runqVars
<1>6. CASE SetsceneStart(t)
  <2>1. /\ sq' = [sq EXCEPT !.running = @ \cup {t}]
        /\ sq_live' = sq_live \cup {t} /\ worker' = [worker EXCEPT ![t] = "run"]
        /\ UNCHANGED <<runqVars, hashVars, stamp, sstamp>>
    BY <1>6 DEF SetsceneStart
  <2>2. sq.covered' = sq.covered /\ sq.notcovered' = sq.notcovered /\ sq.buildable' = sq.buildable
    BY <1>0, <2>1 DEF SqState
  <2>3. t \in sq.buildable
    <3>1. SetsceneChoice \subseteq sq.buildable \ sq.running /\ SetsceneChoice # {}
      BY <1>1 DEF NextSetscene, SetsceneChoice
    <3>2. SetsceneChoice \in SUBSET Nat
      BY <1>0, <3>1, TasksAssumption, SetsceneAssumption DEF SqState
    <3>3. \E x \in SetsceneChoice : \A y \in SetsceneChoice : x <= y
      BY <3>1, <3>2, Least
    <3>4. QED
      BY <1>1, <3>1, <3>3 DEF NextSetscene, Min
  <2>4. SetsceneDepends[t] \subseteq sq.covered
    BY <1>3, <2>1
  <2>5. CoveredOrNot' /\ PendingFree'
    BY <1>3, <2>1, <2>2 DEF SceneInv, CoveredOrNot, PendingFree, runqVars, hashVars
  <2>6. LiveRight'
    BY <1>3, <2>1, <2>2, <2>3, <2>4 DEF SceneInv, LiveRight, Processed, runqVars
  <2>7. RealLive' \subseteq RealLive
    BY <1>0, <2>1 DEF RealLive, Live, TypeOK
  <2>8. SkippedRight'
    BY <2>1, <2>2 DEF SceneInv, SkippedRight, Skipped, runqVars
  <2>9. RealLive' \cap Setscene \subseteq sq.notcovered'
    BY <2>2, <2>7 DEF SceneInv, BuiltRejected
  <2>10. QED
    BY <2>1, <2>2, <2>5, <2>6, <2>7, <2>8, <2>9, SceneStep DEF runqVars
<1>7. QED
  BY <1>4, <1>5, <1>6

\* The part that takes a real task from the scheduler.
LEMMA RealTaskScene ==
  ASSUME Inv, QueueInv, SceneInv, NoDeferral, NEW t \in Tasks,
         RefuseTask(t) \/ SkipTask(t) \/ NoexecTask(t) \/ StartTask(t) \/ FakerootSpawnFails(t)
  PROVE  SceneInv'
<1>0. TypeOK /\ sq \in SqState /\ Marked(sq) /\ sq_live \subseteq Setscene
  BY DEF QueueInv, TypeOK
<1>1. NextTask(t)
  BY DEF RefuseTask, SkipTask, NoexecTask, StartTask, FakerootSpawnFails
<1>2. /\ ~sq.need /\ t \notin runq_running \cup Open
      /\ t \in runq_buildable
  BY <1>1, NextTaskFree DEF NextTask, Schedulable
<1>3. t \notin sq_live
  BY <1>0, <1>2 DEF SceneInv, LiveRight, Open
<1>4. CASE RefuseTask(t) \/ FakerootSpawnFails(t)
  <2>1. UNCHANGED <<runq_running, runq_complete, runq_tasksrun, sqVars, hashVars, workerVars>>
    BY <1>4 DEF RefuseTask, FakerootSpawnFails
  <2>2. PendingFree' /\ RealLive' = RealLive
    BY <2>1 DEF SceneInv, PendingFree, RealLive, Live, hashVars, sqVars, workerVars
  <2>3. QED
    BY <2>1, <2>2, SceneQuiet DEF sqVars, Skipped
<1>5. CASE SkipTask(t) \/ NoexecTask(t)
  <2>1. /\ task_completeoutright(t) /\ runq_running' = runq_running \cup {t}
        /\ runq_tasksrun' = runq_tasksrun \cup (IF t \in tasks_covered THEN {} ELSE {t})
        /\ UNCHANGED <<sq_live, hashVars, worker>>
        /\ \A d \in Tasks \ {t} : stamp'[d] = stamp[d] /\ sstamp'[d] = sstamp[d]
    BY <1>0, <1>5 DEF SkipTask, NoexecTask, SkippedRan, MustRun, workerVars, TypeOK
  <2>2. sq' = sq /\ runq_complete' = runq_complete \cup {t}
    BY <2>1, CompletionApart
  <2>3. PendingFree'
    <3>1. pending_migrations \subseteq Tasks
      BY <1>0, SetsceneAssumption DEF TypeOK
    <3>2. QED
      BY <2>1, <2>2, <3>1 DEF SceneInv, PendingFree, hashVars
  <2>4. SkippedRight'
    <3>1. CASE t \notin tasks_covered
      BY <2>1, <2>2, <3>1 DEF SceneInv, SkippedRight, Skipped
    <3>2. CASE t \in tasks_covered
      <4>1. /\ t \in sq.done /\ t \notin NotCovered
            /\ t \in sq.covered \cup UNION {sq_covered_tasks[d] : d \in sq.covered}
        BY <1>2, <3>2 DEF QueueInv, DecisionsKept, Covered
      <4>2. t \notin unskippable \ Setscene
        BY <4>1 DEF NotCovered
      <4>3. t \in Setscene => t \in sq.covered
        BY <1>0, <4>1, SceneQueueData DEF SqState
      <4>4. Skipped' \subseteq Skipped \cup {t}
        BY <2>1, <2>2 DEF Skipped
      <4>5. QED
        BY <2>2, <4>2, <4>3, <4>4 DEF SceneInv, SkippedRight
    <3>3. QED
      BY <3>1, <3>2
  <2>5. RealLive' = RealLive /\ CoveredOrNot' /\ LiveRight'
    BY <1>3, <2>1, <2>2 DEF SceneInv, CoveredOrNot, LiveRight, Processed, RealLive, Live
  <2>6. RealLive' \cap Setscene \subseteq sq.notcovered'
    BY <2>2, <2>5 DEF SceneInv, BuiltRejected
  <2>7. QED
    BY <2>1, <2>2, <2>3, <2>4, <2>5, <2>6, SceneStep
<1>6. CASE StartTask(t)
  <2>1. /\ runq_running' = runq_running \cup {t} /\ worker' = [worker EXCEPT ![t] = "run"]
        /\ UNCHANGED <<runq_complete, runq_tasksrun, sqVars, hashVars, stamp, sstamp>>
        /\ t \notin tasks_covered
    BY <1>6 DEF StartTask, MustRun
  <2>2. RealLive' \subseteq RealLive \cup {t}
    BY <1>0, <2>1 DEF RealLive, Live, TypeOK, sqVars
  <2>3. /\ t \in Setscene => t \in sq.notcovered
        /\ \A d \in depends[t] : d \in runq_tasksrun \/ (d \in Setscene /\ d \in sq.covered)
    BY <1>1, <2>1, BuiltNeeded
  <2>4. CoveredOrNot' /\ LiveRight' /\ PendingFree'
    BY <1>3, <2>1 DEF SceneInv, CoveredOrNot, LiveRight, PendingFree, Processed, sqVars, hashVars
  <2>5. BuiltRejected' /\ RealInputs'
    BY <2>1, <2>2, <2>3 DEF SceneInv, BuiltRejected, RealInputs, sqVars
  <2>6. NoexecCovered' /\ SkippedRight'
    BY <2>1 DEF SceneInv, NoexecCovered, SkippedRight, Skipped, sqVars
  <2>7. QED
    BY <2>4, <2>5, <2>6 DEF SceneInv
<1>7. QED
  BY <1>4, <1>5, <1>6

LEMMA NextScene ==
  ASSUME Inv, QueueInv, SceneInv, NoDeferral, Next,
         \A t \in Setscene : t \in sq_live' \ sq_live => SetsceneDepends[t] \subseteq sq.covered
  PROVE  SceneInv'
<1>0. sq \in SqState
  BY DEF QueueInv, TypeOK
<1>1. ASSUME NEW t \in Tasks, WorkerExit(t) \/ ReadWorker(t) \/ \E h \in Hashes : WorkerUniHash(t, h)
      PROVE  SceneInv'
  BY <1>1, WorkerScene
<1>2. CASE ProcessTaskHashes
  BY <1>2, HashesScene DEF QueueInv
<1>3. CASE MigratePending
  BY <1>3, MigrationScene
<1>4. ASSUME NEW t \in Setscene, SetsceneSkip(t) \/ SetsceneFailOutright(t) \/ SetsceneStart(t)
      PROVE  SceneInv'
  BY <1>4, SceneQueueScene
<1>5. ASSUME NEW t \in Tasks,
             RefuseTask(t) \/ SkipTask(t) \/ NoexecTask(t) \/ StartTask(t) \/ FakerootSpawnFails(t)
      PROVE  SceneInv'
  BY <1>5, RealTaskScene
<1>6. CASE UpdateHoldoff
  <2>1. UNCHANGED <<runq_running, runq_complete, runq_tasksrun, sq_live, hashVars, workerVars>>
        /\ sq' = [sq EXCEPT !.need = FALSE]
    BY <1>6 DEF UpdateHoldoff
  <2>2. sq.covered' = sq.covered /\ sq.notcovered' = sq.notcovered /\ sq.buildable' = sq.buildable
    BY <1>0, <2>1 DEF SqState
  <2>3. PendingFree' /\ RealLive' = RealLive
    BY <2>1, <2>2 DEF SceneInv, PendingFree, RealLive, Live, hashVars, workerVars
  <2>4. QED
    BY <2>1, <2>2, <2>3, SceneQuiet DEF Skipped
<1>7. CASE UNCHANGED <<runqVars, sq, sq_live, hashVars, workerVars>>
  <2>1. PendingFree' /\ RealLive' = RealLive
    BY <1>7 DEF SceneInv, PendingFree, RealLive, Live, runqVars, hashVars, workerVars
  <2>2. QED
    BY <1>7, <2>1, SceneQuiet DEF runqVars, Skipped
<1>8. ~ForceDeferred
  BY DEF ForceDeferred, NoDeferral
<1>9. QED
  BY <1>1, <1>2, <1>3, <1>4, <1>5, <1>6, <1>7, <1>8
     DEF Next, Schedule, Execute, NothingToMigrate, NoSetscene, HoldoffCurrent,
         SceneQueueOpen, SceneQueueComplete, NoTask, WaitForWorkers, EndOfBuild, Finish,
         StopBuild, FinishNow, Terminated, vars, runqVars, sqVars, hashVars, workerVars

-----------------------------------------------------------------------------
(* Hard dependencies. *)

\* What hard-depends on a setscene task that is not available is
\* processed (but for the tasks H that still have to fail), and what may start has
\* what it hard-depends on.
HardRight(s, H) ==
  /\ \A x \in s.notcovered : sq_harddeps[x] \subseteq Processed(s) \cup H
  /\ \A d \in s.buildable \ (Processed(s) \cup H) : SetsceneDepends[d] \subseteq s.covered

\* A setscene task with hard dependencies has no stamps before it was built or unpacked.
HardStampless ==
  \A d \in Setscene : SetsceneDepends[d] # {} =>
    \/ d \in runq_running \cup sq.covered \/ (d \in sq_live /\ worker[d] = "ok")
    \/ stamp[d] = 0 /\ sstamp[d] = 0

HardInv == HardRight(sq, {}) /\ HardStampless

\* None has them when the build starts.
NoStampedHard == \A d \in Setscene : SetsceneDepends[d] # {} => d \notin Stamped

\* If what hard-depends on what has failed is processed as well, it stays right.
LEMMA HardAdds ==
  ASSUME NEW s \in SqState, NEW H, HardRight(s, H), NEW r \in SqState,
         NEW C \in SUBSET Setscene, NEW F \in SUBSET Setscene, Adds(s, r, C, F),
         \A x \in F : sq_harddeps[x] \subseteq Processed(r) \cup H
  PROVE  HardRight(r, H)
<1>1. r.covered = s.covered \cup C /\ r.notcovered = s.notcovered \cup F
  BY DEF Adds
<1>2. \A x \in r.notcovered : sq_harddeps[x] \subseteq Processed(r) \cup H
  BY <1>1 DEF HardRight, Processed
<1>3. ASSUME NEW d \in r.buildable \ (Processed(r) \cup H)
      PROVE  SetsceneDepends[d] \subseteq r.covered
  <2>1. CASE d \in s.buildable
    BY <1>1, <1>3, <2>1 DEF HardRight, Processed
  <2>2. CASE d \notin s.buildable
    <3>1. sq_revdeps[d] \subseteq Processed(r) /\ d \in Setscene
      BY <1>1, <1>3, <2>2 DEF Adds, Processed, SqState
    <3>2. SetsceneDepends[d] \subseteq Processed(r) /\ SetsceneDepends[d] \subseteq Setscene
      BY <3>1, SetsceneAssumption DEF sq_revdeps
    <3>3. SetsceneDepends[d] \cap r.notcovered = {}
      BY <1>2, <1>3, <3>1, <3>2 DEF sq_harddeps
    <3>4. QED
      BY <3>2, <3>3 DEF Processed
  <2>3. QED
    BY <2>1, <2>2
<1>4. QED
  BY <1>2, <1>3 DEF HardRight

\* A stamped task that hard-depends on one that is not covered was built.
LEMMA HardStamped ==
  ASSUME QueueInv, SceneInv, HardInv, NEW x \in Setscene \ sq.covered, NEW d \in sq_harddeps[x],
         NoexecOrStamped(d)
  PROVE  d \in sq.covered \cup runq_running
<1>1. d \in Setscene /\ d \in Tasks /\ x \in SetsceneDepends[d]
  BY SetsceneAssumption DEF sq_harddeps
<1>2. d \notin sq_live
  BY <1>1 DEF SceneInv, LiveRight
<1>3. CASE d \in Noexec
  BY <1>1, <1>3 DEF SceneInv, NoexecCovered
<1>4. CASE d \notin Noexec
  <2>1. ~(stamp[d] = 0 /\ sstamp[d] = 0)
    BY <1>1, <1>4, NoStampNoSkip
  <2>2. QED
    BY <1>1, <1>2, <2>1 DEF HardInv, HardStampless
<1>5. QED
  BY <1>3, <1>4

\* What fails, whole, leaves the bookkeeping of the queue right.
LEMMA HardFails ==
  ASSUME QueueInv, SceneInv, HardInv, NEW q \in SqState, NEW H, HardRight(q, H),
         q.covered = sq.covered, Processed(sq) \cap runq_running \subseteq Processed(q),
         NEW r \in SqState, NEW F \in SUBSET Setscene, Adds(q, r, {}, F),
         F \cap sq.covered = {}, FailsWhole(q, F)
  PROVE  HardRight(r, H)
<1>1. ASSUME NEW x \in F, NEW d \in sq_harddeps[x] PROVE d \in Processed(r)
  <2>1. d \in F \cup Processed(q) \/ NoexecOrStamped(d)
    BY DEF FailsWhole
  <2>2. F \cup Processed(q) \subseteq Processed(r)
    BY DEF Adds, Processed
  <2>3. ASSUME NoexecOrStamped(d) PROVE d \in Processed(q)
    <3>1. d \in sq.covered \cup runq_running
      BY <2>3, HardStamped
    <3>2. d \in Setscene
      BY DEF sq_harddeps
    <3>3. d \in runq_running => d \in Processed(sq)
      BY <3>2 DEF QueueInv, OpenIsQuiet, Open
    <3>4. QED
      BY <3>1, <3>3 DEF Processed
  <2>4. QED
    BY <2>1, <2>2, <2>3
<1>2. QED
  BY <1>1, HardAdds

LEMMA InitHard == NoStampedHard /\ Init => HardInv
<1> SUFFICES ASSUME NoStampedHard, Init PROVE HardInv
  OBVIOUS
<1> DEFINE s0 == [buildable |-> {t \in Setscene : sq_revdeps[t] = {}}, running |-> {},
                  covered |-> {}, notcovered |-> {}, notneeded |-> {}, outrightfail |-> {},
                  done |-> unskippable \ Setscene, need |-> TRUE]
           skip == {t \in Setscene : NoexecOrStamped(t)}
<1>0. \A t \in Setscene : SetsceneDepends[t] \subseteq sq_revdeps[t]
  BY DEF sq_revdeps
<1>1. s0 \in SqState /\ s0.covered = {} /\ s0.notcovered = {} /\ HardRight(s0, {})
  BY <1>0, SceneQueueData DEF SqState, HardRight
<1>2. sq = update_scenequeue_data(s0, Setscene, InitHash, InitDeferred)
  BY DEF Init, InitSq
<1> HIDE DEF s0
<1>3. Adds(s0, sq, skip, {}) /\ sq \in SqState
  BY <1>1, <1>2, UpdateDataAdds, UpdateDataGrows DEF Grows
<1>4. HardRight(sq, {})
  BY <1>1, <1>3, HardAdds
<1>5. sq.covered = skip
  BY <1>1, <1>3 DEF Adds
<1>6. HardStampless
  <2> SUFFICES ASSUME NEW d \in Setscene, SetsceneDepends[d] # {}, d \notin sq.covered
               PROVE  stamp[d] = 0 /\ sstamp[d] = 0
    BY DEF HardStampless
  <2>1. d \notin Noexec /\ d \in Tasks /\ d \notin Stamped
    BY <1>5, SetsceneAssumption DEF NoexecOrStamped, NoStampedHard
  <2>2. QED
    BY <2>1 DEF Init
<1>7. QED
  BY <1>4, <1>6 DEF HardInv

\* Steps that leave the bookkeeping alone and stamp only what is built or unpacked.
LEMMA HardQuiet ==
  ASSUME HardInv, runq_running \subseteq runq_running', sq.covered' = sq.covered,
         sq.notcovered' = sq.notcovered, sq.buildable' \subseteq sq.buildable, HardStampless'
  PROVE  HardInv'
<1>1. HardRight(sq, {})'
  BY DEF HardInv, HardRight, Processed
<1>2. QED
  BY <1>1 DEF HardInv

LEMMA StamplessStays ==
  ASSUME HardStampless, runq_running \subseteq runq_running', sq.covered \subseteq sq.covered',
         sq_live \subseteq sq_live', UNCHANGED <<worker, stamp, sstamp>>
  PROVE  HardStampless'
  BY DEF HardStampless

\* The setscene queue is whole: what the build needs and what is processed is done,
\* and with it whatever only that needs,
DoneRight(s) == DoneClosed(s.done) /\ (unskippable \ Setscene) \cup Processed(s) \subseteq s.done

\* what waits for nothing more is buildable (but for the tasks H that have to fail),
OpenReady(s, H) ==
  \A d \in Setscene \ (Processed(s) \cup H) :
    sq_revdeps[d] \subseteq Processed(s) => d \in s.buildable

\* and what is marked as running is processed or live (L).
OnlyMarked(s, L) == s.running \subseteq Processed(s) \cup L /\ Processed(s) \subseteq s.buildable

Whole(s, H, L) == DoneRight(s) /\ OpenReady(s, H) /\ OnlyMarked(s, L)

\* Processing setscene tasks keeps it whole, if what hard-depends on what has failed
\* is processed as well.
LEMMA WholeAdds ==
  ASSUME NEW s \in SqState, NEW r \in SqState, NEW H, NEW L, Whole(s, H, L),
         NEW C \in SUBSET Setscene, NEW F \in SUBSET Setscene, Adds(s, r, C, F), HardRight(r, H)
  PROVE  Whole(r, H, L)
<1>1. /\ Processed(r) = Processed(s) \cup C \cup F
      /\ r.running = s.running \cup C \cup F /\ s.buildable \cup C \cup F \subseteq r.buildable
      /\ s.done \in SUBSET Tasks /\ C \cup F \in SUBSET Tasks
  BY SetsceneAssumption DEF Adds, Processed, SqState
<1>2. s.done \cup C \cup F \subseteq r.done /\ DoneClosed(r.done)
  <2>1. DoneClosed(s.done)
    BY DEF Whole, DoneRight
  <2>2. QED
    BY <1>1, <2>1, SceneQueueDoneClosed DEF Adds
<1>3. DoneRight(r)
  BY <1>1, <1>2 DEF Whole, DoneRight
<1>4. OpenReady(r, H)
  <2> SUFFICES ASSUME NEW d \in Setscene \ (Processed(r) \cup H),
                      sq_revdeps[d] \subseteq Processed(r)
               PROVE  d \in r.buildable
    BY DEF OpenReady
  <2>1. CASE sq_revdeps[d] \subseteq Processed(s)
    BY <1>1, <2>1 DEF Whole, OpenReady
  <2>2. CASE ~(sq_revdeps[d] \subseteq Processed(s))
    <3>1. PICK x \in sq_revdeps[d] : x \in C \cup F
      BY <1>1, <2>2
    <3>2. d \in r.buildable \/ (x \in F /\ d \in sq_harddeps[x])
      BY <3>1 DEF Adds
    <3>3. x \in F => sq_harddeps[x] \subseteq Processed(r) \cup H
      BY DEF HardRight, Adds
    <3>4. QED
      BY <3>2, <3>3
  <2>3. QED
    BY <2>1, <2>2
<1>5. OnlyMarked(r, L)
  BY <1>1 DEF Whole, OnlyMarked
<1>6. QED
  BY <1>3, <1>4, <1>5 DEF Whole

\* So does taking back the migrated ones: what is no longer done is completed
\* neither itself nor by a task above it.
LEMMA MigratedWhole ==
  ASSUME Inv, QueueInv, NEW m \in MState, RoundsKeep(m), Whole(sq, {}, sq_live)
  PROVE  Whole(m.sq, m.hard, sq_live)
<1> DEFINE T == m.migrated
           s == m.sq
<1>1. /\ s.done = sq.done \ Undone(T) /\ s.running = sq.running \ T
      /\ Processed(s) = Processed(sq) \ T /\ sq.buildable \ T = s.buildable \ T
      /\ \A t \in T \ m.hard : sq_revdeps[t] \subseteq Processed(s) => t \in s.buildable
      /\ T \subseteq Setscene
  BY DEF RoundsKeep, MState, Processed
<1>2. \A t \in Setscene : sq_covered_tasks[t] = Below[t] \ Setscene
  BY DEF sq_covered_tasks
<1> HIDE DEF T, s
<1>3. Undone(T) \cap Setscene \subseteq T /\ Undone(T) \cap (unskippable \ Setscene) = {}
  BY <1>1, <1>2 DEF Undone
<1>4. DoneRight(s)
  <2>1. (unskippable \ Setscene) \cup Processed(s) \subseteq s.done
    <3>1. (unskippable \ Setscene) \cup Processed(sq) \subseteq sq.done
      BY DEF Whole, DoneRight
    <3>2. Processed(sq) \subseteq Setscene
      BY DEF Processed, QueueInv, TypeOK, SqState
    <3>3. QED
      BY <1>1, <1>3, <3>1, <3>2
  <2>2. ASSUME NEW d \in Tasks \ Setscene, revdeps[d] # {}, revdeps[d] \subseteq s.done
        PROVE  d \in s.done
    <3>1. d \in sq.done
      BY <1>1, <2>2 DEF Whole, DoneRight, DoneClosed
    <3>2. SUFFICES ASSUME d \in Undone(T) PROVE FALSE
      BY <1>1, <3>1
    <3>3. PICK t \in T : d \in Below[t]
      BY <1>1, <1>2, <2>2, <3>2 DEF Undone
    <3>4. t \in Tasks /\ t \in Setscene /\ d \notin runq_complete \cup unskippable
      BY <1>1, <2>2, <3>2, <3>3, SetsceneAssumption DEF Undone
    <3>5. PICK r \in revdeps[d] : r = t \/ r \in Below[t] \ Setscene
      BY <3>3, <3>4, BelowNeeded
    <3>6. r \notin Undone(T) /\ d \in depends[r] /\ r \in Tasks
      BY <1>1, <2>2, <3>5 DEF revdeps
    <3>7. r # t
      BY <3>3, <3>6 DEF Undone
    <3>8. r \in runq_complete \cup unskippable /\ r \notin Setscene
      BY <1>2, <3>3, <3>4, <3>5, <3>6, <3>7 DEF Undone
    <3>9. CASE r \in runq_complete
      BY <3>4, <3>6, <3>9 DEF Inv, DependencyOrder, QueueInv, StartedFirst
    <3>10. CASE r \in unskippable
      BY <3>4, <3>6, <3>8, <3>10, UnskippableClosed
    <3>11. QED
      BY <3>8, <3>9, <3>10
  <2>3. QED
    BY <2>1, <2>2 DEF DoneRight, DoneClosed
<1>5. OpenReady(s, m.hard)
  <2> SUFFICES ASSUME NEW d \in Setscene \ (Processed(s) \cup m.hard),
                      sq_revdeps[d] \subseteq Processed(s)
               PROVE  d \in s.buildable
    BY DEF OpenReady
  <2>1. CASE d \in T
    BY <1>1, <2>1
  <2>2. CASE d \notin T
    <3>1. d \in sq.buildable
      BY <1>1, <2>2 DEF Whole, OpenReady
    <3>2. QED
      BY <1>1, <2>2, <3>1
  <2>3. QED
    BY <2>1, <2>2
<1>6. OnlyMarked(s, sq_live)
  BY <1>1 DEF Whole, OnlyMarked
<1>7. QED
  BY <1>4, <1>5, <1>6 DEF Whole, s

\* A migration: what it takes back while something it hard-depends on is not available
\* fails again, so that the setscene queue stays right and whole.
LEMMA MigrationHard ==
  ASSUME Inv, QueueInv, SceneInv, HardInv, MigratePending
  PROVE  HardInv' /\ (Whole(sq, {}, sq_live) => Whole(sq', {}, sq_live))
<1>1. PICK m, r, ord : MigratesBy(m, r, ord)
  BY MigrationSteps
<1> DEFINE H == m.hard
           M == {q \in SqState : /\ q.covered = sq.covered /\ HardRight(q, H)
                                 /\ q.notcovered \cap (sq.covered \cup sq_live) = {}
                                 /\ Processed(sq) \cap runq_running \subseteq Processed(q)
                                 /\ Whole(sq, {}, sq_live) => Whole(q, H, sq_live)}
           F == HardFailed(r, ord, H)
<1>2. /\ ord \in SetToSeqs(pending_migrations)
      /\ m \in MState /\ RoundsKeep(m) /\ pending_migrations' = m.pending
      /\ r \in SqState /\ Adds(m.sq, r, {t \in m.migrated : NoexecOrStamped(t)}, {})
      /\ sq' = [F EXCEPT !.need = @ \/ changed \/ m.migrated # {}]
      /\ pending_migrations \subseteq Setscene
  BY <1>1 DEF MigratesBy, QueueInv, TypeOK
<1>3. /\ m.migrated \cap (runq_running \cup sq_live \cup sq.covered) = {}
      /\ H \subseteq m.migrated /\ m.migrated \subseteq Setscene
      /\ m.migrated \subseteq pending_migrations
  BY <1>2 DEF RoundsKeep, SceneInv, PendingFree
<1>4. {t \in m.migrated : NoexecOrStamped(t)} = {}
  <2> SUFFICES ASSUME NEW t \in m.migrated PROVE ~NoexecOrStamped(t)
    OBVIOUS
  <2>1. t \in Tasks /\ t \notin Noexec
    BY <1>3, SetsceneAssumption DEF SceneInv, NoexecCovered
  <2>2. stamp[t] = 0 /\ sstamp[t] = 0
    BY <1>3 DEF SceneInv, PendingFree
  <2>3. QED
    BY <2>1, <2>2, NoStampNoSkip
<1>5. /\ m.sq \in SqState /\ m.sq.covered = sq.covered
      /\ m.sq.notcovered = sq.notcovered \ m.migrated
      /\ r.covered = sq.covered /\ r.notcovered = sq.notcovered \ m.migrated
      /\ Adds(m.sq, r, {}, {})
  BY <1>2, <1>3, <1>4 DEF RoundsKeep, Adds, MState
<1>6. HardRight(m.sq, H)
  <2>1. ASSUME NEW x \in m.sq.notcovered, NEW d \in sq_harddeps[x]
        PROVE  d \in Processed(m.sq) \cup H
    <3>1. d \in Processed(sq)
      BY <1>5 DEF HardInv, HardRight
    <3>2. d \in m.migrated => d \in H
      BY <1>2 DEF RoundsKeep, HardDepFail
    <3>3. QED
      BY <1>5, <3>1, <3>2 DEF Processed
  <2>2. ASSUME NEW d \in m.sq.buildable \ (Processed(m.sq) \cup H)
        PROVE  SetsceneDepends[d] \subseteq m.sq.covered
    <3>1. CASE d \in m.migrated
      BY <1>2, <1>5, <3>1 DEF RoundsKeep
    <3>2. CASE d \notin m.migrated
      <4>1. d \in sq.buildable /\ d \notin Processed(sq)
        BY <1>2, <1>5, <2>2, <3>2 DEF RoundsKeep, Processed
      <4>2. QED
        BY <1>5, <4>1 DEF HardInv, HardRight
    <3>3. QED
      BY <3>1, <3>2
  <2>3. QED
    BY <2>1, <2>2 DEF HardRight
<1>7. HardRight(r, H)
  BY <1>2, <1>5, <1>6, HardAdds
<1>a. Whole(sq, {}, sq_live) => Whole(r, H, sq_live)
  <2> SUFFICES ASSUME Whole(sq, {}, sq_live) PROVE Whole(r, H, sq_live)
    OBVIOUS
  <2>1. Whole(m.sq, H, sq_live)
    BY <1>2, MigratedWhole
  <2>2. QED
    BY <1>2, <1>5, <1>7, <2>1, WholeAdds
<1>8. r \in M
  BY <1>2, <1>3, <1>5, <1>7, <1>a DEF SceneInv, CoveredOrNot, LiveRight, Processed
<1>9. ASSUME NEW q \in M, NEW t \in H \cap Setscene PROVE sq_task_failoutright(q, t) \in M
  <2> DEFINE p == sq_task_failoutright(q, t)
  <2>1. q \in SqState /\ t \notin q.covered \cup sq_live
    BY <1>3
  <2>2. PICK G \in SUBSET Setscene :
           /\ Adds(q, p, {}, G)
           /\ \A d \in G \ {t} : d \notin Processed(q) /\ ~(SetsceneDepends[d] \subseteq q.covered)
           /\ FailsWhole(q, G)
    BY <2>1, FailOutrightAdds
  <2>3. p \in SqState
    BY <2>1, FailOutrightGrows DEF Grows
  <2> HIDE DEF p
  <2>4. G \cap (sq.covered \cup sq_live) = {}
    BY <2>1, <2>2 DEF SceneInv, LiveRight, Processed
  <2>5. HardRight(p, H)
    BY <2>2, <2>3, <2>4, HardFails
  <2>a. Whole(sq, {}, sq_live) => Whole(p, H, sq_live)
    BY <2>1, <2>2, <2>3, <2>5, WholeAdds
  <2>6. p \in M
    BY <2>2, <2>3, <2>4, <2>5, <2>a DEF Adds, Processed
  <2>7. QED
    BY <2>6 DEF p
<1> HIDE DEF M
<1>10. F \in M
  BY <1>2, <1>8, <1>9, HardFailedKeeps
<1>11. H \subseteq Processed(F)
  <2> SUFFICES ASSUME NEW t \in H PROVE F \in {q \in SqState : t \in q.notcovered}
    BY DEF Processed
  <2> DEFINE T == {q \in SqState : t \in q.notcovered}
  <2>1. \A q \in M : q \in SqState /\ q.covered = sq.covered
    BY DEF M
  <2>2. t \in Setscene /\ t \in pending_migrations /\ t \notin sq.covered
    BY <1>3
  <2>3. ASSUME NEW q \in M PROVE sq_task_failoutright(q, t) \in T
    <3>1. \E G \in SUBSET Setscene : Adds(q, sq_task_failoutright(q, t), {}, G) /\ t \in G
      BY <2>1, <2>2, FailOutrightAdds
    <3>2. sq_task_failoutright(q, t) \in SqState
      BY <2>1, <2>2, FailOutrightGrows DEF Grows
    <3>3. QED
      BY <3>1, <3>2 DEF Adds
  <2>4. ASSUME NEW q \in M \cap T, NEW x \in H \cap Setscene PROVE sq_task_failoutright(q, x) \in T
    <3>1. \E G \in SUBSET Setscene : Adds(q, sq_task_failoutright(q, x), {}, G)
      BY <1>3, <2>1, FailOutrightAdds
    <3>2. sq_task_failoutright(q, x) \in SqState
      BY <2>1, FailOutrightGrows DEF Grows
    <3>3. QED
      BY <3>1, <3>2 DEF Adds
  <2> HIDE DEF T
  <2>5. F \in T
    BY <1>2, <1>8, <1>9, <2>2, <2>3, <2>4, HardFailedReaches
  <2>6. QED
    BY <2>5 DEF T
<1> HIDE DEF F
<1>12. HardRight(F, {})
  BY <1>10, <1>11 DEF M, HardRight
<1>13. /\ sq' \in SqState /\ sq.covered' = F.covered /\ sq.notcovered' = F.notcovered
       /\ sq.buildable' = F.buildable /\ sq.done' = F.done /\ sq.running' = F.running
  BY <1>2, <1>10 DEF M, SqState
<1>14. HardRight(sq', {})
  BY <1>12, <1>13 DEF HardRight, Processed
<1>15. HardStampless'
  BY <1>10, <1>13, StamplessStays DEF MigratePending, workerVars, HardInv, M
<1>16. Whole(sq, {}, sq_live) => Whole(sq', {}, sq_live)
  <2>1. Whole(F, H, sq_live) => Whole(F, {}, sq_live)
    BY <1>11 DEF Whole, OpenReady
  <2>2. Whole(F, {}, sq_live) => Whole(sq', {}, sq_live)
    BY <1>13 DEF Whole, DoneRight, OpenReady, OnlyMarked, Processed
  <2>3. QED
    BY <1>10, <2>1, <2>2 DEF M
<1>17. QED
  BY <1>14, <1>15, <1>16 DEF HardInv, HardRight, Processed

LEMMA WorkerHard ==
  ASSUME Inv, QueueInv, SceneInv, HardInv, NoDeferral, NEW t \in Tasks,
         WorkerExit(t) \/ ReadWorker(t) \/ \E h \in Hashes : WorkerUniHash(t, h)
  PROVE  HardInv'
<1>0. TypeOK /\ sq \in SqState /\ Marked(sq) /\ sq_live \subseteq Setscene /\ Setscene \subseteq Tasks
  BY SetsceneAssumption DEF QueueInv, TypeOK
<1>1. CASE WorkerExit(t)
  <2>1. t \in sq_live \cup runq_running
    BY <1>1 DEF WorkerExit, Inv, WorkersStarted
  <2>2. UNCHANGED <<runqVars, sqVars>>
    BY <1>1 DEF WorkerExit
  <2>3. /\ \A d \in Tasks \ {t} : stamp'[d] = stamp[d] /\ sstamp'[d] = sstamp[d]
                                   /\ worker'[d] = worker[d]
        /\ worker[t] # "ok"
        /\ worker'[t] = "ok" \/ (stamp'[t] = stamp[t] /\ sstamp'[t] = sstamp[t])
    BY <1>0, <1>1 DEF WorkerExit, ExitOk, ExitFail, TypeOK
  <2>4. HardStampless'
    <3> SUFFICES ASSUME NEW d \in Setscene, SetsceneDepends[d] # {},
                        d \notin runq_running \cup sq.covered
                 PROVE  (d \in sq_live /\ worker'[d] = "ok") \/ (stamp'[d] = 0 /\ sstamp'[d] = 0)
      BY <2>2 DEF HardStampless, runqVars, sqVars
    <3>1. (d \in sq_live /\ worker[d] = "ok") \/ (stamp[d] = 0 /\ sstamp[d] = 0)
      BY DEF HardInv, HardStampless
    <3>2. QED
      BY <1>0, <2>1, <2>3, <3>1
  <2>5. QED
    BY <2>2, <2>4, HardQuiet DEF runqVars, sqVars
<1>2. CASE TaskComplete(t) \/ TaskFail(t)
  <2>1. sq' = sq
    BY <1>2, CompletionApart DEF TaskComplete, TaskFail, sqVars
  <2>2. /\ UNCHANGED <<runq_running, sq_live, stamp, sstamp>>
        /\ t \notin sq_live /\ \A d \in Tasks \ {t} : worker'[d] = worker[d]
    BY <1>0, <1>2 DEF TaskComplete, TaskFail, TypeOK, sqVars
  <2>3. HardStampless'
    BY <1>0, <2>1, <2>2 DEF HardInv, HardStampless
  <2>4. QED
    BY <2>1, <2>2, <2>3, HardQuiet
<1>4. CASE SetsceneComplete(t)
  <2>1. t \in sq_live /\ t \in sq.running /\ t \in sq.buildable
    BY <1>0, <1>4 DEF SetsceneComplete, Marked, SceneInv, LiveRight, Processed
  <2>2. Adds(sq, sq', {t}, {}) /\ sq' \in SqState
    BY <1>0, <1>4, <2>1, CompleteAdds, CompleteOutrightGrows DEF SetsceneComplete, Grows
  <2>3. HardRight(sq', {})
    BY <1>0, <2>1, <2>2, HardAdds DEF HardInv
  <2>4. /\ UNCHANGED <<runqVars, stamp, sstamp>> /\ sq_live' = sq_live \ {t}
        /\ \A d \in Tasks \ {t} : worker'[d] = worker[d]
    BY <1>0, <1>4 DEF SetsceneComplete, TypeOK
  <2>5. HardStampless'
    BY <1>0, <2>2, <2>4 DEF HardInv, HardStampless, runqVars, Adds
  <2>6. QED
    BY <2>3, <2>5 DEF HardInv, HardRight, Processed
<1>5. CASE SetsceneFail(t)
  <2>1. t \in sq_live /\ t \in sq.running /\ t \in sq.buildable /\ t \notin sq.covered
        /\ worker[t] = "fail"
    BY <1>0, <1>5 DEF SetsceneFail, Marked, SceneInv, LiveRight, Processed
  <2> DEFINE F == FailedWith(sq, t)
  <2>2. Adds(sq, sq', {}, F) /\ FailsWhole(sq, F) /\ F \in SUBSET Setscene
    BY <1>0, <1>5, <2>1, FailAdds, FailedWithClosed, FailedWithType DEF SetsceneFail
  <2>a. F \cap sq.covered = {}
    BY <1>0, <2>1, FailedApart DEF SceneInv
  <2> HIDE DEF F
  <2>3. sq' \in SqState
    BY <1>0, <1>5, <2>1, FailGrows DEF SetsceneFail, Grows
  <2>4. HardRight(sq', {})
    BY <1>0, <2>2, <2>a, <2>3, HardFails DEF HardInv
  <2>5. /\ UNCHANGED <<runqVars, stamp, sstamp>> /\ sq_live' = sq_live \ {t}
        /\ \A d \in Tasks \ {t} : worker'[d] = worker[d]
    BY <1>0, <1>5 DEF SetsceneFail, TypeOK
  <2>6. HardStampless'
    BY <1>0, <2>1, <2>2, <2>5 DEF HardInv, HardStampless, runqVars, Adds
  <2>7. QED
    BY <2>4, <2>6 DEF HardInv, HardRight, Processed
<1>6. CASE \E h \in Hashes : WorkerUniHash(t, h)
  <2>1. UNCHANGED <<runqVars, sqVars, worker, stamp, sstamp>>
    BY <1>6 DEF WorkerUniHash
  <2>2. QED
    BY <2>1, HardQuiet, StamplessStays DEF runqVars, sqVars, HardInv
<1>7. QED
  BY <1>1, <1>2, <1>4, <1>5, <1>6 DEF ReadWorker

LEMMA SceneQueueHard ==
  ASSUME Inv, QueueInv, SceneInv, HardInv, NEW t \in Setscene,
         SetsceneSkip(t) \/ SetsceneFailOutright(t) \/ SetsceneStart(t)
  PROVE  HardInv' /\ (SetsceneStart(t) => SetsceneDepends[t] \subseteq sq.covered)
<1>0. TypeOK /\ sq \in SqState /\ Marked(sq) /\ sq_live \subseteq Setscene
      /\ Setscene \subseteq Tasks
  BY SetsceneAssumption DEF QueueInv, TypeOK
<1>1. NextSetscene(t) /\ pc = "setscene"
  BY DEF SetsceneSkip, SetsceneFailOutright, SetsceneStart, NextSetscene
<1>2. t \in Open /\ t \notin sq.running /\ t \notin sq_live
  BY <1>0, <1>1, NextSetsceneOpen DEF Marked
<1>3. CASE SetsceneSkip(t)
  <2> DEFINE r == sq_task_skip(sq, {t})
             more == {x \in {t} : Skippable(x)}
  <2>1. sq' = [r EXCEPT !.notneeded = @ \cup more]
    BY <1>3 DEF SetsceneSkip
  <2>2. r \in SqState /\ Adds(sq, r, {t}, {})
    BY <1>0, SkipGrows, SkipAdds DEF Grows
  <2>3. HardRight(r, {})
    BY <1>0, <2>2, HardAdds DEF HardInv
  <2> HIDE DEF r, more
  <2>4. sq.covered' = r.covered /\ sq.notcovered' = r.notcovered /\ sq.buildable' = r.buildable
    BY <2>1, <2>2 DEF SqState
  <2>5. HardStampless'
    BY <1>3, <2>2, <2>4, StamplessStays DEF SetsceneSkip, HardInv, Adds, runqVars, workerVars
  <2>6. ~SetsceneStart(t)
    <3>1. t \in runq_running \/ t \notin sq_live'
      BY <1>2, <1>3 DEF SetsceneSkip
    <3>2. QED
      BY <1>2, <1>3, <3>1 DEF SetsceneSkip, SetsceneStart
  <2>7. QED
    BY <2>3, <2>4, <2>5, <2>6 DEF HardInv, HardRight, Processed
<1>4. CASE SetsceneFailOutright(t)
  <2>1. PICK F \in SUBSET Setscene :
           /\ Adds(sq, sq', {}, F)
           /\ \A d \in F \ {t} : d \notin Processed(sq) /\ ~(SetsceneDepends[d] \subseteq sq.covered)
           /\ FailsWhole(sq, F)
    BY <1>0, <1>2, <1>4, FailOutrightAdds DEF SetsceneFailOutright, Open, Processed
  <2>2. F \cap sq.covered = {}
    BY <1>2, <2>1 DEF Processed, Open
  <2>3. sq' \in SqState
    BY <1>0, <1>4, FailOutrightGrows DEF SetsceneFailOutright, Grows
  <2>4. HardRight(sq', {})
    BY <1>0, <2>1, <2>2, <2>3, HardFails DEF HardInv
  <2>5. HardStampless'
    BY <1>4, <2>1, StamplessStays DEF SetsceneFailOutright, HardInv, Adds, runqVars, workerVars
  <2>6. ~SetsceneStart(t)
    BY <1>2, <1>4 DEF SetsceneFailOutright, SetsceneStart
  <2>7. QED
    BY <2>4, <2>5, <2>6 DEF HardInv, HardRight, Processed
<1>5. CASE SetsceneStart(t)
  <2>1. /\ sq' = [sq EXCEPT !.running = @ \cup {t}]
        /\ sq_live' = sq_live \cup {t} /\ worker' = [worker EXCEPT ![t] = "run"]
        /\ UNCHANGED <<runqVars, stamp, sstamp>>
    BY <1>5 DEF SetsceneStart
  <2>2. sq.covered' = sq.covered /\ sq.notcovered' = sq.notcovered /\ sq.buildable' = sq.buildable
    BY <1>0, <2>1 DEF SqState
  <2>3. t \in sq.buildable
    <3>1. SetsceneChoice \subseteq sq.buildable \ sq.running /\ SetsceneChoice # {}
      BY <1>1 DEF NextSetscene, SetsceneChoice
    <3>2. SetsceneChoice \in SUBSET Nat
      BY <1>0, <3>1, TasksAssumption, SetsceneAssumption DEF SqState
    <3>3. \E x \in SetsceneChoice : \A y \in SetsceneChoice : x <= y
      BY <3>1, <3>2, Least
    <3>4. QED
      BY <1>1, <3>1, <3>3 DEF NextSetscene, Min
  <2>4. SetsceneDepends[t] \subseteq sq.covered
    BY <1>2, <2>3 DEF HardInv, HardRight, Open
  <2>5. HardStampless'
    BY <1>0, <1>2, <2>1, <2>2 DEF HardInv, HardStampless, runqVars, TypeOK
  <2>6. QED
    BY <2>1, <2>2, <2>4, <2>5, HardQuiet DEF runqVars
<1>6. QED
  BY <1>3, <1>4, <1>5

LEMMA RealTaskHard ==
  ASSUME Inv, QueueInv, SceneInv, HardInv, NoDeferral, NEW t \in Tasks,
         RefuseTask(t) \/ SkipTask(t) \/ NoexecTask(t) \/ StartTask(t) \/ FakerootSpawnFails(t)
  PROVE  HardInv'
<1>0. TypeOK /\ Setscene \subseteq Tasks
  BY SetsceneAssumption DEF QueueInv, TypeOK
<1>1. CASE RefuseTask(t) \/ FakerootSpawnFails(t)
  <2>1. UNCHANGED <<runq_running, sqVars, workerVars>>
    BY <1>1 DEF RefuseTask, FakerootSpawnFails
  <2>2. QED
    BY <2>1, HardQuiet, StamplessStays DEF sqVars, workerVars, HardInv
<1>2. CASE SkipTask(t) \/ NoexecTask(t)
  <2>1. /\ task_completeoutright(t) /\ runq_running' = runq_running \cup {t}
        /\ UNCHANGED <<sq_live, worker>>
        /\ \A d \in Tasks \ {t} : stamp'[d] = stamp[d] /\ sstamp'[d] = sstamp[d]
    BY <1>0, <1>2 DEF SkipTask, NoexecTask, workerVars, TypeOK
  <2>2. sq' = sq
    BY <2>1, CompletionApart
  <2>3. HardStampless'
    BY <1>0, <2>1, <2>2 DEF HardInv, HardStampless
  <2>4. QED
    BY <2>1, <2>2, <2>3, HardQuiet
<1>3. CASE StartTask(t)
  <2>1. /\ runq_running' = runq_running \cup {t} /\ worker' = [worker EXCEPT ![t] = "run"]
        /\ UNCHANGED <<sqVars, stamp, sstamp>>
    BY <1>3 DEF StartTask
  <2>2. HardStampless'
    BY <1>0, <2>1 DEF HardInv, HardStampless, TypeOK, sqVars
  <2>3. QED
    BY <2>1, <2>2, HardQuiet DEF sqVars
<1>4. QED
  BY <1>1, <1>2, <1>3

LEMMA NextHard ==
  ASSUME Inv, QueueInv, SceneInv, HardInv, NoDeferral, Next
  PROVE  /\ HardInv'
         /\ \A t \in Setscene : t \in sq_live' \ sq_live => SetsceneDepends[t] \subseteq sq.covered
<1>0. sq \in SqState
  BY DEF QueueInv, TypeOK
<1>a. (\A t \in Setscene : ~SetsceneStart(t)) => sq_live' \subseteq sq_live
  BY DEF Next, Schedule, ReadWorker, WorkerExit, WorkerUniHash, TaskComplete, TaskFail,
         SetsceneComplete, SetsceneFail, Execute, NothingToMigrate, ProcessTaskHashes,
         MigratePending, NoSetscene, SetsceneSkip, SetsceneFailOutright, UpdateHoldoff,
         HoldoffCurrent, SceneQueueOpen, SceneQueueComplete, NoTask, RefuseTask, SkipTask,
         NoexecTask, StartTask, FakerootSpawnFails, WaitForWorkers, ForceDeferred, EndOfBuild,
         Finish, StopBuild, FinishNow, Terminated, vars, sqVars
<1>b. ASSUME NEW t \in Setscene, t \in sq_live' \ sq_live PROVE SetsceneDepends[t] \subseteq sq.covered
  <2>1. PICK d \in Setscene : SetsceneStart(d)
    BY <1>a, <1>b
  <2>2. d = t
    BY <1>b, <2>1 DEF SetsceneStart
  <2>3. QED
    BY <2>1, <2>2, SceneQueueHard
<1>1. ASSUME NEW t \in Tasks, WorkerExit(t) \/ ReadWorker(t) \/ \E h \in Hashes : WorkerUniHash(t, h)
      PROVE  HardInv'
  BY <1>1, WorkerHard
<1>2. CASE ProcessTaskHashes
  <2>1. UNCHANGED <<runqVars, sqVars, worker>>
    BY <1>2 DEF ProcessTaskHashes
  <2>2. \A d \in Tasks : stamp'[d] \in {0, stamp[d]} /\ sstamp'[d] \in {0, sstamp[d]}
    BY <1>2, HashesMoved
  <2>3. HardStampless'
    BY <2>1, <2>2, SetsceneAssumption DEF HardInv, HardStampless, runqVars, sqVars
  <2>4. QED
    BY <2>1, <2>3, HardQuiet DEF runqVars, sqVars
<1>3. CASE MigratePending
  BY <1>3, <1>b, MigrationHard
<1>4. ASSUME NEW t \in Setscene, SetsceneSkip(t) \/ SetsceneFailOutright(t) \/ SetsceneStart(t)
      PROVE  HardInv'
  BY <1>4, SceneQueueHard
<1>5. ASSUME NEW t \in Tasks,
             RefuseTask(t) \/ SkipTask(t) \/ NoexecTask(t) \/ StartTask(t) \/ FakerootSpawnFails(t)
      PROVE  HardInv'
  BY <1>5, RealTaskHard
<1>6. CASE UpdateHoldoff
  <2>1. UNCHANGED <<runq_running, sq_live, workerVars>> /\ sq' = [sq EXCEPT !.need = FALSE]
    BY <1>6 DEF UpdateHoldoff
  <2>2. sq.covered' = sq.covered /\ sq.notcovered' = sq.notcovered /\ sq.buildable' = sq.buildable
    BY <1>0, <2>1 DEF SqState
  <2>3. QED
    BY <2>1, <2>2, HardQuiet, StamplessStays DEF workerVars, HardInv
<1>7. CASE UNCHANGED <<runqVars, sq, sq_live, workerVars>>
  BY <1>7, HardQuiet, StamplessStays DEF runqVars, workerVars, HardInv
<1>8. ~ForceDeferred
  BY DEF ForceDeferred, NoDeferral
<1>9. HardInv'
  BY <1>1, <1>2, <1>3, <1>4, <1>5, <1>6, <1>7, <1>8
     DEF Next, Schedule, Execute, NothingToMigrate, NoSetscene, HoldoffCurrent,
         SceneQueueOpen, SceneQueueComplete, NoTask, WaitForWorkers, EndOfBuild, Finish,
         StopBuild, FinishNow, Terminated, vars, runqVars, sqVars, hashVars, workerVars
<1>10. QED
  BY <1>b, <1>9

\* In a build of one configuration no two setscene tasks can have the same sstate
\* object, and none is deferred against another.
OneConfiguration == \A s, t \in Setscene : Recipe[s] = Recipe[t] => s = t

LEMMA NoTwins ==
  ASSUME OneConfiguration, NEW T \in SUBSET Setscene, NEW uni
  PROVE  Twins(T, uni) = {}
<1> SUFFICES ASSUME NEW t \in T, HashIndex(t, uni) \in DOMAIN hashes,
                    hashes[HashIndex(t, uni)] # t
             PROVE  FALSE
  BY DEF Twins
<1> DEFINE h == HashIndex(t, uni)
           S == {x \in Setscene : HashIndex(x, InitHash) = h}
<1>1. hashes[h] = Min(S) /\ S # {}
  BY DEF hashes
<1>2. S \in SUBSET Nat
  BY TasksAssumption, SetsceneAssumption
<1>3. S \subseteq {t}
  BY DEF HashIndex, OneConfiguration
<1> HIDE DEF h, S
<1>4. S = {t}
  BY <1>1, <1>3
<1>5. Min(S) = t
  BY <1>2, <1>4 DEF Min
<1>6. QED
  BY <1>1, <1>5 DEF h

LEMMA NothingDeferred ==
  ASSUME OneConfiguration
  PROVE  /\ Init => NoDeferral
         /\ QueueInv /\ NoDeferral /\ [Next]_vars => NoDeferral'
<1>1. ASSUME Init PROVE NoDeferral
  BY <1>1, NoTwins DEF Init, InitDeferred, Defer, NoDeferral
<1>2. ASSUME QueueInv, NoDeferral, MigratePending PROVE NoDeferral'
  <2>1. PICK ord \in SetToSeqs(pending_migrations) :
          sq_deferred' = IF Migrated(ord).halt THEN sq_deferred
                         ELSE Defer(sq_deferred, Migrated(ord).migrated, unihash)
    BY <1>2 DEF MigratePending
  <2>2. Migrated(ord).migrated \in SUBSET Setscene
    BY <1>2, MigratedKeeps DEF QueueInv, TypeOK, Rounds, MState
  <2>3. Twins(Migrated(ord).migrated, unihash) = {}
    BY <2>2, NoTwins
  <2>4. QED
    BY <1>2, <2>1, <2>3 DEF NoDeferral, Defer
<1>3. ASSUME NoDeferral, NEW t, sq_deferred' = Undefer(t) PROVE NoDeferral'
  BY <1>3 DEF NoDeferral, Undefer
<1>4. ASSUME NoDeferral, NEW t, task_completeoutright(t) PROVE NoDeferral'
  BY <1>4 DEF NoDeferral, task_completeoutright
<1>5. ASSUME NoDeferral, UNCHANGED sq_deferred PROVE NoDeferral'
  BY <1>5 DEF NoDeferral
<1>6. ASSUME QueueInv, NoDeferral, [Next]_vars PROVE NoDeferral'
  BY <1>2, <1>3, <1>4, <1>5, <1>6
     DEF Next, Schedule, ReadWorker, WorkerExit, WorkerUniHash, TaskComplete, TaskFail,
         SetsceneComplete, SetsceneFail, Execute, NothingToMigrate, ProcessTaskHashes,
         NoSetscene, SetsceneSkip, SetsceneFailOutright, SetsceneStart, UpdateHoldoff,
         HoldoffCurrent, SceneQueueOpen, SceneQueueComplete, NoTask, RefuseTask, SkipTask,
         NoexecTask, StartTask, FakerootSpawnFails, WaitForWorkers, ForceDeferred, EndOfBuild,
         Finish, StopBuild, FinishNow, Terminated, vars, sqVars
<1>7. QED
  BY <1>1, <1>6

\* All of it together.
ApartInv == Inv /\ QueueInv /\ NoDeferral /\ SceneInv /\ HardInv

LEMMA SceneUnchanged == SceneInv /\ HardInv /\ UNCHANGED vars => SceneInv' /\ HardInv'
  BY DEF SceneInv, HardInv, CoveredOrNot, LiveRight, PendingFree, NoexecCovered, BuiltRejected,
         SkippedRight, RealInputs, Skipped, RealLive, Live, HardRight, HardStampless, Processed,
         vars, runqVars, sqVars, hashVars, workerVars

LEMMA Apart ==
  ASSUME OneConfiguration, NoStampedHard
  PROVE  Spec => []ApartInv
<1>1. Init => NoDeferral /\ SceneInv /\ HardInv
  BY NothingDeferred, InitScene, InitHard
<1>2. Inv /\ QueueInv /\ NoDeferral /\ SceneInv /\ HardInv /\ [Next]_vars
        => NoDeferral' /\ SceneInv' /\ HardInv'
  <2> SUFFICES ASSUME Inv, QueueInv, NoDeferral, SceneInv, HardInv, [Next]_vars
               PROVE  NoDeferral' /\ SceneInv' /\ HardInv'
    OBVIOUS
  <2>1. NoDeferral'
    BY NothingDeferred
  <2>2. CASE UNCHANGED vars
    BY <2>1, <2>2, SceneUnchanged
  <2>3. CASE Next
    <3>1. /\ HardInv'
          /\ \A t \in Setscene : t \in sq_live' \ sq_live => SetsceneDepends[t] \subseteq sq.covered
      BY <2>3, NextHard
    <3>2. SceneInv'
      BY <2>3, <3>1, NextScene
    <3>3. QED
      BY <2>1, <3>1, <3>2
  <2>4. QED
    BY <2>2, <2>3
<1>3. QED
  BY <1>1, <1>2, Invariance, QueueInvariance, PTL DEF Spec, ApartInv

\* In such a build, no setscene task ends up as covered and not covered, although
\* failures spread along hard dependencies and hashes change at any time;
THEOREM CoverageSound ==
  ASSUME OneConfiguration, NoStampedHard
  PROVE  Spec => []CoveredOrNot
<1>1. ApartInv => CoveredOrNot
  BY DEF ApartInv, SceneInv
<1>2. QED
  BY <1>1, Apart, PTL

\* a task that executes finds what its dependencies produce: nothing that it needs was
\* skipped on account of a setscene task that another task has made unnecessary;
THEOREM InputsExist ==
  ASSUME OneConfiguration, NoStampedHard
  PROVE  Spec => []RealInputs
<1>1. ApartInv => RealInputs
  BY DEF ApartInv, SceneInv
<1>2. QED
  BY <1>1, Apart, PTL

\* a task is unpacked or built, and never both;
THEOREM UnpackedOrBuilt ==
  ASSUME OneConfiguration, NoStampedHard
  PROVE  Spec => []OneVariant
<1>1. ApartInv => OneVariant
  <2> SUFFICES ASSUME ApartInv PROVE OneVariant
    OBVIOUS
  <2>1. sq_live \cap runq_running = {} /\ sq.covered \subseteq Setscene
    BY DEF ApartInv, SceneInv, LiveRight, QueueInv, TypeOK, SqState
  <2>2. RealLive \cap sq.covered = {}
    BY <2>1 DEF ApartInv, SceneInv, BuiltRejected, CoveredOrNot
  <2>3. QED
    BY <2>1, <2>2 DEF OneVariant
<1>2. QED
  BY <1>1, Apart, PTL

\* and a setscene task starts only when what it hard-depends on is covered, although
\* failures and completions arrive in any order and hashes change in between.
THEOREM HardDependenciesMet ==
  ASSUME OneConfiguration, NoStampedHard
  PROVE  Spec => HardDependsMet
<1> DEFINE A == \A t \in Setscene : t \in sq_live' \ sq_live =>
                  SetsceneDepends[t] \subseteq sq.covered
<1>1. ApartInv /\ [Next]_vars => [A]_vars
  <2> SUFFICES ASSUME ApartInv, [Next]_vars, ~UNCHANGED vars PROVE A
    OBVIOUS
  <2>1. Next
    OBVIOUS
  <2>2. QED
    BY <2>1, NextHard DEF ApartInv
<1>2. QED
  BY <1>1, Apart, PTL DEF Spec, HardDependsMet

-----------------------------------------------------------------------------
(* The hashes of running tasks. *)

\* The tasks above t, by its defining equation.
AboveOf(G, t) == UNION {{r} \cup G[r] : r \in revdeps[t]}

LEMMA AboveEquation ==
  Above = [t \in Tasks |-> AboveOf(Above, t)]
<1> DEFINE Fcn(G) == G = [t \in Tasks |-> AboveOf(G, t)]
<1>1. revdeps \in [Tasks -> SUBSET Tasks]
  BY DEF revdeps
<1>2. PICK G : G = [t \in Tasks |-> Reach(G, revdeps, {}, t)]
  BY <1>1, ReachExists
<1>3. ASSUME NEW t \in Tasks PROVE Reach(G, revdeps, {}, t) = AboveOf(G, t)
  <2>1. \A x : x \in Reach(G, revdeps, {}, t) <=> \E r \in revdeps[t] : x = r \/ x \in G[r]
    BY ReachMember
  <2>2. \A x : x \in AboveOf(G, t) <=> \E r \in revdeps[t] : x = r \/ x \in G[r]
    BY DEF AboveOf
  <2>3. QED
    BY <2>1, <2>2
<1>4. Fcn(G)
  BY <1>2, <1>3
<1>5. Above = CHOOSE H : Fcn(H)
  BY DEF Above, AboveOf
<1> HIDE DEF Fcn
<1>6. Fcn(Above)
  BY <1>4, <1>5
<1>7. QED
  BY <1>6 DEF Fcn

\* The graph has no loop upwards either: a set of tasks has one that no other of the
\* set depends on.
LEMMA AcyclicAbove ==
  ASSUME NEW S \in SUBSET Tasks, S # {}
  PROVE  \E t \in S : revdeps[t] \cap S = {}
<1> DEFINE Top(T) == \E t \in T : revdeps[t] \cap T = {}
           Bad == {T \in SUBSET Tasks : T # {} /\ ~Top(T)}
           Sizes == {Cardinality(T) : T \in Bad}
<1>1. SUFFICES ASSUME S \in Bad PROVE FALSE
  OBVIOUS
<1>2. \A T \in SUBSET Tasks : IsFiniteSet(T) /\ Cardinality(T) \in Nat
  BY TasksAssumption, FS_Subset, FS_CardinalityType
<1>3. Sizes \in SUBSET Nat /\ Sizes # {}
  BY <1>1, <1>2
<1> HIDE DEF Sizes
<1>4. PICK n \in Sizes : \A k \in Sizes : n <= k
  BY <1>3, Least
<1> USE DEF Sizes
<1>5. PICK T \in Bad : n = Cardinality(T)
  BY <1>4
<1>6. PICK t \in T : depends[t] \cap T = {}
  BY <1>5, AcyclicAssumption
<1>7. Cardinality(T \ {t}) = n - 1 /\ T \ {t} \in SUBSET Tasks
  BY <1>2, <1>5, FS_RemoveElement
<1>a. n \in Nat
  BY <1>2, <1>5
<1> HIDE DEF Bad
<1>8. T \ {t} \notin Bad
  <2>1. SUFFICES ASSUME T \ {t} \in Bad PROVE FALSE
    OBVIOUS
  <2>2. n - 1 \in Sizes
    BY <1>7, <2>1
  <2>3. QED
    BY <1>4, <1>a, <2>2
<1> USE DEF Bad
<1>9. CASE T \ {t} = {}
  BY <1>5, <1>6, <1>9 DEF revdeps
<1>10. CASE T \ {t} # {}
  <2>1. PICK x \in T \ {t} : revdeps[x] \cap (T \ {t}) = {}
    BY <1>7, <1>8, <1>10
  <2>2. t \notin revdeps[x]
    BY <1>5, <1>6, <2>1 DEF revdeps
  <2>3. QED
    BY <1>5, <2>1, <2>2
<1>11. QED
  BY <1>9, <1>10

\* Nothing above a task that is not complete was started.
LEMMA AboveIdle ==
  ASSUME NEW started \in SUBSET Tasks, NEW done, done \subseteq started,
         \A r \in started : depends[r] \subseteq done
  PROVE  \A x \in Tasks \ done : Above[x] \cap started = {}
<1> DEFINE S == {x \in Tasks \ done : Above[x] \cap started # {}}
<1>1. SUFFICES ASSUME S # {} PROVE FALSE
  OBVIOUS
<1>2. PICK x \in S : revdeps[x] \cap S = {}
  BY <1>1, AcyclicAbove
<1>3. PICK y \in Above[x] : y \in started
  BY <1>2
<1>4. Above[x] = AboveOf(Above, x)
  BY <1>2, AboveEquation
<1>5. PICK r \in revdeps[x] : y = r \/ y \in Above[r]
  BY <1>3, <1>4 DEF AboveOf
<1>6. r \in Tasks /\ x \in depends[r] /\ r \notin S
  BY <1>2, <1>5 DEF revdeps
<1>7. r \in started
  BY <1>3, <1>5, <1>6
<1>8. QED
  BY <1>2, <1>6, <1>7

\* A task that is executed was started and is not complete.
RealOpen == RealLive \subseteq InFlight

\* A report that waits is of a task that was started, with nothing above it started;
\* a task that completes while it waits has it applied before the next task starts.
ReportInv ==
  \A x \in updated_taskhash_queue :
    /\ x[1] \in runq_running /\ Above[x[1]] \cap runq_running = {}
    /\ x[1] \notin runq_complete \/ pc \in {"begin", "read"}

LEMMA NextRealOpen ==
  ASSUME Inv, QueueInv, RealOpen, Next
  PROVE  RealOpen'
<1>0. TypeOK
  BY DEF QueueInv
<1>1. ASSUME RealLive' \subseteq RealLive, UNCHANGED <<runq_running, runq_complete>> PROVE RealOpen'
  BY <1>1 DEF RealOpen, InFlight
<1>2. ASSUME NEW t \in Tasks, TaskComplete(t) PROVE RealOpen'
  BY <1>0, <1>2 DEF TaskComplete, task_completeoutright, RealOpen, InFlight, RealLive, Live, TypeOK
<1>3. ASSUME NEW t \in Tasks, SkipTask(t) \/ NoexecTask(t) PROVE RealOpen'
  <2>1. /\ runq_running' = runq_running \cup {t} /\ runq_complete' = runq_complete \cup {t}
        /\ UNCHANGED <<worker, sq_live>> /\ NextTask(t)
    BY <1>3 DEF SkipTask, NoexecTask, task_completeoutright, workerVars
  <2>2. t \notin runq_running
    BY <2>1, NextTaskFree
  <2>3. t \notin RealLive
    BY <2>2 DEF Inv, WorkersStarted, RealLive, Live
  <2>4. QED
    BY <2>1, <2>3 DEF RealOpen, InFlight, RealLive, Live
<1>4. ASSUME NEW t \in Tasks, StartTask(t) PROVE RealOpen'
  <2>1. /\ runq_running' = runq_running \cup {t} /\ worker' = [worker EXCEPT ![t] = "run"]
        /\ UNCHANGED <<runq_complete, sq_live>> /\ NextTask(t)
    BY <1>4 DEF StartTask, sqVars
  <2>2. t \notin runq_complete
    BY <2>1, NextTaskFree
  <2>3. RealLive' \subseteq RealLive \cup {t}
    BY <1>0, <2>1 DEF RealLive, Live, TypeOK
  <2>4. QED
    BY <2>1, <2>2, <2>3 DEF RealOpen, InFlight
<1>5. ASSUME NEW t \in Tasks, WorkerExit(t) PROVE RealOpen'
  BY <1>0, <1>1, <1>5 DEF WorkerExit, ExitOk, ExitFail, RealLive, Live, TypeOK, runqVars, sqVars
<1>6. ASSUME NEW t \in Tasks, TaskFail(t) \/ SetsceneComplete(t) \/ SetsceneFail(t) PROVE RealOpen'
  BY <1>0, <1>1, <1>6
     DEF TaskFail, SetsceneComplete, SetsceneFail, RealLive, Live, TypeOK, runqVars, sqVars
<1>7. ASSUME NEW t \in Setscene, SetsceneStart(t) PROVE RealOpen'
  BY <1>0, <1>1, <1>7 DEF SetsceneStart, RealLive, Live, TypeOK, runqVars
<1>8. CASE UNCHANGED <<runq_running, runq_complete, sq_live, worker>>
  BY <1>1, <1>8 DEF RealLive, Live
<1>9. QED
  BY <1>2, <1>3, <1>4, <1>5, <1>6, <1>7, <1>8
     DEF Next, Schedule, ReadWorker, WorkerUniHash, Execute, NothingToMigrate, ProcessTaskHashes,
         MigratePending, NoSetscene, SetsceneSkip, SetsceneFailOutright, UpdateHoldoff,
         HoldoffCurrent, SceneQueueOpen, SceneQueueComplete, NoTask, RefuseTask,
         FakerootSpawnFails, WaitForWorkers, ForceDeferred, EndOfBuild, Finish, StopBuild,
         FinishNow, Terminated, vars, runqVars, sqVars, workerVars

LEMMA NextReport ==
  ASSUME Inv, QueueInv, RealOpen, ReportInv, Next
  PROVE  ReportInv'
<1>0. TypeOK /\ StartedFirst /\ DependencyOrder
  BY DEF QueueInv, Inv
<1>1. \A x \in updated_taskhash_queue : x[1] \in Tasks /\ x[1] \in Setscene
  BY <1>0, SetsceneAssumption DEF TypeOK
<1>2. ASSUME UNCHANGED <<runq_running, runq_complete>>,
             updated_taskhash_queue' \subseteq updated_taskhash_queue,
             \A x \in updated_taskhash_queue' : x[1] \notin runq_complete \/ pc' \in {"begin", "read"}
      PROVE  ReportInv'
  BY <1>2 DEF ReportInv
<1>3. ASSUME NEW t \in Tasks, TaskComplete(t) PROVE ReportInv'
  BY <1>3 DEF TaskComplete, ReadPhase, ReportInv, hashVars
<1>4. ASSUME NEW t \in Tasks, NEW h \in Hashes, WorkerUniHash(t, h) PROVE ReportInv'
  <2>1. /\ updated_taskhash_queue' = updated_taskhash_queue \cup {<<t, h>>}
        /\ UNCHANGED <<pc, runqVars>> /\ t \in RealLive
    BY <1>4 DEF WorkerUniHash, RealLive, Live
  <2>2. t \in runq_running /\ t \notin runq_complete
    BY <2>1 DEF RealOpen, InFlight
  <2>3. Above[t] \cap runq_running = {}
    BY <1>0, <2>2, AboveIdle DEF TypeOK, StartedFirst, DependencyOrder
  <2>4. QED
    BY <2>1, <2>2, <2>3 DEF ReportInv, runqVars
<1>5. CASE ProcessTaskHashes
  <2>1. /\ updated_taskhash_queue' = updated_taskhash_queue \ ReadyReports
        /\ UNCHANGED runqVars
    BY <1>5 DEF ProcessTaskHashes
  <2>2. \A x \in updated_taskhash_queue' : x[1] \in InFlight
    BY <2>1 DEF ReadyReports
  <2>3. QED
    BY <1>2, <2>1, <2>2 DEF InFlight, runqVars
<1>6. ASSUME NEW t \in Tasks, SkipTask(t) \/ NoexecTask(t) \/ StartTask(t) PROVE ReportInv'
  <2>1. /\ runq_running' = runq_running \cup {t}
        /\ runq_complete' \in {runq_complete, runq_complete \cup {t}}
        /\ UNCHANGED updated_taskhash_queue /\ NextTask(t)
    BY <1>6 DEF SkipTask, NoexecTask, StartTask, task_completeoutright, hashVars
  <2>2. pc = "real" /\ t \notin runq_running
    BY <2>1, NextTaskFree
  <2>3. depends[t] \subseteq runq_complete
    BY <2>1, NextTaskReady DEF Inv
  <2>4. /\ runq_running' \in SUBSET Tasks /\ runq_complete' \subseteq runq_running'
        /\ \A r \in runq_running' : depends[r] \subseteq runq_complete'
    BY <1>0, <2>1, <2>3 DEF TypeOK, StartedFirst, DependencyOrder
  <2>5. \A x \in Tasks \ runq_complete' : Above[x] \cap runq_running' = {}
    BY <2>4, AboveIdle
  <2>6. \A x \in updated_taskhash_queue : x[1] \in Tasks \ runq_complete'
    BY <1>1, <2>1, <2>2 DEF ReportInv
  <2>7. QED
    BY <2>1, <2>5, <2>6 DEF ReportInv
<1>7. CASE NothingToMigrate
  BY <1>7 DEF NothingToMigrate, ReportInv, hashVars
<1>8. CASE /\ UNCHANGED <<runq_running, runq_complete, updated_taskhash_queue>>
           /\ pc' = pc \/ pc \notin {"begin", "read"} \/ pc' \in {"begin", "read"}
  BY <1>2, <1>8 DEF ReportInv
<1>9. QED
  BY <1>3, <1>4, <1>5, <1>6, <1>7, <1>8
     DEF Next, Schedule, ReadWorker, WorkerExit, TaskFail, SetsceneComplete, SetsceneFail,
         Execute, MigratePending, NoSetscene, SetsceneSkip, SetsceneFailOutright, SetsceneStart,
         NextSetscene, UpdateHoldoff, HoldoffCurrent, SceneQueueOpen, SceneQueueComplete, NoTask,
         RefuseTask, FakerootSpawnFails, WaitForWorkers, ForceDeferred, EndOfBuild, Finish,
         StopBuild, FinishNow, Terminated, vars, runqVars, hashVars

\* What a report is applied to has ended, and what is rehashed was not started or keeps
\* its hash.
LEMMA HashesStable ==
  ASSUME Inv, QueueInv, NoDeferral, LiveRight, RealOpen, ReportInv, ProcessTaskHashes,
         NEW t \in Tasks, worker[t] # "none"
  PROVE  unihash'[t] = unihash[t]
<1> DEFINE ready == ReadyReports
           uni1  == Reported(ready)
           first == {x \in Tasks : uni1[x] # unihash[x]}
           total == UNION {Above[x] : x \in first}
           Moved(new) == {x \in total : new[x] # uni1[x]} \ Remapped
<1>0. TypeOK
  BY DEF QueueInv
<1>1. PICK new \in [total -> Hashes] :
        unihash' = [x \in Tasks |-> IF x \in Moved(new) THEN new[x] ELSE uni1[x]]
  BY DEF ProcessTaskHashes
<1>2. ASSUME NEW x \in ready
      PROVE  x[1] \in runq_complete /\ x[1] \in runq_running /\ Above[x[1]] \cap runq_running = {}
  BY DEF ReadyReports, ReportInv, InFlight
<1>3. ASSUME NEW d \in first PROVE \E x \in ready : x[1] = d
  <2> DEFINE src == {d} \cup {sq_deferred[e] : e \in {d} \cap DOMAIN sq_deferred}
             news == {x \in ready : x[1] \in src /\ x[2] # unihash[x[1]]}
  <2>1. uni1[d] = IF news = {} THEN unihash[d] ELSE (CHOOSE x \in news : TRUE)[2]
    BY DEF Reported
  <2>2. src = {d}
    BY DEF NoDeferral
  <2>3. news # {}
    BY <1>3, <2>1
  <2>4. QED
    BY <2>2, <2>3
<1>4. \A d \in first : d \in runq_complete /\ d \in runq_running /\ Above[d] \cap runq_running = {}
  BY <1>2, <1>3
<1>5. t \in sq_live \/ (t \in runq_running /\ t \notin runq_complete)
  BY DEF RealOpen, InFlight, RealLive, Live
<1>6. t \notin first
  BY <1>4, <1>5 DEF LiveRight
<1>7. t \notin Moved(new)
  <2>1. CASE t \in sq_live
    BY <2>1 DEF Remapped
  <2>2. CASE t \in runq_running
    <3>1. t \notin total
      BY <1>4, <2>2
    <3>2. QED
      BY <3>1
  <2>3. QED
    BY <1>5, <2>1, <2>2
<1>8. uni1[t] = unihash[t]
  BY <1>6
<1> HIDE DEF uni1, first, total, Moved
<1>9. QED
  BY <1>1, <1>7, <1>8

\* The hash a process was started with is not changed under it, although the processes
\* below it report new hashes while it runs.
THEOREM HashesKept ==
  ASSUME OneConfiguration, NoStampedHard
  PROVE  Spec => RunningHashStable
<1> DEFINE A == \A t \in Tasks : worker[t] = "run" /\ worker'[t] = "run" => unihash'[t] = unihash[t]
           R == RealOpen /\ ReportInv
<1>1. Init => R
  BY DEF Init, RealOpen, ReportInv, RealLive, Live
<1>2. Inv /\ QueueInv /\ R /\ [Next]_vars => R'
  <2> SUFFICES ASSUME Inv, QueueInv, R, [Next]_vars PROVE R'
    OBVIOUS
  <2>1. CASE UNCHANGED vars
    BY <2>1 DEF RealOpen, ReportInv, RealLive, Live, InFlight, vars, runqVars, sqVars, hashVars,
                workerVars
  <2>2. QED
    BY <2>1, NextRealOpen, NextReport
<1>3. ApartInv /\ R /\ [Next]_vars => [A]_vars
  <2> SUFFICES ASSUME ApartInv, R, [Next]_vars, ~UNCHANGED vars, NEW t \in Tasks,
                      worker[t] = "run"
               PROVE  unihash'[t] = unihash[t]
    OBVIOUS
  <2>1. CASE ProcessTaskHashes
    BY <2>1, HashesStable DEF ApartInv, SceneInv
  <2>2. CASE ~ProcessTaskHashes
    <3>1. UNCHANGED unihash
      BY <2>2
         DEF Next, Schedule, ReadWorker, WorkerExit, WorkerUniHash, TaskComplete, TaskFail,
             SetsceneComplete, SetsceneFail, Execute, NothingToMigrate, MigratePending,
             NoSetscene, SetsceneSkip, SetsceneFailOutright, SetsceneStart, UpdateHoldoff,
             HoldoffCurrent, SceneQueueOpen, SceneQueueComplete, NoTask, RefuseTask, SkipTask,
             NoexecTask, StartTask, FakerootSpawnFails, WaitForWorkers, ForceDeferred,
             EndOfBuild, Finish, StopBuild, FinishNow, Terminated, vars, hashVars
    <3>2. QED
      BY <3>1
  <2>3. QED
    BY <2>1, <2>2
<1> HIDE DEF A, R
<1>4. Spec => [][A]_vars
  BY <1>1, <1>2, <1>3, Invariance, QueueInvariance, Apart, PTL DEF Spec
<1>5. QED
  BY <1>4 DEF RunningHashStable, A

-----------------------------------------------------------------------------
(* Part 6.  How a build ends: nothing is forgotten.                           *)

\* Every normal task is covered by a setscene task, or the build needs it.
LEMMA NormalCovered ==
  ASSUME NEW t \in Tasks \ (Setscene \cup unskippable)
  PROVE  \E s \in Setscene : t \in sq_covered_tasks[s]
<1> DEFINE S == {x \in Tasks \ (Setscene \cup unskippable) :
                   \A s \in Setscene : x \notin sq_covered_tasks[s]}
           roots == {r \in Tasks : revdeps[r] = {}} \cup cantskip
<1>1. SUFFICES ASSUME S # {} PROVE FALSE
  OBVIOUS
<1>2. PICK x \in S : revdeps[x] \cap S = {}
  BY <1>1, AcyclicAbove
<1>3. unskippable = roots \cup UNION {Below[r] : r \in roots \ Setscene}
  BY DEF unskippable
<1>4. PICK r \in revdeps[x] : TRUE
  BY <1>2, <1>3
<1>5. r \in Tasks /\ x \in depends[r] /\ r \notin S /\ x \in Tasks
  BY <1>2, <1>4 DEF revdeps
<1>6. x \in Below[r]
  <2>1. x \in BelowOf(Below, r)
    BY <1>5, BelowMember
  <2>2. QED
    BY <1>5, <2>1, BelowEquation
<1>7. r \notin Setscene
  BY <1>2, <1>6 DEF sq_covered_tasks
<1>8. r \notin unskippable
  BY <1>2, <1>5, <1>7, UnskippableClosed
<1>9. PICK s \in Setscene : r \in sq_covered_tasks[s]
  BY <1>5, <1>7, <1>8
<1>10. x \in Below[s]
  BY <1>5, <1>9, BelowBelow, SetsceneAssumption DEF sq_covered_tasks
<1>11. QED
  BY <1>2, <1>9, <1>10 DEF sq_covered_tasks

\* A set that is closed and has every setscene task and what the build needs has
\* every task.
LEMMA DoneWhole ==
  ASSUME NEW D, DoneClosed(D), Setscene \subseteq D, unskippable \ Setscene \subseteq D
  PROVE  Tasks \subseteq D
<1>1. SUFFICES ASSUME Tasks \ D # {} PROVE FALSE
  OBVIOUS
<1>2. PICK x \in Tasks \ D : revdeps[x] \cap (Tasks \ D) = {}
  BY <1>1, AcyclicAbove
<1>3. revdeps[x] \subseteq D
  BY <1>2 DEF revdeps
<1>4. CASE revdeps[x] = {}
  BY <1>2, <1>4 DEF unskippable
<1>5. CASE revdeps[x] # {}
  BY <1>2, <1>3, <1>5 DEF DoneClosed
<1>6. QED
  BY <1>4, <1>5

\* The scene queue has no loop: no setscene task waits in the end for itself, along
\* the graph and the hard dependencies.
SceneAcyclic ==
  \A S \in SUBSET Setscene : S # {} => \E t \in S : sq_revdeps[t] \cap S = {}

\* Without hard dependencies it cannot have one.
LEMMA GraphAcyclic ==
  ASSUME \A t \in Setscene : SetsceneDepends[t] = {}
  PROVE  SceneAcyclic
<1> SUFFICES ASSUME NEW S \in SUBSET Setscene, S # {}
             PROVE  \E t \in S : sq_revdeps[t] \cap S = {}
  BY DEF SceneAcyclic
<1> DEFINE D == {x \in Tasks : \E s \in S : x \in Below[s]}
<1>1. D \cup S \in SUBSET Tasks /\ D \cup S # {}
  BY SetsceneAssumption
<1>2. PICK t \in D \cup S : revdeps[t] \cap (D \cup S) = {}
  BY <1>1, AcyclicAbove
<1>3. t \notin D
  <2>1. SUFFICES ASSUME t \in D PROVE FALSE
    OBVIOUS
  <2>2. PICK s \in S : t \in Below[s]
    BY <2>1
  <2>3. s \in Tasks
    BY SetsceneAssumption
  <2>4. PICK r \in revdeps[t] : r = s \/ r \in Below[s] \ Setscene
    BY <2>2, <2>3, BelowNeeded
  <2>5. r \in D \cup S
    BY <2>2, <2>3, <2>4, BelowTasks
  <2>6. QED
    BY <1>2, <2>4, <2>5
<1>4. t \in S /\ \A s \in S : t \notin Below[s]
  BY <1>2, <1>3, SetsceneAssumption
<1>5. sq_revdeps[t] \cap S = {}
  BY <1>4 DEF sq_revdeps
<1>6. QED
  BY <1>4, <1>5

\* The setscene queue is whole from the construction on.
LEMMA InitWhole == Init /\ HardInv => Whole(sq, {}, sq_live)
<1> SUFFICES ASSUME Init, HardInv PROVE Whole(sq, {}, sq_live)
  OBVIOUS
<1> DEFINE s0 == [buildable |-> {t \in Setscene : sq_revdeps[t] = {}}, running |-> {},
                  covered |-> {}, notcovered |-> {}, notneeded |-> {}, outrightfail |-> {},
                  done |-> unskippable \ Setscene, need |-> TRUE]
           skip == {t \in Setscene : NoexecOrStamped(t)}
<1>1. /\ s0 \in SqState /\ Processed(s0) = {} /\ s0.running = {}
      /\ s0.buildable = {t \in Setscene : sq_revdeps[t] = {}} /\ s0.done = unskippable \ Setscene
  BY SceneQueueData DEF SqState, Processed
<1>2. sq = update_scenequeue_data(s0, Setscene, InitHash, InitDeferred)
  BY DEF Init, InitSq
<1> HIDE DEF s0
<1>3. Adds(s0, sq, skip, {}) /\ sq \in SqState
  BY <1>1, <1>2, UpdateDataAdds, UpdateDataGrows DEF Grows
<1> HIDE DEF skip
<1>4. DoneClosed(s0.done)
  <2> SUFFICES ASSUME NEW d \in Tasks \ Setscene, NEW r \in revdeps[d],
                      r \in unskippable \ Setscene
               PROVE  d \in unskippable
    BY <1>1 DEF DoneClosed
  <2>1. d \in depends[r]
    BY DEF revdeps
  <2>2. QED
    BY <2>1, UnskippableClosed
<1>5. Whole(s0, {}, sq_live)
  BY <1>1, <1>4 DEF Whole, DoneRight, OpenReady, OnlyMarked
<1>6. skip \in SUBSET Setscene
  BY DEF skip
<1>7. QED
  BY <1>1, <1>3, <1>5, <1>6, WholeAdds DEF HardInv

\* Every step keeps it whole.
LEMMA NextWhole ==
  ASSUME Inv, QueueInv, NoDeferral, SceneInv, HardInv, HardInv', Next, Whole(sq, {}, sq_live)
  PROVE  Whole(sq', {}, sq_live')
<1>0. TypeOK /\ sq \in SqState /\ Marked(sq) /\ HardRight(sq', {})
  BY DEF QueueInv, TypeOK, HardInv, HardRight, Processed
<1>1. ASSUME UNCHANGED <<sq, sq_live>> PROVE Whole(sq', {}, sq_live')
  BY <1>1
<1>2. CASE MigratePending
  BY <1>2, MigrationHard DEF MigratePending
<1>3. CASE UpdateHoldoff
  <2>1. sq' = [sq EXCEPT !.need = FALSE] /\ sq_live' = sq_live
    BY <1>3 DEF UpdateHoldoff
  <2>2. /\ sq'.covered = sq.covered /\ sq'.notcovered = sq.notcovered /\ sq'.done = sq.done
        /\ sq'.buildable = sq.buildable /\ sq'.running = sq.running
    BY <1>0, <2>1 DEF SqState
  <2>3. QED
    BY <2>1, <2>2 DEF Whole, DoneRight, OpenReady, OnlyMarked, Processed
<1>4. ASSUME NEW t \in Tasks, SetsceneComplete(t) \/ SetsceneFail(t)
      PROVE  Whole(sq', {}, sq_live')
  <2>1. t \in sq_live /\ t \in sq.running /\ t \in sq.buildable /\ t \notin sq.covered
        /\ t \in Setscene /\ sq_live' = sq_live \ {t}
    BY <1>0, <1>4 DEF SetsceneComplete, SetsceneFail, Marked, SceneInv, LiveRight, Processed,
                      TypeOK
  <2>2. \E C, F \in SUBSET Setscene :
          Adds(sq, sq', C, F) /\ sq' \in SqState /\ t \in Processed(sq')
    <3>1. CASE SetsceneComplete(t)
      <4>1. Adds(sq, sq', {t}, {}) /\ sq' \in SqState
        BY <1>0, <2>1, <3>1, CompleteAdds, CompleteOutrightGrows DEF SetsceneComplete, Grows
      <4>2. t \in Processed(sq')
        BY <4>1 DEF Adds, Processed
      <4>3. QED
        BY <2>1, <4>1, <4>2
    <3>2. CASE SetsceneFail(t)
      <4> DEFINE F == FailedWith(sq, t)
      <4>1. Adds(sq, sq', {}, F) /\ F \in SUBSET Setscene /\ t \in F
        <5>1. F \in SUBSET Setscene /\ t \in F
          BY <2>1, FailedWithType, FailedWithOpen
        <5>2. sq' = sq_task_fail(sq, t)
          BY <3>2 DEF SetsceneFail
        <5>3. QED
          BY <1>0, <2>1, <5>1, <5>2, FailAdds
      <4> HIDE DEF F
      <4>2. sq' \in SqState
        BY <1>0, <2>1, <3>2, FailGrows DEF SetsceneFail, Grows
      <4>3. t \in Processed(sq')
        BY <4>1 DEF Adds, Processed
      <4>4. QED
        BY <4>1, <4>2, <4>3
    <3>3. QED
      BY <1>4, <3>1, <3>2
  <2>3. PICK C, F \in SUBSET Setscene :
          Adds(sq, sq', C, F) /\ sq' \in SqState /\ t \in Processed(sq')
    BY <2>2
  <2>4. Whole(sq', {}, sq_live)
    BY <1>0, <2>3, WholeAdds
  <2>5. QED
    BY <2>1, <2>3, <2>4 DEF Whole, OnlyMarked
<1>5. ASSUME NEW t \in Setscene, SetsceneSkip(t) \/ SetsceneFailOutright(t)
      PROVE  Whole(sq', {}, sq_live')
  <2>1. sq_live' = sq_live /\ t \in Open
    BY <1>0, <1>5, NextSetsceneOpen DEF SetsceneSkip, SetsceneFailOutright, NextSetscene
  <2>2. CASE SetsceneSkip(t)
    <3> DEFINE r == sq_task_skip(sq, {t})
               more == {x \in {t} : Skippable(x)}
    <3>1. sq' = [r EXCEPT !.notneeded = @ \cup more]
      BY <2>2 DEF SetsceneSkip
    <3>2. r \in SqState /\ Adds(sq, r, {t}, {})
      BY <1>0, SkipGrows, SkipAdds DEF Grows
    <3> HIDE DEF r, more
    <3>3. /\ sq'.covered = r.covered /\ sq'.notcovered = r.notcovered /\ sq'.done = r.done
          /\ sq'.buildable = r.buildable /\ sq'.running = r.running
      BY <3>1, <3>2 DEF SqState
    <3>4. HardRight(r, {})
      BY <1>0, <3>3 DEF HardRight, Processed
    <3>5. Whole(r, {}, sq_live)
      BY <1>0, <3>2, <3>4, WholeAdds
    <3>6. QED
      BY <2>1, <3>3, <3>5 DEF Whole, DoneRight, OpenReady, OnlyMarked, Processed
  <2>3. CASE SetsceneFailOutright(t)
    <3>1. PICK F \in SUBSET Setscene : Adds(sq, sq', {}, F)
      BY <1>0, <2>1, <2>3, FailOutrightAdds DEF SetsceneFailOutright, Open, Processed
    <3>2. sq' \in SqState
      BY <1>0, <2>3, FailOutrightGrows DEF SetsceneFailOutright, Grows
    <3>3. QED
      BY <1>0, <2>1, <3>1, <3>2, WholeAdds
  <2>4. QED
    BY <1>5, <2>2, <2>3
<1>6. ASSUME NEW t \in Setscene, SetsceneStart(t) PROVE Whole(sq', {}, sq_live')
  <2>1. sq' = [sq EXCEPT !.running = @ \cup {t}] /\ sq_live' = sq_live \cup {t}
    BY <1>6 DEF SetsceneStart
  <2>2. /\ sq'.covered = sq.covered /\ sq'.notcovered = sq.notcovered /\ sq'.done = sq.done
        /\ sq'.buildable = sq.buildable /\ sq'.running = sq.running \cup {t}
    BY <1>0, <2>1 DEF SqState
  <2>3. QED
    BY <2>1, <2>2 DEF Whole, DoneRight, OpenReady, OnlyMarked, Processed
<1>7. ASSUME NEW t \in Tasks, TaskComplete(t) \/ SkipTask(t) \/ NoexecTask(t)
      PROVE  Whole(sq', {}, sq_live')
  BY <1>1, <1>7, CompletionApart DEF TaskComplete, SkipTask, NoexecTask
<1>8. CASE ForceDeferred
  BY <1>8 DEF ForceDeferred, NoDeferral
<1>9. QED
  BY <1>1, <1>2, <1>3, <1>4, <1>5, <1>6, <1>7, <1>8
     DEF Next, Schedule, ReadWorker, WorkerExit, WorkerUniHash, TaskFail, Execute,
         NothingToMigrate, ProcessTaskHashes, NoSetscene, HoldoffCurrent, SceneQueueOpen,
         SceneQueueComplete, NoTask, RefuseTask, StartTask, FakerootSpawnFails,
         WaitForWorkers, EndOfBuild, Finish, StopBuild, FinishNow, Terminated, vars, sqVars

\* The counter of the real tasks.
LEMMA SameActive ==
  ASSUME ActiveCounted, RealLive' = RealLive, active' = active
  PROVE  ActiveCounted'
  BY DEF ActiveCounted

\* It follows the processes as long as no task is refused.
LEMMA NextActive ==
  ASSUME Enforced = {}, FakerootFails = {}, Inv, QueueInv, SceneInv, ActiveCounted, Next
  PROVE  ActiveCounted'
<1>0. /\ TypeOK /\ worker \in [Tasks -> {"none", "run", "ok", "fail"}]
      /\ sq_live \subseteq Setscene /\ Setscene \subseteq Tasks /\ active \in Int
  BY SetsceneAssumption DEF QueueInv, TypeOK
<1>a. IsFiniteSet(RealLive) /\ Cardinality(RealLive) \in Nat
  BY <1>0, LiveFinite
<1>1. ASSUME NEW t \in Tasks, WorkerExit(t) PROVE ActiveCounted'
  <2>1. worker[t] = "run" /\ (\E r \in {"ok", "fail"} : worker' = [worker EXCEPT ![t] = r])
        /\ sq_live' = sq_live /\ active' = active
    BY <1>1 DEF WorkerExit, ExitOk, ExitFail, runqVars, sqVars
  <2>2. RealLive' = RealLive
    BY <1>0, <2>1 DEF Live, RealLive
  <2>3. QED
    BY <2>1, <2>2, SameActive
<1>2. ASSUME NEW t \in Tasks, TaskComplete(t) \/ TaskFail(t) PROVE ActiveCounted'
  <2>1. /\ t \notin sq_live /\ worker[t] # "none" /\ worker' = [worker EXCEPT ![t] = "none"]
        /\ active' = Decreased /\ sq_live' = sq_live
    BY <1>2 DEF TaskComplete, TaskFail, task_fail, sqVars
  <2>2. t \in RealLive /\ RealLive' = RealLive \ {t}
    BY <1>0, <2>1 DEF Live, RealLive
  <2>3. Cardinality(RealLive \ {t}) = Cardinality(RealLive) - 1
    BY <1>a, <2>2, FS_RemoveElement
  <2>4. Cardinality(RealLive) # 0
    BY <1>a, <2>2, FS_EmptySet
  <2>5. QED
    BY <1>0, <1>a, <2>1, <2>2, <2>3, <2>4, MaxDebtAssumption DEF ActiveCounted, Decreased
<1>3. ASSUME NEW t \in Tasks, SetsceneComplete(t) \/ SetsceneFail(t) PROVE ActiveCounted'
  <2>1. /\ t \in sq_live /\ worker' = [worker EXCEPT ![t] = "none"]
        /\ active' = active /\ sq_live' = sq_live \ {t}
    BY <1>3 DEF SetsceneComplete, SetsceneFail, runqVars
  <2>2. RealLive' = RealLive
    BY <1>0, <2>1 DEF Live, RealLive
  <2>3. QED
    BY <2>1, <2>2, SameActive
<1>4. ASSUME NEW t \in Setscene, SetsceneStart(t) PROVE ActiveCounted'
  <2>1. /\ worker' = [worker EXCEPT ![t] = "run"] /\ sq_live' = sq_live \cup {t}
        /\ active' = active /\ t \in Open
    BY <1>4, NextSetsceneOpen DEF SetsceneStart, NextSetscene, runqVars
  <2>2. t \notin RealLive
    BY <2>1 DEF QueueInv, OpenIsQuiet, Inv, WorkersStarted, RealLive, Live
  <2>3. RealLive' = RealLive
    BY <1>0, <2>1, <2>2 DEF Live, RealLive
  <2>4. QED
    BY <2>1, <2>3, SameActive
<1>5. ASSUME NEW t \in Tasks, StartTask(t) PROVE ActiveCounted'
  <2>1. /\ worker' = [worker EXCEPT ![t] = "run"] /\ sq_live' = sq_live
        /\ active' = active + 1 /\ NextTask(t) /\ t \notin runq_running
    BY <1>5 DEF StartTask, NextTask, Schedulable, sqVars
  <2>2. t \notin sq_live
    BY <1>0, <2>1, NextTaskFree DEF SceneInv, LiveRight, Open
  <2>3. t \notin RealLive
    BY <2>1 DEF Inv, WorkersStarted, RealLive, Live
  <2>4. RealLive' = RealLive \cup {t}
    BY <1>0, <2>1, <2>2 DEF Live, RealLive
  <2>5. Cardinality(RealLive \cup {t}) = Cardinality(RealLive) + 1
    BY <1>a, <2>3, FS_AddElement
  <2>6. QED
    BY <2>1, <2>4, <2>5 DEF ActiveCounted
<1>6. ASSUME NEW t \in Tasks, RefuseTask(t) \/ FakerootSpawnFails(t) PROVE FALSE
  BY <1>6 DEF RefuseTask, Refused, FakerootSpawnFails, NoFakeroot
<1>7. ASSUME UNCHANGED <<worker, sq_live, active>> PROVE ActiveCounted'
  <2>1. RealLive' = RealLive
    BY <1>7 DEF Live, RealLive
  <2>2. QED
    BY <1>7, <2>1, SameActive
<1>8. QED
  BY <1>1, <1>2, <1>3, <1>4, <1>5, <1>6, <1>7
     DEF Next, Schedule, ReadWorker, WorkerUniHash, Execute, NothingToMigrate,
         ProcessTaskHashes, MigratePending, NoSetscene, SetsceneSkip, SetsceneFailOutright,
         UpdateHoldoff, HoldoffCurrent, SceneQueueOpen, SceneQueueComplete, NoTask, SkipTask,
         NoexecTask, WaitForWorkers, ForceDeferred, EndOfBuild, Finish, StopBuild, FinishNow,
         Terminated, vars, runqVars, sqVars, workerVars

\* What the real queue knows: what was started was buildable, what has nothing to wait
\* for any more is,
RealReady ==
  /\ runq_running \subseteq runq_buildable
  /\ \A r \in Tasks : depends[r] # {} /\ depends[r] \subseteq runq_complete => r \in runq_buildable
  /\ \A t \in tasks_covered \cup tasks_notcovered : depends[t] = {} => t \in runq_buildable

\* and what was started is executed, has finished or has failed.
Accounted == InFlight \subseteq RealLive \cup failed_tids

\* A completion makes buildable what waited for it.
LEMMA CompletionReady ==
  ASSUME RealReady, NEW t \in Tasks, task_completeoutright(t), UNCHANGED holdoffVars,
         runq_running' \subseteq runq_running \cup runq_buildable
  PROVE  RealReady'
<1>1. /\ runq_complete' = runq_complete \cup {t} /\ runq_buildable \subseteq runq_buildable'
      /\ \A r \in revdeps[t] : depends[r] \subseteq runq_complete \cup {t} =>
           r \in runq_buildable' \cup runq_running
  BY DEF task_completeoutright
<1>2. ASSUME NEW r \in Tasks, depends[r] # {}, depends[r] \subseteq runq_complete'
      PROVE  r \in runq_buildable'
  <2>1. CASE t \in depends[r]
    BY <1>1, <1>2, <2>1 DEF revdeps, RealReady
  <2>2. CASE t \notin depends[r]
    BY <1>1, <1>2, <2>2 DEF RealReady
  <2>3. QED
    BY <2>1, <2>2
<1>3. QED
  BY <1>1, <1>2 DEF RealReady, holdoffVars

\* The construction knows it.
LEMMA InitReady == Init => RealReady /\ Accounted
<1> SUFFICES ASSUME Init PROVE RealReady /\ Accounted
  OBVIOUS
<1>1. /\ runq_running = {} /\ runq_complete = {} /\ tasks_covered = {}
      /\ tasks_notcovered = IF Setscene = {} THEN Tasks ELSE {}
      /\ Setscene = {} => runq_buildable = {t \in Tasks : depends[t] = {}}
  BY DEF Init
<1>2. RealReady
  BY <1>1 DEF RealReady
<1>3. QED
  BY <1>1, <1>2 DEF Accounted, InFlight

\* Every step keeps what is buildable right ...
LEMMA NextReady ==
  ASSUME RealReady, Next
  PROVE  RealReady'
<1>1. ASSUME NEW t \in Tasks, TaskComplete(t) PROVE RealReady'
  BY <1>1, CompletionReady DEF TaskComplete
<1>2. ASSUME NEW t \in Tasks, SkipTask(t) \/ NoexecTask(t) PROVE RealReady'
  <2>1. t \in runq_buildable
    BY <1>2 DEF SkipTask, NoexecTask, NextTask, Schedulable
  <2>2. QED
    BY <1>2, <2>1, CompletionReady DEF SkipTask, NoexecTask, RealReady
<1>3. ASSUME NEW t \in Tasks, StartTask(t) PROVE RealReady'
  <2>1. t \in runq_buildable
    BY <1>3 DEF StartTask, NextTask, Schedulable
  <2>2. QED
    BY <1>3, <2>1 DEF StartTask, RealReady, holdoffVars
<1>4. CASE UpdateHoldoff
  <2>1. /\ tasks_notcovered' = NotCovered /\ tasks_covered' = Covered
        /\ runq_buildable' = runq_buildable \cup NowBuildable
        /\ UNCHANGED <<runq_running, runq_complete>>
    BY <1>4 DEF UpdateHoldoff
  <2>2. \A t \in NotCovered \cup Covered : depends[t] = {} => t \in NowBuildable
    BY DEF NowBuildable
  <2>3. QED
    BY <2>1, <2>2 DEF RealReady
<1>5. CASE UNCHANGED <<runq_buildable, runq_running, runq_complete, tasks_covered, tasks_notcovered>>
  BY <1>5 DEF RealReady
<1>6. QED
  BY <1>1, <1>2, <1>3, <1>4, <1>5
     DEF Next, Schedule, ReadWorker, WorkerExit, WorkerUniHash, TaskFail, SetsceneComplete,
         SetsceneFail, Execute, NothingToMigrate, ProcessTaskHashes, MigratePending, NoSetscene,
         SetsceneSkip, SetsceneFailOutright, SetsceneStart, HoldoffCurrent, SceneQueueOpen,
         SceneQueueComplete, NoTask, RefuseTask, FakerootSpawnFails, WaitForWorkers,
         ForceDeferred, EndOfBuild, Finish, StopBuild, FinishNow, Terminated, vars, runqVars,
         holdoffVars

\* ... and forgets no task that was started.
LEMMA NextAccounted ==
  ASSUME Inv, QueueInv, SceneInv, Accounted, Next
  PROVE  Accounted'
<1>0. TypeOK /\ worker \in [Tasks -> {"none", "run", "ok", "fail"}] /\ StartedFirst
  BY DEF QueueInv, TypeOK
<1>1. ASSUME NEW t \in Tasks, TaskComplete(t) PROVE Accounted'
  <2>1. /\ worker' = [worker EXCEPT ![t] = "none"] /\ runq_complete' = runq_complete \cup {t}
        /\ UNCHANGED <<runq_running, failed_tids, sq_live>>
    BY <1>1 DEF TaskComplete, task_completeoutright
  <2>2. QED
    BY <1>0, <2>1 DEF Accounted, InFlight, RealLive, Live
<1>2. ASSUME NEW t \in Tasks, TaskFail(t) PROVE Accounted'
  <2>1. /\ worker' = [worker EXCEPT ![t] = "none"] /\ failed_tids' = failed_tids \cup {t}
        /\ UNCHANGED <<runq_running, runq_complete, sq_live>>
    BY <1>2 DEF TaskFail, task_fail, sqVars
  <2>2. QED
    BY <1>0, <2>1 DEF Accounted, InFlight, RealLive, Live
<1>3. ASSUME NEW t \in Tasks, SetsceneComplete(t) \/ SetsceneFail(t) PROVE Accounted'
  <2>1. /\ worker' = [worker EXCEPT ![t] = "none"] /\ t \in sq_live /\ sq_live' = sq_live \ {t}
        /\ UNCHANGED <<runq_running, runq_complete, failed_tids>>
    BY <1>3 DEF SetsceneComplete, SetsceneFail, runqVars
  <2>2. RealLive \subseteq RealLive'
    BY <1>0, <2>1 DEF RealLive, Live
  <2>3. QED
    BY <2>1, <2>2 DEF Accounted, InFlight
<1>4. ASSUME NEW t \in Setscene, SetsceneStart(t) PROVE Accounted'
  <2>1. /\ worker' = [worker EXCEPT ![t] = "run"] /\ sq_live' = sq_live \cup {t}
        /\ UNCHANGED <<runq_running, runq_complete, failed_tids>> /\ t \in Open
    BY <1>4, NextSetsceneOpen DEF SetsceneStart, NextSetscene, runqVars
  <2>2. t \notin runq_running
    BY <2>1 DEF QueueInv, OpenIsQuiet
  <2>3. QED
    BY <1>0, <2>1, <2>2 DEF Accounted, InFlight, RealLive, Live
<1>5. ASSUME NEW t \in Tasks, SkipTask(t) \/ NoexecTask(t) PROVE Accounted'
  <2>1. /\ runq_running' = runq_running \cup {t} /\ runq_complete' = runq_complete \cup {t}
        /\ UNCHANGED <<worker, sq_live, failed_tids>>
    BY <1>5 DEF SkipTask, NoexecTask, task_completeoutright, workerVars
  <2>2. QED
    BY <2>1 DEF Accounted, InFlight, RealLive, Live
<1>6. ASSUME NEW t \in Tasks, StartTask(t) PROVE Accounted'
  <2>1. /\ runq_running' = runq_running \cup {t} /\ worker' = [worker EXCEPT ![t] = "run"]
        /\ UNCHANGED <<runq_complete, sq_live, failed_tids>> /\ NextTask(t)
    BY <1>6 DEF StartTask, sqVars
  <2>2. t \notin sq_live
    BY <1>0, <2>1, NextTaskFree DEF SceneInv, LiveRight, Open, TypeOK
  <2>3. QED
    BY <1>0, <2>1, <2>2 DEF Accounted, InFlight, RealLive, Live
<1>7. ASSUME NEW t \in Tasks, WorkerExit(t) PROVE Accounted'
  <2>1. /\ \E r \in {"ok", "fail"} : worker' = [worker EXCEPT ![t] = r]
        /\ UNCHANGED <<runq_running, runq_complete, sq_live, failed_tids>>
    BY <1>7 DEF WorkerExit, ExitOk, ExitFail, runqVars, sqVars
  <2>2. QED
    BY <1>0, <2>1 DEF Accounted, InFlight, RealLive, Live
<1>8. CASE /\ UNCHANGED <<runq_running, runq_complete, sq_live, worker>>
           /\ failed_tids \subseteq failed_tids'
  BY <1>8 DEF Accounted, InFlight, RealLive, Live
<1>9. QED
  BY <1>1, <1>2, <1>3, <1>4, <1>5, <1>6, <1>7, <1>8
     DEF Next, Schedule, ReadWorker, WorkerUniHash, Execute, NothingToMigrate, ProcessTaskHashes,
         MigratePending, NoSetscene, SetsceneSkip, SetsceneFailOutright, UpdateHoldoff,
         HoldoffCurrent, SceneQueueOpen, SceneQueueComplete, NoTask, RefuseTask, task_fail,
         FakerootSpawnFails, WaitForWorkers, ForceDeferred, EndOfBuild, Finish, StopBuild,
         FinishNow, Terminated, vars, runqVars, sqVars, workerVars

\* Once the scene queue is done with, or nothing of it is open and the hold-off is up to
\* date, nothing is held off.
Settled ==
  /\ sqdone => Open = {}
  /\ ~sq.need /\ Open = {} => holdoff_tasks = {}

\* When nothing is executed at the end of a call of execute(), the call has found no
\* setscene task to start, unless the scene queue is done with, and no real one.
LastLook ==
  /\ pc \in {"holdoff", "sqdone", "real", "wait"} /\ ~Busy /\ ~sqdone
       => sq.buildable \subseteq sq.running
  /\ pc = "wait" /\ ~Busy => Schedulable = {}

\* Deciding about setscene tasks asks for a new hold-off.
LEMMA GrowingSettled ==
  ASSUME Settled, Grows(sq, sq'), UNCHANGED <<sqdone, holdoff_tasks>>
  PROVE  Settled'
  BY DEF Settled, Grows, Open, Processed

\* A migration that takes something back does so too, and reopens the scene queue.
LEMMA NextSettled ==
  ASSUME Inv, QueueInv, NoDeferral, Settled, Next
  PROVE  Settled'
<1>0. TypeOK /\ sq \in SqState /\ Grows(sq, sq) /\ Marked(sq)
  BY GrowsReflexive DEF QueueInv, TypeOK
<1>1. CASE MigratePending
  <2>1. /\ ~sq.need' => sq' = sq
        /\ sqdone' => sqdone /\ Open' \subseteq Open
    BY <1>1, MigratePendingQueue
  <2>2. holdoff_tasks' = holdoff_tasks
    BY <1>1 DEF MigratePending, holdoffVars
  <2>3. QED
    BY <2>1, <2>2 DEF Settled, Open
<1>2. CASE UpdateHoldoff
  <2>1. sq' = [sq EXCEPT !.need = FALSE] /\ holdoff_tasks' = Holdoff /\ sqdone' = sqdone
    BY <1>2 DEF UpdateHoldoff
  <2>2. Open' = Open
    BY <1>0, <2>1 DEF SqState, Open, Processed
  <2>3. Open = {} => Holdoff = {}
    BY DEF Open, Holdoff
  <2>4. QED
    BY <2>1, <2>2, <2>3 DEF Settled
<1>3. ASSUME NEW t \in Tasks, SetsceneComplete(t) \/ SetsceneFail(t) PROVE Settled'
  <2>1. t \in Setscene /\ t \in sq.running /\ UNCHANGED <<sqdone, holdoff_tasks>>
    BY <1>0, <1>3 DEF SetsceneComplete, SetsceneFail, Marked, SqState, holdoffVars
  <2>2. Grows(sq, sq')
    BY <1>0, <1>3, <2>1, CompleteOutrightGrows, FailGrows DEF SetsceneComplete, SetsceneFail
  <2>3. QED
    BY <2>1, <2>2, GrowingSettled
<1>4. ASSUME NEW t \in Setscene, SetsceneSkip(t) PROVE Settled'
  <2> DEFINE r == sq_task_skip(sq, {t})
             more == {x \in {t} : Skippable(x)}
  <2>1. sq' = [r EXCEPT !.notneeded = @ \cup more] /\ UNCHANGED <<sqdone, holdoff_tasks>>
    BY <1>4 DEF SetsceneSkip, holdoffVars
  <2>2. Grows(sq, r) /\ more \subseteq Setscene
    BY <1>0, SkipGrows
  <2> HIDE DEF r, more
  <2>3. sq' \in SqState /\ sq.covered' = r.covered /\ sq.notcovered' = r.notcovered
        /\ sq.running' = r.running /\ sq.need' = r.need /\ sq.done' = r.done
    BY <2>1, <2>2 DEF SqState, Grows
  <2>4. Grows(sq, sq')
    BY <2>2, <2>3 DEF Grows, Processed
  <2>5. QED
    BY <2>1, <2>4, GrowingSettled
<1>5. ASSUME NEW t \in Setscene, SetsceneFailOutright(t) PROVE Settled'
  BY <1>0, <1>5, FailOutrightGrows, GrowingSettled DEF SetsceneFailOutright, holdoffVars
<1>6. ASSUME NEW t \in Setscene, SetsceneStart(t) PROVE Settled'
  <2>1. sq' = [sq EXCEPT !.running = @ \cup {t}] /\ UNCHANGED <<sqdone, holdoff_tasks>>
    BY <1>6 DEF SetsceneStart, holdoffVars
  <2>2. sq.covered' = sq.covered /\ sq.notcovered' = sq.notcovered /\ sq.need' = sq.need
    BY <1>0, <2>1 DEF SqState
  <2>3. QED
    BY <2>1, <2>2 DEF Settled, Open, Processed
<1>7. ASSUME NEW t \in Tasks, TaskComplete(t) \/ SkipTask(t) \/ NoexecTask(t) PROVE Settled'
  <2>1. task_completeoutright(t) /\ UNCHANGED <<sqdone, holdoff_tasks>>
    BY <1>7 DEF TaskComplete, SkipTask, NoexecTask, holdoffVars
  <2>2. QED
    BY <1>0, <2>1, CompletionQueue, GrowingSettled
<1>8. CASE SceneQueueComplete
  <2>1. /\ UNCHANGED <<sq, holdoff_tasks>> /\ sqdone' \in {sqdone, TRUE}
        /\ holdoff_tasks = {} /\ ~sq.need
    BY <1>8 DEF SceneQueueComplete, SceneQueueIdle, holdoffVars, QueueInv, HoldoffRecent
  <2>2. Open = {}
    BY <2>1 DEF QueueInv, HoldoffHolds, Holdoff, Open
  <2>3. QED
    BY <2>1, <2>2 DEF Settled, Open
<1>9. CASE ForceDeferred
  BY <1>9 DEF ForceDeferred, NoDeferral
<1>10. CASE UNCHANGED <<sq, sqdone, holdoff_tasks>>
  BY <1>10 DEF Settled, Open
<1>11. QED
  BY <1>1, <1>2, <1>3, <1>4, <1>5, <1>6, <1>7, <1>8, <1>9, <1>10
     DEF Next, Schedule, ReadWorker, WorkerExit, WorkerUniHash, TaskFail, Execute,
         NothingToMigrate, ProcessTaskHashes, NoSetscene, HoldoffCurrent, SceneQueueOpen,
         NoTask, RefuseTask, StartTask, FakerootSpawnFails, WaitForWorkers, EndOfBuild, Finish,
         StopBuild, FinishNow, Terminated, vars, sqVars, holdoffVars

\* The construction has them.
LEMMA InitSettled == Init => Settled /\ LastLook
<1> SUFFICES ASSUME Init PROVE Settled /\ LastLook
  OBVIOUS
<1>1. sqdone = (Setscene = {}) /\ holdoff_tasks = {} /\ pc = "begin"
  BY DEF Init
<1>2. QED
  BY <1>1 DEF Settled, LastLook, Open

\* What is executed is counted, so that a call that starts nothing has had its look.
LEMMA NextLastLook ==
  ASSUME Inv, QueueInv, NoDeferral, ActiveCounted, LastLook, Next
  PROVE  LastLook'
<1>0. TypeOK /\ sq \in SqState /\ number_tasks \in Nat \ {0} /\ active \in Int
  BY NumberTasksAssumption DEF QueueInv, TypeOK
<1>a. /\ active \in Nat
      /\ Cardinality(sq_live) \in Nat /\ (sq_live = {} => Cardinality(sq_live) = 0)
  BY <1>0, LiveFinite, FS_EmptySet DEF ActiveCounted
<1>b. ~Busy => can_start_task
  BY <1>0, <1>a DEF Busy, can_start_task
<1>1. CASE NoSetscene
  <2>1. UNCHANGED <<sqVars, active>> /\ SetsceneChoice = {} /\ pc' = "holdoff"
    BY <1>1 DEF NoSetscene, runqVars
  <2>2. ~Busy /\ ~sqdone => sq.buildable \subseteq sq.running
    BY <1>b, <2>1 DEF SetsceneChoice, Blocked, NoDeferral
  <2>3. QED
    BY <2>1, <2>2 DEF LastLook, Busy, sqVars
<1>2. ASSUME NEW t \in Setscene, SetsceneStart(t) PROVE LastLook'
  BY <1>2 DEF SetsceneStart, LastLook, Busy
<1>3. CASE UpdateHoldoff
  <2>1. sq' = [sq EXCEPT !.need = FALSE] /\ UNCHANGED <<active, sq_live, sqdone>>
        /\ pc = "holdoff" /\ pc' = "sqdone"
    BY <1>3 DEF UpdateHoldoff
  <2>2. sq.buildable' = sq.buildable /\ sq.running' = sq.running
    BY <1>0, <2>1 DEF SqState
  <2>3. QED
    BY <2>1, <2>2 DEF LastLook, Busy
<1>4. CASE HoldoffCurrent \/ SceneQueueOpen \/ SceneQueueComplete
  BY <1>4 DEF HoldoffCurrent, SceneQueueOpen, SceneQueueComplete, LastLook, Busy, runqVars, sqVars
<1>5. CASE NoTask
  <2>1. /\ UNCHANGED <<sqVars, runqVars, holdoffVars>> /\ Schedulable = {}
        /\ pc = "real" /\ pc' = "wait"
    BY <1>5 DEF NoTask
  <2>2. Schedulable' = Schedulable
    BY <2>1 DEF Schedulable, can_start_task, runqVars, sqVars, holdoffVars
  <2>3. QED
    BY <2>1, <2>2 DEF LastLook, Busy, runqVars, sqVars
<1>6. ASSUME NEW t \in Tasks, StartTask(t) PROVE LastLook'
  <2>1. active' > 0
    BY <1>a, <1>6 DEF StartTask
  <2>2. QED
    BY <2>1 DEF LastLook, Busy
<1>7. CASE UNCHANGED vars
  BY <1>7 DEF LastLook, Busy, Schedulable, can_start_task, vars, runqVars, sqVars, holdoffVars
<1>8. CASE pc' \in {"begin", "read", "migrate", "setscene"}
  BY <1>8 DEF LastLook
<1>9. QED
  BY <1>1, <1>2, <1>3, <1>4, <1>5, <1>6, <1>7, <1>8
     DEF Next, Schedule, ReadWorker, WorkerExit, WorkerUniHash, TaskComplete, TaskFail, ReadPhase,
         SetsceneComplete, SetsceneFail, Execute, NothingToMigrate, ProcessTaskHashes,
         MigratePending, SetsceneSkip, SetsceneFailOutright, RefuseTask, SkipTask, NoexecTask,
         FakerootSpawnFails, WaitForWorkers, ForceDeferred, EndOfBuild, Finish, StopBuild,
         FinishNow, Terminated

\* What is above a task: its reverse dependencies, and theirs.
LEMMA AboveAbove ==
  ASSUME NEW t \in Tasks
  PROVE  /\ revdeps[t] \subseteq Above[t] /\ Above[t] \subseteq Tasks
         /\ \A x \in Above[t] : revdeps[x] \subseteq Above[t]
<1> DEFINE Out(y) == \E x \in Above[y] : ~(x \in Tasks /\ revdeps[x] \subseteq Above[y])
           S == {y \in Tasks : Out(y)}
<1>1. \A y \in Tasks : /\ revdeps[y] \subseteq Above[y] /\ revdeps[y] \subseteq Tasks
                       /\ \A r \in revdeps[y] : Above[r] \subseteq Above[y]
                       /\ \A x \in Above[y] : \E r \in revdeps[y] : x = r \/ x \in Above[r]
  BY AboveEquation DEF AboveOf, revdeps
<1>2. SUFFICES ASSUME S # {} PROVE FALSE
  BY <1>1
<1>3. PICK y \in S : revdeps[y] \cap S = {}
  BY <1>2, AcyclicAbove
<1>4. PICK x \in Above[y] : ~(x \in Tasks /\ revdeps[x] \subseteq Above[y])
  BY <1>3
<1>5. PICK r \in revdeps[y] : x = r \/ x \in Above[r]
  BY <1>1, <1>3
<1>6. r \in Tasks /\ ~Out(r) /\ Above[r] \subseteq Above[y] /\ revdeps[r] \subseteq Above[r]
  BY <1>1, <1>3, <1>5
<1>7. QED
  BY <1>4, <1>5, <1>6

-----------------------------------------------------------------------------
(* The end of the build. *)

\* All that the last checks of a build rest on.
EndInv ==
  /\ ApartInv /\ Whole(sq, {}, sq_live) /\ ActiveCounted
  /\ RealReady /\ Accounted /\ Settled /\ LastLook /\ RealOpen /\ ReportInv

\* It is inductive, given the invariants of parts 1 to 5.
LEMMA EndInvariance ==
  ASSUME OneConfiguration, NoStampedHard, Enforced = {}, FakerootFails = {}
  PROVE  Spec => []EndInv
<1> DEFINE W == Whole(sq, {}, sq_live)
           R == ActiveCounted /\ RealReady /\ Accounted /\ Settled /\ LastLook /\ RealOpen /\ ReportInv
<1>1. Init /\ ApartInv => W
  BY InitWhole DEF ApartInv
<1>2. Init => R
  <2> SUFFICES ASSUME Init PROVE R
    OBVIOUS
  <2>1. RealLive = {} /\ active = 0 /\ updated_taskhash_queue = {}
    BY DEF Init, RealLive, Live
  <2>2. ActiveCounted /\ RealOpen /\ ReportInv
    BY <2>1, FS_EmptySet DEF ActiveCounted, RealOpen, ReportInv
  <2>3. QED
    BY <2>2, InitReady, InitSettled
<1>3. ApartInv /\ ApartInv' /\ W /\ [Next]_vars => W'
  <2> SUFFICES ASSUME ApartInv, ApartInv', W, [Next]_vars PROVE W'
    OBVIOUS
  <2>1. CASE UNCHANGED vars
    BY <2>1 DEF vars, sqVars
  <2>2. CASE Next
    BY <2>2, NextWhole DEF ApartInv
  <2>3. QED
    BY <2>1, <2>2
<1>4. ApartInv /\ R /\ [Next]_vars => R'
  <2> SUFFICES ASSUME ApartInv, R, [Next]_vars PROVE R'
    OBVIOUS
  <2>1. CASE UNCHANGED vars
    <3>1. /\ UNCHANGED <<RealLive, Live, InFlight, Open, Schedulable>>
          /\ UNCHANGED <<runqVars, sqVars, holdoffVars, hashVars, workerVars, pc>>
      BY <2>1 DEF RealLive, Live, InFlight, Open, Schedulable, can_start_task, vars, runqVars,
                  sqVars, holdoffVars, hashVars, workerVars
    <3>2. QED
      BY <3>1 DEF ActiveCounted, RealReady, Accounted, Settled, LastLook, Busy, RealOpen, ReportInv,
                  runqVars, sqVars, holdoffVars, hashVars
  <2>2. CASE Next
    BY <2>2, NextActive, NextReady, NextAccounted, NextSettled, NextLastLook, NextRealOpen,
       NextReport DEF ApartInv
  <2>3. QED
    BY <2>1, <2>2
<1>5. EndInv <=> ApartInv /\ W /\ R
  BY DEF EndInv
<1> HIDE DEF W, R
<1>6. QED
  BY <1>1, <1>2, <1>3, <1>4, <1>5, Apart, PTL DEF Spec

\* When every setscene task is decided about and the hold-off is up to date, so is every
\* task, and the checks of the scene queue find nothing to complain of.
LEMMA AllDecidedAbout ==
  ASSUME EndInv, Open = {}, ~sq.need
  PROVE  /\ holdoff_tasks = {} /\ Tasks \subseteq tasks_covered \cup tasks_notcovered
         /\ updated_taskhash_queue = {} => ~SceneQueueError
<1>1. /\ TypeOK /\ Marked(sq) /\ DecisionsKept /\ NoDeferral /\ Settled /\ RealReady
      /\ Whole(sq, {}, sq_live)
  BY DEF EndInv, ApartInv, QueueInv
<1>2. holdoff_tasks = {}
  BY <1>1 DEF Settled
<1>3. Setscene \subseteq Processed(sq) \cap sq.buildable \cap sq.running
  BY <1>1 DEF Open, Whole, OnlyMarked, Marked
<1>4. Tasks \subseteq sq.done
  BY <1>1, <1>3, DoneWhole DEF Whole, DoneRight
<1>5. ASSUME NEW t \in Tasks PROVE t \in NotCovered \cup Covered
  <2>1. CASE t \in Setscene
    BY <1>3, <1>4, <2>1 DEF NotCovered, Covered, Processed
  <2>2. CASE t \in unskippable \ Setscene
    BY <1>4, <2>2 DEF NotCovered
  <2>3. CASE t \in Tasks \ (Setscene \cup unskippable)
    <3>1. PICK s \in Setscene : t \in sq_covered_tasks[s]
      BY <2>3, NormalCovered
    <3>2. CASE s \in sq.notcovered
      BY <1>4, <3>1, <3>2 DEF NotCovered
    <3>3. CASE s \in sq.covered
      BY <1>4, <3>1, <3>3 DEF Covered
    <3>4. QED
      BY <1>3, <3>2, <3>3 DEF Processed
  <2>4. QED
    BY <2>1, <2>2, <2>3
<1>6. Tasks \subseteq tasks_covered \cup tasks_notcovered
  BY <1>1, <1>5 DEF DecisionsKept
<1>7. \A t \in Tasks : depends[t] = {} => t \in runq_buildable
  BY <1>1, <1>6 DEF RealReady
<1>8. QED
  BY <1>1, <1>2, <1>3, <1>4, <1>6, <1>7 DEF SceneQueueError, NoDeferral

\* When nothing is executed and nothing can be started, only what has failed, and what
\* needs it, is missing.
LEMMA NothingMissing ==
  ASSUME SceneAcyclic, ~SetsceneOnly, EndInv, pc = "wait", ~Busy
  PROVE  /\ Live = {}
         /\ Tasks \ runq_complete \subseteq failed_tids \cup UNION {Above[t] : t \in failed_tids}
         /\ failed_tids = {} => ~SceneQueueError /\ AllTasksRan
<1>0. /\ TypeOK /\ Marked(sq) /\ HoldoffRecent /\ StartedFirst /\ Settled /\ RealReady /\ Accounted
      /\ LastLook /\ ReportInv /\ Whole(sq, {}, sq_live) /\ ActiveCounted /\ sq_live = {}
      /\ active \in Int /\ number_tasks \in Nat \ {0}
  BY NumberTasksAssumption DEF EndInv, ApartInv, QueueInv, Busy, TypeOK
<1>1. RealLive = {} /\ Live = {} /\ active = 0 /\ Cardinality(sq_live) = 0
  <2>1. IsFiniteSet(RealLive) /\ Cardinality(RealLive) \in Nat
    BY <1>0, LiveFinite
  <2>2. Cardinality(RealLive) = 0 /\ active = 0
    BY <1>0, <2>1 DEF Busy, ActiveCounted
  <2>3. RealLive = {}
    BY <2>1, <2>2, FS_EmptySet
  <2>4. QED
    BY <1>0, <2>2, <2>3, FS_EmptySet DEF RealLive
<1>2. ~sq.need
  BY <1>0 DEF HoldoffRecent
<1>3. Open = {}
  <2>1. CASE sqdone
    BY <1>0, <2>1 DEF Settled
  <2>2. CASE ~sqdone
    <3>1. sq.buildable \subseteq Processed(sq)
      BY <1>0, <2>2 DEF LastLook, Whole, OnlyMarked
    <3>2. SUFFICES ASSUME Open # {} PROVE FALSE
      OBVIOUS
    <3>3. PICK t \in Open : sq_revdeps[t] \cap Open = {}
      BY <3>2 DEF SceneAcyclic, Open
    <3>4. sq_revdeps[t] \subseteq Setscene
      BY <3>3, SetsceneAssumption DEF sq_revdeps, Open
    <3>5. sq_revdeps[t] \subseteq Processed(sq)
      BY <3>3, <3>4 DEF Open
    <3>6. QED
      BY <1>0, <3>1, <3>3, <3>5 DEF Whole, OpenReady, Open
  <2>3. QED
    BY <2>1, <2>2
<1>4. holdoff_tasks = {} /\ Tasks \subseteq tasks_covered \cup tasks_notcovered
      /\ (updated_taskhash_queue = {} => ~SceneQueueError)
  BY <1>2, <1>3, AllDecidedAbout
<1>5. can_start_task
  BY <1>0, <1>1 DEF can_start_task
<1>6. runq_buildable \cap Tasks \subseteq runq_running
  BY <1>0, <1>4, <1>5 DEF LastLook, Schedulable
<1>7. InFlight \subseteq failed_tids
  BY <1>0, <1>1 DEF Accounted
<1>8. \A r \in Tasks : depends[r] \subseteq runq_complete => r \in runq_complete \cup failed_tids
  <2> SUFFICES ASSUME NEW r \in Tasks, depends[r] \subseteq runq_complete
               PROVE  r \in runq_complete \cup failed_tids
    OBVIOUS
  <2>1. r \in runq_buildable
    BY <1>0, <1>4 DEF RealReady
  <2>2. QED
    BY <1>6, <1>7, <2>1 DEF InFlight
<1> DEFINE Lost == failed_tids \cup UNION {Above[t] : t \in failed_tids}
<1>9. Tasks \ runq_complete \subseteq Lost
  <2>1. SUFFICES ASSUME (Tasks \ runq_complete) \ Lost # {} PROVE FALSE
    OBVIOUS
  <2>2. PICK r \in (Tasks \ runq_complete) \ Lost :
              depends[r] \cap ((Tasks \ runq_complete) \ Lost) = {}
    BY <2>1, AcyclicAssumption
  <2>3. PICK d \in depends[r] : d \notin runq_complete
    BY <1>8, <2>2
  <2>4. d \in Tasks /\ d \in Lost /\ r \in revdeps[d]
    BY <2>2, <2>3, DependsAssumption DEF revdeps
  <2>5. PICK f \in failed_tids : d = f \/ d \in Above[f]
    BY <2>4
  <2>6. r \in Above[f]
    BY <1>0, <2>4, <2>5, AboveAbove DEF TypeOK
  <2>7. QED
    BY <2>2, <2>5, <2>6
<1>10. ASSUME failed_tids = {} PROVE ~SceneQueueError /\ AllTasksRan
  <2>1. updated_taskhash_queue = {}
    <3>1. \A x \in updated_taskhash_queue : x[1] \in InFlight
      BY <1>0 DEF ReportInv, InFlight
    <3>2. QED
      BY <1>7, <1>10, <3>1
  <2>2. Tasks \subseteq runq_complete
    BY <1>9, <1>10
  <2>3. QED
    BY <1>0, <1>4, <2>1, <2>2 DEF AllTasksRan, StartedFirst, RealReady
<1>11. QED
  BY <1>1, <1>9, <1>10

\* When a build has ended, the current call of execute() has, and no process is left.
Ended == state \in {"failed", "complete"} => pc = "begin" /\ Live = {}

\* Nothing happens any more.
LEMMA EndedQuiet ==
  ASSUME Ended, state \in {"failed", "complete"}, Next
  PROVE  UNCHANGED vars
  BY DEF Ended, Live, Next, Schedule, ReadWorker, WorkerExit, WorkerUniHash, TaskComplete,
         TaskFail, ReadPhase, SetsceneComplete, SetsceneFail, Execute, NothingToMigrate,
         ProcessTaskHashes, MigratePending, NoSetscene, SetsceneSkip, SetsceneFailOutright,
         SetsceneStart, NextSetscene, UpdateHoldoff, HoldoffCurrent, SceneQueueOpen,
         SceneQueueComplete, NoTask, RefuseTask, SkipTask, NoexecTask, StartTask, NextTask,
         FakerootSpawnFails, WaitForWorkers, ForceDeferred, EndOfBuild, Finish, StopBuild,
         FinishNow, Terminated

\* Only these steps end a build: the others leave it running or make it stop.
LEMMA StateSteps ==
  ASSUME Enforced = {}, FakerootFails = {}, EndInv, Next
  PROVE  \/ state' \in {state, "cleanup"}
         \/ EndOfBuild \/ Finish \/ FinishNow
         \/ SetsceneOnly /\ SceneQueueComplete
<1>1. CASE MigratePending
  BY <1>1, MigratePendingQueue DEF EndInv, ApartInv
<1>2. CASE SceneQueueComplete
  <2>1. ~sq.need /\ holdoff_tasks = {} /\ updated_taskhash_queue = {}
    BY <1>2 DEF SceneQueueComplete, SceneQueueIdle, EndInv, ApartInv, QueueInv, HoldoffRecent
  <2>2. Open = {}
    BY <2>1 DEF EndInv, ApartInv, QueueInv, HoldoffHolds, Holdoff, Open
  <2>3. ~SceneQueueError
    BY <2>1, <2>2, AllDecidedAbout
  <2>4. QED
    BY <1>2, <2>3 DEF SceneQueueComplete
<1>3. QED
  BY <1>1, <1>2
     DEF Next, Schedule, ReadWorker, WorkerExit, WorkerUniHash, TaskComplete, TaskFail, task_fail,
         SetsceneComplete, SetsceneFail, Execute, NothingToMigrate, ProcessTaskHashes,
         NoSetscene, SetsceneSkip, SetsceneFailOutright, SetsceneStart, UpdateHoldoff,
         HoldoffCurrent, SceneQueueOpen, NoTask, RefuseTask, SkipTask, NoexecTask, StartTask,
         FakerootSpawnFails, NoFakeroot, WaitForWorkers, ForceDeferred, StopBuild, Terminated,
         vars

\* A build that stops has no process left, if it waits for its processes.
LEMMA NextEnded ==
  ASSUME SceneAcyclic, Enforced = {}, FakerootFails = {}, ~SetsceneOnly, "now" \notin Interrupts,
         EndInv, Ended, Next
  PROVE  Ended'
<1>1. CASE state \in {"failed", "complete"}
  <2>1. UNCHANGED vars
    BY <1>1, EndedQuiet
  <2>2. QED
    BY <2>1 DEF Ended, Live, vars, workerVars
<1>2. CASE EndOfBuild
  <2>1. Live = {}
    BY <1>2, NothingMissing DEF EndOfBuild
  <2>2. QED
    BY <1>2, <2>1 DEF EndOfBuild, Ended, Live, workerVars
<1>3. CASE Finish
  <2>1. /\ IsFiniteSet(RealLive) /\ Cardinality(RealLive) \in Nat
        /\ IsFiniteSet(sq_live) /\ Cardinality(sq_live) \in Nat
        /\ active = Cardinality(RealLive)
    BY LiveFinite DEF EndInv, ApartInv, QueueInv, ActiveCounted
  <2>2. Cardinality(RealLive) = 0 /\ Cardinality(sq_live) = 0
    BY <1>3, <2>1 DEF Finish, StillActive
  <2>3. RealLive = {} /\ sq_live = {}
    BY <2>1, <2>2, FS_EmptySet
  <2>4. Live = {}
    BY <2>3 DEF RealLive
  <2>5. QED
    BY <1>3, <2>4 DEF Finish, Ended, Live, workerVars
<1>4. CASE state \notin {"failed", "complete"} /\ state' \in {state, "cleanup"}
  BY <1>4 DEF Ended
<1>5. QED
  BY <1>1, <1>2, <1>3, <1>4, StateSteps DEF FinishNow

\* A build of one configuration, without BB_SETSCENE_ENFORCE, whose setscene tasks do not
\* wait for each other in a circle, do not have stamps before what they hard-depend on, and
\* whose fakeroot workers can be spawned.
PlainBuild ==
  OneConfiguration /\ NoStampedHard /\ SceneAcyclic /\ Enforced = {} /\ FakerootFails = {}

\* A build fails only because a task has failed.  Whatever the workers report, in whatever
\* order, and wherever it is interrupted: the counter that finish() trusts counts the
\* processes of the real tasks, the sanity checks never find a task that was forgotten, a
\* scene queue that is not finished or a hold-off that is never lifted, and no migration
\* has to halt the build.
THEOREM FailsForAReason ==
  ASSUME PlainBuild, ~SetsceneOnly
  PROVE  Spec => []SoundBuild
<1>1. Init => NoInternalError
  BY DEF Init, NoInternalError
<1>2. EndInv /\ NoInternalError /\ [Next]_vars => NoInternalError'
  <2> SUFFICES ASSUME EndInv, NoInternalError, [Next]_vars, state' = "failed"
               PROVE  failed_tids' # {}
    BY DEF NoInternalError
  <2>1. CASE UNCHANGED vars
    BY <2>1 DEF NoInternalError, vars, runqVars
  <2>2. CASE EndOfBuild
    <3>1. pc = "wait" /\ ~Busy /\ failed_tids' = failed_tids
      BY <2>2 DEF EndOfBuild, runqVars
    <3>2. failed_tids = {} => ~SceneQueueError /\ AllTasksRan
      BY <3>1, NothingMissing DEF PlainBuild
    <3>3. QED
      BY <2>2, <3>1, <3>2 DEF EndOfBuild
  <2>3. CASE Finish \/ FinishNow
    BY <2>3 DEF Finish, FinishNow, Outcome, runqVars
  <2>4. CASE Next /\ state' = state
    <3>1. failed_tids \subseteq failed_tids'
      <4>1. CASE MigratePending
        BY <4>1, MigratePendingQueue DEF EndInv, ApartInv
      <4>2. QED
        BY <2>4, <4>1
           DEF Next, Schedule, ReadWorker, WorkerExit, WorkerUniHash, TaskComplete, TaskFail,
               task_fail, SetsceneComplete, SetsceneFail, Execute, NothingToMigrate,
               ProcessTaskHashes, NoSetscene, SetsceneSkip, SetsceneFailOutright,
               SetsceneStart, UpdateHoldoff, HoldoffCurrent, SceneQueueOpen,
               SceneQueueComplete, NoTask, RefuseTask, SkipTask, NoexecTask, StartTask,
               FakerootSpawnFails, WaitForWorkers, ForceDeferred, EndOfBuild, Finish,
               StopBuild, FinishNow, Terminated, vars, runqVars
    <3>2. QED
      BY <2>4, <3>1 DEF NoInternalError
  <2>5. QED
    BY <2>1, <2>2, <2>3, <2>4, StateSteps DEF PlainBuild
<1>3. EndInv /\ NoInternalError /\ NoHalt => SoundBuild
  BY DEF EndInv, SoundBuild
<1>4. Spec => []EndInv
  BY EndInvariance DEF PlainBuild
<1>5. QED
  BY <1>1, <1>2, <1>3, <1>4, NeverHalted, PTL DEF Spec

\* A task has one process at most, of one of its two kinds, and a build that is not cut
\* off ends only when all its processes have, also after a failure and after the user
\* has stopped it: finish() does not lose count.
THEOREM NothingLeftBehind ==
  ASSUME PlainBuild, ~SetsceneOnly, "now" \notin Interrupts
  PROVE  Spec => []OneProcess
<1>1. Init => Ended
  BY DEF Init, Ended
<1>2. EndInv /\ Ended /\ [Next]_vars => Ended'
  <2> SUFFICES ASSUME EndInv, Ended, [Next]_vars PROVE Ended'
    OBVIOUS
  <2>1. CASE UNCHANGED vars
    BY <2>1 DEF Ended, Live, vars, workerVars
  <2>2. QED
    BY <2>1, NextEnded DEF PlainBuild
<1>3. Ended /\ OneVariant => OneProcess
  BY DEF Ended, NoOrphans, OneProcess
<1>4. Spec => []EndInv
  BY EndInvariance DEF PlainBuild
<1>5. Spec => []OneVariant
  BY UnpackedOrBuilt DEF PlainBuild
<1>6. QED
  BY <1>1, <1>2, <1>3, <1>4, <1>5, PTL DEF Spec

\* "As much as possible will be built before stopping": with bitbake -k, what is missing
\* in the end is what has failed and what depends on it.
THEOREM BuiltAsMuchAsPossible ==
  ASSUME PlainBuild, ~SetsceneOnly, ~Halt, Interrupts = {}
  PROVE  Spec => []KeepGoing
<1> DEFINE K == state # "cleanup" /\ Ended /\ KeepGoing
<1>1. Init => K
  BY DEF Init, Ended, KeepGoing
<1>2. EndInv /\ K /\ [Next]_vars => K'
  <2> SUFFICES ASSUME EndInv, K, [Next]_vars PROVE K'
    OBVIOUS
  <2>1. CASE UNCHANGED vars
    BY <2>1 DEF Ended, KeepGoing, Live, vars, runqVars, workerVars
  <2>2. CASE Next
    <3>1. Ended'
      BY <2>2, NextEnded DEF PlainBuild
    <3>2. state' # "cleanup"
      <4>1. CASE MigratePending
        BY <4>1, MigratePendingQueue DEF EndInv, ApartInv
      <4>2. QED
        BY <2>2, <4>1
           DEF PlainBuild, Next, Schedule, ReadWorker, WorkerExit, WorkerUniHash, TaskComplete,
               TaskFail, task_fail, SetsceneComplete, SetsceneFail, Execute, NothingToMigrate,
               ProcessTaskHashes, NoSetscene, SetsceneSkip, SetsceneFailOutright,
               SetsceneStart, UpdateHoldoff, HoldoffCurrent, SceneQueueOpen,
               SceneQueueComplete, NoTask, RefuseTask, SkipTask, NoexecTask, StartTask,
               FakerootSpawnFails, WaitForWorkers, ForceDeferred, EndOfBuild, Finish, Outcome,
               StopBuild, FinishNow, Terminated, vars
    <3>3. KeepGoing'
      <4>1. CASE state \in {"failed", "complete"}
        <5>1. UNCHANGED vars
          BY <2>2, <4>1, EndedQuiet
        <5>2. QED
          BY <5>1 DEF KeepGoing, vars, runqVars
      <4>2. CASE EndOfBuild
        <5>1. /\ pc = "wait" /\ ~Busy
              /\ UNCHANGED <<runq_complete, failed_tids>>
          BY <4>2 DEF EndOfBuild, runqVars
        <5>2. Tasks \ runq_complete \subseteq
                failed_tids \cup UNION {Above[t] : t \in failed_tids}
          BY <5>1, NothingMissing DEF PlainBuild
        <5>3. QED
          BY <5>1, <5>2 DEF KeepGoing
      <4>3. CASE state \notin {"failed", "complete"} /\ state' = state
        BY <4>3 DEF KeepGoing
      <4>4. ~Finish /\ ~FinishNow
        BY DEF Finish, FinishNow
      <4>5. QED
        BY <2>2, <3>2, <4>1, <4>2, <4>3, <4>4, StateSteps DEF PlainBuild
    <3>4. QED
      BY <3>1, <3>2, <3>3
  <2>3. QED
    BY <2>1, <2>2
<1>3. K => KeepGoing
  OBVIOUS
<1> HIDE DEF K
<1>4. Spec => []EndInv
  BY EndInvariance DEF PlainBuild
<1>5. QED
  BY <1>1, <1>2, <1>3, <1>4, PTL DEF Spec
=============================================================================
