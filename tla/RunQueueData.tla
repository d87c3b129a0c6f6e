---------------------------- MODULE RunQueueData ----------------------------
(* The static data of one bitbake run queue: the task graph that              *)
(* RunQueueData.prepare() leaves behind and the scene queue that              *)
(* build_scenequeue_data() derives from it.                                   *)
EXTENDS Naturals, FiniteSets

CONSTANTS Tasks,             \* tids, numbered: "sorted" is the order of numbers
          depends,           \* runtaskentries[t].depends
          Setscene,          \* runq_setscene_tids
          Targets,           \* target_tids
          SetsceneDepends    \* setscene tids t_setscene[depends] names

ASSUME TasksAssumption == Tasks \subseteq Nat /\ IsFiniteSet(Tasks)
ASSUME DependsAssumption == depends \in [Tasks -> SUBSET Tasks]
ASSUME SetsceneAssumption ==
  /\ Setscene \subseteq Tasks
  /\ Targets \subseteq Tasks
  /\ SetsceneDepends \in [Setscene -> SUBSET Setscene]

\* prepare() refuses a graph with a dependency loop.
ASSUME AcyclicAssumption ==
  \A S \in SUBSET Tasks : S # {} => \E t \in S : depends[t] \cap S = {}

revdeps == [t \in Tasks |-> {r \in Tasks : t \in depends[r]}]

\* All tasks that depend on t, directly or not.
Above[t \in Tasks] == UNION {{r} \cup Above[r] : r \in revdeps[t]}

\* What t depends on, down to and including the first setscene tasks.
Below[t \in Tasks] ==
  UNION {{d} \cup (IF d \in Setscene THEN {} ELSE Below[d]) : d \in depends[t]}

\* The normal tasks a setscene task covers.
sq_covered_tasks == [t \in Setscene |-> Below[t] \ Setscene]

\* Setscene tasks that hard-depend on t (sq_harddeps[t]).
sq_harddeps == [t \in Setscene |-> {d \in Setscene : t \in SetsceneDepends[d]}]

\* A task somebody hard-depends on loses the reverse dependencies of the graph.
sq_revdeps ==
  [t \in Setscene |->
     SetsceneDepends[t] \cup
       (IF sq_harddeps[t] # {} THEN {} ELSE {s \in Setscene : t \in Below[s]})]

sq_deps == [t \in Setscene |-> {d \in Setscene : t \in sq_revdeps[d]}]

cantskip == Targets \ Setscene

\* Tasks the build needs whatever is covered, up to the first setscene tasks.
unskippable ==
  LET roots == {t \in Tasks : revdeps[t] = {}} \cup cantskip
  IN  roots \cup UNION {Below[t] : t \in roots \ Setscene}
=============================================================================
