----------------------------- MODULE TaskGraph -----------------------------
(* What a run queue promises about a task graph, whatever its scene queue,    *)
(* its scheduler and its hash server do: a task starts once, after all its    *)
(* dependencies are done, and a task that is done stays done.                 *)
CONSTANTS Tasks, depends

VARIABLES started, done

vars == <<started, done>>

Init == started = {} /\ done = {}

CanStart(t) == t \in Tasks \ started /\ depends[t] \subseteq done

\* t need not execute: it is covered, stamped or noexec.
Skip(t) ==
  /\ CanStart(t)
  /\ started' = started \cup {t}
  /\ done' = done \cup {t}

Start(t) ==
  /\ CanStart(t)
  /\ started' = started \cup {t}
  /\ UNCHANGED done

\* A task that fails is started and never done.
Finish(t) ==
  /\ t \in started
  /\ done' = done \cup {t}
  /\ UNCHANGED started

Next == \E t \in Tasks : Skip(t) \/ Start(t) \/ Finish(t)

Spec == Init /\ [][Next]_vars
=============================================================================
