----------------------------- MODULE ParserPool -----------------------------
(* Parallel recipe parsing (cooker.py: Parser, CookerParser): the server       *)
(* starts a process per list of recipes, takes their results from one          *)
(* multiprocessing queue and stops them by tokens, signals and joins.          *)
(*                                                                             *)
(* A queue is a pipe and, per process, a buffer with a feeder thread that      *)
(* writes it to the pipe under a lock shared by all processes.  Events go to   *)
(* the user interface through another pipe, whose lock all processes share     *)
(* with the server; the user interface always reads.                           *)
EXTENDS Naturals, FiniteSets, Sequences

CONSTANTS Parsers, Recipes,
          Jobs,        \* Jobs[p]: the recipes of parser p
          MayFail,     \* recipes that may fail to parse
          None,
          PipeSize,    \* results that fit into the pipe of the result queue
          MaxEvents,   \* bound: events a parser sends
          MaxKills     \* bound: parsers killed from outside

Failed == "failed"   \* a result that is an exception

ASSUME PoolAssumption ==
  /\ IsFiniteSet(Parsers) /\ Failed \notin Recipes
  /\ Jobs \in [Parsers -> SUBSET Recipes]
  /\ \A r \in Recipes : \E p \in Parsers : r \in Jobs[p]
  /\ \A p, q \in Parsers : p # q => Jobs[p] \cap Jobs[q] = {}
  /\ MayFail \subseteq Recipes /\ None \notin Parsers \cup Recipes
  /\ PipeSize \in Nat \ {0} /\ MaxEvents \in Nat /\ MaxKills \in Nat

VARIABLES bad,        \* the recipes that fail to parse
          jobs, pc, recipe,   \* per parser: its list, where it is, what it parses
          buffer,     \* per parser: results its feeder thread has not written
          sigs,       \* per parser: signals not yet delivered
          deferred,   \* per parser: signal_received
          muted,      \* per parser: the handler of the user interface is removed
          events,     \* per parser: events sent
          wlock,      \* write lock of the result queue
          elock,      \* write lock of the event pipe
          pipe,       \* results in the pipe
          tokens,     \* in parser_quit
          main,       \* where the server is
          processes,  \* CookerParser.processes
          empty,      \* of parse_generator
          parsed,     \* recipes whose results were taken
          error,      \* CookerParser.error > 0
          haveshutdown,
          asked,      \* whether a client has requested a shutdown: "no", "now", "before"
          outcome,    \* of updateCache: "none", "running", "error", "stopped"
          kills

parserVars == <<jobs, pc, recipe, buffer, events>>
signalVars == <<sigs, deferred, muted>>
queueVars  == <<wlock, elock, pipe, tokens>>
serverVars == <<main, processes, empty, parsed, error, haveshutdown, asked, outcome>>
vars == <<bad, parserVars, signalVars, queueVars, serverVars, kills>>

Alive(p) == pc[p] # "dead"

Result == Recipes \cup {Failed}

Init ==
  /\ bad \in SUBSET MayFail
  /\ jobs = Jobs /\ pc = [p \in Parsers |-> "poll"] /\ recipe = [p \in Parsers |-> None]
  /\ buffer = [p \in Parsers |-> <<>>] /\ events = [p \in Parsers |-> 0]
  /\ sigs = [p \in Parsers |-> {}] /\ deferred = [p \in Parsers |-> <<>>]
  /\ muted = [p \in Parsers |-> FALSE]
  /\ wlock = None /\ elock = None /\ pipe = <<>> /\ tokens = 0
  /\ main = "generator" /\ processes = Parsers /\ empty = FALSE
  /\ parsed = {} /\ error = FALSE /\ haveshutdown = FALSE
  /\ asked = "no" /\ outcome = "none"
  /\ kills = 0

-----------------------------------------------------------------------------
(* Parser processes *)

Goto(p, step) == pc' = [pc EXCEPT ![p] = step]

\* Process p is gone with all it has.
Gone(p) ==
  /\ Goto(p, "dead")
  /\ jobs' = [jobs EXCEPT ![p] = {}] /\ recipe' = [recipe EXCEPT ![p] = None]
  /\ buffer' = [buffer EXCEPT ![p] = <<>>] /\ events' = [events EXCEPT ![p] = 0]
  /\ sigs' = [sigs EXCEPT ![p] = {}] /\ deferred' = [deferred EXCEPT ![p] = <<>>]
  /\ muted' = [muted EXCEPT ![p] = FALSE]

\* realrun takes a token of parser_quit and leaves its loop.
Quit(p) ==
  /\ pc[p] = "poll" /\ tokens > 0
  /\ tokens' = tokens - 1
  /\ Goto(p, "closing")
  /\ UNCHANGED <<bad, jobs, recipe, buffer, events, signalVars, wlock, elock, pipe, serverVars, kills>>

\* get_nowait() has found no token, or another process at the queue.
NextJob(p) ==
  /\ pc[p] = "poll"
  /\ IF jobs[p] = {} THEN Goto(p, "closing") /\ UNCHANGED <<jobs, recipe>>
     ELSE \E r \in jobs[p] : /\ jobs' = [jobs EXCEPT ![p] = @ \ {r}]
                             /\ recipe' = [recipe EXCEPT ![p] = r]
                             /\ Goto(p, "parsing")
  /\ UNCHANGED <<bad, buffer, events, signalVars, queueVars, serverVars, kills>>

Put(p, result) ==
  /\ buffer' = [buffer EXCEPT ![p] = Append(@, result)]
  /\ recipe' = [recipe EXCEPT ![p] = None]
  /\ Goto(p, "poll")

\* parse() returns, with the recipe or with an exception; the queue has no limit,
\* so that results.put never times out.
Parsed(p) ==
  /\ pc[p] = "parsing"
  /\ Put(p, IF recipe[p] \in bad THEN Failed ELSE recipe[p])
  /\ UNCHANGED <<bad, jobs, events, signalVars, queueVars, serverVars, kills>>

\* ConnectionWriter.send: signals are queued from here on.
SendEvent(p) ==
  /\ pc[p] = "parsing" /\ ~muted[p] /\ events[p] < MaxEvents
  /\ events' = [events EXCEPT ![p] = @ + 1]
  /\ Goto(p, "sending")
  /\ UNCHANGED <<bad, jobs, recipe, buffer, signalVars, queueVars, serverVars, kills>>

LockEvents(p) ==
  /\ pc[p] = "sending" /\ elock = None
  /\ elock' = p
  /\ UNCHANGED <<bad, parserVars, signalVars, wlock, pipe, tokens, serverVars, kills>>

\* After the write: signal_received.pop() gives a number, and the loop over it
\* raises TypeError, which fire_ui_handlers answers by dropping its handler.
Sent(p) ==
  /\ pc[p] = "sending" /\ elock = p
  /\ elock' = None
  /\ IF deferred[p] = <<>> THEN UNCHANGED <<deferred, muted>>
     ELSE /\ deferred' = [deferred EXCEPT ![p] = SubSeq(@, 1, Len(@) - 1)]
          /\ muted' = [muted EXCEPT ![p] = TRUE]
  /\ Goto(p, "parsing")
  /\ UNCHANGED <<bad, jobs, recipe, buffer, events, sigs, wlock, pipe, tokens, serverVars, kills>>

\* The feeder thread
Feed(p) ==
  /\ Alive(p) /\ buffer[p] # <<>> /\ wlock = None
  /\ wlock' = p
  /\ UNCHANGED <<bad, parserVars, signalVars, elock, pipe, tokens, serverVars, kills>>

Fed(p) ==
  /\ Alive(p) /\ wlock = p /\ Len(pipe) < PipeSize
  /\ pipe' = Append(pipe, Head(buffer[p]))
  /\ buffer' = [buffer EXCEPT ![p] = Tail(@)]
  /\ wlock' = None
  /\ UNCHANGED <<bad, jobs, pc, recipe, events, signalVars, elock, tokens, serverVars, kills>>

\* results.join_thread() returns when the feeder has written everything.
Exit(p) ==
  /\ pc[p] = "closing" /\ buffer[p] = <<>>
  /\ Gone(p)
  /\ UNCHANGED <<bad, queueVars, serverVars, kills>>

\* Mutant of Queues: signals are always handled at once.
QueuesNever(p) == FALSE

\* queue_signals
Queues(p) == pc[p] = "sending"

\* catch_sig: SIGTERM kills; SIGINT raises KeyboardInterrupt, which parse() turns
\* into a result, which ends the loop, and which closing does not notice for long:
\* the exit functions wait for the feeder again.
Deliver(p, s) ==
  /\ Alive(p) /\ s \in sigs[p]
  /\ s = "TERM" => "INT" \notin sigs[p]   \* in the order of their numbers
  /\ \/ /\ Queues(p)
        /\ deferred' = [deferred EXCEPT ![p] = Append(@, s)]
        /\ sigs' = [sigs EXCEPT ![p] = @ \ {s}]
        /\ UNCHANGED <<parserVars, muted>>
     \/ ~Queues(p) /\ s = "TERM" /\ Gone(p)
     \/ /\ ~Queues(p) /\ s = "INT"
        /\ IF pc[p] \in {"parsing", "sending"} THEN Put(p, Failed)
           ELSE Goto(p, "closing") /\ UNCHANGED <<recipe, buffer>>
        /\ sigs' = [sigs EXCEPT ![p] = @ \ {s}]
        /\ UNCHANGED <<jobs, events, deferred, muted>>
  /\ UNCHANGED <<bad, queueVars, serverVars, kills>>

\* Killed by the kernel, outside of the two locks.
Kill(p) ==
  /\ Alive(p) /\ kills < MaxKills /\ p \notin {elock, wlock}
  /\ Gone(p)
  /\ kills' = kills + 1
  /\ UNCHANGED <<bad, queueVars, serverVars>>

-----------------------------------------------------------------------------
(* The server *)

\* Mutant of Continue: the generator ends with the last process.
ContinueAlive == processes # {}

\* parse_generator: while self.processes or not empty
Continue == processes # {} \/ ~empty

Complete == parsed = Recipes   \* self.parsed >= self.toparse

\* Which shutdown() the end of the generator leads to.
Verdict == IF Complete THEN "clean" ELSE "unclean"

Finish(verdict) == /\ main' = verdict
                   /\ error' = (error \/ verdict = "unclean")

\* One turn of the generator up to the wait for a result.  A resumed generator whose
\* processes were closed meanwhile raises ValueError.
Generate ==
  /\ main = "generator"
  /\ IF ~Continue THEN Finish(Verdict) /\ UNCHANGED processes
     ELSE IF haveshutdown /\ processes # {} THEN Finish("unclean") /\ UNCHANGED processes
     ELSE /\ processes' = {p \in processes : Alive(p)}
          /\ IF Complete THEN Finish(Verdict) ELSE main' = "get" /\ UNCHANGED error
  /\ UNCHANGED <<bad, parserVars, signalVars, queueVars, empty, parsed, haveshutdown,
                 asked, outcome, kills>>

Take ==
  /\ main = "get" /\ pipe # <<>>
  /\ pipe' = Tail(pipe)
  /\ empty' = FALSE
  /\ IF Head(pipe) = Failed
     THEN Finish("unclean") /\ UNCHANGED parsed
     ELSE parsed' = parsed \cup {Head(pipe)} /\ main' = "progress" /\ UNCHANGED error
  /\ UNCHANGED <<bad, parserVars, signalVars, wlock, elock, tokens, processes, haveshutdown,
                 asked, outcome, kills>>

\* Nothing for a quarter of a second.
TimedOut ==
  /\ main = "get" /\ pipe = <<>>
  /\ main' = "generator" /\ empty' = TRUE
  /\ UNCHANGED <<bad, parserVars, signalVars, queueVars, processes, parsed, error, haveshutdown,
                 asked, outcome, kills>>

\* ParseProgress is an event and takes the lock of the event pipe.
Progress ==
  /\ main = "progress" /\ elock = None
  /\ main' = "generator"
  /\ UNCHANGED <<bad, parserVars, signalVars, queueVars, processes, empty, parsed, error,
                 haveshutdown, asked, outcome, kills>>

\* stateShutdown or stateForceShutdown between two calls of the idle function
AskShutdown ==
  /\ main = "generator" /\ outcome = "none"
  /\ asked' = "now"
  /\ main' \in {"clean", "unclean"}
  /\ UNCHANGED <<bad, parserVars, signalVars, queueVars, processes, empty, parsed, error,
                 haveshutdown, outcome, kills>>

Once == ~haveshutdown

\* shutdown(): an event, then a token for each process.
Shutdown ==
  /\ main \in {"clean", "unclean"}
  /\ IF Once
     THEN /\ elock = None
          /\ haveshutdown' = TRUE
          /\ tokens' = tokens + Cardinality(processes)
          /\ main' = "drain"
     ELSE main' = "done" /\ UNCHANGED <<haveshutdown, tokens>>
  /\ UNCHANGED <<bad, parserVars, signalVars, wlock, elock, pipe, processes, empty, parsed, error,
                 asked, outcome, kills>>

Drain ==
  /\ main = "drain"
  /\ IF pipe = <<>> THEN main' = "interrupt" /\ UNCHANGED pipe
     ELSE pipe' = Tail(pipe) /\ UNCHANGED main
  /\ UNCHANGED <<bad, parserVars, signalVars, wlock, elock, tokens, processes, empty, parsed,
                 error, haveshutdown, asked, outcome, kills>>

Signal(s) == sigs' = [p \in Parsers |-> IF p \in processes /\ Alive(p) THEN sigs[p] \cup {s}
                                       ELSE sigs[p]]

\* After half a second per process
Interrupt ==
  /\ main = "interrupt"
  /\ Signal("INT")
  /\ main' = "terminate"
  /\ UNCHANGED <<bad, parserVars, deferred, muted, queueVars, processes, empty, parsed, error,
                 haveshutdown, asked, outcome, kills>>

\* Mutant of Terminate: SIGINT has to do.
TerminateNot ==
  /\ main = "terminate"
  /\ main' = "join"
  /\ UNCHANGED <<bad, parserVars, signalVars, queueVars, processes, empty, parsed, error,
                 haveshutdown, asked, outcome, kills>>

\* and again
Terminate ==
  /\ main = "terminate"
  /\ Signal("TERM")
  /\ main' = "join"
  /\ UNCHANGED <<bad, parserVars, deferred, muted, queueVars, processes, empty, parsed, error,
                 haveshutdown, asked, outcome, kills>>

\* process.join()
Joined == \A p \in processes : ~Alive(p)

Join ==
  /\ main = "join" /\ Joined
  /\ main' = "done"
  /\ UNCHANGED <<bad, parserVars, signalVars, queueVars, processes, empty, parsed, error,
                 haveshutdown, asked, outcome, kills>>

\* updateCache after parse_next() has returned False, or in a state of shutdown
Done ==
  /\ main = "done"
  /\ main' = "idle"
  /\ outcome' = IF asked = "now" THEN "stopped" ELSE IF error THEN "error" ELSE "running"
  /\ UNCHANGED <<bad, parserVars, signalVars, queueVars, processes, empty, parsed, error,
                 haveshutdown, asked, kills>>

\* The client goes on with a command: finishcommand() has made the state initial,
\* parsecache_valid is still set, and the old generator is resumed.
Again ==
  /\ main = "idle" /\ outcome = "stopped"
  /\ main' = "generator" /\ outcome' = "none" /\ asked' = "before"
  /\ UNCHANGED <<bad, parserVars, signalVars, queueVars, processes, empty, parsed, error,
                 haveshutdown, kills>>

-----------------------------------------------------------------------------

ParserStep(p) == Quit(p) \/ NextJob(p) \/ Parsed(p) \/ LockEvents(p) \/ Sent(p) \/ Exit(p)
Feeder(p) == Feed(p) \/ Fed(p)
Delivery(p) == \E s \in {"INT", "TERM"} : Deliver(p, s)
ServerStep == Generate \/ Take \/ TimedOut \/ Progress \/ Shutdown \/ Drain
                \/ Interrupt \/ Terminate \/ Join \/ Done

Next ==
  \/ \E p \in Parsers : ParserStep(p) \/ SendEvent(p) \/ Feeder(p) \/ Delivery(p) \/ Kill(p)
  \/ ServerStep \/ AskShutdown \/ Again

\* Processes and threads run, and parsing a recipe ends.
Fairness ==
  /\ WF_vars(ServerStep)
  /\ \A p \in Parsers : WF_vars(ParserStep(p)) /\ WF_vars(Feeder(p)) /\ WF_vars(Delivery(p))

Spec == Init /\ [][Next]_vars /\ Fairness

-----------------------------------------------------------------------------
(* Properties *)

TypeOK ==
  /\ bad \subseteq Recipes
  /\ jobs \in [Parsers -> SUBSET Recipes]
  /\ pc \in [Parsers -> {"poll", "parsing", "sending", "closing", "dead"}]
  /\ recipe \in [Parsers -> Recipes \cup {None}]
  /\ buffer \in [Parsers -> Seq(Result)]
  /\ events \in [Parsers -> 0..MaxEvents]
  /\ sigs \in [Parsers -> SUBSET {"INT", "TERM"}]
  /\ deferred \in [Parsers -> Seq({"INT", "TERM"})]
  /\ muted \in [Parsers -> BOOLEAN]
  /\ wlock \in Parsers \cup {None} /\ elock \in Parsers \cup {None}
  /\ pipe \in Seq(Result) /\ Len(pipe) <= PipeSize
  \* the size of parser_quit, beyond which put() would block
  /\ tokens \in 0..Cardinality(Parsers)
  /\ main \in {"generator", "get", "progress", "clean", "unclean", "drain", "interrupt",
               "terminate", "join", "done", "idle"}
  /\ processes \subseteq Parsers
  /\ parsed \subseteq Recipes
  /\ {empty, error, haveshutdown} \subseteq BOOLEAN
  /\ asked \in {"no", "now", "before"}
  /\ outcome \in {"none", "running", "error", "stopped"}
  /\ kills \in Nat

\* "We must not terminate any process or thread holding the write lock for the event
\* stream as it will not be released, ever" (cooker.py:2081-2083)
EventLockReleased == elock # None => Alive(elock)

\* The server goes on to build only with the recipes of all parsers, whoever was
\* killed, and whatever was stopped and resumed before.
AllParsed == outcome = "running" => parsed = Recipes

\* Parsing fails only for a reason: a recipe, a killed parser or a requested shutdown.
\* Results still in the queue when their parser has left are not lost.
NoFalseError == outcome = "error" => bad # {} \/ kills > 0 \/ asked # "no"

\* When updateCache has an outcome no parser process is left.
NoneLeft == outcome # "none" => \A p \in Parsers : ~Alive(p)

\* What updateCache reports is what happened.
OutcomeRight == AllParsed /\ NoFalseError

\* Stopping and killing parsers leaves nothing behind: no lock, no process.
NothingLeft == TypeOK /\ EventLockReleased /\ NoneLeft

\* Parsing and every shutdown of it ends, also with parsers that were killed and with
\* results nobody reads, unless a signal reaches a parser while it sends an event.
EndsUndeferred ==
  [](\A p \in Parsers : deferred[p] = <<>> /\ ~muted[p]) => []<>(outcome # "none")

\* The same without the exception: signals are queued during a write to be handled
\* after it (cooker.py:2084-2087, server/process.py:750-753).
ParseEnds == []<>(outcome # "none")
=============================================================================
