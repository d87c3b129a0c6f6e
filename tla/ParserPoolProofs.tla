--------------------------- MODULE ParserPoolProofs ---------------------------
(* For any number of parsers, recipes and results in the pipe, and for parsers *)
(* that are killed at any time: no lock of the event stream is lost, no parser *)
(* outlives the parsing, and what updateCache reports is what happened.        *)
(*                                                                             *)
(* That parsing does not fail without a reason is the hard part: no recipe may *)
(* get lost between the list of its parser and the count of the server, and    *)
(* the server may give up only when the pipe is empty for good.  The invariant *)
(* says where every recipe is (Accounted) and when the pipe stays empty        *)
(* (EmptyInv), as long as nobody was killed and no shutdown has begun.         *)
EXTENDS ParserPool, SequenceTheorems, FiniteSetTheorems, TLAPS

In(x, s) == \E i \in 1..Len(s) : s[i] = x

\* Where parsers are with a recipe, and what a dead one leaves.
ParserInv ==
  \A p \in Parsers :
    /\ pc[p] \in {"parsing", "sending"} => recipe[p] \in Recipes
    /\ pc[p] = "poll" => recipe[p] = None
    /\ pc[p] = "dead" => jobs[p] = {} /\ recipe[p] = None /\ buffer[p] = <<>>
    /\ p \notin processes => pc[p] = "dead"

\* Who holds a lock uses it.
LockInv ==
  /\ elock # None => pc[elock] = "sending"
  /\ wlock # None => pc[wlock] = "dead" \/ buffer[wlock] # <<>>

\* Before a shutdown there are no tokens and no signals, and parsers only leave when
\* they have done their list.
CalmInv ==
  ~haveshutdown =>
    /\ tokens = 0
    /\ \A p \in Parsers : sigs[p] = {} /\ (pc[p] = "closing" => jobs[p] = {} /\ recipe[p] = None)

\* shutdown() is over only when every parser has been joined.
ShutdownInv ==
  /\ main \in {"drain", "interrupt", "terminate", "join", "done", "idle"} => haveshutdown
  /\ haveshutdown /\ main \notin {"drain", "interrupt", "terminate", "join"} =>
       \A p \in Parsers : pc[p] = "dead"
  /\ haveshutdown /\ main \in {"generator", "get", "progress", "clean", "unclean"} => asked # "no"
  /\ outcome # "none" => main = "idle"

\* Without an error or a request the generator ends with all recipes.
EndInv ==
  /\ main \notin {"generator", "get", "progress"} /\ ~error /\ asked # "now" => parsed = Recipes
  /\ outcome = "running" => ~error /\ asked # "now"
  /\ outcome = "error" => error

Excused == bad # {} \/ kills > 0 \/ asked # "no"

\* Errors have a reason.
ErrorInv ==
  /\ error => Excused
  /\ bad = {} /\ ~haveshutdown =>
       ~In(Failed, pipe) /\ \A p \in Parsers : ~In(Failed, buffer[p])

\* A recipe is counted, on its way or in the list of its parser.
Accounted ==
  bad = {} /\ kills = 0 /\ ~haveshutdown =>
    \A r \in Recipes :
      \/ r \in parsed \/ In(r, pipe)
      \/ \E p \in Parsers : r \in jobs[p] \/ recipe[p] = r \/ In(r, buffer[p])

\* When the last parser has gone and a wait for results was in vain there are none.
EmptyInv ==
  ~haveshutdown /\ main \in {"generator", "progress"} /\ processes = {} /\ empty => pipe = <<>>

IInv ==
  /\ TypeOK /\ ParserInv /\ LockInv /\ CalmInv /\ ShutdownInv
  /\ EndInv /\ ErrorInv /\ Accounted /\ EmptyInv

\* What is in a queue after an element was added or taken.
LEMMA InAppend ==
  ASSUME NEW S, NEW s \in Seq(S), NEW e \in S, NEW x
  PROVE  In(x, Append(s, e)) <=> In(x, s) \/ x = e
<1>1. /\ Len(s) \in Nat /\ Len(Append(s, e)) = Len(s) + 1
      /\ \A i \in 1..Len(s) : Append(s, e)[i] = s[i]
      /\ Append(s, e)[Len(s) + 1] = e
  BY AppendProperties
<1>2. QED
  BY <1>1 DEF In

LEMMA InTail ==
  ASSUME NEW S, NEW s \in Seq(S), s # <<>>, NEW x
  PROVE  In(x, s) <=> x = Head(s) \/ In(x, Tail(s))
<1>1. /\ Len(s) \in Nat \ {0} /\ Len(Tail(s)) = Len(s) - 1
      /\ \A i \in 1..Len(Tail(s)) : Tail(s)[i] = s[i + 1]
      /\ Head(s) = s[1]
  BY HeadTailProperties
<1>2. ASSUME In(x, s) PROVE x = Head(s) \/ In(x, Tail(s))
  <2>1. PICK i \in 1..Len(s) : s[i] = x
    BY <1>2 DEF In
  <2>2. i = 1 \/ (i - 1 \in 1..Len(Tail(s)) /\ Tail(s)[i - 1] = x)
    BY <1>1, <2>1
  <2>3. QED
    BY <1>1, <2>1, <2>2 DEF In
<1>3. ASSUME x = Head(s) \/ In(x, Tail(s)) PROVE In(x, s)
  <2>1. CASE x = Head(s)
    BY <1>1, <2>1 DEF In
  <2>2. CASE In(x, Tail(s))
    <3>1. PICK i \in 1..Len(Tail(s)) : Tail(s)[i] = x
      BY <2>2 DEF In
    <3>2. i + 1 \in 1..Len(s) /\ s[i + 1] = x
      BY <1>1, <3>1
    <3>3. QED
      BY <3>2 DEF In
  <2>3. QED
    BY <1>3, <2>1, <2>2
<1>4. QED
  BY <1>2, <1>3

LEMMA InEmpty ==
  ASSUME NEW x
  PROVE  ~In(x, <<>>)
BY DEF In

\* One step of parser p or of the server.
AnyStep(p) ==
  \/ p \in Parsers /\ (ParserStep(p) \/ SendEvent(p) \/ Feeder(p) \/ Delivery(p) \/ Kill(p))
  \/ ServerStep \/ AskShutdown \/ Again

\* A parser is with a recipe while it parses, and a dead one has nothing.
LEMMA StepParsers ==
  ASSUME TypeOK, ParserInv, NEW p, AnyStep(p)
  PROVE  ParserInv'
<1> USE PoolAssumption DEF TypeOK, ParserInv,
    parserVars, signalVars, queueVars, serverVars
<1>1. CASE p \in Parsers /\ Quit(p)
  BY <1>1 DEF Quit, Goto
<1>2. CASE p \in Parsers /\ NextJob(p)
  <2>1. CASE jobs[p] = {}
    BY <1>2, <2>1 DEF NextJob, Goto
  <2>2. CASE jobs[p] # {}
    <3>1. PICK r \in jobs[p] : /\ jobs' = [jobs EXCEPT ![p] = @ \ {r}]
                               /\ recipe' = [recipe EXCEPT ![p] = r] /\ Goto(p, "parsing")
      BY <1>2, <2>2 DEF NextJob
    <3>2. r \in Recipes
      BY <1>2, <3>1
    <3>3. QED
      BY <1>2, <3>1, <3>2 DEF NextJob, Goto
  <2>3. QED
    BY <2>1, <2>2
<1>3. CASE p \in Parsers /\ Parsed(p)
  BY <1>3 DEF Parsed, Goto, Put
<1>4. CASE p \in Parsers /\ SendEvent(p)
  BY <1>4 DEF SendEvent, Goto
<1>5. CASE p \in Parsers /\ LockEvents(p)
  BY <1>5 DEF LockEvents
<1>6. CASE p \in Parsers /\ Sent(p)
  BY <1>6 DEF Sent, Goto
<1>7. CASE p \in Parsers /\ Feed(p)
  BY <1>7 DEF Feed, Alive
<1>8. CASE p \in Parsers /\ Fed(p)
  BY <1>8 DEF Fed, Alive
<1>9. CASE p \in Parsers /\ Exit(p)
  BY <1>9 DEF Exit, Gone, Goto
<1>10. CASE p \in Parsers /\ Kill(p)
  BY <1>10 DEF Kill, Gone, Goto, Alive
<1>11. CASE p \in Parsers /\ Delivery(p)
  <2>1. PICK s \in {"INT", "TERM"} : Deliver(p, s)
    BY <1>11 DEF Delivery
  <2>2. CASE Queues(p)
    BY <2>1, <2>2 DEF Deliver
  <2>3. CASE ~Queues(p) /\ s = "TERM"
    BY <1>11, <2>1, <2>3 DEF Deliver, Gone, Goto
  <2>4. CASE ~Queues(p) /\ s = "INT"
    <3>1. pc[p] # "dead" /\ UNCHANGED <<jobs, processes>>
      BY <2>1, <2>4 DEF Deliver, Alive
    <3>2. Put(p, Failed) \/ (Goto(p, "closing") /\ UNCHANGED <<recipe, buffer>>)
      BY <2>1, <2>4 DEF Deliver
    <3>3. CASE Put(p, Failed)
      BY <1>11, <3>1, <3>3 DEF Put, Goto
    <3>4. CASE Goto(p, "closing") /\ UNCHANGED <<recipe, buffer>>
      <4>1. pc' = [pc EXCEPT ![p] = "closing"] /\ recipe' = recipe /\ buffer' = buffer
        BY <3>4 DEF Goto
      <4>2. QED
        BY <1>11, <3>1, <4>1
    <3>5. QED
      BY <3>2, <3>3, <3>4
  <2>5. QED
    BY <2>1, <2>2, <2>3, <2>4
<1>12. CASE Generate
  BY <1>12 DEF Generate, Finish, Verdict, Continue, Complete, Alive
<1>13. CASE Take
  BY <1>13 DEF Take, Finish
<1>14. CASE TimedOut
  BY <1>14 DEF TimedOut
<1>15. CASE Progress
  BY <1>15 DEF Progress
<1>16. CASE AskShutdown
  BY <1>16 DEF AskShutdown
<1>17. CASE Shutdown
  BY <1>17 DEF Shutdown, Once
<1>18. CASE Drain
  BY <1>18 DEF Drain
<1>19. CASE Interrupt
  BY <1>19 DEF Interrupt, Signal, Alive
<1>20. CASE Terminate
  BY <1>20 DEF Terminate, Signal, Alive
<1>21. CASE Join
  BY <1>21 DEF Join, Joined, Alive
<1>22. CASE Done
  BY <1>22 DEF Done
<1>23. CASE Again
  BY <1>23 DEF Again
<1>24. QED
  BY <1>1, <1>2, <1>3, <1>4, <1>5, <1>6, <1>7, <1>8, <1>9, <1>10, <1>11, <1>12,
     <1>13, <1>14, <1>15, <1>16, <1>17, <1>18, <1>19, <1>20, <1>21, <1>22, <1>23
     DEF AnyStep, ParserStep, Feeder, ServerStep

\* Nobody leaves with the lock of the event stream.
LEMMA StepLocks ==
  ASSUME TypeOK, LockInv, NEW p, AnyStep(p)
  PROVE  LockInv'
<1> USE PoolAssumption DEF TypeOK, LockInv,
    parserVars, signalVars, queueVars, serverVars
<1>1. CASE p \in Parsers /\ Quit(p)
  BY <1>1 DEF Quit, Goto
<1>2. CASE p \in Parsers /\ NextJob(p)
  BY <1>2 DEF NextJob, Goto
<1>3. CASE p \in Parsers /\ Parsed(p)
  BY <1>3 DEF Parsed, Goto, Put
<1>4. CASE p \in Parsers /\ SendEvent(p)
  BY <1>4 DEF SendEvent, Goto
<1>5. CASE p \in Parsers /\ LockEvents(p)
  BY <1>5 DEF LockEvents
<1>6. CASE p \in Parsers /\ Sent(p)
  BY <1>6 DEF Sent, Goto
<1>7. CASE p \in Parsers /\ Feed(p)
  BY <1>7 DEF Feed, Alive
<1>8. CASE p \in Parsers /\ Fed(p)
  BY <1>8 DEF Fed, Alive
<1>9. CASE p \in Parsers /\ Exit(p)
  BY <1>9 DEF Exit, Gone, Goto
<1>10. CASE p \in Parsers /\ Kill(p)
  BY <1>10 DEF Kill, Gone, Goto, Alive
<1>11. CASE p \in Parsers /\ Delivery(p)
  BY <1>11 DEF Delivery, Deliver, Alive, Queues, Gone, Goto, Put
<1>12. CASE Generate
  BY <1>12 DEF Generate, Finish, Verdict, Continue, Complete, Alive
<1>13. CASE Take
  BY <1>13 DEF Take, Finish
<1>14. CASE TimedOut
  BY <1>14 DEF TimedOut
<1>15. CASE Progress
  BY <1>15 DEF Progress
<1>16. CASE AskShutdown
  BY <1>16 DEF AskShutdown
<1>17. CASE Shutdown
  BY <1>17 DEF Shutdown, Once
<1>18. CASE Drain
  BY <1>18 DEF Drain
<1>19. CASE Interrupt
  BY <1>19 DEF Interrupt, Signal, Alive
<1>20. CASE Terminate
  BY <1>20 DEF Terminate, Signal, Alive
<1>21. CASE Join
  BY <1>21 DEF Join, Joined, Alive
<1>22. CASE Done
  BY <1>22 DEF Done
<1>23. CASE Again
  BY <1>23 DEF Again
<1>24. QED
  BY <1>1, <1>2, <1>3, <1>4, <1>5, <1>6, <1>7, <1>8, <1>9, <1>10, <1>11, <1>12,
     <1>13, <1>14, <1>15, <1>16, <1>17, <1>18, <1>19, <1>20, <1>21, <1>22, <1>23
     DEF AnyStep, ParserStep, Feeder, ServerStep

\* Only a shutdown sends tokens and signals.
LEMMA StepCalm ==
  ASSUME TypeOK, ParserInv, CalmInv, ShutdownInv, NEW p, AnyStep(p)
  PROVE  CalmInv'
<1> USE PoolAssumption DEF TypeOK, ParserInv, CalmInv, ShutdownInv,
    parserVars, signalVars, queueVars, serverVars
<1>1. CASE p \in Parsers /\ Quit(p)
  BY <1>1 DEF Quit, Goto
<1>2. CASE p \in Parsers /\ NextJob(p)
  <2>1. /\ pc[p] = "poll" /\ recipe[p] = None
        /\ \/ jobs[p] = {} /\ pc' = [pc EXCEPT ![p] = "closing"] /\ jobs' = jobs /\ recipe' = recipe
           \/ pc' = [pc EXCEPT ![p] = "parsing"] /\ (\E x : jobs' = [jobs EXCEPT ![p] = x])
              /\ \E r : recipe' = [recipe EXCEPT ![p] = r]
    BY <1>2 DEF NextJob, Goto
  <2>2. sigs' = sigs /\ tokens' = tokens /\ haveshutdown' = haveshutdown
    BY <1>2 DEF NextJob
  <2>3. QED
    BY <2>1, <2>2
<1>3. CASE p \in Parsers /\ Parsed(p)
  BY <1>3 DEF Parsed, Goto, Put
<1>4. CASE p \in Parsers /\ SendEvent(p)
  BY <1>4 DEF SendEvent, Goto
<1>5. CASE p \in Parsers /\ LockEvents(p)
  BY <1>5 DEF LockEvents
<1>6. CASE p \in Parsers /\ Sent(p)
  BY <1>6 DEF Sent, Goto
<1>7. CASE p \in Parsers /\ Feed(p)
  BY <1>7 DEF Feed, Alive
<1>8. CASE p \in Parsers /\ Fed(p)
  BY <1>8 DEF Fed, Alive
<1>9. CASE p \in Parsers /\ Exit(p)
  BY <1>9 DEF Exit, Gone, Goto
<1>10. CASE p \in Parsers /\ Kill(p)
  BY <1>10 DEF Kill, Gone, Goto, Alive
<1>11. CASE p \in Parsers /\ Delivery(p)
  BY <1>11 DEF Delivery, Deliver, Alive, Queues, Gone, Goto, Put
<1>12. CASE Generate
  BY <1>12 DEF Generate, Finish, Verdict, Continue, Complete, Alive
<1>13. CASE Take
  BY <1>13 DEF Take, Finish
<1>14. CASE TimedOut
  BY <1>14 DEF TimedOut
<1>15. CASE Progress
  BY <1>15 DEF Progress
<1>16. CASE AskShutdown
  BY <1>16 DEF AskShutdown
<1>17. CASE Shutdown
  BY <1>17 DEF Shutdown, Once
<1>18. CASE Drain
  BY <1>18 DEF Drain
<1>19. CASE Interrupt
  BY <1>19 DEF Interrupt, Signal, Alive
<1>20. CASE Terminate
  BY <1>20 DEF Terminate, Signal, Alive
<1>21. CASE Join
  BY <1>21 DEF Join, Joined, Alive
<1>22. CASE Done
  BY <1>22 DEF Done
<1>23. CASE Again
  BY <1>23 DEF Again
<1>24. QED
  BY <1>1, <1>2, <1>3, <1>4, <1>5, <1>6, <1>7, <1>8, <1>9, <1>10, <1>11, <1>12,
     <1>13, <1>14, <1>15, <1>16, <1>17, <1>18, <1>19, <1>20, <1>21, <1>22, <1>23
     DEF AnyStep, ParserStep, Feeder, ServerStep

\* A shutdown ends with the last parser.
LEMMA StepShutdown ==
  ASSUME TypeOK, ParserInv, ShutdownInv, NEW p, AnyStep(p)
  PROVE  ShutdownInv'
<1> USE PoolAssumption DEF TypeOK, ParserInv, ShutdownInv,
    parserVars, signalVars, queueVars, serverVars
<1>1. CASE p \in Parsers /\ Quit(p)
  BY <1>1 DEF Quit, Goto
<1>2. CASE p \in Parsers /\ NextJob(p)
  BY <1>2 DEF NextJob, Goto
<1>3. CASE p \in Parsers /\ Parsed(p)
  BY <1>3 DEF Parsed, Goto, Put
<1>4. CASE p \in Parsers /\ SendEvent(p)
  BY <1>4 DEF SendEvent, Goto
<1>5. CASE p \in Parsers /\ LockEvents(p)
  BY <1>5 DEF LockEvents
<1>6. CASE p \in Parsers /\ Sent(p)
  BY <1>6 DEF Sent, Goto
<1>7. CASE p \in Parsers /\ Feed(p)
  BY <1>7 DEF Feed, Alive
<1>8. CASE p \in Parsers /\ Fed(p)
  BY <1>8 DEF Fed, Alive
<1>9. CASE p \in Parsers /\ Exit(p)
  BY <1>9 DEF Exit, Gone, Goto
<1>10. CASE p \in Parsers /\ Kill(p)
  BY <1>10 DEF Kill, Gone, Goto, Alive
<1>11. CASE p \in Parsers /\ Delivery(p)
  BY <1>11 DEF Delivery, Deliver, Alive, Queues, Gone, Goto, Put
<1>12. CASE Generate
  BY <1>12 DEF Generate, Finish, Verdict, Continue, Complete, Alive
<1>13. CASE Take
  BY <1>13 DEF Take, Finish
<1>14. CASE TimedOut
  BY <1>14 DEF TimedOut
<1>15. CASE Progress
  BY <1>15 DEF Progress
<1>16. CASE AskShutdown
  BY <1>16 DEF AskShutdown
<1>17. CASE Shutdown
  BY <1>17 DEF Shutdown, Once
<1>18. CASE Drain
  BY <1>18 DEF Drain
<1>19. CASE Interrupt
  BY <1>19 DEF Interrupt, Signal, Alive
<1>20. CASE Terminate
  BY <1>20 DEF Terminate, Signal, Alive
<1>21. CASE Join
  BY <1>21 DEF Join, Joined, Alive
<1>22. CASE Done
  BY <1>22 DEF Done
<1>23. CASE Again
  BY <1>23 DEF Again
<1>24. QED
  BY <1>1, <1>2, <1>3, <1>4, <1>5, <1>6, <1>7, <1>8, <1>9, <1>10, <1>11, <1>12,
     <1>13, <1>14, <1>15, <1>16, <1>17, <1>18, <1>19, <1>20, <1>21, <1>22, <1>23
     DEF AnyStep, ParserStep, Feeder, ServerStep

\* The generator ends with all recipes, with an error or on request.
LEMMA StepEnd ==
  ASSUME TypeOK, ShutdownInv, EndInv, NEW p, AnyStep(p)
  PROVE  EndInv'
<1> USE PoolAssumption DEF TypeOK, ShutdownInv, EndInv,
    parserVars, signalVars, queueVars, serverVars
<1>1. CASE p \in Parsers /\ Quit(p)
  BY <1>1 DEF Quit, Goto
<1>2. CASE p \in Parsers /\ NextJob(p)
  BY <1>2 DEF NextJob, Goto
<1>3. CASE p \in Parsers /\ Parsed(p)
  BY <1>3 DEF Parsed, Goto, Put
<1>4. CASE p \in Parsers /\ SendEvent(p)
  BY <1>4 DEF SendEvent, Goto
<1>5. CASE p \in Parsers /\ LockEvents(p)
  BY <1>5 DEF LockEvents
<1>6. CASE p \in Parsers /\ Sent(p)
  BY <1>6 DEF Sent, Goto
<1>7. CASE p \in Parsers /\ Feed(p)
  BY <1>7 DEF Feed, Alive
<1>8. CASE p \in Parsers /\ Fed(p)
  BY <1>8 DEF Fed, Alive
<1>9. CASE p \in Parsers /\ Exit(p)
  BY <1>9 DEF Exit, Gone, Goto
<1>10. CASE p \in Parsers /\ Kill(p)
  BY <1>10 DEF Kill, Gone, Goto, Alive
<1>11. CASE p \in Parsers /\ Delivery(p)
  BY <1>11 DEF Delivery, Deliver, Alive, Queues, Gone, Goto, Put
<1>12. CASE Generate
  BY <1>12 DEF Generate, Finish, Verdict, Continue, Complete, Alive
<1>13. CASE Take
  BY <1>13 DEF Take, Finish
<1>14. CASE TimedOut
  BY <1>14 DEF TimedOut
<1>15. CASE Progress
  BY <1>15 DEF Progress
<1>16. CASE AskShutdown
  BY <1>16 DEF AskShutdown
<1>17. CASE Shutdown
  BY <1>17 DEF Shutdown, Once
<1>18. CASE Drain
  BY <1>18 DEF Drain
<1>19. CASE Interrupt
  BY <1>19 DEF Interrupt, Signal, Alive
<1>20. CASE Terminate
  BY <1>20 DEF Terminate, Signal, Alive
<1>21. CASE Join
  BY <1>21 DEF Join, Joined, Alive
<1>22. CASE Done
  BY <1>22 DEF Done
<1>23. CASE Again
  BY <1>23 DEF Again
<1>24. QED
  BY <1>1, <1>2, <1>3, <1>4, <1>5, <1>6, <1>7, <1>8, <1>9, <1>10, <1>11, <1>12,
     <1>13, <1>14, <1>15, <1>16, <1>17, <1>18, <1>19, <1>20, <1>21, <1>22, <1>23
     DEF AnyStep, ParserStep, Feeder, ServerStep

\* When nobody is left the pipe stays as the server has seen it.
LEMMA StepEmpty ==
  ASSUME TypeOK, ParserInv, ShutdownInv, EmptyInv, NEW p, AnyStep(p)
  PROVE  EmptyInv'
<1> USE PoolAssumption DEF TypeOK, ParserInv, ShutdownInv, EmptyInv,
    parserVars, signalVars, queueVars, serverVars
<1>1. CASE p \in Parsers /\ Quit(p)
  BY <1>1 DEF Quit, Goto
<1>2. CASE p \in Parsers /\ NextJob(p)
  BY <1>2 DEF NextJob, Goto
<1>3. CASE p \in Parsers /\ Parsed(p)
  BY <1>3 DEF Parsed, Goto, Put
<1>4. CASE p \in Parsers /\ SendEvent(p)
  BY <1>4 DEF SendEvent, Goto
<1>5. CASE p \in Parsers /\ LockEvents(p)
  BY <1>5 DEF LockEvents
<1>6. CASE p \in Parsers /\ Sent(p)
  BY <1>6 DEF Sent, Goto
<1>7. CASE p \in Parsers /\ Feed(p)
  BY <1>7 DEF Feed, Alive
<1>8. CASE p \in Parsers /\ Fed(p)
  BY <1>8 DEF Fed, Alive
<1>9. CASE p \in Parsers /\ Exit(p)
  BY <1>9 DEF Exit, Gone, Goto
<1>10. CASE p \in Parsers /\ Kill(p)
  BY <1>10 DEF Kill, Gone, Goto, Alive
<1>11. CASE p \in Parsers /\ Delivery(p)
  BY <1>11 DEF Delivery, Deliver, Alive, Queues, Gone, Goto, Put
<1>12. CASE Generate
  BY <1>12 DEF Generate, Finish, Verdict, Continue, Complete, Alive
<1>13. CASE Take
  BY <1>13 DEF Take, Finish
<1>14. CASE TimedOut
  BY <1>14 DEF TimedOut
<1>15. CASE Progress
  BY <1>15 DEF Progress
<1>16. CASE AskShutdown
  BY <1>16 DEF AskShutdown
<1>17. CASE Shutdown
  BY <1>17 DEF Shutdown, Once
<1>18. CASE Drain
  BY <1>18 DEF Drain
<1>19. CASE Interrupt
  BY <1>19 DEF Interrupt, Signal, Alive
<1>20. CASE Terminate
  BY <1>20 DEF Terminate, Signal, Alive
<1>21. CASE Join
  BY <1>21 DEF Join, Joined, Alive
<1>22. CASE Done
  BY <1>22 DEF Done
<1>23. CASE Again
  BY <1>23 DEF Again
<1>24. QED
  BY <1>1, <1>2, <1>3, <1>4, <1>5, <1>6, <1>7, <1>8, <1>9, <1>10, <1>11, <1>12,
     <1>13, <1>14, <1>15, <1>16, <1>17, <1>18, <1>19, <1>20, <1>21, <1>22, <1>23
     DEF AnyStep, ParserStep, Feeder, ServerStep

\* Every step leads to states of the same type.
LEMMA StepTypes ==
  ASSUME TypeOK, ParserInv, LockInv, CalmInv, NEW p, AnyStep(p)
  PROVE  TypeOK'
<1> USE PoolAssumption DEF TypeOK,
    parserVars, signalVars, queueVars, serverVars
<1>1. CASE p \in Parsers /\ Quit(p)
  <2>1. tokens' \in 0..Cardinality(Parsers)
    BY <1>1, FS_CardinalityType DEF Quit
  <2>2. QED
    BY <1>1, <2>1 DEF Quit, Goto
<1>2. CASE p \in Parsers /\ NextJob(p)
  <2>1. CASE jobs[p] = {}
    <3>1. /\ pc' = [pc EXCEPT ![p] = "closing"] /\ UNCHANGED <<jobs, recipe>>
          /\ UNCHANGED <<bad, buffer, events, signalVars, queueVars, serverVars, kills>>
      BY <1>2, <2>1 DEF NextJob, Goto
    <3>2. QED
      BY <3>1
  <2>2. CASE jobs[p] # {}
    <3>1. PICK r \in jobs[p] : /\ jobs' = [jobs EXCEPT ![p] = @ \ {r}]
                               /\ recipe' = [recipe EXCEPT ![p] = r] /\ Goto(p, "parsing")
      BY <1>2, <2>2 DEF NextJob
    <3>2. r \in Recipes
      BY <1>2, <3>1
    <3>3. jobs' \in [Parsers -> SUBSET Recipes] /\ recipe' \in [Parsers -> Recipes \cup {None}]
      BY <1>2, <3>1, <3>2
    <3>4. QED
      BY <1>2, <3>1, <3>3 DEF NextJob, Goto
  <2>3. QED
    BY <2>1, <2>2
<1>3. CASE p \in Parsers /\ Parsed(p)
  <2>1. PICK x \in Result : Put(p, x)
    BY <1>3 DEF Parsed, ParserInv, Result
  <2>2. Append(buffer[p], x) \in Seq(Result)
    BY <1>3, AppendProperties
  <2>3. buffer' \in [Parsers -> Seq(Result)]
    BY <1>3, <2>1, <2>2 DEF Put
  <2>4. UNCHANGED <<bad, jobs, events, signalVars, queueVars, serverVars, kills>>
    BY <1>3 DEF Parsed
  <2>5. QED
    BY <1>3, <2>1, <2>3, <2>4 DEF Put, Goto
<1>4. CASE p \in Parsers /\ SendEvent(p)
  <2>1. events' \in [Parsers -> 0..MaxEvents]
    BY <1>4 DEF SendEvent
  <2>2. QED
    BY <1>4, <2>1 DEF SendEvent, Goto
<1>5. CASE p \in Parsers /\ LockEvents(p)
  BY <1>5 DEF LockEvents
<1>6. CASE p \in Parsers /\ Sent(p)
  <2>1. deferred' \in [Parsers -> Seq({"INT", "TERM"})]
    <3>1. CASE deferred[p] = <<>>
      BY <1>6, <3>1 DEF Sent
    <3>2. CASE deferred[p] # <<>>
      <4>1. deferred[p] \in Seq({"INT", "TERM"}) /\ Len(deferred[p]) \in Nat
            /\ \A i \in 1..(Len(deferred[p]) - 1) : deferred[p][i] \in {"INT", "TERM"}
        BY <1>6
      <4>2. SubSeq(deferred[p], 1, Len(deferred[p]) - 1) \in Seq({"INT", "TERM"})
        BY <4>1, SubSeqProperties
      <4>3. deferred' = [deferred EXCEPT ![p] = SubSeq(deferred[p], 1, Len(deferred[p]) - 1)]
        BY <1>6, <3>2 DEF Sent
      <4>4. QED
        BY <4>2, <4>3
    <3>3. QED
      BY <3>1, <3>2
  <2>2. muted' \in [Parsers -> BOOLEAN]
    BY <1>6 DEF Sent
  <2>3. QED
    BY <1>6, <2>1, <2>2 DEF Sent, Goto
<1>7. CASE p \in Parsers /\ Feed(p)
  BY <1>7 DEF Feed, Alive
<1>8. CASE p \in Parsers /\ Fed(p)
  <2>1. buffer[p] # <<>> /\ buffer[p] \in Seq(Result) /\ pipe \in Seq(Result) /\ Len(pipe) < PipeSize
    BY <1>8 DEF Fed, LockInv, Alive
  <2>2. Head(buffer[p]) \in Result /\ Tail(buffer[p]) \in Seq(Result)
    BY <2>1, HeadTailProperties
  <2>3. Append(pipe, Head(buffer[p])) \in Seq(Result)
        /\ Len(Append(pipe, Head(buffer[p]))) = Len(pipe) + 1 /\ Len(pipe) \in Nat
    BY <2>1, <2>2, AppendProperties
  <2>4. pipe' \in Seq(Result) /\ Len(pipe') <= PipeSize /\ buffer' \in [Parsers -> Seq(Result)]
    BY <1>8, <2>1, <2>2, <2>3 DEF Fed
  <2>5. QED
    BY <1>8, <2>4 DEF Fed
<1>9. CASE p \in Parsers /\ Exit(p)
  BY <1>9 DEF Exit, Gone, Goto
<1>10. CASE p \in Parsers /\ Kill(p)
  BY <1>10 DEF Kill, Gone, Goto, Alive
<1>11. CASE p \in Parsers /\ Delivery(p)
  <2>1. PICK s \in {"INT", "TERM"} : Deliver(p, s)
    BY <1>11 DEF Delivery
  <2>2. CASE Queues(p)
    <3>1. Append(deferred[p], s) \in Seq({"INT", "TERM"})
      BY <1>11, AppendProperties
    <3>2. /\ deferred' = [deferred EXCEPT ![p] = Append(deferred[p], s)]
          /\ sigs' = [sigs EXCEPT ![p] = sigs[p] \ {s}]
          /\ UNCHANGED <<parserVars, muted, bad, queueVars, serverVars, kills>>
      BY <2>1, <2>2 DEF Deliver
    <3>3. deferred' \in [Parsers -> Seq({"INT", "TERM"})]
      BY <3>1, <3>2
    <3>4. QED
      BY <3>2, <3>3
  <2>3. CASE ~Queues(p) /\ s = "TERM"
    <3>1. Gone(p) /\ UNCHANGED <<bad, queueVars, serverVars, kills>>
      BY <2>1, <2>3 DEF Deliver
    <3>2. QED
      BY <1>11, <3>1 DEF Gone, Goto
  <2>4. CASE ~Queues(p) /\ s = "INT"
    <3>1. /\ sigs' = [sigs EXCEPT ![p] = @ \ {s}] /\ UNCHANGED <<jobs, events, deferred, muted>>
          /\ UNCHANGED <<bad, queueVars, serverVars, kills>>
          /\ Put(p, Failed) \/ (Goto(p, "closing") /\ UNCHANGED <<recipe, buffer>>)
      BY <2>1, <2>4 DEF Deliver
    <3>2. CASE Put(p, Failed)
      <4>1. Append(buffer[p], Failed) \in Seq(Result)
        BY <1>11, AppendProperties DEF Result
      <4>2. buffer' \in [Parsers -> Seq(Result)]
        BY <1>11, <3>2, <4>1 DEF Put
      <4>3. QED
        BY <1>11, <3>1, <3>2, <4>2 DEF Put, Goto
    <3>3. CASE Goto(p, "closing") /\ UNCHANGED <<recipe, buffer>>
      BY <1>11, <3>1, <3>3 DEF Goto
    <3>4. QED
      BY <3>1, <3>2, <3>3
  <2>5. QED
    BY <2>1, <2>2, <2>3, <2>4
<1>12. CASE Generate
  BY <1>12 DEF Generate, Finish, Verdict, Continue, Complete, Alive
<1>13. CASE Take
  <2>1. Head(pipe) \in Result /\ Tail(pipe) \in Seq(Result) /\ Len(Tail(pipe)) = Len(pipe) - 1
        /\ Len(pipe) \in Nat
    BY <1>13, HeadTailProperties DEF Take
  <2>2. parsed' \subseteq Recipes /\ error' \in BOOLEAN
        /\ main' \in {"unclean", "progress"} /\ empty' = FALSE
    <3>1. CASE Head(pipe) = Failed
      BY <1>13, <3>1 DEF Take, Finish
    <3>2. CASE Head(pipe) # Failed
      BY <1>13, <2>1, <3>2 DEF Take, Result
    <3>3. QED
      BY <3>1, <3>2
  <2>3. pipe' \in Seq(Result) /\ Len(pipe') <= PipeSize
    BY <1>13, <2>1 DEF Take
  <2>4. QED
    BY <1>13, <2>2, <2>3 DEF Take
<1>14. CASE TimedOut
  BY <1>14 DEF TimedOut
<1>15. CASE Progress
  BY <1>15 DEF Progress
<1>16. CASE AskShutdown
  BY <1>16 DEF AskShutdown
<1>17. CASE Shutdown
  <2>1. tokens' \in 0..Cardinality(Parsers)
    <3>1. Cardinality(processes) \in Nat /\ Cardinality(processes) <= Cardinality(Parsers)
          /\ Cardinality(Parsers) \in Nat
      BY FS_Subset, FS_CardinalityType
    <3>2. tokens' = tokens \/ (~haveshutdown /\ tokens' = tokens + Cardinality(processes))
      BY <1>17 DEF Shutdown, Once
    <3>3. QED
      BY <3>1, <3>2 DEF CalmInv
  <2>2. QED
    BY <1>17, <2>1 DEF Shutdown, Once
<1>18. CASE Drain
  <2>1. pipe # <<>> => Tail(pipe) \in Seq(Result) /\ Len(Tail(pipe)) = Len(pipe) - 1
        /\ Len(pipe) \in Nat
    BY <1>18, HeadTailProperties
  <2>2. pipe' \in Seq(Result) /\ Len(pipe') <= PipeSize
    <3>1. CASE pipe = <<>>
      BY <1>18, <3>1 DEF Drain
    <3>2. CASE pipe # <<>>
      <4>1. pipe' = Tail(pipe) /\ PipeSize \in Nat /\ Len(pipe) <= PipeSize
        BY <1>18, <3>2 DEF Drain
      <4>2. QED
        BY <2>1, <3>2, <4>1
    <3>3. QED
      BY <3>1, <3>2
  <2>3. QED
    BY <1>18, <2>2 DEF Drain
<1>19. CASE Interrupt
  BY <1>19 DEF Interrupt, Signal, Alive
<1>20. CASE Terminate
  BY <1>20 DEF Terminate, Signal, Alive
<1>21. CASE Join
  BY <1>21 DEF Join, Joined, Alive
<1>22. CASE Done
  BY <1>22 DEF Done
<1>23. CASE Again
  BY <1>23 DEF Again
<1>24. QED
  BY <1>1, <1>2, <1>3, <1>4, <1>5, <1>6, <1>7, <1>8, <1>9, <1>10, <1>11, <1>12,
     <1>13, <1>14, <1>15, <1>16, <1>17, <1>18, <1>19, <1>20, <1>21, <1>22, <1>23
     DEF AnyStep, ParserStep, Feeder, ServerStep

\* An error has a reason: there is no other way to an incomplete end.
LEMMA StepErrors ==
  ASSUME TypeOK, ParserInv, CalmInv, ShutdownInv, ErrorInv, Accounted, EmptyInv, LockInv,
         NEW p, AnyStep(p)
  PROVE  ErrorInv'
<1> USE PoolAssumption DEF TypeOK, ErrorInv, Excused,
    parserVars, signalVars, queueVars, serverVars
<1>1. CASE p \in Parsers /\ Quit(p)
  BY <1>1 DEF Quit, Goto
<1>2. CASE p \in Parsers /\ NextJob(p)
  BY <1>2 DEF NextJob, Goto
<1>3. CASE p \in Parsers /\ Parsed(p)
  <2>1. CASE bad = {}
    <3>1. Put(p, recipe[p]) /\ recipe[p] \in Recipes /\ recipe[p] # Failed
      BY <1>3, <2>1 DEF Parsed, ParserInv
    <3>2. buffer[p] \in Seq(Result) /\ recipe[p] \in Result
      BY <1>3, <3>1 DEF Result
    <3>3. In(Failed, Append(buffer[p], recipe[p])) => In(Failed, buffer[p])
      BY <3>1, <3>2, InAppend
    <3>4. \A q \in Parsers : In(Failed, buffer'[q]) => In(Failed, buffer[q])
      BY <1>3, <3>1, <3>3 DEF Put
    <3>5. QED
      BY <1>3, <3>4 DEF Parsed
  <2>2. CASE bad # {}
    BY <1>3, <2>2 DEF Parsed
  <2>3. QED
    BY <2>1, <2>2
<1>4. CASE p \in Parsers /\ SendEvent(p)
  BY <1>4 DEF SendEvent, Goto
<1>5. CASE p \in Parsers /\ LockEvents(p)
  BY <1>5 DEF LockEvents
<1>6. CASE p \in Parsers /\ Sent(p)
  BY <1>6 DEF Sent, Goto
<1>7. CASE p \in Parsers /\ Feed(p)
  BY <1>7 DEF Feed, Alive
<1>8. CASE p \in Parsers /\ Fed(p)
  <2>1. CASE buffer[p] = <<>>
    BY <1>8, <2>1 DEF Fed, LockInv, Alive
  <2>2. CASE buffer[p] # <<>>
    <3>1. Head(buffer[p]) \in Result
      BY <1>8, <2>2, HeadTailProperties
    <3>2. /\ In(Failed, Append(pipe, Head(buffer[p]))) => In(Failed, pipe) \/ In(Failed, buffer[p])
          /\ In(Failed, Tail(buffer[p])) => In(Failed, buffer[p])
      BY <1>8, <2>2, <3>1, InAppend, InTail
    <3>3. /\ In(Failed, pipe') => In(Failed, pipe) \/ In(Failed, buffer[p])
          /\ \A q \in Parsers : In(Failed, buffer'[q]) => In(Failed, buffer[q])
      BY <1>8, <3>2 DEF Fed
    <3>4. QED
      BY <1>8, <3>3 DEF Fed
  <2>3. QED
    BY <2>1, <2>2
<1>9. CASE p \in Parsers /\ (Exit(p) \/ Kill(p))
  <2>1. \A q \in Parsers : In(Failed, buffer'[q]) => In(Failed, buffer[q])
    <3>1. buffer' = [buffer EXCEPT ![p] = <<>>]
      BY <1>9 DEF Exit, Kill, Gone
    <3>2. SUFFICES ASSUME NEW q \in Parsers, In(Failed, buffer'[q]) PROVE In(Failed, buffer[q])
      OBVIOUS
    <3>3. q # p
      BY <1>9, <3>1, <3>2, InEmpty
    <3>4. buffer'[q] = buffer[q]
      BY <3>1, <3>3
    <3>5. QED
      BY <3>2, <3>4
  <2>2. kills' >= kills /\ UNCHANGED <<bad, queueVars, serverVars>> /\ kills' \in Nat
    BY <1>9 DEF Exit, Kill
  <2>3. QED
    BY <2>1, <2>2
<1>10. CASE p \in Parsers /\ Kill(p)
  BY <1>10, <1>9
<1>11. CASE p \in Parsers /\ Delivery(p)
  <2>1. haveshutdown
    BY <1>11 DEF Delivery, Deliver, CalmInv
  <2>2. UNCHANGED <<bad, haveshutdown, error, asked, kills>>
    BY <1>11 DEF Delivery, Deliver
  <2>3. QED
    BY <2>1, <2>2
<1>12. CASE Generate
  <2>1. UNCHANGED <<bad, pipe, buffer, kills, asked, haveshutdown>>
    BY <1>12 DEF Generate
  <2>2. SUFFICES ASSUME error', ~Excused PROVE FALSE
    BY <2>1
  <2>3. ~haveshutdown /\ ~error
    BY <1>12, <2>2 DEF Generate, ShutdownInv
  <2>4. ~Continue /\ ~Complete
    BY <1>12, <2>2, <2>3 DEF Generate, Finish, Verdict
  <2>5. pipe = <<>> /\ \A q \in Parsers : jobs[q] = {} /\ recipe[q] = None /\ buffer[q] = <<>>
    BY <1>12, <2>3, <2>4 DEF Generate, Continue, EmptyInv, ParserInv
  <2>6. parsed = Recipes
    <3>1. bad = {} /\ kills = 0
      BY <2>2 DEF Excused
    <3>2. \A r \in Recipes : ~In(r, pipe) /\ \A q \in Parsers :
            r \notin jobs[q] /\ recipe[q] # r /\ ~In(r, buffer[q])
      BY <2>5, InEmpty
    <3>3. Recipes \subseteq parsed
      BY <2>3, <3>1, <3>2 DEF Accounted
    <3>4. QED
      BY <3>3
  <2>7. QED
    BY <2>4, <2>6 DEF Complete
<1>13. CASE Take
  <2>1. pipe # <<>> /\ pipe' = Tail(pipe) /\ UNCHANGED <<bad, buffer, kills, asked, haveshutdown>>
        /\ main = "get"
    BY <1>13 DEF Take
  <2>2. In(Failed, pipe) <=> Failed = Head(pipe) \/ In(Failed, Tail(pipe))
    BY <2>1, InTail
  <2>3. error' => error \/ Failed = Head(pipe)
    BY <1>13 DEF Take, Finish
  <2>4. QED
    BY <2>1, <2>2, <2>3 DEF ShutdownInv
<1>14. CASE TimedOut
  BY <1>14 DEF TimedOut
<1>15. CASE Progress
  BY <1>15 DEF Progress
<1>16. CASE AskShutdown
  BY <1>16 DEF AskShutdown
<1>17. CASE Shutdown
  BY <1>17 DEF Shutdown, Once
<1>18. CASE Drain
  <2>1. haveshutdown /\ UNCHANGED <<bad, haveshutdown, error, asked, kills>>
    BY <1>18 DEF Drain, ShutdownInv
  <2>2. QED
    BY <2>1
<1>19. CASE Interrupt
  BY <1>19 DEF Interrupt, Signal, Alive
<1>20. CASE Terminate
  BY <1>20 DEF Terminate, Signal, Alive
<1>21. CASE Join
  BY <1>21 DEF Join, Joined, Alive
<1>22. CASE Done
  BY <1>22 DEF Done
<1>23. CASE Again
  BY <1>23 DEF Again
<1>24. QED
  BY <1>1, <1>2, <1>3, <1>4, <1>5, <1>6, <1>7, <1>8, <1>9, <1>10, <1>11, <1>12,
     <1>13, <1>14, <1>15, <1>16, <1>17, <1>18, <1>19, <1>20, <1>21, <1>22, <1>23
     DEF AnyStep, ParserStep, Feeder, ServerStep

\* No recipe gets lost.
LEMMA StepAccounted ==
  ASSUME TypeOK, ParserInv, LockInv, CalmInv, ShutdownInv, Accounted, NEW p, AnyStep(p)
  PROVE  Accounted'
<1> USE PoolAssumption DEF TypeOK, Accounted,
    parserVars, signalVars, queueVars, serverVars
<1>1. CASE p \in Parsers /\ Quit(p)
  BY <1>1 DEF Quit, Goto
<1>2. CASE p \in Parsers /\ NextJob(p)
  <2>1. CASE jobs[p] = {}
    BY <1>2, <2>1 DEF NextJob
  <2>2. CASE jobs[p] # {}
    <3>1. PICK r \in jobs[p] : /\ jobs' = [jobs EXCEPT ![p] = @ \ {r}]
                               /\ recipe' = [recipe EXCEPT ![p] = r]
      BY <1>2, <2>2 DEF NextJob
    <3>2. recipe[p] = None
      BY <1>2 DEF NextJob, ParserInv
    <3>3. \A x \in Recipes, q \in Parsers :
            x \in jobs[q] \/ recipe[q] = x => x \in jobs'[q] \/ recipe'[q] = x
      BY <1>2, <3>1, <3>2
    <3>4. UNCHANGED <<bad, kills, haveshutdown, parsed, pipe, buffer>>
      BY <1>2 DEF NextJob
    <3>5. QED
      BY <3>3, <3>4
  <2>3. QED
    BY <2>1, <2>2
<1>3. CASE p \in Parsers /\ Parsed(p)
  <2>1. CASE bad = {}
    <3>1. Put(p, recipe[p]) /\ recipe[p] \in Recipes
      BY <1>3, <2>1 DEF Parsed, ParserInv
    <3>2. buffer[p] \in Seq(Result) /\ recipe[p] \in Result
      BY <1>3, <3>1 DEF Result
    <3>3. \A x \in Recipes : In(x, Append(buffer[p], recipe[p])) <=> In(x, buffer[p]) \/ x = recipe[p]
      BY <3>2, InAppend
    <3>4. \A x \in Recipes, q \in Parsers : recipe[q] = x \/ In(x, buffer[q])
                                              => recipe'[q] = x \/ In(x, buffer'[q])
      BY <1>3, <3>1, <3>3 DEF Put
    <3>5. UNCHANGED <<bad, kills, haveshutdown, parsed, pipe, jobs>>
      BY <1>3 DEF Parsed
    <3>6. QED
      BY <3>4, <3>5
  <2>2. CASE bad # {}
    BY <1>3, <2>2 DEF Parsed
  <2>3. QED
    BY <2>1, <2>2
<1>4. CASE p \in Parsers /\ SendEvent(p)
  BY <1>4 DEF SendEvent, Goto
<1>5. CASE p \in Parsers /\ LockEvents(p)
  BY <1>5 DEF LockEvents
<1>6. CASE p \in Parsers /\ Sent(p)
  BY <1>6 DEF Sent, Goto
<1>7. CASE p \in Parsers /\ Feed(p)
  BY <1>7 DEF Feed, Alive
<1>8. CASE p \in Parsers /\ Fed(p)
  <2>1. buffer[p] # <<>> /\ buffer[p] \in Seq(Result)
    BY <1>8 DEF Fed, LockInv, Alive
  <2>2. Head(buffer[p]) \in Result
    BY <2>1, HeadTailProperties
  <2>3. \A x \in Recipes :
          /\ In(x, Append(pipe, Head(buffer[p]))) <=> In(x, pipe) \/ x = Head(buffer[p])
          /\ In(x, buffer[p]) <=> x = Head(buffer[p]) \/ In(x, Tail(buffer[p]))
    <3>1. \A x : In(x, Append(pipe, Head(buffer[p]))) <=> In(x, pipe) \/ x = Head(buffer[p])
      BY <2>2, InAppend
    <3>2. \A x : In(x, buffer[p]) <=> x = Head(buffer[p]) \/ In(x, Tail(buffer[p]))
      BY <2>1, InTail
    <3>3. QED
      BY <3>1, <3>2
  <2>4. /\ pipe' = Append(pipe, Head(buffer[p])) /\ buffer' = [buffer EXCEPT ![p] = Tail(buffer[p])]
        /\ UNCHANGED <<bad, kills, haveshutdown, parsed, jobs, recipe>>
    BY <1>8 DEF Fed
  <2>5. \A x \in Recipes, q \in Parsers : In(x, buffer[q]) => In(x, buffer'[q]) \/ In(x, pipe')
    BY <1>8, <2>3, <2>4
  <2>6. \A x \in Recipes : In(x, pipe) => In(x, pipe')
    BY <2>3, <2>4
  <2>7. QED
    BY <2>4, <2>5, <2>6
<1>9. CASE p \in Parsers /\ Exit(p)
  <2>1. CASE haveshutdown
    BY <1>9, <2>1 DEF Exit
  <2>2. CASE ~haveshutdown
    <3>1. jobs[p] = {} /\ recipe[p] = None /\ buffer[p] = <<>>
      BY <1>9, <2>2 DEF Exit, CalmInv
    <3>2. jobs' = jobs /\ recipe' = recipe /\ buffer' = buffer
      BY <1>9, <3>1 DEF Exit, Gone
    <3>3. UNCHANGED <<bad, kills, haveshutdown, parsed, pipe>>
      BY <1>9 DEF Exit
    <3>4. QED
      BY <3>2, <3>3
  <2>3. QED
    BY <2>1, <2>2
<1>10. CASE p \in Parsers /\ Kill(p)
  <2>1. kills' > 0
    BY <1>10 DEF Kill
  <2>2. QED
    BY <2>1
<1>11. CASE p \in Parsers /\ Delivery(p)
  <2>1. haveshutdown /\ UNCHANGED haveshutdown
    BY <1>11 DEF Delivery, Deliver, CalmInv
  <2>2. QED
    BY <2>1
<1>12. CASE Generate
  BY <1>12 DEF Generate, Finish, Verdict, Continue, Complete, Alive
<1>13. CASE Take
  <2>1. pipe # <<>> /\ pipe' = Tail(pipe) /\ UNCHANGED <<bad, jobs, recipe, buffer, kills, haveshutdown>>
        /\ main = "get"
    BY <1>13 DEF Take
  <2>2. \A x \in Recipes : In(x, pipe) <=> x = Head(pipe) \/ In(x, Tail(pipe))
    BY <2>1, InTail
  <2>3. parsed' = parsed \cup ({Head(pipe)} \ {Failed})
    BY <1>13 DEF Take
  <2>4. QED
    BY <2>1, <2>2, <2>3
<1>14. CASE TimedOut
  BY <1>14 DEF TimedOut
<1>15. CASE Progress
  BY <1>15 DEF Progress
<1>16. CASE AskShutdown
  BY <1>16 DEF AskShutdown
<1>17. CASE Shutdown
  BY <1>17 DEF Shutdown, Once
<1>18. CASE Drain
  <2>1. haveshutdown /\ UNCHANGED haveshutdown
    BY <1>18 DEF Drain, ShutdownInv
  <2>2. QED
    BY <2>1
<1>19. CASE Interrupt
  BY <1>19 DEF Interrupt, Signal, Alive
<1>20. CASE Terminate
  BY <1>20 DEF Terminate, Signal, Alive
<1>21. CASE Join
  BY <1>21 DEF Join, Joined, Alive
<1>22. CASE Done
  BY <1>22 DEF Done
<1>23. CASE Again
  BY <1>23 DEF Again
<1>24. QED
  BY <1>1, <1>2, <1>3, <1>4, <1>5, <1>6, <1>7, <1>8, <1>9, <1>10, <1>11, <1>12,
     <1>13, <1>14, <1>15, <1>16, <1>17, <1>18, <1>19, <1>20, <1>21, <1>22, <1>23
     DEF AnyStep, ParserStep, Feeder, ServerStep

\* Everything is in its place when parsing begins.
LEMMA InitIInv ==
  ASSUME Init
  PROVE  IInv
<1> USE PoolAssumption DEF Init
<1>1. 0 \in 0..Cardinality(Parsers)
  BY FS_CardinalityType
<1>2. TypeOK
  <2>1. <<>> \in Seq(Result) /\ <<>> \in Seq({"INT", "TERM"}) /\ Len(<<>>) <= PipeSize
    OBVIOUS
  <2>2. /\ buffer \in [Parsers -> Seq(Result)] /\ deferred \in [Parsers -> Seq({"INT", "TERM"})]
        /\ pipe \in Seq(Result) /\ Len(pipe) <= PipeSize
    BY <2>1
  <2>3. /\ jobs \in [Parsers -> SUBSET Recipes] /\ recipe \in [Parsers -> Recipes \cup {None}]
        /\ pc \in [Parsers -> {"poll", "parsing", "sending", "closing", "dead"}]
        /\ events \in [Parsers -> 0..MaxEvents] /\ sigs \in [Parsers -> SUBSET {"INT", "TERM"}]
        /\ muted \in [Parsers -> BOOLEAN]
    OBVIOUS
  <2>4. QED
    BY <1>1, <2>2, <2>3 DEF TypeOK
<1>3. ParserInv /\ LockInv /\ CalmInv /\ ShutdownInv /\ EndInv /\ EmptyInv
  BY DEF ParserInv, LockInv, CalmInv, ShutdownInv, EndInv, EmptyInv
<1>4. ErrorInv
  BY InEmpty DEF ErrorInv
<1>5. Accounted
  BY DEF Accounted
<1>6. QED
  BY <1>2, <1>3, <1>4, <1>5 DEF IInv

\* Every step keeps the invariant.
LEMMA NextIInv ==
  ASSUME IInv, [Next]_vars
  PROVE  IInv'
<1>1. ASSUME NEW p, AnyStep(p) PROVE IInv'
  BY <1>1, StepTypes, StepParsers, StepLocks, StepCalm, StepShutdown, StepEnd, StepErrors,
     StepAccounted, StepEmpty DEF IInv
<1>2. CASE UNCHANGED vars
  <2> USE <1>2 DEF vars, parserVars, signalVars, queueVars, serverVars, IInv
  <2>1. TypeOK'
    BY DEF TypeOK
  <2>2. ParserInv' /\ LockInv' /\ CalmInv' /\ ShutdownInv' /\ EndInv' /\ EmptyInv'
    BY DEF ParserInv, LockInv, CalmInv, ShutdownInv, EndInv, EmptyInv
  <2>3. ErrorInv' /\ Accounted'
    BY DEF ErrorInv, Excused, Accounted, In
  <2>4. QED
    BY <2>1, <2>2, <2>3
<1>3. CASE Next
  <2>1. PICK p : AnyStep(p)
    BY <1>3 DEF Next, AnyStep
  <2>2. QED
    BY <1>1, <2>1
<1>4. QED
  BY <1>2, <1>3

\* The strengthened invariant holds in every reachable state.
THEOREM Inductive == Spec => []IInv
BY InitIInv, NextIInv, PTL DEF Spec

\* Whoever is killed and however often a shutdown is asked for: the lock of the event
\* stream is never held by a process that is gone, parser_quit holds at most a token
\* per parser, and when updateCache has an outcome no parser is left.
THEOREM NothingIsLeft == Spec => []NothingLeft
<1>1. IInv => NothingLeft
  BY PoolAssumption DEF IInv, NothingLeft, TypeOK, EventLockReleased, NoneLeft, Alive, LockInv,
     ShutdownInv
<1>2. QED
  BY <1>1, Inductive, PTL

\* The server goes on to build only when all recipes were parsed, and parsing ends in
\* an error only when a recipe failed, a parser was killed or a shutdown was asked for:
\* results of parsers that have left are never lost.
THEOREM OutcomeIsRight == Spec => []OutcomeRight
<1>1. IInv => OutcomeRight
  BY DEF IInv, OutcomeRight, AllParsed, NoFalseError, ShutdownInv, EndInv, ErrorInv, Excused
<1>2. QED
  BY <1>1, Inductive, PTL
=============================================================================
