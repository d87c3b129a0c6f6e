--------------------------- MODULE ProcessServer ---------------------------
(* The bitbake server's main loop (server/process.py: ProcessServer.main),     *)
(* with the command layer (command.py: Command), the states of the cooker that *)
(* commands move through (cooker.py), the events that are queued while no user *)
(* interface is registered (event.py), and the clients (main.py, knotty.py).   *)
(* One server that has bound its socket; how servers start and replace one     *)
(* another is in ServerStart.                                                  *)
EXTENDS Naturals, Sequences

CONSTANTS Clients,
          Killers,     \* the clients that may be run with --kill-server
          None,
          Timeouts,    \* where a server timeout may come from
          MaxKilled    \* bound: clients killed by a signal

ASSUME ServerAssumption ==
  /\ Killers \subseteq Clients /\ {None, "CookerExit"} \cap Clients = {}
  /\ Timeouts \subseteq {"none", "configured", "given"} /\ MaxKilled \in Nat
  /\ None \notin {"setFeatures", "buildTargets", "terminateServer", "done", "busy", "refused"}

VARIABLES pc,             \* where the main loop is
          ready,          \* what the last select() returned
          backlog,        \* connections the kernel holds for accept()
          controllersock, newconnections,
          command_channel,   \* the client whose user interface is registered
          hadanyui, quit,
          conf, hasdata,  \* where the timeout comes from; the configuration is parsed
          asyncCommand,   \* the client of currentAsyncCommand
          idlefun,        \* "none", "runCommands" or "buildTargetsIdle"
          state,          \* of the cooker
          parser, parsecache_valid,
          ui_queue,       \* events (completions) fired while no interface was there
          ui,             \* per client: where it is
          sock, fds,      \* per client: its socket, the descriptors sent over it
          pipe, cmd,      \* per client: its command pipe, the command in it
          reply, got,     \* per client: the answer, the completions it received
          stops,          \* per client: interrupts from the keyboard
          killed,
          abandoned,      \* history: the clients that left their command running
          lost,           \* history: a parser was replaced while it ran
          owed            \* history: a shutdown request the worker has not seen

loopVars    == <<controllersock, newconnections, command_channel, hadanyui, quit>>
cookerVars  == <<asyncCommand, idlefun, state, parser, parsecache_valid>>
clientVars  == <<ui, sock, pipe, stops>>
historyVars == <<abandoned, lost, owed>>
vars == <<pc, ready, loopVars, cookerVars, clientVars, historyVars, backlog, conf, hasdata,
          ui_queue, fds, cmd, reply, got, killed>>

Stopped == {"shutdown", "forceshutdown"}
Exiting == "CookerExit"    \* the event the server ends with

TypeOK ==
  /\ pc \in {"top", "ui", "timers", "command", "idle", "select", "exit", "gone"}
  /\ backlog \in Seq(Clients) /\ newconnections \in Seq(Clients)
  /\ controllersock \in Clients \cup {None}
  /\ command_channel \in {None, controllersock}
  /\ asyncCommand \in Clients \cup {None}
  /\ idlefun \in {"none", "runCommands", "buildTargetsIdle"}
  /\ state \in {"initial", "parsing", "running"} \cup Stopped
  /\ parser \in {"none", "live"}
  /\ cmd \in [Clients -> {None, "setFeatures", "buildTargets", "terminateServer",
                          "stateShutdown", "stateForceShutdown"}]
  /\ got \in [Clients -> SUBSET (Clients \cup {Exiting})]
  /\ \A c \in Clients : ui[c] = "left" => sock[c] # "open" /\ pipe[c] # "open"

Init ==
  /\ pc = "top" /\ ready = {} /\ backlog = <<>>
  /\ controllersock = None /\ newconnections = <<>> /\ command_channel = None
  /\ hadanyui = FALSE /\ quit = FALSE
  /\ conf \in Timeouts /\ hasdata = FALSE
  /\ asyncCommand = None /\ idlefun = "none" /\ state = "initial"
  /\ parser = "none" /\ parsecache_valid = FALSE /\ ui_queue = <<>>
  /\ ui = [c \in Clients |-> "away"]
  /\ sock = [c \in Clients |-> "none"] /\ fds = [c \in Clients |-> "none"]
  /\ pipe = [c \in Clients |-> "none"] /\ cmd = [c \in Clients |-> None]
  /\ reply = [c \in Clients |-> None] /\ got = [c \in Clients |-> {}]
  /\ stops = [c \in Clients |-> 0] /\ killed = 0
  /\ abandoned = {} /\ lost = FALSE /\ owed = FALSE

-----------------------------------------------------------------------------
(* Events *)

\* fire() with a user interface registered sends what was queued, then e; without
\* one e is queued.  A client that has closed its pipes receives nothing.
Deliver(events) ==
  got' = IF command_channel = None \/ pipe[command_channel] = "closed" THEN got
         ELSE [got EXCEPT ![command_channel] =
                 @ \cup {events[i] : i \in 1..Len(events)}]

\* Mutant of Fire: what was queued is sent, but stays in the queue.
FireAgain(e) ==
  IF command_channel = None
  THEN ui_queue' = Append(ui_queue, e) /\ UNCHANGED got
  ELSE Deliver(Append(ui_queue, e)) /\ UNCHANGED ui_queue

Fire(e) ==
  IF command_channel = None
  THEN ui_queue' = Append(ui_queue, e) /\ UNCHANGED got
  ELSE Deliver(Append(ui_queue, e)) /\ ui_queue' = <<>>

\* An event that is no completion, a heartbeat for one, may be fired or not.
FireOther ==
  \/ command_channel # None /\ Deliver(ui_queue) /\ ui_queue' = <<>>
  \/ UNCHANGED <<got, ui_queue>>

-----------------------------------------------------------------------------
(* ProcessServer.main *)

\* BB_SERVER_TIMEOUT counts once the configuration is parsed, what is given on the
\* command line from the start.
Timeout == conf = "given" \/ (conf = "configured" /\ hasdata)

Watched == {<<"sock", None>>}
           \cup (IF controllersock = None THEN {} ELSE {<<"controllersock", controllersock>>})
           \cup (IF command_channel = None THEN {} ELSE {<<"command_channel", command_channel>>})

Readable(fd) ==
  CASE fd[1] = "sock"            -> backlog # <<>>
    [] fd[1] = "controllersock"  -> fds[fd[2]] = "sent" \/ sock[fd[2]] = "closed"
    [] fd[1] = "command_channel" -> cmd[fd[2]] # None \/ pipe[fd[2]] = "closed"

\* What the rest of a round finds in ready; a test that fails is no step.
Entering == <<"controllersock", controllersock>> \in ready
Asking   == <<"command_channel", command_channel>> \in ready

\* while not self.quit; accept() until no connection is left
Top ==
  /\ pc = "top"
  /\ IF quit
     THEN pc' = "exit" /\ UNCHANGED <<backlog, controllersock, newconnections>>
     ELSE /\ pc' = (IF Entering THEN "ui" ELSE "timers")
          /\ IF <<"sock", None>> \notin ready \/ backlog = <<>>
             THEN UNCHANGED <<backlog, controllersock, newconnections>>
             ELSE /\ backlog' = <<>>
                  /\ IF controllersock # None
                     THEN /\ newconnections' = newconnections \o backlog
                          /\ UNCHANGED controllersock
                     ELSE /\ controllersock' = Head(backlog)
                          /\ newconnections' = newconnections \o Tail(backlog)
  /\ UNCHANGED <<ready, command_channel, hadanyui, quit, cookerVars, clientVars,
                 historyVars, conf, hasdata, ui_queue, fds, cmd, reply, got, killed>>

\* Mutant of DisconnectClient: only the connections in the kernel are asked for.
DisconnectClientForgets ==
  /\ command_channel' = None
  /\ IF command_channel = None
     THEN UNCHANGED <<state, parsecache_valid, abandoned>>
     ELSE /\ state' = "initial" /\ parsecache_valid' = FALSE
          /\ abandoned' = abandoned \cup ({asyncCommand} \ {None})
  /\ controllersock' = None
  /\ quit' = (quit \/ (~Timeout /\ backlog = <<>>))
  /\ UNCHANGED newconnections

\* Mutant of DisconnectClient: clientComplete() leaves the state of the cooker alone.
DisconnectClientStays ==
  /\ command_channel' = None
  /\ IF command_channel = None
     THEN UNCHANGED <<state, parsecache_valid, abandoned>>
     ELSE /\ UNCHANGED state /\ parsecache_valid' = FALSE
          /\ abandoned' = abandoned \cup ({asyncCommand} \ {None})
  /\ IF newconnections # <<>>
     THEN /\ controllersock' = newconnections[Len(newconnections)]
          /\ newconnections' = SubSeq(newconnections, 1, Len(newconnections) - 1)
          /\ UNCHANGED quit
     ELSE /\ controllersock' = None
          /\ quit' = (quit \/ (~Timeout /\ backlog = <<>>))
          /\ UNCHANGED newconnections

\* disconnect_client: clientComplete() puts the cooker back to initial, whatever
\* the command of that client does; the newest waiting client is next.
DisconnectClient ==
  /\ command_channel' = None
  /\ IF command_channel = None
     THEN UNCHANGED <<state, parsecache_valid, abandoned>>
     ELSE /\ state' = "initial" /\ parsecache_valid' = FALSE
          /\ abandoned' = abandoned \cup ({asyncCommand} \ {None})
  /\ IF newconnections # <<>>
     THEN /\ controllersock' = newconnections[Len(newconnections)]
          /\ newconnections' = SubSeq(newconnections, 1, Len(newconnections) - 1)
          /\ UNCHANGED quit
     ELSE /\ controllersock' = None
          /\ quit' = (quit \/ (~Timeout /\ backlog = <<>>))
          /\ UNCHANGED newconnections

\* recvfds(): a new user interface, or the end of the connection
Ui ==
  /\ pc = "ui"
  /\ IF fds[controllersock] = "sent"
     THEN /\ fds' = [fds EXCEPT ![controllersock] = "taken"]
          /\ command_channel' = controllersock /\ hadanyui' = TRUE
          /\ UNCHANGED <<controllersock, newconnections, quit, state, parsecache_valid,
                         abandoned>>
     ELSE DisconnectClient /\ UNCHANGED <<hadanyui, fds>>
  /\ pc' = "timers"
  /\ UNCHANGED <<ready, asyncCommand, idlefun, parser, clientVars, lost, owed, backlog,
                 conf, hasdata, ui_queue, cmd, reply, got, killed>>

\* Nobody came for self.timeout, or for maxuiwait when no timeout is set.  What is left
\* in ready is not read again before select() sets it anew.
Timers ==
  /\ pc = "timers"
  /\ ready' = {}
  /\ pc' = (IF Asking THEN "command" ELSE "idle")
  /\ \/ UNCHANGED quit
     \/ /\ \/ command_channel = None /\ Timeout
           \/ ~hadanyui /\ ~Timeout
        /\ quit' = TRUE
  /\ UNCHANGED <<controllersock, newconnections, command_channel, hadanyui,
                 cookerVars, clientVars, historyVars, backlog, conf, hasdata,
                 ui_queue, fds, cmd, reply, got, killed>>

\* command_channel.get() raises EOFError; nothing idle is run before the next round.
Eof ==
  /\ pc = "command" /\ cmd[command_channel] = None
  /\ DisconnectClient
  /\ ready' = {} /\ pc' = "top"
  /\ UNCHANGED <<hadanyui, asyncCommand, idlefun, parser, clientVars, lost, owed,
                 backlog, conf, hasdata, ui_queue, fds, cmd, reply, got, killed>>

TerminateServer ==
  /\ pc = "command" /\ cmd[command_channel] = "terminateServer"
  /\ quit' = TRUE /\ pc' = "top"
  /\ cmd' = [cmd EXCEPT ![command_channel] = None]
  /\ UNCHANGED <<ready, controllersock, newconnections, command_channel, hadanyui,
                 cookerVars, clientVars, historyVars, backlog, conf, hasdata,
                 ui_queue, fds, reply, got, killed>>

Shutdown(s) ==
  /\ state' = s /\ parser' = "none"
  /\ owed' = (asyncCommand # None)
  /\ UNCHANGED <<asyncCommand, idlefun, parsecache_valid>>

\* Command.runCommand
Run(c, command, answer) ==
  /\ hasdata' = (hasdata \/ command # "setFeatures")
  /\ \/ /\ command = "setFeatures"
        /\ answer = (IF state \in {"initial"} \cup Stopped THEN "done" ELSE "refused")
        /\ UNCHANGED <<cookerVars, owed>>
     \/ command = "stateShutdown" /\ Shutdown("shutdown") /\ answer = "done"
     \/ command = "stateForceShutdown" /\ Shutdown("forceshutdown") /\ answer = "done"
     \/ /\ command = "buildTargets" /\ asyncCommand # None
        /\ answer = "busy" /\ UNCHANGED <<cookerVars, owed>>
     \/ /\ command = "buildTargets" /\ asyncCommand = None
        /\ answer = "done" /\ asyncCommand' = c /\ idlefun' = "runCommands"
        /\ UNCHANGED <<state, parser, parsecache_valid, owed>>

\* A client that has closed its pipe gets no answer: the exception is logged.
Answer(c, answer) ==
  reply' = IF pipe[c] = "closed" THEN reply ELSE [reply EXCEPT ![c] = answer]

\* Mutant of RunCommand: the round ends without the idle functions.
RunCommandOnly ==
  /\ pc = "command"
  /\ cmd[command_channel] \notin {None, "terminateServer"}
  /\ \E answer \in {"done", "busy", "refused"} :
       /\ Run(command_channel, cmd[command_channel], answer)
       /\ Answer(command_channel, answer)
  /\ cmd' = [cmd EXCEPT ![command_channel] = None]
  /\ pc' = "select"
  /\ UNCHANGED <<ready, loopVars, clientVars, abandoned, lost, backlog, conf,
                 ui_queue, fds, got, killed>>

RunCommand ==
  /\ pc = "command"
  /\ cmd[command_channel] \notin {None, "terminateServer"}
  /\ \E answer \in {"done", "busy", "refused"} :
       /\ Run(command_channel, cmd[command_channel], answer)
       /\ Answer(command_channel, answer)
  /\ cmd' = [cmd EXCEPT ![command_channel] = None]
  /\ pc' = "idle"
  /\ UNCHANGED <<ready, loopVars, clientVars, abandoned, lost, backlog, conf,
                 ui_queue, fds, got, killed>>

-----------------------------------------------------------------------------
(* Idle functions *)

IdleFun(f) ==
  /\ pc = "idle" /\ idlefun = f
  /\ pc' = "select"
  /\ UNCHANGED <<ready, controllersock, newconnections, command_channel, hadanyui,
                 clientVars, abandoned, backlog, conf, hasdata, fds, cmd, reply, killed>>

NothingIdle ==
  /\ IdleFun("none")
  /\ FireOther
  /\ UNCHANGED <<quit, cookerVars, lost, owed>>

\* finishAsyncCommand, after which the idle function returns False
FinishAsyncCommand ==
  /\ Fire(asyncCommand)
  /\ asyncCommand' = None /\ state' = "initial" /\ idlefun' = "none"
  /\ owed' = FALSE
  /\ UNCHANGED quit

\* runAsyncCommand when the cooker is to stop: updateCache() stops the parser and
\* raises.
CommandStopped ==
  /\ IdleFun("runCommands") /\ state \in Stopped
  /\ parser' = "none"
  /\ FinishAsyncCommand
  /\ UNCHANGED <<parsecache_valid, lost>>

\* updateCache() starts a parser unless one is at work for this state.
NewParser == state # "parsing" /\ ~parsecache_valid

Parsing == IdleFun("runCommands") /\ state \in {"initial", "parsing"}

StartParser ==
  /\ lost' = (lost \/ (NewParser /\ parser = "live"))
  /\ parsecache_valid' = (parsecache_valid \/ NewParser)

\* updateCache() takes one result from the parser and there is more to come.
ParseNext ==
  /\ Parsing /\ (NewParser \/ parser = "live")
  /\ StartParser
  /\ parser' = "live" /\ state' = "parsing"
  /\ FireOther
  /\ UNCHANGED <<quit, asyncCommand, idlefun, owed>>

\* The parser has nothing left.
ParseDone ==
  /\ Parsing
  /\ StartParser
  /\ parser' = "none" /\ state' = "running"
  /\ FireOther
  /\ UNCHANGED <<quit, asyncCommand, idlefun, owed>>

\* A recipe fails to parse, or the configuration before there is a new parser.
ParseFails ==
  /\ Parsing
  /\ \/ StartParser /\ parser' = "none"
     \/ NewParser /\ UNCHANGED <<parser, parsecache_valid, lost>>
  /\ FinishAsyncCommand

\* buildTargets() registers the build, or raises: there is nothing to build.
StartBuild ==
  /\ IdleFun("runCommands") /\ state = "running"
  /\ idlefun' = "buildTargetsIdle"
  /\ FireOther
  /\ UNCHANGED <<quit, asyncCommand, state, parser, parsecache_valid, lost, owed>>

NothingToBuild ==
  /\ IdleFun("runCommands") /\ state = "running"
  /\ FinishAsyncCommand
  /\ UNCHANGED <<parser, parsecache_valid, lost>>

\* execute_runqueue() has more to do; a requested stop has reached the run queue.
BuildGoesOn ==
  /\ IdleFun("buildTargetsIdle")
  /\ owed' = (owed /\ state \notin Stopped)
  /\ FireOther
  /\ UNCHANGED <<quit, cookerVars, lost>>

BuildEnds ==
  /\ IdleFun("buildTargetsIdle")
  /\ FinishAsyncCommand
  /\ UNCHANGED <<parser, parsecache_valid, lost>>

\* An exception in the idle function ends the server.
IdleRaises ==
  /\ IdleFun("buildTargetsIdle")
  /\ quit' = TRUE /\ idlefun' = "none"
  /\ FireOther
  /\ UNCHANGED <<asyncCommand, state, parser, parsecache_valid, lost, owed>>

Select ==
  /\ pc = "select"
  /\ ready' = {fd \in Watched : Readable(fd)}
  /\ pc' = "top"
  /\ UNCHANGED <<loopVars, cookerVars, clientVars, historyVars, backlog, conf,
                 hasdata, ui_queue, fds, cmd, reply, got, killed>>

\* The process has ended, and what it held is gone.
Ended ==
  /\ pc' = "gone" /\ ready' = {}
  /\ controllersock' = None /\ newconnections' = <<>> /\ command_channel' = None
  /\ backlog' = <<>> /\ fds' = [c \in Clients |-> "none"]
  /\ cmd' = [c \in Clients |-> None]
  /\ asyncCommand' = None /\ idlefun' = "none" /\ ui_queue' = <<>>
  /\ parser' = "none" /\ state' = "forceshutdown" /\ parsecache_valid' = FALSE
  /\ owed' = FALSE
  /\ UNCHANGED <<hadanyui, quit, clientVars, abandoned, lost, conf, hasdata, reply, killed>>

\* After the loop: the socket is removed, cooker.shutdown(True) and post_serve(),
\* which fires CookerExit; then the process ends.
Exit ==
  /\ pc = "exit"
  /\ IF hasdata /\ command_channel # None THEN Deliver(Append(ui_queue, Exiting))
                                          ELSE UNCHANGED got
  /\ Ended

-----------------------------------------------------------------------------
(* Clients *)

serverVars == <<pc, ready, loopVars, cookerVars, historyVars, conf, hasdata, ui_queue>>

Goto(c, step) == ui' = [ui EXCEPT ![c] = step]

\* Client c is gone with all it has.
Close(c) ==
  /\ Goto(c, "left")
  /\ sock' = [sock EXCEPT ![c] = "closed"] /\ pipe' = [pipe EXCEPT ![c] = "closed"]
  /\ stops' = [stops EXCEPT ![c] = 0] /\ reply' = [reply EXCEPT ![c] = None]
  /\ got' = [got EXCEPT ![c] = {}]
  /\ UNCHANGED <<backlog, fds, cmd>>

Connect(c) ==
  /\ ui[c] = "away" /\ pc # "gone"
  /\ Goto(c, "connected")
  /\ sock' = [sock EXCEPT ![c] = "open"] /\ pipe' = [pipe EXCEPT ![c] = "open"]
  /\ backlog' = Append(backlog, c)
  /\ UNCHANGED <<stops, fds, cmd, reply, got, killed, serverVars>>

Ask(c, command, step) ==
  /\ cmd' = [cmd EXCEPT ![c] = command]
  /\ Goto(c, step)
  /\ UNCHANGED <<sock, pipe, backlog, reply>>

\* sendfds, then updateFeatureSet
SendFds(c) ==
  /\ ui[c] = "connected" /\ pc # "gone"
  /\ fds' = [fds EXCEPT ![c] = "sent"]
  /\ Ask(c, "setFeatures", "setFeatures")
  /\ UNCHANGED <<stops, got, killed, serverVars>>

Command(c) ==
  /\ ui[c] = "ready" /\ pc # "gone"
  /\ \/ Ask(c, "buildTargets", "buildTargets")
     \/ c \in Killers /\ Ask(c, "terminateServer", "terminating")
  /\ UNCHANGED <<stops, fds, got, killed, serverVars>>

\* knotty on KeyboardInterrupt: first stateShutdown, then stateForceShutdown
Interrupt(c) ==
  /\ ui[c] = "waiting" /\ pc # "gone" /\ stops[c] < 2
  /\ IF stops[c] = 0 THEN Ask(c, "stateShutdown", "stateShutdown")
                     ELSE Ask(c, "stateForceShutdown", "stateForceShutdown")
  /\ stops' = [stops EXCEPT ![c] = @ + 1]
  /\ UNCHANGED <<fds, got, killed, serverVars>>

Asked == {"setFeatures", "buildTargets", "stateShutdown", "stateForceShutdown"}

\* The answer decides what the client does next; setFeatures refused is an error
\* nothing catches.
Answered(c) ==
  /\ ui[c] \in Asked /\ reply[c] # None
  /\ reply' = [reply EXCEPT ![c] = None]
  /\ Goto(c, CASE reply[c] = "busy" -> "leaving"
               [] reply[c] = "refused" -> "failed"
               [] ui[c] = "setFeatures" -> "ready"
               [] ui[c] = "stateForceShutdown" -> "leaving"
               [] OTHER -> "waiting")
  /\ UNCHANGED <<sock, pipe, stops, backlog, fds, cmd, got, killed, serverVars>>

\* runCommand's poll() of 30 s, twice, has no answer.
TimesOut(c) ==
  /\ ui[c] \in Asked /\ reply[c] = None
  /\ IF ui[c] = "setFeatures"
     THEN Goto(c, "failed") /\ pipe' = [pipe EXCEPT ![c] = "closed"]
     ELSE Goto(c, "leaving") /\ UNCHANGED pipe
  /\ UNCHANGED <<sock, stops, backlog, fds, cmd, reply, got, killed, serverVars>>

\* Any completion, whose ever it is, ends the wait of a user interface.
SeesEnd(c) ==
  /\ ui[c] = "waiting" /\ got[c] # {}
  /\ Goto(c, "leaving")
  /\ UNCHANGED <<sock, pipe, stops, backlog, fds, cmd, reply, got, killed, serverVars>>

\* terminate() closes the socket first.
Leave(c) ==
  /\ ui[c] \in {"leaving", "terminating"}
  /\ Goto(c, IF ui[c] = "leaving" THEN "failed" ELSE "terminated")
  /\ sock' = [sock EXCEPT ![c] = "closed"]
  /\ UNCHANGED <<pipe, stops, backlog, fds, cmd, reply, got, killed, serverVars>>

Left(c) ==
  /\ ui[c] \in {"failed", "terminated"}
  /\ Close(c) /\ UNCHANGED <<killed, serverVars>>

\* The server has gone: what is read is EOF, what is written raises.
ServerGone(c) ==
  /\ pc = "gone" /\ ui[c] \in Asked \cup {"connected", "ready"}
  /\ reply[c] = None
  /\ Close(c) /\ UNCHANGED <<killed, serverVars>>

Kill(c) ==
  /\ ui[c] \notin {"away", "left"} /\ killed < MaxKilled
  /\ killed' = killed + 1
  /\ Close(c) /\ UNCHANGED serverVars

-----------------------------------------------------------------------------
Server ==
  \/ Top \/ Ui \/ Timers \/ Eof \/ TerminateServer \/ RunCommand
  \/ NothingIdle \/ CommandStopped \/ ParseNext \/ ParseDone \/ ParseFails
  \/ StartBuild \/ NothingToBuild \/ BuildGoesOn \/ BuildEnds \/ IdleRaises
  \/ Select \/ Exit

Client(c) ==
  SendFds(c) \/ Command(c) \/ Answered(c) \/ SeesEnd(c) \/ Leave(c) \/ Left(c)
  \/ ServerGone(c)

Next ==
  \/ Server
  \/ \E c \in Clients : Client(c) \/ Connect(c) \/ Interrupt(c) \/ TimesOut(c) \/ Kill(c)

\* The loop goes round, clients go on, and a parse or a build ends when its idle
\* function is called often enough.
Spec ==
  /\ Init /\ [][Next]_vars
  /\ WF_vars(Server) /\ SF_vars(ParseDone) /\ SF_vars(BuildEnds)
  /\ \A c \in Clients : WF_vars(Client(c))

-----------------------------------------------------------------------------
(* Properties *)

\* A command is the current one, and others are told "Busy", only while an idle
\* function works on it or the server ends.
BusyWhileWorking == asyncCommand # None => idlefun # "none" \/ quit

\* A shutdown request that was carried out is not undone by the disconnection of
\* its client before the worker of the command has seen it.
ShutdownSeen == owed => state \in Stopped

\* The two, whatever order commands, idle functions and disconnections come in.
CommandsSound == TypeOK /\ BusyWhileWorking /\ ShutdownSeen

\* Unless a client leaves its command running, the next one finds the server as
\* a new one: its features are accepted, its command is not refused, the
\* completion it sees is its own and no parser is left at work unattended.
CleanHandover ==
  abandoned = {} =>
    /\ ~lost
    /\ state \in Stopped /\ pc # "gone" => command_channel # None
    /\ \A c \in Clients : reply[c] \notin {"busy", "refused"} /\ got[c] \subseteq {c, Exiting}

\* The completion of a command that its client left running is the only one that may
\* reach another client or be queued for it, and what has reached a client is not
\* queued any more: nobody is told twice, or of a command that still has its client.
StrayCompletions ==
  \A c \in Clients :
    /\ got[c] \subseteq {c, Exiting} \cup abandoned
    /\ \A i \in 1..Len(ui_queue) : ui_queue[i] \in abandoned \ got[c]

\* Every client that connects is served, or told, in the end, whatever the others
\* do, and also when the server ends: because it is told to, because nobody comes, or
\* because an idle function raises.  (What a killed server does to its client is in
\* ServerStart.)
Waiting == {c \in Clients : ui[c] \notin {"away", "left"}}
ClientsEnd == Waiting # {} ~> Waiting = {}

\* "Terminate any running bitbake server" (main.py:264).  This does not hold: with a
\* server timeout the loop may see that the client has left before it reads the
\* command, and drops it.
ServerTerminated == \A c \in Clients : ui[c] = "terminated" ~> pc = "gone"

\* "we always take and leave the cooker in state.initial" (command.py:279), so
\* setFeatures is never refused.  This does not hold when the client before left its
\* command running, which CleanHandover excepts.
FeaturesAccepted == \A c \in Clients : reply[c] # "refused"
=============================================================================
