------------------------ MODULE ProcessServerProofs ------------------------
(* Proofs about ProcessServer, for any clients, any server timeout and any     *)
(* number of killed clients.  That a shutdown request is seen is not inductive *)
(* by itself: a disconnection would undo one that the worker has not seen.  It *)
(* is because a request is seen in the round of the main loop that reads it,   *)
(* so `owed' holds from the command to the idle functions only, or on the way  *)
(* out (OwedInv).  The handover is as clean as it is because, until a client   *)
(* leaves its command behind, the running command belongs to the client that   *)
(* is registered (OwnerInv), no event is queued and no parser is alone.  That  *)
(* the end of a command is told once needs that a client has one command, and  *)
(* that nothing was told of it before it ends (StrayInv).                      *)
EXTENDS ProcessServer, SequenceTheorems, TLAPS

\* What TypeOK leaves out.
Types ==
  /\ TypeOK
  /\ {hadanyui, quit, hasdata, parsecache_valid, lost, owed} \subseteq BOOLEAN /\ abandoned \subseteq Clients
  /\ ui_queue \in Seq(Clients)
  /\ ui \in [Clients -> {"away", "connected", "setFeatures", "ready", "buildTargets",
                         "waiting", "stateShutdown", "stateForceShutdown", "terminating",
                         "leaving", "failed", "terminated", "left"}]
  /\ sock \in [Clients -> {"none", "open", "closed"}]
  /\ pipe \in [Clients -> {"none", "open", "closed"}]
  /\ reply \in [Clients -> {None, "done", "busy", "refused"}]

\* What select() returned, and where it leads the loop.
LoopInv ==
  /\ <<"controllersock", None>> \notin ready /\ <<"command_channel", None>> \notin ready
  /\ pc = "ui" => controllersock # None
  /\ pc = "command" => command_channel # None

\* The idle functions work for a command, and the cooker is busy only with one.
WorkInv ==
  /\ BusyWhileWorking
  /\ idlefun # "none" => asyncCommand # None
  /\ state \in {"parsing", "running"} => asyncCommand # None
  /\ state \in Stopped /\ pc # "gone" => command_channel # None

\* A shutdown request is seen in its round, or the server ends.
OwedInv ==
  owed => /\ state \in Stopped /\ asyncCommand # None
          /\ pc = "idle" \/ (quit /\ pc \in {"select", "top", "exit"})

\* A client starts one command.
Young == {"away", "connected", "setFeatures", "ready"}
OneCommand ==
  \A c \in Clients :
    /\ cmd[c] = "buildTargets" => ui[c] \notin Young
    /\ asyncCommand = c => ui[c] \notin Young /\ cmd[c] \notin {"setFeatures", "buildTargets"}

\* As long as no client has left its command behind
OwnerInv ==
  abandoned = {} =>
    /\ asyncCommand # None => command_channel = asyncCommand
    /\ ui_queue = <<>>
    /\ parser = "live" => state = "parsing" /\ idlefun = "runCommands"

\* The end of a command is told once: not before the command has ended, and to another
\* client only when its own has left it behind.
Told ==
  {c \in Clients : \/ \E i \in 1..Len(ui_queue) : ui_queue[i] = c
                  \/ \E d \in Clients : c \in got[d]}
NotYet == {c \in Clients : ui[c] \in Young \/ cmd[c] = "buildTargets" \/ asyncCommand = c}
StrayInv ==
  /\ StrayCompletions
  /\ asyncCommand \in {None, command_channel} \cup abandoned
  /\ NotYet \cap Told = {}

IInv == /\ Types /\ LoopInv /\ WorkInv /\ OwedInv /\ OneCommand /\ OwnerInv /\ StrayInv
        /\ CleanHandover

GotType == [Clients -> SUBSET (Clients \cup {Exiting})]
OwnGot == \A c \in Clients : got[c] \subseteq {c, Exiting}

-----------------------------------------------------------------------------
(* The operators *)

\* What is delivered is added to what the registered client has.
LEMMA DeliverKeeps ==
  ASSUME NEW events \in Seq(Clients \cup {Exiting}), Deliver(events),
         got \in GotType, command_channel \in Clients \cup {None}
  PROVE  /\ got' \in GotType
         /\ OwnGot /\ (\A i \in 1..Len(events) : events[i] \in {command_channel, Exiting})
            => OwnGot'
         /\ \A d \in Clients : \A e \in got'[d] :
              e \in got[d] \/ (d = command_channel /\ \E i \in 1..Len(events) : events[i] = e)
<1> DEFINE sent == {events[i] : i \in 1..Len(events)}
<1>1. sent \subseteq Clients \cup {Exiting}
  <2>1. \A i \in 1..Len(events) : events[i] \in Clients \cup {Exiting}
    OBVIOUS
  <2>2. QED
    BY <2>1
<1>2. (\A i \in 1..Len(events) : events[i] \in {command_channel, Exiting})
        => sent \subseteq {command_channel, Exiting}
  OBVIOUS
<1>3. got' = got \/ (/\ command_channel \in Clients
                     /\ got' = [got EXCEPT ![command_channel] = @ \cup sent])
  BY DEF Deliver
<1> HIDE DEF sent
<1>4. got' \in GotType
  BY <1>1, <1>3 DEF GotType
<1>5. OwnGot /\ sent \subseteq {command_channel, Exiting} => OwnGot'
  BY <1>3 DEF OwnGot, GotType
<1>6. \A d \in Clients : \A e \in got'[d] : e \in got[d] \/ (d = command_channel /\ e \in sent)
  BY <1>3 DEF GotType
<1>7. \A e \in sent : \E i \in 1..Len(events) : events[i] = e
  BY DEF sent
<1>8. QED
  BY <1>2, <1>4, <1>5, <1>6, <1>7

\* The end of the running command reaches its own client, if none was left behind.
LEMMA FireKeeps ==
  ASSUME IInv, asyncCommand # None, Fire(asyncCommand)
  PROVE  /\ ui_queue' \in Seq(Clients) /\ got' \in GotType
         /\ abandoned = {} => ui_queue' = <<>> /\ OwnGot'
         /\ abandoned' = abandoned => StrayCompletions'
         /\ Told' \subseteq Told \cup {asyncCommand}
<1>1. /\ asyncCommand \in Clients /\ command_channel \in Clients \cup {None}
      /\ ui_queue \in Seq(Clients) /\ got \in GotType
  BY DEF IInv, Types, TypeOK, GotType
<1>2. abandoned = {} => command_channel = asyncCommand /\ ui_queue = <<>> /\ OwnGot
  BY DEF IInv, OwnerInv, CleanHandover, OwnGot
<1>3. CASE command_channel = None
  <2>1. ui_queue' = Append(ui_queue, asyncCommand) /\ got' = got
    BY <1>3 DEF Fire
  <2>2. Append(ui_queue, asyncCommand) \in Seq(Clients)
    BY <1>1, AppendProperties
  <2>3. \A i \in 1..Len(ui_queue') : \/ ui_queue'[i] = asyncCommand
                                    \/ \E j \in 1..Len(ui_queue) : ui_queue[j] = ui_queue'[i]
    BY <1>1, <2>1
  <2>4. asyncCommand \in abandoned \ Told
    BY <1>1, <1>3 DEF IInv, StrayInv, NotYet
  <2>5. StrayCompletions
    BY DEF IInv, StrayInv
  <2>6. abandoned' = abandoned => StrayCompletions'
    BY <1>1, <2>1, <2>3, <2>4, <2>5 DEF StrayCompletions, Told
  <2>7. Told' \subseteq Told \cup {asyncCommand}
    BY <2>1, <2>3 DEF Told
  <2>8. QED
    BY <1>1, <1>2, <1>3, <2>1, <2>2, <2>6, <2>7
<1>4. CASE command_channel # None
  <2> DEFINE events == Append(ui_queue, asyncCommand)
  <2>1. Deliver(events) /\ ui_queue' = <<>>
    BY <1>4 DEF Fire
  <2>2. events \in Seq(Clients \cup {Exiting})
    BY <1>1, AppendProperties
  <2>3. ui_queue = <<>> => \A i \in 1..Len(events) : events[i] = asyncCommand
    BY <1>1
  <2>4. \A i \in 1..Len(events) : \/ events[i] = asyncCommand
                                 \/ \E j \in 1..Len(ui_queue) : ui_queue[j] = events[i]
    BY <1>1
  <2> HIDE DEF events
  <2>5. \A d \in Clients : \A e \in got'[d] :
          \/ e \in got[d]
          \/ /\ d = command_channel
             /\ e = asyncCommand \/ \E j \in 1..Len(ui_queue) : ui_queue[j] = e
    <3>1. \A d \in Clients : \A e \in got'[d] :
            e \in got[d] \/ (d = command_channel /\ \E i \in 1..Len(events) : events[i] = e)
      BY <1>1, <2>1, <2>2, DeliverKeeps
    <3>2. QED
      BY <2>4, <3>1
  <2>6. asyncCommand \in {command_channel} \cup abandoned /\ StrayCompletions
    BY DEF IInv, StrayInv
  <2>7. abandoned' = abandoned => StrayCompletions'
    BY <2>1, <2>5, <2>6, EmptySeq DEF StrayCompletions
  <2>8. Told' \subseteq Told \cup {asyncCommand}
    BY <2>1, <2>5, EmptySeq DEF Told
  <2>9. QED
    BY <1>1, <1>2, <2>1, <2>2, <2>3, <2>7, <2>8, DeliverKeeps
<1>5. QED
  BY <1>3, <1>4

\* Other events take what is queued with them.
LEMMA FireOtherKeeps ==
  ASSUME IInv, FireOther
  PROVE  /\ ui_queue' \in Seq(Clients) /\ got' \in GotType
         /\ abandoned = {} => ui_queue' = <<>> /\ OwnGot'
         /\ abandoned' = abandoned => StrayCompletions'
         /\ Told' \subseteq Told
<1>1. /\ command_channel \in Clients \cup {None}
      /\ ui_queue \in Seq(Clients) /\ got \in GotType
  BY DEF IInv, Types, TypeOK, GotType
<1>2. abandoned = {} => ui_queue = <<>> /\ OwnGot
  BY DEF IInv, OwnerInv, CleanHandover, OwnGot
<1>3. CASE Deliver(ui_queue) /\ ui_queue' = <<>>
  <2>1. ui_queue \in Seq(Clients \cup {Exiting})
    BY <1>1
  <2>2. ui_queue = <<>> => \A i \in 1..Len(ui_queue) : ui_queue[i] \in {command_channel, Exiting}
    OBVIOUS
  <2>3. \A d \in Clients : \A e \in got'[d] :
          \/ e \in got[d]
          \/ d = command_channel /\ \E j \in 1..Len(ui_queue) : ui_queue[j] = e
    BY <1>1, <1>3, <2>1, DeliverKeeps
  <2>4. abandoned' = abandoned => StrayCompletions'
    BY <1>3, <2>3, EmptySeq DEF IInv, StrayInv, StrayCompletions
  <2>5. Told' \subseteq Told
    BY <1>3, <2>3, EmptySeq DEF Told
  <2>6. QED
    BY <1>1, <1>2, <1>3, <2>1, <2>2, <2>4, <2>5, DeliverKeeps
<1>4. CASE UNCHANGED <<got, ui_queue>>
  BY <1>1, <1>2, <1>4 DEF OwnGot, IInv, StrayInv, StrayCompletions, Told
<1>5. QED
  BY <1>3, <1>4 DEF FireOther

\* What disconnect_client does to the loop and to the cooker.
LEMMA DisconnectKeeps ==
  ASSUME IInv, DisconnectClient
  PROVE  /\ command_channel' = None
         /\ controllersock' \in Clients \cup {None} /\ newconnections' \in Seq(Clients)
         /\ quit' \in BOOLEAN /\ (quit => quit')
         /\ parsecache_valid' \in BOOLEAN /\ abandoned' \subseteq Clients
         /\ \/ command_channel = None /\ state' = state /\ abandoned' = abandoned
            \/ /\ command_channel # None /\ state' = "initial"
               /\ abandoned' = abandoned \cup ({asyncCommand} \ {None})
<1>1. /\ quit \in BOOLEAN /\ parsecache_valid \in BOOLEAN /\ abandoned \subseteq Clients
      /\ asyncCommand \in Clients \cup {None}
      /\ controllersock \in Clients \cup {None} /\ newconnections \in Seq(Clients)
      /\ Timeout \in BOOLEAN
  BY DEF IInv, Types, TypeOK, Timeout
<1>2. quit' \in BOOLEAN /\ (quit => quit')
  BY <1>1 DEF DisconnectClient
<1>3. abandoned' \subseteq Clients
  BY <1>1 DEF DisconnectClient
<1>4. CASE newconnections # <<>>
  <2> DEFINE n == Len(newconnections)
  <2>1. n \in Nat /\ n >= 1
    BY <1>1, <1>4, EmptySeq
  <2>2. newconnections[n] \in Clients /\ SubSeq(newconnections, 1, n - 1) \in Seq(Clients)
    BY <1>1, <2>1, SubSeqProperties
  <2>3. QED
    BY <1>1, <1>2, <1>3, <1>4, <2>2 DEF DisconnectClient
<1>5. CASE newconnections = <<>>
  BY <1>1, <1>2, <1>3, <1>5 DEF DisconnectClient
<1>6. QED
  BY <1>4, <1>5

-----------------------------------------------------------------------------
(* The idle functions *)

\* What all of them keep: they change neither the clients nor who is registered.
LEMMA IdleKeeps ==
  ASSUME IInv, NEW f, IdleFun(f),
         {quit', parsecache_valid', lost', owed'} \subseteq BOOLEAN, quit => quit',
         asyncCommand' \in {None, asyncCommand},
         idlefun' \in {"none", "runCommands", "buildTargetsIdle"},
         state' \in {"initial", "parsing", "running"} \cup Stopped,
         parser' \in {"none", "live"},
         asyncCommand' # None => idlefun' # "none" \/ quit',
         idlefun' # "none" \/ state' \in {"parsing", "running"} => asyncCommand' # None,
         state' \in Stopped => state \in Stopped,
         owed' => state' \in Stopped /\ asyncCommand' # None /\ quit',
         ui_queue' \in Seq(Clients), got' \in GotType,
         abandoned = {} => ui_queue' = <<>> /\ OwnGot',
         abandoned' = abandoned => StrayCompletions',
         Told' \subseteq Told \/ (asyncCommand' = None /\ Told' \subseteq Told \cup {asyncCommand}),
         abandoned = {} => ~lost' /\ (parser' = "live" => state' = "parsing" /\ idlefun' = "runCommands")
  PROVE  IInv'
<1>1. /\ pc = "idle" /\ pc' = "select"
      /\ UNCHANGED <<ready, controllersock, newconnections, command_channel, hadanyui,
                     ui, sock, pipe, abandoned, backlog, hasdata, cmd, reply>>
  BY DEF IdleFun, clientVars
<1>2. Types'
  BY <1>1 DEF IInv, Types, TypeOK, GotType
<1>3. LoopInv'
  BY <1>1 DEF IInv, LoopInv
<1>4. WorkInv'
  BY <1>1 DEF IInv, WorkInv, BusyWhileWorking, Stopped
<1>5. OwedInv'
  BY <1>1 DEF OwedInv
<1>6. OneCommand'
  BY <1>1, ServerAssumption DEF IInv, OneCommand
<1>7. OwnerInv'
  BY <1>1 DEF IInv, OwnerInv
<1>8. CleanHandover'
  <2>1. state' \in Stopped /\ pc' # "gone" => command_channel' # None
    BY <1>1 DEF IInv, WorkInv
  <2>2. abandoned' = {} => \A c \in Clients : reply'[c] \notin {"busy", "refused"}
    BY <1>1 DEF IInv, CleanHandover
  <2>3. QED
    BY <1>1, <2>1, <2>2 DEF CleanHandover, OwnGot
<1>9. StrayInv'
  <2>1. NotYet' \subseteq NotYet /\ (asyncCommand' = None => asyncCommand \notin NotYet')
    BY <1>1, ServerAssumption DEF IInv, OneCommand, NotYet
  <2>2. NotYet' \cap Told' = {}
    BY <2>1 DEF IInv, StrayInv
  <2>3. QED
    BY <1>1, <2>2 DEF IInv, StrayInv
<1>10. QED
  BY <1>2, <1>3, <1>4, <1>5, <1>6, <1>7, <1>8, <1>9 DEF IInv

\* What holds of the command when an idle function is called.
LEMMA AtWork ==
  ASSUME IInv
  PROVE  /\ {quit, parsecache_valid, lost, owed} \subseteq BOOLEAN
         /\ idlefun \in {"none", "runCommands", "buildTargetsIdle"}
         /\ state \in {"initial", "parsing", "running"} \cup Stopped
         /\ parser \in {"none", "live"}
         /\ asyncCommand # None => idlefun # "none" \/ quit
         /\ idlefun # "none" \/ state \in {"parsing", "running"} => asyncCommand # None
         /\ owed => state \in Stopped /\ asyncCommand # None
         /\ abandoned = {} => ~lost
         /\ abandoned = {} /\ parser = "live" => state = "parsing" /\ idlefun = "runCommands"
  BY DEF IInv, Types, TypeOK, WorkInv, BusyWhileWorking, OwedInv, OwnerInv, CleanHandover

\* A new parser replaces one at work only when a client has left its command running.
LEMMA StartParserKeeps ==
  ASSUME IInv, StartParser
  PROVE  {lost', parsecache_valid'} \subseteq BOOLEAN /\ (abandoned = {} => ~lost')
<1>1. NewParser /\ parser = "live" => abandoned # {}
  BY AtWork DEF NewParser
<1>2. {NewParser, parser = "live"} \subseteq BOOLEAN
  BY AtWork DEF NewParser
<1>3. QED
  BY <1>1, <1>2, AtWork DEF StartParser

\* No idle function, or one that goes on: the command stays what it was.
LEMMA IdleGoesOn ==
  ASSUME IInv, NothingIdle \/ ParseNext \/ ParseDone \/ StartBuild \/ BuildGoesOn \/ IdleRaises
  PROVE  IInv'
<1>1. FireOther => /\ ui_queue' \in Seq(Clients) /\ got' \in GotType
                   /\ abandoned = {} => ui_queue' = <<>> /\ OwnGot'
                   /\ abandoned' = abandoned => StrayCompletions'
                   /\ Told' \subseteq Told
  BY FireOtherKeeps
<1>2. CASE NothingIdle
  <2>1. /\ IdleFun("none") /\ idlefun = "none" /\ FireOther
        /\ UNCHANGED <<quit, asyncCommand, idlefun, state, parser, parsecache_valid, lost, owed>>
    BY <1>2 DEF NothingIdle, IdleFun, cookerVars
  <2>2. owed => quit
    BY <2>1, AtWork
  <2>3. QED
    BY <1>1, <2>1, <2>2, AtWork, IdleKeeps
<1>3. CASE ParseNext
  <2>1. /\ IdleFun("runCommands") /\ idlefun = "runCommands" /\ FireOther
        /\ state \in {"initial", "parsing"} /\ StartParser
        /\ parser' = "live" /\ state' = "parsing"
        /\ UNCHANGED <<quit, asyncCommand, idlefun, owed>>
    BY <1>3 DEF ParseNext, Parsing, IdleFun
  <2>2. ~owed /\ "parsing" \notin Stopped
    BY <2>1, AtWork DEF Stopped
  <2>3. QED
    BY <1>1, <2>1, <2>2, StartParserKeeps, AtWork, IdleKeeps
<1>4. CASE ParseDone
  <2>1. /\ IdleFun("runCommands") /\ idlefun = "runCommands" /\ FireOther
        /\ state \in {"initial", "parsing"} /\ StartParser
        /\ parser' = "none" /\ state' = "running"
        /\ UNCHANGED <<quit, asyncCommand, idlefun, owed>>
    BY <1>4 DEF ParseDone, Parsing, IdleFun
  <2>2. ~owed /\ "running" \notin Stopped
    BY <2>1, AtWork DEF Stopped
  <2>3. QED
    BY <1>1, <2>1, <2>2, StartParserKeeps, AtWork, IdleKeeps
<1>5. CASE StartBuild
  <2>1. /\ IdleFun("runCommands") /\ idlefun = "runCommands" /\ FireOther
        /\ state = "running" /\ idlefun' = "buildTargetsIdle"
        /\ UNCHANGED <<quit, asyncCommand, state, parser, parsecache_valid, lost, owed>>
    BY <1>5 DEF StartBuild, IdleFun
  <2>2. ~owed /\ "running" \notin Stopped
    BY <2>1, AtWork DEF Stopped
  <2>3. QED
    BY <1>1, <2>1, <2>2, AtWork, IdleKeeps
<1>6. CASE BuildGoesOn
  <2>1. /\ IdleFun("buildTargetsIdle") /\ idlefun = "buildTargetsIdle" /\ FireOther
        /\ owed' = (owed /\ state \notin Stopped)
        /\ UNCHANGED <<quit, asyncCommand, idlefun, state, parser, parsecache_valid, lost>>
    BY <1>6 DEF BuildGoesOn, IdleFun, cookerVars
  <2>2. owed' = FALSE
    BY <2>1, AtWork
  <2>3. QED
    BY <1>1, <2>1, <2>2, AtWork, IdleKeeps
<1>7. CASE IdleRaises
  <2>1. /\ IdleFun("buildTargetsIdle") /\ idlefun = "buildTargetsIdle" /\ FireOther
        /\ quit' = TRUE /\ idlefun' = "none"
        /\ UNCHANGED <<asyncCommand, state, parser, parsecache_valid, lost, owed>>
    BY <1>7 DEF IdleRaises, IdleFun
  <2>2. abandoned = {} => parser # "live"
    BY <2>1, AtWork
  <2>3. QED
    BY <1>1, <2>1, <2>2, AtWork, IdleKeeps
<1>8. QED
  BY <1>2, <1>3, <1>4, <1>5, <1>6, <1>7

\* The command ends.
LEMMA IdleEnds ==
  ASSUME IInv, CommandStopped \/ ParseFails \/ NothingToBuild \/ BuildEnds
  PROVE  IInv'
<1>1. PICK f \in {"runCommands", "buildTargetsIdle"} :
        /\ IdleFun(f) /\ idlefun = f
        /\ FinishAsyncCommand
        /\ StartParser \/ UNCHANGED <<parsecache_valid, lost>>
        /\ \/ parser' = "none"
           \/ parser' = parser /\ (state = "running" \/ f = "buildTargetsIdle" \/ NewParser)
  BY DEF CommandStopped, ParseFails, Parsing, NothingToBuild, BuildEnds, IdleFun
<1>2. /\ Fire(asyncCommand) /\ asyncCommand' = None /\ state' = "initial"
      /\ idlefun' = "none" /\ owed' = FALSE /\ UNCHANGED quit
  BY <1>1 DEF FinishAsyncCommand
<1>3. asyncCommand # None
  BY <1>1, AtWork
<1>4. /\ ui_queue' \in Seq(Clients) /\ got' \in GotType
      /\ abandoned = {} => ui_queue' = <<>> /\ OwnGot'
      /\ abandoned' = abandoned => StrayCompletions'
      /\ Told' \subseteq Told \cup {asyncCommand}
  BY <1>2, <1>3, FireKeeps
<1>5. parser' \in {"none", "live"} /\ (abandoned = {} => parser' = "none")
  BY <1>1, AtWork DEF NewParser
<1>6. {lost', parsecache_valid'} \subseteq BOOLEAN /\ (abandoned = {} => ~lost')
  BY <1>1, AtWork, StartParserKeeps
<1>7. QED
  BY <1>1, <1>2, <1>4, <1>5, <1>6, AtWork, IdleKeeps DEF Stopped

-----------------------------------------------------------------------------
(* The main loop *)

\* What its steps keep: the command goes on, and at most its client is dropped.
LEMMA LoopKeeps ==
  ASSUME IInv, pc # "gone",
         UNCHANGED <<asyncCommand, idlefun, parser, ui, sock, pipe, lost, owed, hasdata,
                     ui_queue, reply, got>>,
         pc' \in {"top", "ui", "timers", "command", "idle", "select", "exit"},
         backlog' \in Seq(Clients), newconnections' \in Seq(Clients),
         controllersock' \in Clients \cup {None}, command_channel' \in {None, controllersock'},
         hadanyui' \in BOOLEAN, quit' \in BOOLEAN, parsecache_valid' \in BOOLEAN,
         abandoned' \subseteq Clients, quit => quit',
         cmd' = cmd \/ \E c \in Clients : cmd' = [cmd EXCEPT ![c] = None],
         \/ /\ command_channel # None => command_channel' = command_channel
            /\ state' = state /\ abandoned' = abandoned
         \/ /\ command_channel # None /\ command_channel' = None /\ state' = "initial"
            /\ abandoned' = abandoned \cup ({asyncCommand} \ {None}) /\ ~owed,
         owed => quit /\ pc' \in {"select", "top", "exit"},
         LoopInv'
  PROVE  IInv'
<1>1. /\ cmd' \in [Clients -> {None, "setFeatures", "buildTargets", "terminateServer",
                               "stateShutdown", "stateForceShutdown"}]
      /\ \A c \in Clients : cmd'[c] \in {cmd[c], None}
  BY DEF IInv, Types, TypeOK
<1>2. state' \in {"initial", state} /\ "initial" \notin Stopped \cup {"parsing", "running"}
  BY DEF Stopped
<1>3. Types'
  BY <1>1, <1>2 DEF IInv, Types, TypeOK
<1>4. WorkInv'
  BY <1>2 DEF IInv, WorkInv, BusyWhileWorking, Types, TypeOK
<1>5. OwedInv'
  BY DEF IInv, OwedInv
<1>6. OneCommand'
  BY <1>1, ServerAssumption DEF IInv, OneCommand
<1>7. OwnerInv'
  BY DEF IInv, OwnerInv, WorkInv, Types
<1>8. CleanHandover'
  <2>1. abandoned' = {} => abandoned = {}
    BY DEF IInv, Types
  <2>2. state' \in Stopped => command_channel' # None
    BY <1>2 DEF IInv, WorkInv, OwedInv
  <2>3. QED
    BY <2>1, <2>2 DEF IInv, CleanHandover
<1>9. StrayInv'
  <2>1. abandoned \subseteq abandoned' /\ asyncCommand' \in {None, command_channel'} \cup abandoned'
    BY DEF IInv, StrayInv
  <2>2. StrayCompletions'
    BY <2>1 DEF IInv, StrayInv, StrayCompletions
  <2>3. NotYet' \subseteq NotYet /\ Told' \subseteq Told
    BY <1>1, ServerAssumption DEF NotYet, Told
  <2>4. QED
    BY <2>1, <2>2, <2>3 DEF IInv, StrayInv
<1>10. QED
  BY <1>3, <1>4, <1>5, <1>6, <1>7, <1>8, <1>9 DEF IInv

\* What select() returned leads only to connections that are there.
LEMMA LoopFacts ==
  ASSUME IInv
  PROVE  /\ hadanyui \in BOOLEAN /\ quit \in BOOLEAN /\ parsecache_valid \in BOOLEAN
         /\ abandoned \subseteq Clients /\ owed \in BOOLEAN
         /\ backlog \in Seq(Clients) /\ newconnections \in Seq(Clients)
         /\ controllersock \in Clients \cup {None} /\ command_channel \in {None, controllersock}
         /\ pc \in {"ui", "timers", "command"} => ~owed
         /\ owed => quit \/ pc = "idle"
         /\ Entering => controllersock # None
         /\ Asking => command_channel # None
         /\ pc = "ui" => controllersock # None
         /\ pc = "command" => command_channel \in Clients
  BY DEF IInv, Types, TypeOK, OwedInv, LoopInv, Entering, Asking

\* accept(), also of several connections
LEMMA TopInv ==
  ASSUME IInv, Top
  PROVE  IInv'
<1>1. /\ pc = "top"
      /\ UNCHANGED <<ready, command_channel, hadanyui, quit, asyncCommand, idlefun, state,
                     parser, parsecache_valid, ui, sock, pipe, abandoned, lost, owed,
                     hasdata, ui_queue, cmd, reply, got>>
      /\ pc' \in {"exit", "ui", "timers"} /\ (quit => pc' = "exit")
      /\ pc' = "ui" => Entering
  BY DEF Top, cookerVars, clientVars, historyVars
<1>2. \/ UNCHANGED <<backlog, controllersock, newconnections>>
      \/ /\ backlog # <<>> /\ backlog' = <<>> /\ controllersock # None
         /\ newconnections' = newconnections \o backlog /\ UNCHANGED controllersock
      \/ /\ backlog # <<>> /\ backlog' = <<>> /\ controllersock = None
         /\ controllersock' = Head(backlog)
         /\ newconnections' = newconnections \o Tail(backlog)
  BY DEF Top
<1>3. backlog # <<>> => /\ Head(backlog) \in Clients /\ Tail(backlog) \in Seq(Clients)
                        /\ newconnections \o backlog \in Seq(Clients)
                        /\ newconnections \o Tail(backlog) \in Seq(Clients)
  <2>1. ASSUME NEW s \in Seq(Clients), NEW t \in Seq(Clients)
        PROVE  s \o t \in Seq(Clients)
    BY ConcatProperties
  <2>2. QED
    BY <2>1, LoopFacts, HeadTailProperties
<1>4. /\ backlog' \in Seq(Clients) /\ newconnections' \in Seq(Clients)
      /\ controllersock' \in Clients \cup {None}
      /\ controllersock # None => controllersock' = controllersock
  BY <1>2, <1>3, LoopFacts, EmptySeq
<1>5. LoopInv'
  BY <1>1, <1>4, LoopFacts DEF IInv, LoopInv
<1>6. command_channel' \in {None, controllersock'}
  BY <1>1, <1>4, LoopFacts
<1>7. owed => quit /\ pc' = "exit"
  BY <1>1, LoopFacts
<1>8. QED
  BY <1>1, <1>4, <1>5, <1>6, <1>7, LoopFacts, LoopKeeps

\* A user interface is registered, or the connection has ended.
LEMMA UiInv ==
  ASSUME IInv, Ui
  PROVE  IInv'
<1>1. /\ pc = "ui" /\ pc' = "timers"
      /\ UNCHANGED <<ready, asyncCommand, idlefun, parser, ui, sock, pipe, lost, owed,
                     backlog, hasdata, ui_queue, cmd, reply, got>>
  BY DEF Ui, clientVars
<1>2. CASE fds[controllersock] = "sent"
  <2>1. /\ command_channel' = controllersock /\ hadanyui' = TRUE
        /\ UNCHANGED <<controllersock, newconnections, quit, state, parsecache_valid, abandoned>>
    BY <1>2 DEF Ui
  <2>2. LoopInv'
    BY <1>1, <2>1, LoopFacts DEF IInv, LoopInv
  <2>3. QED
    BY <1>1, <2>1, <2>2, LoopFacts, LoopKeeps
<1>3. CASE DisconnectClient /\ UNCHANGED hadanyui
  <2>1. LoopInv'
    BY <1>1 DEF IInv, LoopInv
  <2>2. /\ hadanyui' \in BOOLEAN /\ quit' \in BOOLEAN
        /\ parsecache_valid' \in BOOLEAN /\ abandoned' \subseteq Clients
        /\ quit => quit'
    BY <1>3, LoopFacts, DisconnectKeeps
  <2>3. \/ /\ command_channel # None => command_channel' = command_channel
           /\ state' = state /\ abandoned' = abandoned
        \/ /\ command_channel # None /\ command_channel' = None /\ state' = "initial"
           /\ abandoned' = abandoned \cup ({asyncCommand} \ {None}) /\ ~owed
    BY <1>1, <1>3, LoopFacts, DisconnectKeeps
  <2>4. /\ newconnections' \in Seq(Clients) /\ controllersock' \in Clients \cup {None}
        /\ command_channel' \in {None, controllersock'}
    BY <1>3, DisconnectKeeps
  <2>5. QED
    BY <1>1, <2>1, <2>2, <2>3, <2>4, LoopFacts, LoopKeeps
<1>4. QED
  BY <1>2, <1>3 DEF Ui

\* The registered user interface has gone.
LEMMA EofInv ==
  ASSUME IInv, Eof
  PROVE  IInv'
<1>1. /\ pc = "command" /\ pc' = "top" /\ ready' = {} /\ DisconnectClient
      /\ UNCHANGED <<hadanyui, asyncCommand, idlefun, parser, ui, sock, pipe, lost, owed,
                     backlog, hasdata, ui_queue, cmd, reply, got>>
  BY DEF Eof, clientVars
<1>2. LoopInv'
  BY <1>1 DEF LoopInv
<1>3. /\ hadanyui' \in BOOLEAN /\ quit' \in BOOLEAN
      /\ parsecache_valid' \in BOOLEAN /\ abandoned' \subseteq Clients
      /\ quit => quit'
  BY <1>1, LoopFacts, DisconnectKeeps
<1>4. \/ /\ command_channel # None => command_channel' = command_channel
         /\ state' = state /\ abandoned' = abandoned
      \/ /\ command_channel # None /\ command_channel' = None /\ state' = "initial"
         /\ abandoned' = abandoned \cup ({asyncCommand} \ {None}) /\ ~owed
  BY <1>1, LoopFacts, DisconnectKeeps
<1>5. /\ newconnections' \in Seq(Clients) /\ controllersock' \in Clients \cup {None}
      /\ command_channel' \in {None, controllersock'}
  BY <1>1, DisconnectKeeps
<1>6. QED
  BY <1>1, <1>2, <1>3, <1>4, <1>5, LoopFacts, LoopKeeps

\* The steps that change little
LEMMA RoundInv ==
  ASSUME IInv, Timers \/ TerminateServer \/ Select
  PROVE  IInv'
<1>1. /\ UNCHANGED <<controllersock, newconnections, command_channel, hadanyui,
                     asyncCommand, idlefun, state, parser, parsecache_valid, ui, sock, pipe,
                     abandoned, lost, owed, backlog, hasdata, ui_queue, reply, got>>
      /\ quit' = quit \/ quit' = TRUE
  BY DEF Timers, TerminateServer, Select, loopVars, cookerVars, clientVars, historyVars
<1>2. /\ hadanyui' \in BOOLEAN /\ quit' \in BOOLEAN
      /\ parsecache_valid' \in BOOLEAN /\ abandoned' \subseteq Clients
      /\ quit => quit'
  <2>1. quit' \in BOOLEAN /\ (quit => quit')
    <3>1. quit \in BOOLEAN
      BY LoopFacts
    <3>2. CASE quit' = quit
      BY <3>1, <3>2
    <3>3. CASE quit' = TRUE
      BY <3>1, <3>3
    <3>4. QED
      BY <1>1, <3>2, <3>3
  <2>2. hadanyui' \in BOOLEAN /\ parsecache_valid' \in BOOLEAN /\ abandoned' \subseteq Clients
    BY <1>1, LoopFacts
  <2>3. QED
    BY <2>1, <2>2
<1>3. CASE Timers
  <2>1. /\ pc = "timers" /\ ready' = {} /\ cmd' = cmd /\ pc' \in {"command", "idle"}
        /\ pc' = "command" => Asking
    BY <1>3 DEF Timers
  <2>2. LoopInv'
    BY <1>1, <2>1, LoopFacts DEF IInv, LoopInv
  <2>3. QED
    BY <1>1, <1>2, <2>1, <2>2, LoopFacts, LoopKeeps
<1>4. CASE TerminateServer
  <2>1. /\ pc = "command" /\ ready' = ready /\ pc' = "top"
        /\ cmd' = [cmd EXCEPT ![command_channel] = None]
    BY <1>4 DEF TerminateServer
  <2>2. LoopInv'
    BY <1>1, <2>1 DEF IInv, LoopInv
  <2>3. QED
    BY <1>1, <1>2, <2>1, <2>2, LoopFacts, LoopKeeps
<1>5. CASE Select
  <2>1. /\ pc = "select" /\ ready' \subseteq Watched /\ pc' = "top" /\ cmd' = cmd
    BY <1>5 DEF Select
  <2>2. <<"controllersock", None>> \notin Watched /\ <<"command_channel", None>> \notin Watched
    BY DEF Watched
  <2>3. LoopInv'
    BY <1>1, <2>1, <2>2 DEF LoopInv
  <2>4. QED
    BY <1>1, <1>2, <2>1, <2>3, LoopFacts, LoopKeeps
<1>6. QED
  BY <1>3, <1>4, <1>5

\* The four things a command does: nothing, the answer being refused only while a
\* command runs; stop the cooker; nothing, the cooker being busy; and start.
LEMMA RunCases ==
  ASSUME IInv, NEW c \in Clients, NEW answer, Run(c, cmd[c], answer),
         cmd[c] \notin {None, "terminateServer"}
  PROVE  \/ /\ cmd[c] \in {"setFeatures", "buildTargets"}
            /\ UNCHANGED <<asyncCommand, idlefun, state, parser, parsecache_valid, owed>>
            /\ answer = "done" \/ (answer \in {"busy", "refused"} /\ asyncCommand # None)
         \/ /\ state' \in Stopped /\ parser' = "none" /\ owed' = (asyncCommand # None)
            /\ UNCHANGED <<asyncCommand, idlefun, parsecache_valid>>
            /\ answer = "done"
         \/ /\ cmd[c] = "buildTargets" /\ asyncCommand = None
            /\ asyncCommand' = c /\ idlefun' = "runCommands" /\ answer = "done"
            /\ UNCHANGED <<state, parser, parsecache_valid, owed>>
<1>1. state \notin {"initial"} \cup Stopped => asyncCommand # None
  BY DEF IInv, Types, TypeOK, WorkInv
<1>2. QED
  BY <1>1 DEF Run, Shutdown, cookerVars, Stopped

LEMMA RunCommandInv ==
  ASSUME IInv, RunCommand
  PROVE  IInv'
<1> DEFINE c == command_channel
<1>1. PICK answer \in {"done", "busy", "refused"} :
        Run(c, cmd[c], answer) /\ Answer(c, answer)
  BY DEF RunCommand
<1>2. /\ pc = "command" /\ pc' = "idle" /\ cmd' = [cmd EXCEPT ![c] = None]
      /\ cmd[c] \notin {None, "terminateServer"}
      /\ UNCHANGED <<ready, controllersock, newconnections, command_channel, hadanyui, quit,
                     ui, sock, pipe, abandoned, lost, backlog, ui_queue, got>>
  BY DEF RunCommand, loopVars, clientVars
<1>3. c \in Clients /\ ~owed
  BY <1>2, LoopFacts, ServerAssumption
<1>4. hasdata' \in BOOLEAN
  BY <1>1 DEF Run
<1>5. reply' \in [Clients -> {None, "done", "busy", "refused"}]
      /\ \A d \in Clients : reply'[d] \in {reply[d], answer}
  BY <1>1, <1>3 DEF Answer, IInv, Types
<1>6. /\ cmd' \in [Clients -> {None, "setFeatures", "buildTargets", "terminateServer",
                               "stateShutdown", "stateForceShutdown"}]
      /\ \A d \in Clients : cmd'[d] \in {cmd[d], None}
      /\ cmd'[c] = None
  BY <1>2, <1>3 DEF IInv, Types, TypeOK
<1>7. \/ /\ cmd[c] \in {"setFeatures", "buildTargets"}
         /\ UNCHANGED <<asyncCommand, idlefun, state, parser, parsecache_valid, owed>>
         /\ answer = "done" \/ (answer \in {"busy", "refused"} /\ asyncCommand # None)
      \/ /\ state' \in Stopped /\ parser' = "none" /\ owed' = (asyncCommand # None)
         /\ UNCHANGED <<asyncCommand, idlefun, parsecache_valid>>
         /\ answer = "done"
      \/ /\ cmd[c] = "buildTargets" /\ asyncCommand = None
         /\ asyncCommand' = c /\ idlefun' = "runCommands" /\ answer = "done"
         /\ UNCHANGED <<state, parser, parsecache_valid, owed>>
  BY <1>1, <1>2, <1>3, RunCases
<1> HIDE DEF c
<1>8. Types'
  <2>1. /\ asyncCommand' \in Clients \cup {None}
        /\ idlefun' \in {"none", "runCommands", "buildTargetsIdle"}
        /\ state' \in {"initial", "parsing", "running"} \cup Stopped
        /\ parser' \in {"none", "live"}
    BY <1>3, <1>7 DEF IInv, Types, TypeOK, Stopped
  <2>2. parsecache_valid' \in BOOLEAN /\ owed' \in BOOLEAN
    BY <1>7 DEF IInv, Types
  <2>3. QED
    BY <1>2, <1>4, <1>5, <1>6, <2>1, <2>2 DEF IInv, Types, TypeOK
<1>9. LoopInv'
  BY <1>2 DEF IInv, LoopInv
<1>10. WorkInv'
  <2>1. c # None /\ command_channel' = c
    BY <1>2, <1>3, ServerAssumption DEF c
  <2>2. QED
    BY <1>2, <1>3, <1>7, <2>1 DEF IInv, WorkInv, BusyWhileWorking, Stopped
<1>11. OwedInv'
  BY <1>2, <1>3, <1>7 DEF OwedInv
<1>12. OneCommand'
  BY <1>2, <1>3, <1>6, <1>7, ServerAssumption DEF IInv, OneCommand
<1>13. OwnerInv'
  BY <1>2, <1>3, <1>7 DEF IInv, OwnerInv, WorkInv, c
<1>14. CleanHandover'
  <2>1. abandoned = {} => answer = "done"
    BY <1>3, <1>7 DEF IInv, OwnerInv, OneCommand, c
  <2>2. WorkInv' => (state' \in Stopped /\ pc' # "gone" => command_channel' # None)
    BY DEF WorkInv
  <2>3. QED
    BY <1>2, <1>5, <1>10, <2>1, <2>2 DEF IInv, CleanHandover
<1>15. StrayInv'
  <2>1. asyncCommand' \in {None, command_channel'} \cup abandoned'
    BY <1>2, <1>7 DEF IInv, StrayInv, c
  <2>2. StrayCompletions'
    BY <1>2 DEF IInv, StrayInv, StrayCompletions
  <2>3. NotYet' \subseteq NotYet /\ Told' \subseteq Told
    BY <1>2, <1>6, <1>7, ServerAssumption DEF NotYet, Told
  <2>4. QED
    BY <2>1, <2>2, <2>3 DEF IInv, StrayInv
<1>16. QED
  BY <1>8, <1>9, <1>10, <1>11, <1>12, <1>13, <1>14, <1>15 DEF IInv

\* CookerExit goes to the client that is registered; what the process held is gone.
LEMMA ExitInv ==
  ASSUME IInv, Exit
  PROVE  IInv'
<1>1. /\ pc = "exit" /\ pc' = "gone" /\ ready' = {}
      /\ controllersock' = None /\ newconnections' = <<>> /\ command_channel' = None
      /\ backlog' = <<>> /\ cmd' = [d \in Clients |-> None]
      /\ asyncCommand' = None /\ idlefun' = "none" /\ ui_queue' = <<>>
      /\ parser' = "none" /\ state' = "forceshutdown" /\ parsecache_valid' = FALSE
      /\ owed' = FALSE
      /\ UNCHANGED <<hadanyui, quit, ui, sock, pipe, abandoned, lost, hasdata, reply>>
  BY DEF Exit, Ended, clientVars
<1>2. got' = got \/ Deliver(Append(ui_queue, Exiting))
  BY DEF Exit
<1>3. /\ command_channel \in Clients \cup {None} /\ ui_queue \in Seq(Clients)
      /\ got \in GotType /\ (abandoned = {} => ui_queue = <<>> /\ OwnGot)
  BY DEF IInv, Types, TypeOK, GotType, OwnerInv, CleanHandover, OwnGot
<1>4. got' \in GotType /\ (abandoned = {} => OwnGot')
  <2>1. CASE got' = got
    BY <1>3, <2>1 DEF OwnGot
  <2>2. CASE Deliver(Append(ui_queue, Exiting))
    <3> DEFINE events == Append(ui_queue, Exiting)
    <3>1. events \in Seq(Clients \cup {Exiting})
      <4>1. ui_queue \in Seq(Clients \cup {Exiting})
        BY <1>3
      <4>2. QED
        BY <4>1, AppendProperties
    <3>2. ui_queue = <<>> => \A i \in 1..Len(events) : events[i] = Exiting
      BY <1>3
    <3>3. Deliver(events)
      BY <2>2
    <3> HIDE DEF events
    <3>4. QED
      BY <1>3, <3>1, <3>2, <3>3, DeliverKeeps
  <2>3. QED
    BY <1>2, <2>1, <2>2
<1>5. Types'
  BY <1>1, <1>4, EmptySeq DEF IInv, Types, TypeOK, GotType, Stopped
<1>6. LoopInv' /\ WorkInv' /\ OwedInv'
  BY <1>1 DEF LoopInv, WorkInv, BusyWhileWorking, OwedInv
<1>7. OneCommand'
  BY <1>1, ServerAssumption DEF OneCommand
<1>8. OwnerInv' /\ CleanHandover'
  BY <1>1, <1>4 DEF IInv, OwnerInv, CleanHandover, OwnGot
<1>9. StrayInv'
  <2>1. \A d \in Clients : \A e \in got'[d] :
          \/ e \in got[d] \cup {Exiting}
          \/ d = command_channel /\ \E i \in 1..Len(ui_queue) : ui_queue[i] = e
    <3>1. CASE got' = got
      BY <3>1
    <3>2. CASE Deliver(Append(ui_queue, Exiting))
      <4> DEFINE events == Append(ui_queue, Exiting)
      <4>1. ui_queue \in Seq(Clients \cup {Exiting})
        BY <1>3
      <4>2. events \in Seq(Clients \cup {Exiting})
        BY <4>1, AppendProperties
      <4>3. \A i \in 1..Len(events) : \/ events[i] = Exiting
                                     \/ \E j \in 1..Len(ui_queue) : ui_queue[j] = events[i]
        BY <4>1
      <4>4. Deliver(events)
        BY <3>2
      <4> HIDE DEF events
      <4>5. \A d \in Clients : \A e \in got'[d] :
              e \in got[d] \/ (d = command_channel /\ \E i \in 1..Len(events) : events[i] = e)
        BY <1>3, <4>2, <4>4, DeliverKeeps
      <4>6. QED
        BY <4>3, <4>5
    <3>3. QED
      BY <1>2, <3>1, <3>2
  <2>2. Told' \subseteq Told
    BY <1>1, <2>1, EmptySeq, ServerAssumption DEF Told, Exiting
  <2>3. StrayCompletions'
    BY <1>1, <2>1, EmptySeq DEF IInv, StrayInv, StrayCompletions
  <2>4. NotYet' \subseteq NotYet
    BY <1>1, ServerAssumption DEF NotYet
  <2>5. QED
    BY <1>1, <2>2, <2>3, <2>4 DEF IInv, StrayInv
<1>10. QED
  BY <1>5, <1>6, <1>7, <1>8, <1>9 DEF IInv

-----------------------------------------------------------------------------
(* The clients *)

\* What a client's steps keep: one command each, and what it has received.
LEMMA ClientKeeps ==
  ASSUME IInv, UNCHANGED serverVars, backlog' \in Seq(Clients),
         ui' \in [Clients -> {"away", "connected", "setFeatures", "ready", "buildTargets",
                              "waiting", "stateShutdown", "stateForceShutdown",
                              "terminating", "leaving", "failed", "terminated", "left"}],
         sock' \in [Clients -> {"none", "open", "closed"}],
         pipe' \in [Clients -> {"none", "open", "closed"}],
         reply' \in [Clients -> {None, "done", "busy", "refused"}],
         got' \in GotType,
         cmd' \in [Clients -> {None, "setFeatures", "buildTargets", "terminateServer",
                               "stateShutdown", "stateForceShutdown"}],
         \A d \in Clients :
           /\ ui'[d] = "left" => sock'[d] # "open" /\ pipe'[d] # "open"
           /\ reply'[d] \in {reply[d], None} /\ got'[d] \subseteq got[d]
           /\ ui[d] \notin Young => ui'[d] \notin Young
           /\ cmd'[d] # cmd[d] =>
                /\ cmd'[d] \in {"setFeatures", "buildTargets"} => ui[d] \in Young
                /\ cmd'[d] = "buildTargets" => ui'[d] \notin Young
  PROVE  IInv'
<1>1. UNCHANGED <<pc, ready, controllersock, newconnections, command_channel, hadanyui, quit,
                  asyncCommand, idlefun, state, parser, parsecache_valid, abandoned, lost, owed,
                  hasdata, ui_queue>>
  BY DEF serverVars, loopVars, cookerVars, historyVars
<1>2. Types'
  BY <1>1 DEF IInv, Types, TypeOK, GotType
<1>3. LoopInv' /\ WorkInv' /\ OwedInv' /\ OwnerInv'
  BY <1>1 DEF IInv, LoopInv, WorkInv, BusyWhileWorking, OwedInv, OwnerInv
<1>4. OneCommand'
  BY <1>1 DEF IInv, OneCommand
<1>5. CleanHandover'
  BY <1>1, ServerAssumption DEF IInv, CleanHandover
<1>6. StrayInv'
  <2>1. StrayCompletions'
    BY <1>1 DEF IInv, StrayInv, StrayCompletions
  <2>2. NotYet' \subseteq NotYet /\ Told' \subseteq Told
    BY <1>1 DEF NotYet, Told
  <2>3. QED
    BY <1>1, <2>1, <2>2 DEF IInv, StrayInv
<1>7. QED
  BY <1>2, <1>3, <1>4, <1>5, <1>6 DEF IInv

LEMMA ClientFacts ==
  ASSUME IInv
  PROVE  /\ backlog \in Seq(Clients)
         /\ ui \in [Clients -> {"away", "connected", "setFeatures", "ready", "buildTargets",
                                "waiting", "stateShutdown", "stateForceShutdown",
                                "terminating", "leaving", "failed", "terminated", "left"}]
         /\ sock \in [Clients -> {"none", "open", "closed"}]
         /\ pipe \in [Clients -> {"none", "open", "closed"}]
         /\ reply \in [Clients -> {None, "done", "busy", "refused"}]
         /\ got \in GotType
         /\ cmd \in [Clients -> {None, "setFeatures", "buildTargets", "terminateServer",
                                 "stateShutdown", "stateForceShutdown"}]
         /\ \A d \in Clients : ui[d] = "left" => sock[d] # "open" /\ pipe[d] # "open"
  BY DEF IInv, Types, TypeOK, GotType

\* A client sends a command; only a young one sends setFeatures or buildTargets.
LEMMA AskInv ==
  ASSUME IInv, NEW c \in Clients, NEW command, NEW step, Ask(c, command, step),
         ui[c] # "left", UNCHANGED <<got, serverVars>>,
         \/ command = "setFeatures" /\ step = "setFeatures" /\ ui[c] \in Young
         \/ command = "buildTargets" /\ step = "buildTargets" /\ ui[c] \in Young
         \/ command = "terminateServer" /\ step = "terminating"
         \/ command = "stateShutdown" /\ step = "stateShutdown"
         \/ command = "stateForceShutdown" /\ step = "stateForceShutdown"
  PROVE  IInv'
<1>1. /\ cmd' = [cmd EXCEPT ![c] = command] /\ ui' = [ui EXCEPT ![c] = step]
      /\ UNCHANGED <<sock, pipe, backlog, reply, got>>
  BY DEF Ask, Goto
<1>2. QED
  BY <1>1, ClientFacts, ClientKeeps DEF Young, GotType

LEMMA CommandInv ==
  ASSUME IInv, NEW c \in Clients, SendFds(c) \/ Command(c) \/ Interrupt(c)
  PROVE  IInv'
<1>1. CASE SendFds(c)
  <2>1. /\ ui[c] = "connected" /\ Ask(c, "setFeatures", "setFeatures")
        /\ UNCHANGED <<got, serverVars>>
    BY <1>1 DEF SendFds
  <2>2. QED
    BY <2>1, AskInv DEF Young
<1>2. CASE Command(c)
  <2>1. /\ ui[c] = "ready" /\ UNCHANGED <<got, serverVars>>
        /\ Ask(c, "buildTargets", "buildTargets") \/ Ask(c, "terminateServer", "terminating")
    BY <1>2 DEF Command
  <2>2. QED
    BY <2>1, AskInv DEF Young
<1>3. CASE Interrupt(c)
  <2>1. /\ ui[c] = "waiting" /\ UNCHANGED <<got, serverVars>>
        /\ \/ Ask(c, "stateShutdown", "stateShutdown")
           \/ Ask(c, "stateForceShutdown", "stateForceShutdown")
    BY <1>3 DEF Interrupt
  <2>2. QED
    BY <2>1, AskInv DEF Young
<1>4. QED
  BY <1>1, <1>2, <1>3

\* A client goes on without a command; one that has left is gone with all it has.
LEMMA QuietClientInv ==
  ASSUME IInv, NEW c \in Clients, UNCHANGED <<cmd, serverVars>>,
         NEW step \in {"connected", "ready", "waiting", "leaving", "failed", "terminated", "left"},
         ui' = [ui EXCEPT ![c] = step],
         step = "connected" => ui[c] \in Young, step = "ready" => ui[c] \in Young,
         step = "left" => sock' = [sock EXCEPT ![c] = "closed"]
                          /\ pipe' = [pipe EXCEPT ![c] = "closed"],
         \/ sock' = sock \/ \E x \in {"open", "closed"} : sock' = [sock EXCEPT ![c] = x],
         \/ pipe' = pipe \/ \E x \in {"open", "closed"} : pipe' = [pipe EXCEPT ![c] = x],
         reply' = reply \/ reply' = [reply EXCEPT ![c] = None],
         got' = got \/ got' = [got EXCEPT ![c] = {}],
         backlog' = backlog \/ backlog' = Append(backlog, c)
  PROVE  IInv'
<1>1. backlog' \in Seq(Clients)
  BY ClientFacts, AppendProperties
<1>2. /\ sock' \in [Clients -> {"none", "open", "closed"}]
      /\ pipe' \in [Clients -> {"none", "open", "closed"}]
      /\ \A d \in Clients : ui'[d] = "left" => sock'[d] # "open" /\ pipe'[d] # "open"
  BY ClientFacts
<1>3. /\ reply' \in [Clients -> {None, "done", "busy", "refused"}]
      /\ got' \in GotType
      /\ \A d \in Clients : reply'[d] \in {reply[d], None} /\ got'[d] \subseteq got[d]
  BY ClientFacts DEF GotType
<1>4. /\ ui' \in [Clients -> {"away", "connected", "setFeatures", "ready", "buildTargets",
                              "waiting", "stateShutdown", "stateForceShutdown",
                              "terminating", "leaving", "failed", "terminated", "left"}]
      /\ \A d \in Clients : ui[d] \notin Young => ui'[d] \notin Young
  BY ClientFacts DEF Young
<1>5. QED
  BY <1>1, <1>2, <1>3, <1>4, ClientFacts, ClientKeeps

LEMMA OtherClientInv ==
  ASSUME IInv, NEW c \in Clients,
         \/ Connect(c) \/ Answered(c) \/ TimesOut(c) \/ SeesEnd(c) \/ Leave(c) \/ Left(c)
         \/ ServerGone(c) \/ Kill(c)
  PROVE  IInv'
<1>1. Close(c) /\ UNCHANGED serverVars => IInv'
  BY QuietClientInv DEF Close, Goto
<1>2. CASE Connect(c)
  BY <1>2, QuietClientInv DEF Connect, Goto, Young
<1>3. CASE Answered(c)
  <2>1. PICK step \in {"ready", "waiting", "leaving", "failed"} :
          Goto(c, step) /\ (step = "ready" => ui[c] = "setFeatures")
    BY <1>3 DEF Answered
  <2>2. /\ reply' = [reply EXCEPT ![c] = None]
        /\ UNCHANGED <<sock, pipe, backlog, cmd, got, serverVars>>
    BY <1>3 DEF Answered
  <2>3. QED
    BY <2>1, <2>2, QuietClientInv DEF Goto, Young
<1>4. CASE TimesOut(c)
  <2>1. /\ UNCHANGED <<sock, backlog, cmd, reply, got, serverVars>>
        /\ \/ Goto(c, "failed") /\ pipe' = [pipe EXCEPT ![c] = "closed"]
           \/ Goto(c, "leaving") /\ UNCHANGED pipe
    BY <1>4 DEF TimesOut
  <2>2. QED
    BY <2>1, QuietClientInv DEF Goto
<1>5. CASE SeesEnd(c)
  BY <1>5, QuietClientInv DEF SeesEnd, Goto
<1>6. CASE Leave(c)
  <2>1. /\ Goto(c, "failed") \/ Goto(c, "terminated")
        /\ sock' = [sock EXCEPT ![c] = "closed"]
        /\ UNCHANGED <<pipe, backlog, cmd, reply, got, serverVars>>
    BY <1>6 DEF Leave
  <2>2. QED
    BY <2>1, QuietClientInv DEF Goto
<1>7. CASE Left(c) \/ ServerGone(c) \/ Kill(c)
  BY <1>1, <1>7 DEF Left, ServerGone, Kill
<1>8. QED
  BY <1>2, <1>3, <1>4, <1>5, <1>6, <1>7

-----------------------------------------------------------------------------
(* The theorems *)

\* A server that has just bound its socket
LEMMA InitInv == Init => IInv
<1> SUFFICES ASSUME Init PROVE IInv
  OBVIOUS
<1>1. Types
  BY EmptySeq DEF Init, Types, TypeOK
<1>2. LoopInv /\ WorkInv /\ OwedInv /\ OneCommand /\ OwnerInv
  BY ServerAssumption
     DEF Init, LoopInv, WorkInv, BusyWhileWorking, OwedInv, OneCommand, OwnerInv, Stopped
<1>3. CleanHandover
  BY ServerAssumption DEF Init, CleanHandover, Stopped
<1>4. StrayInv
  BY EmptySeq DEF Init, StrayInv, StrayCompletions, Told
<1>5. QED
  BY <1>1, <1>2, <1>3, <1>4 DEF IInv

LEMMA NextInv == IInv /\ [Next]_vars => IInv'
<1> SUFFICES ASSUME IInv, [Next]_vars PROVE IInv'
  OBVIOUS
<1>1. CASE Server
  BY <1>1, TopInv, UiInv, RoundInv, EofInv, RunCommandInv, IdleGoesOn, IdleEnds, ExitInv
     DEF Server
<1>2. ASSUME NEW c \in Clients,
             Client(c) \/ Connect(c) \/ Interrupt(c) \/ TimesOut(c) \/ Kill(c)
      PROVE  IInv'
  BY <1>2, CommandInv, OtherClientInv DEF Client
<1>3. CASE UNCHANGED vars
  BY <1>3, ClientFacts, ClientKeeps DEF vars, serverVars, clientVars, loopVars, cookerVars,
                                        historyVars
<1>4. QED
  BY <1>1, <1>2, <1>3 DEF Next

\* The invariant holds for any clients and any server timeout, whoever is killed.
THEOREM Inductive == Spec => []IInv
<1>1. Init => IInv
  BY InitInv
<1>2. IInv /\ [Next]_vars => IInv'
  BY NextInv
<1>3. QED
  BY <1>1, <1>2, PTL DEF Spec

\* CommandsSound: a server is busy only with a command it works on, and a request to
\* stop that was carried out is not undone before the worker of the command has seen it.
THEOREM StopsAreSeen == Spec => []CommandsSound
<1>1. IInv => CommandsSound
  BY DEF IInv, Types, WorkInv, OwedInv, CommandsSound, ShutdownSeen
<1>2. QED
  BY <1>1, Inductive, PTL

\* CleanHandover: as long as no client leaves its command running, each finds the
\* server as a new one and sees its own completion only.
THEOREM HandoverIsClean == Spec => []CleanHandover
<1>1. IInv => CleanHandover
  BY DEF IInv
<1>2. QED
  BY <1>1, Inductive, PTL

\* StrayCompletions: only the completion of a command that was left behind reaches
\* another client or waits for one, and it does so once.
THEOREM StrayOnesToldOnce == Spec => []StrayCompletions
<1>1. IInv => StrayCompletions
  BY DEF IInv, StrayInv
<1>2. QED
  BY <1>1, Inductive, PTL

=============================================================================
