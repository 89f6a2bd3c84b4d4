---------------------------- MODULE ServiceProofs ----------------------------
(***************************************************************************)
(* Theorems about what the window relies on of the controller: it is the   *)
(* service of GatewayService, Stopped and Ready can be relied on, and a    *)
(* restart that was asked for is pursued.                                  *)
(***************************************************************************)
EXTENDS GatewayProofs

---------------------------------------------------------------------------
(* The refinement of GatewayService.                                       *)

Mode    == IF call # "none" THEN "stopping" ELSE IF shuttingDown THEN "shut" ELSE "open"
Present == Connected \/ proc # "NotRunning"

(* The service's steps, as the controller takes them. *)
ServiceSteps ==
    \/ UNCHANGED <<Mode, Present, result>>
    \/ Mode = "open" /\ Mode' = "open" /\ result' \in {result, "none"}
    \/ Mode = "shut" /\ Mode' = "open" /\ result' = "none"
    \/ Mode # "stopping" /\ ~Present /\ result' = "stopped" /\ UNCHANGED <<Mode, Present>>
    \/ Mode # "stopping" /\ Mode' = "stopping" /\ result' = "none" /\ UNCHANGED Present
    \/ Mode # "open" /\ Present /\ ~Present' /\ UNCHANGED <<Mode, result>>
    \/ /\ Mode = "stopping" /\ Mode' = "shut" /\ result' \in {"stopped", "timeout"}
       /\ Present' => Present
       /\ result' = "stopped" => ~Present'
    \/ Mode' = "open" /\ ~Present' /\ result' = "none"

(* The calls of the interface open the service, or begin to shut it. *)
LEMMA UserService ==
    ASSUME ControllerInv, UserCall
    PROVE  ServiceSteps
<1> USE DEF ServiceSteps, Mode, Present, Idle, processVars, callVars, flagVars
<1>0. shuttingDown /\ call = "none" => ~Connected
  BY DEF ControllerInv, ShutdownStages
<1>1. CASE Start
  BY <1>1 DEF Start
<1>2. CASE Ping
  <2>1. CASE shuttingDown
    BY <1>0, <1>2, <2>1 DEF Ping, ConnectToGateway, MayConnect, wireVars, Connected
  <2>2. CASE ~shuttingDown
    BY <1>2, <2>2 DEF Ping
  <2>. QED
    BY <2>1, <2>2
<1>3. CASE Restart
  BY <1>3 DEF Restart
<1>4. CASE ShutdownAlreadyStopped
  BY <1>4 DEF ShutdownAlreadyStopped, AlreadyStopped, wireVars, Connected
<1>5. CASE ShutdownBegins
  <2>1. call' # "none" /\ call = "none" /\ result' = "none"
    BY <1>5 DEF ShutdownBegins, NextWait
  <2>2. UNCHANGED <<sock, proc>>
    BY <1>5 DEF ShutdownBegins
  <2>. QED
    BY <2>1, <2>2 DEF Connected
<1>. QED
  BY <1>1, <1>2, <1>3, <1>4, <1>5 DEF UserCall

(* A wait that returns true leaves nothing. *)
LEMMA ShutdownService ==
    ASSUME ControllerInv, ShutdownStep
    PROVE  ServiceSteps
<1> USE DEF ServiceSteps, Mode, Present, wireVars, processVars, timerVars, flagVars
<1>0. call # "none" => shuttingDown
  BY DEF ControllerInv, ShutdownStages
<1>1. CASE ShutdownFlushed
  BY <1>1 DEF ShutdownFlushed, NextWait, Connected
<1>2. CASE ShutdownKills
  BY <1>2 DEF ShutdownKills, Connected
<1>3. CASE ShutdownReturns
  <2>1. PICK r \in {"stopped", "timeout"} : WaitOver(r) /\ result' = r
    BY <1>3 DEF ShutdownReturns
  <2>2. call # "none" /\ call' = "none" /\ shuttingDown /\ shuttingDown' /\ ~Connected' /\ proc' = proc
    BY <1>0, <1>3, <2>1 DEF ShutdownReturns, WaitOver, SocketGone, Connected
  <2>3. r = "stopped" => proc = "NotRunning"
    BY <2>1 DEF WaitOver, ControllerInv, ShutdownStages
  <2>. QED
    BY <2>1, <2>2, <2>3
<1>. QED
  BY <1>1, <1>2, <1>3 DEF ShutdownStep

(* What is delivered to a controller that is open stays within it; to one  *)
(* that was shut down it only takes something away.                        *)
LEMMA DeliveredService ==
    ASSUME ControllerInv,
           \/ ReconnectFires \/ SpawnFires \/ StopFires
           \/ ProcStart \/ ProcFinished \/ Disconnected \/ ProcessIncoming
    PROVE  ServiceSteps
<1> USE DEF ServiceSteps, Mode, Present, callVars, flagVars
<1>0. /\ UNCHANGED <<call, result, shuttingDown>>
      /\ call # "none" => shuttingDown
      /\ shuttingDown => ~spawnT /\ ~restartPending
      /\ shuttingDown /\ call = "none" => ~Connected
  BY DEF ReconnectFires, SpawnFires, StopFires, ProcStart, ProcStarted, ProcFailsToStart, ProcFinished,
         Disconnected, ProcessIncoming, OnDisconnected, ControllerInv, ShutdownStages
<1>1. CASE ~shuttingDown
  BY <1>0, <1>1
<1>2. CASE shuttingDown
  <2> USE DEF wireVars, processVars, Connected
  <2>1. CASE ReconnectFires \/ SpawnFires \/ StopFires
    BY <1>0, <1>2, <2>1 DEF ReconnectFires, ConnectToGateway, MayConnect, SpawnFires, StopFires
  <2>2. CASE ProcStart
    BY <1>0, <1>2, <2>2 DEF ProcStart, ProcStarted, StartedConnects, MayConnect, ProcFailsToStart
  <2>3. CASE ProcFinished
    BY <1>0, <1>2, <2>3 DEF ProcFinished
  <2>4. CASE Disconnected \/ ProcessIncoming
    <3>1. (SocketGone \/ UNCHANGED sock) /\ NoSpawn
      BY <1>2, <2>4 DEF Disconnected, ProcessIncoming, OnDisconnected
    <3>. QED
      BY <1>0, <1>2, <2>4, <3>1 DEF SocketGone, NoSpawn, Disconnected, ProcessIncoming
  <2>. QED
    BY <2>1, <2>2, <2>3, <2>4
<1>. QED
  BY <1>1, <1>2

(* What gateways and other desktops do: the peer or the child may be gone. *)
LEMMA EnvironmentService ==
    ASSUME \/ \E g \in Gateways : Server(g)
           \/ \E g \in Gateways : ForeignLaunch(g)
           \/ DesktopCrash
           \/ UNCHANGED vars
    PROVE  ServiceSteps
<1> USE DEF ServiceSteps, Mode, Present, Connected, processVars, flagVars, callVars
<1>1. CASE \E g \in Gateways : Server(g)
  BY <1>1 DEF Server, GatewayStep, HandleRequest, Listen, BootFails, Quit, Exit, Crash,
              ForeignShutdown, wireVars
<1>2. CASE \E g \in Gateways : ForeignLaunch(g)
  BY <1>2 DEF ForeignLaunch, wireVars
<1>3. CASE DesktopCrash
  BY <1>3 DEF DesktopCrash, SocketGone
<1>4. CASE UNCHANGED vars
  BY <1>4 DEF vars, wireVars
<1>. QED
  BY <1>1, <1>2, <1>3, <1>4

(* Every step of the controller is one of the service. *)
LEMMA ServiceStep ==
    ASSUME ControllerInv, [Next]_vars
    PROVE  ServiceSteps
BY UserService, ShutdownService, DeliveredService, EnvironmentService DEF Next

(* The controller is the service that the main window takes it for,        *)
(* whatever gateways, processes and other desktops do.                     *)
THEOREM ControllerIsTheService == Spec => ServiceRefined
<1>1. Init => Service!ServiceInit
  BY DEF Init, ServerInit, ControllerInit, Service!ServiceInit, Connected
<1>2. ControllerInv /\ [Next]_vars => [Service!ServiceNext]_(Service!serviceVars)
  <2> SUFFICES ASSUME ControllerInv, [Next]_vars
               PROVE  [Service!ServiceNext]_(Service!serviceVars)
    OBVIOUS
  <2>1. ServiceSteps
    BY ServiceStep
  <2>. QED
    BY <2>1 DEF ServiceSteps, Mode, Present, Service!ServiceNext, Service!Operate, Service!Reopen,
                Service!NothingToShut, Service!ShutdownCalled, Service!Leaves,
                Service!ShutdownReturned, Service!Anew, Service!serviceVars
<1>. QED
  BY <1>1, <1>2, ControllerCorrect, PTL DEF Spec, ServiceRefined, Service!ServiceSpec

---------------------------------------------------------------------------
(* What Stopped and Ready tell.                                            *)

(* Whoever shows Stopped has given up the restart and stopped the timer:   *)
(* `finished', or the shutdown in which `disconnected' runs; and a restart *)
(* shows Restarting or Starting.                                           *)
LEMMA DisarmedStep ==
    ASSUME ControllerInv, StoppedIsDisarmed, [Next]_vars
    PROVE  StoppedIsDisarmed'
<1> USE DEF StoppedIsDisarmed
<1>0. /\ shuttingDown => ~restartPending /\ ~stopT
      /\ call # "none" => shuttingDown
      /\ restartPending \in BOOLEAN /\ stopT \in BOOLEAN
  BY DEF ControllerInv, ShutdownStages, TypeOK
<1>1. CASE Start
  BY <1>1, AttachFacts DEF Start
<1>2. CASE Ping
  BY <1>2, ConnectFacts DEF Ping, flagVars
<1>3. CASE Restart
  BY <1>3, SpawnFacts DEF Restart, RestartByRequest, RestartByTerminate, RestartBySpawn
<1>4. CASE ShutdownAlreadyStopped \/ ShutdownBegins
  BY <1>4 DEF ShutdownAlreadyStopped, ShutdownBegins, flagVars, timerVars
<1>5. CASE ShutdownStep
  BY <1>0, <1>5 DEF ShutdownStep, ShutdownFlushed, ShutdownKills, ShutdownReturns, WaitOver, flagVars,
                    timerVars
<1>6. CASE ReconnectFires
  BY <1>6, ConnectFacts DEF ReconnectFires, flagVars
<1>7. CASE SpawnFires \/ StopFires
  BY <1>7, SpawnFacts DEF SpawnFires, StopFires, flagVars
<1>8. CASE ProcStart
  BY <1>8 DEF ProcStart, ProcStarted, ProcFailsToStart, flagVars, timerVars
<1>9. CASE ProcFinished
  BY <1>0, <1>9 DEF ProcFinished, NothingToKill, FinishedState
<1>10. CASE Disconnected \/ ProcessIncoming
  <2>1. CASE OnDisconnected
    BY <1>0, <2>1, SpawnFacts DEF OnDisconnected, Reconnecting, flagVars, timerVars
  <2>2. CASE ProcessIncoming /\ ~OnDisconnected
    <3>1. /\ Head(toCtl) \in Frames /\ state' = Shown(Head(toCtl))
          /\ UNCHANGED <<restartPending, stopT>>
      BY <2>2 DEF ProcessIncoming, ControllerInv, TypeOK, ServerTypeOK, timerVars
    <3>2. Head(toCtl) # "oversized"
      BY <2>2 DEF ProcessIncoming
    <3>. QED
      BY <3>1, <3>2 DEF Shown, Frames
  <2>. QED
    BY <1>10, <2>1, <2>2 DEF Disconnected, ProcessIncoming
<1>11. CASE \/ \E g \in Gateways : Server(g)
            \/ \E g \in Gateways : ForeignLaunch(g)
            \/ DesktopCrash
            \/ UNCHANGED vars
  BY <1>11 DEF Server, ForeignLaunch, DesktopCrash, vars, flagVars, timerVars
<1>. QED
  BY <1>1, <1>2, <1>3, <1>4, <1>5, <1>6, <1>7, <1>8, <1>9, <1>10, <1>11 DEF Next, UserCall

(* A controller that shows Stopped neither restarts anything nor kills     *)
(* what it starts next.                                                    *)
THEOREM StoppedAlwaysDisarmed == Spec => []StoppedIsDisarmed
<1>1. Init => StoppedIsDisarmed
  BY DEF Init, ControllerInit, StoppedIsDisarmed
<1>. QED
  BY <1>1, DisarmedStep, ControllerCorrect, PTL DEF Spec

(* A gateway of another version refuses what the desktop sends, and the    *)
(* desktop takes its refusal for one.                                      *)
LEMMA OthersRefuse ==
    ASSUME NEW g \in Gateways, ~compat[g], NEW request \in Requests,
           NEW reply \in Answers(g, request)
    PROVE  reply \in Seq({"refused", "oversized"})
<1>1. VersionOf(g) = 2 /\ OurVersion = 1
  BY DEF VersionOf, OurVersion
<1>2. ServerReplies(2, EncodeRequest(1, request)) = <<ErrorReply(2)>>
  BY DEF ServerReplies, Valid, EncodeRequest, Message
<1>3. ClientReads(1, ErrorReply(2)) = "refused"
  BY DEF ClientReads, Valid, ErrorReply, EncodeResponse, Message
<1>4. Answer(g, request) = [i \in 1..1 |-> "refused"]
  <2> DEFINE replies == ServerReplies(2, EncodeRequest(1, request))
  <2>1. Len(replies) = 1 /\ replies[1] = ErrorReply(2)
    BY <1>2
  <2> HIDE DEF replies
  <2>2. [i \in 1..Len(replies) |-> ClientReads(1, replies[i])] = [i \in 1..1 |-> "refused"]
    BY <1>3, <2>1
  <2>. QED
    BY <1>1, <2>2 DEF Answer, replies
<1>5. Answer(g, request) \in Seq({"refused", "oversized"})
  BY <1>4
<1>6. <<"oversized">> \in Seq({"refused", "oversized"})
  OBVIOUS
<1>. QED
  BY <1>5, <1>6 DEF Answers

(* The properties of a connection on which nothing happens. *)
LEMMA RefusedKept ==
    ASSUME AnswersRefused, ReadyIsCompatible, UNCHANGED <<compat, sock, toCtl>>,
           state' = state \/ state' # "Ready"
    PROVE  AnswersRefused' /\ ReadyIsCompatible'
BY DEF AnswersRefused, ReadyIsCompatible, Connected

(* Those of a new connection, and of a connection that is lost. *)
LEMMA RefusedAnew ==
    ASSUME toCtl' = <<>> \/ ~Connected', state' # "Ready"
    PROVE  AnswersRefused' /\ ReadyIsCompatible'
BY DEF AnswersRefused, ReadyIsCompatible

(* What a gateway answers joins what it had answered before. *)
LEMMA ServerRefused ==
    ASSUME ControllerInv, AnswersRefused, ReadyIsCompatible, NEW g \in Gateways, Server(g)
    PROVE  AnswersRefused' /\ ReadyIsCompatible'
<1>1. UNCHANGED <<compat, sock, state>>
  BY DEF Server, GatewayStep, HandleRequest, Listen, BootFails, Quit, Exit, Crash, ForeignShutdown,
         wireVars
<1>2. CASE ~HandleRequest(g)
  <2>1. UNCHANGED toCtl
    BY <1>2 DEF Server, GatewayStep, Listen, BootFails, Quit, Exit, Crash, ForeignShutdown, wireVars
  <2>. QED
    BY <1>1, <2>1, RefusedKept
<1>3. CASE HandleRequest(g) /\ compat[g]
  BY <1>1, <1>3 DEF HandleRequest, AnswersRefused, ReadyIsCompatible, Connected
<1>4. CASE HandleRequest(g) /\ ~compat[g]
  <2> DEFINE S == {"refused", "oversized"}
  <2>1. sock = g /\ toGw # <<>> /\ Head(toGw) \in Requests
    BY <1>4 DEF HandleRequest, ControllerInv, TypeOK, ServerTypeOK
  <2>2. PICK reply \in Answers(g, Head(toGw)) : toCtl' = toCtl \o reply
    BY <1>4 DEF HandleRequest
  <2>3. reply \in Seq(S)
    BY <1>4, <2>1, <2>2, OthersRefuse
  <2>4. toCtl \in Seq(S)
    <3>1. toCtl \in Seq(Frames)
      BY DEF ControllerInv, TypeOK, ServerTypeOK
    <3>2. \A i \in 1..Len(toCtl) : toCtl[i] \in S
      BY <1>4, <2>1, NoGatewayAssumption DEF AnswersRefused, Connected
    <3>. QED
      BY <3>1, <3>2
  <2>5. toCtl' \in Seq(S)
    BY <2>2, <2>3, <2>4
  <2>6. \A i \in 1..Len(toCtl') : toCtl'[i] \in S
    BY <2>5
  <2>. QED
    BY <1>1, <2>6 DEF AnswersRefused, ReadyIsCompatible, Connected
<1>. QED
  BY <1>2, <1>3, <1>4

(* A frame that shows Ready comes from a gateway of the desktop's version. *)
LEMMA FrameRefused ==
    ASSUME ControllerInv, AnswersRefused, ReadyIsCompatible, ProcessIncoming, ~OnDisconnected
    PROVE  AnswersRefused' /\ ReadyIsCompatible'
<1>1. /\ Connected /\ toCtl # <<>> /\ toCtl \in Seq(Frames)
      /\ Head(toCtl) # "oversized" /\ Head(toCtl) \in Frames
      /\ state' = Shown(Head(toCtl)) /\ toCtl' = Tail(toCtl) /\ UNCHANGED <<compat, sock>>
  BY DEF ProcessIncoming, NoSpawn, serverVars, ControllerInv, TypeOK, ServerTypeOK
<1>2. Shown(Head(toCtl)) = "Ready" => Head(toCtl) \in {"event", "version"} \/ state = "Ready"
  BY <1>1 DEF Shown, Frames
<1>3. CASE compat[sock]
  BY <1>1, <1>3 DEF AnswersRefused, ReadyIsCompatible, Connected
<1>4. CASE ~compat[sock]
  <2>1. \A i \in 1..Len(toCtl) : toCtl[i] \in {"refused", "oversized"}
    BY <1>1, <1>4 DEF AnswersRefused
  <2>2. state' # "Ready"
    <3>1. Head(toCtl) = toCtl[1] /\ 1 \in 1..Len(toCtl)
      BY <1>1
    <3>. QED
      BY <1>1, <1>2, <1>4, <2>1, <3>1 DEF ReadyIsCompatible
  <2>3. \A i \in 1..Len(toCtl') : i + 1 \in 1..Len(toCtl) /\ toCtl'[i] = toCtl[i + 1]
    BY <1>1
  <2>. QED
    BY <2>1, <2>2, <2>3 DEF AnswersRefused, ReadyIsCompatible
<1>. QED
  BY <1>3, <1>4

(* Every step: a gateway gets its version before it is connected to, and   *)
(* none that is connected is started again.                                *)
LEMMA CompatibleStep ==
    ASSUME ControllerInv, AnswersRefused, ReadyIsCompatible, [Next]_vars
    PROVE  AnswersRefused' /\ ReadyIsCompatible'
<1> USE DEF serverVars, wireVars
<1>0. compat \in [Gateways -> BOOLEAN] /\ sock \in Gateways \cup {NoGateway} /\ NoGateway \notin Gateways
  BY NoGatewayAssumption DEF ControllerInv, TypeOK, ServerTypeOK
<1>a. ASSUME NEW g \in Gateways, Attach(g)
      PROVE  AnswersRefused' /\ ReadyIsCompatible'
  BY <1>a, RefusedAnew DEF Attach
<1>b. ASSUME NEW g \in Gateways, Spawn(g), ~Connected, UNCHANGED sock
      PROVE  AnswersRefused' /\ ReadyIsCompatible'
  BY <1>b, RefusedAnew DEF Spawn, Connected
<1>c. ASSUME ConnectToGateway, UNCHANGED compat
      PROVE  AnswersRefused' /\ ReadyIsCompatible'
  <2>1. CASE \E g \in Gateways : Attach(g)
    BY <1>a, <2>1
  <2>2. CASE UNCHANGED <<sock, toCtl, state>>
    BY <1>c, <2>2, RefusedKept
  <2>. QED
    BY <1>c, <2>1, <2>2 DEF ConnectToGateway, NobodyListens
<1>1. CASE Start
  <2>1. CASE \E g \in Gateways : Attach(g)
    BY <1>a, <2>1
  <2>2. CASE UNCHANGED wireVars /\ state' = "Connecting"
    BY <1>1, <2>2, RefusedKept DEF Start
  <2>. QED
    BY <1>1, <2>1, <2>2 DEF Start
<1>2. CASE Ping
  <2>1. CASE Connected
    BY <1>2, <2>1, RefusedKept DEF Ping
  <2>2. CASE ~Connected
    BY <1>2, <1>c, <2>2 DEF Ping
  <2>. QED
    BY <2>1, <2>2
<1>3. CASE Restart
  <2>1. CASE RestartByRequest
    BY <2>1, RefusedKept DEF RestartByRequest, NoSpawn
  <2>2. CASE RestartByTerminate
    BY <2>2, RefusedKept DEF RestartByTerminate
  <2>3. CASE RestartBySpawn /\ proc = "NotRunning"
    BY <1>b, <2>3 DEF RestartBySpawn
  <2>4. CASE RestartBySpawn /\ proc # "NotRunning"
    BY <2>4, RefusedKept DEF RestartBySpawn, NoSpawn
  <2>. QED
    BY <1>3, <2>1, <2>2, <2>3, <2>4 DEF Restart
<1>4. CASE ShutdownAlreadyStopped \/ ShutdownBegins
  BY <1>4, RefusedKept DEF ShutdownAlreadyStopped, ShutdownBegins
<1>5. CASE ShutdownFlushed \/ ShutdownKills
  BY <1>5, RefusedKept DEF ShutdownFlushed, ShutdownKills
<1>6. CASE ShutdownReturns
  BY <1>6, RefusedAnew DEF ShutdownReturns, SocketGone
<1>7. CASE ReconnectFires
  BY <1>7, <1>c DEF ReconnectFires
<1>8. CASE SpawnFires
  <2>1. CASE MaySpawn
    BY <1>8, <1>b, <2>1 DEF SpawnFires, MaySpawn
  <2>2. CASE ~MaySpawn
    BY <1>8, <2>2, RefusedKept DEF SpawnFires, NoSpawn
  <2>. QED
    BY <2>1, <2>2
<1>9. CASE StopFires
  BY <1>9, RefusedKept DEF StopFires
<1>10. CASE ProcStarted
  <2>1. CASE \E g \in Gateways : Attach(g)
    BY <1>a, <2>1
  <2>2. CASE UNCHANGED wireVars
    BY <1>10, <2>2, RefusedKept DEF ProcStarted
  <2>. QED
    BY <1>10, <2>1, <2>2 DEF ProcStarted, StartedConnects
<1>11. CASE ProcFailsToStart
  BY <1>11, RefusedKept DEF ProcFailsToStart
<1>12. CASE ProcFinished
  <2>1. CASE restartPending /\ ~shuttingDown /\ ~Connected
    BY <1>12, <1>b, <2>1 DEF ProcFinished
  <2>2. CASE ~(restartPending /\ ~shuttingDown /\ ~Connected)
    <3>1. UNCHANGED <<compat, sock, toCtl>> /\ state' \in {state, "Error", "Stopped"}
      BY <1>12, <2>2 DEF ProcFinished, FinishedState
    <3>. QED
      BY <3>1, RefusedKept
  <2>. QED
    BY <2>1, <2>2
<1>13. CASE OnDisconnected
  <2>1. toCtl' = <<>>
    BY <1>13 DEF OnDisconnected, SocketGone
  <2>2. state' # "Ready"
    BY <1>13, SpawnFacts DEF OnDisconnected, Reconnecting
  <2>. QED
    BY <2>1, <2>2, RefusedAnew
<1>14. CASE ProcessIncoming /\ ~OnDisconnected
  BY <1>14, FrameRefused
<1>15. CASE \E g \in Gateways : Server(g)
  BY <1>15, ServerRefused
<1>16. CASE \E g \in Gateways : ForeignLaunch(g)
  <2>1. PICK g \in Gateways, c \in BOOLEAN :
               g # sock /\ compat' = [compat EXCEPT ![g] = c] /\ UNCHANGED <<sock, toCtl, state>>
    BY <1>16 DEF ForeignLaunch
  <2>2. Connected => compat'[sock] = compat[sock]
    BY <1>0, <2>1 DEF Connected
  <2>. QED
    BY <2>1, <2>2 DEF AnswersRefused, ReadyIsCompatible, Connected
<1>17. CASE DesktopCrash
  BY <1>17, RefusedAnew DEF DesktopCrash, SocketGone
<1>18. CASE UNCHANGED vars
  BY <1>18, RefusedKept DEF vars
<1>. QED
  BY <1>1, <1>2, <1>3, <1>4, <1>5, <1>6, <1>7, <1>8, <1>9, <1>10, <1>11, <1>12, <1>13, <1>14, <1>15,
     <1>16, <1>17, <1>18 DEF Next, UserCall, ShutdownStep, ProcStart, Disconnected, ProcessIncoming

(* Whatever gateways come, go and answer late, Ready tells of one that     *)
(* speaks the desktop's version of the protocol.                           *)
THEOREM ReadyAlwaysCompatible == Spec => []ReadyIsCompatible
<1>1. Init => AnswersRefused /\ ReadyIsCompatible
  BY DEF Init, ServerInit, ControllerInit, AnswersRefused, ReadyIsCompatible, Connected
<1>. QED
  BY <1>1, CompatibleStep, ControllerCorrect, PTL DEF Spec

---------------------------------------------------------------------------
(* A restart that is pending is pursued, where QProcess::start() reports   *)
(* before it returns.                                                      *)

(* A gateway of the desktop's own version goes when it reads `shutdown'.   *)
LEMMA ShutdownObeyed ==
    ASSUME NEW g \in Gateways, compat[g]
    PROVE  ServerQuits(VersionOf(g), EncodeRequest(OurVersion, "shutdown"))
BY DEF ServerQuits, VersionOf, OurVersion, EncodeRequest, Message, Valid, Absent

(* What is in a queue stays there when something joins it. *)
LEMMA AppendKeeps ==
    ASSUME NEW S, NEW s \in Seq(S), NEW e \in S
    PROVE  /\ \A i \in 1..Len(s) : i \in 1..Len(Append(s, e)) /\ Append(s, e)[i] = s[i]
           /\ Len(s) + 1 \in 1..Len(Append(s, e)) /\ Append(s, e)[Len(s) + 1] = e
OBVIOUS

(* What a pending restart waits for at the other end of the connection. *)
GatewayGoes == PeerLeaves \/ (Connected /\ ~compat[sock])

(* A step of a gateway takes a restart no backward: the gateway that reads *)
(* the request is going from then on, and a process that is dead stays so. *)
LEMMA GatewayPursued ==
    ASSUME ControllerInv, RestartInv, NEW g \in Gateways, Server(g)
    PROVE  RestartInv'
<1> USE DEF Connected
<1>0. gw \in [Gateways -> GwStates] /\ sock \in Gateways \cup {NoGateway} /\ toGw \in Seq(Requests)
  BY DEF ControllerInv, TypeOK, ServerTypeOK
<1>1. UNCHANGED <<sock, compat, proc, child, stopT, restartPending>>
  BY DEF Server, GatewayStep, HandleRequest, Listen, BootFails, Quit, Exit, Crash, ForeignShutdown,
         processVars, timerVars, flagVars, wireVars
<1>2. gw' = gw \/ \E s \in {"serving", "quitting", "closed", "exited", "crashed"} :
                      gw' = [gw EXCEPT ![g] = s]
  BY DEF Server, GatewayStep, HandleRequest, Listen, BootFails, Quit, Exit, Crash, ForeignShutdown
<1>3. gw[g] \in {"exited", "crashed"} => gw'[g] \in {"exited", "crashed"}
  BY <1>0 DEF Server, GatewayStep, HandleRequest, Listen, BootFails, Quit, Exit, Crash, ForeignShutdown,
              Dead, Listening
<1>4. Connected' => gw'[sock'] # "booting"
  BY <1>0, <1>1, <1>2 DEF RestartInv
<1>5. child \in Dead => child' \in Dead'
  BY <1>0, <1>1, <1>2, <1>3 DEF Dead
<1>6. ASSUME GatewayGoes, Connected => gw[sock] # "booting"
      PROVE  GatewayGoes'
  <2> USE DEF GatewayGoes, PeerLeaves
  <2>1. CASE ~compat[sock]
    BY <1>1, <1>6, <2>1
  <2>2. CASE gw[sock] # "serving"
    BY <1>0, <1>1, <1>6, <2>2
       DEF Server, GatewayStep, HandleRequest, Listen, BootFails, Quit, Exit, Crash, ForeignShutdown,
           Listening
  <2>3. CASE gw[sock] = "serving" /\ compat[sock]
    <3>1. PICK i \in 1..Len(toGw) : toGw[i] = "shutdown"
      BY <1>6, <2>3
    <3>2. CASE ~HandleRequest(g)
      <4>1. UNCHANGED toGw
        BY <3>2 DEF Server, GatewayStep, Listen, BootFails, Quit, Exit, Crash, ForeignShutdown, wireVars
      <4>. QED
        BY <1>1, <1>6, <3>1, <4>1
    <3>3. CASE HandleRequest(g) /\ Head(toGw) = "shutdown"
      <4>1. g = sock /\ gw' = [gw EXCEPT ![g] = "quitting"]
        BY <2>3, <3>3, ShutdownObeyed DEF HandleRequest
      <4>. QED
        BY <1>0, <1>1, <1>6, <4>1
    <3>4. CASE HandleRequest(g) /\ Head(toGw) # "shutdown"
      <4>1. toGw' = Tail(toGw) /\ toGw # <<>>
        BY <3>4 DEF HandleRequest
      <4>2. i # 1
        BY <1>0, <3>1, <3>4
      <4>3. i - 1 \in 1..Len(toGw') /\ toGw'[i - 1] = "shutdown"
        BY <1>0, <3>1, <4>1, <4>2
      <4>. QED
        BY <1>1, <1>6, <4>3
    <3>. QED
      BY <3>2, <3>3, <3>4
  <2>. QED
    BY <2>1, <2>2, <2>3
<1>. QED
  BY <1>1, <1>4, <1>5, <1>6 DEF RestartInv, GatewayGoes

(* The calls of the interface: a restart waits for what it has just asked  *)
(* to go, a ping adds a request, and the others give a restart up.         *)
LEMMA UserPursued ==
    ASSUME ControllerInv, RestartInv, "lateStart" \notin Faults, UserCall
    PROVE  RestartInv'
<1> USE DEF RestartInv, PeerLeaves, Connected, processVars, serverVars
<1>0. /\ gw \in [Gateways -> GwStates] /\ sock \in Gateways \cup {NoGateway}
      /\ toGw \in Seq(Requests) /\ NoGateway \notin Gateways
      /\ proc \in ProcStates
  BY NoGatewayAssumption DEF ControllerInv, TypeOK, ServerTypeOK
<1>1. CASE Start
  <2>1. ~restartPending' /\ UNCHANGED gw
    BY <1>1 DEF Start
  <2>2. UNCHANGED sock \/ gw[sock'] # "booting"
    BY <1>1 DEF Start, Attach, Listening, wireVars
  <2>. QED
    BY <2>1, <2>2
<1>2. CASE Ping
  <2>1. UNCHANGED <<gw, compat, proc, child, stopT, restartPending>>
    BY <1>2 DEF Ping, flagVars
  <2>2. CASE Connected
    <3>1. sock' = sock /\ toGw' = Append(toGw, "ping")
      BY <1>2, <2>2 DEF Ping
    <3>2. (\E i \in 1..Len(toGw) : toGw[i] = "shutdown") =>
            \E i \in 1..Len(toGw') : toGw'[i] = "shutdown"
      BY <1>0, <3>1, AppendKeeps
    <3>. QED
      BY <2>1, <3>1, <3>2 DEF Dead
  <2>3. CASE ~Connected
    <3>1. UNCHANGED sock \/ gw[sock'] # "booting"
      BY <1>2, <2>3 DEF Ping, ConnectToGateway, Attach, Listening, NobodyListens, wireVars
    <3>. QED
      BY <2>1, <2>3, <3>1 DEF Dead
  <2>. QED
    BY <2>2, <2>3
<1>3. CASE Restart
  <2>0. proc # "Starting"
    BY <1>3 DEF Restart, Idle, ReportDue
  <2>1. CASE RestartByRequest
    <3>1. toGw' = Append(toGw, "shutdown") /\ stopT' /\ UNCHANGED <<sock, gw, proc>>
      BY <2>1 DEF RestartByRequest, NoSpawn
    <3>2. \E i \in 1..Len(toGw') : toGw'[i] = "shutdown"
      BY <1>0, <3>1, AppendKeeps
    <3>. QED
      BY <2>0, <2>1, <3>1, <3>2 DEF RestartByRequest
  <2>2. CASE RestartByTerminate
    BY <2>0, <2>2 DEF RestartByTerminate, wireVars, OwnsProcess
  <2>3. CASE RestartBySpawn
    BY <2>3 DEF RestartBySpawn, wireVars
  <2>. QED
    BY <1>3, <2>1, <2>2, <2>3 DEF Restart
<1>4. CASE ShutdownAlreadyStopped
  BY <1>4 DEF ShutdownAlreadyStopped, wireVars, timerVars, flagVars, Dead
<1>5. CASE ShutdownBegins
  BY <1>5 DEF ShutdownBegins
<1>. QED
  BY <1>1, <1>2, <1>3, <1>4, <1>5 DEF UserCall

(* The handlers: the spawn timer starts nothing while a restart waits, the *)
(* stop timer kills what it waits for, and `finished' and `disconnected'   *)
(* end a restart that nothing holds up any more.                           *)
LEMMA DeliveredPursued ==
    ASSUME ControllerInv, RestartInv,
           \/ ShutdownStep \/ ReconnectFires \/ SpawnFires \/ StopFires
           \/ ProcStart \/ ProcFinished \/ Disconnected \/ ProcessIncoming
    PROVE  RestartInv'
<1> USE DEF RestartInv, PeerLeaves, Connected, processVars, serverVars, wireVars
<1>0. /\ gw \in [Gateways -> GwStates] /\ sock \in Gateways \cup {NoGateway}
      /\ NoGateway \notin Gateways /\ proc \in ProcStates
      /\ child \in Gateways \cup {NoGateway}
      /\ (child = NoGateway) <=> (proc = "NotRunning")
      /\ proc # "NotRunning" => owns
      /\ shuttingDown => ~restartPending
      /\ call # "none" => shuttingDown
  BY NoGatewayAssumption
     DEF ControllerInv, TypeOK, ServerTypeOK, ChildOwned, ShutdownStages
<1>1. CASE ShutdownStep
  <2>1. ~restartPending' /\ (UNCHANGED sock \/ sock' = NoGateway)
    BY <1>0, <1>1 DEF ShutdownStep, ShutdownFlushed, ShutdownKills, ShutdownReturns, WaitOver,
                      SocketGone, flagVars
  <2>2. sock' = sock /\ sock # NoGateway => gw'[sock] # "booting"
    BY <1>0, <1>1 DEF ShutdownStep, ShutdownFlushed, ShutdownKills, ShutdownReturns, KillChild,
                      SocketGone
  <2>. QED
    BY <2>1, <2>2
<1>2. CASE ReconnectFires
  <2>1. UNCHANGED <<gw, compat, proc, child, stopT, restartPending>>
    BY <1>2 DEF ReconnectFires, flagVars
  <2>2. UNCHANGED wireVars \/ (~Connected /\ gw[sock'] # "booting")
    BY <1>2 DEF ReconnectFires, ConnectToGateway, MayConnect, Attach, Listening, NobodyListens
  <2>. QED
    BY <2>1, <2>2 DEF Dead
<1>3. CASE SpawnFires
  <2>1. CASE MaySpawn
    BY <1>3, <2>1 DEF SpawnFires, MaySpawn
  <2>2. CASE ~MaySpawn
    BY <1>3, <2>2 DEF SpawnFires, NoSpawn, Dead
  <2>. QED
    BY <2>1, <2>2
<1>4. CASE StopFires
  <2>1. UNCHANGED <<compat, wireVars, proc, child, restartPending>>
    BY <1>4 DEF StopFires, flagVars
  <2>2. CASE proc = "NotRunning"
    BY <1>4, <2>1, <2>2 DEF StopFires, OwnsProcess
  <2>3. CASE proc # "NotRunning"
    <3>1. child \in Gateways /\ KillChild
      BY <1>0, <1>4, <2>3 DEF StopFires, OwnsProcess
    <3>2. child \in Dead' /\ (sock # NoGateway => gw'[sock] # "booting")
      BY <1>0, <3>1 DEF KillChild, Dead
    <3>. QED
      BY <2>1, <2>3, <3>2
  <2>. QED
    BY <2>2, <2>3
<1>5. CASE ProcStarted
  <2>1. ~restartPending' /\ UNCHANGED gw
    BY <1>5 DEF ProcStarted, flagVars
  <2>2. UNCHANGED sock \/ gw[sock'] # "booting"
    BY <1>5 DEF ProcStarted, StartedConnects, Attach, Listening
  <2>. QED
    BY <2>1, <2>2
<1>6. CASE ProcFailsToStart
  BY <1>0, <1>6 DEF ProcFailsToStart, flagVars
<1>7. CASE ProcFinished
  BY <1>0, <1>7 DEF ProcFinished, NothingToKill, Spawn
<1>8. CASE OnDisconnected
  <2>1. sock' = NoGateway
    BY <1>8 DEF OnDisconnected, SocketGone
  <2>2. CASE shuttingDown
    BY <1>0, <1>8, <2>1, <2>2 DEF OnDisconnected, NoSpawn, flagVars
  <2>3. CASE ~shuttingDown /\ restartPending /\ proc = "NotRunning"
    BY <1>8, <2>1, <2>3 DEF OnDisconnected
  <2>4. CASE ~shuttingDown /\ ~(restartPending /\ proc = "NotRunning")
    BY <1>0, <1>8, <2>1, <2>4 DEF OnDisconnected, NoSpawn, Dead
  <2>. QED
    BY <2>2, <2>3, <2>4
<1>9. CASE ProcessIncoming /\ ~OnDisconnected
  BY <1>9 DEF ProcessIncoming, NoSpawn, timerVars, Dead
<1>. QED
  BY <1>1, <1>2, <1>3, <1>4, <1>5, <1>6, <1>7, <1>8, <1>9 DEF Disconnected, ProcStart, ProcessIncoming

(* Every step keeps a pending restart pursued. *)
LEMMA PursuedStep ==
    ASSUME ControllerInv, RestartInv, "lateStart" \notin Faults, [Next]_vars
    PROVE  RestartInv'
<1>1. CASE \E g \in Gateways : ForeignLaunch(g)
  <2>1. PICK g \in Gateways : ForeignLaunch(g)
    BY <1>1
  <2>2. /\ g \notin {child, sock}
        /\ gw' = [gw EXCEPT ![g] = "booting"]
        /\ \E c \in BOOLEAN : compat' = [compat EXCEPT ![g] = c]
        /\ UNCHANGED <<sock, toGw, proc, child, stopT, restartPending>>
    BY <2>1 DEF ForeignLaunch, wireVars, processVars, timerVars, flagVars
  <2>3. gw \in [Gateways -> GwStates] /\ compat \in [Gateways -> BOOLEAN]
    BY DEF ControllerInv, TypeOK, ServerTypeOK
  <2>4. gw'[sock] = gw[sock] /\ compat'[sock] = compat[sock]
    BY <2>2, <2>3
  <2>5. child \in Dead => child \in Dead'
    BY <2>2, <2>3 DEF Dead
  <2>. QED
    BY <2>2, <2>4, <2>5 DEF RestartInv, PeerLeaves, Connected
<1>2. CASE DesktopCrash
  BY <1>2 DEF DesktopCrash, SocketGone, RestartInv, Connected
<1>3. CASE UNCHANGED vars
  BY <1>3 DEF vars, serverVars, wireVars, processVars, timerVars, flagVars, RestartInv, PeerLeaves,
              Connected, Dead
<1>. QED
  BY <1>1, <1>2, <1>3, UserPursued, DeliveredPursued, GatewayPursued DEF Next

(* A restart that is pending has something that will take it further: the  *)
(* stop timer, the death of the child, or the end of the gateway that was  *)
(* asked to leave; but for a gateway of another version, which refuses.    *)
THEOREM RestartAlwaysPursued ==
    ASSUME "lateStart" \notin Faults
    PROVE  Spec => []RestartPursued
<1>1. Init => RestartInv
  BY DEF Init, ServerInit, ControllerInit, RestartInv, Connected
<1>2. Spec => []RestartInv
  BY <1>1, PursuedStep, ControllerCorrect, PTL DEF Spec
<1>3. ControllerInv /\ RestartInv => RestartPursued
  BY DEF ControllerInv, TypeOK, ProcStates, ChildOwned, RestartInv, RestartPursued, OwnsProcess
<1>. QED
  BY <1>2, <1>3, ControllerCorrect, PTL
=============================================================================
