---------------------------- MODULE GatewayProofs ----------------------------
(***************************************************************************)
(* Theorems about the controller and its gateways, for every set of        *)
(* gateways, every set of faults and any number of frames in flight.       *)
(***************************************************************************)
EXTENDS GatewayProperties, TLAPS

---------------------------------------------------------------------------
(* Types.                                                                  *)

(* One reply or two. *)
LEMMA RepliesLength ==
    ASSUME NEW version, NEW message
    PROVE  Len(ServerReplies(version, message)) \in {1, 2}
<1>1. \A x, y : Len(<<x>>) = 1 /\ Len(<<x, y>>) = 2
  OBVIOUS
<1>2. Len(Replies(version, message.method)) \in {1, 2}
  BY <1>1 DEF Replies
<1>. QED
  BY <1>1, <1>2 DEF ServerReplies

(* What a gateway answers is made of frames. *)
LEMMA AnswersType ==
    ASSUME NEW g \in Gateways, NEW request \in Requests, NEW reply \in Answers(g, request)
    PROVE  reply \in Seq(Frames)
<1>1. \A version, message : ClientReads(version, message) \in Frames
  BY DEF ClientReads, Frames
<1> DEFINE replies == ServerReplies(VersionOf(g), EncodeRequest(OurVersion, request))
<1>2. Len(replies) \in Nat
  BY RepliesLength
<1>3. Answer(g, request) \in [1..Len(replies) -> Frames]
  BY <1>1 DEF Answer
<1>4. Answer(g, request) \in Seq(Frames)
  BY <1>2, <1>3
<1>5. <<"oversized">> \in Seq(Frames)
  BY DEF Frames
<1>. QED
  BY <1>4, <1>5 DEF Answers

(* A gateway's own step keeps the types of the gateways and of the wire. *)
LEMMA GatewayStepType ==
    ASSUME ServerTypeOK, NEW g \in Gateways, GatewayStep(g)
    PROVE  ServerTypeOK'
<1> USE DEF ServerTypeOK, GwStates, serverVars, wireVars
<1>1. CASE HandleRequest(g)
  <2>1. toGw # <<>> /\ Head(toGw) \in Requests /\ Tail(toGw) \in Seq(Requests)
    BY <1>1 DEF HandleRequest
  <2>2. PICK reply \in Answers(g, Head(toGw)) : toCtl' = toCtl \o reply
    BY <1>1 DEF HandleRequest
  <2>3. toCtl' \in Seq(Frames)
    BY <2>1, <2>2, AnswersType
  <2>. QED
    BY <1>1, <2>1, <2>3 DEF HandleRequest
<1>2. CASE Listen(g) \/ BootFails(g) \/ Quit(g) \/ Exit(g) \/ Crash(g) \/ ForeignShutdown(g)
  BY <1>2 DEF Listen, BootFails, Quit, Exit, Crash, ForeignShutdown
<1>. QED
  BY <1>1, <1>2 DEF GatewayStep

(* Attaching the socket to a gateway. *)
LEMMA AttachType ==
    ASSUME NEW g \in Gateways, Attach(g)
    PROVE  /\ sock' \in Gateways \cup {NoGateway}
           /\ toGw' \in Seq(Requests) /\ toCtl' \in Seq(Frames)
           /\ state' \in States /\ reconnectT' \in BOOLEAN
<1>1. <<"subscribe_status", "ping">> \in Seq(Requests)
  BY DEF Requests
<1>2. <<>> \in Seq(Frames)
  OBVIOUS
<1>. QED
  BY <1>1, <1>2 DEF Attach, States

(* ConnectToGateway, whichever way it ends. *)
LEMMA ConnectType ==
    ASSUME TypeOK, ConnectToGateway
    PROVE  /\ sock' \in Gateways \cup {NoGateway}
           /\ toGw' \in Seq(Requests) /\ toCtl' \in Seq(Frames)
           /\ state' \in States /\ reconnectT' \in BOOLEAN /\ spawnT' \in BOOLEAN
<1> USE DEF TypeOK, ServerTypeOK
<1>1. CASE \E g \in Gateways : Attach(g) /\ spawnT' = FALSE
  BY <1>1, AttachType
<1>2. CASE NobodyListens /\ UNCHANGED <<state, spawnT>>
  BY <1>2 DEF NobodyListens, wireVars
<1>3. CASE UNCHANGED <<wireVars, state, reconnectT, spawnT>>
  BY <1>3 DEF wireVars
<1>. QED
  BY <1>1, <1>2, <1>3 DEF ConnectToGateway

(* Starting a process. *)
LEMMA SpawnType ==
    ASSUME TypeOK, NEW g \in Gateways, Spawn(g)
    PROVE  /\ gw' \in [Gateways -> GwStates] /\ compat' \in [Gateways -> BOOLEAN]
           /\ state' \in States /\ proc' \in ProcStates
           /\ child' \in Gateways \cup {NoGateway}
           /\ owns' \in BOOLEAN /\ spawnAttempted' \in BOOLEAN
BY DEF Spawn, TypeOK, ServerTypeOK, GwStates, States, ProcStates

(* The socket's connection is lost. *)
LEMMA OnDisconnectedType ==
    ASSUME TypeOK, OnDisconnected, UNCHANGED callVars
    PROVE  TypeOK'
<1> USE DEF TypeOK, ServerTypeOK, SocketGone, callVars, timerVars, flagVars, serverVars, processVars
<1>1. sock' \in Gateways \cup {NoGateway} /\ toGw' \in Seq(Requests) /\ toCtl' \in Seq(Frames)
  BY DEF OnDisconnected
<1>2. CASE shuttingDown
  BY <1>1, <1>2 DEF OnDisconnected, NoSpawn, States
<1>3. CASE ~shuttingDown /\ restartPending /\ proc = "NotRunning"
  BY <1>1, <1>3, SpawnType DEF OnDisconnected
<1>4. CASE ~shuttingDown /\ ~(restartPending /\ proc = "NotRunning")
  BY <1>1, <1>4 DEF OnDisconnected, NoSpawn, Reconnecting, States
<1>. QED
  BY <1>2, <1>3, <1>4

(* Every step keeps the types. *)
LEMMA TypeStep == TypeOK /\ [Next]_vars => TypeOK'
<1> SUFFICES ASSUME TypeOK, [Next]_vars
             PROVE  TypeOK'
  OBVIOUS
<1>0. /\ ServerTypeOK
      /\ \A m \in Requests : Append(toGw, m) \in Seq(Requests)
  BY DEF TypeOK, ServerTypeOK
<1>1. CASE Start
  <2>1. CASE \E g \in Gateways : Attach(g)
    BY <1>1, <2>1, AttachType
       DEF Start, TypeOK, ServerTypeOK, Results, serverVars, processVars
  <2>2. CASE state' = "Connecting" /\ reconnectT' \in BOOLEAN /\ UNCHANGED wireVars
    BY <1>1, <2>2 DEF Start, TypeOK, ServerTypeOK, States, Results, serverVars, processVars,
                      wireVars
  <2>. QED
    BY <1>1, <2>1, <2>2 DEF Start, TypeOK, wireVars
<1>2. CASE Ping
  <2>1. CASE Connected
    BY <1>0, <1>2, <2>1
       DEF Ping, TypeOK, ServerTypeOK, Requests, serverVars, processVars, flagVars, callVars
  <2>2. CASE ~Connected
    BY <1>2, <2>2, ConnectType
       DEF Ping, TypeOK, ServerTypeOK, serverVars, processVars, flagVars, callVars
  <2>. QED
    BY <2>1, <2>2
<1>3. CASE Restart
  <2> USE DEF Restart, TypeOK, ServerTypeOK, States, Results, serverVars, wireVars, processVars
  <2>1. CASE RestartByRequest
    BY <1>0, <1>3, <2>1 DEF RestartByRequest, NoSpawn, Requests
  <2>2. CASE RestartByTerminate
    BY <1>3, <2>2 DEF RestartByTerminate, KillChild, GwStates
  <2>3. CASE RestartBySpawn /\ proc = "NotRunning"
    BY <1>3, <2>3, SpawnType DEF RestartBySpawn
  <2>4. CASE RestartBySpawn /\ proc # "NotRunning"
    BY <1>3, <2>4 DEF RestartBySpawn, NoSpawn
  <2>. QED
    BY <1>3, <2>1, <2>2, <2>3, <2>4
<1>4. CASE ShutdownAlreadyStopped
  BY <1>4 DEF ShutdownAlreadyStopped, TypeOK, ServerTypeOK, Results, serverVars, wireVars,
              processVars, timerVars, flagVars
<1>5. CASE ShutdownBegins
  BY <1>0, <1>5 DEF ShutdownBegins, StopTimers, NextWait, TypeOK, ServerTypeOK, Requests, States,
                    Calls, Results, serverVars, processVars
<1>6. CASE ShutdownFlushed
  BY <1>6 DEF ShutdownFlushed, NextWait, TypeOK, ServerTypeOK, Calls, serverVars, wireVars,
              processVars, timerVars, flagVars
<1>7. CASE ShutdownKills
  BY <1>7 DEF ShutdownKills, KillChild, TypeOK, ServerTypeOK, GwStates, Calls, wireVars,
              processVars, timerVars, flagVars
<1>8. CASE ShutdownReturns
  BY <1>8 DEF ShutdownReturns, SocketGone, TypeOK, ServerTypeOK, GwStates, States, Calls, Results,
              processVars, timerVars, flagVars
<1>9. CASE ReconnectFires
  BY <1>9, ConnectType DEF ReconnectFires, TypeOK, ServerTypeOK, serverVars, processVars,
                           flagVars, callVars
<1>10. CASE SpawnFires
  <2>1. CASE MaySpawn
    BY <1>10, <2>1, SpawnType DEF SpawnFires, TypeOK, ServerTypeOK, wireVars, callVars
  <2>2. CASE ~MaySpawn
    BY <1>10, <2>2 DEF SpawnFires, NoSpawn, TypeOK, ServerTypeOK, serverVars, wireVars,
                       processVars, callVars
  <2>. QED
    BY <2>1, <2>2
<1>11. CASE StopFires
  BY <1>11 DEF StopFires, KillChild, TypeOK, ServerTypeOK, GwStates, wireVars, processVars,
               flagVars, callVars
<1>12. CASE ProcStarted
  <2>1. CASE \E g \in Gateways : Attach(g) /\ spawnT' = FALSE
    BY <1>12, <2>1, AttachType DEF ProcStarted, TypeOK, ServerTypeOK, ProcStates, serverVars,
                                   flagVars, callVars
  <2>2. CASE reconnectT' = TRUE /\ UNCHANGED <<wireVars, spawnT>>
    BY <1>12, <2>2 DEF ProcStarted, TypeOK, ServerTypeOK, ProcStates, States, serverVars,
                       wireVars, flagVars, callVars
  <2>. QED
    BY <1>12, <2>1, <2>2 DEF ProcStarted, StartedConnects
<1>13. CASE ProcFailsToStart
  BY <1>13 DEF ProcFailsToStart, TypeOK, ServerTypeOK, GwStates, ProcStates, States, wireVars,
               timerVars, flagVars, callVars
<1>14. CASE ProcFinished
  <2>1. CASE \E g \in Gateways : Spawn(g) /\ restartPending' = FALSE
    BY <1>14, <2>1, SpawnType DEF ProcFinished, NothingToKill, TypeOK, ServerTypeOK, wireVars,
                                  callVars
  <2>2. CASE ~(\E g \in Gateways : Spawn(g) /\ restartPending' = FALSE)
    BY <1>14, <2>2 DEF ProcFinished, NothingToKill, FinishedState, TypeOK, ServerTypeOK, States,
                       ProcStates, serverVars, wireVars, callVars
  <2>. QED
    BY <2>1, <2>2
<1>15. CASE Disconnected
  BY <1>15, OnDisconnectedType DEF Disconnected
<1>16. CASE ProcessIncoming
  <2>1. CASE Head(toCtl) = "oversized"
    BY <1>16, <2>1, OnDisconnectedType DEF ProcessIncoming
  <2>2. CASE Head(toCtl) # "oversized"
    <3>1. Head(toCtl) \in Frames /\ Tail(toCtl) \in Seq(Frames)
      BY <1>16 DEF ProcessIncoming, TypeOK, ServerTypeOK
    <3>2. Shown(Head(toCtl)) \in States
      BY <2>2, <3>1 DEF Shown, Frames, States, TypeOK
    <3>. QED
      BY <1>16, <2>2, <3>1, <3>2
         DEF ProcessIncoming, NoSpawn, TypeOK, ServerTypeOK, serverVars, processVars, timerVars,
             callVars
  <2>. QED
    BY <2>1, <2>2
<1>17. CASE \E g \in Gateways : Server(g)
  BY <1>0, <1>17, GatewayStepType DEF Server, TypeOK, processVars, timerVars, flagVars, callVars
<1>18. CASE \E g \in Gateways : ForeignLaunch(g)
  <2>1. PICK g \in Gateways, c \in BOOLEAN :
               /\ gw' = [gw EXCEPT ![g] = "booting"]
               /\ compat' = [compat EXCEPT ![g] = c]
    BY <1>18 DEF ForeignLaunch
  <2>2. gw' \in [Gateways -> GwStates] /\ compat' \in [Gateways -> BOOLEAN]
    BY <2>1 DEF TypeOK, ServerTypeOK, GwStates
  <2>. QED
    BY <1>18, <2>2 DEF ForeignLaunch, TypeOK, ServerTypeOK, wireVars, processVars, timerVars,
                       flagVars, callVars
<1>19. CASE DesktopCrash
  <2>1. ServerTypeOK'
    BY <1>0, <1>19 DEF DesktopCrash, SocketGone, ServerTypeOK, serverVars
  <2>. QED
    BY <1>19, <2>1 DEF DesktopCrash, TypeOK, States, ProcStates, Calls, Results
<1>20. CASE UNCHANGED vars
  <2>1. /\ UNCHANGED serverVars /\ UNCHANGED wireVars /\ UNCHANGED state
        /\ UNCHANGED processVars /\ UNCHANGED timerVars /\ UNCHANGED flagVars
        /\ UNCHANGED callVars
    BY <1>20 DEF vars
  <2>2. ServerTypeOK'
    BY <1>0, <2>1 DEF ServerTypeOK, serverVars, wireVars
  <2>. QED
    BY <2>1, <2>2 DEF TypeOK, processVars, timerVars, flagVars, callVars
<1>. QED
  BY <1>1, <1>2, <1>3, <1>4, <1>5, <1>6, <1>7, <1>8, <1>9, <1>10, <1>11, <1>12, <1>13, <1>14,
     <1>15, <1>16, <1>17, <1>18, <1>19, <1>20
     DEF Next, UserCall, ShutdownStep, ProcStart

(* The state of the controller and of the gateways stays within its types. *)
THEOREM TypeCorrect == Spec => []TypeOK
<1>1. Init => TypeOK
  <2>1. ServerInit => ServerTypeOK
    BY DEF ServerInit, ServerTypeOK, GwStates
  <2>. QED
    BY <2>1 DEF Init, ControllerInit, TypeOK, States, ProcStates, Calls, Results
<1>. QED
  BY <1>1, TypeStep, PTL DEF Spec

---------------------------------------------------------------------------
(* The controller's invariant.  Each lemma treats the steps that share a   *)
(* handler; all of them leave TypeOK to TypeStep.                          *)

(* What the properties read of a step that starts a process. *)
LEMMA SpawnFacts ==
    ASSUME NEW g \in Gateways, Spawn(g)
    PROVE  /\ state' = "Starting" /\ proc' = "Starting" /\ child' = g
           /\ owns' /\ spawnAttempted'
           /\ child' # NoGateway
BY NoGatewayAssumption DEF Spawn

(* What they read of a step that attaches the socket. *)
LEMMA AttachFacts ==
    ASSUME NEW g \in Gateways, Attach(g)
    PROVE  state' = "Connecting" /\ Connected' /\ ~reconnectT'
BY NoGatewayAssumption DEF Attach, Connected

(* connectToGateway() never leaves the controller without its timer. *)
LEMMA ConnectFacts ==
    ASSUME ConnectToGateway
    PROVE  \/ UNCHANGED <<sock, state, reconnectT, spawnT>> /\ ~MayConnect
           \/ state' = "Connecting" /\ Connected' /\ ~spawnT' /\ MayConnect
           \/ /\ UNCHANGED <<sock, state, spawnT>> /\ MayConnect
              /\ reconnectT' = (reconnectT \/ proc # "Starting")
<1>1. CASE MayConnect /\ \E g \in Gateways : Attach(g) /\ spawnT' = FALSE
  BY <1>1, AttachFacts
<1>2. CASE MayConnect /\ NobodyListens /\ UNCHANGED <<state, spawnT>>
  BY <1>2 DEF NobodyListens, MayConnect, wireVars
<1>. QED
  BY <1>1, <1>2 DEF ConnectToGateway, wireVars

(* The properties, as predicates of the controller's own variables. *)
SafetyInv == ChildOwned /\ ShutdownStages /\ StateHonest /\ RecoveryArmed

(* A step that does nothing but connectToGateway(). *)
LEMMA ConnectSafe ==
    ASSUME ControllerInv, ConnectToGateway,
           UNCHANGED <<proc, child, stopT, call, result>>, UNCHANGED flagVars
    PROVE  SafetyInv'
<1> USE DEF SafetyInv, ControllerInv, ChildOwned, ShutdownStages, StateHonest, RecoveryArmed, Idle,
            ReportDue, OwnsProcess, flagVars
<1>1. CASE UNCHANGED <<sock, state, reconnectT, spawnT>>
  BY <1>1 DEF Connected
<1>2. CASE state' = "Connecting" /\ Connected' /\ ~spawnT' /\ MayConnect
  BY <1>2 DEF MayConnect
<1>3. CASE /\ UNCHANGED <<sock, state, spawnT>> /\ MayConnect
           /\ reconnectT' = (reconnectT \/ proc # "Starting")
  BY <1>3 DEF MayConnect, Connected, TypeOK
<1>. QED
  BY <1>1, <1>2, <1>3, ConnectFacts

(* The calls of the interface. *)
LEMMA UserStep ==
    ASSUME ControllerInv, UserCall
    PROVE  SafetyInv'
<1> USE DEF SafetyInv, ControllerInv, ChildOwned, ShutdownStages, StateHonest, RecoveryArmed, Idle,
            ReportDue, OwnsProcess
<1>1. CASE Start
  <2>1. CASE \E g \in Gateways : Attach(g)
    BY <1>1, <2>1, AttachFacts DEF Start, processVars
  <2>2. CASE ~\E g \in Gateways : Attach(g)
    BY <1>1, <2>2 DEF Start, processVars, wireVars, Connected
  <2>. QED
    BY <2>1, <2>2
<1>2. CASE Ping
  <2>1. CASE Connected
    BY <1>2, <2>1 DEF Ping, processVars, flagVars, callVars, Connected
  <2>2. CASE ~Connected
    BY <1>2, <2>2, ConnectSafe DEF Ping, processVars, callVars
  <2>. QED
    BY <2>1, <2>2
<1>3. CASE Restart
  <2>1. CASE RestartByRequest
    BY <1>3, <2>1 DEF Restart, RestartByRequest, NoSpawn, processVars, Connected
  <2>2. CASE RestartByTerminate
    BY <1>3, <2>2 DEF Restart, RestartByTerminate, processVars, wireVars, Connected
  <2>3. CASE RestartBySpawn
    BY <1>3, <2>3, SpawnFacts DEF Restart, RestartBySpawn, wireVars, Connected
  <2>. QED
    BY <1>3, <2>1, <2>2, <2>3 DEF Restart
<1>4. CASE ShutdownAlreadyStopped
  BY <1>4 DEF ShutdownAlreadyStopped, AlreadyStopped, wireVars, processVars, timerVars, flagVars,
              Connected
<1>5. CASE ShutdownBegins
  BY <1>5 DEF ShutdownBegins, StopTimers, NextWait, processVars, Connected
<1>. QED
  BY <1>1, <1>2, <1>3, <1>4, <1>5 DEF UserCall

(* The stages of shutdownAndWait(). *)
LEMMA ShutdownStepSafe ==
    ASSUME ControllerInv, ShutdownStep
    PROVE  SafetyInv'
<1> USE DEF SafetyInv, ControllerInv, ChildOwned, ShutdownStages, StateHonest, RecoveryArmed, Idle,
            ReportDue, OwnsProcess, Connected
<1>1. CASE ShutdownFlushed
  BY <1>1 DEF ShutdownFlushed, NextWait, wireVars, processVars, timerVars, flagVars
<1>2. CASE ShutdownKills
  BY <1>2 DEF ShutdownKills, wireVars, processVars, timerVars, flagVars
<1>3. CASE ShutdownReturns
  BY <1>3 DEF ShutdownReturns, WaitOver, SocketGone, processVars, timerVars, flagVars
<1>. QED
  BY <1>1, <1>2, <1>3 DEF ShutdownStep

(* The loss of the connection, whoever notices it. *)
LEMMA OnDisconnectedSafe ==
    ASSUME ControllerInv, OnDisconnected, UNCHANGED callVars, ~ReportDue
    PROVE  SafetyInv'
<1> USE DEF SafetyInv, ControllerInv, ChildOwned, ShutdownStages, StateHonest, RecoveryArmed, Idle,
            ReportDue, OwnsProcess, Connected, SocketGone, callVars
<1>1. CASE shuttingDown
  BY <1>1 DEF OnDisconnected, NoSpawn, processVars, timerVars, flagVars
<1>2. CASE ~shuttingDown /\ restartPending /\ proc = "NotRunning"
  BY <1>2, SpawnFacts DEF OnDisconnected
<1>3. CASE ~shuttingDown /\ ~(restartPending /\ proc = "NotRunning")
  BY <1>3 DEF OnDisconnected, NoSpawn, Reconnecting, processVars
<1>. QED
  BY <1>1, <1>2, <1>3

(* The timers. *)
LEMMA TimerStep ==
    ASSUME ControllerInv, ReconnectFires \/ SpawnFires \/ StopFires
    PROVE  SafetyInv'
<1> USE DEF SafetyInv, ControllerInv, ChildOwned, ShutdownStages, StateHonest, RecoveryArmed, Idle,
            ReportDue, OwnsProcess
<1>1. CASE ReconnectFires
  BY <1>1, ConnectSafe DEF ReconnectFires, processVars, callVars
<1>2. CASE SpawnFires /\ MaySpawn
  BY <1>2, SpawnFacts DEF SpawnFires, MaySpawn, wireVars, callVars, Connected
<1>3. CASE SpawnFires /\ ~MaySpawn
  BY <1>3 DEF SpawnFires, NoSpawn, wireVars, processVars, callVars, Connected
<1>4. CASE StopFires
  BY <1>4 DEF StopFires, wireVars, processVars, flagVars, callVars, Connected
<1>. QED
  BY <1>1, <1>2, <1>3, <1>4

(* What QProcess reports. *)
LEMMA ProcessStep ==
    ASSUME ControllerInv, ProcStart \/ ProcFinished
    PROVE  SafetyInv'
<1> USE DEF SafetyInv, ControllerInv, ChildOwned, ShutdownStages, StateHonest, RecoveryArmed, Idle,
            ReportDue, OwnsProcess, Connected
<1>1. CASE ProcStarted
  <2>1. CASE \E g \in Gateways : Attach(g) /\ MayConnect /\ spawnT' = FALSE
    BY <1>1, <2>1, AttachFacts DEF ProcStarted, MayConnect, flagVars, callVars
  <2>2. CASE reconnectT' = TRUE /\ UNCHANGED <<wireVars, spawnT>>
    BY <1>1, <2>2 DEF ProcStarted, wireVars, flagVars, callVars
  <2>. QED
    BY <1>1, <2>1, <2>2 DEF ProcStarted, StartedConnects
<1>2. CASE ProcFailsToStart
  BY <1>2 DEF ProcFailsToStart, wireVars, timerVars, flagVars, callVars
<1>3. CASE ProcFinished
  <2>1. CASE restartPending /\ ~shuttingDown /\ ~Connected
    BY <1>3, <2>1, SpawnFacts DEF ProcFinished, NothingToKill, wireVars, callVars
  <2>2. CASE restartPending /\ ~shuttingDown /\ Connected
    BY <1>3, <2>2 DEF ProcFinished, NothingToKill, FinishedState, wireVars, callVars
  <2>3. CASE ~(restartPending /\ ~shuttingDown)
    BY <1>3, <2>3 DEF ProcFinished, NothingToKill, FinishedState, wireVars, callVars
  <2>. QED
    BY <2>1, <2>2, <2>3
<1>. QED
  BY <1>1, <1>2, <1>3 DEF ProcStart

(* What the socket reports. *)
LEMMA SocketStep ==
    ASSUME ControllerInv, Disconnected \/ ProcessIncoming
    PROVE  SafetyInv'
<1>1. CASE Disconnected
  BY <1>1, OnDisconnectedSafe DEF Disconnected
<1>2. CASE ProcessIncoming /\ Head(toCtl) = "oversized"
  BY <1>2, OnDisconnectedSafe DEF ProcessIncoming
<1>3. CASE ProcessIncoming /\ Head(toCtl) # "oversized"
  <2>1. Head(toCtl) \in Frames
    BY <1>3 DEF ProcessIncoming, ControllerInv, TypeOK, ServerTypeOK
  <2>2. Shown(Head(toCtl)) \in {"Ready", "Error", "Restarting", "Stopping", state}
    BY <1>3, <2>1 DEF Shown, Frames
  <2>. QED
    BY <1>3, <2>2 DEF ProcessIncoming, NoSpawn, processVars, timerVars, callVars, SafetyInv,
                      ControllerInv, ChildOwned, ShutdownStages, StateHonest, RecoveryArmed, Idle,
                      ReportDue, Connected
<1>. QED
  BY <1>1, <1>2, <1>3

(* What the environment does, and what leaves everything as it is. *)
LEMMA EnvironmentStep ==
    ASSUME ControllerInv,
           \/ \E g \in Gateways : Server(g)
           \/ \E g \in Gateways : ForeignLaunch(g)
           \/ DesktopCrash
           \/ UNCHANGED vars
    PROVE  SafetyInv'
<1> USE DEF SafetyInv, ControllerInv, ChildOwned, ShutdownStages, StateHonest, RecoveryArmed, Idle,
            ReportDue, Connected, processVars, timerVars, flagVars, callVars
<1>1. CASE \E g \in Gateways : Server(g)
  <2>1. PICK g \in Gateways : Server(g)
    BY <1>1
  <2>2. UNCHANGED sock
    BY <2>1 DEF Server, GatewayStep, HandleRequest, Listen, BootFails, Quit, Exit, Crash,
                ForeignShutdown, wireVars
  <2>. QED
    BY <2>1, <2>2 DEF Server
<1>2. CASE \E g \in Gateways : ForeignLaunch(g)
  BY <1>2 DEF ForeignLaunch, wireVars
<1>3. CASE DesktopCrash
  BY <1>3 DEF DesktopCrash, SocketGone
<1>4. CASE UNCHANGED vars
  <2>1. /\ UNCHANGED wireVars /\ UNCHANGED state /\ UNCHANGED processVars
        /\ UNCHANGED timerVars /\ UNCHANGED flagVars /\ UNCHANGED callVars
    BY <1>4 DEF vars
  <2>. QED
    BY <2>1 DEF wireVars
<1>. QED
  BY <1>1, <1>2, <1>3, <1>4

(* Every step keeps the controller's invariant. *)
LEMMA InvStep == ControllerInv /\ [Next]_vars => ControllerInv'
<1> SUFFICES ASSUME ControllerInv, [Next]_vars
             PROVE  ControllerInv'
  OBVIOUS
<1>1. TypeOK'
  BY TypeStep DEF ControllerInv
<1>2. SafetyInv'
  BY UserStep, ShutdownStepSafe, TimerStep, ProcessStep, SocketStep, EnvironmentStep DEF Next
<1>. QED
  BY <1>1, <1>2 DEF ControllerInv, SafetyInv

(* The types, the ownership of the child, the stages of a shutdown, the    *)
(* honesty of the shown state and the timers of a recovery hold together,  *)
(* and each needs the others.                                              *)
THEOREM ControllerCorrect == Spec => []ControllerInv
<1>1. Init => ControllerInv
  <2>1. Init => TypeOK
    <3>1. ServerInit => ServerTypeOK
      BY DEF ServerInit, ServerTypeOK, GwStates
    <3>. QED
      BY <3>1 DEF Init, ControllerInit, TypeOK, States, ProcStates, Calls, Results
  <2>. QED
    BY <2>1 DEF Init, ServerInit, ControllerInit, ControllerInv, ChildOwned, ShutdownStages,
                StateHonest, RecoveryArmed, Connected
<1>. QED
  BY <1>1, InvStep, PTL DEF Spec

(* A child that may be alive is marked as the desktop's own. *)
THEOREM ChildAlwaysOwned == Spec => []ChildOwned
<1>1. ControllerInv => ChildOwned
  BY DEF ControllerInv
<1>. QED
  BY <1>1, ControllerCorrect, PTL

(* Ready and Stopped are never shown of a controller that is not. *)
THEOREM StateAlwaysHonest == Spec => []StateHonest
<1>1. ControllerInv => StateHonest
  BY DEF ControllerInv
<1>. QED
  BY <1>1, ControllerCorrect, PTL

(* A controller on its way always has something that takes it further. *)
THEOREM RecoveryAlwaysArmed == Spec => []RecoveryArmed
<1>1. ControllerInv => RecoveryArmed
  BY DEF ControllerInv
<1>. QED
  BY <1>1, ControllerCorrect, PTL

(* A shutdown that returned leaves no connection, no restart and no timer  *)
(* that spawns or kills; one that returned true leaves no process either.  *)
THEOREM ShutdownAlwaysComplete == Spec => []ShutdownLeavesNothing
<1>1. ControllerInv => ShutdownLeavesNothing
  BY DEF ControllerInv, ShutdownStages, ShutdownLeavesNothing, Idle
<1>. QED
  BY <1>1, ControllerCorrect, PTL

---------------------------------------------------------------------------
(* Action properties.                                                      *)

(* The steps that spawn are barred by a shutdown, and so are those that    *)
(* attach the socket.                                                      *)
LEMMA FinalStep ==
    ASSUME ControllerInv, [Next]_vars, shuttingDown, shuttingDown'
    PROVE  sock' \in {sock, NoGateway} /\ child' \in {child, NoGateway}
<1> USE DEF processVars, wireVars, flagVars
<1>0. ~spawnT /\ ~restartPending
  BY DEF ControllerInv, ShutdownStages
<1>1. CASE UserCall
  <2>1. ~MayConnect
    BY DEF MayConnect
  <2>. QED
    BY <1>1, <2>1 DEF UserCall, Start, Ping, Restart, ShutdownAlreadyStopped, ShutdownBegins,
                      ConnectToGateway
<1>2. CASE ShutdownStep
  BY <1>2 DEF ShutdownStep, ShutdownFlushed, ShutdownKills, ShutdownReturns, SocketGone
<1>3. CASE ReconnectFires \/ SpawnFires \/ StopFires
  BY <1>0, <1>3 DEF ReconnectFires, ConnectToGateway, MayConnect, SpawnFires, StopFires
<1>4. CASE ProcStart
  BY <1>4 DEF ProcStart, ProcStarted, StartedConnects, MayConnect, ProcFailsToStart
<1>5. CASE ProcFinished
  BY <1>5 DEF ProcFinished
<1>6. CASE Disconnected \/ ProcessIncoming
  BY <1>6 DEF Disconnected, ProcessIncoming, OnDisconnected, SocketGone, NoSpawn
<1>7. CASE \E g \in Gateways : Server(g)
  BY <1>7 DEF Server, GatewayStep, HandleRequest, Listen, BootFails, Quit, Exit, Crash,
              ForeignShutdown
<1>8. CASE \E g \in Gateways : ForeignLaunch(g)
  BY <1>8 DEF ForeignLaunch
<1>9. CASE DesktopCrash
  BY <1>9 DEF DesktopCrash
<1>10. CASE UNCHANGED vars
  BY <1>10 DEF vars
<1>. QED
  BY <1>1, <1>2, <1>3, <1>4, <1>5, <1>6, <1>7, <1>8, <1>9, <1>10 DEF Next

(* Until the user starts or restarts, nothing undoes a shutdown. *)
THEOREM ShutdownStaysFinal == Spec => ShutdownIsFinal
<1>1. ControllerInv /\ [Next]_vars =>
         [shuttingDown /\ shuttingDown' =>
            /\ sock' \in {sock, NoGateway}
            /\ child' \in {child, NoGateway}]_vars
  BY FinalStep
<1>. QED
  BY <1>1, ControllerCorrect, PTL DEF Spec, ShutdownIsFinal

(* The four places that spawn find the process of the child dead. *)
LEMMA OneByOneStep ==
    ASSUME ControllerInv, [Next]_vars, child # NoGateway, child' # child
    PROVE  child \in Dead \/ gw'[child] = "exited" \/ DesktopCrash
<1> USE DEF processVars
<1>0. proc # "NotRunning" /\ child \in Gateways /\ gw \in [Gateways -> GwStates]
  BY DEF ControllerInv, ChildOwned, TypeOK, ServerTypeOK
<1>1. CASE UserCall
  BY <1>0, <1>1 DEF UserCall, Start, Ping, Restart, RestartByRequest, RestartByTerminate,
                    RestartBySpawn, ShutdownAlreadyStopped, ShutdownBegins, NoSpawn
<1>2. CASE ShutdownStep
  BY <1>2 DEF ShutdownStep, ShutdownFlushed, ShutdownKills, ShutdownReturns
<1>3. CASE ReconnectFires \/ SpawnFires \/ StopFires
  BY <1>0, <1>3 DEF ReconnectFires, SpawnFires, StopFires, MaySpawn, NoSpawn
<1>4. CASE ProcStart
  BY <1>0, <1>4 DEF ProcStart, ProcStarted, ProcFailsToStart
<1>5. CASE ProcFinished
  BY <1>5 DEF ProcFinished
<1>6. CASE Disconnected \/ ProcessIncoming
  BY <1>0, <1>6 DEF Disconnected, ProcessIncoming, OnDisconnected, NoSpawn
<1>7. CASE \E g \in Gateways : Server(g)
  BY <1>7 DEF Server
<1>8. CASE \E g \in Gateways : ForeignLaunch(g)
  BY <1>8 DEF ForeignLaunch
<1>9. CASE UNCHANGED vars
  BY <1>9 DEF vars
<1>. QED
  BY <1>1, <1>2, <1>3, <1>4, <1>5, <1>6, <1>7, <1>8, <1>9 DEF Next

(* There is never a second child, and never a lost one. *)
THEOREM NeverTwoChildren == Spec => ChildrenOneByOne
<1>1. ControllerInv /\ [Next]_vars =>
         [child # NoGateway /\ child' # child =>
            child \in Dead \/ gw'[child] = "exited" \/ DesktopCrash]_vars
  BY OneByOneStep
<1>. QED
  BY <1>1, ControllerCorrect, PTL DEF Spec, ChildrenOneByOne
=============================================================================
