------------------------- MODULE GatewayController -------------------------
(***************************************************************************)
(* The desktop's GatewayController (application/gateway_controller.cpp)    *)
(* together with the gateways it finds, starts, restarts and stops.        *)
(*                                                                         *)
(* The controller runs in one event loop: a timer, a process notification, *)
(* a socket notification or a call of its interface is one step, with all  *)
(* the handlers Qt calls inside it (connectToServer() and abort() call     *)
(* theirs before they return).  shutdownAndWait() blocks the loop; it is   *)
(* several steps, told apart by `call', and only the handlers its waits    *)
(* run are enabled between them.                                           *)
(*                                                                         *)
(* Time is left out: an active timer may fire at any moment, and a wait    *)
(* may time out at any moment.                                             *)
(***************************************************************************)
EXTENDS GatewayServer, FiniteSets

CONSTANT
    MaxInFlight   \* bound on the unread frames while the user still sends requests

ASSUME MaxInFlightAssumption == MaxInFlight \in Nat

VARIABLES
    state,           \* the State shown to the user
    proc,            \* QProcess::state()
    child,           \* the process behind gatewayProcess_
    reconnectT, spawnT, stopT,            \* the timer is active
    owns, spawnAttempted, restartPending, shuttingDown,
    call,            \* where shutdownAndWait() is waiting
    result           \* what the last call of the interface, a shutdownAndWait(), returned

processVars == <<proc, child>>
timerVars   == <<reconnectT, spawnT, stopT>>
flagVars    == <<owns, spawnAttempted, restartPending, shuttingDown>>
callVars    == <<call, result>>
vars == <<serverVars, wireVars, state, processVars, timerVars, flagVars, callVars>>

States     == {"Stopped", "Starting", "Connecting", "Ready", "Restarting", "Stopping", "Error"}
ProcStates == {"NotRunning", "Starting", "Running"}

Calls == {"none",
          "flush",        \* waitForBytesWritten(250)
          "finish",       \* waitForFinished(timeout)
          "killed",       \* kill(), then waitForFinished(500)
          "disconnect",   \* waitForDisconnected(timeout)
          "return"}       \* nothing to wait for

Results == {"none", "stopped", "timeout"}

ControllerInit ==
    /\ state = "Stopped"
    /\ proc = "NotRunning"
    /\ child = NoGateway
    /\ reconnectT = FALSE /\ spawnT = FALSE /\ stopT = FALSE
    /\ owns = FALSE /\ spawnAttempted = FALSE
    /\ restartPending = FALSE /\ shuttingDown = FALSE
    /\ call = "none"
    /\ result = "none"

Init == ServerInit /\ ControllerInit

TypeOK ==
    /\ ServerTypeOK
    /\ state \in States
    /\ proc \in ProcStates
    /\ child \in Gateways \cup {NoGateway}
    /\ reconnectT \in BOOLEAN /\ spawnT \in BOOLEAN /\ stopT \in BOOLEAN
    /\ owns \in BOOLEAN /\ spawnAttempted \in BOOLEAN
    /\ restartPending \in BOOLEAN /\ shuttingDown \in BOOLEAN
    /\ call \in Calls
    /\ result \in Results

Connected == sock # NoGateway

(* On Windows QProcess::start() reports before it returns, so that nothing *)
(* comes between a spawn and its report; elsewhere the report may be late. *)
ReportDue == proc = "Starting" /\ "lateStart" \notin Faults

(* The event loop may run the next handler.                                *)
Idle == call = "none" /\ ~ReportDue

OwnsProcess == owns /\ proc # "NotRunning"

---------------------------------------------------------------------------
(* Handlers and helpers that the steps below are made of.                  *)

(* The `connected' handler but for its spawnTimer_.stop().                 *)
Attach(g) ==
    /\ g \in Listening
    /\ sock' = g
    /\ toGw' = <<"subscribe_status", "ping">>
    /\ toCtl' = <<>>
    /\ state' = "Connecting"
    /\ reconnectT' = FALSE

(* connectToServer() finds nobody; the socket's `errorOccurred' handler.   *)
NobodyListens ==
    /\ Listening = {}
    /\ reconnectT' = (reconnectT \/ (~shuttingDown /\ proc # "Starting"))
    /\ UNCHANGED wireVars

(* A bug: a shutdown is not looked at. *)
MayConnectAlways == ~Connected

MayConnect == ~shuttingDown /\ ~Connected

(* connectToGateway(), from a handler that changes no state of its own.    *)
ConnectToGateway ==
    \/ /\ ~MayConnect
       /\ UNCHANGED <<wireVars, state, reconnectT, spawnT>>
    \/ /\ MayConnect
       /\ \/ \E g \in Gateways : Attach(g) /\ spawnT' = FALSE
          \/ NobodyListens /\ UNCHANGED <<state, spawnT>>

(* A bug: a second process is started beside the first.                    *)
MaySpawnAnother == ~shuttingDown /\ ~Connected /\ ~spawnAttempted

MaySpawn == ~shuttingDown /\ ~Connected /\ proc = "NotRunning" /\ ~spawnAttempted

(* A bug: the child is not marked as the desktop's own.                    *)
SpawnUnowned(g) ==
    /\ g \in Dead
    /\ spawnAttempted' = TRUE
    /\ owns' = owns
    /\ state' = "Starting"
    /\ proc' = "Starting"
    /\ child' = g
    /\ gw' = [gw EXCEPT ![g] = "booting"]
    /\ compat' = [compat EXCEPT ![g] = TRUE]

(* spawnGateway() past its early return: QProcess::start() on an identity  *)
(* whose former process is dead.                                           *)
Spawn(g) ==
    /\ g \in Dead
    /\ spawnAttempted' = TRUE
    /\ owns' = TRUE
    /\ state' = "Starting"
    /\ proc' = "Starting"
    /\ child' = g
    /\ gw' = [gw EXCEPT ![g] = "booting"]
    /\ compat' = [compat EXCEPT ![g] = TRUE]

NoSpawn == UNCHANGED <<serverVars, processVars, owns>>

SocketGone == sock' = NoGateway /\ toGw' = <<>> /\ toCtl' = <<>>

(* Two bugs: one of the two timers is not started.                         *)
ReconnectingLater ==
    state' = "Connecting" /\ reconnectT' = reconnectT /\ spawnT' = (spawnT \/ proc = "NotRunning")
ReconnectingOnly ==
    state' = "Connecting" /\ reconnectT' = TRUE /\ spawnT' = spawnT

(* The connection is lost without a shutdown or a restart.                 *)
Reconnecting ==
    state' = "Connecting" /\ reconnectT' = TRUE /\ spawnT' = (spawnT \/ proc = "NotRunning")

(* The `disconnected' handler.  Where the platform reports the peer's      *)
(* close as an error first, the error handler has started reconnectTimer_. *)
OnDisconnected ==
    /\ SocketGone
    /\ IF shuttingDown
       THEN /\ state' = "Stopped"
            /\ NoSpawn
            /\ UNCHANGED <<timerVars, flagVars>>
       ELSE IF restartPending /\ proc = "NotRunning"
       THEN /\ restartPending' = FALSE
            /\ \E g \in Gateways : Spawn(g)
            /\ reconnectT' \in {reconnectT, TRUE}
            /\ UNCHANGED <<spawnT, stopT, shuttingDown>>
       ELSE /\ Reconnecting
            /\ NoSpawn
            /\ UNCHANGED <<stopT, spawnAttempted, restartPending, shuttingDown>>

(* kill() reaches a process that is still there.                           *)
KillChild ==
    gw' = IF child \in Gateways \ Dead THEN [gw EXCEPT ![child] = "crashed"] ELSE gw

---------------------------------------------------------------------------
(* The calls of the interface.                                             *)

MaySend == Len(toGw) + Len(toCtl) < MaxInFlight

Start ==
    /\ Idle
    /\ state \notin {"Ready", "Starting", "Connecting"}
    /\ shuttingDown' = FALSE /\ restartPending' = FALSE /\ spawnAttempted' = FALSE
    /\ spawnT' = TRUE
    /\ \/ Connected /\ state' = "Connecting" /\ UNCHANGED <<wireVars, reconnectT>>
       \/ ~Connected /\ \E g \in Gateways : Attach(g)
       \/ /\ ~Connected /\ Listening = {}
          /\ state' = "Connecting"
          /\ reconnectT' = (reconnectT \/ proc # "Starting")
          /\ UNCHANGED wireVars
    /\ result' = "none"
    /\ UNCHANGED <<serverVars, processVars, stopT, owns, call>>

Ping ==
    /\ Idle
    /\ IF Connected
       THEN /\ MaySend
            /\ toGw' = Append(toGw, "ping")
            /\ UNCHANGED <<sock, toCtl, state, reconnectT, spawnT>>
       ELSE ConnectToGateway
    /\ UNCHANGED <<serverVars, processVars, stopT, flagVars, callVars>>

RestartByRequest ==
    /\ Connected /\ MaySend
    /\ toGw' = Append(toGw, "shutdown")
    /\ stopT' = TRUE
    /\ restartPending' = TRUE
    /\ state' = "Restarting"
    /\ NoSpawn
    /\ UNCHANGED <<sock, toCtl, spawnAttempted>>

(* A bug: nothing follows a terminate() that has no effect.                *)
RestartByTerminateOnly ==
    /\ ~Connected /\ OwnsProcess
    /\ KillChild \/ UNCHANGED gw
    /\ restartPending' = TRUE
    /\ state' = "Restarting"
    /\ UNCHANGED <<stopT, compat, wireVars, processVars, owns, spawnAttempted>>

(* terminate() ends the process on Unix; on Windows it posts WM_CLOSE,     *)
(* which a console program without a window does not see.                  *)
RestartByTerminate ==
    /\ ~Connected /\ OwnsProcess
    /\ KillChild \/ UNCHANGED gw
    /\ stopT' = TRUE
    /\ restartPending' = TRUE
    /\ state' = "Restarting"
    /\ UNCHANGED <<compat, wireVars, processVars, owns, spawnAttempted>>

RestartBySpawn ==
    /\ ~Connected /\ ~OwnsProcess
    /\ restartPending' = FALSE
    /\ IF proc = "NotRunning"
       THEN \E g \in Gateways : Spawn(g)
       ELSE spawnAttempted' = FALSE /\ state' = "Restarting" /\ NoSpawn
    /\ UNCHANGED <<wireVars, stopT>>

Restart ==
    /\ Idle
    /\ shuttingDown' = FALSE
    /\ result' = "none"
    /\ RestartByRequest \/ RestartByTerminate \/ RestartBySpawn
    /\ UNCHANGED <<reconnectT, spawnT, call>>

AlreadyStopped == state = "Stopped" /\ proc = "NotRunning" /\ ~Connected

ShutdownAlreadyStopped ==
    /\ Idle
    /\ AlreadyStopped
    /\ result' = "stopped"
    /\ UNCHANGED <<serverVars, wireVars, state, processVars, timerVars, flagVars, call>>

(* Which wait follows the first one.                                       *)
NextWait == IF OwnsProcess THEN "finish" ELSE IF Connected THEN "disconnect" ELSE "return"

(* A bug: the timer of a restart goes on.                                  *)
StopTimersButStop == reconnectT' = FALSE /\ spawnT' = FALSE /\ stopT' = stopT

StopTimers == reconnectT' = FALSE /\ spawnT' = FALSE /\ stopT' = FALSE

ShutdownBegins ==
    /\ Idle
    /\ ~AlreadyStopped
    /\ shuttingDown' = TRUE /\ restartPending' = FALSE
    /\ StopTimers
    /\ state' = "Stopping"
    /\ IF Connected
       THEN toGw' = Append(toGw, "shutdown") /\ call' = "flush"
       ELSE UNCHANGED toGw /\ call' = NextWait
    /\ result' = "none"
    /\ UNCHANGED <<serverVars, sock, toCtl, processVars, owns, spawnAttempted>>

(* The request is written, or 250 ms have passed.                          *)
ShutdownFlushed ==
    /\ call = "flush"
    /\ call' = NextWait
    /\ UNCHANGED <<serverVars, wireVars, state, processVars, timerVars, flagVars, result>>

(* The child has not finished in time.                                     *)
ShutdownKills ==
    /\ call = "finish"
    /\ proc # "NotRunning"
    /\ KillChild
    /\ call' = "killed"
    /\ UNCHANGED <<compat, wireVars, state, processVars, timerVars, flagVars, result>>

(* What shutdownAndWait() returns where its last wait is over.  A wait in  *)
(* which the child fails to start returns false, and so does the second    *)
(* one, after kill(): only `finished' clears ownsGateway_.                 *)
WaitOver(r) ==
    \/ call = "return" /\ r = "stopped"
    \/ /\ call \in {"finish", "killed"} /\ proc = "NotRunning"
       /\ r = IF owns THEN "timeout" ELSE "stopped"
    \/ call = "killed" /\ proc # "NotRunning" /\ r = "timeout"
    \/ call = "disconnect" /\ r = IF Connected THEN "timeout" ELSE "stopped"

(* abort() drops the connection.  A `shutdown' the gateway has not read    *)
(* yet may still reach it, or be lost with the connection.                 *)
ShutdownReturns ==
    /\ \E r \in {"stopped", "timeout"} : WaitOver(r) /\ result' = r
    /\ \/ UNCHANGED gw
       \/ /\ Connected /\ gw[sock] = "serving" /\ compat[sock]
          /\ \E i \in 1..Len(toGw) : toGw[i] = "shutdown"
          /\ gw' = [gw EXCEPT ![sock] = "quitting"]
    /\ SocketGone
    /\ state' = "Stopped"
    /\ call' = "none"
    /\ UNCHANGED <<compat, processVars, timerVars, flagVars>>

---------------------------------------------------------------------------
(* What the event loop, or a wait of shutdownAndWait(), delivers.          *)

ReconnectFires ==
    /\ Idle
    /\ reconnectT
    /\ ConnectToGateway
    /\ UNCHANGED <<serverVars, processVars, stopT, flagVars, callVars>>

SpawnFires ==
    /\ Idle
    /\ spawnT
    /\ spawnT' = FALSE
    /\ IF MaySpawn
       THEN \E g \in Gateways : Spawn(g)
       ELSE NoSpawn /\ UNCHANGED <<state, spawnAttempted>>
    /\ UNCHANGED <<wireVars, reconnectT, stopT, restartPending, shuttingDown, callVars>>

StopFires ==
    /\ Idle
    /\ stopT
    /\ stopT' = FALSE
    /\ IF OwnsProcess THEN KillChild ELSE UNCHANGED gw
    /\ UNCHANGED <<compat, wireVars, state, processVars, reconnectT, spawnT, flagVars, callVars>>

(* Two bugs: nothing tries again when nobody listens yet; a shutdown is    *)
(* not looked at.                                                          *)
StartedConnectsOnce ==
    \/ ~MayConnect /\ reconnectT' = TRUE /\ UNCHANGED <<wireVars, spawnT>>
    \/ MayConnect /\ Listening = {} /\ UNCHANGED <<wireVars, reconnectT, spawnT>>
    \/ MayConnect /\ \E g \in Gateways : Attach(g) /\ spawnT' = FALSE
StartedConnectsAlways ==
    \/ (Connected \/ Listening = {}) /\ reconnectT' = TRUE /\ UNCHANGED <<wireVars, spawnT>>
    \/ ~Connected /\ \E g \in Gateways : Attach(g) /\ spawnT' = FALSE

(* reconnectTimer_.start(), then connectToGateway().                       *)
StartedConnects ==
    \/ ~MayConnect /\ reconnectT' = TRUE /\ UNCHANGED <<wireVars, spawnT>>
    \/ MayConnect /\ Listening = {} /\ reconnectT' = TRUE /\ UNCHANGED <<wireVars, spawnT>>
    \/ MayConnect /\ \E g \in Gateways : Attach(g) /\ spawnT' = FALSE

(* QProcess::started.                                                      *)
ProcStarted ==
    /\ call \in {"none", "finish", "killed"}
    /\ proc = "Starting"
    /\ proc' = "Running"
    /\ state' = "Connecting"
    /\ StartedConnects
    /\ UNCHANGED <<serverVars, child, stopT, flagVars, callVars>>

(* QProcess::errorOccurred(FailedToStart); `finished' does not follow.     *)
ProcFailsToStart ==
    /\ "startFails" \in Faults
    /\ call \in {"none", "finish", "killed"}
    /\ proc = "Starting"
    /\ gw[child] = "booting"
    /\ gw' = [gw EXCEPT ![child] = "exited"]
    /\ proc' = "NotRunning"
    /\ child' = NoGateway
    /\ state' = "Error"
    /\ UNCHANGED <<compat, wireVars, timerVars, flagVars, callVars>>

(* A bug: Stopped although another gateway is connected.                   *)
FinishedStateStopped(shown, respawn) == IF respawn THEN shown ELSE "Stopped"

(* The State that `finished' leaves when it spawns nothing.                *)
FinishedState(shown, respawn) ==
    IF shuttingDown \/ (~respawn /\ ~Connected) THEN "Stopped" ELSE shown

(* A bug: the timer that was to kill the child goes on.                    *)
NothingToKillButTimed == stopT' = stopT

(* `finished' stops the timer of the restart.                              *)
NothingToKill == stopT' = FALSE

(* QProcess::finished, after errorOccurred(Crashed) for a crashed process. *)
ProcFinished ==
    /\ call \in {"none", "finish", "killed"}
    /\ proc = "Running"
    /\ child \in Dead
    /\ NothingToKill
    /\ LET shown == IF gw[child] = "crashed" THEN "Error" ELSE state
           respawn == restartPending /\ ~shuttingDown
       IN  IF respawn /\ ~Connected
           THEN /\ restartPending' = FALSE
                /\ \E g \in Gateways : Spawn(g)
           ELSE /\ owns' = FALSE
                /\ proc' = "NotRunning"
                /\ child' = NoGateway
                /\ IF respawn
                   THEN restartPending' = FALSE /\ spawnAttempted' = FALSE
                   ELSE UNCHANGED <<restartPending, spawnAttempted>>
                /\ state' = FinishedState(shown, respawn)
                /\ UNCHANGED serverVars
    /\ UNCHANGED <<wireVars, reconnectT, spawnT, shuttingDown, callVars>>

(* The gateway closed the connection, or died; unread frames may be lost.  *)
Disconnected ==
    /\ call \in {"none", "flush", "disconnect"} /\ ~ReportDue
    /\ Connected
    /\ sock \notin Listening
    /\ OnDisconnected
    /\ UNCHANGED callVars

(* The State that a frame of the gateway leads to.                         *)
Shown(frame) ==
    CASE frame \in {"event", "version"} -> "Ready"
      [] frame = "refused"              -> "Error"
      [] frame = "stopping"             -> IF restartPending THEN "Restarting" ELSE "Stopping"
      [] frame = "subscribed"           -> state

(* One turn of processIncoming()'s loop; abort() calls the `disconnected'  *)
(* handler, so that the Error state of an invalid frame is replaced.       *)
ProcessIncoming ==
    /\ call \in {"none", "flush", "disconnect"} /\ ~ReportDue
    /\ Connected
    /\ toCtl # <<>>
    /\ IF Head(toCtl) = "oversized"
       THEN OnDisconnected
       ELSE /\ state' = Shown(Head(toCtl))
            /\ toCtl' = Tail(toCtl)
            /\ NoSpawn
            /\ UNCHANGED <<sock, toGw, timerVars, spawnAttempted, restartPending, shuttingDown>>
    /\ UNCHANGED callVars

---------------------------------------------------------------------------
(* The environment.                                                        *)

(* Another desktop, or the user, starts a gateway.  One dead identity is   *)
(* left, so that this desktop can always start its own.                    *)
ForeignLaunch(g) ==
    /\ "foreignLaunch" \in Faults
    /\ LET free == Dead \ {child, sock} IN g \in free /\ Cardinality(free) > 1
    /\ gw' = [gw EXCEPT ![g] = "booting"]
    /\ \E c \in BOOLEAN : /\ c \/ "incompatible" \in Faults
                          /\ compat' = [compat EXCEPT ![g] = c]
    /\ UNCHANGED <<wireVars, state, processVars, timerVars, flagVars, callVars>>

(* The desktop dies and a new one is started; its gateway lives on.        *)
DesktopCrash ==
    /\ "desktopCrash" \in Faults
    /\ Dead \ {child, sock} # {}
    /\ SocketGone
    /\ state' = "Stopped" /\ proc' = "NotRunning" /\ child' = NoGateway
    /\ reconnectT' = FALSE /\ spawnT' = FALSE /\ stopT' = FALSE
    /\ owns' = FALSE /\ spawnAttempted' = FALSE
    /\ restartPending' = FALSE /\ shuttingDown' = FALSE
    /\ call' = "none"
    /\ result' = "none"
    /\ UNCHANGED serverVars

UserCall == Start \/ Ping \/ Restart \/ ShutdownAlreadyStopped \/ ShutdownBegins

ShutdownStep == ShutdownFlushed \/ ShutdownKills \/ ShutdownReturns

ProcStart == ProcStarted \/ ProcFailsToStart

Server(g) ==
    /\ GatewayStep(g)
    /\ UNCHANGED <<state, processVars, timerVars, flagVars, callVars>>

Next ==
    \/ UserCall
    \/ ShutdownStep
    \/ ReconnectFires
    \/ SpawnFires
    \/ StopFires
    \/ ProcStart
    \/ ProcFinished
    \/ Disconnected
    \/ ProcessIncoming
    \/ \E g \in Gateways : Server(g)
    \/ \E g \in Gateways : ForeignLaunch(g)
    \/ DesktopCrash

Spec == Init /\ [][Next]_vars

(* The event loop delivers what is due, the waits end, and so do the event *)
(* loops of the gateways.  Nothing is assumed of the user or of a fault.   *)
Fairness ==
    /\ WF_vars(ReconnectFires)
    /\ WF_vars(SpawnFires)
    /\ WF_vars(StopFires)
    /\ WF_vars(ProcStart)
    /\ WF_vars(ProcFinished)
    /\ WF_vars(Disconnected)
    /\ WF_vars(ProcessIncoming)
    /\ WF_vars(ShutdownStep)
    /\ GatewayFairness

FairSpec == Spec /\ Fairness
=============================================================================
