------------------------- MODULE GatewayProperties -------------------------
(***************************************************************************)
(* What the controller and its gateways promise together.                  *)
(***************************************************************************)
EXTENDS GatewayController

(* The controller never loses track of its child: while gatewayProcess_ is *)
(* not NotRunning, ownsGateway_ is set, so that the stop timer and         *)
(* shutdownAndWait() do reach the process (lines 37-41, 160).              *)
ChildOwned ==
    /\ (child = NoGateway) <=> (proc = "NotRunning")
    /\ proc # "NotRunning" => owns

(* Outside shutdownAndWait() the state shown is true of the connection and *)
(* of the process: Ready only on a connection, and Stopped, unless a       *)
(* shutdown timed out, only with neither connection nor process.           *)
StateHonest ==
    Idle =>
        /\ state = "Ready" => Connected
        /\ state = "Stopped" /\ ~shuttingDown => ~Connected /\ proc = "NotRunning"

(* After shutdownAndWait() has returned true, whatever was connected,      *)
(* starting, or in a restart when it was called, nothing is left: no       *)
(* process, no connection, no timer that would kill or spawn (141-172).    *)
ShutdownLeavesNothing ==
    shuttingDown /\ Idle =>
        /\ ~Connected
        /\ ~spawnT /\ ~stopT /\ ~restartPending
        /\ result = "stopped" => proc = "NotRunning" /\ state = "Stopped"

(* Until start() or restart() is called again, a shutdown is final: no     *)
(* timer and no late notification connects the socket or starts a process, *)
(* although the handlers of a restart and of a reconnection still run.     *)
ShutdownIsFinal ==
    [][shuttingDown /\ shuttingDown' =>
            /\ sock' \in {sock, NoGateway}
            /\ child' \in {child, NoGateway}]_vars

(* A controller that shows Stopped has no restart to pursue, and no stop   *)
(* timer runs that would kill the process that start() spawns next,        *)
(* whichever of `finished', `disconnected' and shutdownAndWait() showed it *)
(* (51, 79, 169) and whatever was under way.  shutdownAndWait() relies on  *)
(* this where it finds Stopped and returns at once (142-145).  It is not   *)
(* true of the other two timers: they go on, and may connect or spawn.     *)
StoppedIsDisarmed == state = "Stopped" => ~restartPending /\ ~stopT

(* Ready is only shown of a gateway that speaks the desktop's version of   *)
(* the protocol, whichever gateways it was connected to before and         *)
(* whatever they had sent (233-257).                                       *)
ReadyIsCompatible == state = "Ready" => Connected /\ compat[sock]

(* The controller never has two gateways and never drops one that lives:   *)
(* gatewayProcess_ changes hands only when its process is dead, or could   *)
(* not be started, whichever of the four places calls spawnGateway().      *)
ChildrenOneByOne ==
    [][child # NoGateway /\ child' # child =>
            child \in Dead \/ gw'[child] = "exited" \/ DesktopCrash]_vars

(* The controller is the service that the main window takes it for.        *)
Service == INSTANCE GatewayService WITH
              mode     <- IF call # "none" THEN "stopping"
                          ELSE IF shuttingDown THEN "shut" ELSE "open",
              present  <- Connected \/ proc # "NotRunning",
              result   <- result

ServiceRefined == Service!ServiceSpec

(* A controller that shows Connecting or Starting without a connection has *)
(* something left that takes it further: the reconnect timer, or the       *)
(* `started' signal, which starts it.                                      *)
RecoveryArmed ==
    Idle /\ ~Connected /\ state \in {"Connecting", "Starting"} =>
        reconnectT \/ proc = "Starting"

(* The gateway at the other end is going, or has the request to go.        *)
PeerLeaves ==
    Connected /\ (gw[sock] # "serving" \/ \E i \in 1..Len(toGw) : toGw[i] = "shutdown")

(* A restart that is pending is pursued: the stop timer will kill the      *)
(* child, the child is dead, or the connected gateway goes; each leads to  *)
(* a handler that spawns.  Only a gateway of another protocol version,     *)
(* which refuses `shutdown', can hold a restart up.  This is so where      *)
(* QProcess::start() reports before it returns; a report of failure that   *)
(* is late leaves the restart pending over the next process.               *)
RestartPursued ==
    restartPending /\ Idle =>
        \/ OwnsProcess /\ (stopT \/ child \in Dead)
        \/ PeerLeaves
        \/ Connected /\ ~compat[sock]

(* What holds at each stage of a shutdown; this makes the properties above *)
(* inductive.                                                              *)
ShutdownStages ==
    /\ call # "none" => shuttingDown /\ result = "none"
    /\ call \in {"return", "disconnect"} => proc = "NotRunning"
    /\ shuttingDown => ~spawnT /\ ~stopT /\ ~restartPending
    /\ shuttingDown /\ call = "none" => ~Connected
    /\ shuttingDown /\ result = "stopped" => proc = "NotRunning" /\ state = "Stopped"

(* What makes RestartPursued inductive, where no report is late: a restart *)
(* never waits for a process that starts; it waits for the one that runs   *)
(* until that is dead, and otherwise for the gateway at the other end,     *)
(* which does not come back on the connection once it is going.            *)
RestartInv ==
    /\ Connected => gw[sock] # "booting"
    /\ restartPending =>
          /\ proc # "Starting"
          /\ proc = "Running" => stopT \/ child \in Dead
          /\ proc = "NotRunning" => PeerLeaves \/ (Connected /\ ~compat[sock])

(* What makes ReadyIsCompatible inductive: a gateway of another version    *)
(* has sent nothing that would show Ready.                                 *)
AnswersRefused ==
    Connected /\ ~compat[sock] =>
        \A i \in 1..Len(toCtl) : toCtl[i] \in {"refused", "oversized"}

ControllerInv == TypeOK /\ ChildOwned /\ ShutdownStages /\ StateHonest /\ RecoveryArmed

---------------------------------------------------------------------------
(* From some point on the user leaves the controller alone, and neither    *)
(* the desktop nor a gateway dies of itself.                               *)
Quiet == <>[][~(UserCall \/ DesktopCrash \/ \E g \in Gateways : Crash(g))]_vars

(* The stop timer of a restart that is over: it will kill the new gateway. *)
StrayStopTimer == stopT /\ OwnsProcess /\ ~restartPending

(* The controller was shut down, or never asked for a gateway.             *)
AtRest == state = "Stopped" /\ (shuttingDown \/ ~spawnAttempted)

Served == Connected /\ gw[sock] = "serving"

(* No gateway is there but those that this desktop started and still has.  *)
Alone == \A g \in Gateways : g \in Dead \cup {child, sock}

(* When nothing fails and the user stops pressing buttons, a controller    *)
(* that was started ends connected to a gateway that serves, and one that  *)
(* was shut down ends Stopped, from whatever mix of starts, restarts,      *)
(* pings and shutdowns it is in, with gateways of other desktops and       *)
(* orphans of crashed ones about.  The state shown is not promised: the    *)
(* Error of a second gateway that was killed stays, and start() on a       *)
(* standing connection shows Connecting until a frame comes.               *)
(* Left out are the behaviours in which a restart leaves its stop timer    *)
(* behind: there the controller ends with no gateway (ReplacementSpared).  *)
SettlesServed == Quiet /\ []~StrayStopTimer => <>[](AtRest \/ Served)

(* Where this desktop's gateways are the only ones, and none listens       *)
(* before QProcess has reported its start, it also shows Ready.            *)
SettlesReady ==
    /\ Quiet /\ []~StrayStopTimer
    /\ [](Alone /\ (proc = "Starting" => gw[child] # "serving"))
    => <>[](AtRest \/ (Served /\ state = "Ready"))

---------------------------------------------------------------------------
(* What the documents and tests say and the code does not do.              *)

(* The restart button stops the gateway and starts it again                *)
(* (main_window.cpp:126): what its stop timer kills is the gateway being   *)
(* stopped.  But `disconnected' spawns the replacement of a gateway that   *)
(* was not the child without stopping stopTimer_, which then kills it, and *)
(* spawnAttempted_ keeps the controller from starting another.             *)
ReplacementSpared ==
    [][StopFires /\ spawnAttempted /\ OwnsProcess /\ child \notin Dead => restartPending]_vars

(* After a gateway exits abnormally the desktop shows it and restarts it   *)
(* (PRODUCT_SPEC.md:353).  spawnAttempted_ is still set, so that the spawn *)
(* timer that `disconnected' starts for this starts nothing, and the       *)
(* controller shows Connecting for ever.                                   *)
CrashShown ==
    Quiet /\ []~StrayStopTimer => <>[](AtRest \/ Served \/ state \in {"Stopped", "Error"})

(* Ready after restart() means that the gateway was restarted, which is    *)
(* how gateway_controller_integration.cpp:54-58 tests it.  An answer to an *)
(* earlier `ping' sets Ready too: responses are not matched to requests.   *)
ReadyAfterRestart == restartPending => state # "Ready"
=============================================================================
