--------------------------- MODULE GatewayService ---------------------------
(***************************************************************************)
(* What the rest of the desktop may rely on of its gateway controller: it  *)
(* has a gateway at any time while it is open; once shutdownAndWait() is   *)
(* called it only loses what it has, and when the call returned true there *)
(* is nothing, until the controller is started or restarted.               *)
(***************************************************************************)
VARIABLES
    mode,      \* "open", "stopping" (inside shutdownAndWait()), or "shut"
    present,   \* there is a connection, or a process of the controller's
    result     \* "stopped", or "timeout", if the last call was a shutdown

serviceVars == <<mode, present, result>>

ServiceInit == mode = "open" /\ present = FALSE /\ result = "none"

(* Whatever happens to a gateway while the controller is open. *)
Operate ==
    /\ mode = "open" /\ mode' = "open"
    /\ present' \in BOOLEAN
    /\ result' \in {result, "none"}

(* start() or restart() after a shutdown. *)
Reopen ==
    /\ mode = "shut" /\ mode' = "open"
    /\ present' \in BOOLEAN
    /\ result' = "none"

(* shutdownAndWait() finds that nothing is there, and shuts nothing. *)
NothingToShut ==
    /\ mode # "stopping"
    /\ ~present
    /\ result' = "stopped"
    /\ UNCHANGED <<mode, present>>

ShutdownCalled ==
    /\ mode # "stopping" /\ mode' = "stopping"
    /\ result' = "none"
    /\ UNCHANGED present

Leaves ==
    /\ mode # "open"
    /\ present /\ present' = FALSE
    /\ UNCHANGED <<mode, result>>

ShutdownReturned ==
    /\ mode = "stopping" /\ mode' = "shut"
    /\ result' \in {"stopped", "timeout"}
    /\ present' \in {present, FALSE}
    /\ result' = "stopped" => ~present'

(* The desktop is started anew. *)
Anew == mode' = "open" /\ present' = FALSE /\ result' = "none"

ServiceNext ==
    \/ Operate \/ Reopen
    \/ NothingToShut \/ ShutdownCalled \/ Leaves \/ ShutdownReturned
    \/ Anew

ServiceSpec == ServiceInit /\ [][ServiceNext]_serviceVars
=============================================================================
