---------------------------- MODULE IpcMessages ----------------------------
(***************************************************************************)
(* The messages of the two ends (ipc/ipc_protocol.cpp): how they are       *)
(* encoded, which ones decodeMessage() accepts, what the gateway replies   *)
(* (gateway/main.cpp) and what the controller takes a message for          *)
(* (gateway_controller.cpp).                                               *)
(*                                                                         *)
(* A message is a JSON object with the fields that either end looks at,    *)
(* those of `result' and `error' among them.  Neither end looks at the     *)
(* value of an id: an answer is not matched with its request.              *)
(***************************************************************************)
EXTENDS Naturals, Sequences

Absent == "absent"   \* the field is not there

Message(version) ==
    [protocol |-> "modelharbor.ipc", version |-> version, id |-> Absent, event |-> Absent,
     method |-> Absent, ok |-> FALSE, gateway_version |-> Absent, status |-> Absent]

EncodeRequest(version, method) ==
    [Message(version) EXCEPT !.id = "given", !.method = method]

(* With the result's version and status; the error's code is not looked at *)
(* but for showing it.                                                     *)
EncodeResponse(version, ok, gatewayVersion, status) ==
    [Message(version) EXCEPT !.id = "given", !.ok = ok,
                             !.gateway_version = gatewayVersion, !.status = status]

EncodeEvent(version, event, gatewayVersion, status) ==
    [Message(version) EXCEPT !.event = event,
                             !.gateway_version = gatewayVersion, !.status = status]

(* A bug: any version is accepted. *)
ValidOfAnyVersion(version, message) ==
    /\ message.protocol = "modelharbor.ipc"
    /\ message.id # Absent \/ message.event # Absent

(* decodeMessage() of a program whose protocol has this version. *)
Valid(version, message) ==
    /\ message.protocol = "modelharbor.ipc"
    /\ message.version = version
    /\ message.id # Absent \/ message.event # Absent

-----------------------------------------------------------------------------
(* The gateway. *)

ErrorReply(version) == EncodeResponse(version, FALSE, Absent, Absent)

(* By method.  A method that is not known, or not there, is refused. *)
Replies(version, method) ==
    CASE method = "ping" -> <<EncodeResponse(version, TRUE, "its version", "ready")>>
      [] method = "get_status" -> <<EncodeResponse(version, TRUE, Absent, "ready")>>
      [] method = "subscribe_status" ->
            <<EncodeResponse(version, TRUE, Absent, Absent),
              EncodeEvent(version, "gateway_status", "its version", "ready")>>
      [] method = "shutdown" -> <<EncodeResponse(version, TRUE, Absent, "stopping")>>
      [] OTHER -> <<ErrorReply(version)>>

(* What processAvailableFrames() writes for one message. *)
ServerReplies(version, message) ==
    IF Valid(version, message) THEN Replies(version, message.method)
                               ELSE <<ErrorReply(version)>>

(* Whether it starts the 25 ms until it quits. *)
ServerQuits(version, message) == Valid(version, message) /\ message.method = "shutdown"

-----------------------------------------------------------------------------
(* The controller. *)

(* A bug: that a result may have no status is forgotten. *)
ReadsByStatus(version, message) ==
    IF ~Valid(version, message) THEN "refused"
    ELSE IF message.event = "gateway_status" THEN "event"
    ELSE IF ~message.ok THEN "refused"
    ELSE IF message.gateway_version # Absent THEN "version"
    ELSE message.status

(* What processIncoming() takes a message for: an error, an event, an      *)
(* answer with the gateway's version, the announcement that it stops, or   *)
(* one that says nothing, as that to subscribe_status.                     *)
ClientReads(version, message) ==
    IF ~Valid(version, message) THEN "refused"
    ELSE IF message.event = "gateway_status" THEN "event"
    ELSE IF ~message.ok THEN "refused"
    ELSE IF message.gateway_version # Absent THEN "version"
    ELSE IF message.status = "stopping" THEN "stopping"
    ELSE "subscribed"
=============================================================================
