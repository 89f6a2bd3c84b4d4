--------------------------- MODULE GatewayServer ---------------------------
(***************************************************************************)
(* The gateway process (src/src/gateway/main.cpp) and the local socket     *)
(* between one desktop and a gateway.                                      *)
(*                                                                         *)
(* A gateway opens and migrates its database, listens on the name of the   *)
(* current user, answers framed requests, and leaves 25 ms after it        *)
(* answered `shutdown'.  Several gateways may run: the child of this       *)
(* desktop, the child of another one, and those a crashed desktop left.    *)
(***************************************************************************)
EXTENDS IpcMessages

CONSTANTS
    Gateways,     \* identities of gateway processes; one whose process is dead is used again
    NoGateway,    \* stands for no process and for an unconnected socket
    Faults        \* the events of the environment that this instance allows

FaultKinds == {"bootFails", "startFails", "lateStart", "crash",
               "desktopCrash", "foreignLaunch", "foreignShutdown", "incompatible"}

ASSUME NoGatewayAssumption == NoGateway \notin Gateways
ASSUME FaultsAssumption == Faults \subseteq FaultKinds

VARIABLES
    gw,       \* gw[g]: how far the process g has come
    compat,   \* compat[g]: whether g speaks the desktop's version of the protocol
    sock,     \* the gateway the desktop's socket is connected to
    toGw,     \* requests sent on that connection that the gateway has not read
    toCtl     \* frames sent on that connection that the desktop has not read

serverVars == <<gw, compat>>
wireVars   == <<sock, toGw, toCtl>>

GwStates == {"booting",   \* before listen() has returned
             "serving",   \* in the event loop
             "quitting",  \* answered `shutdown', the 25 ms timer is running
             "closed",    \* left the event loop, the server and its sockets are destroyed
             "exited",    \* the process is gone, or was never started
             "crashed"}   \* the process was killed, or died of itself

Dead      == {g \in Gateways : gw[g] \in {"exited", "crashed"}}
Listening == {g \in Gateways : gw[g] \in {"serving", "quitting"}}

Requests == {"subscribe_status", "ping", "shutdown"}

(* As the desktop reads them. *)
Frames == {"subscribed", "event", "version", "stopping",
           "refused",     \* decodeMessage() rejects it, or it answers with an error
           "oversized"}   \* takeFrame() returns Invalid for it

---------------------------------------------------------------------------
(* kIpcProtocolVersion of the desktop, and of a gateway of its own or of   *)
(* another release.                                                        *)
OurVersion == 1
VersionOf(g) == IF compat[g] THEN OurVersion ELSE 1 + OurVersion

(* What the desktop takes the gateway's replies to a request for. *)
Answer(g, request) ==
    LET replies == ServerReplies(VersionOf(g), EncodeRequest(OurVersion, request))
    IN  [i \in 1..Len(replies) |-> ClientReads(OurVersion, replies[i])]

(* The frames of another release may be none to the desktop, which has a   *)
(* limit of its own.                                                       *)
Answers(g, request) ==
    {Answer(g, request)} \cup IF compat[g] THEN {} ELSE {<<"oversized">>}

ServerInit ==
    /\ gw = [g \in Gateways |-> "exited"]
    /\ compat = [g \in Gateways |-> TRUE]
    /\ sock = NoGateway
    /\ toGw = <<>>
    /\ toCtl = <<>>

ServerTypeOK ==
    /\ gw \in [Gateways -> GwStates]
    /\ compat \in [Gateways -> BOOLEAN]
    /\ sock \in Gateways \cup {NoGateway}
    /\ toGw \in Seq(Requests)
    /\ toCtl \in Seq(Frames)

(* The database is open and migrated, and listen() succeeds.  On Windows   *)
(* it does so even when another gateway listens on the same name.          *)
Listen(g) ==
    /\ gw[g] = "booting"
    /\ gw' = [gw EXCEPT ![g] = "serving"]
    /\ UNCHANGED <<compat, wireVars>>

(* main() returns 3 when the database cannot be opened or migrated, 2 when *)
(* the name cannot be listened on.                                         *)
BootFails(g) ==
    /\ "bootFails" \in Faults
    /\ gw[g] = "booting"
    /\ gw' = [gw EXCEPT ![g] = "exited"]
    /\ UNCHANGED <<compat, wireVars>>

(* processAvailableFrames() for the next request of the desktop.           *)
HandleRequest(g) ==
    /\ sock = g
    /\ g \in Listening
    /\ toGw # <<>>
    /\ \E reply \in Answers(g, Head(toGw)) : toCtl' = toCtl \o reply
    /\ gw' = IF ServerQuits(VersionOf(g), EncodeRequest(OurVersion, Head(toGw)))
             THEN [gw EXCEPT ![g] = "quitting"] ELSE gw
    /\ toGw' = Tail(toGw)
    /\ UNCHANGED <<compat, sock>>

(* The 25 ms timer quits the event loop; the server goes with main()'s scope. *)
Quit(g) ==
    /\ gw[g] = "quitting"
    /\ gw' = [gw EXCEPT ![g] = "closed"]
    /\ UNCHANGED <<compat, wireVars>>

Exit(g) ==
    /\ gw[g] = "closed"
    /\ gw' = [gw EXCEPT ![g] = "exited"]
    /\ UNCHANGED <<compat, wireVars>>

Crash(g) ==
    /\ "crash" \in Faults
    /\ g \notin Dead
    /\ gw' = [gw EXCEPT ![g] = "crashed"]
    /\ UNCHANGED <<compat, wireVars>>

(* Another desktop of the same user, connected to g, asks it to shut down. *)
ForeignShutdown(g) ==
    /\ "foreignShutdown" \in Faults
    /\ gw[g] = "serving"
    /\ compat[g]
    /\ gw' = [gw EXCEPT ![g] = "quitting"]
    /\ UNCHANGED <<compat, wireVars>>

GatewayStep(g) ==
    \/ Listen(g)
    \/ BootFails(g)
    \/ HandleRequest(g)
    \/ Quit(g)
    \/ Exit(g)
    \/ Crash(g)
    \/ ForeignShutdown(g)

(* An event loop that is running keeps running: whatever is due is done.   *)
GatewayFairness ==
    \A g \in Gateways :
        /\ WF_<<serverVars, wireVars>>(Listen(g))
        /\ WF_<<serverVars, wireVars>>(HandleRequest(g))
        /\ WF_<<serverVars, wireVars>>(Quit(g))
        /\ WF_<<serverVars, wireVars>>(Exit(g))
=============================================================================
