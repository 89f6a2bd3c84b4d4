----------------------------- MODULE IpcFraming -----------------------------
(***************************************************************************)
(* Framing on the local socket (ipc/ipc_protocol.cpp), in one direction:   *)
(* a sender that writes framePayload() of each message, and a receiver     *)
(* that appends what readAll() has to its buffer and takes frames from it  *)
(* until it needs more data.  The gateway and the controller both receive  *)
(* in this way (gateway/main.cpp:43-105, gateway_controller.cpp:217-264).  *)
(*                                                                         *)
(* Bytes are digits of base Base, so that a header of four of them can be  *)
(* checked with a small base; the code's is 256, its MaxPayload 4 MiB.     *)
(***************************************************************************)
EXTENDS Naturals, Sequences

CONSTANTS
    Base,         \* the number of values of a byte
    MaxPayload,   \* kMaximumFramePayload of the receiver
    SenderLimits, \* what kMaximumFramePayload of the sender, maybe of another release, may be
    Payloads,     \* the payloads that are sent, too long ones among them
    MaxSent       \* bound on the messages of one connection

Byte == 0..(Base - 1)

ASSUME BaseAssumption == Base \in Nat \ {0, 1}
ASSUME LimitsAssumption ==
    /\ MaxPayload \in Nat /\ MaxPayload < Base * Base * Base * Base
    /\ \A limit \in SenderLimits : limit \in Nat /\ limit < Base * Base * Base * Base
ASSUME PayloadsAssumption == Payloads \subseteq Seq(Byte)
ASSUME MaxSentAssumption == MaxSent \in Nat

VARIABLES
    senderLimit, \* the limit of the sender of this connection
    connected,   \* the socket is connected
    pipe,        \* bytes written and not read
    buffer,      \* receiveBuffer_, or the gateway's buffer of the connection
    reading,     \* inside the receiver's loop
    sent,        \* messages that were framed on this connection
    received     \* payloads taken from the buffer on this connection

vars == <<senderLimit, connected, pipe, buffer, reading, sent, received>>

---------------------------------------------------------------------------
(* A bug: the bytes are not masked. *)
HeaderUnmasked(n) ==
    <<n \div (Base * Base * Base), n \div (Base * Base), n \div Base, n>>

(* The length, high byte first. *)
Header(n) ==
    <<(n \div (Base * Base * Base)) % Base, (n \div (Base * Base)) % Base,
      (n \div Base) % Base, n % Base>>

(* A bug: any length is framed. *)
FramePayloadUnlimited(payload) == Header(Len(payload)) \o payload

(* framePayload(): nothing at all for a payload that is too long. *)
FramePayload(payload) ==
    IF Len(payload) > senderLimit THEN <<>> ELSE Header(Len(payload)) \o payload

Length(bytes) == ((bytes[1] * Base + bytes[2]) * Base + bytes[3]) * Base + bytes[4]

(* A bug: an off-by-one. *)
FrameSizeShort(bytes) == 3 + Length(bytes)

(* The bytes of the first frame of a buffer, header included. *)
FrameSize(bytes) == 4 + Length(bytes)

(* What takeFrame() finds at the head of the buffer. *)
FrameStatus(bytes) ==
    IF Len(bytes) < 4 THEN "NeedMoreData"
    ELSE IF Length(bytes) > MaxPayload THEN "Invalid"
    ELSE IF Len(bytes) < FrameSize(bytes) THEN "NeedMoreData"
    ELSE "Ready"

(* A bug: the header stays in the payload. *)
FirstFrame(bytes) == SubSeq(bytes, 1, FrameSize(bytes))

FirstPayload(bytes) == SubSeq(bytes, 5, FrameSize(bytes))
AfterFirst(bytes)   == SubSeq(bytes, FrameSize(bytes) + 1, Len(bytes))

---------------------------------------------------------------------------
Init ==
    /\ senderLimit \in SenderLimits
    /\ connected = TRUE
    /\ pipe = <<>> /\ buffer = <<>>
    /\ reading = FALSE
    /\ sent = <<>> /\ received = <<>>

(* sendRequest(), or a response or event of the gateway. *)
Send(payload) ==
    /\ connected
    /\ Len(sent) < MaxSent
    /\ pipe' = pipe \o FramePayload(payload)
    /\ sent' = IF Len(payload) > senderLimit THEN sent ELSE Append(sent, payload)
    /\ UNCHANGED <<senderLimit, connected, buffer, reading, received>>

(* readyRead: the first part of what was written has arrived. *)
ReadAll ==
    /\ connected
    /\ ~reading
    /\ \E n \in 1..Len(pipe) :
          /\ buffer' = buffer \o SubSeq(pipe, 1, n)
          /\ pipe' = SubSeq(pipe, n + 1, Len(pipe))
    /\ reading' = TRUE
    /\ UNCHANGED <<senderLimit, connected, sent, received>>

(* A bug: the loop takes one frame. *)
TakeOneFrame ==
    /\ reading
    /\ FrameStatus(buffer) = "Ready"
    /\ received' = Append(received, FirstPayload(buffer))
    /\ buffer' = AfterFirst(buffer)
    /\ reading' = FALSE
    /\ UNCHANGED <<senderLimit, connected, pipe, sent>>

(* A turn of the loop that takes a frame. *)
TakeFrame ==
    /\ reading
    /\ FrameStatus(buffer) = "Ready"
    /\ received' = Append(received, FirstPayload(buffer))
    /\ buffer' = AfterFirst(buffer)
    /\ UNCHANGED <<senderLimit, connected, pipe, reading, sent>>

(* The loop returns until more has arrived. *)
NeedMoreData ==
    /\ reading
    /\ FrameStatus(buffer) = "NeedMoreData"
    /\ reading' = FALSE
    /\ UNCHANGED <<senderLimit, connected, pipe, buffer, sent, received>>

(* takeFrame() clears the buffer, and the receiver aborts the connection. *)
Invalid ==
    /\ reading
    /\ FrameStatus(buffer) = "Invalid"
    /\ buffer' = <<>>
    /\ reading' = FALSE
    /\ connected' = FALSE
    /\ pipe' = <<>> /\ sent' = <<>> /\ received' = <<>>
    /\ UNCHANGED senderLimit

(* The connection is lost between two turns of the event loop. *)
Disconnect ==
    /\ connected
    /\ ~reading
    /\ connected' = FALSE
    /\ buffer' = <<>>
    /\ pipe' = <<>> /\ sent' = <<>> /\ received' = <<>>
    /\ UNCHANGED <<senderLimit, reading>>

Connect ==
    /\ ~connected
    /\ connected' = TRUE
    /\ senderLimit' \in SenderLimits
    /\ buffer' = <<>>
    /\ UNCHANGED <<pipe, reading, sent, received>>

Next ==
    \/ \E payload \in Payloads : Send(payload)
    \/ ReadAll
    \/ TakeFrame
    \/ NeedMoreData
    \/ Invalid
    \/ Disconnect
    \/ Connect

(* The event loop of the receiver runs. *)
Fairness == WF_vars(ReadAll) /\ WF_vars(TakeFrame) /\ WF_vars(NeedMoreData) /\ WF_vars(Invalid)

Spec == Init /\ [][Next]_vars /\ Fairness
=============================================================================
