--------------------------- MODULE IpcProperties ---------------------------
(***************************************************************************)
(* What framing promises, however the stream is cut into pieces.           *)
(***************************************************************************)
EXTENDS IpcFraming, SequencesExt

TypeOK ==
    /\ senderLimit \in SenderLimits
    /\ connected \in BOOLEAN /\ reading \in BOOLEAN
    /\ pipe \in Seq(Byte) /\ buffer \in Seq(Byte)
    /\ sent \in Seq(Payloads) /\ Len(sent) <= MaxSent
    /\ received \in Seq(Seq(Byte))

(* The messages sent and not yet taken from the buffer. *)
UnderWay == SubSeq(sent, Len(received) + 1, Len(sent))

FramesOf(messages) == FlattenSeq([i \in 1..Len(messages) |-> FramePayload(messages[i])])

(* The receiver's buffer always begins with a header: what is in it and in *)
(* the pipe are the frames of the messages under way, so that no cut of    *)
(* the stream and no lost connection makes it read a payload as a header.  *)
Aligned == buffer \o pipe = FramesOf(UnderWay)

(* To its users the socket is a channel of messages.                       *)
Messages == INSTANCE Channel WITH
               Message   <- Payloads,
               queue     <- UnderWay,
               delivered <- received

ChannelRefined == Messages!Spec

(* Between peers of one release no frame is refused, so that the receiver  *)
(* never aborts the connection (gateway/main.cpp:53, controller 227).      *)
NeverInvalid ==
    senderLimit <= MaxPayload /\ reading => FrameStatus(buffer) # "Invalid"

(* What makes these inductive: only messages that the header can tell are  *)
(* under way, what was received are the first of those sent, and nothing   *)
(* of a connection outlives it.                                            *)
FramingInv ==
    /\ TypeOK
    /\ Aligned
    /\ \A i \in 1..Len(sent) : Len(sent[i]) <= senderLimit
    /\ Len(received) <= Len(sent) /\ \A i \in 1..Len(received) : received[i] = sent[i]
    /\ ~connected => sent = <<>> /\ received = <<>> /\ buffer = <<>> /\ pipe = <<>>

(* A message that was framed is received, without another write having to  *)
(* push it, unless the connection is lost.                                 *)
Delivered ==
    \A k \in 1..MaxSent :
        Len(sent) >= k ~> (Len(received) >= k \/ Len(sent) < k)
=============================================================================
