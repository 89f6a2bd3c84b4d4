------------------------------ MODULE Channel ------------------------------
(***************************************************************************)
(* What framing is for: messages arrive whole, once, and in the order they *)
(* were sent; only the loss of the connection loses them, and then all     *)
(* that were under way.                                                    *)
(***************************************************************************)
EXTENDS Sequences

CONSTANT Message

VARIABLES queue, delivered

Init == queue = <<>> /\ delivered = <<>>

Send ==
    \E m \in Message : queue' = Append(queue, m) /\ UNCHANGED delivered

Deliver ==
    /\ queue # <<>>
    /\ delivered' = Append(delivered, Head(queue))
    /\ queue' = Tail(queue)

Drop == queue' = <<>> /\ delivered' = <<>>

Spec == Init /\ [][Send \/ Deliver \/ Drop]_<<queue, delivered>>
=============================================================================
