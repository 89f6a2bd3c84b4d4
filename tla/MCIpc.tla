------------------------------- MODULE MCIpc -------------------------------
(* Instances of IpcFraming for TLC. *)
EXTENDS IpcProperties

(* Payloads below, at and above a limit of four bytes; one is empty, and   *)
(* one looks like the header of an empty one.                              *)
ShortAndLong == {<<>>, <<1>>, <<0, 0, 0, 0>>, <<0, 1, 1, 0, 1>>}
=============================================================================
