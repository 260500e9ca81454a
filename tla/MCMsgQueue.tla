----------------------------- MODULE MCMsgQueue -----------------------------
(* The priorities for the runs of MsgQueue: the program's three, repeated. *)
EXTENDS MsgQueue

MCprio == <<0, 10, 5, 0, 10, 5>>
=============================================================================
