------------------------------ MODULE MCCxlRef ------------------------------
(***************************************************************************)
(* Instance of CxlRef: a sender and a receiver; the sender owns the page   *)
(* of all blocks.                                                          *)
(***************************************************************************)
EXTENDS CxlRef

MCHome == [o \in Obj |-> Sender]
=============================================================================
