---------------------------- MODULE MCRetransmit ----------------------------
(***************************************************************************)
(* Retransmit on small instances, whose constants the .cfg files give.     *)
(***************************************************************************)
EXTENDS Retransmit
=============================================================================
