----------------------------- MODULE MCAtariRead -----------------------------
(* AtariRead on a small instance: see the .cfg file. *)
EXTENDS AtariRead

(* To the start, back, nowhere and on.                                     *)
MCSeekOffsets == {-8, -3, 0, 1, 5}
=============================================================================
