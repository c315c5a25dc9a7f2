------------------------------ MODULE MCServer ------------------------------
(* Server on small instances: see the .cfg files. *)
EXTENDS Server, TLC

(* Addresses, identifiers and descriptors are only compared for equality.  *)
(* Used where no liveness property is checked.                             *)
Symmetry == Permutations(IPs) \cup Permutations(Sids) \cup Permutations(Fds)
=============================================================================
