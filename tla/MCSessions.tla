----------------------------- MODULE MCSessions -----------------------------
(* Sessions on small instances: see the .cfg files. *)
EXTENDS Sessions, TLC

(* Addresses, identifiers and descriptors are only compared for equality.  *)
Symmetry == Permutations(IPs) \cup Permutations(Sids) \cup Permutations(Fds)
=============================================================================
