---------------------------- MODULE MCDirHandles ----------------------------
(***************************************************************************)
(* DirHandles on small instances, and what the protocol document says that *)
(* the code does not do.                                                   *)
(***************************************************************************)
EXTENDS DirHandles, TLC

CONSTANTS list, tree, leaves

(* A plain search, and a traversal with and without a pattern.             *)
MCSearches == {list, tree, leaves}
MCTraversals == {tree, leaves}
MCUnfiltered == {<<tree, leaves>>}

Symmetry == Permutations(Streams)

(* "max results to return or 0 for unlimited" (tnfs-protocol.md:292): an   *)
(* OPENDIRX does not find more results than it asked for.                  *)
MaxResultsKept ==
    reply.cmd = "opendirx" /\ reply.status = "ok" /\ reply.max > 0
        => dhandles[reply.h].entries <= reply.max

(* "How long the traversal dir handles are cached." (config.h:34): an      *)
(* OPENDIRX answers with results no older than that.                       *)
CachedNoLonger ==
    reply.cmd = "opendirx" /\ reply.status = "ok"
        => dhandles[reply.h].age <= DIR_HANDLE_TIMEOUT

(* "zero-terminated wildcard pattern (no pattern used if empty)"           *)
(* (tnfs-protocol.md:293): an OPENDIRX without one is served.              *)
EmptyPatternServed == reply.status # "crash"
=============================================================================
