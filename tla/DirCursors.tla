------------------------------ MODULE DirCursors ------------------------------
(***************************************************************************)
(* What a session's directory handles promise their client, without slots, *)
(* caching or DIR streams: an open handle is a cursor over one search's    *)
(* results. Opening gives a handle that was not in use, at the first       *)
(* result; from then on nothing but the client's own reads and seeks on    *)
(* that handle moves it, the results under it stay the same, and only its  *)
(* CLOSEDIR or the end of the session takes it away. The one exception is  *)
(* an OPENDIRX of a traversal that is open: it gives the same handle again *)
(* and takes it back to its first result.                                  *)
(* A handle of OPENDIR has its position in the operating system: here it   *)
(* is a cursor without results.                                            *)
(***************************************************************************)
EXTENDS Naturals

CONSTANTS Handles, Searches, NoCursor, MaxEntries

VARIABLE cursor   \* cursor[h] is the cursor of handle h, or NoCursor

Init == cursor = [h \in Handles |-> NoCursor]

Open(h) ==
    /\ cursor[h] = NoCursor
    /\ \E s \in Searches, n \in 0 .. MaxEntries :
          cursor' = [cursor EXCEPT ![h] = [search |-> s, entries |-> n, at |-> 0]]

Move(h) ==
    /\ cursor[h] # NoCursor
    /\ \E at \in 0 .. cursor[h].entries : cursor' = [cursor EXCEPT ![h].at = at]

Again(h) ==
    /\ cursor[h] # NoCursor
    /\ cursor' = [cursor EXCEPT ![h].at = 0]

Close(h) ==
    /\ cursor[h] # NoCursor
    /\ cursor' = [cursor EXCEPT ![h] = NoCursor]

EndOfSession == cursor' = [h \in Handles |-> NoCursor]

Next == (\E h \in Handles : Open(h) \/ Move(h) \/ Again(h) \/ Close(h)) \/ EndOfSession

Spec == Init /\ [][Next]_cursor
=============================================================================
