----------------------------- MODULE DirHandles -----------------------------
(***************************************************************************)
(* The directory handles of one session (directory.c: dhandles[]): opened  *)
(* by OPENDIR over a DIR stream or by OPENDIRX over a list of results,     *)
(* read, moved, closed, kept for reuse after they are closed, and taken    *)
(* back when they are old or when there is no other. The requests of a     *)
(* session are served one at a time, so an action is a whole handler.      *)
(*                                                                         *)
(* A search stands for a path with a pattern and options; those of         *)
(* Traversals have the option TRAVERSE. Results are told apart by their    *)
(* number only, and current_entry is an index, equal to entries where the  *)
(* code has NULL. age is now - open_at of a loaded slot, capped above      *)
(* DIR_HANDLE_TIMEOUT; nothing reads it in other slots.                    *)
(***************************************************************************)
EXTENDS Naturals, FiniteSets

CONSTANTS
    MAX_DHND_PER_CONN,    \* size of dhandles[]
    DIR_HANDLE_TIMEOUT,   \* how long a closed list is kept
    Searches, Traversals,
    Streams,              \* DIR streams the process may be given
    NoStream, NoSearch, NoCursor,
    MaxEntries,           \* bound: results of a search
    Unfiltered            \* pairs of traversals that are the same but for the
                          \* pattern, which the first has not and the second has

ASSUME DirConstants ==
    /\ MAX_DHND_PER_CONN \in Nat
    /\ DIR_HANDLE_TIMEOUT \in Nat
    /\ MaxEntries \in Nat
    /\ Traversals \subseteq Searches
    /\ Unfiltered \subseteq Traversals \X Traversals

ASSUME NullsAreNoValue ==
    /\ NoStream \notin Streams
    /\ NoSearch \notin Searches
    /\ NoCursor \notin [search : Searches, entries : 0 .. MaxEntries,
                        at : 0 .. MaxEntries]

VARIABLES
    dhandles,   \* the slots
    streams,    \* the DIR streams open in the process
    reply       \* what the last open or READDIR answered

vars == <<dhandles, streams, reply>>

Handles == 0 .. MAX_DHND_PER_CONN - 1

Counts == 0 .. MaxEntries

Slot == [handle  : Streams \cup {NoStream},
         left    : Counts,             \* entries the stream still has
         open    : BOOLEAN,
         loaded  : BOOLEAN,
         search  : Searches \cup {NoSearch},
         age     : 0 .. DIR_HANDLE_TIMEOUT + 1,
         entries : Counts,             \* length of entry_list, 0 for NULL
         current : Counts]

Reply == [cmd : {"none", "opendir", "opendirx", "readdir"}, h : Handles \cup {0},
          status : {"ok", "eof", "ebadf", "emfile", "error", "crash"}, max : Counts]

TypeOK ==
    /\ dhandles \in [Handles -> Slot]
    /\ streams \in SUBSET Streams
    /\ reply \in Reply

Empty == [handle |-> NoStream, left |-> 0, open |-> FALSE, loaded |-> FALSE,
          search |-> NoSearch, age |-> 0, entries |-> 0, current |-> 0]

NoReply == [cmd |-> "none", h |-> 0, status |-> "ok", max |-> 0]

Init ==
    /\ dhandles = [h \in Handles |-> Empty]
    /\ streams = {}
    /\ reply = NoReply

-----------------------------------------------------------------------------
(* Finding a slot: _tnfs_find_free_dir_handle(). *)

StreamsOf(H) == {dhandles[h].handle : h \in H} \ {NoStream}

First(H) == {h \in H : \A i \in H : h <= i}

(* Mutated form: the age is compared with one unit too many. *)
LapsedLate ==
    {h \in Handles : /\ ~ dhandles[h].open
                     /\ dhandles[h].loaded
                     /\ dhandles[h].age > DIR_HANDLE_TIMEOUT + 1}

(* Closed lists that are too old: freed before a slot is looked for. *)
Lapsed ==
    {h \in Handles : /\ ~ dhandles[h].open
                     /\ dhandles[h].loaded
                     /\ dhandles[h].age > DIR_HANDLE_TIMEOUT}

(* Slots of this search that still have its results, open or not: they are *)
(* looked for in their order,                                              *)
Cached(s) ==
    {h \in Handles \ Lapsed : dhandles[h].loaded /\ dhandles[h].search = s}

(* and a slot with a pattern has strncmp() read the NULL that stands for   *)
(* the pattern of a search without one.                                    *)
ReadsNull(s) ==
    {h \in Handles \ Lapsed :
        dhandles[h].loaded /\ <<s, dhandles[h].search>> \in Unfiltered}

Unused == {h \in Handles : ~ dhandles[h].open}

Vacant == {h \in Unused : h \in Lapsed \/ ~ dhandles[h].loaded}

(* Mutated form: cached slots are not given up for a new search. *)
NewSlotEmptyOnly == First(Vacant)

(* A search that is not reused takes an empty slot, else a cached one. *)
NewSlot == First(IF Vacant # {} THEN Vacant ELSE Unused)

Reused(s) == IF s \in Traversals THEN First(Cached(s)) ELSE {}

(* _tnfs_init_dhandle() on the slot h, freed first if it is loaded. *)
Fresh(h, s) ==
    [IF dhandles[h].loaded THEN Empty ELSE dhandles[h]
        EXCEPT !.handle = NoStream, !.search = s, !.age = 0]

(* The slots after a search has taken h, which becomes d. *)
Take(h, d) ==
    dhandles' = [i \in Handles |-> IF i = h THEN d
                                   ELSE IF i \in Lapsed THEN Empty
                                   ELSE dhandles[i]]

(* The streams left when h and the lapsed slots have closed theirs. *)
StreamsWithout(h) == streams \ StreamsOf(Lapsed \cup {h})

Reopen(h, F) == streams' = StreamsWithout(h) \cup F

Answer(cmd, h, status, max) ==
    reply' = [cmd |-> cmd, h |-> h, status |-> status, max |-> max]

NoSlot(cmd) ==
    /\ NewSlot = {}
    /\ Answer(cmd, 0, "emfile", 0)
    /\ UNCHANGED <<dhandles, streams>>

-----------------------------------------------------------------------------
(* The handlers. *)

(* opendir() fails: the slot stays empty, what it had cached is gone. *)
OpenFails(cmd, h, s) ==
    /\ Take(h, Fresh(h, s))
    /\ Reopen(h, {})
    /\ Answer(cmd, 0, "error", 0)

OpenDir(s) ==
    \/ NoSlot("opendir")
    \/ \E h \in NewSlot :
        \/ OpenFails("opendir", h, s)
        \/ \E f \in Streams \ StreamsWithout(h), left \in Counts :
            /\ Take(h, [Fresh(h, s) EXCEPT !.handle = f, !.left = left, !.open = TRUE])
            /\ Reopen(h, {f})
            /\ Answer("opendir", h, "ok", 0)

(* _load_directory(): the stream is read to its end, or until max results, *)
(* and kept open.                                                          *)
Load(h, s, max) ==
    \E f \in Streams \ StreamsWithout(h), entries \in Counts, left \in Counts :
        /\ max > 0 => entries <= max
        /\ max = 0 \/ entries < max => left = 0
        /\ Take(h, [Fresh(h, s) EXCEPT !.handle = f, !.left = left, !.open = TRUE,
                       !.loaded = TRUE, !.entries = entries, !.current = 0])
        /\ Reopen(h, {f})
        /\ Answer("opendirx", h, "ok", max)

(* _traverse_directory() leaves no stream open. *)
Traverse(h, s, max) ==
    \E entries \in Counts :
        /\ max > 0 => entries <= max
        /\ Take(h, [Fresh(h, s) EXCEPT !.open = TRUE, !.loaded = TRUE,
                       !.entries = entries, !.current = 0])
        /\ Reopen(h, {})
        /\ Answer("opendirx", h, "ok", max)

(* Mutated form: the reader goes on where the previous one stopped. *)
ReuseInPlace(h, max) ==
    /\ Take(h, [dhandles[h] EXCEPT !.open = TRUE])
    /\ streams' = streams \ StreamsOf(Lapsed)
    /\ Answer("opendirx", h, "ok", max)

(* The results of an earlier traversal, from the first one. *)
Reuse(h, max) ==
    /\ Take(h, [dhandles[h] EXCEPT !.open = TRUE, !.current = 0])
    /\ streams' = streams \ StreamsOf(Lapsed)
    /\ Answer("opendirx", h, "ok", max)

(* The process ends; the next one starts without sessions.                 *)
Crash ==
    /\ dhandles' = [h \in Handles |-> Empty]
    /\ streams' = {}
    /\ Answer("opendirx", 0, "crash", 0)

OpenDirX(s, max) ==
    IF First(Cached(s) \cup ReadsNull(s)) \cap ReadsNull(s) # {} THEN Crash
    ELSE IF Reused(s) # {} THEN \E h \in Reused(s) : Reuse(h, max)
    ELSE \/ NoSlot("opendirx")
         \/ \E h \in NewSlot :
              \/ OpenFails("opendirx", h, s)
              \/ IF s \in Traversals THEN Traverse(h, s, max) ELSE Load(h, s, max)

ReadDir(h) ==
    /\ IF ~ dhandles[h].open \/ dhandles[h].handle = NoStream
       THEN Answer("readdir", h, "ebadf", 0) /\ UNCHANGED dhandles
       ELSE IF dhandles[h].left = 0
       THEN Answer("readdir", h, "eof", 0) /\ UNCHANGED dhandles
       ELSE /\ Answer("readdir", h, "ok", 0)
            /\ dhandles' = [dhandles EXCEPT ![h].left = @ - 1]
    /\ UNCHANGED streams

(* READDIRX does not ask whether the handle is open. It returns one entry  *)
(* or more, as many as were asked for and fit in the reply.                *)
ReadDirX(h) ==
    /\ \E current \in dhandles[h].current + 1 .. dhandles[h].entries :
          dhandles' = [dhandles EXCEPT ![h].current = current]
    /\ reply' = NoReply
    /\ UNCHANGED streams

(* Mutated form: the walk to a position does not stop at the last result. *)
SeekDirPastEnd(h) ==
    /\ dhandles[h].open
    /\ \/ /\ dhandles[h].entries > 0
          /\ \E pos \in 0 .. dhandles[h].entries + 1 :
                dhandles' = [dhandles EXCEPT ![h].current = pos]
       \/ /\ dhandles[h].entries = 0 /\ dhandles[h].handle # NoStream
          /\ \E left \in Counts : dhandles' = [dhandles EXCEPT ![h].left = left]
    /\ reply' = NoReply
    /\ UNCHANGED streams

(* A position beyond the results is their end. *)
SeekDir(h) ==
    /\ dhandles[h].open
    /\ \/ /\ dhandles[h].entries > 0
          /\ \E pos \in 0 .. dhandles[h].entries :
                dhandles' = [dhandles EXCEPT ![h].current = pos]
       \/ /\ dhandles[h].entries = 0 /\ dhandles[h].handle # NoStream
          /\ \E left \in Counts : dhandles' = [dhandles EXCEPT ![h].left = left]
    /\ reply' = NoReply
    /\ UNCHANGED streams

(* What OPENDIRX loaded stays; what OPENDIR opened is closed. *)
CloseDir(h) ==
    /\ dhandles[h].open
    /\ IF dhandles[h].loaded
       THEN /\ dhandles' = [dhandles EXCEPT ![h].open = FALSE]
            /\ UNCHANGED streams
       ELSE /\ dhandles' = [dhandles EXCEPT ![h].open = FALSE, ![h].handle = NoStream]
            /\ streams' = streams \ StreamsOf({h})
    /\ reply' = NoReply

(* Mutated form: only loaded slots are freed with the session. *)
FreeSessionLoaded ==
    LET held == {h \in Handles : dhandles[h].loaded} IN
    /\ streams' = streams \ StreamsOf(held)
    /\ dhandles' = [h \in Handles |-> Empty]
    /\ reply' = NoReply

(* tnfs_freesession(): the slots in use are freed, and then all of them    *)
(* with the session; the next session starts with empty ones.              *)
FreeSession ==
    LET held == {h \in Handles : \/ dhandles[h].loaded \/ dhandles[h].open
                                 \/ dhandles[h].handle # NoStream} IN
    /\ streams' = streams \ StreamsOf(held)
    /\ dhandles' = [h \in Handles |-> Empty]
    /\ reply' = NoReply

Tick ==
    /\ dhandles' = [h \in Handles |->
          IF dhandles[h].loaded /\ dhandles[h].age <= DIR_HANDLE_TIMEOUT
          THEN [dhandles[h] EXCEPT !.age = @ + 1] ELSE dhandles[h]]
    /\ reply' = NoReply
    /\ UNCHANGED streams

Next ==
    \/ \E s \in Searches : OpenDir(s)
    \/ \E s \in Searches, max \in Counts : OpenDirX(s, max)
    \/ \E h \in Handles :
          ReadDir(h) \/ ReadDirX(h) \/ SeekDir(h) \/ CloseDir(h)
    \/ FreeSession
    \/ Tick

Spec == Init /\ [][Next]_vars

-----------------------------------------------------------------------------
(* Every open DIR stream is the handle of exactly one slot, which is open  *)
(* or loaded, and every handle is an open stream: whatever slots are       *)
(* recycled, evicted or freed, no stream leaks (every path that frees one  *)
(* asks for open or loaded) and none is closed twice.                      *)
StreamsOwned ==
    /\ streams = StreamsOf(Handles)
    /\ \A h \in Handles :
          dhandles[h].handle # NoStream =>
              /\ dhandles[h].open \/ dhandles[h].loaded
              /\ \A i \in Handles : dhandles[i].handle = dhandles[h].handle => i = h

(* An open is refused for want of handles only when the client has them    *)
(* all open: cached results never stand in the way.                        *)
EmfileWhenAllOpen ==
    reply.status = "emfile" => \A h \in Handles : dhandles[h].open

(* A closed handle is given out again only for DIR_HANDLE_TIMEOUT: an      *)
(* OPENDIRX that does not find its traversal open answers with results no  *)
(* older than that. (One that finds it open gives them out at any age: see *)
(* CachedNoLonger of MCDirHandles, and MCDirStale.cfg.)                    *)
FreshResults ==
    [][reply'.cmd = "opendirx" /\ reply'.status = "ok" /\ ~ dhandles[reply'.h].open
          => dhandles'[reply'.h].age <= DIR_HANDLE_TIMEOUT]_vars

(* The cursors of the open handles. *)
Cursors ==
    [h \in Handles |->
        IF dhandles[h].open
        THEN [search |-> dhandles[h].search, entries |-> dhandles[h].entries,
              at |-> dhandles[h].current]
        ELSE NoCursor]

Promise == INSTANCE DirCursors WITH cursor <- Cursors

(* A client gets what DirCursors promises: recycling, expiry, caching and  *)
(* reuse never touch a handle it has open, unless it opens the traversal   *)
(* under it again, and reused results are read from the start.             *)
ImplementsCursors == Promise!Spec
=============================================================================
