-------------------------- MODULE DirHandles_proofs --------------------------
(***************************************************************************)
(* Proofs about DirHandles, for every number of slots, every time-out and  *)
(* every set of searches and streams.                                      *)
(***************************************************************************)
EXTENDS DirHandles, WellFoundedInduction, TLAPS

(* A slot that is not loaded has no results left over from an earlier      *)
(* search, a position is one of its list, and an open slot has a search.   *)
SlotsInOrder ==
    \A h \in Handles :
        /\ ~ dhandles[h].loaded => dhandles[h].entries = 0
        /\ dhandles[h].current <= dhandles[h].entries
        /\ dhandles[h].open => dhandles[h].search \in Searches

(* The inductive invariant. *)
DirInv == TypeOK /\ StreamsOwned /\ SlotsInOrder

(* An emptied slot. *)
LEMMA EmptySlot ==
    /\ Empty \in Slot
    /\ Empty.handle = NoStream /\ ~ Empty.open /\ ~ Empty.loaded
    /\ Empty.entries = 0 /\ Empty.current = 0
  BY DirConstants DEF Empty, Slot, Counts

(* The slot a search takes is one of the slots, and not open.              *)
LEMMA NewSlotIsUnused == NewSlot \subseteq Unused
  BY DEF NewSlot, First, Vacant, Unused

(* A slot made ready for a search has nothing of its past.                 *)
LEMMA FreshSlot ==
    ASSUME DirInv, NEW h \in NewSlot, NEW s \in Searches
    PROVE  /\ Fresh(h, s) \in Slot
           /\ Fresh(h, s).handle = NoStream
           /\ Fresh(h, s).search = s
           /\ Fresh(h, s).age = 0
           /\ ~ Fresh(h, s).open /\ ~ Fresh(h, s).loaded
           /\ Fresh(h, s).entries = 0 /\ Fresh(h, s).current = 0
  <1> DEFINE base == IF dhandles[h].loaded THEN Empty ELSE dhandles[h]
  <1>1. h \in Handles /\ ~ dhandles[h].open
    BY NewSlotIsUnused DEF Unused
  <1>2. dhandles[h] \in Slot
    BY <1>1 DEF DirInv, TypeOK
  <1>3. dhandles[h].current \in Counts /\ dhandles[h].entries \in Counts
    BY <1>2 DEF Slot
  <1>4. ~ dhandles[h].loaded => dhandles[h].entries = 0 /\ dhandles[h].current = 0
    BY <1>1, <1>3, DirConstants DEF DirInv, SlotsInOrder, Counts
  <1>5. /\ base \in Slot /\ ~ base.open /\ ~ base.loaded
        /\ base.entries = 0 /\ base.current = 0
    BY <1>1, <1>2, <1>4, EmptySlot
  <1>6. Fresh(h, s) = [base EXCEPT !.handle = NoStream, !.search = s, !.age = 0]
    BY DEF Fresh
  <1> HIDE DEF base
  <1>7. 0 \in 0 .. DIR_HANDLE_TIMEOUT + 1
    BY DirConstants
  <1> QED
    BY <1>5, <1>6, <1>7 DEF Slot

(* A slot that takes over a search while the lapsed ones are emptied: the  *)
(* streams stay owned if the new slot owns what was opened.                *)
LEMMA TakeStep ==
    ASSUME DirInv, NEW h \in Handles, NEW d \in Slot, NEW F \in SUBSET Streams,
           Take(h, d), Reopen(h, F),
           F = {d.handle} \ {NoStream},
           F \cap StreamsWithout(h) = {},
           d.handle # NoStream => d.open \/ d.loaded,
           ~ d.loaded => d.entries = 0,
           d.current <= d.entries,
           d.open => d.search \in Searches
    PROVE  /\ dhandles' \in [Handles -> Slot]
           /\ streams' \in SUBSET Streams
           /\ StreamsOwned'
           /\ SlotsInOrder'
  <1>1. \A i \in Handles : dhandles'[i] = IF i = h THEN d
                                           ELSE IF i \in Lapsed THEN Empty
                                           ELSE dhandles[i]
    BY DEF Take
  <1>2. dhandles' \in [Handles -> Slot]
    BY EmptySlot DEF Take, DirInv, TypeOK
  <1>3. streams' \in SUBSET Streams
    BY DEF Reopen, StreamsWithout, DirInv, TypeOK
  <1>4. SlotsInOrder'
    <2> SUFFICES ASSUME NEW i \in Handles
                 PROVE  /\ ~ dhandles'[i].loaded => dhandles'[i].entries = 0
                        /\ dhandles'[i].current <= dhandles'[i].entries
                        /\ dhandles'[i].open => dhandles'[i].search \in Searches
      BY DEF SlotsInOrder
    <2>1. CASE i = h
      BY <1>1, <2>1
    <2>2. CASE i # h /\ i \in Lapsed
      <3>1. dhandles'[i] = Empty
        BY <1>1, <2>2
      <3> QED
        BY <3>1, EmptySlot
    <2>3. CASE i # h /\ i \notin Lapsed
      BY <1>1, <2>3 DEF DirInv, SlotsInOrder
    <2> QED
      BY <2>1, <2>2, <2>3
  <1>5. \A f \in StreamsWithout(h) :
           \E i \in Handles \ (Lapsed \cup {h}) : dhandles[i].handle = f
    BY DEF StreamsWithout, StreamsOf, DirInv, StreamsOwned
  <1>6. \A i \in Handles \ (Lapsed \cup {h}) :
           dhandles[i].handle # NoStream => dhandles[i].handle \in StreamsWithout(h)
    BY DEF StreamsWithout, StreamsOf, DirInv, StreamsOwned, Lapsed
  <1>7. streams' = StreamsWithout(h) \cup F
    BY DEF Reopen
  <1>8. streams' = {dhandles'[i].handle : i \in Handles} \ {NoStream}
    <2>1. \A f \in streams' : f # NoStream /\ \E i \in Handles : dhandles'[i].handle = f
      BY <1>1, <1>3, <1>5, <1>7, NullsAreNoValue
    <2>2. \A i \in Handles : dhandles'[i].handle # NoStream =>
             dhandles'[i].handle \in streams'
      BY <1>1, <1>6, <1>7, EmptySlot
    <2> QED
      BY <2>1, <2>2
  <1>9. ASSUME NEW i \in Handles, dhandles'[i].handle # NoStream
        PROVE  /\ dhandles'[i].open \/ dhandles'[i].loaded
               /\ \A j \in Handles : dhandles'[j].handle = dhandles'[i].handle => j = i
    <2>1. CASE i = h
      <3>1. d.handle \in F
        BY <1>1, <1>9, <2>1
      <3> QED
        BY <1>1, <1>6, <1>9, <2>1, <3>1, EmptySlot
    <2>2. CASE i # h
      <3>1. i \notin Lapsed /\ dhandles'[i] = dhandles[i]
        BY <1>1, <1>9, <2>2, EmptySlot
      <3>2. dhandles[i].handle \in StreamsWithout(h)
        BY <1>6, <1>9, <2>2, <3>1
      <3>3. dhandles'[h].handle # dhandles'[i].handle
        BY <1>1, <1>9, <3>1, <3>2
      <3>4. \A j \in Handles : dhandles'[j].handle = dhandles'[i].handle =>
               dhandles'[j] = dhandles[j]
        BY <1>1, <1>9, <3>3, EmptySlot
      <3> QED
        BY <1>9, <3>1, <3>4 DEF DirInv, StreamsOwned
    <2> QED
      BY <2>1, <2>2
  <1> QED
    BY <1>2, <1>3, <1>4, <1>8, <1>9 DEF StreamsOwned, StreamsOf

(* As long as every slot keeps its stream, and does not become neither     *)
(* open nor loaded with one, the streams stay owned.                       *)
LEMMA KeepStep ==
    ASSUME DirInv, streams' = streams,
           \A i \in Handles : dhandles'[i].handle = dhandles[i].handle,
           \A i \in Handles : dhandles[i].open \/ dhandles[i].loaded
                                 => dhandles'[i].open \/ dhandles'[i].loaded
                                    \/ dhandles'[i].handle = NoStream
    PROVE  StreamsOwned' /\ streams' \in SUBSET Streams
  BY DEF DirInv, TypeOK, StreamsOwned, StreamsOf

(* An answer is a reply.                                                   *)
LEMMA AnswerIsReply ==
    ASSUME NEW cmd \in {"opendir", "opendirx", "readdir"},
           NEW h \in Handles \cup {0},
           NEW status \in {"ok", "eof", "ebadf", "emfile", "error"},
           NEW max \in Counts,
           Answer(cmd, h, status, max)
    PROVE  reply' \in Reply
  BY DEF Answer, Reply

(* The least number of results.                                            *)
LEMMA ZeroIsCount == 0 \in Counts
  BY DirConstants DEF Counts

(* No answer is a reply too.                                               *)
LEMMA NoReplyIsReply == NoReply \in Reply
  BY DirConstants DEF NoReply, Reply, Counts

(* A refused open changes nothing.                                         *)
LEMMA NoSlotStep ==
    ASSUME DirInv, NEW cmd \in {"opendir", "opendirx"}, NoSlot(cmd)
    PROVE  DirInv'
  <1>1. dhandles' = dhandles /\ streams' = streams
    BY DEF NoSlot
  <1>2. 0 \in Counts
    BY DirConstants DEF Counts
  <1>3. reply' \in Reply
    BY <1>2, AnswerIsReply DEF NoSlot
  <1> QED
    BY <1>1, <1>3 DEF DirInv, TypeOK, StreamsOwned, StreamsOf, SlotsInOrder

(* A failed open leaves its slot empty.                                    *)
LEMMA OpenFailsStep ==
    ASSUME DirInv, NEW cmd \in {"opendir", "opendirx"}, NEW s \in Searches,
           NEW h \in NewSlot, OpenFails(cmd, h, s)
    PROVE  DirInv'
  <1>1. h \in Handles
    BY NewSlotIsUnused DEF Unused
  <1>2. Fresh(h, s).current <= Fresh(h, s).entries
    BY FreshSlot
  <1>3. /\ dhandles' \in [Handles -> Slot] /\ streams' \in SUBSET Streams
        /\ StreamsOwned' /\ SlotsInOrder'
    <2> DEFINE d == Fresh(h, s)
    <2>1. Take(h, d) /\ Reopen(h, {})
      BY DEF OpenFails
    <2>2. d \in Slot /\ d.handle = NoStream /\ ~ d.open /\ d.entries = 0
      BY FreshSlot
    <2>3. d.current <= d.entries
      BY <1>2
    <2> HIDE DEF d
    <2> QED
      BY <1>1, <2>1, <2>2, <2>3, TakeStep
  <1>4. reply' \in Reply
    BY AnswerIsReply, DirConstants DEF OpenFails, Counts
  <1> QED
    BY <1>3, <1>4 DEF DirInv, TypeOK

(* OPENDIR keeps the invariant.                                            *)
LEMMA OpenDirStep ==
    ASSUME DirInv, NEW s \in Searches, OpenDir(s)
    PROVE  DirInv'
  <1>1. CASE NoSlot("opendir")
    BY <1>1, NoSlotStep
  <1>2. CASE \E h \in NewSlot : OpenFails("opendir", h, s)
    BY <1>2, OpenFailsStep
  <1>3. ASSUME NEW h \in NewSlot, NEW f \in Streams \ StreamsWithout(h), NEW left \in Counts,
               Take(h, [Fresh(h, s) EXCEPT !.handle = f, !.left = left, !.open = TRUE]),
               Reopen(h, {f}),
               Answer("opendir", h, "ok", 0)
        PROVE  DirInv'
    <2> DEFINE fresh == Fresh(h, s)
               d == [fresh EXCEPT !.handle = f, !.left = left, !.open = TRUE]
    <2>1. /\ fresh \in Slot /\ fresh.search = s /\ fresh.entries = 0 /\ fresh.current = 0
      BY FreshSlot
    <2>2. Take(h, d) /\ Reopen(h, {f})
      BY <1>3
    <2> HIDE DEF fresh
    <2>3. /\ d \in Slot /\ d.handle = f /\ d.open /\ d.search = s
          /\ d.entries = 0 /\ d.current = 0
      BY <2>1 DEF Slot
    <2> HIDE DEF d
    <2>4. f # NoStream
      BY NullsAreNoValue
    <2>5. h \in Handles
      BY NewSlotIsUnused DEF Unused
    <2>6. /\ dhandles' \in [Handles -> Slot] /\ streams' \in SUBSET Streams
          /\ StreamsOwned' /\ SlotsInOrder'
      BY <2>2, <2>3, <2>4, <2>5, TakeStep
    <2>7. reply' \in Reply
      BY <1>3, <2>5, AnswerIsReply, DirConstants DEF Counts
    <2> QED
      BY <2>6, <2>7 DEF DirInv, TypeOK
  <1> QED
    BY <1>1, <1>2, <1>3 DEF OpenDir

(* OPENDIRX keeps the invariant when it reads a directory,                 *)
LEMMA LoadStep ==
    ASSUME DirInv, NEW s \in Searches, NEW max \in Counts, NEW h \in NewSlot,
           Load(h, s, max)
    PROVE  DirInv'
  <1> DEFINE fresh == Fresh(h, s)
             d(f, entries, left) ==
               [fresh EXCEPT !.handle = f, !.left = left, !.open = TRUE,
                             !.loaded = TRUE, !.entries = entries, !.current = 0]
  <1>1. PICK f \in Streams \ StreamsWithout(h), entries \in Counts, left \in Counts :
           /\ Take(h, d(f, entries, left))
           /\ Reopen(h, {f})
           /\ Answer("opendirx", h, "ok", max)
    BY DEF Load
  <1>2. fresh \in Slot /\ fresh.search = s
    BY FreshSlot
  <1> HIDE DEF fresh
  <1> DEFINE new == d(f, entries, left)
  <1>3. /\ new \in Slot /\ new.handle = f /\ new.open /\ new.loaded /\ new.search = s
        /\ new.entries = entries /\ new.current = 0
    BY <1>2, ZeroIsCount DEF Slot
  <1>4. Take(h, new)
    BY <1>1
  <1> HIDE DEF new
  <1>5. h \in Handles /\ f # NoStream /\ 0 <= entries
    BY NewSlotIsUnused, NullsAreNoValue, DirConstants DEF Unused, Counts
  <1>6. /\ dhandles' \in [Handles -> Slot] /\ streams' \in SUBSET Streams
        /\ StreamsOwned' /\ SlotsInOrder'
    BY <1>1, <1>3, <1>4, <1>5, TakeStep
  <1>7. reply' \in Reply
    BY <1>1, <1>5, AnswerIsReply
  <1> QED
    BY <1>6, <1>7 DEF DirInv, TypeOK

(* when it walks a tree,                                                   *)
LEMMA TraverseStep ==
    ASSUME DirInv, NEW s \in Searches, NEW max \in Counts, NEW h \in NewSlot,
           Traverse(h, s, max)
    PROVE  DirInv'
  <1> DEFINE fresh == Fresh(h, s)
             d(entries) ==
               [fresh EXCEPT !.open = TRUE, !.loaded = TRUE,
                             !.entries = entries, !.current = 0]
  <1>1. PICK entries \in Counts :
           /\ Take(h, d(entries))
           /\ Reopen(h, {})
           /\ Answer("opendirx", h, "ok", max)
    BY DEF Traverse
  <1>2. fresh \in Slot /\ fresh.search = s /\ fresh.handle = NoStream
    BY FreshSlot
  <1> HIDE DEF fresh
  <1> DEFINE new == d(entries)
  <1>3. /\ new \in Slot /\ new.handle = NoStream /\ new.loaded /\ new.search = s
        /\ new.entries = entries /\ new.current = 0
    BY <1>2, ZeroIsCount DEF Slot
  <1>4. Take(h, new)
    BY <1>1
  <1> HIDE DEF new
  <1>5. h \in Handles /\ 0 <= entries
    BY NewSlotIsUnused, DirConstants DEF Unused, Counts
  <1>6. /\ dhandles' \in [Handles -> Slot] /\ streams' \in SUBSET Streams
        /\ StreamsOwned' /\ SlotsInOrder'
    BY <1>1, <1>3, <1>4, <1>5, TakeStep
  <1>7. reply' \in Reply
    BY <1>1, <1>5, AnswerIsReply
  <1> QED
    BY <1>6, <1>7 DEF DirInv, TypeOK

(* when it reuses a slot, which keeps the stream it has (it has not lapsed *)
(* and shares its stream with no other),                                   *)
LEMMA ReuseStep ==
    ASSUME DirInv, NEW s \in Searches, NEW max \in Counts, NEW h \in Cached(s),
           Reuse(h, max)
    PROVE  DirInv'
  <1> DEFINE old == dhandles[h]
             new == [old EXCEPT !.open = TRUE, !.current = 0]
             F == {old.handle} \ {NoStream}
  <1>1. h \in Handles /\ h \notin Lapsed /\ old.loaded /\ old.search = s
    BY DEF Cached
  <1>2. old \in Slot
    BY <1>1 DEF DirInv, TypeOK
  <1>3. F \in SUBSET Streams
    BY <1>2 DEF Slot
  <1>4. F \subseteq streams /\ F \cap StreamsOf(Lapsed) = {}
    BY <1>1 DEF DirInv, StreamsOwned, StreamsOf, Lapsed
  <1>5. Reopen(h, F) /\ F \cap StreamsWithout(h) = {}
    BY <1>4 DEF Reuse, Reopen, StreamsWithout, StreamsOf
  <1>6. Take(h, new)
    BY DEF Reuse
  <1> HIDE DEF old
  <1>7. /\ new \in Slot /\ new.handle = old.handle /\ new.loaded /\ new.search = s
        /\ new.current = 0 /\ new.entries \in Counts
    BY <1>1, <1>2, ZeroIsCount DEF Slot
  <1>8. new.current <= new.entries
    BY <1>7 DEF Counts
  <1> HIDE DEF new
  <1>9. F = {new.handle} \ {NoStream}
    BY <1>7
  <1> HIDE DEF F
  <1>10. /\ dhandles' \in [Handles -> Slot] /\ streams' \in SUBSET Streams
         /\ StreamsOwned' /\ SlotsInOrder'
    BY <1>1, <1>3, <1>5, <1>6, <1>7, <1>8, <1>9, TakeStep
  <1>11. reply' \in Reply
    BY <1>1, AnswerIsReply DEF Reuse
  <1> QED
    BY <1>10, <1>11 DEF DirInv, TypeOK

(* when the process ends, and its streams with it.                         *)
LEMMA CrashStep ==
    ASSUME DirInv, Crash
    PROVE  DirInv'
  <1>1. /\ streams' = {} /\ dhandles' = [h \in Handles |-> Empty]
        /\ reply' = [cmd |-> "opendirx", h |-> 0, status |-> "crash", max |-> 0]
    BY DEF Crash, Answer
  <1>2. reply' \in Reply
    BY <1>1, ZeroIsCount DEF Reply
  <1> QED
    BY <1>1, <1>2, EmptySlot, ZeroIsCount
    DEF DirInv, TypeOK, StreamsOwned, StreamsOf, SlotsInOrder, Counts

(* Those are the ways of an OPENDIRX.                                      *)
LEMMA OpenDirXCases ==
    ASSUME NEW s \in Searches, NEW max \in Counts, OpenDirX(s, max)
    PROVE  \/ Crash
           \/ \E h \in Cached(s) : Reuse(h, max)
           \/ NoSlot("opendirx")
           \/ \E h \in NewSlot : \/ OpenFails("opendirx", h, s)
                                \/ Traverse(h, s, max) \/ Load(h, s, max)
  <1>1. CASE First(Cached(s) \cup ReadsNull(s)) \cap ReadsNull(s) # {}
    BY <1>1 DEF OpenDirX
  <1>2. CASE ~ First(Cached(s) \cup ReadsNull(s)) \cap ReadsNull(s) # {}
    BY <1>2 DEF OpenDirX, Reused, First
  <1> QED
    BY <1>1, <1>2

(* It keeps the invariant in each of them.                                 *)
LEMMA OpenDirXStep ==
    ASSUME DirInv, NEW s \in Searches, NEW max \in Counts, OpenDirX(s, max)
    PROVE  DirInv'
  <1>1. CASE \E h \in Cached(s) : Reuse(h, max)
    BY <1>1, ReuseStep
  <1>2. CASE NoSlot("opendirx")
    BY <1>2, NoSlotStep
  <1>3. ASSUME NEW h \in NewSlot,
               OpenFails("opendirx", h, s) \/ Traverse(h, s, max) \/ Load(h, s, max)
        PROVE  DirInv'
    BY <1>3, OpenFailsStep, TraverseStep, LoadStep
  <1> QED
    BY <1>1, <1>2, <1>3, OpenDirXCases, CrashStep

(* Reads, seeks and the clock change no stream: READDIR,                   *)
LEMMA ReadDirStep ==
    ASSUME DirInv, NEW h \in Handles, ReadDir(h)
    PROVE  DirInv'
  <1>1. reply' \in Reply
    BY ZeroIsCount, AnswerIsReply DEF ReadDir
  <1>2. CASE dhandles' = dhandles
    BY <1>1, <1>2 DEF ReadDir, DirInv, TypeOK, StreamsOwned, StreamsOf, SlotsInOrder
  <1>3. CASE dhandles[h].left # 0 /\ dhandles' = [dhandles EXCEPT ![h].left = @ - 1]
    <2>1. dhandles[h] \in Slot
      BY DEF DirInv, TypeOK
    <2>2. dhandles[h].left - 1 \in Counts
      BY <1>3, <2>1, DirConstants DEF Slot, Counts
    <2>3. [dhandles[h] EXCEPT !.left = @ - 1] \in Slot
      BY <2>1, <2>2 DEF Slot
    <2>4. dhandles' \in [Handles -> Slot]
      BY <1>3, <2>3 DEF DirInv, TypeOK
    <2>5. \A i \in Handles :
             /\ dhandles'[i].handle = dhandles[i].handle
             /\ dhandles'[i].open = dhandles[i].open
             /\ dhandles'[i].loaded = dhandles[i].loaded
             /\ dhandles'[i].search = dhandles[i].search
             /\ dhandles'[i].entries = dhandles[i].entries
             /\ dhandles'[i].current = dhandles[i].current
      BY <1>3, <2>1 DEF DirInv, TypeOK, Slot
    <2>6. SlotsInOrder'
      BY <2>5 DEF DirInv, SlotsInOrder
    <2>7. streams' = streams
      BY DEF ReadDir
    <2> QED
      BY <1>1, <2>4, <2>5, <2>6, <2>7, KeepStep DEF DirInv, TypeOK
  <1> QED
    BY <1>2, <1>3 DEF ReadDir

(* READDIRX,                                                               *)
LEMMA ReadDirXStep ==
    ASSUME DirInv, NEW h \in Handles, ReadDirX(h)
    PROVE  DirInv'
  <1>1. PICK current \in dhandles[h].current + 1 .. dhandles[h].entries :
           dhandles' = [dhandles EXCEPT ![h].current = current]
    BY DEF ReadDirX
  <1>2. dhandles[h] \in Slot
    BY DEF DirInv, TypeOK
  <1>3. current \in Counts /\ current <= dhandles[h].entries
    BY <1>2, DirConstants DEF Slot, Counts
  <1>4. [dhandles[h] EXCEPT !.current = current] \in Slot
    BY <1>2, <1>3 DEF Slot
  <1>5. dhandles' \in [Handles -> Slot]
    BY <1>1, <1>4 DEF DirInv, TypeOK
  <1>6. \A i \in Handles :
           /\ dhandles'[i].handle = dhandles[i].handle
           /\ dhandles'[i].open = dhandles[i].open
           /\ dhandles'[i].loaded = dhandles[i].loaded
           /\ dhandles'[i].search = dhandles[i].search
           /\ dhandles'[i].entries = dhandles[i].entries
           /\ dhandles'[i].current = IF i = h THEN current ELSE dhandles[i].current
    BY <1>1, <1>2 DEF DirInv, TypeOK, Slot
  <1>7. SlotsInOrder'
    BY <1>3, <1>6 DEF DirInv, SlotsInOrder
  <1>8. streams' = streams /\ reply' \in Reply
    BY NoReplyIsReply DEF ReadDirX
  <1> QED
    BY <1>5, <1>6, <1>7, <1>8, KeepStep DEF DirInv, TypeOK

(* SEEKDIR,                                                                *)
LEMMA SeekDirStep ==
    ASSUME DirInv, NEW h \in Handles, SeekDir(h)
    PROVE  DirInv'
  <1>1. dhandles[h] \in Slot
    BY DEF DirInv, TypeOK
  <1>2. PICK current \in Counts, left \in Counts :
           /\ current <= dhandles[h].entries
           /\ dhandles' = [dhandles EXCEPT ![h] =
                             [dhandles[h] EXCEPT !.current = current, !.left = left]]
    <2>1. CASE \E pos \in 0 .. dhandles[h].entries :
                  dhandles' = [dhandles EXCEPT ![h].current = pos]
      <3>1. PICK pos \in 0 .. dhandles[h].entries :
                dhandles' = [dhandles EXCEPT ![h].current = pos]
        BY <2>1
      <3>2. pos \in Counts /\ pos <= dhandles[h].entries
        BY <1>1, DirConstants DEF Slot, Counts
      <3>3. [dhandles[h] EXCEPT !.current = pos] =
              [dhandles[h] EXCEPT !.current = pos, !.left = dhandles[h].left]
        BY <1>1 DEF Slot
      <3>4. dhandles[h].left \in Counts
        BY <1>1 DEF Slot
      <3> QED
        BY <3>1, <3>2, <3>3, <3>4
    <2>2. CASE \E left \in Counts : dhandles' = [dhandles EXCEPT ![h].left = left]
      <3>1. PICK left \in Counts : dhandles' = [dhandles EXCEPT ![h].left = left]
        BY <2>2
      <3>2. dhandles[h].current \in Counts /\ dhandles[h].current <= dhandles[h].entries
        BY <1>1 DEF Slot, DirInv, SlotsInOrder
      <3>3. [dhandles[h] EXCEPT !.left = left] =
              [dhandles[h] EXCEPT !.current = dhandles[h].current, !.left = left]
        BY <1>1 DEF Slot
      <3> QED
        BY <3>1, <3>2, <3>3
    <2> QED
      BY <2>1, <2>2 DEF SeekDir
  <1>3. [dhandles[h] EXCEPT !.current = current, !.left = left] \in Slot
    BY <1>1 DEF Slot
  <1>4. dhandles' \in [Handles -> Slot]
    BY <1>2, <1>3 DEF DirInv, TypeOK
  <1>5. \A i \in Handles :
           /\ dhandles'[i].handle = dhandles[i].handle
           /\ dhandles'[i].open = dhandles[i].open
           /\ dhandles'[i].loaded = dhandles[i].loaded
           /\ dhandles'[i].search = dhandles[i].search
           /\ dhandles'[i].entries = dhandles[i].entries
           /\ dhandles'[i].current = IF i = h THEN current ELSE dhandles[i].current
    BY <1>1, <1>2 DEF DirInv, TypeOK, Slot
  <1>6. SlotsInOrder'
    BY <1>2, <1>5 DEF DirInv, SlotsInOrder
  <1>7. streams' = streams /\ reply' \in Reply
    BY NoReplyIsReply DEF SeekDir
  <1> QED
    BY <1>4, <1>5, <1>6, <1>7, KeepStep DEF DirInv, TypeOK

(* and the clock.                                                          *)
LEMMA TickStep ==
    ASSUME DirInv, Tick
    PROVE  DirInv'
  <1>1. \A i \in Handles : dhandles[i] \in Slot
    BY DEF DirInv, TypeOK
  <1>2. \A i \in Handles :
           dhandles'[i] = IF dhandles[i].loaded /\ dhandles[i].age <= DIR_HANDLE_TIMEOUT
                          THEN [dhandles[i] EXCEPT !.age = @ + 1] ELSE dhandles[i]
    BY DEF Tick
  <1>3. ASSUME NEW i \in Handles
        PROVE  /\ dhandles'[i] \in Slot
               /\ dhandles'[i].handle = dhandles[i].handle
               /\ dhandles'[i].open = dhandles[i].open
               /\ dhandles'[i].loaded = dhandles[i].loaded
               /\ dhandles'[i].search = dhandles[i].search
               /\ dhandles'[i].entries = dhandles[i].entries
               /\ dhandles'[i].current = dhandles[i].current
    <2>1. CASE dhandles'[i] = dhandles[i]
      BY <1>1, <2>1
    <2>2. CASE /\ dhandles[i].age <= DIR_HANDLE_TIMEOUT
               /\ dhandles'[i] = [dhandles[i] EXCEPT !.age = @ + 1]
      <3>1. dhandles[i].age + 1 \in 0 .. DIR_HANDLE_TIMEOUT + 1
        BY <1>1, <2>2, DirConstants DEF Slot
      <3> QED
        BY <1>1, <2>2, <3>1 DEF Slot
    <2> QED
      BY <1>2, <2>1, <2>2
  <1>4. dhandles' \in [Handles -> Slot]
    <2>1. dhandles' = [i \in Handles |-> dhandles'[i]]
      BY DEF Tick
    <2> QED
      BY <1>3, <2>1
  <1>5. SlotsInOrder'
    BY <1>3 DEF DirInv, SlotsInOrder
  <1>6. streams' = streams /\ reply' \in Reply
    BY NoReplyIsReply DEF Tick
  <1> QED
    BY <1>3, <1>4, <1>5, <1>6, KeepStep DEF DirInv, TypeOK

(* CLOSEDIR closes the stream of a slot that has no results to keep.       *)
LEMMA CloseDirStep ==
    ASSUME DirInv, NEW h \in Handles, CloseDir(h)
    PROVE  DirInv'
  <1>1. dhandles[h] \in Slot
    BY DEF DirInv, TypeOK
  <1>2. reply' \in Reply
    BY NoReplyIsReply DEF CloseDir
  <1>3. CASE dhandles[h].loaded
    <2>1. dhandles' = [dhandles EXCEPT ![h].open = FALSE] /\ streams' = streams
      BY <1>3 DEF CloseDir
    <2>2. [dhandles[h] EXCEPT !.open = FALSE] \in Slot
      BY <1>1 DEF Slot
    <2>3. dhandles' \in [Handles -> Slot]
      BY <2>1, <2>2 DEF DirInv, TypeOK
    <2>4. \A i \in Handles :
             /\ dhandles'[i].handle = dhandles[i].handle
             /\ dhandles'[i].open => dhandles[i].open
             /\ i # h => dhandles'[i].open = dhandles[i].open
             /\ dhandles'[i].loaded = dhandles[i].loaded
             /\ dhandles'[i].search = dhandles[i].search
             /\ dhandles'[i].entries = dhandles[i].entries
             /\ dhandles'[i].current = dhandles[i].current
      BY <1>1, <2>1 DEF DirInv, TypeOK, Slot
    <2>5. SlotsInOrder'
      BY <2>4 DEF DirInv, SlotsInOrder
    <2> QED
      BY <1>2, <1>3, <2>1, <2>3, <2>4, <2>5, KeepStep DEF DirInv, TypeOK
  <1>4. CASE ~ dhandles[h].loaded
    <2> DEFINE new == [dhandles[h] EXCEPT !.open = FALSE, !.handle = NoStream]
    <2>1. dhandles' = [dhandles EXCEPT ![h] = new] /\ streams' = streams \ StreamsOf({h})
      BY <1>4 DEF CloseDir
    <2>2. /\ new \in Slot /\ new.handle = NoStream /\ ~ new.open
          /\ new.loaded = dhandles[h].loaded
          /\ new.entries = dhandles[h].entries /\ new.current = dhandles[h].current
      BY <1>1 DEF Slot
    <2> HIDE DEF new
    <2>3. \A i \in Handles : dhandles'[i] = IF i = h THEN new ELSE dhandles[i]
      BY <2>1 DEF DirInv, TypeOK
    <2>4. dhandles' \in [Handles -> Slot]
      BY <2>1, <2>2 DEF DirInv, TypeOK
    <2>5. SlotsInOrder'
      BY <2>2, <2>3 DEF DirInv, SlotsInOrder
    <2>6. streams' = {dhandles'[i].handle : i \in Handles} \ {NoStream}
      BY <2>1, <2>2, <2>3 DEF DirInv, StreamsOwned, StreamsOf
    <2>7. ASSUME NEW i \in Handles, dhandles'[i].handle # NoStream
          PROVE  /\ dhandles'[i].open \/ dhandles'[i].loaded
                 /\ \A j \in Handles : dhandles'[j].handle = dhandles'[i].handle => j = i
      BY <2>2, <2>3, <2>7 DEF DirInv, StreamsOwned
    <2>8. streams' \in SUBSET Streams
      BY <2>1 DEF DirInv, TypeOK
    <2> QED
      BY <1>2, <2>4, <2>5, <2>6, <2>7, <2>8 DEF DirInv, TypeOK, StreamsOwned, StreamsOf
  <1> QED
    BY <1>3, <1>4

(* The end of a session closes every stream: one that is held is in a slot *)
(* that the teardown frees.                                                *)
LEMMA FreeSessionStep ==
    ASSUME DirInv, FreeSession
    PROVE  DirInv'
  <1>1. streams' = {}
    BY DEF FreeSession, DirInv, StreamsOwned, StreamsOf
  <1>2. dhandles' = [h \in Handles |-> Empty] /\ reply' \in Reply
    BY NoReplyIsReply DEF FreeSession
  <1> QED
    BY <1>1, <1>2, EmptySlot, ZeroIsCount
    DEF DirInv, TypeOK, StreamsOwned, StreamsOf, SlotsInOrder, Counts

(* DirInv holds at the start and every step keeps it.                      *)
LEMMA InitInv == Init => DirInv
  BY EmptySlot, NoReplyIsReply
  DEF Init, DirInv, TypeOK, StreamsOwned, StreamsOf, SlotsInOrder

(* Every handler keeps DirInv.                                             *)
LEMMA NextInv == DirInv /\ [Next]_vars => DirInv'
  <1> SUFFICES ASSUME DirInv, [Next]_vars
               PROVE  DirInv'
    OBVIOUS
  <1>1. CASE UNCHANGED vars
    BY <1>1 DEF vars, DirInv, TypeOK, StreamsOwned, StreamsOf, SlotsInOrder
  <1>2. CASE \E s \in Searches : OpenDir(s)
    BY <1>2, OpenDirStep
  <1>3. CASE \E s \in Searches, max \in Counts : OpenDirX(s, max)
    BY <1>3, OpenDirXStep
  <1>4. CASE \E h \in Handles : ReadDir(h) \/ ReadDirX(h) \/ SeekDir(h) \/ CloseDir(h)
    BY <1>4, ReadDirStep, ReadDirXStep, SeekDirStep, CloseDirStep
  <1>5. CASE FreeSession
    BY <1>5, FreeSessionStep
  <1>6. CASE Tick
    BY <1>6, TickStep
  <1> QED
    BY <1>1, <1>2, <1>3, <1>4, <1>5, <1>6 DEF Next

(* The inductive invariant holds of every behaviour.                       *)
THEOREM SlotInvariant == Spec => []DirInv
  BY InitInv, NextInv, PTL DEF Spec

(* The slots, the streams and the answers keep their types, whatever the   *)
(* number of slots, the time-out and the requests.                         *)
THEOREM TypeCorrect == Spec => []TypeOK
  <1>1. DirInv => TypeOK
    BY DEF DirInv
  <1> QED
    BY <1>1, SlotInvariant, PTL

(* No DIR stream leaks and none has two owners (the conditions under which *)
(* OPENDIR, OPENDIRX, CLOSEDIR and the teardown of a session close one).   *)
THEOREM StreamsHaveOneOwner == Spec => []StreamsOwned
  <1>1. DirInv => StreamsOwned
    BY DEF DirInv
  <1> QED
    BY <1>1, SlotInvariant, PTL

-----------------------------------------------------------------------------
(* How old results may be.                                                 *)

(* A slot that a reuse takes is not too old if it was closed.              *)
LEMMA ReusedIsFresh ==
    ASSUME DirInv, NEW s \in Searches, NEW h \in Cached(s), ~ dhandles[h].open
    PROVE  dhandles[h].age <= DIR_HANDLE_TIMEOUT
  <1>1. dhandles[h] \in Slot /\ ~ (dhandles[h].age > DIR_HANDLE_TIMEOUT)
    BY DEF Cached, Lapsed, DirInv, TypeOK
  <1> QED
    BY <1>1, DirConstants DEF Slot

(* An OPENDIRX that succeeds answers with results of this moment, or with  *)
(* reused ones that were open or are not too old.                          *)
LEMMA OpenDirXFresh ==
    ASSUME DirInv, NEW s \in Searches, NEW max \in Counts, OpenDirX(s, max),
           reply'.status = "ok", ~ dhandles[reply'.h].open
    PROVE  dhandles'[reply'.h].age <= DIR_HANDLE_TIMEOUT
  <1>1. ASSUME NEW h \in Cached(s), Reuse(h, max)
        PROVE  dhandles'[reply'.h].age <= DIR_HANDLE_TIMEOUT
    <2>1. h \in Handles /\ dhandles[h] \in Slot
      BY DEF Cached, DirInv, TypeOK
    <2>2. dhandles'[h] = [dhandles[h] EXCEPT !.open = TRUE, !.current = 0]
      BY <1>1, <2>1 DEF Reuse, Take
    <2>3. dhandles'[h].age = dhandles[h].age
      BY <2>1, <2>2 DEF Slot
    <2>4. reply'.h = h
      BY <1>1 DEF Reuse, Answer
    <2> QED
      BY <2>3, <2>4, ReusedIsFresh
  <1>2. ASSUME NEW h \in NewSlot, Traverse(h, s, max) \/ Load(h, s, max)
        PROVE  dhandles'[reply'.h].age <= DIR_HANDLE_TIMEOUT
    <2>1. /\ h \in Handles /\ Fresh(h, s) \in Slot /\ Fresh(h, s).age = 0
      BY NewSlotIsUnused, FreshSlot DEF Unused
    <2> DEFINE fresh == Fresh(h, s)
               walked(entries) ==
                 [fresh EXCEPT !.open = TRUE, !.loaded = TRUE,
                               !.entries = entries, !.current = 0]
               read(f, entries, left) ==
                 [fresh EXCEPT !.handle = f, !.left = left, !.open = TRUE,
                               !.loaded = TRUE, !.entries = entries, !.current = 0]
    <2>2. /\ \/ \E entries \in Counts : Take(h, walked(entries))
             \/ \E f \in Streams, entries \in Counts, left \in Counts :
                   Take(h, read(f, entries, left))
          /\ Answer("opendirx", h, "ok", max)
      BY <1>2 DEF Traverse, Load
    <2>3. h \in Handles /\ fresh \in Slot /\ fresh.age = 0
      BY <2>1
    <2> HIDE DEF fresh
    <2>4. ASSUME NEW d, Take(h, d), d.age = 0
          PROVE  dhandles'[h].age = 0
      BY <2>3, <2>4 DEF Take
    <2>5. \A entries : walked(entries).age = 0
      BY <2>3 DEF Slot
    <2>6. \A f, entries, left : read(f, entries, left).age = 0
      BY <2>3 DEF Slot
    <2>7. dhandles'[h].age = 0
      <3> HIDE DEF walked, read
      <3> QED
        BY <2>2, <2>4, <2>5, <2>6
    <2>8. reply'.h = h
      BY <2>2 DEF Answer
    <2> QED
      BY <2>7, <2>8, DirConstants
  <1>3. ASSUME NEW h, Crash \/ NoSlot("opendirx") \/ OpenFails("opendirx", h, s)
        PROVE  FALSE
    BY <1>3 DEF Crash, NoSlot, OpenFails, Answer
  <1> QED
    BY <1>1, <1>2, <1>3, OpenDirXCases

(* Closed traversals are given out again for DIR_HANDLE_TIMEOUT only       *)
(* (_tnfs_find_free_dir_handle() frees the old ones before it looks). One  *)
(* that is open is given out at any age: see MCDirStale.cfg.              *)
THEOREM ResultsAreFresh == Spec => FreshResults
  <1>1. ASSUME DirInv, [Next]_vars
        PROVE  [reply'.cmd = "opendirx" /\ reply'.status = "ok"
                  /\ ~ dhandles[reply'.h].open
                    => dhandles'[reply'.h].age <= DIR_HANDLE_TIMEOUT]_vars
    <2>1. CASE \E s \in Searches : OpenDir(s)
      <3>1. \E h \in Handles \cup {0}, status \in {"ok", "emfile", "error"} :
               Answer("opendir", h, status, 0)
        BY <2>1, NewSlotIsUnused DEF OpenDir, NoSlot, OpenFails, Unused
      <3> QED
        BY <3>1 DEF Answer
    <2>2. CASE \E s \in Searches, max \in Counts : OpenDirX(s, max)
      BY <1>1, <2>2, OpenDirXFresh
    <2>3. CASE \E h \in Handles : ReadDir(h)
      BY <2>3 DEF ReadDir, Answer
    <2>4. CASE reply' = NoReply
      BY <2>4 DEF NoReply
    <2> QED
      BY <1>1, <2>1, <2>2, <2>3, <2>4
      DEF Next, ReadDirX, SeekDir, CloseDir, FreeSession, Tick
  <1>2. DirInv /\ [Next]_vars
          => [reply'.cmd = "opendirx" /\ reply'.status = "ok"
                /\ ~ dhandles[reply'.h].open
                  => dhandles'[reply'.h].age <= DIR_HANDLE_TIMEOUT]_vars
    BY <1>1
  <1> QED
    BY <1>2, SlotInvariant, PTL DEF Spec, FreshResults

-----------------------------------------------------------------------------
(* When an open is refused. *)

(* Of some slots one is the first.                                         *)
LEMMA FirstExists ==
    ASSUME NEW H \in SUBSET Handles, H # {}
    PROVE  First(H) # {}
  <1>1. H \subseteq Nat
    BY DirConstants DEF Handles
  <1>2. PICK h \in H : \A i \in H : ~ (<<i, h>> \in OpToRel(<, Nat))
    BY <1>1, NatLessThanWellFounded, WFMin
  <1>3. \A i \in H : ~ (i < h)
    BY <1>1, <1>2 DEF OpToRel
  <1>4. \A i \in H : h <= i
    BY <1>1, <1>3
  <1> QED
    BY <1>4 DEF First

(* An open finds no slot only when all are open.                           *)
LEMMA NoSlotAllOpen ==
    ASSUME NewSlot = {}
    PROVE  \A h \in Handles : dhandles[h].open
  <1>1. Vacant \in SUBSET Handles /\ Unused \in SUBSET Handles
    BY DEF Vacant, Unused
  <1>2. Vacant = {} /\ Unused = {}
    BY <1>1, FirstExists DEF NewSlot
  <1> QED
    BY <1>2 DEF Unused

(* Cached results never stand in the way of an open: it is refused for     *)
(* want of a handle only when the client has them all open                 *)
(* (_tnfs_find_free_dir_handle() gives up the first cached slot).          *)
THEOREM RefusedWhenAllOpen == Spec => []EmfileWhenAllOpen
  <1>1. Init => EmfileWhenAllOpen
    BY DEF Init, NoReply, EmfileWhenAllOpen
  <1>2. EmfileWhenAllOpen /\ [Next]_vars => EmfileWhenAllOpen'
    <2> SUFFICES ASSUME EmfileWhenAllOpen, [Next]_vars
                 PROVE  EmfileWhenAllOpen'
      OBVIOUS
    <2>1. CASE UNCHANGED vars
      BY <2>1 DEF vars, EmfileWhenAllOpen
    <2>2. CASE \E cmd \in {"opendir", "opendirx"} : NoSlot(cmd)
      <3>1. \A h \in Handles : dhandles'[h].open
        BY <2>2, NoSlotAllOpen DEF NoSlot
      <3> QED
        BY <3>1 DEF EmfileWhenAllOpen
    <2>3. ASSUME NEW cmd, NEW h, NEW status \in {"ok", "error", "eof", "ebadf", "crash"}, NEW max,
                 Answer(cmd, h, status, max)
          PROVE  EmfileWhenAllOpen'
      BY <2>3 DEF Answer, EmfileWhenAllOpen
    <2>4. CASE reply' = NoReply
      BY <2>4 DEF NoReply, EmfileWhenAllOpen
    <2>5. CASE \E s \in Searches : OpenDir(s)
      BY <2>2, <2>3, <2>5 DEF OpenDir, OpenFails
    <2>6. CASE \E s \in Searches, max \in Counts : OpenDirX(s, max)
      <3>1. PICK s \in Searches, max \in Counts : OpenDirX(s, max)
        BY <2>6
      <3>2. \A h : Reuse(h, max) \/ Traverse(h, s, max) \/ Load(h, s, max)
                     => Answer("opendirx", h, "ok", max)
        BY DEF Reuse, Traverse, Load
      <3>3. \A h : OpenFails("opendirx", h, s) => Answer("opendirx", 0, "error", 0)
        BY DEF OpenFails
      <3>4. \/ NoSlot("opendirx")
            \/ Answer("opendirx", 0, "error", 0)
            \/ Answer("opendirx", 0, "crash", 0)
            \/ \E h : Answer("opendirx", h, "ok", max)
        BY <3>1, <3>2, <3>3, OpenDirXCases DEF Crash
      <3> QED
        BY <2>2, <2>3, <3>4
    <2>7. CASE \E h \in Handles : ReadDir(h)
      BY <2>3, <2>7 DEF ReadDir
    <2> QED
      BY <2>1, <2>4, <2>5, <2>6, <2>7
      DEF Next, ReadDirX, SeekDir, CloseDir, FreeSession, Tick
  <1> QED
    BY <1>1, <1>2, PTL DEF Spec

-----------------------------------------------------------------------------
(* DirHandles implements DirCursors. *)

(* An open handle is a cursor.                                             *)
LEMMA OpenIsCursor ==
    ASSUME DirInv, NEW h \in Handles, dhandles[h].open
    PROVE  /\ Cursors[h] = [search |-> dhandles[h].search,
                            entries |-> dhandles[h].entries, at |-> dhandles[h].current]
           /\ Cursors[h] # NoCursor
  <1>1. Cursors[h] = [search |-> dhandles[h].search,
                      entries |-> dhandles[h].entries, at |-> dhandles[h].current]
    BY DEF Cursors
  <1>2. /\ dhandles[h].search \in Searches
        /\ dhandles[h].entries \in Counts /\ dhandles[h].current \in Counts
    BY DEF DirInv, TypeOK, Slot, SlotsInOrder
  <1>3. Cursors[h] \in [search : Searches, entries : 0 .. MaxEntries, at : 0 .. MaxEntries]
    BY <1>1, <1>2 DEF Counts
  <1> QED
    BY <1>1, <1>3, NullsAreNoValue

(* A step that keeps what the open handles show is a stutter.              *)
LEMMA CursorsKept ==
    ASSUME \A i \in Handles :
              /\ dhandles'[i].open = dhandles[i].open
              /\ dhandles[i].open =>
                    /\ dhandles'[i].search = dhandles[i].search
                    /\ dhandles'[i].entries = dhandles[i].entries
                    /\ dhandles'[i].current = dhandles[i].current
    PROVE  Cursors' = Cursors
  BY DEF Cursors

(* Taking a slot for a search that fails shows nothing: the slot and those *)
(* that lapsed were closed.                                                *)
LEMMA FailedTake ==
    ASSUME DirInv, NEW h \in Handles, NEW d, Take(h, d), ~ dhandles[h].open,
           d.open = FALSE
    PROVE  Cursors' = Cursors
  <1>1. \A i \in Handles : dhandles'[i] = IF i = h THEN d
                                           ELSE IF i \in Lapsed THEN Empty
                                           ELSE dhandles[i]
    BY DEF Take
  <1>2. \A i \in Lapsed : ~ dhandles[i].open
    BY DEF Lapsed
  <1>3. \A i \in Handles : dhandles[i].open \in BOOLEAN
    BY DEF DirInv, TypeOK, Slot
  <1>4. Empty.open = FALSE
    BY DEF Empty
  <1> QED
    BY <1>1, <1>2, <1>3, <1>4, CursorsKept

(* A slot taken for a search becomes a cursor at its first result.         *)
LEMMA TakeOpens ==
    ASSUME DirInv, NEW h \in Handles, NEW d \in Slot, Take(h, d), ~ dhandles[h].open,
           d.open, d.search \in Searches, d.current = 0
    PROVE  Promise!Open(h)
  <1>1. \A i \in Handles : dhandles'[i] = IF i = h THEN d
                                           ELSE IF i \in Lapsed THEN Empty
                                           ELSE dhandles[i]
    BY DEF Take
  <1>2. \A i \in Lapsed : ~ dhandles[i].open
    BY DEF Lapsed
  <1>3. \A i \in Handles \ {h} : Cursors'[i] = Cursors[i]
    BY <1>1, <1>2, EmptySlot DEF Cursors
  <1>4. Cursors'[h] = [search |-> d.search, entries |-> d.entries, at |-> 0]
    BY <1>1 DEF Cursors
  <1>5. Cursors[h] = NoCursor
    BY DEF Cursors
  <1>6. Cursors' = [Cursors EXCEPT ![h] =
                       [search |-> d.search, entries |-> d.entries, at |-> 0]]
    BY <1>3, <1>4 DEF Cursors
  <1>7. d.entries \in 0 .. MaxEntries
    BY DEF Slot, Counts
  <1> QED
    BY <1>5, <1>6, <1>7 DEF Promise!Open

(* Every way of opening a new slot opens a cursor: with a stream,          *)
LEMMA NewSlotOpens ==
    ASSUME DirInv, NEW s \in Searches, NEW h \in NewSlot,
           NEW f \in Streams, NEW left \in Counts, NEW entries \in Counts,
           \/ Take(h, [Fresh(h, s) EXCEPT !.handle = f, !.left = left, !.open = TRUE])
           \/ Take(h, [Fresh(h, s) EXCEPT !.handle = f, !.left = left, !.open = TRUE,
                          !.loaded = TRUE, !.entries = entries, !.current = 0])
    PROVE  Promise!Open(h)
  <1> DEFINE fresh == Fresh(h, s)
             streamed == [fresh EXCEPT !.handle = f, !.left = left, !.open = TRUE]
             read == [fresh EXCEPT !.handle = f, !.left = left, !.open = TRUE,
                         !.loaded = TRUE, !.entries = entries, !.current = 0]
  <1>1. h \in Handles /\ ~ dhandles[h].open
    BY NewSlotIsUnused DEF Unused
  <1>2. fresh \in Slot /\ fresh.search = s /\ fresh.current = 0
    BY FreshSlot
  <1>3. \E d \in {streamed, read} : Take(h, d)
    OBVIOUS
  <1> HIDE DEF fresh
  <1>4. \A d \in {streamed, read} :
           d \in Slot /\ d.open /\ d.search = s /\ d.current = 0
    BY <1>2, ZeroIsCount DEF Slot
  <1> HIDE DEF streamed, read
  <1> QED
    BY <1>1, <1>3, <1>4, TakeOpens

(* and without one.                                                        *)
LEMMA WalkOpens ==
    ASSUME DirInv, NEW s \in Searches, NEW h \in NewSlot, NEW entries \in Counts,
           Take(h, [Fresh(h, s) EXCEPT !.open = TRUE, !.loaded = TRUE,
                       !.entries = entries, !.current = 0])
    PROVE  Promise!Open(h)
  <1> DEFINE fresh == Fresh(h, s)
             walked == [fresh EXCEPT !.open = TRUE, !.loaded = TRUE,
                           !.entries = entries, !.current = 0]
  <1>1. h \in Handles /\ ~ dhandles[h].open
    BY NewSlotIsUnused DEF Unused
  <1>2. fresh \in Slot /\ fresh.search = s
    BY FreshSlot
  <1>3. Take(h, walked)
    OBVIOUS
  <1> HIDE DEF fresh
  <1>4. walked \in Slot /\ walked.open /\ walked.search = s /\ walked.current = 0
    BY <1>2, ZeroIsCount DEF Slot
  <1> HIDE DEF walked
  <1> QED
    BY <1>1, <1>3, <1>4, TakeOpens

(* OPENDIR opens a cursor or shows nothing;                                *)
LEMMA OpenDirShows ==
    ASSUME DirInv, NEW s \in Searches, OpenDir(s)
    PROVE  Promise!Next \/ Cursors' = Cursors
  <1>1. CASE NoSlot("opendir")
    BY <1>1 DEF NoSlot, Cursors
  <1>2. ASSUME NEW h \in NewSlot, OpenFails("opendir", h, s)
        PROVE  Cursors' = Cursors
    <2>1. Take(h, Fresh(h, s)) /\ Fresh(h, s).open = FALSE
      BY <1>2, FreshSlot DEF OpenFails, Slot
    <2>2. h \in Handles /\ ~ dhandles[h].open
      BY NewSlotIsUnused DEF Unused
    <2> QED
      BY <2>1, <2>2, FailedTake
  <1>3. ASSUME NEW h \in NewSlot, NEW f \in Streams, NEW left \in Counts,
               Take(h, [Fresh(h, s) EXCEPT !.handle = f, !.left = left, !.open = TRUE])
        PROVE  Promise!Next
    <2>1. Promise!Open(h)
      BY <1>3, ZeroIsCount, NewSlotOpens
    <2>2. h \in Handles
      BY NewSlotIsUnused DEF Unused
    <2> QED
      BY <2>1, <2>2 DEF Promise!Next
  <1> QED
    BY <1>1, <1>2, <1>3 DEF OpenDir

(* OPENDIRX opens a cursor too, takes one back to its first result, or     *)
(* takes them all away;                                                    *)
LEMMA OpenDirXShows ==
    ASSUME DirInv, NEW s \in Searches, NEW max \in Counts, OpenDirX(s, max)
    PROVE  Promise!Next \/ Cursors' = Cursors
  <1>1. ASSUME NEW h \in Cached(s), Reuse(h, max)
        PROVE  Promise!Next
    <2>1. h \in Handles /\ dhandles[h] \in Slot /\ dhandles[h].search = s
      BY DEF Cached, DirInv, TypeOK
    <2> DEFINE new == [dhandles[h] EXCEPT !.open = TRUE, !.current = 0]
    <2>2. Take(h, new)
      BY <1>1 DEF Reuse
    <2>3. /\ new \in Slot /\ new.open /\ new.search = s /\ new.current = 0
          /\ new.entries = dhandles[h].entries
      BY <2>1, ZeroIsCount DEF Slot
    <2> HIDE DEF new
    <2>4. CASE ~ dhandles[h].open
      <3>1. Promise!Open(h)
        BY <2>1, <2>2, <2>3, <2>4, TakeOpens
      <3> QED
        BY <2>1, <3>1 DEF Promise!Next
    <2>5. CASE dhandles[h].open
      <3>1. /\ Cursors[h] # NoCursor
            /\ Cursors[h] = [search |-> dhandles[h].search,
                             entries |-> dhandles[h].entries, at |-> dhandles[h].current]
        BY <2>1, <2>5, OpenIsCursor
      <3>2. \A i \in Handles : dhandles'[i] = IF i = h THEN new
                                               ELSE IF i \in Lapsed THEN Empty
                                               ELSE dhandles[i]
        BY <2>2 DEF Take
      <3>3. \A i \in Handles \ {h} : Cursors'[i] = Cursors[i]
        <4>1. \A i \in Lapsed : ~ dhandles[i].open
          BY DEF Lapsed
        <4> QED
          BY <3>2, <4>1, EmptySlot DEF Cursors
      <3>4. Cursors'[h] = [Cursors[h] EXCEPT !.at = 0]
        <4>1. Cursors'[h] = [search |-> new.search, entries |-> new.entries,
                             at |-> new.current]
          BY <2>1, <2>3, <3>2 DEF Cursors
        <4> QED
          BY <2>1, <2>3, <3>1, <4>1
      <3>5. Cursors' = [Cursors EXCEPT ![h] = [Cursors[h] EXCEPT !.at = 0]]
        BY <3>3, <3>4 DEF Cursors
      <3>6. Promise!Again(h)
        BY <3>1, <3>5 DEF Promise!Again
      <3> QED
        BY <2>1, <3>6 DEF Promise!Next
    <2> QED
      BY <2>4, <2>5
  <1>2. CASE NoSlot("opendirx")
    BY <1>2 DEF NoSlot, Cursors
  <1>3. ASSUME NEW h \in NewSlot, OpenFails("opendirx", h, s)
        PROVE  Cursors' = Cursors
    <2>1. Take(h, Fresh(h, s)) /\ Fresh(h, s).open = FALSE
      BY <1>3, FreshSlot DEF OpenFails, Slot
    <2>2. h \in Handles /\ ~ dhandles[h].open
      BY NewSlotIsUnused DEF Unused
    <2> QED
      BY <2>1, <2>2, FailedTake
  <1>4. ASSUME NEW h \in NewSlot, Load(h, s, max) \/ Traverse(h, s, max)
        PROVE  Promise!Next
    <2>1. Promise!Open(h)
      BY <1>4, NewSlotOpens, WalkOpens DEF Load, Traverse
    <2>2. h \in Handles
      BY NewSlotIsUnused DEF Unused
    <2> QED
      BY <2>1, <2>2 DEF Promise!Next
  <1>5. CASE Crash
    <2>1. \A h \in Handles : dhandles'[h].open = FALSE
      BY <1>5 DEF Crash, Empty
    <2>2. Cursors' = [h \in Handles |-> NoCursor]
      BY <2>1 DEF Cursors
    <2> QED
      BY <2>2 DEF Promise!Next, Promise!EndOfSession
  <1> QED
    BY <1>1, <1>2, <1>3, <1>4, <1>5, OpenDirXCases

(* What changes the position of a handle is a move of its cursor if the    *)
(* handle is open, and shows nothing if it is not.                         *)
LEMMA MoveShows ==
    ASSUME DirInv, NEW h \in Handles, NEW at \in 0 .. dhandles[h].entries,
           \A i \in Handles :
              /\ dhandles'[i].open = dhandles[i].open
              /\ dhandles'[i].search = dhandles[i].search
              /\ dhandles'[i].entries = dhandles[i].entries
              /\ dhandles'[i].current = IF i = h THEN at ELSE dhandles[i].current
    PROVE  Promise!Next \/ Cursors' = Cursors
  <1>1. CASE dhandles[h].open
    <2>1. /\ Cursors[h] # NoCursor
          /\ Cursors[h] = [search |-> dhandles[h].search,
                           entries |-> dhandles[h].entries, at |-> dhandles[h].current]
      BY <1>1, OpenIsCursor
    <2>2. Cursors'[h] = [Cursors[h] EXCEPT !.at = at]
      BY <1>1, <2>1 DEF Cursors
    <2>3. Cursors' = [Cursors EXCEPT ![h] = [Cursors[h] EXCEPT !.at = at]]
      BY <2>2 DEF Cursors
    <2>4. at \in 0 .. Cursors[h].entries
      BY <2>1
    <2>5. Promise!Move(h)
      BY <2>1, <2>3, <2>4 DEF Promise!Move
    <2> QED
      BY <2>5 DEF Promise!Next
  <1>2. CASE ~ dhandles[h].open
    BY <1>2, CursorsKept
  <1> QED
    BY <1>1, <1>2

(* READDIRX moves a cursor;                                                *)
LEMMA ReadDirXShows ==
    ASSUME DirInv, NEW h \in Handles, ReadDirX(h)
    PROVE  Promise!Next \/ Cursors' = Cursors
  <1>1. PICK at \in dhandles[h].current + 1 .. dhandles[h].entries :
           dhandles' = [dhandles EXCEPT ![h].current = at]
    BY DEF ReadDirX
  <1>2. dhandles[h] \in Slot
    BY DEF DirInv, TypeOK
  <1>3. at \in 0 .. dhandles[h].entries
    BY <1>2 DEF Slot, Counts
  <1>4. \A i \in Handles :
           /\ dhandles'[i].open = dhandles[i].open
           /\ dhandles'[i].search = dhandles[i].search
           /\ dhandles'[i].entries = dhandles[i].entries
           /\ dhandles'[i].current = IF i = h THEN at ELSE dhandles[i].current
    BY <1>1, <1>2 DEF DirInv, TypeOK, Slot
  <1> QED
    BY <1>3, <1>4, MoveShows

(* so does SEEKDIR;                                                       *)
LEMMA SeekDirShows ==
    ASSUME DirInv, NEW h \in Handles, SeekDir(h)
    PROVE  Promise!Next \/ Cursors' = Cursors
  <1>1. dhandles[h] \in Slot
    BY DEF DirInv, TypeOK
  <1>2. ASSUME NEW pos \in 0 .. dhandles[h].entries,
               dhandles' = [dhandles EXCEPT ![h].current = pos]
        PROVE  Promise!Next \/ Cursors' = Cursors
    <2>1. \A i \in Handles :
             /\ dhandles'[i].open = dhandles[i].open
             /\ dhandles'[i].search = dhandles[i].search
             /\ dhandles'[i].entries = dhandles[i].entries
             /\ dhandles'[i].current = IF i = h THEN pos ELSE dhandles[i].current
      BY <1>1, <1>2 DEF DirInv, TypeOK, Slot
    <2> QED
      BY <2>1, MoveShows
  <1>3. ASSUME NEW left \in Counts, dhandles' = [dhandles EXCEPT ![h].left = left]
        PROVE  Cursors' = Cursors
    <2>1. \A i \in Handles :
             /\ dhandles'[i].open = dhandles[i].open
             /\ dhandles'[i].search = dhandles[i].search
             /\ dhandles'[i].entries = dhandles[i].entries
             /\ dhandles'[i].current = dhandles[i].current
      BY <1>1, <1>3 DEF DirInv, TypeOK, Slot
    <2> QED
      BY <2>1, CursorsKept
  <1> QED
    BY <1>2, <1>3 DEF SeekDir

(* CLOSEDIR takes the cursor away, whether or not the results are kept;    *)
LEMMA CloseDirShows ==
    ASSUME DirInv, NEW h \in Handles, CloseDir(h)
    PROVE  Promise!Next
  <1>1. dhandles[h].open /\ Cursors[h] # NoCursor
    BY OpenIsCursor DEF CloseDir
  <1>2. \/ dhandles' = [dhandles EXCEPT ![h].open = FALSE]
        \/ dhandles' = [dhandles EXCEPT ![h].open = FALSE, ![h].handle = NoStream]
    BY DEF CloseDir
  <1>3. dhandles[h] \in Slot
    BY DEF DirInv, TypeOK
  <1>4. /\ dhandles'[h].open = FALSE
        /\ \A i \in Handles \ {h} : dhandles'[i] = dhandles[i]
    BY <1>2, <1>3 DEF DirInv, TypeOK, Slot
  <1>5. Cursors' = [Cursors EXCEPT ![h] = NoCursor]
    BY <1>4 DEF Cursors
  <1> QED
    BY <1>1, <1>5 DEF Promise!Next, Promise!Close

(* the end of the session takes them all;                                  *)
LEMMA FreeSessionShows ==
    ASSUME FreeSession
    PROVE  Promise!Next
  <1>1. \A h \in Handles : dhandles'[h].open = FALSE
    BY DEF FreeSession, Empty
  <1>2. Cursors' = [h \in Handles |-> NoCursor]
    BY <1>1 DEF Cursors
  <1> QED
    BY <1>2 DEF Promise!Next, Promise!EndOfSession

(* READDIR and the clock show nothing.                                     *)
LEMMA QuietStep ==
    ASSUME DirInv, (\E h \in Handles : ReadDir(h)) \/ Tick
    PROVE  Cursors' = Cursors
  <1>1. \A i \in Handles : dhandles[i] \in Slot
    BY DEF DirInv, TypeOK
  <1>2. ASSUME NEW i \in Handles
        PROVE  /\ dhandles'[i].open = dhandles[i].open
               /\ dhandles'[i].search = dhandles[i].search
               /\ dhandles'[i].entries = dhandles[i].entries
               /\ dhandles'[i].current = dhandles[i].current
    <2>1. \/ dhandles'[i] = dhandles[i]
          \/ dhandles'[i] = [dhandles[i] EXCEPT !.left = @ - 1]
          \/ dhandles'[i] = [dhandles[i] EXCEPT !.age = @ + 1]
      BY DEF ReadDir, Tick, DirInv, TypeOK
    <2> QED
      BY <1>1, <2>1 DEF Slot
  <1> QED
    BY <1>2, CursorsKept

(* Recycling, expiry, caching and reuse of slots never touch a handle that *)
(* its client has open, unless it opens the traversal under it again, and  *)
(* results are read from the start: the slots keep the promise of          *)
(* DirCursors (directory.c, all handlers).                                 *)
THEOREM SlotsImplementCursors == Spec => ImplementsCursors
  <1>1. Init => Promise!Init
    BY EmptySlot DEF Init, Promise!Init, Cursors
  <1>2. DirInv /\ [Next]_vars => [Promise!Next]_Cursors
    <2> SUFFICES ASSUME DirInv, [Next]_vars
                 PROVE  Promise!Next \/ Cursors' = Cursors
      OBVIOUS
    <2>1. CASE UNCHANGED vars
      BY <2>1 DEF vars, Cursors
    <2>2. CASE \E s \in Searches : OpenDir(s)
      BY <2>2, OpenDirShows
    <2>3. CASE \E s \in Searches, max \in Counts : OpenDirX(s, max)
      BY <2>3, OpenDirXShows
    <2>4. CASE \E h \in Handles : ReadDirX(h) \/ SeekDir(h) \/ CloseDir(h)
      BY <2>4, ReadDirXShows, SeekDirShows, CloseDirShows
    <2>5. CASE (\E h \in Handles : ReadDir(h)) \/ Tick
      BY <2>5, QuietStep
    <2>6. CASE FreeSession
      BY <2>6, FreeSessionShows
    <2> QED
      BY <2>1, <2>2, <2>3, <2>4, <2>5, <2>6 DEF Next
  <1> QED
    BY <1>1, <1>2, SlotInvariant, PTL DEF Spec, ImplementsCursors, Promise!Spec
=============================================================================
