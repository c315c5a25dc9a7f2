------------------------------ MODULE Listing ------------------------------
(***************************************************************************)
(* What OPENDIRX puts in the list of its slot, and what READDIRX, SEEKDIR  *)
(* and TELLDIR make of it: _load_directory() and the dirlist functions of  *)
(* directory.c, and _traverse_directory(). One slot, opened once; which    *)
(* slot an open takes is in DirHandles.                                    *)
(*                                                                         *)
(* A tree is the sequence of entries readdir() or nftw() gives, with what  *)
(* get_fileinfo() told of each; gone is one that it could not tell of. The *)
(* path of an entry begins at the directory opened, without a slash.       *)
(***************************************************************************)
EXTENDS Match, Integers

CONSTANTS
    Trees, Ignores, Requests,   \* what there is, lines of .ignore, what is asked
    NoRequest,
    Code, Caseless,             \* order of the characters, with and without case
    INT_LIMIT,                  \* 2^31
    COUNT_LIMIT,                \* 2^16
    READDIRX_HEADER_SIZE, READDIRX_ENTRY_SIZE, TNFS_MAX_PAYLOAD,
    Failing,                    \* bound: which requests may fail
    MaxCount                    \* bound: entries READDIRX asks for

VARIABLES
    tree, ignore,
    found,      \* _list_dirs and _list_files of traverse.c
    request,    \* the OPENDIRX that was served, or NoRequest
    list,       \* entry_list
    current,    \* how many entries are before current_entry: all of them for NULL
    reply       \* the last answer

vars == <<tree, ignore, found, request, list, current, reply>>

Entry == UNION {Range(t) : t \in Trees}

(* The tokens of a pattern.                                                *)
Token == {Star} \cup SUBSET DOMAIN Code

(* Sizes and times are unsigned 32-bit numbers, COUNT_LIMIT and INT_LIMIT  *)
(* the limits of counts of 16 bits and of an int; the number of results    *)
(* comes in 16 bits, too. Every entry fits in a reply that has no other,   *)
(* and has a name.                                                         *)
ASSUME ListingConstants ==
    /\ \A t \in Trees : t \in Seq(Entry)
    /\ \A e \in Entry :
          /\ e.path \in Seq(DOMAIN Code) /\ e.folder \in BOOLEAN
          /\ e.path # <<>> /\ e.path[Len(e.path)] # Slash
          /\ e.size \in 0 .. 2 * INT_LIMIT - 1 /\ e.mtime \in 0 .. 2 * INT_LIMIT - 1
          /\ READDIRX_HEADER_SIZE + READDIRX_ENTRY_SIZE + Len(e.path) <= TNFS_MAX_PAYLOAD
    /\ Code \in [DOMAIN Code -> Int] /\ Caseless \in [DOMAIN Code -> Int]
    /\ INT_LIMIT \in Nat \ {0} /\ COUNT_LIMIT \in Nat \ {0}
    /\ READDIRX_HEADER_SIZE \in Nat /\ READDIRX_ENTRY_SIZE \in Nat
    /\ TNFS_MAX_PAYLOAD \in Nat /\ MaxCount \in Nat
    /\ NoRequest \notin Requests
    /\ \A q \in Requests : q.maxresults \in 0 .. COUNT_LIMIT - 1 /\ q.pattern \in Seq(Token)
    /\ \A lines \in Ignores : \A p \in lines : p \in Seq(Token)

NoneFound == [dirs |-> <<>>, files |-> <<>>]

NoReply == [kind |-> "none"]

Init ==
    /\ tree \in Trees /\ ignore \in Ignores
    /\ found = NoneFound
    /\ request = NoRequest
    /\ list = <<>> /\ current = 0
    /\ reply = NoReply

-----------------------------------------------------------------------------
(* Which entries are taken                                                 *)

Has(q, option) == option \in q.diropts

FromRoot(e) == <<Slash>> \o e.path

Matching(e, q) ==
    IF Has(q, "TRAVERSE") THEN gitignore_glob_match(FromRoot(e), q.pattern)
    ELSE pattern_match(e.path, q.pattern)

Ignored(e, q) ==
    \E p \in ignore : \/ gitignore_glob_match(e.path, p)
                      \/ Has(q, "TRAVERSE") /\ gitignore_glob_match(FromRoot(e), p)

(* A pattern is for folders too if asked, and in a traversal unasked.      *)
Patterned(e, q) ==
    q.pattern # <<>> /\ (e.folder => Has(q, "DIR_PATTERN") \/ Has(q, "TRAVERSE"))

(* The options alone leave the entry out.                                  *)
Unasked(e, q) ==
    \/ e.hidden /\ ~ Has(q, "NO_SKIPHIDDEN")
    \/ e.special /\ ~ Has(q, "NO_SKIPSPECIAL")
    \/ e.folder /\ Has(q, "NO_FOLDERS")

(* A load sees the directory itself, a traversal all that is below it.     *)
Seen(e, q) == Has(q, "TRAVERSE") \/ Slash \notin Range(e.path)

Skipped(e, q) ==
    \/ ~ Seen(e, q)
    \/ e.gone
    \/ Patterned(e, q) /\ ~ Matching(e, q)
    \/ Ignored(e, q)
    \/ Unasked(e, q)

entrycount(lists) == (Len(lists.dirs) + Len(lists.files)) % COUNT_LIMIT

(* The loop has stopped at the number of results that was asked for.       *)
Stopped(lists, q) == q.maxresults > 0 /\ entrycount(lists) >= q.maxresults

(* One entry: dirlist_push() makes it the head of its list.                *)
Consider(lists, e, q) ==
    IF Stopped(lists, q) \/ Skipped(e, q) THEN lists
    ELSE IF e.folder /\ ~ Has(q, "NO_FOLDERSFIRST")
    THEN [lists EXCEPT !.dirs = <<e>> \o @]
    ELSE [lists EXCEPT !.files = <<e>> \o @]

(* Mutated form: a traversal goes on with the lists of the last one. *)
BeginFound(q) == IF Has(q, "TRAVERSE") THEN found ELSE NoneFound

Begin(q) == NoneFound

(* What is in the lists after the first n entries.                         *)
Found(q, n) ==
    LET lists[k \in 0 .. n] ==
            IF k = 0 THEN Begin(q) ELSE Consider(lists[k - 1], tree[k], q)
    IN  lists[n]

-----------------------------------------------------------------------------
(* Sorting                                                                 *)

(* strcmp() and strcasecmp()                                               *)
StrCmp(a, b, code) ==
    LET differ == {k \in DOMAIN a \cap DOMAIN b : code[a[k]] # code[b[k]]}
    IN  IF differ = {} THEN Len(a) - Len(b)
        ELSE code[a[Min(differ)]] - code[b[Min(differ)]]

(* Mutated form: the difference is taken without a sign. *)
int_unsigned(d) == d % (2 * INT_LIMIT)

(* The difference of two unsigned 32-bit numbers, in an int. Negating the  *)
(* least int is undefined: no instance has it with DESCENDING.             *)
int(d) == ((d + INT_LIMIT) % (2 * INT_LIMIT)) - INT_LIMIT

Order(l, r, sort) ==
    IF "SIZE" \in sort THEN int(l.size - r.size)
    ELSE IF "MODIFIED" \in sort THEN int(l.mtime - r.mtime)
    ELSE StrCmp(l.path, r.path, IF "CASE" \in sort THEN Code ELSE Caseless)

LeftFirst(l, r, sort) ==
    (IF "DESCENDING" \in sort THEN -1 ELSE 1) * Order(l, r, sort) < 0

(* Mutated form: what is left of the left half when the right one is used  *)
(* up is lost.                                                             *)
MergeLosing(left, right, sort) ==
    LET merge[p \in Seq(Entry) \X Seq(Entry)] ==
            IF p[1] = <<>> \/ p[2] = <<>> THEN p[2]
            ELSE IF LeftFirst(Head(p[1]), Head(p[2]), sort)
            THEN <<Head(p[1])>> \o merge[<<Tail(p[1]), p[2]>>]
            ELSE <<Head(p[2])>> \o merge[<<p[1], Tail(p[2])>>]
    IN  merge[<<left, right>>]

(* A round of the merge takes the first entry of one of the two halves.    *)
Merge(left, right, sort) ==
    LET merge[p \in Seq(Entry) \X Seq(Entry)] ==
            IF p[1] = <<>> THEN p[2]
            ELSE IF p[2] = <<>> THEN p[1]
            ELSE IF LeftFirst(Head(p[1]), Head(p[2]), sort)
            THEN <<Head(p[1])>> \o merge[<<Tail(p[1]), p[2]>>]
            ELSE <<Head(p[2])>> \o merge[<<p[1], Tail(p[2])>>]
    IN  merge[<<left, right>>]

(* The middle is the last node of the left half, the longer one.           *)
Middle(s) == (Len(s) + 1) \div 2

MergeSort(s, sort) ==
    LET mergesort[part \in Seq(Entry)] ==
            IF Len(part) <= 1 THEN part
            ELSE Merge(mergesort[SubSeq(part, 1, Middle(part))],
                       mergesort[SubSeq(part, Middle(part) + 1, Len(part))], sort)
    IN  mergesort[s]

Sorted(s, sort) == IF "NONE" \in sort THEN s ELSE MergeSort(s, sort)

-----------------------------------------------------------------------------
(* Requests                                                                *)

OpenX(q) ==
    /\ request = NoRequest
    /\ LET lists == Found(q, Len(tree))
       IN  /\ list' = Sorted(lists.dirs, q.sort) \o Sorted(lists.files, q.sort)
           /\ found' = IF Has(q, "TRAVERSE") THEN lists ELSE found
           /\ reply' = [kind |-> "opened", count |-> entrycount(lists)]
    /\ request' = q
    /\ current' = 0
    /\ UNCHANGED <<tree, ignore>>

(* opendir() fails, or nftw() after any number of entries: the lists of a  *)
(* traversal are left as they are, with what it had found.                 *)
OpenFails(q) ==
    /\ request = NoRequest
    /\ reply' = [kind |-> "error"]
    /\ IF Has(q, "TRAVERSE")
       THEN \E n \in 0 .. Len(tree) :
                ~ Stopped(Found(q, n), q) /\ found' = Found(q, n)
       ELSE UNCHANGED found
    /\ UNCHANGED <<tree, ignore, request, list, current>>

(* Mutated form: one entry more than were asked for. *)
EnoughAfter(sent, n) == n # 0 /\ sent > n

Enough(sent, n) == n # 0 /\ sent >= n

SizeOf(e) == READDIRX_ENTRY_SIZE + Len(e.path)

(* How many entries READDIRX sends: the loop has put in p[1] of them, and  *)
(* the reply has the size p[2].                                            *)
CountSent(n) ==
    LET count[p \in (0 .. Len(list) - current) \X Nat] ==
            IF current + p[1] = Len(list) \/ Enough(p[1], n) THEN p[1]
            ELSE LET total_size == p[2] + SizeOf(list[current + p[1] + 1])
                 IN  IF total_size > TNFS_MAX_PAYLOAD THEN p[1]
                     ELSE count[<<p[1] + 1, total_size>>]
    IN  count[<<0, READDIRX_HEADER_SIZE>>]

ReadX(n) ==
    /\ request # NoRequest
    /\ IF current = Len(list)
       THEN reply' = [kind |-> "eof"] /\ UNCHANGED current
       ELSE LET sent == CountSent(n)
            IN  /\ current' = current + sent
                /\ reply' = [kind |-> "entries", asked |-> n, from |-> current % COUNT_LIMIT,
                             entries |-> SubSeq(list, current + 1, current + sent),
                             eof |-> current + sent = Len(list)]
    /\ UNCHANGED <<tree, ignore, found, request, list>>

(* Mutated form: the number asked for is taken as it is. *)
NodeAtAny(index) == index

(* dirlist_get_node_at_index(): beyond the end there is none.              *)
NodeAt(index) == IF index < Len(list) THEN index ELSE Len(list)

(* An empty list is no list: what there is then is the DIR stream of a     *)
(* load, at its end, and nothing at all of a traversal.                    *)
WithoutList(kind) ==
    /\ list = <<>>
    /\ reply' = [kind |-> IF Has(request, "TRAVERSE") THEN "error" ELSE kind]
    /\ UNCHANGED current

SeekDir(index) ==
    /\ request # NoRequest
    /\ \/ WithoutList("stream moved")
       \/ /\ list # <<>>
          /\ current' = NodeAt(index)
          /\ reply' = [kind |-> "ok"]
    /\ UNCHANGED <<tree, ignore, found, request, list>>

TellDir ==
    /\ request # NoRequest
    /\ \/ WithoutList("stream told")
       \/ /\ list # <<>>
          /\ reply' = [kind |-> "told", at |-> current]
          /\ UNCHANGED current
    /\ UNCHANGED <<tree, ignore, found, request, list>>

Next ==
    \/ \E q \in Requests : OpenX(q)
    \/ \E q \in Failing : OpenFails(q)
    \/ \E n \in 0 .. MaxCount : ReadX(n)
    \/ \E index \in 0 .. Len(list) + 1 : SeekDir(index)
    \/ TellDir

Spec == Init /\ [][Next]_vars

-----------------------------------------------------------------------------
TypeOK ==
    /\ tree \in Trees /\ ignore \in Ignores
    /\ request \in Requests \cup {NoRequest}
    /\ Range(found.dirs) \cup Range(found.files) \cup Range(list) \subseteq Range(tree)
    /\ current \in 0 .. Len(list)

(* An entry that is asked for: of the kinds wanted, with a name that       *)
(* matches the pattern and no line of .ignore by what these mean and not   *)
(* by how they are matched.                                                *)
Wanted(e, q) ==
    /\ Seen(e, q) /\ ~ e.gone /\ ~ Unasked(e, q)
    /\ Patterned(e, q) => IF Has(q, "TRAVERSE") THEN MatchesPath(FromRoot(e), q.pattern)
                          ELSE MatchesWildcard(e.path, q.pattern)
    /\ \A p \in ignore : /\ ~ MatchesPath(e.path, p)
                         /\ Has(q, "TRAVERSE") => ~ MatchesPath(FromRoot(e), p)

(* All patterns have a meaning.                                            *)
Meaningful(q) ==
    /\ Has(q, "TRAVERSE") => WellFormed(q.pattern)
    /\ \A p \in ignore : WellFormed(p)

(* The wanted ones of the first n entries, and the first of them, as many  *)
(* as may be sent.                                                         *)
WantedAmong(q, n) == {k \in 1 .. n : Wanted(tree[k], q)}

FirstWanted(q, n) ==
    {k \in WantedAmong(q, n) :
        q.maxresults = 0 \/ Cardinality(WantedAmong(q, k)) <= q.maxresults}

(* If the patterns have a meaning, the list has the entries that are asked *)
(* for, each once, and no more than the number of results, the first ones  *)
(* the system gave. Nothing is left in it of a traversal that failed. The  *)
(* meaning is the code's own, which is not that of match.c:55 for two      *)
(* stars and a slash, nor that of tnfs-protocol.md:330 for the folders of  *)
(* a traversal: StarsAreDirectories and WildcardSparesFolders of MCListing *)
(* say what those two promise, and do not hold.                            *)
ListsWhatMatches ==
    request # NoRequest /\ Meaningful(request) =>
        LET listed == FirstWanted(request, Len(tree))
        IN  Len(list) = Cardinality(listed) /\ Range(list) = {tree[k] : k \in listed}

(* Folders come first unless asked otherwise, and both parts are in order. *)
(* Sizes and times 2^31 or more apart are left out: their difference has   *)
(* the wrong sign, and with them the list is in no order at all (see       *)
(* SizesInOrder of MCListing).                                             *)
InOrder(l, r, sort) ==
    LET size(e) == IF "DESCENDING" \in sort THEN - e.size ELSE e.size
        time(e) == IF "DESCENDING" \in sort THEN - e.mtime ELSE e.mtime
        code == IF "CASE" \in sort THEN Code ELSE Caseless
        first == IF "DESCENDING" \in sort THEN r.path ELSE l.path
        second == IF "DESCENDING" \in sort THEN l.path ELSE r.path
    IN  IF "SIZE" \in sort THEN size(l) <= size(r)
        ELSE IF "MODIFIED" \in sort THEN time(l) <= time(r)
        ELSE StrCmp(first, second, code) <= 0

Near == \A l, r \in Range(list) :
            l.size - r.size < INT_LIMIT /\ l.mtime - r.mtime < INT_LIMIT

ListsInOrder ==
    request # NoRequest =>
        \A i, j \in DOMAIN list : i < j =>
            LET apart == list[i].folder # list[j].folder /\ ~ Has(request, "NO_FOLDERSFIRST")
            IN  IF apart THEN list[i].folder
                ELSE Near /\ "NONE" \notin request.sort
                        => InOrder(list[i], list[j], request.sort)

(* The number OPENDIRX answers, counted before the lists were sorted and   *)
(* joined, is that of the entries READDIRX can give, as far as 16 bits go. *)
CountTold ==
    [][reply'.kind = "opened" => reply'.count = Len(list') % COUNT_LIMIT]_vars

(* The size of a reply with these entries.                                 *)
TotalSize(entries) ==
    LET total[k \in 0 .. Len(entries)] ==
            IF k = 0 THEN READDIRX_HEADER_SIZE ELSE total[k - 1] + SizeOf(entries[k])
    IN  total[Len(entries)]

(* READDIRX sends the entries that follow, in order and none twice: at     *)
(* least one while there are any, as many as were asked for unless the     *)
(* list ends or the next one does not fit, and it tells when that was all. *)
ReadsOn ==
    [][reply'.kind = "entries" =>
          LET sent == reply'.entries
          IN  /\ sent # <<>> /\ sent = SubSeq(list, current + 1, current + Len(sent))
              /\ current' = current + Len(sent)
              /\ TotalSize(sent) <= TNFS_MAX_PAYLOAD
              /\ reply'.eof <=> current' = Len(list)
              /\ reply'.asked # 0 => Len(sent) <= reply'.asked
              /\ \/ reply'.eof \/ Len(sent) = reply'.asked
                 \/ TotalSize(sent) + SizeOf(list[current' + 1]) > TNFS_MAX_PAYLOAD]_vars
=============================================================================
