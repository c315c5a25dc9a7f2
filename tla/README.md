# tnfsd in TLA+

Specifications, model-checking configurations and machine-checked proofs for
`tnfsd`, the TNFS daemon of this repository. Source paths below are relative to
the repository root.

Run everything in this directory:

    tlc -workers 2 -config MCSessions.cfg MCSessions.tla     # any MC module with any of its .cfg files
    tlapm Sessions_proofs.tla
    tlapm Server_proofs.tla
    tlapm Retransmit_proofs.tla
    tlapm DirHandles_proofs.tla
    tlapm AtariRead_proofs.tla
    tlapm OpenFiles_proofs.tla
    tlapm Match_proofs.tla
    tlapm Listing_proofs.tla

`PROJECT.json` lists the components, the runs with the properties they check, the
source lines each definition stands for, a mutated form of the code for every
property (the run must refute it), the findings, the hazards and the theorems.

## The system

`tnfsd` is one process with one thread. `tnfs_mainloop()` (src/datagram.c) waits
for events with a level-triggered backend and serves at most one datagram, one
new TCP connection and one message of each ready connection per pass. All
sockets are blocking. A request is decoded by `tnfs_decode()`, which finds its
session and calls one handler, to the end, before anything else runs. So there
are no data races; what is hard is the order in which passes, clients, the
kernel's descriptor numbers, time-outs and the stop signal come together, and
what the network does to a request that is retried, also when its session has
meanwhile become another's.

| Component | State | Operations | Interacts through | What makes it correct |
|---|---|---|---|---|
| Session table (src/session.c) | `slist[]`: identifier, client address, TCP descriptor, last contact, open files | mount, umount, sweep of expired sessions, teardown, reset of descriptors | called by decoding, by connection closing and by the loop | identifiers unique; no descriptor leaked or owned twice; a claim on a connection ends with it; one client never evicts another |
| Main loop and TCP connections (src/datagram.c) | `tcpsocks[]`, ready set, time of the last sweep, stop flag | close stale, sweep, wait, datagram, accept, message, shutdown | everything above; the kernel | never blocks on one client; starves nobody; drains its queues; stops when told; releases everything |
| Sequence numbers and resend (src/datagram.c) | per session: last number and last reply | decode, send, resend | the network; the session table, which gives identifiers out again | a call is executed at most once and gets its own answer, unless it strays into another client's session |
| Directory handles (src/directory.c) | `dhandles[]` per session: DIR stream, list of results, position, age, open and loaded flags | OPENDIR(X), READDIR(X), SEEKDIR, CLOSEDIR, expiry, eviction, reuse | session teardown | no stream leaked; caching and eviction never touch an open handle |
| Open files (src/tnfs_file.c) | `fd[]` and `atari_fd[]` per session | OPEN (old and new), CLOSE, READ, WRITE, LSEEK, STAT, UNLINK, RENAME, MKDIR, RMDIR | session teardown; the kernel's numbers; other writers of the same files | a handle is one view of one file with one position; STAT and OPEN agree; nothing of a closed file is left in its slot |
| Read-only mode (src/auth.c) | an option | a test of commands, a test of open flags | every request | a read-only server changes no file |
| Atari disk images (src/atari.c) | virtual position and size per file | read, seek | open files; the file on the disk | the image is header, boot program, file and padding, whatever the reads |
| Directory listings (src/directory.c, src/traverse.c, src/match.c) | lists of entries, of a slot and of the traversal module | load, traverse, filter, match, sort, READDIRX, SEEKDIR, TELLDIR | directory handles | what the pattern means, each entry once, in order, and sent without a gap |
| Paths, event lists, logging, start-up | | | | see "Not modelled" |

Hard behaviour: descriptor numbers that are reused at once; a ready set that is older
than the connections it names; two time-outs that must follow each other (a connection
shields its session); MOUNTs that free sessions and then fail; running out of
descriptors; a stop signal in the middle of a pass; lost, duplicated and late datagrams;
one byte of sequence number; identifiers given out again at once; cached directory
results; looking at a file, which can fail; files that shrink while they are read; what
a failed call leaves behind. `PROJECT.json` "hazards" has them with their lines.

## The modules

### SessionTable and Sessions

`SessionTable` has the two variables `slist` and `openfds` (the descriptors the
kernel has given the process) and one operator per function of src/session.c:

| TLA+ | code |
|---|---|
| `Expired` | `tnfs_session_expired()` |
| `Match`, `Limit`, `Scanned`, `LapsedSeen`, `Victim` | the scan of `tnfs_findsession_ipaddr()`: what it counts, where it stops, what it frees on the way, what it returns |
| `NewSids` | the recycled identifier, or `tnfs_newsid()` |
| `Allocate` | `tnfs_allocsession()`: lowest free slot |
| `MountOk`, `MountFails`, `MountNoRoot` | the ways `tnfs_mount()` ends |
| `FreeSessions` | `tnfs_freesession()` with the files it closes |
| `Contacted`, `MayUse` | what `tnfs_decode()` does to a session before the handler |
| `OpenFile`, `CloseFile`, `Serve`, `Umount` | the handlers, by their effect on the table |
| `Unbound` | `tnfs_reset_cli_fd_in_sessions()` |

`Sessions` closes it with the weakest caller: connections come and go, requests
arrive on any of them, time passes and the sweep runs at any point. A time stamp
is kept as an age, capped at the one threshold it is compared with.

### Server

`Server` is `tnfs_mainloop()` with `pc` at the call the pass makes next, and the
clients, the clock and the signal as actions that may happen between any two
calls. `tcpsocks`, `ready` and `scan` are the code's. A connection that
`tnfs_mark_tcp_dead()` marked has the age `Dead`. `Accept` takes any descriptor
that is not open, so the number of a connection closed earlier in the pass, or of
a file, can come back while `ready` still has it. `ImplementsSessions` says that
every step of the server is a step of `Sessions`: `Table == INSTANCE
Sessions_proofs WITH conns <- ConnFds` (the module of the proofs, so that its
theorems can be cited for the server). The refinement is checked on the instance and
proved for all constants, so what is proved of `Sessions` holds of the server.

### Calls and Retransmit

`Calls` is the promise: one call at a time, executed at most once, in order, and
answered with its own answer. `Retransmit` is the server's `tnfs_decode()`,
`tnfs_send()` and `tnfs_resend()` against the client src/tnfs-protocol.md
describes, over two channels that lose, duplicate and (constant `Reorder`)
reorder datagrams. Client and network are not in the repository and are marked
external. Messages carry the number of their call for the properties to speak
of; neither side reads it.

An identifier does not stay with its client. `MountSids` gives a client at its limit
the identifier of the session it recycles, and another client of the same address
(`NeighbourMount`) gets it the same way; a client of another address
(`StrangerMount`) gets one that is free. `Decode` then serves a request in whatever
session of its address has the identifier, with that session's number and stored
reply, and drops one whose session is of another address without an answer. So two
clients of one address can hold one session (`NeighbourUse`). A call that was decoded
in a session another client made or used has *strayed* (`strayed`), and `Calls`
promises less of it: it may be executed again, though never after a later call, and
may get another answer. That strays do happen is shown by the run `retransmit_shared` and
by `MCRetransmitTaken.cfg`. The number of a UMOUNT is the next one, or 0 as in the
protocol document (constant `UmountZero`).

### DirCursors and DirHandles

`DirCursors` is the promise: an open handle is a cursor that only its client moves and
closes. Its one exception is `Again`: an OPENDIRX of a traversal that is open gives the
same handle and takes it back to its first result, so two readers of one traversal share
a cursor. `DirHandles` is `dhandles[]` of one session, with
`_tnfs_find_free_dir_handle()` as `Lapsed`, `Cached`, `Vacant`, `NewSlot` and `Reused`,
`_tnfs_init_dhandle()` as `Fresh`, and one action per handler. A search stands for a
path with its pattern and options; the results are told apart by their number.
`Unfiltered` relates a traversal without a pattern to the same one with a pattern: where
a slot has the latter's results, the comparison reads a NULL pointer and the process
ends (`Crash`; the next process starts without sessions). `streams` is the set of DIR
streams the C library has open, kept apart from the slots that point to them so that a
leak shows. TELLDIR changes nothing and has no action.

### DiskImage and AtariRead

`DiskImage` is the promise to the client of a virtual disk image: a file of fixed
size whose byte at each position is given by one formula, read and sought like any
other. `AtariRead` is `atari_virtual_read()` with one action for each round of its
loop, by region (`FromHeader`, `FromBoot`, `FromFile`, `FromPadding`), the ways it
leaves the loop (`LoopEnds`, `FileEndsShort`, `FileFailsLate`, `FileFails`), and
`atari_virtual_lseek()`. A byte is known by where it comes from: a header byte, a
byte of the boot program or of the file with its place, or zero. The length noted
at the open is `real_file_size`; `disk` is the length now, which other programs
change between any two rounds.

### FileHandles and OpenFiles

`FileHandles` is the promise: a handle is a view (plain or image) of one file with
one position, moved only by what its client transfers and seeks. `OpenFiles` is one
session's `fd[]` and `atari_fd[]` with the handlers of src/tnfs_file.c over a small
file system: `dir` gives paths their files, `disk` gives files their length and
whether they begin with the two bytes of a binary. `fd[i]` has the kernel's side of
a descriptor (access, append, offset). Both kinds of OPEN are there with every
combination of flags; `Refuse` is any request that fails. Other sessions and
programs change files between requests (`OthersWrite`). A read of an image is one
action here, with the length `AtariRead` gives it; a read of an image that an I/O
error cuts is left to `AtariRead`. STAT and OPEN look at the file to see whether it is
a disk image; the `open()`, the `read()` and the `fstat()` of that may fail (`MaySee`),
and then the file passes for a plain one. The kernel's offset of a virtualized descriptor
is not kept: `atari_virtual_read()` seeks before every read.

### Match and Listing

`Match` has both matchers, translated as they are (the table of `_pattern_match()`,
the loop with two places to go back to of `gitignore_glob_match()`), and what
patterns mean, stated without any matching: the text can be cut into one piece per
place of the pattern (`Cuttable`). The meaning is the code's own: `**/` is any text,
and a traversal's pattern also sifts folders. Where the comments and the protocol
document mean something else, `MCListingGlobs.cfg` and `MCListingFolders.cfg` show the
difference. `Listing` is an OPENDIRX of one slot with and
without `TRAVERSE`, the merge sort, and READDIRX, SEEKDIR and TELLDIR on the list.
A tree is the sequence of entries `readdir()` or `nftw()` gives; `found` are the
globals of src/traverse.c that a failed traversal leaves filled. `current` is the
number of entries before `current_entry`.

## Runs

Passing runs:

| Run | Instance | Shows |
|---|---|---|
| sessions | 3 slots, 2 addresses, limit 2, 3 identifiers, 3 descriptors, time-out 1 | type, `UniqueSids`, `CliFdLive`, `OneOwner`, `PerIpLimit`, `EvictsOnlyOwnIp` |
| server | 2 sessions of one address (its limit), 2 connections, 2 descriptors | `NeverBlocks`, `ConnsDistinct`, `DeadNotServed`, `ReleasedAtExit`, `ImplementsSessions` |
| server_live | 1 session, 2 connections, 2 descriptors | `AbandonedReleased`, `BacklogDrained`, `StopCompletes`, `MessageReceived` |
| retransmit | one client, 2 identifiers, numbers modulo 3, 4 calls, 1 call given up in a row, 3 datagrams in flight each way | `ImplementsCalls` |
| retransmit_others | also a neighbour and a stranger, who act twice; numbers modulo 2, 3 calls, 2 datagrams | `ImplementsCalls`, `UmountCloses`, `CallsAnswered` |
| dirhandles | 2 slots, 2 streams, a search, a traversal with and without a pattern, up to 1 result | `StreamsOwned`, `EmfileWhenAllOpen`, `FreshResults`, `ImplementsCursors` |
| atari_read | image of 8 bytes: header 2, boot program 3 in sectors of 2, file up to 3 | `BufferIsSlice`, `ImplementsImage`, `ReadReturns` |
| openfiles | 2 slots, 2 paths, 1 file of up to 2 bytes, transfers of 1 byte, image of 3 | `VirtualIsReadOnly`, `ReadOnlyKeepsFiles`, `StatTellsSize`, `ImplementsHandles` |
| listing | trees of up to 3 of 7 entries, patterns of up to 3 places, every option, every order | `ListsWhatMatches`, `ListsInOrder`, `CountTold`, `ReadsOn` |

Each also checks the type invariant of its module, but for `server_live` and
`retransmit_others`, whose modules have it in another run.

What some of them do not cover: `EvictsOnlyOwnIp` compares the table around a MOUNT
that ends with a session, so what a MOUNT frees that fails in the end is not seen by
it. `MessageReceived` and the other liveness properties of the loop are about the
order of its calls; an `accept()`, `recvfrom()` or `send()` that blocks by itself is
outside them. The connection time-out is checked at its smallest values (the proofs
have any). The seeks of `openfiles` go one byte back or forth from each base.

Runs that refute what a document or comment of the repository says of the code
(`PROJECT.json` "findings" quotes each):

| Run | Refuted | Why |
|---|---|---|
| retransmit_shared | `ExecutedOnce`, with a neighbour | a recycled identifier is another client's at once |
| dir_max | `MaxResultsKept` | the limit is not compared when results are reused |
| dir_pattern | `EmptyPatternServed` | a cached pattern is compared with NULL |

These configurations refute more such statements; the comment before each property
quotes the statement. They are not among the runs of `PROJECT.json`:

| Configuration | Refuted | Why |
|---|---|---|
| MCSessionsOne.cfg | `PerIpLimit` with a limit of 1 (src/config.h:29) | the scan of src/session.c:320 never returns the first match |
| MCRetransmitReorder.cfg | `ExecutedOnce`, datagrams reordered (src/tnfs-protocol.md:112) | only the last number is stored (src/datagram.c:845) |
| MCRetransmitTaken.cfg | `EveryCallAnswered`, with a stranger (src/tnfs-protocol.md:125) | a request for another address's session is dropped (src/datagram.c:723) |
| MCRetransmitChmod.cfg | `EveryCallAnswered` | `tnfs_chmod()` is empty (src/tnfs_file.c:434) |
| MCRetransmitUmount.cfg | `UmountCloses`, UMOUNT numbered 0 (src/tnfs-protocol.md:211) | a MOUNT with the number 0 is the last request: the UMOUNT is answered with its reply |
| MCDirStale.cfg | `CachedNoLonger` (src/config.h:34) | an open traversal is reused at any age (src/directory.c:1432) |
| MCListingFolders.cfg | `WildcardSparesFolders` (src/tnfs-protocol.md:330) | a traversal always has `DIR_PATTERN` (src/traverse.c:173) |
| MCListingGlobs.cfg | `StarsAreDirectories` (src/match.c:55) | after `**/` the loop goes on at any character, so `**/b` matches `Ab` |
| MCListingSizes.cfg | `SizesInOrder` (src/tnfs-protocol.md:359) | sizes are compared by a 32-bit difference (src/directory.c:1254) |

Other differences were met while reading and have no configuration:

* A client at its limit gets the first match of the table recycled, which the log
  line at src/session.c:322 calls the oldest.
* `CONN_TIMEOUT` 0 closes idle connections at once, where src/config.h says none.
* A repeated MOUNT makes a second session: it is decoded before the number is
  looked at.
* READDIR on an OPENDIRX handle reads the exhausted DIR stream and not the results.
* STAT and OPEN disagree about a disk image when one of them fails to look at it, for
  want of a descriptor for instance: it takes the file for a plain one and tells the
  client nothing. `StatTellsSize` is about the requests that could both look.
* Times 2^31 seconds or more apart compare the wrong way round, like sizes.
  `ListsInOrder` is restricted to lists of values that are nearer.
* A pattern of a traversal with an inner slash and none in front is compared with a
  path that begins with a slash, and matches nothing unless it begins with a star.
* The limit of results keeps the first entries the system gives, before sorting;
  an unsorted list has them in reverse.
* The count OPENDIRX answers, and the position in a READDIRX reply, are modulo 2^16.
* Flags of entries that are no folders are not copied: a hidden file that was asked
  for is listed as if it were not hidden.
* A WRITE of no bytes is answered with whatever error number was there before.
* LSEEK to 2^31 or beyond moves, and answers an error or a wrapped position.
* A binary opened with `O_CREAT` is plain while STAT tells the size of an image.
* `event_select.c` takes descriptor 0 for a free place in its list, and counts a
  descriptor with only an exceptional condition as ready without reporting it.

### Bounds, and why they are enough

* Ages are capped just above the threshold they are compared with; no other
  difference of ages is observable.
* Two addresses tell "own" from "other"; a limit of two with three slots has
  recycling, a lapsed session on the way, and a full table. One identifier more
  than a client may hold makes a collision possible.
* `server`: two connections and two descriptors are what it takes for a number
  closed in one place to come back in another, or as a file, within a pass; two
  sessions may claim one connection, and a third MOUNT recycles.
  The connection time-out and the sweep interval are 0, so an idle unit of time
  makes both due; they stay two separate steps of a pass. `backlog` holds one
  waiting connection per address.
* `server_live`: the connections, or a connection and the session's file, take
  every descriptor, so `accept()` does run out. The session time-out is 1.
* `retransmit`: the number space wraps within the calls made, and repeated MOUNTs bring
  the address to its limit of 2, so that the client's own identifier is recycled.
  `MaxGiveUps` is at most `SEQ_MOD - 2`: a client that gives up on `SEQ_MOD - 1` calls
  in a row (255 with the code's byte) reuses the number of the last reply for another
  call, and then `ImplementsCalls` fails. `MaxNet` 3 holds a request, its duplicate and
  the next request.
* `retransmit_others`: with numbers modulo 2 those of two clients agree half of the
  time. Two moves let a neighbour mount and use the session it was given, or both
  others mount.
* `dirhandles`: two slots have eviction of one while the other is open; one result has
  a position before it and the end. The runs that refute have two results.
* `atari_read`: every region has a first, an inner and a last byte, the boot
  program does not fill its sectors, a file can be longer than the image has room
  for, and one read can cross all of it. LSEEK goes one past the image.
* `openfiles`: two slots on one file see each other's writes, also when it was renamed
  or unlinked between the opens; one path has an extension that keeps it plain. Lengths
  and positions up to 2 reach the end of the file, the boundary of the image's regions
  and the limit of a signed reply (`INT32_LIMIT` 2). The server with neither option is
  left out of the run, not of the proofs.
  `MCView` takes two states for one that differ only in the last answer, unless it
  was one of STAT: the requests look at no answer, and a step's own answer is checked
  at every step. Only a step that changes no handle and repeats the answer before it
  counts as no step.
* `listing`: three entries make the merge sort split twice and merge uneven halves;
  `COUNT_LIMIT` 3 wraps with the third entry, `INT_LIMIT` 3 has one pair of sizes
  too far apart (met in traversals; `MCListingSizes.cfg` sorts by
  size), and a reply has room for two of the shorter names. One kind of
  traversal may fail first (`Failing`). Patterns of three places have every mix of a
  star, two stars, a letter, a wildcard and a slash; two stars are placed as in
  .gitignore.

### Fairness

* `Server`: weak fairness of the loop's next step (the thread runs; no handler
  blocks, which is `NeverBlocks`) and of `Tick` (time passes). Nothing is assumed
  of clients. `AbandonedReleased` speaks of a session until its client uses it
  again.
* The reserve descriptor of `tcp_accept_drain_reserve()` is assumed to be
  reopened each time; nothing else runs between its close and its open.
* `Retransmit`: weak fairness of the client's retry and of both receivers; strong
  fairness of receiving the current request and an acceptable reply when they are
  first in the channel (a datagram sent again and again is not lost every time);
  sessions of the client that it does not use lapse; duplication ends. These are the
  network's and the client's part; of the server it takes only that it receives, and
  of other clients nothing: `CallsAnswered` leaves out a call while its identifier is
  a stranger's, or while others hold every identifier and it is a MOUNT (`Unheard`).
* `AtariRead`: weak fairness of the loop's next step, since the call runs to its
  end. Failures of the file are not under fairness.
* `Sessions`, `DirHandles`, `OpenFiles` and `Listing` have safety properties only.

## Proofs

`Sessions_proofs` proves of `Sessions`, for every number of slots, limit,
time-out, and every set of addresses, identifiers and descriptors:

* `TypeCorrect`: `Spec => []TypeOK`.
* `TableInvariant`: `Spec => []TableInv`, the inductive invariant. It is the
  conjunction of the type, `UniqueSids`, `CliFdLive` and `OneOwner`. They need each
  other: that a closed connection's number is not in some session's files, or that
  a freed session's files were its own alone, is `OneOwner`; that a slot holds a
  session with a known shape is the type.
* `SidsAreUnique`, `CliFdsAreLive`, `DescriptorsHaveOneOwner`: its parts.
* `EvictionIsOfOwnIp`: the action property `EvictsOnlyOwnIp`. A step that brings a
  new identifier is a MOUNT, and what it frees, victim or lapsed, is of its address.
* `SessionsPerIpLimited`: `Spec => []PerIpLimit` for `MAX_SESSIONS_PER_IP >= 2`
  (src/config.h has 16). The inductive form `IpLimit` counts with `Limit`, what the
  scan really allows; with a limit of 1 that is 2, which `MCSessionsOne.cfg` shows. The
  step is a count: a scan that frees nothing has seen fewer than `Limit` sessions of
  the address, or it found a victim.

`Server_proofs` proves of `Server`, for every number of places, sessions and
descriptors, every time-out and every set of clients:

* `ServerInvariant`: `Spec => []ServerInv`, the inductive invariant: the type, the
  table's own invariant (`Table!TableInv`), `ConnsDistinct`, `NeverBlocks`, and four
  facts about the pass: an empty place is all zeroes (`Places`); what the wait
  reported is still a connection when the datagram and the accept are done
  (`ReadyAreConns`, which is why `Accept` cannot put a fresh connection behind a
  stale bit); connections marked dead lie behind the scan (`DeadAreBehind`);
  connections are closed before sessions on the way out (`Leaving`). `TypeCorrect`,
  `ConnectionsAreDistinct` and `LoopNeverBlocks` are its parts, `NothingIsLeftOpen`
  follows from it, `DeadConnectionsAreLeftAlone` is an action property from it.
* `ServerImplementsSessions`: every call of the loop is one operation of `Sessions`
  or changes nothing there (`TableStep`). The invariant is needed in it: the table's
  operations are about connections that exist, which is `Places` and `ConnsDistinct`.
* `SessionsPromisesHold`, `ServerEvictsOnlyOwnIp`, `ServerLimitsSessionsPerIp`: the
  theorems of `Sessions_proofs`, carried over by the refinement.

`Retransmit_proofs` proves of `Retransmit`, for every modulus, set of sessions and
commands and every bound, and whatever other clients do:

* `TypeCorrect`: `Spec => []TypeOK`, on any network.
* `CallsInvariant`: `Spec => []CallsInv`, for a network that keeps the order
  (`~ Reorder`), a client that numbers UMOUNT like its other calls (`~ UmountZero`)
  and gives up at most `SEQ_MOD - 2` calls in a row (254 with the code's byte). The
  theorems below have the same hypotheses; the runs `retransmit` and
  `retransmit_others` satisfy them, the first with the last one at its limit. The
  invariant says that requests, replies, stored replies and executed calls are in the
  order of their calls (`InOrder`: nothing the server has done is later than anything
  still on its way to it); that what a session of the client has stored cannot be
  taken for a call still to come (`StoredIsFresh`); that an executed call that can
  come again finds its own reply stored, its session gone, or a session another
  client made or used (`RepeatIsKnown`); and the same of an answer on its way to its
  client (`AnswerIsStored`). `NumberTellsCalls` is the arithmetic: two calls less than
  the modulus apart with one number are the same call. All handlers that answer have
  one shape (`Answered`), so the invariant is shown once for them
  (`AnsweredKeepsInv`); what other clients do takes sessions from the client
  (`SessionsTaken`).
* `RetransmitImplementsCalls`: the refinement of `Calls`. An execution is new
  because of `RepeatIsKnown`, or it is a stray; the answer the client takes is that of
  its call because the calls in flight are fewer than the numbers.
* `UmountIsComplete` (`UmountCloses`); its two parts of the invariant are
  `UmountNotStored` and `UmountAnswered`.
* `CallsExecuteInOrder`: calls are executed in their order, and those executed twice
  are strays. `CallsExecuteOnce` (`ExecutedOnce`) follows when there are no other
  clients (`Others = {}`): then nothing strays.

`DirHandles_proofs` proves of `DirHandles`, for every number of slots, every
time-out and every set of searches and streams, all that the run `dirhandles`
checks:

* `SlotInvariant`: `Spec => []DirInv`, the inductive invariant: the type,
  `StreamsOwned` and `SlotsInOrder` (an unloaded slot has no results left over, a
  position is within its list, an open slot has a search). `TypeCorrect` and
  `StreamsHaveOneOwner` are its parts. A slot is taken in five places of the code;
  `TakeStep` says once what each of them must provide.
* `RefusedWhenAllOpen`: `Spec => []EmfileWhenAllOpen`. That a set of slots has a
  first one is the library's theorem about well-founded relations.
* `ResultsAreFresh` and `SlotsImplementCursors`: `FreshResults` (of an OPENDIRX that
  does not find its traversal open) and the refinement of `DirCursors`, for every
  client. The refinement goes action by action: every handler opens, moves, takes back
  or closes one cursor, ends them all, or shows nothing. `SlotsInOrder` is needed
  for an open slot to be a cursor at all.

`AtariRead_proofs` proves of `AtariRead`, for every size of header, boot program,
sector, image, file and request:

* `ReadInvariant`: `Spec => []ReadInv`, the inductive invariant: the type,
  `BufferIsSlice`, and what the locals of a call in progress are to each other (the
  position moved by the length of the buffer, the count went down by it, the end of
  the image is not passed). `TypeCorrect` and `BufferIsImage` are its parts: the
  buffer is at each round the slice of the image from the position on.
* `ReadsImplementImage`: the refinement of `DiskImage`. A round of the loop is a
  stutter, and leaving the loop is the read, because of the invariant.

`OpenFiles_proofs` proves of `OpenFiles`, for any number of slots, files and paths
and every size:

* `FilesInvariant`: `Spec => []FilesInv`, the inductive invariant: the type,
  `VirtualIsReadOnly`, and that a slot that is not virtualized has no disk image
  data at all, which the code never says but every OPEN relies on: it leaves the
  data of a plain file's slot as they are.
* `TypeCorrect` and `ImagesAreReadOnly`: its parts. `ReadOnlyServer`: an action
  property, by the request that makes the step.
* `StatAgreesWithOpen`: what STAT answered is what the next request, an OPEN to read,
  gives, if both saw the file. The invariant `SizeTold` keeps the answer of STAT true
  of the file until the next request; other programs' writes end that, and say so by
  the answer they leave.
* `SlotsImplementHandles`: the refinement of `FileHandles`, request by request.

`Match_proofs` proves of the two matchers, for texts and patterns of any length:

* `WildcardsAreMatched`: `pattern_match` is `MatchesWildcard`. Each entry of the table
  tells whether the text can be cut that far (`LookMeans`); the step is that the last
  piece can be added or taken away (`LastPiece`).
* `GlobsAreMatched`: `GlobLoop` is `MatchesGlob`, for a pattern that has a meaning
  (`WellFormed`) and a text that is not empty and does not end with a slash. The loop
  keeps one place to go back to after a star and one after two stars, and forgets the
  earlier ones. The argument is over ways to cut the text (`Ways`; `WaysAreCuts` says
  that they are the cuts of `MatchesGlob`):
  * The invariant `GlobAt`: any way that is left can be changed into one that takes
    the present place, as late as it likes, or one that gives more to the last star.
    So when the last star can take no more without a slash, no way begins at this
    folder (`GlobNoWay`); and after two stars what was before them does not matter
    (`GlobNewFolders`), since the rest may begin at any folder to come.
  * Each round keeps the invariant and the answer (`GlobRounds`), and where the loop
    ends it answers right (`GlobEnds`).
  * Each round also goes up in an order of five bounded ranks (`GlobUp`): the place of
    the two stars in the pattern, then in the text, then the star the present place
    came from, how far that one reaches, and the place in the pattern. Of the states
    with a wrong answer, if there were any, there would be a highest one
    (`GreatestInOrder`), and the loop would end there, with the right answer
    (`GlobTells`). That a function is what the loop's recursion says is shown for
    loops in general, whether they end or not (`LoopHasResult`).
* `PathsAreMatched`: `gitignore_glob_match` is `MatchesPath`, with the same hypotheses.
  Taking off the first slash and all but the last name keeps them.

`Listing_proofs` proves of `Listing`, for directories, lists and texts of any length,
every order of the characters and every size of a reply:

* `TypeCorrect`: `Spec => []TypeOK`. That a list is one of entries of the directory
  needs what the search finds (`FoundType`) and that sorting keeps the entries.
* `ListsAreWhatMatches`: `Spec => []ListsWhatMatches`. An entry is skipped just when it
  is not wanted (`SkippedOrWanted`, from the two theorems on matching). The lists of
  the search are after k entries the first of the wanted ones among them, all of them
  while there is room for more (`Means`, kept by `ConsiderMeans`); the loop stops just
  when there is none (`StopsWhenFull`). Here it matters that the number of results
  asked for has 16 bits, as the counter has. Sort and join keep entries and number.
* `ListsAreInOrder`: `Spec => []ListsInOrder`. The merge of two lists in an order is
  in that order (`MergeInOrder`), so the merge sort puts every list in order
  (`SortInOrder`), for any order the comparison decides. That it does decide the one
  asked for is `OrderDecided`: `strcmp()` is transitive and changes its sign with its
  arguments (`CompareTransitive`, `CompareSwapped`), and a 32-bit difference of near
  values has its sign (`SignedDifference`). Here `Near` is needed.
* `CountsAreTold`: the action property `CountTold`. The count of OPENDIRX is made while
  searching; the merge and the sort keep the number of entries of any list.
* `ReadsGoOn`: the action property `ReadsOn`. From a place of its loop READDIRX sends
  as many entries as fit and are asked for (`CountIsRight`), and the first always
  fits.

The matchers, the sort, the search and the loop of READDIRX are recursive functions.
The library's theorems about recursion and induction take operators as parameters; the
section "Recursion" of `Match_proofs` states what is needed of them with sets and
functions instead and proves it from the least element of a set of numbers:
`MeasureInduction`, and `MeasureRecursion`, that a function whose value at each
argument is made from its values at smaller ones exists. Each function is shown once
to satisfy its own definition (`MergeEquation`, `SortEquation`, `TotalEquation`,
`CountEquation`, `LookEquation`, `FindingType`).

The assumptions are the named ASSUMEs of the modules (bounds are naturals; the null
values are not values; an image has room for its boot program; an entry fits in a reply
that has no other and has a path that does not end with a slash; a star is no set of
characters; the number of results asked for has 16 bits). Lemmas say what each table
operation does to the parts; the step theorems split on the disjuncts of `Next`.

Only model-checked:

* Liveness under fairness (`AbandonedReleased`, `BacklogDrained`, `StopCompletes`,
  `MessageReceived`, `CallsAnswered`, `ReadReturns`): the prover has no rules for
  ENABLED.
* The repository's own claims that fail (the runs that expect a violation, and the
  further configurations).
* Patterns without a meaning: a `**` next to other characters, or a set of characters
  with a slash in it. Of these nothing is claimed; the matcher treats some of them in
  its own way.

## Not modelled

* Parsing of .ignore files, truncation of long names, the attributes an entry has:
  `Listing` starts from patterns and entries. (READDIR after OPENDIR applies no
  .ignore rules.)
* Paths and the served root: `realpath()` and the file system decide most of it.
* `event_select.c`, `event_kqueue.c`: only what the loop sees of them. The list of
  descriptors in `event_select.c` is two loops over an array.
* Contents of files and replies; SIZE and FREE, which ask the file system and change
  nothing; CHMOD, which is empty (`MCRetransmitChmod.cfg`).
* Start-up, the command line, byte order and the table of error numbers: they run
  before the loop, or are tables.
* `tnfsd_stop()` runs `tnfs_sockclose()` in a signal handler; the model has it as one
  action between two calls of the loop.
* The build option `TNFS_DIR_EXT`, Windows, zip files, statistics, logging.

## Plan

Done: `SessionTable`, `Sessions`, `Sessions_proofs`, `Server`, `Server_proofs`, `Calls`,
`Retransmit`, `Retransmit_proofs`, `DirCursors`, `DirHandles`, `DirHandles_proofs`,
`DiskImage`, `AtariRead`, `AtariRead_proofs`, `FileHandles`, `OpenFiles`,
`OpenFiles_proofs`, `Match`, `Match_proofs`, `Listing`, `Listing_proofs`.

What is left: `EventList` (the list of the `select` backend implements a set of
descriptors other than 0), and directory handles inside the session table, so that
teardown and descriptor exhaustion meet. Every invariant and action property the
passing runs check is proved.
