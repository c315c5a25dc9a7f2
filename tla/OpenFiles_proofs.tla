--------------------------- MODULE OpenFiles_proofs ---------------------------
(***************************************************************************)
(* For every number of slots, paths, files and sizes: what OpenFiles keeps *)
(* about disk image data and read-only servers, and that its slots are the *)
(* file handles of FileHandles.                                            *)
(***************************************************************************)
EXTENDS OpenFiles, TLAPS

(* A file that is not virtualized has no disk image data: what CLOSE does  *)
(* not clear on a server without disk images is clear already.             *)
PlainHasNoMeta == \A i \in Slots : ~ atari_fd[i].is_atari_binary => atari_fd[i] = NoMeta

FilesInv == TypeOK /\ VirtualIsReadOnly /\ PlainHasNoMeta

-----------------------------------------------------------------------------
(* What the operators of the module return.                                *)

(* The sizes are numbers, and no file is nothing.                          *)
LEMMA Sizes ==
    /\ {MAX_FD_PER_CONN, MAX_IOSZ, ATR_TOTAL_SIZE, boot_end, MaxLen, MaxPosition} \subseteq Nat
    /\ INT32_LIMIT \in Nat \ {0}
    /\ Folder \notin Inodes /\ NoFile \notin Files
    /\ Folder \in Files /\ Inodes \subseteq Files
    /\ Empty \in Contents /\ Empty.len = 0 /\ ~ Empty.binary
    /\ NoMeta \in Meta
BY OpenFilesAssumption DEF Files, Contents, Empty, NoMeta, Meta

(* The smaller of two sizes.                                               *)
LEMMA MinSize ==
    ASSUME NEW a \in Nat, NEW b \in Nat
    PROVE  min_size(a, b) \in Nat /\ min_size(a, b) <= a /\ min_size(a, b) <= b
BY DEF min_size

(* An open slot, in the terms of the invariant.                            *)
LEMMA OpenSlot ==
    ASSUME FilesInv, NEW i \in Slots, fd[i] # NoFile
    PROVE  /\ fd[i] \in OpenFile /\ atari_fd[i] \in Meta
           /\ disk[fd[i].file] \in Contents
           /\ disk[fd[i].file].len \in 0 .. MaxLen
BY DEF FilesInv, TypeOK, OpenFile, Meta, Contents

(* What an OPEN gets is a file.                                            *)
LEMMA OpenedFiles ==
    ASSUME TypeOK, NEW name \in Names, NEW flags \in Flags, NEW file \in Opened(name, flags)
    PROVE  file \in Files
BY Sizes DEF TypeOK, Opened, Unused

(* A read of a plain file gives all there is from its offset on.           *)
LEMMA PlainLenReads ==
    ASSUME FilesInv, NEW i \in Slots, fd[i] # NoFile, NEW n \in Nat
    PROVE  /\ PlainLen(i, n) \in 0 .. n
           /\ PlainLen(i, n) = n \/ fd[i].offset + PlainLen(i, n) >= disk[fd[i].file].len
           /\ PlainLen(i, n) = 0 \/ fd[i].offset + PlainLen(i, n) <= disk[fd[i].file].len
<1>1. fd[i].offset \in Nat /\ disk[fd[i].file].len \in Nat
  BY OpenSlot, Sizes DEF OpenFile
<1> QED
  BY <1>1 DEF PlainLen, min_size

(* Replies are told apart by their kind.                                   *)
LEMMA ReplyKinds ==
    /\ Handles!Error.kind = "error" /\ Handles!NoReply.kind = "none"
    /\ \A n : Handles!Ok(n).kind = "ok" /\ Handles!Moved(n).kind = "moved"
    /\ \A h, seen : Handles!Handle(h, seen).kind = "handle"
    /\ \A view, from, asked, len : Handles!Data(view, from, asked, len).kind = "data"
BY DEF Handles!Error, Handles!NoReply, Handles!Ok, Handles!Moved, Handles!Handle, Handles!Data

(* A set of the numbers from 0 that begins somewhere has a smallest one.   *)
LEMMA SmallestOfInterval ==
    ASSUME NEW w \in Nat, NEW a \in Int, NEW b \in Int, NEW c \in Int,
           NEW S, S = {k \in 0 .. w - 1 : c + k \in a .. b}, S # {}
    PROVE  Min(S) \in S
<1>1. PICK k \in S : TRUE
  OBVIOUS
<1>2. k \in 0 .. w - 1 /\ a <= c + k /\ c + k <= b
  BY <1>1
<1> DEFINE m == IF a - c > 0 THEN a - c ELSE 0
<1>3. m \in S /\ \A y \in S : m =< y
  BY <1>2
<1> QED
  BY <1>3 DEF Min

(* A read of an image gives all there is from its position on, up to the   *)
(* first byte that its file does not have any more.                        *)
LEMMA ImageLenReads ==
    ASSUME FilesInv, NEW i \in Slots, fd[i] # NoFile, NEW n \in Nat
    PROVE  LET at == atari_fd[i].virtual_position
               len == ImageLen(i, n)
           IN  /\ len \in 0 .. n
               /\ \/ /\ len = n \/ at + len >= ATR_TOTAL_SIZE
                     /\ len = 0 \/ at + len <= ATR_TOTAL_SIZE
                  \/ at + len - boot_end \in disk[fd[i].file].len
                                             .. atari_fd[i].real_file_size - 1
<1> DEFINE at == atari_fd[i].virtual_position
           wanted == IF at >= ATR_TOTAL_SIZE THEN 0 ELSE min_size(n, ATR_TOTAL_SIZE - at)
           from == disk[fd[i].file].len
           to == atari_fd[i].real_file_size - 1
           lost == {k \in 0 .. wanted - 1 : at + k - boot_end \in from .. to}
<1>1. at \in Nat /\ from \in Nat /\ to \in Int /\ ATR_TOTAL_SIZE \in Nat /\ boot_end \in Nat
  BY OpenSlot, Sizes DEF Meta
<1>2. /\ wanted \in 0 .. n
      /\ wanted = n \/ at + wanted >= ATR_TOTAL_SIZE
      /\ wanted = 0 \/ at + wanted <= ATR_TOTAL_SIZE
  BY <1>1 DEF min_size
<1>3. ImageLen(i, n) = IF lost = {} THEN wanted ELSE Min(lost)
  BY DEF ImageLen
<1>4. CASE lost = {}
  BY <1>2, <1>3, <1>4
<1>5. CASE lost # {}
  <2> HIDE DEF wanted, from, to, at
  <2>1. lost = {k \in 0 .. wanted - 1 : (at - boot_end) + k \in from .. to}
    <3>1. \A k \in 0 .. wanted - 1 : at + k - boot_end = (at - boot_end) + k
      BY <1>1, <1>2
    <3> QED
      BY <3>1
  <2> HIDE DEF lost
  <2>2. Min(lost) \in lost
    BY <1>1, <1>2, <1>5, <2>1, SmallestOfInterval
  <2>3. Min(lost) \in 0 .. wanted - 1 /\ at + Min(lost) - boot_end \in from .. to
    BY <2>2 DEF lost
  <2>4. ImageLen(i, n) = Min(lost)
    BY <1>3, <1>5
  <2> HIDE DEF lost
  <2>5. ImageLen(i, n) \in 0 .. n
    BY <1>2, <2>3, <2>4
  <2> QED
    BY <2>3, <2>4, <2>5 DEF at, from, to
<1> QED
  BY <1>4, <1>5

-----------------------------------------------------------------------------
(* The invariant holds at first and every step keeps it.                   *)

(* The invariant holds at the start.                                       *)
LEMMA InitInv == Init => FilesInv
<1> SUFFICES ASSUME Init PROVE FilesInv
  OBVIOUS
<1>1. options \in Options
  <2>1. PICK o \in Options : read_only = o[1] /\ atari_enabled = o[2]
    BY DEF Init
  <2>2. o = <<o[1], o[2]>>
    BY OpenFilesAssumption
  <2> QED
    BY <2>1, <2>2 DEF options
<1>2. TypeOK
  BY <1>1, Sizes DEF Init, TypeOK, Files, Meta
<1>3. VirtualIsReadOnly /\ PlainHasNoMeta
  BY DEF Init, VirtualIsReadOnly, PlainHasNoMeta, NoMeta
<1> QED
  BY <1>2, <1>3 DEF FilesInv

(* Steps that leave the slots alone.                                       *)
LEMMA TreeStep ==
    ASSUME FilesInv, UNCHANGED <<options, slots>>,
           dir' \in [Names -> Files \cup {NoFile}], disk' \in [Files -> Contents]
    PROVE  FilesInv'
BY DEF FilesInv, TypeOK, VirtualIsReadOnly, PlainHasNoMeta, options, slots, Slots, Files

(* Steps that change what is in one slot, and leave it in order.           *)
LEMMA SlotStep ==
    ASSUME FilesInv, UNCHANGED options, NEW i \in Slots,
           dir' \in [Names -> Files \cup {NoFile}], disk' \in [Files -> Contents],
           NEW f \in OpenFile \cup {NoFile}, NEW m \in Meta,
           fd' = [fd EXCEPT ![i] = f], atari_fd' = [atari_fd EXCEPT ![i] = m],
           ~ m.is_atari_binary => m = NoMeta,
           f = NoFile => m = NoMeta,
           m.is_atari_binary => /\ atari_enabled
                                /\ f.access = "r" /\ ~ f.append /\ f.file # Folder
    PROVE  FilesInv'
<1>1. TypeOK'
  BY DEF FilesInv, TypeOK, options, OpenFile, Meta, Slots, Files
<1>2. \A j \in Slots : /\ fd'[j] = IF j = i THEN f ELSE fd[j]
                       /\ atari_fd'[j] = IF j = i THEN m ELSE atari_fd[j]
  BY DEF FilesInv, TypeOK
<1>3. VirtualIsReadOnly'
  BY <1>2 DEF FilesInv, VirtualIsReadOnly, options, Slots
<1>4. PlainHasNoMeta'
  BY <1>2 DEF FilesInv, PlainHasNoMeta, Slots
<1> QED
  BY <1>1, <1>3, <1>4 DEF FilesInv

(* An OPEN that takes slot i keeps the invariant.                          *)
LEMMA OpenAtStep ==
    ASSUME FilesInv, NEW name \in Names, NEW flags \in Flags, NEW i \in Slots,
           fd[i] = NoFile, NEW file \in Opened(name, flags), NEW seen \in BOOLEAN,
           OpenAt(i, name, flags, file, seen)
    PROVE  FilesInv'
<1> DEFINE content == IF flags.trunc \/ dir[name] = NoFile THEN Empty ELSE disk[file]
           f == [file |-> file, access |-> AccessOf(flags), append |-> flags.append,
                 offset |-> 0]
           marked == [is_atari_binary |-> TRUE, virtual_position |-> 0,
                      real_file_size |-> content.len]
           m == IF ShouldVirtualize(name, file, content, flags, seen) THEN marked ELSE NoMeta
<1>1. file \in Files
  BY OpenedFiles DEF FilesInv
<1>2. content \in Contents
  BY <1>1, Sizes DEF FilesInv, TypeOK
<1>3. f \in OpenFile
  BY <1>1 DEF OpenFile, AccessOf, Access, Flags
<1>4. m \in Meta /\ (~ m.is_atari_binary => m = NoMeta)
  BY <1>2, Sizes DEF Meta, Contents, NoMeta
<1>5. atari_fd[i] = NoMeta /\ atari_fd = [atari_fd EXCEPT ![i] = NoMeta]
  BY DEF FilesInv, VirtualIsReadOnly, TypeOK
<1>6. atari_fd' = [atari_fd EXCEPT ![i] = m] /\ fd' = [fd EXCEPT ![i] = f]
  BY <1>5 DEF OpenAt
<1>7. dir' \in [Names -> Files \cup {NoFile}] /\ disk' \in [Files -> Contents]
  BY <1>1, <1>2 DEF FilesInv, TypeOK, OpenAt
<1>8. m.is_atari_binary => /\ atari_enabled
                           /\ f.access = "r" /\ ~ f.append /\ f.file # Folder
  BY DEF ShouldVirtualize, LooksAt, NoMeta
<1>9. f # NoFile
  BY <1>3, NoFileAssumption
<1>10. UNCHANGED options
  BY DEF OpenAt
<1> HIDE DEF f, m, content
<1> QED
  BY <1>3, <1>4, <1>6, <1>7, <1>8, <1>9, <1>10, SlotStep

(* A position of an open slot moves, of the image or of the file.          *)
LEMMA PositionStep ==
    ASSUME FilesInv, UNCHANGED <<options, dir>>, disk' \in [Files -> Contents],
           NEW i \in Slots, fd[i] # NoFile, NEW p \in Nat,
           \/ /\ atari_fd[i].is_atari_binary
              /\ fd' = fd /\ atari_fd' = [atari_fd EXCEPT ![i].virtual_position = p]
           \/ fd' = [fd EXCEPT ![i].offset = p] /\ atari_fd' = atari_fd
    PROVE  FilesInv'
<1> DEFINE f == fd'[i]
           m == atari_fd'[i]
<1>1. /\ fd[i] \in OpenFile /\ atari_fd[i] \in Meta
      /\ fd \in [Slots -> OpenFile \cup {NoFile}] /\ atari_fd \in [Slots -> Meta]
  BY OpenSlot DEF FilesInv, TypeOK
<1>2. f \in OpenFile /\ m \in Meta
  BY <1>1 DEF OpenFile, Meta
<1>3. fd' = [fd EXCEPT ![i] = f] /\ atari_fd' = [atari_fd EXCEPT ![i] = m]
  BY <1>1
<1>4. /\ m.is_atari_binary = atari_fd[i].is_atari_binary
      /\ ~ m.is_atari_binary => m = atari_fd[i]
      /\ f.access = fd[i].access /\ f.append = fd[i].append /\ f.file = fd[i].file
  BY <1>1 DEF OpenFile, Meta
<1>5. /\ ~ m.is_atari_binary => m = NoMeta
      /\ m.is_atari_binary => /\ atari_enabled
                              /\ f.access = "r" /\ ~ f.append /\ f.file # Folder
  BY <1>4 DEF FilesInv, VirtualIsReadOnly, PlainHasNoMeta
<1>6. f # NoFile
  BY <1>2, NoFileAssumption
<1>7. dir' \in [Names -> Files \cup {NoFile}] /\ UNCHANGED options
  BY DEF FilesInv, TypeOK
<1> HIDE DEF f, m
<1> QED
  BY <1>2, <1>3, <1>5, <1>6, <1>7, SlotStep

(* A READ keeps it.                                                        *)
LEMMA ReadStep ==
    ASSUME FilesInv, NEW i \in Slots, NEW n \in 0 .. MAX_IOSZ, Read(i, n)
    PROVE  FilesInv'
<1>1. n \in Nat /\ fd[i] # NoFile /\ fd[i] \in OpenFile /\ atari_fd[i] \in Meta
  BY Sizes, OpenSlot DEF Read
<1>2. ImageLen(i, n) \in Nat /\ PlainLen(i, n) \in Nat
  BY <1>1, ImageLenReads, PlainLenReads
<1>3. /\ atari_fd[i].virtual_position + ImageLen(i, n) \in Nat
      /\ fd[i].offset + PlainLen(i, n) \in Nat
  BY <1>1, <1>2 DEF OpenFile, Meta
<1>4. UNCHANGED <<options, dir>> /\ disk' \in [Files -> Contents]
  BY DEF Read, tree, FilesInv, TypeOK
<1>5. CASE atari_fd[i].is_atari_binary
  BY <1>1, <1>3, <1>4, <1>5, PositionStep DEF Read
<1>6. CASE ~ atari_fd[i].is_atari_binary
  BY <1>1, <1>3, <1>4, <1>6, PositionStep DEF Read
<1> QED
  BY <1>5, <1>6

(* A WRITE keeps it.                                                       *)
LEMMA WriteStep ==
    ASSUME FilesInv, NEW i \in Slots, NEW claimed \in Nat, NEW sent \in Nat,
           Write(i, claimed, sent)
    PROVE  FilesInv'
<1> DEFINE start == IF fd[i].append THEN disk[fd[i].file].len ELSE fd[i].offset
           wanted == min_size(min_size(claimed, sent), MAX_IOSZ)
           n == IF start >= MaxLen THEN 0 ELSE min_size(wanted, MaxLen - start)
<1>1. /\ fd[i] # NoFile /\ fd[i] \in OpenFile
      /\ disk[fd[i].file].len \in Nat
  BY Sizes, OpenSlot DEF Write
<1>2. start \in Nat /\ wanted \in Nat /\ n \in Nat /\ start + n \in Nat
  BY <1>1, Sizes DEF OpenFile, min_size
<1>3. disk' \in [Files -> Contents]
  BY DEF Write, Written, FilesInv, TypeOK
<1>4. UNCHANGED <<options, dir, atari_fd>> /\ fd' = [fd EXCEPT ![i].offset = start + n]
  BY DEF Write
<1> HIDE DEF start, n
<1> QED
  BY <1>1, <1>2, <1>3, <1>4, PositionStep

(* An LSEEK keeps it.                                                      *)
LEMMA LseekStep ==
    ASSUME FilesInv, NEW i \in Slots, NEW p \in Int, Lseek(i, p)
    PROVE  FilesInv'
<1>1. fd[i] # NoFile /\ UNCHANGED <<options, dir, disk>> /\ disk' \in [Files -> Contents]
  BY DEF Lseek, tree, FilesInv, TypeOK
<1>2. CASE ~ InFile(p)
  BY <1>1, <1>2, TreeStep DEF Lseek, FilesInv, TypeOK
<1>3. CASE InFile(p)
  BY <1>1, <1>3, PositionStep DEF Lseek, InFile
<1> QED
  BY <1>2, <1>3

(* A CLOSE keeps it.                                                       *)
LEMMA CloseStep ==
    ASSUME FilesInv, NEW i \in Slots, Close(i)
    PROVE  FilesInv'
<1>1. atari_fd' = [atari_fd EXCEPT ![i] = NoMeta]
  <2>1. CASE atari_enabled
    BY <2>1 DEF Close, atari_clear_fd
  <2>2. CASE ~ atari_enabled
    BY <2>2 DEF Close, atari_clear_fd, FilesInv, TypeOK, VirtualIsReadOnly, PlainHasNoMeta
  <2> QED
    BY <2>1, <2>2
<1>2. fd' = [fd EXCEPT ![i] = NoFile] /\ UNCHANGED <<options, dir, disk>>
  BY DEF Close, tree
<1>3. dir' \in [Names -> Files \cup {NoFile}] /\ disk' \in [Files -> Contents]
  BY <1>2 DEF FilesInv, TypeOK
<1>4. ~ NoMeta.is_atari_binary
  BY DEF NoMeta
<1> QED
  BY <1>1, <1>2, <1>3, <1>4, Sizes, SlotStep

(* The end of the session keeps it.                                        *)
LEMMA EndOfSessionStep ==
    ASSUME FilesInv, EndOfSession
    PROVE  FilesInv'
<1>1. TypeOK'
  BY Sizes DEF FilesInv, TypeOK, EndOfSession, options, tree, Slots, Files
<1>2. VirtualIsReadOnly' /\ PlainHasNoMeta'
  BY DEF EndOfSession, VirtualIsReadOnly, PlainHasNoMeta, NoMeta, Slots
<1> QED
  BY <1>1, <1>2 DEF FilesInv

(* Requests on paths leave the slots alone.                                *)
LEMMA PathStep ==
    ASSUME FilesInv, NEW name \in Names, NEW to \in Names,
           Unlink(name) \/ Mkdir(name) \/ Rmdir(name) \/ Stat(name) \/ Rename(name, to)
    PROVE  FilesInv'
<1>1. UNCHANGED <<options, slots>>
  BY DEF Unlink, Mkdir, Rmdir, Stat, Rename, Done
<1>2. dir' \in [Names -> Files \cup {NoFile}]
  BY Sizes DEF Unlink, Mkdir, Rmdir, Stat, Rename, tree, FilesInv, TypeOK
<1>3. disk' \in [Files -> Contents]
  BY DEF Unlink, Mkdir, Rmdir, Stat, Rename, Done, tree, FilesInv, TypeOK
<1> QED
  BY <1>1, <1>2, <1>3, TreeStep

(* Every request, and what others write, keeps the invariant.              *)
LEMMA NextInv == FilesInv /\ [Next]_vars => FilesInv'
<1> SUFFICES ASSUME FilesInv, [Next]_vars
             PROVE  FilesInv'
  OBVIOUS
<1>1. ASSUME NEW i \in Slots, SlotRequest(i)
      PROVE  FilesInv'
  <2>1. ASSUME NEW n \in 0 .. MAX_IOSZ, Read(i, n)
        PROVE  FilesInv'
    BY <2>1, ReadStep
  <2>2. ASSUME NEW claimed \in 0 .. MAX_IOSZ + 1, NEW sent \in 1 .. MAX_IOSZ + 1,
               Write(i, claimed, sent)
        PROVE  FilesInv'
    BY <2>2, Sizes, WriteStep
  <2>3. ASSUME fd[i] # NoFile, NEW base \in Bases(i), NEW offset \in -1 .. 1,
               Lseek(i, base + offset)
        PROVE  FilesInv'
    <3>1. base \in Int
      BY <2>3, OpenSlot, Sizes DEF Bases, OpenFile, Meta
    <3> QED
      BY <2>3, <3>1, LseekStep
  <2>4. CASE Close(i)
    BY <2>4, CloseStep
  <2> QED
    BY <1>1, <2>1, <2>2, <2>3, <2>4 DEF SlotRequest
<1>2. ASSUME NEW name \in Names, PathRequest(name)
      PROVE  FilesInv'
  <2>1. ASSUME NEW flags \in Flags, Open(name, flags)
        PROVE  FilesInv'
    BY <2>1, OpenAtStep DEF Open, FirstFree, MaySee
  <2>2. ASSUME NEW flags \in Flags, OpenDeprecated(name, flags)
        PROVE  FilesInv'
    <3>1. [flags EXCEPT !.mode = 0] \in Flags
      BY DEF Flags
    <3> QED
      BY <2>1, <2>2, <3>1 DEF OpenDeprecated
  <2>3. CASE Unlink(name) \/ Mkdir(name) \/ Rmdir(name) \/ Stat(name)
    BY <2>3, PathStep
  <2>4. ASSUME NEW to \in Names, Rename(name, to)
        PROVE  FilesInv'
    BY <2>4, PathStep
  <2> QED
    BY <1>2, <2>1, <2>2, <2>3, <2>4 DEF PathRequest
<1>3. CASE Refuse
  BY <1>3, TreeStep DEF Refuse, tree, FilesInv, TypeOK
<1>4. CASE EndOfSession
  BY <1>4, EndOfSessionStep
<1>5. CASE OthersWrite
  <2>1. disk' \in [Files -> Contents]
    BY <1>5 DEF OthersWrite, FilesInv, TypeOK
  <2> QED
    BY <1>5, <2>1, TreeStep DEF OthersWrite, FilesInv, TypeOK
<1>6. CASE UNCHANGED vars
  BY <1>6, TreeStep DEF vars, options, slots, FilesInv, TypeOK
<1> QED
  BY <1>1, <1>2, <1>3, <1>4, <1>5, <1>6 DEF Next

(* The invariant holds in every state of every behaviour of tnfs_file.c.   *)
THEOREM FilesInvariant == Spec => []FilesInv
<1> QED
  BY InitInv, NextInv, PTL DEF Spec

(* Slots, disk image data and the file system keep their types.            *)
THEOREM TypeCorrect == Spec => []TypeOK
<1>1. FilesInv => TypeOK
  BY DEF FilesInv
<1> QED
  BY <1>1, FilesInvariant, PTL

(* Disk image data belong to a file open for reading in their slot: CLOSE, *)
(* the end of a session and a later OPEN leave none behind.                *)
THEOREM ImagesAreReadOnly == Spec => []VirtualIsReadOnly
<1>1. FilesInv => VirtualIsReadOnly
  BY DEF FilesInv
<1> QED
  BY <1>1, FilesInvariant, PTL

-----------------------------------------------------------------------------
(* What OPEN does on the path it is given.                                 *)

(* An OPEN that neither makes nor cuts a file takes the one there is.      *)
LEMMA ReadOnlyOpen ==
    ASSUME FilesInv, NEW name \in Names, NEW flags \in Flags, NEW i \in Slots,
           NEW file \in Opened(name, flags), NEW seen \in BOOLEAN,
           OpenAt(i, name, flags, file, seen), ~ flags.creat, ~ flags.trunc
    PROVE  /\ dir[name] # NoFile /\ file = dir[name]
           /\ UNCHANGED tree
           /\ fd' = [fd EXCEPT ![i] = [file |-> file, access |-> AccessOf(flags),
                                       append |-> flags.append, offset |-> 0]]
           /\ atari_fd' = IF ShouldVirtualize(name, file, disk[file], flags, seen)
                          THEN [atari_fd EXCEPT ![i] =
                                  [is_atari_binary |-> TRUE, virtual_position |-> 0,
                                   real_file_size |-> disk[file].len]]
                          ELSE atari_fd
<1>1. dir[name] # NoFile /\ file = dir[name]
  BY DEF Opened
<1>2. file \in Files
  BY OpenedFiles DEF FilesInv
<1>3. dir' = dir /\ disk' = disk
  BY <1>1, <1>2 DEF OpenAt, FilesInv, TypeOK
<1> QED
  BY <1>1, <1>3 DEF OpenAt, tree

(* No request to a read-only server changes the tree.                      *)
LEMMA ReadOnlyStep ==
    ASSUME FilesInv, [Next]_vars, read_only, reply' # Handles!NoReply
    PROVE  UNCHANGED tree
<1>1. ASSUME NEW i \in Slots, SlotRequest(i)
      PROVE  UNCHANGED tree
  BY <1>1 DEF SlotRequest, Read, Write, Lseek, Close, is_cmd_allowed, RW_CMDS
<1>2. ASSUME NEW name \in Names, PathRequest(name)
      PROVE  UNCHANGED tree
  <2>1. ASSUME NEW flags \in Flags, Open(name, flags)
        PROVE  UNCHANGED tree
    BY <2>1, ReadOnlyOpen DEF Open, is_open_allowed, MaySee
  <2>2. ASSUME NEW flags \in Flags, OpenDeprecated(name, flags)
        PROVE  UNCHANGED tree
    <3>1. [flags EXCEPT !.mode = 0] \in Flags
      BY DEF Flags
    <3> QED
      BY <2>1, <2>2, <3>1 DEF OpenDeprecated
  <2> QED
    BY <1>2, <2>1, <2>2
    DEF PathRequest, Unlink, Mkdir, Rmdir, Stat, Rename, is_cmd_allowed, RW_CMDS
<1> QED
  BY <1>1, <1>2 DEF Next, Refuse, EndOfSession, OthersWrite, vars, tree

(* A read-only server changes no file and no directory for any client.     *)
THEOREM ReadOnlyServer == Spec => ReadOnlyKeepsFiles
<1>1. FilesInv /\ [Next]_vars => [read_only /\ reply' # Handles!NoReply => UNCHANGED tree]_vars
  BY ReadOnlyStep
<1> QED
  BY <1>1, FilesInvariant, PTL DEF Spec, ReadOnlyKeepsFiles

(* The flags of an OPEN that only reads.                                   *)
LEMMA ReadingFlags ==
    ASSUME NEW flags \in ToRead
    PROVE  /\ flags \in Flags /\ ~ flags.creat /\ ~ flags.trunc /\ ~ flags.append
           /\ AccessOf(flags) = "r"
<1>1. {0, 1} \subseteq 0 .. 3 /\ {FALSE} \subseteq BOOLEAN
  OBVIOUS
<1>2. flags \in Flags
  BY <1>1, Zenon DEF ToRead, Flags
<1>3. /\ flags.mode \in {0, 1}
      /\ flags.append = FALSE /\ flags.creat = FALSE /\ flags.trunc = FALSE
  BY Zenon DEF ToRead
<1>4. AccessOf(flags) = "r"
  BY <1>3 DEF AccessOf
<1> QED
  BY <1>2, <1>3, <1>4

(* A STAT that saw the file was the last request: nothing has changed the  *)
(* file since.                                                             *)
SizeTold ==
    reply.kind = "size" /\ reply.seen
       => reply.path \in Names /\ reply.size = StatSize(reply.path, TRUE)

(* The answers of the other requests are of other kinds.                   *)
LEMMA OtherReplies ==
    ASSUME Next, ~ \E name \in Names : Stat(name)
    PROVE  reply'.kind # "size"
<1>1. ASSUME NEW i \in Slots, SlotRequest(i)
      PROVE  reply'.kind # "size"
  BY <1>1, ReplyKinds DEF SlotRequest, Read, Write, Lseek, Told, Close
<1>2. ASSUME NEW name \in Names, PathRequest(name), ~ Stat(name)
      PROVE  reply'.kind # "size"
  <2>1. ASSUME NEW flags, Open(name, flags)
        PROVE  reply'.kind # "size"
    BY <2>1, ReplyKinds DEF Open, OpenAt
  <2>2. CASE \E flags \in Flags : Open(name, flags) \/ OpenDeprecated(name, flags)
    BY <2>1, <2>2, Zenon DEF OpenDeprecated
  <2>3. CASE Unlink(name) \/ Mkdir(name) \/ Rmdir(name) \/ \E to \in Names : Rename(name, to)
    BY <2>3, ReplyKinds DEF Unlink, Mkdir, Rmdir, Rename, Done
  <2> QED
    BY <1>2, <2>2, <2>3, Zenon DEF PathRequest
<1> QED
  BY <1>1, <1>2, ReplyKinds DEF Next, Refuse, EndOfSession, OthersWrite

(* STAT tells the size of the file as it stays.                            *)
LEMMA SizeToldStep == SizeTold /\ [Next]_vars => SizeTold'
<1> SUFFICES ASSUME SizeTold, [Next]_vars PROVE SizeTold'
  OBVIOUS
<1>1. ASSUME NEW name \in Names, Stat(name)
      PROVE  SizeTold'
  <2>1. PICK seen \in BOOLEAN : reply' = SizeReply(name, StatSize(name, seen), seen)
    BY <1>1 DEF Stat, MaySee
  <2>2. StatSize(name, TRUE)' = StatSize(name, TRUE)
    BY <1>1 DEF Stat, StatSize, ShouldVirtualize, LooksAt, options, tree
  <2>3. reply'.path = name /\ reply'.seen = seen /\ reply'.size = StatSize(name, seen)
    BY <2>1 DEF SizeReply
  <2>4. ASSUME seen PROVE reply'.size = StatSize(name, TRUE)'
    <3>1. seen = TRUE
      BY <2>4
    <3> QED
      BY <2>2, <2>3, <3>1
  <2>5. StatSize(reply.path, TRUE)' = StatSize(name, TRUE)'
    BY <2>3 DEF StatSize, ShouldVirtualize
  <2> QED
    BY <2>3, <2>4, <2>5 DEF SizeTold
<1>2. CASE UNCHANGED vars
  BY <1>2 DEF SizeTold, StatSize, ShouldVirtualize, LooksAt, vars, options, tree
<1>3. CASE Next /\ ~ \E name \in Names : Stat(name)
  BY <1>3, OtherReplies DEF SizeTold
<1> QED
  BY <1>1, <1>2, <1>3

(* What an OPEN that reads gets is what a STAT that saw the file tells of  *)
(* it, when the OPEN sees the file too.                                    *)
LEMMA SizeStep ==
    ASSUME FilesInv, NEW i \in Slots, NEW name \in Names, OpenedToRead(i, name), reply'.seen
    PROVE  SizeOf(i)' = StatSize(name, TRUE)
<1>0. PICK flags \in ToRead : Open(name, flags)
  BY DEF OpenedToRead
<1>1. /\ flags \in Flags /\ ~ flags.creat /\ ~ flags.trunc /\ ~ flags.append
      /\ AccessOf(flags) = "r"
  BY ReadingFlags
<1>2. PICK j \in Slots, file \in Opened(name, flags), seen \in BOOLEAN :
         OpenAt(j, name, flags, file, seen)
  BY <1>0 DEF Open, MaySee
<1>3. seen = TRUE
  BY <1>2 DEF OpenAt, Handles!Handle
<1> DEFINE virtual == ShouldVirtualize(name, file, disk[file], flags, TRUE)
<1>4. /\ file = dir[name] /\ file \in Files /\ disk' = disk
      /\ fd' = [fd EXCEPT ![j] = [file |-> file, access |-> AccessOf(flags),
                                  append |-> flags.append, offset |-> 0]]
      /\ atari_fd' = IF virtual
                     THEN [atari_fd EXCEPT ![j] =
                             [is_atari_binary |-> TRUE, virtual_position |-> 0,
                              real_file_size |-> disk[file].len]]
                     ELSE atari_fd
  BY <1>1, <1>2, <1>3, ReadOnlyOpen, OpenedFiles DEF FilesInv, tree
<1>5. i = j /\ fd'[i].file = file /\ atari_fd[i] = NoMeta
  BY <1>4 DEF OpenedToRead, FilesInv, TypeOK, VirtualIsReadOnly
<1>6. atari_fd'[i].is_atari_binary <=> virtual
  <2>1. atari_fd \in [Slots -> Meta] /\ ~ NoMeta.is_atari_binary
    BY DEF FilesInv, TypeOK, NoMeta
  <2> HIDE DEF virtual
  <2>2. CASE virtual
    BY <1>4, <1>5, <2>1, <2>2
  <2>3. CASE ~ virtual
    BY <1>4, <1>5, <2>1, <2>3
  <2> QED
    BY <2>2, <2>3
<1>7. virtual <=> \E g \in ToRead :
                     ShouldVirtualize(name, dir[name], disk[dir[name]], g, TRUE)
  <2>1. \A g \in ToRead : AccessOf(g) = "r" /\ ~ g.creat /\ ~ g.append
    BY ReadingFlags
  <2> QED
    BY <1>1, <1>4, <2>1 DEF ShouldVirtualize, LooksAt
<1>8. StatSize(name, TRUE) = IF virtual THEN ATR_TOTAL_SIZE ELSE disk[file].len
  BY <1>4, <1>7, Zenon DEF StatSize
<1> HIDE DEF virtual
<1>9. SizeOf(i)' = IF virtual THEN ATR_TOTAL_SIZE ELSE disk[file].len
  BY <1>4, <1>5, <1>6 DEF SizeOf
<1> QED
  BY <1>8, <1>9

(* STAT and OPEN agree on which files are disk images, when both see the   *)
(* file.                                                                   *)
THEOREM StatAgreesWithOpen == Spec => StatTellsSize
<1>1. Init => SizeTold
  BY ReplyKinds DEF Init, SizeTold
<1>2. Spec => []SizeTold
  BY <1>1, SizeToldStep, PTL DEF Spec
<1>3. FilesInv /\ SizeTold /\ [Next]_vars =>
        [\A i \in Slots :
            reply.kind = "size" /\ reply.seen /\ OpenedToRead(i, reply.path) /\ reply'.seen
               => SizeOf(i)' = reply.size]_vars
  BY SizeStep DEF SizeTold
<1> QED
  BY <1>2, <1>3, FilesInvariant, PTL DEF Spec, StatTellsSize

-----------------------------------------------------------------------------
(* The slots are the handles of FileHandles.                               *)

handle == [i \in Slots |-> View(i)]

(* The view of a slot with a file.                                         *)
LEMMA Viewed ==
    ASSUME FilesInv, NEW i \in Slots, fd[i] # NoFile
    PROVE  /\ View(i) = [file |-> fd[i].file,
                         view |-> IF atari_fd[i].is_atari_binary THEN "image" ELSE "plain",
                         size |-> atari_fd[i].real_file_size,
                         at |-> IF atari_fd[i].is_atari_binary
                                THEN atari_fd[i].virtual_position ELSE fd[i].offset]
           /\ View(i) \in Views /\ View(i) # NoFile
<1>1. fd[i] \in OpenFile /\ atari_fd[i] \in Meta
  BY OpenSlot
<1> QED
  BY <1>1, NoFileAssumption DEF View, Views, OpenFile, Meta

(* Steps that leave every slot as it is and do not answer with data.       *)
LEMMA OtherStep ==
    ASSUME UNCHANGED slots, reply'.kind \in {"ok", "size", "error", "none"}
    PROVE  Handles!Next
<1>1. UNCHANGED handle
  BY DEF slots, handle, View, Slots
<1> QED
  BY <1>1 DEF handle, Handles!Next, Handles!Other

(* What changes of one slot only, changes of one handle only.              *)
LEMMA OneHandle ==
    ASSUME FilesInv, NEW i \in Slots,
           \A j \in Slots \ {i} : fd'[j] = fd[j] /\ atari_fd'[j] = atari_fd[j]
    PROVE  handle' = [handle EXCEPT ![i] = View(i)']
<1>1. \A j \in Slots \ {i} : View(j)' = View(j)
  BY DEF View
<1>2. Slots' = Slots
  BY DEF Slots
<1> QED
  BY <1>1, <1>2, Zenon DEF handle

(* An OPEN opens a handle.                                                 *)
LEMMA OpenHandle ==
    ASSUME FilesInv, NEW name \in Names, NEW flags \in Flags, NEW i \in Slots,
           fd[i] = NoFile, NEW file \in Opened(name, flags), NEW seen \in BOOLEAN,
           OpenAt(i, name, flags, file, seen)
    PROVE  Handles!Next
<1> DEFINE content == IF flags.trunc \/ dir[name] = NoFile THEN Empty ELSE disk[file]
           virtual == ShouldVirtualize(name, file, content, flags, seen)
           view == IF virtual THEN "image" ELSE "plain"
           v == [file |-> file, view |-> view, at |-> 0,
                 size |-> IF view = "image" THEN disk'[file].len ELSE 0]
<1>1. file \in Files /\ DOMAIN disk = Files /\ disk'[file] = content
  BY OpenedFiles DEF FilesInv, TypeOK, OpenAt
<1>2. atari_fd[i] = NoMeta /\ atari_fd \in [Slots -> Meta] /\ DOMAIN fd = Slots
  BY DEF FilesInv, TypeOK, VirtualIsReadOnly
<1>3. FilesInv'
  BY OpenAtStep
<1>4. fd'[i] = [file |-> file, access |-> AccessOf(flags), append |-> flags.append,
                offset |-> 0]
  BY <1>2 DEF OpenAt
<1>5. atari_fd'[i] = IF virtual
                     THEN [is_atari_binary |-> TRUE, virtual_position |-> 0,
                           real_file_size |-> content.len]
                     ELSE NoMeta
  BY <1>2 DEF OpenAt
<1>6. fd'[i] # NoFile
  <2>1. fd'[i] \in OpenFile
    BY <1>1, <1>4 DEF OpenFile, AccessOf, Access, Flags
  <2> QED
    BY <2>1, NoFileAssumption
<1>7. View(i)' = v
  <2> HIDE DEF virtual, content
  <2> QED
    BY <1>1, <1>4, <1>5, <1>6 DEF View, NoMeta
<1>8. handle' = [handle EXCEPT ![i] = v]
  <2>1. \A j \in Slots \ {i} : fd'[j] = fd[j] /\ atari_fd'[j] = atari_fd[j]
    BY <1>2 DEF OpenAt
  <2> HIDE DEF v
  <2> QED
    BY <2>1, <1>7, OneHandle
<1>9. handle[i] = NoFile /\ reply' = Handles!Handle(i, seen)
  BY DEF handle, View, OpenAt
<1>10. view \in {"plain", "image"}
  OBVIOUS
<1> HIDE DEF view
<1>11. Handles!Open(i)
  BY <1>1, <1>8, <1>9, <1>10 DEF handle, Handles!Open
<1> QED
  BY <1>11 DEF Handles!Next

(* A READ reads from a handle.                                             *)
LEMMA ReadHandle ==
    ASSUME FilesInv, NEW i \in Slots, NEW n \in 0 .. MAX_IOSZ, Read(i, n)
    PROVE  Handles!Next
<1> DEFINE image == atari_fd[i].is_atari_binary
           len == IF image THEN ImageLen(i, n) ELSE PlainLen(i, n)
           v == View(i)
<1>1. n \in Nat /\ fd[i] # NoFile /\ fd[i] \in OpenFile /\ atari_fd[i] \in Meta
  BY Sizes, OpenSlot DEF Read
<1>2. /\ v = [file |-> fd[i].file, view |-> IF image THEN "image" ELSE "plain",
              size |-> atari_fd[i].real_file_size,
              at |-> IF image THEN atari_fd[i].virtual_position ELSE fd[i].offset]
      /\ v # NoFile /\ handle[i] = v
  BY <1>1, Viewed DEF handle
<1>3. len \in 0 .. n
  BY <1>1, ImageLenReads, PlainLenReads
<1>4. reply' = Handles!Data(v.view, v.at, n, len)
  BY <1>2 DEF Read
<1>5. Handles!ReadsAll(v, n, len) \/ Handles!CutShort(v, len)
  <2>1. CASE image
    BY <1>1, <1>2, <2>1, ImageLenReads DEF Handles!ReadsAll, Handles!CutShort
  <2>2. CASE ~ image
    BY <1>1, <1>2, <2>2, PlainLenReads DEF Handles!ReadsAll
  <2> QED
    BY <2>1, <2>2
<1>6. View(i)' = [v EXCEPT !.at = @ + len]
  <2>1. fd \in [Slots -> OpenFile \cup {NoFile}] /\ atari_fd \in [Slots -> Meta]
    BY DEF FilesInv, TypeOK
  <2>2. FilesInv' /\ fd'[i] # NoFile
    <3>1. fd'[i] \in OpenFile
      BY <1>1, <1>3, <2>1 DEF Read, OpenFile
    <3> QED
      BY <3>1, ReadStep, NoFileAssumption
  <2>3. CASE image
    <3>1. fd'[i] = fd[i] /\ atari_fd'[i] = [atari_fd[i] EXCEPT !.virtual_position = @ + len]
      BY <2>1, <2>3 DEF Read
    <3> HIDE DEF len
    <3> QED
      BY <1>1, <1>2, <2>2, <2>3, <3>1 DEF View, Meta
  <2>4. CASE ~ image
    <3>1. fd'[i] = [fd[i] EXCEPT !.offset = @ + len] /\ atari_fd'[i] = atari_fd[i]
      BY <1>1, <2>1, <2>4 DEF Read
    <3> HIDE DEF len
    <3> QED
      BY <1>1, <1>2, <2>2, <2>4, <3>1 DEF View, OpenFile
  <2> QED
    BY <2>3, <2>4
<1>7. handle' = [handle EXCEPT ![i] = [v EXCEPT !.at = @ + len]]
  <2>1. \A j \in Slots \ {i} : fd'[j] = fd[j] /\ atari_fd'[j] = atari_fd[j]
    BY DEF Read, FilesInv, TypeOK
  <2> HIDE DEF len, v
  <2> QED
    BY <1>6, <2>1, OneHandle
<1>8. Handles!Read(i)
  <2> HIDE DEF len, v
  <2>1. handle' = [handle EXCEPT ![i].at = @ + len]
    BY <1>2, <1>7
  <2>2. /\ handle[i] # NoFile
        /\ reply' = Handles!Data(handle[i].view, handle[i].at, n, len)
        /\ Handles!ReadsAll(handle[i], n, len) \/ Handles!CutShort(handle[i], len)
    BY <1>2, <1>4, <1>5
  <2> QED
    BY <1>3, <2>1, <2>2, Zenon DEF handle, Handles!Read
<1> QED
  BY <1>8 DEF Handles!Next

(* The position of a handle becomes p.                                     *)
LEMMA MovedHandle ==
    ASSUME FilesInv, NEW i \in Slots, fd[i] # NoFile, NEW p \in Nat,
           \/ /\ atari_fd[i].is_atari_binary
              /\ fd' = fd /\ atari_fd' = [atari_fd EXCEPT ![i].virtual_position = p]
           \/ /\ ~ atari_fd[i].is_atari_binary
              /\ fd' = [fd EXCEPT ![i].offset = p] /\ atari_fd' = atari_fd
    PROVE  /\ handle' = [handle EXCEPT ![i].at = p]
           /\ handle'[i].at = p /\ handle'[i] # NoFile /\ handle[i] # NoFile
<1>1. /\ fd \in [Slots -> OpenFile \cup {NoFile}] /\ atari_fd \in [Slots -> Meta]
      /\ fd[i] \in OpenFile /\ atari_fd[i] \in Meta
  BY OpenSlot DEF FilesInv, TypeOK
<1>2. View(i) \in Views /\ View(i) # NoFile /\ handle[i] = View(i)
  BY Viewed DEF handle
<1>3. fd'[i] # NoFile
  <2>1. fd'[i] \in OpenFile
    BY <1>1 DEF OpenFile
  <2> QED
    BY <2>1, NoFileAssumption
<1>4. View(i)' = [View(i) EXCEPT !.at = p]
  <2>1. CASE atari_fd[i].is_atari_binary
    <3>1. fd'[i] = fd[i] /\ atari_fd'[i] = [atari_fd[i] EXCEPT !.virtual_position = p]
      BY <1>1, <2>1
    <3> QED
      BY <1>1, <1>3, <2>1, <3>1, Viewed DEF View, Meta
  <2>2. CASE ~ atari_fd[i].is_atari_binary
    <3>1. fd'[i] = [fd[i] EXCEPT !.offset = p] /\ atari_fd'[i] = atari_fd[i]
      BY <1>1, <2>2
    <3> QED
      BY <1>1, <1>3, <2>2, <3>1, Viewed DEF View, OpenFile
  <2> QED
    BY <2>1, <2>2
<1>5. handle' = [handle EXCEPT ![i] = [View(i) EXCEPT !.at = p]]
  <2>1. \A j \in Slots \ {i} : fd'[j] = fd[j] /\ atari_fd'[j] = atari_fd[j]
    BY <1>1
  <2> QED
    BY <1>4, <2>1, OneHandle
<1>6. [View(i) EXCEPT !.at = p] \in Views /\ [View(i) EXCEPT !.at = p].at = p
  BY <1>2 DEF Views
<1>7. i \in DOMAIN handle
  BY DEF handle
<1> QED
  BY <1>2, <1>5, <1>6, <1>7, NoFileAssumption

(* A WRITE writes to a handle.                                             *)
LEMMA WriteHandle ==
    ASSUME FilesInv, NEW i \in Slots, NEW claimed \in Nat, NEW sent \in Nat,
           Write(i, claimed, sent)
    PROVE  Handles!Next
<1> DEFINE start == IF fd[i].append THEN disk[fd[i].file].len ELSE fd[i].offset
           wanted == min_size(min_size(claimed, sent), MAX_IOSZ)
           n == IF start >= MaxLen THEN 0 ELSE min_size(wanted, MaxLen - start)
<1>1. /\ fd[i] # NoFile /\ fd[i] \in OpenFile
      /\ disk[fd[i].file].len \in Nat
      /\ ~ atari_fd[i].is_atari_binary
  BY Sizes, OpenSlot DEF Write, FilesInv, VirtualIsReadOnly
<1>2. start \in Nat /\ n \in 0 .. MAX_IOSZ /\ start + n \in Nat
  BY <1>1, Sizes DEF OpenFile, min_size
<1>3. /\ fd' = [fd EXCEPT ![i].offset = start + n] /\ atari_fd' = atari_fd
      /\ reply' = Handles!Ok(n)
  BY DEF Write
<1>4. start \in {View(i).at, disk[View(i).file].len} /\ View(i).view = "plain"
  BY <1>1, Viewed
<1> HIDE DEF start, n
<1>5. /\ handle' = [handle EXCEPT ![i].at = start + n] /\ handle[i] # NoFile
      /\ handle[i] = View(i)
  BY <1>1, <1>2, <1>3, MovedHandle DEF handle
<1>6. start \in {handle[i].at, disk[handle[i].file].len} /\ handle[i].view = "plain"
  BY <1>4, <1>5
<1>7. Handles!Write(i)
  BY <1>2, <1>3, <1>5, <1>6, Zenon DEF handle, Handles!Write
<1> QED
  BY <1>7 DEF Handles!Next

(* A position that fits the reply is told as it is.                        *)
LEMMA TellsPosition ==
    ASSUME NEW p \in Nat
    PROVE  /\ Told(p).kind \in {"moved", "error"}
           /\ p < INT32_LIMIT => Told(p) = Handles!Moved(p)
<1>1. Told(p).kind \in {"moved", "error"}
  BY ReplyKinds DEF Told
<1>2. ASSUME p < INT32_LIMIT PROVE int32(p) = p
  <2> DEFINE a == p + INT32_LIMIT
             m == 2 * INT32_LIMIT
  <2>1. a \in 0 .. m - 1 /\ m \in Nat \ {0}
    BY <1>2, Sizes
  <2>2. \A x \in Nat, y \in Nat \ {0} : x < y => x % y = x
    OBVIOUS
  <2>3. a % m = a
    BY <2>1, <2>2
  <2> QED
    BY <2>3, Sizes DEF int32
<1>3. ASSUME p < INT32_LIMIT PROVE Told(p) = Handles!Moved(p)
  BY <1>2, <1>3 DEF Told
<1> QED
  BY <1>1, <1>3

(* An LSEEK moves a handle.                                                *)
LEMMA SeekHandle ==
    ASSUME FilesInv, NEW i \in Slots, NEW p \in Int, Lseek(i, p)
    PROVE  Handles!Next
<1>1. CASE ~ InFile(p)
  BY <1>1, OtherStep, ReplyKinds DEF Lseek
<1>2. CASE InFile(p)
  <2>1. p \in Nat /\ reply' = Told(p) /\ fd[i] # NoFile
    BY <1>2 DEF InFile, Lseek
  <2>2. /\ handle' = [handle EXCEPT ![i].at = p]
        /\ handle'[i].at = p /\ handle'[i] # NoFile /\ handle[i] # NoFile
    BY <1>2, <2>1, MovedHandle DEF Lseek
  <2>3. /\ reply'.kind \in {"moved", "error"}
        /\ p < INT32_LIMIT => reply' = Handles!Moved(p)
    BY <2>1, TellsPosition
  <2>4. /\ handle'[i].at \in Nat
        /\ handle' = [handle EXCEPT ![i].at = handle'[i].at]
        /\ handle'[i].at < INT32_LIMIT => reply' = Handles!Moved(handle'[i].at)
    BY <2>1, <2>2, <2>3
  <2>5. Handles!Seek(i)
    BY <2>2, <2>3, <2>4, Zenon DEF handle, Handles!Seek
  <2> QED
    BY <2>5 DEF Handles!Next
<1> QED
  BY <1>1, <1>2

(* A CLOSE closes a handle.                                                *)
LEMMA CloseHandle ==
    ASSUME FilesInv, NEW i \in Slots, Close(i)
    PROVE  Handles!Next
<1>1. fd[i] # NoFile /\ handle[i] # NoFile
  BY Viewed DEF Close, handle
<1>2. fd'[i] = NoFile /\ \A j \in Slots \ {i} : fd'[j] = fd[j] /\ atari_fd'[j] = atari_fd[j]
  BY DEF Close, atari_clear_fd, FilesInv, TypeOK
<1>3. View(i)' = NoFile
  BY <1>2 DEF View
<1>4. handle' = [handle EXCEPT ![i] = NoFile]
  BY <1>2, <1>3, OneHandle
<1>5. Handles!Close(i)
  BY <1>1, <1>4 DEF handle, Handles!Close
<1> QED
  BY <1>5 DEF Handles!Next

(* The end of the session closes all handles.                              *)
LEMMA EndHandles ==
    ASSUME EndOfSession
    PROVE  Handles!Next
<1>1. handle' = [i \in Slots |-> NoFile]
  BY DEF EndOfSession, handle, View, Slots
<1> QED
  BY <1>1 DEF handle, Handles!Next, Handles!EndOfSession

(* Every step is one of FileHandles, or shows nothing.                     *)
LEMMA HandleStep == FilesInv /\ [Next]_vars => [Handles!Next]_<<handle, reply>>
<1> SUFFICES ASSUME FilesInv, [Next]_vars
             PROVE  [Handles!Next]_<<handle, reply>>
  OBVIOUS
<1>1. ASSUME NEW i \in Slots, SlotRequest(i)
      PROVE  Handles!Next
  <2>1. ASSUME NEW n \in 0 .. MAX_IOSZ, Read(i, n)
        PROVE  Handles!Next
    BY <2>1, ReadHandle
  <2>2. ASSUME NEW claimed \in 0 .. MAX_IOSZ + 1, NEW sent \in 1 .. MAX_IOSZ + 1,
               Write(i, claimed, sent)
        PROVE  Handles!Next
    BY <2>2, Sizes, WriteHandle
  <2>3. ASSUME fd[i] # NoFile, NEW base \in Bases(i), NEW offset \in -1 .. 1,
               Lseek(i, base + offset)
        PROVE  Handles!Next
    <3>1. base \in Int
      BY <2>3, OpenSlot, Sizes DEF Bases, OpenFile, Meta
    <3> QED
      BY <2>3, <3>1, SeekHandle
  <2>4. CASE Close(i)
    BY <2>4, CloseHandle
  <2> QED
    BY <1>1, <2>1, <2>2, <2>3, <2>4 DEF SlotRequest
<1>2. ASSUME NEW name \in Names, PathRequest(name)
      PROVE  Handles!Next
  <2>1. ASSUME NEW flags \in Flags, Open(name, flags)
        PROVE  Handles!Next
    BY <2>1, OpenHandle DEF Open, FirstFree, MaySee
  <2>2. ASSUME NEW flags \in Flags, OpenDeprecated(name, flags)
        PROVE  Handles!Next
    <3>1. [flags EXCEPT !.mode = 0] \in Flags
      BY DEF Flags
    <3> QED
      BY <2>1, <2>2, <3>1 DEF OpenDeprecated
  <2>3. CASE Unlink(name) \/ Mkdir(name) \/ Rmdir(name) \/ Stat(name)
    BY <2>3, OtherStep, ReplyKinds DEF Unlink, Mkdir, Rmdir, Stat, Done, SizeReply
  <2>4. ASSUME NEW to \in Names, Rename(name, to)
        PROVE  Handles!Next
    BY <2>4, OtherStep, ReplyKinds DEF Rename, Done
  <2> QED
    BY <1>2, <2>1, <2>2, <2>3, <2>4 DEF PathRequest
<1>3. CASE Refuse
  BY <1>3, OtherStep, ReplyKinds DEF Refuse
<1>4. CASE EndOfSession
  BY <1>4, EndHandles
<1>5. CASE OthersWrite
  BY <1>5, OtherStep, ReplyKinds DEF OthersWrite
<1>6. CASE UNCHANGED vars
  BY <1>6 DEF vars, handle, View, Slots
<1> QED
  BY <1>1, <1>2, <1>3, <1>4, <1>5, <1>6 DEF Next

(* The slots of a session, with their descriptors and disk image data,     *)
(* implement the file handles of FileHandles.                              *)
THEOREM SlotsImplementHandles == Spec => ImplementsHandles
<1>1. Init => Handles!Init
  BY DEF Init, Handles!Init, View
<1>2. FilesInv /\ [Next]_vars => [Handles!Next]_<<[i \in Slots |-> View(i)], reply>>
  BY HandleStep DEF handle
<1> QED
  BY <1>1, <1>2, FilesInvariant, PTL DEF Spec, ImplementsHandles, Handles!Spec
=============================================================================
