------------------------------ MODULE OpenFiles ------------------------------
(***************************************************************************)
(* The files of one session (src/src/tnfs_file.c): fd[] and atari_fd[] of  *)
(* its slots, the requests of its client, the read-only mode of            *)
(* src/src/auth.c, and the part of the file system they act on. Requests   *)
(* of other sessions and other programs change the same files.             *)
(* Which descriptor numbers the slots have is in SessionTable; how a read  *)
(* of a disk image puts its bytes together is in AtariRead.                *)
(***************************************************************************)
EXTENDS Integers, FiniteSetsExt

CONSTANTS
    Options,         \* read_only and atari_enabled as the server may be started
    MAX_FD_PER_CONN,
    MAX_IOSZ,
    Names,           \* paths
    Excluded,        \* paths with one of the extensions that stay plain
    Inodes,          \* the files there can be
    Folder,          \* what a path of a directory stands for
    NoFile,          \* what a path or a slot without a file holds
    ATR_TOTAL_SIZE, boot_end,   \* size of a disk image, and where its file begins
    INT32_LIMIT,     \* 2^31
    MaxLen,          \* bound: longest file the disk has room for
    MaxPosition      \* bound: how far LSEEK goes

ASSUME OpenFilesAssumption ==
    /\ Options \subseteq BOOLEAN \X BOOLEAN
    /\ {MAX_FD_PER_CONN, MAX_IOSZ, ATR_TOTAL_SIZE, boot_end, MaxLen, MaxPosition} \subseteq Nat
    /\ INT32_LIMIT \in Nat \ {0}
    /\ boot_end <= ATR_TOTAL_SIZE
    /\ Excluded \subseteq Names
    /\ Folder \notin Inodes /\ NoFile \notin Inodes \cup {Folder}

VARIABLES
    read_only, atari_enabled,   \* the server's options
    dir,       \* dir[name] is the file, the Folder or NoFile at a path
    disk,      \* disk[file] is its length, and whether it begins with FF FF
    fd,        \* fd[i] is the open file of slot i, or NoFile
    atari_fd,  \* atari_fd[i] is the disk image data of slot i
    reply      \* the last answer

vars == <<read_only, atari_enabled, dir, disk, fd, atari_fd, reply>>

options == <<read_only, atari_enabled>>
tree == <<dir, disk>>
slots == <<fd, atari_fd>>

Slots == 0 .. MAX_FD_PER_CONN - 1
Files == Inodes \cup {Folder}
Contents == {c \in [len : 0 .. MaxLen, binary : BOOLEAN] : c.binary => c.len >= 2}
Empty == [len |-> 0, binary |-> FALSE]
NoMeta == [is_atari_binary |-> FALSE, virtual_position |-> 0, real_file_size |-> 0]
Access == {"r", "w", "rw"}
OpenFile == [file : Files, access : Access, append : BOOLEAN, offset : Nat]
Meta == [is_atari_binary : BOOLEAN, virtual_position : Nat, real_file_size : Nat]
Views == [file : Files, view : {"plain", "image"}, size : Nat, at : Nat]

ASSUME NoFileAssumption == NoFile \notin OpenFile \cup Views

min_size(a, b) == IF a < b THEN a ELSE b

View(i) ==
    IF fd[i] = NoFile THEN NoFile
    ELSE [file |-> fd[i].file,
          view |-> IF atari_fd[i].is_atari_binary THEN "image" ELSE "plain",
          size |-> atari_fd[i].real_file_size,
          at |-> IF atari_fd[i].is_atari_binary THEN atari_fd[i].virtual_position
                                                ELSE fd[i].offset]

Handles == INSTANCE FileHandles WITH
    Handles <- Slots, NoHandle <- NoFile, ImageSize <- ATR_TOTAL_SIZE,
    ImageStart <- boot_end, MaxCount <- MAX_IOSZ, SeekLimit <- INT32_LIMIT,
    handle <- [i \in Slots |-> View(i)]

TypeOK ==
    /\ options \in Options
    /\ dir \in [Names -> Files \cup {NoFile}]
    /\ disk \in [Files -> Contents]
    /\ fd \in [Slots -> OpenFile \cup {NoFile}]
    /\ atari_fd \in [Slots -> Meta]

Init ==
    /\ \E o \in Options : read_only = o[1] /\ atari_enabled = o[2]
    /\ dir \in [Names -> Inodes \cup {NoFile}]
    /\ \A m, n \in Names : dir[m] = dir[n] => m = n \/ dir[m] = NoFile
    /\ disk \in [Files -> Contents]
    /\ disk[Folder] = Empty
    /\ fd = [i \in Slots |-> NoFile]
    /\ atari_fd = [i \in Slots |-> NoMeta]
    /\ reply = Handles!Ok(0)

RW_CMDS == {"mkdir", "rmdir", "write", "unlink", "chmod", "rename"}

is_cmd_allowed(cmd) == read_only => cmd \notin RW_CMDS

Refuse == reply' = Handles!Error /\ UNCHANGED <<options, tree, slots>>

-----------------------------------------------------------------------------
(* OPEN                                                                    *)

(* The flags of a request: the two bits of the access mode, then one each. *)
Flags == [mode : 0 .. 3, append : BOOLEAN, creat : BOOLEAN, trunc : BOOLEAN, excl : BOOLEAN]

ToRead == [mode : {0, 1}, append : {FALSE}, creat : {FALSE}, trunc : {FALSE}, excl : {FALSE}]

(* Mutated form: truncating is not taken for a change. *)
is_open_allowed_trunc(flags) ==
    read_only => flags.mode \in {0, 1} /\ ~ (flags.append \/ flags.creat \/ flags.excl)

is_open_allowed(flags) ==
    read_only => /\ flags.mode \in {0, 1}
                 /\ ~ (flags.append \/ flags.creat \/ flags.trunc \/ flags.excl)

(* tnfs_make_mode(): no access bits at all come to be O_RDONLY.            *)
AccessOf(flags) == CASE flags.mode = 2 -> "w" [] flags.mode = 3 -> "rw" [] OTHER -> "r"

(* The paths that atari_should_virtualize() opens to look at their file,   *)
(* which may fail for want of descriptors or of memory, or in the read.    *)
LooksAt(name, flags) ==
    /\ atari_enabled
    /\ AccessOf(flags) = "r" /\ ~ flags.creat /\ ~ flags.append
    /\ name \notin Excluded

MaySee(name, flags) == IF LooksAt(name, flags) THEN BOOLEAN ELSE {TRUE}

(* Its answer, of the path as it is after the open: a file that could not  *)
(* be seen is plain.                                                       *)
ShouldVirtualize(name, file, content, flags, seen) ==
    /\ LooksAt(name, flags)
    /\ file # Folder
    /\ seen /\ content.binary

Unused == {f \in Inodes : /\ \A n \in Names : dir[n] # f
                          /\ \A i \in Slots : fd[i] # NoFile => fd[i].file # f}

(* The files the kernel may open at a path: the one there, or a new one.   *)
Opened(name, flags) ==
    IF dir[name] = NoFile
    THEN IF flags.creat THEN Unused ELSE {}
    ELSE IF flags.creat /\ flags.excl THEN {}
    ELSE IF dir[name] = Folder /\ (AccessOf(flags) # "r" \/ flags.creat \/ flags.trunc) THEN {}
    ELSE {dir[name]}

FirstFree(i) == fd[i] = NoFile /\ \A j \in 0 .. i - 1 : fd[j] # NoFile

(* The file is seen when the fstat() after that succeeds too.              *)
OpenAt(i, name, flags, file, seen) ==
    LET content == IF flags.trunc \/ dir[name] = NoFile THEN Empty ELSE disk[file]
    IN  /\ dir' = [dir EXCEPT ![name] = file]
        /\ disk' = [disk EXCEPT ![file] = content]
        /\ fd' = [fd EXCEPT ![i] = [file |-> file, access |-> AccessOf(flags),
                                    append |-> flags.append, offset |-> 0]]
        /\ atari_fd' = IF ShouldVirtualize(name, file, content, flags, seen)
                       THEN [atari_fd EXCEPT ![i] =
                               [is_atari_binary |-> TRUE, virtual_position |-> 0,
                                real_file_size |-> content.len]]
                       ELSE atari_fd
        /\ reply' = Handles!Handle(i, seen)
        /\ UNCHANGED options

(* tnfs_open(): the first free slot. Like every request it may also be     *)
(* refused, for one of these reasons or by the operating system.           *)
Open(name, flags) ==
    /\ is_open_allowed(flags)
    /\ \E i \in Slots :
          /\ FirstFree(i)
          /\ \E file \in Opened(name, flags), seen \in MaySee(name, flags) :
                OpenAt(i, name, flags, file, seen)

(* tnfs_open_deprecated(): the second byte has bits for the new flags, and *)
(* its lowest one keeps of the first byte the append bit only. Without it  *)
(* the request is as the one above.                                        *)
OpenDeprecated(name, flags) == Open(name, [flags EXCEPT !.mode = 0])

-----------------------------------------------------------------------------
(* READ, WRITE, LSEEK, CLOSE                                               *)

(* What read() gives of a file from its offset on                          *)
PlainLen(i, n) ==
    IF fd[i].offset >= disk[fd[i].file].len THEN 0
    ELSE min_size(n, disk[fd[i].file].len - fd[i].offset)

(* Mutated form: the end of the image does not stop a read. *)
ImageLenUnbounded(i, n) == n

(* What atari_virtual_read() gives of an image (AtariRead): up to the end  *)
(* of the image, and up to the first byte its file does not have any more. *)
ImageLen(i, n) ==
    LET at == atari_fd[i].virtual_position
        wanted == IF at >= ATR_TOTAL_SIZE THEN 0 ELSE min_size(n, ATR_TOTAL_SIZE - at)
        lost == {k \in 0 .. wanted - 1 :
                    at + k - boot_end \in disk[fd[i].file].len
                                          .. atari_fd[i].real_file_size - 1}
    IN  IF lost = {} THEN wanted ELSE Min(lost)

Read(i, n) ==
    /\ fd[i] # NoFile
    /\ IF atari_fd[i].is_atari_binary
       THEN /\ reply' = Handles!Data("image", atari_fd[i].virtual_position, n, ImageLen(i, n))
            /\ atari_fd' = [atari_fd EXCEPT ![i].virtual_position = @ + ImageLen(i, n)]
            /\ UNCHANGED fd
       ELSE /\ fd[i].access # "w" /\ fd[i].file # Folder
            /\ reply' = Handles!Data("plain", fd[i].offset, n, PlainLen(i, n))
            /\ fd' = [fd EXCEPT ![i].offset = @ + PlainLen(i, n)]
            /\ UNCHANGED atari_fd
    /\ UNCHANGED <<options, tree>>

(* A write that touches the first two bytes may make them any.             *)
Written(content, start, n) ==
    LET len == IF start + n > content.len THEN start + n ELSE content.len
    IN  {c \in Contents :
            /\ c.len = len
            /\ start >= 2 => c.binary = content.binary}

(* claimed is the size the request names, sent the bytes that came with it *)
Write(i, claimed, sent) ==
    /\ is_cmd_allowed("write")
    /\ fd[i] # NoFile
    /\ fd[i].access # "r"
    /\ LET start == IF fd[i].append THEN disk[fd[i].file].len ELSE fd[i].offset
           wanted == min_size(min_size(claimed, sent), MAX_IOSZ)
           n == IF start >= MaxLen THEN 0 ELSE min_size(wanted, MaxLen - start)
       IN  /\ n > 0
           /\ \E c \in Written(disk[fd[i].file], start, n) :
                 disk' = [disk EXCEPT ![fd[i].file] = c]
           /\ fd' = [fd EXCEPT ![i].offset = start + n]
           /\ reply' = Handles!Ok(n)
    /\ UNCHANGED <<options, dir, atari_fd>>

(* The position is kept in 64 bits and told in 32 with a sign.             *)
int32(p) == ((p + INT32_LIMIT) % (2 * INT32_LIMIT)) - INT32_LIMIT

Told(p) == IF int32(p) < 0 THEN Handles!Error ELSE Handles!Moved(int32(p))

(* Mutated form: positions before the start are not refused. *)
AnyPosition(p) == TRUE

InFile(p) == p >= 0

Lseek(i, p) ==
    /\ fd[i] # NoFile
    /\ p <= MaxPosition
    /\ IF ~ InFile(p)
       THEN reply' = Handles!Error /\ UNCHANGED slots
       ELSE /\ reply' = Told(p)
            /\ IF atari_fd[i].is_atari_binary
               THEN /\ atari_fd' = [atari_fd EXCEPT ![i].virtual_position = p]
                    /\ UNCHANGED fd
               ELSE /\ fd' = [fd EXCEPT ![i].offset = p]
                    /\ UNCHANGED atari_fd
    /\ UNCHANGED <<options, tree>>

(* SEEK_SET, SEEK_CUR, SEEK_END                                            *)
Bases(i) ==
    IF atari_fd[i].is_atari_binary
    THEN {0, atari_fd[i].virtual_position, ATR_TOTAL_SIZE}
    ELSE {0, fd[i].offset, disk[fd[i].file].len}

(* Mutated form: CLOSE leaves the disk image data behind. *)
NotCleared(i) == atari_fd

atari_clear_fd(i) ==
    IF atari_enabled THEN [atari_fd EXCEPT ![i] = NoMeta] ELSE atari_fd

(* tnfs_close(): the slot is released also when close() fails.             *)
Close(i) ==
    /\ fd[i] # NoFile
    /\ fd' = [fd EXCEPT ![i] = NoFile]
    /\ atari_fd' = atari_clear_fd(i)
    /\ reply' \in {Handles!Ok(0), Handles!Error}
    /\ UNCHANGED <<options, tree>>

(* The session ends; a new one starts with its memory cleared.             *)
EndOfSession ==
    /\ fd' = [i \in Slots |-> NoFile]
    /\ atari_fd' = [i \in Slots |-> NoMeta]
    /\ reply' = Handles!Ok(0)
    /\ UNCHANGED <<options, tree>>

-----------------------------------------------------------------------------
(* Requests on paths                                                       *)

Done == reply' = Handles!Ok(0) /\ UNCHANGED <<options, disk, slots>>

Unlink(name) ==
    /\ is_cmd_allowed("unlink")
    /\ dir[name] \in Inodes
    /\ dir' = [dir EXCEPT ![name] = NoFile]
    /\ Done

Rename(from, to) ==
    /\ is_cmd_allowed("rename")
    /\ dir[from] # NoFile
    /\ dir[to] = NoFile \/ (dir[to] = Folder <=> dir[from] = Folder)
    /\ dir' = IF from = to THEN dir ELSE [dir EXCEPT ![from] = NoFile, ![to] = dir[from]]
    /\ Done

Mkdir(name) ==
    /\ is_cmd_allowed("mkdir")
    /\ dir[name] = NoFile
    /\ dir' = [dir EXCEPT ![name] = Folder]
    /\ Done

Rmdir(name) ==
    /\ is_cmd_allowed("rmdir")
    /\ dir[name] = Folder
    /\ dir' = [dir EXCEPT ![name] = NoFile]
    /\ Done

(* Mutated form: STAT tells the size of the file as it is. *)
StatSizeReal(name, seen) == disk[dir[name]].len

(* STAT tells the size of the image of a file that OPEN would virtualize.  *)
StatSize(name, seen) ==
    IF \E flags \in ToRead : ShouldVirtualize(name, dir[name], disk[dir[name]], flags, seen)
    THEN ATR_TOTAL_SIZE ELSE disk[dir[name]].len

SizeReply(name, size, seen) ==
    [kind |-> "size", path |-> name, size |-> size, seen |-> seen]

Stat(name) ==
    /\ dir[name] # NoFile
    /\ \E flags \in ToRead : \E seen \in MaySee(name, flags) :
          reply' = SizeReply(name, StatSize(name, seen), seen)
    /\ UNCHANGED <<options, tree, slots>>

(* Other sessions and programs write and truncate files, between requests. *)
OthersWrite ==
    /\ \E f \in Inodes, c \in Contents : disk' = [disk EXCEPT ![f] = c]
    /\ reply' = Handles!NoReply
    /\ UNCHANGED <<options, dir, slots>>

SlotRequest(i) ==
    \/ \E n \in 0 .. MAX_IOSZ : Read(i, n)
    \/ \E claimed \in 0 .. MAX_IOSZ + 1, sent \in 1 .. MAX_IOSZ + 1 : Write(i, claimed, sent)
    \/ fd[i] # NoFile /\ \E base \in Bases(i), offset \in -1 .. 1 : Lseek(i, base + offset)
    \/ Close(i)

PathRequest(name) ==
    \/ \E flags \in Flags : Open(name, flags) \/ OpenDeprecated(name, flags)
    \/ Unlink(name) \/ Mkdir(name) \/ Rmdir(name) \/ Stat(name)
    \/ \E to \in Names : Rename(name, to)

Next ==
    \/ \E i \in Slots : SlotRequest(i)
    \/ \E name \in Names : PathRequest(name)
    \/ Refuse
    \/ EndOfSession
    \/ OthersWrite

Spec == Init /\ [][Next]_vars
-----------------------------------------------------------------------------
(* The disk image data of a slot belongs to the file that is open in it: a *)
(* free slot has none, whatever was open there before, and only a file     *)
(* opened to be read has any.                                              *)
VirtualIsReadOnly ==
    \A i \in Slots :
        /\ fd[i] = NoFile => atari_fd[i] = NoMeta
        /\ atari_fd[i].is_atari_binary =>
              /\ atari_enabled
              /\ fd[i].access = "r" /\ ~ fd[i].append /\ fd[i].file # Folder

(* A read-only server changes no file and no directory, by any request or  *)
(* combination of open flags, of the old OPEN as well.                     *)
ReadOnlyKeepsFiles == [][read_only /\ reply' # Handles!NoReply => UNCHANGED tree]_vars

(* How much there is to read of an open file.                              *)
SizeOf(i) == IF atari_fd[i].is_atari_binary THEN ATR_TOTAL_SIZE ELSE disk[fd[i].file].len

(* A client that asks STAT for the size of a file and then opens the file  *)
(* to read it can read that much, plain file or disk image. It cannot when *)
(* one of the two requests failed to look at the file: each looks anew,    *)
(* takes a failure for a plain file and tells nobody.                      *)
OpenedToRead(i, name) ==
    fd[i] = NoFile /\ fd'[i] # NoFile /\ \E flags \in ToRead : Open(name, flags)

StatTellsSize ==
    [][\A i \in Slots :
          reply.kind = "size" /\ reply.seen /\ OpenedToRead(i, reply.path) /\ reply'.seen
             => SizeOf(i)' = reply.size]_vars

(* Slots, descriptors and disk image data together are the file handles    *)
(* the client was promised.                                                *)
ImplementsHandles == Handles!Spec
=============================================================================
