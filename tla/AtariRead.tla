------------------------------ MODULE AtariRead ------------------------------
(***************************************************************************)
(* Reading and seeking in a file that src/src/atari.c presents as an ATR   *)
(* disk image: one step for each round of the loop in                      *)
(* atari_virtual_read(). The size of the file is noted when it is opened;  *)
(* other programs may cut or extend the file at any time after that.       *)
(***************************************************************************)
EXTENDS Integers, Sequences

CONSTANTS
    ATR_HEADER_SIZE,
    ATR_DATA_SIZE,
    atari_bootsector_bin_len,
    SECTOR,          \* 128 in round_up_128()
    MAX_IOSZ,        \* the longest read the caller asks for
    MaxFile,         \* bound: lengths the file may have
    SeekOffsets,     \* bound: offsets of LSEEK
    MaxPosition      \* bound: how far past the end LSEEK goes

ASSUME SizesAssumption ==
    /\ {ATR_HEADER_SIZE, ATR_DATA_SIZE, atari_bootsector_bin_len, MAX_IOSZ, MaxFile,
        MaxPosition} \subseteq Nat
    /\ SECTOR \in Nat \ {0}
    /\ SeekOffsets \subseteq Int

VARIABLES
    virtual_position, real_file_size,   \* atari_fd_metadata of the descriptor
    disk,     \* length of the file on the disk now
    pc,       \* "idle", or "loop" inside atari_virtual_read()
    vpos, count, asked,   \* its locals; asked is count as it was passed in
    buf,      \* the bytes put into the buffer: bytes_read is Len(buf)
    reply     \* what the last call returned

meta == <<virtual_position, real_file_size>>
locals == <<vpos, count, asked, buf>>
vars == <<meta, disk, pc, locals, reply>>

ATR_TOTAL_SIZE == ATR_HEADER_SIZE + ATR_DATA_SIZE
round_up_128(size) == ((size + (SECTOR - 1)) \div SECTOR) * SECTOR
atari_boot_sectors_size == round_up_128(atari_bootsector_bin_len)
(* Mutated form: the boot sectors are not rounded up. *)
boot_end_unrounded == ATR_HEADER_SIZE + atari_bootsector_bin_len

boot_end == ATR_HEADER_SIZE + atari_boot_sectors_size

file_end == boot_end + real_file_size

min_size(a, b) == IF a < b THEN a ELSE b

Image == INSTANCE DiskImage WITH
    HeaderSize <- ATR_HEADER_SIZE, BootLen <- atari_bootsector_bin_len,
    SectorSize <- SECTOR, ImageSize <- ATR_TOTAL_SIZE, MaxCount <- MAX_IOSZ,
    size <- real_file_size, at <- virtual_position

(* tnfs_open() notes the length of the file in atari_mark_fd().            *)
Init ==
    /\ real_file_size \in 0 .. MaxFile
    /\ disk = real_file_size
    /\ virtual_position = 0
    /\ pc = "idle"
    /\ vpos = 0 /\ count = 0 /\ asked = 0 /\ buf = <<>>
    /\ reply = Image!Position(0)

(* The locals go with the call.                                            *)
LocalsGone == vpos' = 0 /\ count' = 0 /\ asked' = 0 /\ buf' = <<>>

(* The buffer and the locals advance over the bytes put.                   *)
Put(bytes) ==
    /\ buf' = buf \o bytes
    /\ vpos' = vpos + Len(bytes)
    /\ count' = count - Len(bytes)

(* atari_virtual_read() up to its loop                                     *)
ReadAtEnd(n) ==
    /\ pc = "idle"
    /\ virtual_position >= ATR_TOTAL_SIZE
    /\ reply' = Image!Data(n, <<>>)
    /\ UNCHANGED <<meta, disk, pc, locals>>

ReadBegins(n) ==
    /\ pc = "idle"
    /\ virtual_position < ATR_TOTAL_SIZE
    /\ pc' = "loop"
    /\ asked' = n
    /\ count' = min_size(n, ATR_TOTAL_SIZE - virtual_position)
    /\ vpos' = virtual_position
    /\ buf' = <<>>
    /\ UNCHANGED <<meta, disk, reply>>

Looping == pc = "loop" /\ count > 0 /\ vpos < ATR_TOTAL_SIZE

(* Region 1: the generated header                                          *)
FromHeader ==
    /\ Looping
    /\ vpos < ATR_HEADER_SIZE
    /\ LET n == min_size(count, ATR_HEADER_SIZE - vpos)
       IN  Put([i \in 1 .. n |-> Image!HeaderByte(vpos + i - 1)])
    /\ UNCHANGED <<meta, disk, pc, asked, reply>>

(* Region 2: the boot sectors, zeros after the compiled-in program         *)
BootBytes(offset, n) ==
    LET actual == IF offset < atari_bootsector_bin_len
                  THEN min_size(n, atari_bootsector_bin_len - offset) ELSE 0
    IN  [i \in 1 .. n |-> IF i <= actual THEN Image!BootByte(offset + i - 1)
                                         ELSE Image!Zero]

FromBoot ==
    /\ Looping
    /\ vpos >= ATR_HEADER_SIZE
    /\ vpos < boot_end
    /\ Put(BootBytes(vpos - ATR_HEADER_SIZE, min_size(count, boot_end - vpos)))
    /\ UNCHANGED <<meta, disk, pc, asked, reply>>

InFile == Looping /\ vpos >= ATR_HEADER_SIZE /\ vpos >= boot_end /\ vpos < file_end

file_bytes == min_size(count, file_end - vpos)

(* What read() gives of the file at its present length                     *)
Available == IF vpos - boot_end >= disk THEN 0
             ELSE min_size(file_bytes, disk - (vpos - boot_end))

(* Mutated form: the position stays where the call found it. *)
ReturnUnmoved(bytes, pos) ==
    /\ pc' = "idle"
    /\ reply' = Image!Data(asked, bytes)
    /\ LocalsGone
    /\ UNCHANGED <<meta, disk>>

(* The loop is left: the virtual position moves to where the read stopped. *)
Return(bytes, pos) ==
    /\ pc' = "idle"
    /\ virtual_position' = pos
    /\ reply' = Image!Data(asked, bytes)
    /\ LocalsGone
    /\ UNCHANGED <<real_file_size, disk>>

(* Region 3: the file, read in full, or short and then the loop is left    *)
FileBytes(n) == [i \in 1 .. n |-> Image!FileByte(vpos - boot_end + i - 1)]

FromFile ==
    /\ InFile
    /\ Available = file_bytes
    /\ Put(FileBytes(Available))
    /\ UNCHANGED <<meta, disk, pc, asked, reply>>

(* Mutated form: a short read does not leave the loop. *)
ShortReadLoops ==
    /\ InFile
    /\ Available < file_bytes
    /\ Put(FileBytes(Available))
    /\ UNCHANGED <<meta, disk, pc, asked, reply>>

FileEndsShort ==
    /\ InFile
    /\ Available < file_bytes
    /\ Return(buf \o FileBytes(Available), vpos + Available)

(* lseek() on the file fails, or read() does after other bytes were got    *)
FileFailsLate ==
    /\ InFile
    /\ Return(buf, vpos)

(* read() fails and there is nothing to return                             *)
FileFails ==
    /\ InFile
    /\ buf = <<>>
    /\ pc' = "idle"
    /\ reply' = Image!Error
    /\ LocalsGone
    /\ UNCHANGED <<meta, disk>>

(* Region 4: zeros up to the size of the image                             *)
FromPadding ==
    /\ Looping
    /\ vpos >= ATR_HEADER_SIZE /\ vpos >= boot_end /\ vpos >= file_end
    /\ LET n == min_size(count, ATR_TOTAL_SIZE - vpos)
       IN  Put([i \in 1 .. n |-> Image!Zero])
    /\ UNCHANGED <<meta, disk, pc, asked, reply>>

LoopEnds ==
    /\ pc = "loop"
    /\ ~ Looping
    /\ Return(buf, vpos)

LoopStep == FromHeader \/ FromBoot \/ FromFile \/ FileEndsShort \/ FromPadding
            \/ LoopEnds
FileFault == FileFailsLate \/ FileFails

(* Mutated form: a position before the start is not refused. *)
SeekAnywhere(new_pos) ==
    /\ pc = "idle"
    /\ new_pos <= MaxPosition
    /\ reply' = Image!Position(new_pos)
    /\ virtual_position' = new_pos
    /\ UNCHANGED <<real_file_size, disk, pc, locals>>

(* atari_virtual_lseek()                                                   *)
SeekTo(new_pos) ==
    /\ pc = "idle"
    /\ new_pos <= MaxPosition
    /\ IF new_pos < 0
       THEN reply' = Image!Error /\ UNCHANGED virtual_position
       ELSE reply' = Image!Position(new_pos) /\ virtual_position' = new_pos
    /\ UNCHANGED <<real_file_size, disk, pc, locals>>

Lseek == \E offset \in SeekOffsets, base \in {0, virtual_position, ATR_TOTAL_SIZE} :
            SeekTo(base + offset)

(* Another program writes or truncates the file.                           *)
Resize == \E n \in 0 .. MaxFile : disk' = n /\ UNCHANGED <<meta, pc, locals, reply>>

Next ==
    \/ \E n \in 0 .. MAX_IOSZ : ReadAtEnd(n) \/ ReadBegins(n)
    \/ LoopStep
    \/ FileFault
    \/ Lseek
    \/ Resize

Spec == Init /\ [][Next]_vars

(* The loop runs on a thread that is scheduled; the file need not fail.     *)
FairSpec == Spec /\ WF_vars(LoopStep)
-----------------------------------------------------------------------------
TypeOK ==
    /\ {virtual_position, real_file_size, disk, vpos, count, asked} \subseteq Nat
    /\ asked <= MAX_IOSZ
    /\ pc \in {"idle", "loop"}
    /\ buf \in Seq({"header", "boot", "file", "zero"} \X Nat)

(* Whatever regions a read has crossed (header, boot program, its filling, *)
(* the file, the padding), the buffer holds the bytes of the image from    *)
(* the position on, without a gap, an overlap or one byte too many, and    *)
(* the bytes still to come end within the image.                           *)
BufferIsSlice ==
    pc = "loop" =>
        /\ vpos = virtual_position + Len(buf)
        /\ buf = Image!Slice(virtual_position, Len(buf))
        /\ Len(buf) + count = min_size(asked, ATR_TOTAL_SIZE - virtual_position)

(* Every answer to READ and LSEEK is one of a plain file that holds the    *)
(* image; a read that comes back short of the end of the image stopped at  *)
(* one of the file's bytes.                                                *)
ImplementsImage == Image!Spec

(* A READ returns, also of a file that was cut after the open, where       *)
(* read() gives nothing and the position does not move.                    *)
ReadReturns == pc = "loop" ~> pc = "idle"
=============================================================================
