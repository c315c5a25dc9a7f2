--------------------------- MODULE AtariRead_proofs ---------------------------
(***************************************************************************)
(* For every size of header, boot program, sector, image and file: the     *)
(* loop of AtariRead fills its buffer with a slice of the image, and every *)
(* call is one of DiskImage.                                               *)
(***************************************************************************)
EXTENDS AtariRead, SequenceTheorems, TLAPS

(* A number has one multiple of s within s places from it on.              *)
LEMMA OneMultiple ==
    ASSUME NEW s \in Nat \ {0}, NEW l \in Nat,
           NEW m \in l .. l + s - 1, NEW n \in l .. l + s - 1,
           m % s = 0, n % s = 0
    PROVE  m = n
<1> DEFINE a == m \div s
           b == n \div s
<1>1. a \in Int /\ b \in Int /\ m = s * a /\ n = s * b
  OBVIOUS
<1> HIDE DEF a, b
<1>2. CASE a = b
  BY <1>1, <1>2
<1>3. CASE a >= b + 1
  <2>1. s * a >= s * (b + 1)
    BY <1>1, <1>3
  <2>2. s * (b + 1) = s * b + s
    BY <1>1
  <2> QED
    BY <1>1, <2>1, <2>2
<1>4. CASE b >= a + 1
  <2>1. s * b >= s * (a + 1)
    BY <1>1, <1>4
  <2>2. s * (a + 1) = s * a + s
    BY <1>1
  <2> QED
    BY <1>1, <2>1, <2>2
<1> QED
  BY <1>1, <1>2, <1>3, <1>4

(* round_up_128() gives the multiple of the sector size it should.         *)
LEMMA RoundsUp ==
    ASSUME NEW l \in Nat
    PROVE  /\ round_up_128(l) \in l .. l + SECTOR - 1
           /\ round_up_128(l) % SECTOR = 0
<1> DEFINE q == (l + (SECTOR - 1)) \div SECTOR
<1>1. SECTOR \in Nat \ {0}
  BY SizesAssumption
<1>2. q \in Nat /\ q * SECTOR <= l + (SECTOR - 1) /\ l + (SECTOR - 1) < q * SECTOR + SECTOR
  BY <1>1
<1> HIDE DEF q
<1>3. q * SECTOR \in Nat /\ (q * SECTOR) % SECTOR = 0
  BY <1>1, <1>2
<1> QED
  BY <1>1, <1>2, <1>3 DEF round_up_128, q

(* The sizes are numbers, and the regions of the image follow one another. *)
LEMMA Regions ==
    /\ SECTOR \in Nat \ {0}
    /\ {ATR_HEADER_SIZE, ATR_DATA_SIZE, ATR_TOTAL_SIZE, atari_bootsector_bin_len, MAX_IOSZ,
        boot_end} \subseteq Nat
    /\ ATR_HEADER_SIZE <= ATR_TOTAL_SIZE
    /\ ATR_HEADER_SIZE + atari_bootsector_bin_len <= boot_end
    /\ Image!FileStart = boot_end
<1>1. SECTOR \in Nat \ {0} /\ atari_bootsector_bin_len \in Nat
  BY SizesAssumption
<1> DEFINE l == atari_bootsector_bin_len
<1>2. /\ atari_boot_sectors_size \in l .. l + SECTOR - 1
      /\ atari_boot_sectors_size % SECTOR = 0
  BY <1>1, RoundsUp DEF atari_boot_sectors_size
<1>3. PICK n \in l .. l + SECTOR - 1 : n = Image!BootSize /\ n % SECTOR = 0
  BY <1>2 DEF Image!BootSize
<1>4. Image!BootSize = atari_boot_sectors_size
  BY <1>1, <1>2, <1>3, OneMultiple
<1> QED
  BY <1>1, <1>2, <1>4, SizesAssumption DEF boot_end, ATR_TOTAL_SIZE, Image!FileStart

(* The invariant: the buffer is the slice of the image from the position   *)
(* on, inside a call; there are no locals outside one.                     *)
ReadInv ==
    /\ TypeOK
    /\ BufferIsSlice
    /\ pc = "loop" => virtual_position < ATR_TOTAL_SIZE
    /\ pc = "idle" => buf = <<>>

(* The invariant holds at the start.                                       *)
LEMMA InitReadInv == Init => ReadInv
<1> SUFFICES ASSUME Init PROVE ReadInv
  OBVIOUS
<1> QED
  BY SizesAssumption DEF Init, ReadInv, TypeOK, BufferIsSlice

(* What a region puts is right when each byte is the image's.              *)
LEMMA PutStep ==
    ASSUME ReadInv, pc = "loop",
           UNCHANGED <<meta, disk, pc, asked, reply>>,
           NEW n \in Nat, n <= count,
           NEW bytes, DOMAIN bytes = 1 .. n,
           bytes \in Seq({"header", "boot", "file", "zero"} \X Nat),
           \A i \in 1 .. n : bytes[i] = Image!ByteAt(vpos + i - 1),
           Put(bytes)
    PROVE  ReadInv'
<1> DEFINE Cells == {"header", "boot", "file", "zero"} \X Nat
<1>0. bytes \in Seq(Cells)
  OBVIOUS
<1>1. Len(bytes) = n
  BY <1>0
<1> HIDE DEF Cells
<1>2. /\ buf \in Seq(Cells) /\ Len(buf) \in Nat
      /\ vpos \in Nat /\ count \in Nat /\ asked \in Nat /\ virtual_position \in Nat
  BY DEF ReadInv, TypeOK, Cells
<1>3. buf' = buf \o bytes /\ vpos' = vpos + n /\ count' = count - n
  BY <1>1 DEF Put
<1>4. /\ buf' \in Seq(Cells) /\ Len(buf') = Len(buf) + n
      /\ \A i \in 1 .. Len(buf) + n :
            buf'[i] = IF i <= Len(buf) THEN buf[i] ELSE bytes[i - Len(buf)]
  BY <1>0, <1>1, <1>2, <1>3, ConcatProperties
<1>5. TypeOK'
  BY <1>2, <1>3, <1>4 DEF ReadInv, TypeOK, meta, Cells
<1>6. BufferIsSlice'
  <2>1. \A i \in 1 .. Len(buf) : buf[i] = Image!ByteAt(virtual_position + i - 1)
    BY <1>2 DEF ReadInv, BufferIsSlice, Image!Slice
  <2>3. vpos = virtual_position + Len(buf)
    BY DEF ReadInv, BufferIsSlice
  <2>4. \A i \in 1 .. Len(buf) + n : buf'[i] = Image!ByteAt(virtual_position + i - 1)
    <3> SUFFICES ASSUME NEW i \in 1 .. Len(buf) + n
                 PROVE  buf'[i] = Image!ByteAt(virtual_position + i - 1)
      OBVIOUS
    <3>1. CASE i <= Len(buf)
      <4>1. i \in 1 .. Len(buf)
        BY <1>2, <3>1
      <4>2. buf'[i] = buf[i]
        BY <1>4, <3>1
      <4> QED
        BY <2>1, <4>1, <4>2
    <3>2. CASE i > Len(buf)
      <4>1. i - Len(buf) \in 1 .. n
        BY <1>2, <3>2
      <4>2. bytes[i - Len(buf)] = Image!ByteAt(vpos + (i - Len(buf)) - 1)
        BY <4>1
      <4>3. vpos + (i - Len(buf)) - 1 = virtual_position + i - 1
        BY <1>2, <2>3
      <4>4. buf'[i] = bytes[i - Len(buf)]
        BY <1>2, <1>4, <3>2
      <4> QED
        BY <4>2, <4>3, <4>4
    <3> QED
      BY <1>2, <3>1, <3>2
  <2>5. buf' = [i \in 1 .. Len(buf') |-> Image!ByteAt(virtual_position + i - 1)]
    <3>1. buf' = [i \in 1 .. Len(buf') |-> buf'[i]]
      BY <1>4
    <3> QED
      BY <1>2, <1>4, <2>4, <3>1
  <2>6. UNCHANGED <<virtual_position, real_file_size, pc, asked>>
    BY DEF meta
  <2>7. (buf = Image!Slice(virtual_position, Len(buf)))'
    <3>1. \A p \in Int : Image!ByteAt(p) = Image!ByteAt(p)'
      BY <2>6 DEF Image!ByteAt, Image!OfFile
    <3> QED
      BY <1>2, <1>4, <2>5, <2>6, <3>1 DEF Image!Slice
  <2>8. Len(buf') + count' = Len(buf) + count
    BY <1>2, <1>3, <1>4
  <2>9. vpos' = virtual_position' + Len(buf')
    BY <1>2, <1>3, <1>4, <2>3, <2>6
  <2>10. Len(buf') + count' = min_size(asked', ATR_TOTAL_SIZE - virtual_position')
    <3>1. Len(buf) + count = min_size(asked, ATR_TOTAL_SIZE - virtual_position)
      BY DEF ReadInv, BufferIsSlice
    <3> QED
      BY <2>6, <2>8, <3>1
  <2> QED
    BY <2>7, <2>9, <2>10 DEF BufferIsSlice, ATR_TOTAL_SIZE, min_size
<1> QED
  BY <1>5, <1>6 DEF ReadInv, meta

(* Each region's bytes are the image's.                                    *)
LEMMA HeaderStep == ReadInv /\ FromHeader => ReadInv'
<1> SUFFICES ASSUME ReadInv, FromHeader PROVE ReadInv'
  OBVIOUS
<1> DEFINE n == min_size(count, ATR_HEADER_SIZE - vpos)
           bytes == [i \in 1 .. n |-> Image!HeaderByte(vpos + i - 1)]
<1>1. vpos \in Nat /\ count \in Nat /\ ATR_HEADER_SIZE \in Nat /\ vpos < ATR_HEADER_SIZE
  BY Regions DEF ReadInv, TypeOK, FromHeader
<1>2. n \in Nat /\ n <= count /\ n <= ATR_HEADER_SIZE - vpos
  BY <1>1 DEF min_size
<1>3. bytes \in Seq({"header", "boot", "file", "zero"} \X Nat) /\ DOMAIN bytes = 1 .. n
  BY <1>1, <1>2 DEF Image!HeaderByte
<1>4. \A i \in 1 .. n : bytes[i] = Image!ByteAt(vpos + i - 1)
  BY <1>1, <1>2, Regions DEF Image!ByteAt, Image!OfFile
<1>5. pc = "loop" /\ Put(bytes) /\ UNCHANGED <<meta, disk, pc, asked, reply>>
  BY DEF FromHeader, Looping
<1> QED
  BY <1>2, <1>3, <1>4, <1>5, PutStep

(* A round in the boot program keeps it.                                   *)
LEMMA BootStep == ReadInv /\ FromBoot => ReadInv'
<1> SUFFICES ASSUME ReadInv, FromBoot PROVE ReadInv'
  OBVIOUS
<1> DEFINE n == min_size(count, boot_end - vpos)
           offset == vpos - ATR_HEADER_SIZE
           bytes == BootBytes(offset, n)
<1>1. /\ vpos \in Nat /\ count \in Nat /\ ATR_HEADER_SIZE \in Nat /\ boot_end \in Nat
      /\ atari_bootsector_bin_len \in Nat /\ vpos < boot_end /\ ATR_HEADER_SIZE <= vpos
  BY Regions DEF ReadInv, TypeOK, FromBoot
<1>2. n \in Nat /\ n <= count /\ n <= boot_end - vpos /\ offset \in Nat
  BY <1>1 DEF min_size
<1> HIDE DEF n
<1>3. bytes \in Seq({"header", "boot", "file", "zero"} \X Nat) /\ DOMAIN bytes = 1 .. n
  <2>1. \A i \in 1 .. n : Image!BootByte(offset + i - 1) \in {"boot"} \X Nat
    BY <1>1, <1>2 DEF Image!BootByte
  <2>2. \A i \in 1 .. n : bytes[i] \in {"header", "boot", "file", "zero"} \X Nat
    BY <2>1 DEF BootBytes, Image!Zero
  <2> QED
    BY <1>2, <2>2 DEF BootBytes
<1>4. \A i \in 1 .. n : bytes[i] = Image!ByteAt(vpos + i - 1)
  BY <1>1, <1>2, Regions DEF BootBytes, Image!ByteAt, Image!OfFile, min_size
<1>5. pc = "loop" /\ Put(bytes) /\ UNCHANGED <<meta, disk, pc, asked, reply>>
  BY DEF FromBoot, Looping, n
<1> QED
  BY <1>2, <1>3, <1>4, <1>5, PutStep

(* What a round takes from the file is what the image has there.           *)
LEMMA FileBytesAreImage ==
    ASSUME ReadInv, InFile, NEW n \in Nat, n <= file_bytes
    PROVE  /\ FileBytes(n) \in Seq({"header", "boot", "file", "zero"} \X Nat)
           /\ DOMAIN FileBytes(n) = 1 .. n
           /\ \A i \in 1 .. n : FileBytes(n)[i] = Image!ByteAt(vpos + i - 1)
           /\ n <= count
           /\ n < file_bytes => Image!OfFile(vpos + n)
<1>1. /\ vpos \in Nat /\ count \in Nat /\ real_file_size \in Nat
      /\ boot_end \in Nat /\ boot_end <= vpos /\ vpos < boot_end + real_file_size
      /\ {ATR_HEADER_SIZE, atari_bootsector_bin_len} \subseteq Nat
      /\ ATR_HEADER_SIZE + atari_bootsector_bin_len <= boot_end
      /\ Image!FileStart = boot_end
  BY Regions DEF ReadInv, TypeOK, InFile, file_end
<1>2. /\ file_bytes \in Nat /\ file_bytes <= count
      /\ file_bytes <= boot_end + real_file_size - vpos
  BY <1>1 DEF file_bytes, file_end, min_size, InFile, Looping
<1>3. \A i \in 1 .. n : FileBytes(n)[i] = Image!ByteAt(vpos + i - 1)
  BY <1>1, <1>2 DEF FileBytes, Image!ByteAt, Image!OfFile
<1>4. FileBytes(n) \in Seq({"header", "boot", "file", "zero"} \X Nat)
  BY <1>1 DEF FileBytes, Image!FileByte
<1> QED
  BY <1>1, <1>2, <1>3, <1>4 DEF FileBytes, Image!OfFile

(* A round in the file keeps the invariant.                                *)
LEMMA FileStep == ReadInv /\ FromFile => ReadInv'
<1> SUFFICES ASSUME ReadInv, FromFile PROVE ReadInv'
  OBVIOUS
<1>1. Available \in Nat /\ Available <= file_bytes
  <2>1. /\ {vpos, count, disk, real_file_size, boot_end} \subseteq Nat
        /\ boot_end <= vpos /\ vpos < file_end
    BY Regions DEF ReadInv, TypeOK, FromFile, InFile
  <2>2. file_bytes \in Nat
    BY <2>1 DEF file_bytes, file_end, min_size
  <2> QED
    BY <2>1, <2>2 DEF Available, min_size
<1>2. InFile /\ pc = "loop" /\ Put(FileBytes(Available))
      /\ UNCHANGED <<meta, disk, pc, asked, reply>>
  BY DEF FromFile, InFile, Looping
<1> QED
  BY <1>1, <1>2, FileBytesAreImage, PutStep

(* A round in the zeroes behind the file keeps it.                         *)
LEMMA PaddingStep == ReadInv /\ FromPadding => ReadInv'
<1> SUFFICES ASSUME ReadInv, FromPadding PROVE ReadInv'
  OBVIOUS
<1> DEFINE n == min_size(count, ATR_TOTAL_SIZE - vpos)
           bytes == [i \in 1 .. n |-> Image!Zero]
<1>1. /\ vpos \in Nat /\ count \in Nat /\ ATR_TOTAL_SIZE \in Nat /\ boot_end \in Nat
      /\ real_file_size \in Nat
      /\ vpos < ATR_TOTAL_SIZE /\ ATR_HEADER_SIZE <= vpos /\ boot_end + real_file_size <= vpos
  BY Regions DEF ReadInv, TypeOK, FromPadding, Looping, file_end
<1>2. n \in Nat /\ n <= count
  BY <1>1 DEF min_size
<1> HIDE DEF n
<1>3. bytes \in Seq({"header", "boot", "file", "zero"} \X Nat) /\ DOMAIN bytes = 1 .. n
  BY <1>2 DEF Image!Zero
<1>4. \A i \in 1 .. n : bytes[i] = Image!ByteAt(vpos + i - 1)
  BY <1>1, <1>2, Regions DEF Image!ByteAt, Image!OfFile
<1>5. pc = "loop" /\ Put(bytes) /\ UNCHANGED <<meta, disk, pc, asked, reply>>
  BY DEF FromPadding, Looping, n
<1> QED
  BY <1>2, <1>3, <1>4, <1>5, PutStep

(* The loop is left with a slice of the image, as long as was asked for,   *)
(* up to its end, or up to a byte of the file.                             *)
LEMMA ReturnStep ==
    ASSUME ReadInv, pc = "loop",
           NEW len \in Nat, len <= Len(buf) + count,
           \/ len = Len(buf) + count
           \/ Image!OfFile(virtual_position + len),
           Return(Image!Slice(virtual_position, len), virtual_position + len)
    PROVE  ReadInv' /\ Image!Read
<1>1. /\ {virtual_position, asked, MAX_IOSZ, ATR_TOTAL_SIZE, count, Len(buf)} \subseteq Nat
      /\ asked <= MAX_IOSZ
      /\ virtual_position < ATR_TOTAL_SIZE
      /\ Len(buf) + count = min_size(asked, ATR_TOTAL_SIZE - virtual_position)
  BY Regions DEF ReadInv, TypeOK, BufferIsSlice
<1>2. len <= asked /\ virtual_position + len <= ATR_TOTAL_SIZE
  BY <1>1 DEF min_size
<1>3. \/ len = asked
      \/ virtual_position + len >= ATR_TOTAL_SIZE
      \/ Image!OfFile(virtual_position + len)
  BY <1>1 DEF min_size
<1>4. /\ reply' = Image!Data(asked, Image!Slice(virtual_position, len))
      /\ virtual_position' = virtual_position + len
      /\ pc' = "idle" /\ LocalsGone /\ UNCHANGED <<real_file_size, disk>>
  BY DEF Return
<1>5. Image!Read
  BY <1>1, <1>2, <1>3, <1>4 DEF Image!Read
<1>6. ReadInv'
  BY <1>1, <1>4 DEF ReadInv, TypeOK, BufferIsSlice, LocalsGone
<1> QED
  BY <1>5, <1>6

(* Leaving the loop is the read of the image.                              *)
LEMMA LoopEndsStep == ReadInv /\ LoopEnds => ReadInv' /\ Image!Read
<1> SUFFICES ASSUME ReadInv, LoopEnds PROVE ReadInv' /\ Image!Read
  OBVIOUS
<1>1. /\ {virtual_position, asked, ATR_TOTAL_SIZE, count, vpos, Len(buf)} \subseteq Nat
      /\ virtual_position < ATR_TOTAL_SIZE
      /\ pc = "loop" /\ vpos = virtual_position + Len(buf)
      /\ Len(buf) + count = min_size(asked, ATR_TOTAL_SIZE - virtual_position)
      /\ buf = Image!Slice(virtual_position, Len(buf))
  BY Regions DEF ReadInv, TypeOK, BufferIsSlice, LoopEnds
<1>2. count = 0
  BY <1>1 DEF LoopEnds, Looping, min_size
<1>3. Return(Image!Slice(virtual_position, Len(buf)), virtual_position + Len(buf))
  BY <1>1 DEF LoopEnds
<1> QED
  BY <1>1, <1>2, <1>3, ReturnStep

(* So is leaving it where the file turns out shorter.                      *)
LEMMA FileEndsShortStep == ReadInv /\ FileEndsShort => ReadInv' /\ Image!Read
<1> SUFFICES ASSUME ReadInv, FileEndsShort PROVE ReadInv' /\ Image!Read
  OBVIOUS
<1> DEFINE n == Available
           len == Len(buf) + n
           both == buf \o FileBytes(n)
           Cells == {"header", "boot", "file", "zero"} \X Nat
<1>1. /\ {vpos, count, disk, real_file_size, boot_end, virtual_position} \subseteq Nat
      /\ Len(buf) \in Nat /\ buf \in Seq(Cells)
      /\ boot_end <= vpos /\ vpos < file_end
      /\ InFile /\ n < file_bytes
      /\ pc = "loop" /\ vpos = virtual_position + Len(buf)
      /\ buf = Image!Slice(virtual_position, Len(buf))
  BY Regions DEF ReadInv, TypeOK, BufferIsSlice, FileEndsShort, InFile, Looping
<1>2. file_bytes \in Nat
  BY <1>1 DEF file_bytes, file_end, min_size
<1>3. n \in Nat
  BY <1>1, <1>2 DEF Available, min_size
<1>0. len \in Nat /\ len = Len(buf) + n
  BY <1>1, <1>3
<1> HIDE DEF n, len, Cells
<1>4. /\ FileBytes(n) \in Seq(Cells) /\ Len(FileBytes(n)) = n
      /\ \A i \in 1 .. n : FileBytes(n)[i] = Image!ByteAt(vpos + i - 1)
      /\ n <= count /\ Image!OfFile(vpos + n)
  <2>1. n <= file_bytes /\ n < file_bytes
    BY <1>1, <1>2, <1>3
  <2> QED
    BY <1>1, <1>3, <2>1, FileBytesAreImage DEF Cells
<1>5. /\ both \in Seq(Cells) /\ Len(both) = len
      /\ \A i \in 1 .. len : both[i] =
            IF i <= Len(buf) THEN buf[i] ELSE FileBytes(n)[i - Len(buf)]
  <2>1. /\ both \in Seq(Cells)
        /\ Len(both) = Len(buf) + Len(FileBytes(n))
        /\ \A i \in 1 .. Len(buf) + Len(FileBytes(n)) : both[i] =
              IF i <= Len(buf) THEN buf[i] ELSE FileBytes(n)[i - Len(buf)]
    BY <1>1, <1>4, ConcatProperties
  <2> QED
    BY <1>0, <1>4, <2>1
<1> HIDE DEF both
<1>6. \A i \in 1 .. Len(buf) : buf[i] = Image!ByteAt(virtual_position + i - 1)
  BY <1>1 DEF Image!Slice
<1>7. \A i \in 1 .. len :
        both[i] = Image!ByteAt(virtual_position + i - 1)
  <2> SUFFICES ASSUME NEW i \in 1 .. len
               PROVE  both[i] = Image!ByteAt(virtual_position + i - 1)
    OBVIOUS
  <2>1. CASE i <= Len(buf)
    BY <1>0, <1>1, <1>3, <1>5, <1>6, <2>1
  <2>2. CASE i > Len(buf)
    <3>1. i - Len(buf) \in 1 .. n
      BY <1>0, <1>1, <1>3, <2>2
    <3>2. FileBytes(n)[i - Len(buf)] = Image!ByteAt(vpos + (i - Len(buf)) - 1)
      BY <1>4, <3>1
    <3>3. vpos + (i - Len(buf)) - 1 = virtual_position + i - 1
      BY <1>1
    <3>4. both[i] = FileBytes(n)[i - Len(buf)]
      BY <1>0, <1>1, <1>3, <1>5, <2>2
    <3> QED
      BY <3>2, <3>3, <3>4
  <2>3. Len(buf) \in Nat
    BY <1>1
  <2> QED
    BY <1>0, <2>1, <2>2, <2>3
<1>8. both = Image!Slice(virtual_position, len)
  <2>1. both = [i \in 1 .. len |-> both[i]]
    BY <1>5
  <2> QED
    BY <1>7, <2>1 DEF Image!Slice
<1>9. /\ Return(Image!Slice(virtual_position, len), virtual_position + len)
      /\ Image!OfFile(virtual_position + len)
      /\ len \in Nat /\ len <= Len(buf) + count
  <2>1. vpos + n = virtual_position + len
    BY <1>0, <1>1, <1>3
  <2> QED
    BY <1>0, <1>1, <1>3, <1>4, <1>8, <2>1 DEF FileEndsShort, n, both
<1> QED
  BY <1>1, <1>9, ReturnStep

(* A failure of the file is a short read, or one that fails.               *)
LEMMA FileFaultStep ==
    ReadInv /\ FileFault => ReadInv' /\ (Image!Read \/ (Image!ReadFails /\ UNCHANGED meta))
<1> SUFFICES ASSUME ReadInv, FileFault
             PROVE  ReadInv' /\ (Image!Read \/ (Image!ReadFails /\ UNCHANGED meta))
  OBVIOUS
<1>1. InFile
  BY DEF FileFault, FileFailsLate, FileFails
<1>2. /\ {vpos, count, real_file_size, boot_end, virtual_position, Len(buf)} \subseteq Nat
      /\ boot_end <= vpos /\ vpos < boot_end + real_file_size
      /\ pc = "loop" /\ vpos = virtual_position + Len(buf)
      /\ buf = Image!Slice(virtual_position, Len(buf))
      /\ Image!OfFile(vpos)
  BY <1>1, Regions DEF ReadInv, TypeOK, BufferIsSlice, InFile, Looping, file_end, Image!OfFile
<1>3. CASE FileFailsLate
  <2>1. Return(Image!Slice(virtual_position, Len(buf)), virtual_position + Len(buf))
    BY <1>2, <1>3 DEF FileFailsLate
  <2> QED
    BY <1>2, <2>1, ReturnStep
<1>4. CASE FileFails
  <2>1. vpos = virtual_position
    BY <1>2, <1>4 DEF FileFails
  <2>2. Image!ReadFails /\ UNCHANGED meta
    BY <1>2, <1>4, <2>1 DEF FileFails, Image!ReadFails, meta
  <2>3. ReadInv'
    BY <1>4, SizesAssumption DEF FileFails, LocalsGone, meta, ReadInv, TypeOK, BufferIsSlice
  <2> QED
    BY <2>2, <2>3
<1> QED
  BY <1>3, <1>4 DEF FileFault

(* What every step does: it keeps the invariant, and is a call of the      *)
(* image or shows nothing.                                                 *)
ImageStep == (Image!Next \/ UNCHANGED <<meta, reply>>)

(* Every step keeps the invariant and is a step of the image.              *)
LEMMA StepLemma == ReadInv /\ [Next]_vars => ReadInv' /\ ImageStep
<1> SUFFICES ASSUME ReadInv, [Next]_vars PROVE ReadInv' /\ ImageStep
  OBVIOUS
<1>1. CASE \E n \in 0 .. MAX_IOSZ : ReadAtEnd(n) \/ ReadBegins(n)
  <2>1. PICK n \in 0 .. MAX_IOSZ : ReadAtEnd(n) \/ ReadBegins(n)
    BY <1>1
  <2>2. /\ {virtual_position, ATR_TOTAL_SIZE, MAX_IOSZ, n} \subseteq Nat
        /\ n <= MAX_IOSZ
    BY Regions, <2>1 DEF ReadInv, TypeOK
  <2>3. CASE ReadAtEnd(n)
    <3>1. ReadInv'
      BY <2>3 DEF ReadAtEnd, locals, meta, ReadInv, TypeOK, BufferIsSlice
    <3>2. <<>> = Image!Slice(virtual_position, 0)
      BY DEF Image!Slice
    <3>3. Image!Read
      BY <2>2, <2>3, <3>2 DEF ReadAtEnd, meta, Image!Read
    <3> QED
      BY <2>3, <3>1, <3>3 DEF ReadAtEnd, meta, ImageStep, Image!Next
  <2>4. CASE ReadBegins(n)
    <3>1. count' = min_size(n, ATR_TOTAL_SIZE - virtual_position) /\ count' \in Nat
      BY <2>2, <2>4 DEF ReadBegins, min_size
    <3>2. TypeOK'
      BY <2>2, <2>4, <3>1 DEF ReadBegins, meta, ReadInv, TypeOK
    <3>3. BufferIsSlice'
      <4>1. buf' = <<>> /\ Len(buf') = 0 /\ vpos' = virtual_position' /\ asked' = n
            /\ virtual_position' = virtual_position
        BY <2>4 DEF ReadBegins, meta
      <4>2. (buf = Image!Slice(virtual_position, Len(buf)))'
        BY <4>1 DEF Image!Slice
      <4> QED
        BY <2>2, <3>1, <4>1, <4>2 DEF BufferIsSlice, min_size, ATR_TOTAL_SIZE
    <3>4. /\ (pc = "loop" => virtual_position < ATR_TOTAL_SIZE)'
          /\ (pc = "idle" => buf = <<>>)'
      BY <2>4 DEF ReadBegins, meta, ATR_TOTAL_SIZE
    <3> QED
      BY <2>4, <3>2, <3>3, <3>4 DEF ReadBegins, ReadInv, ImageStep
  <2> QED
    BY <2>1, <2>3, <2>4
<1>2. CASE LoopStep
  <2>1. CASE FromHeader
    BY <2>1, HeaderStep DEF FromHeader, ImageStep
  <2>2. CASE FromBoot
    BY <2>2, BootStep DEF FromBoot, ImageStep
  <2>3. CASE FromFile
    BY <2>3, FileStep DEF FromFile, ImageStep
  <2>4. CASE FileEndsShort
    <3>1. ReadInv' /\ Image!Read /\ UNCHANGED real_file_size
      BY <2>4, FileEndsShortStep DEF FileEndsShort, Return
    <3> QED
      BY <3>1 DEF ImageStep, Image!Next
  <2>5. CASE FromPadding
    BY <2>5, PaddingStep DEF FromPadding, ImageStep
  <2>6. CASE LoopEnds
    <3>1. ReadInv' /\ Image!Read /\ UNCHANGED real_file_size
      BY <2>6, LoopEndsStep DEF LoopEnds, Return
    <3> QED
      BY <3>1 DEF ImageStep, Image!Next
  <2> QED
    BY <1>2, <2>1, <2>2, <2>3, <2>4, <2>5, <2>6 DEF LoopStep
<1>3. CASE FileFault
  <2>1. UNCHANGED real_file_size
    BY <1>3 DEF FileFault, FileFailsLate, FileFails, Return, meta
  <2> QED
    BY <1>3, <2>1, FileFaultStep DEF ImageStep, Image!Next
<1>4. CASE Lseek
  <2>1. PICK offset \in SeekOffsets, base \in {0, virtual_position, ATR_TOTAL_SIZE} :
            SeekTo(base + offset)
    BY <1>4 DEF Lseek
  <2>2. base + offset \in Int
    BY <2>1, Regions, SizesAssumption DEF ReadInv, TypeOK
  <2>3. ReadInv'
    BY <2>1, <2>2 DEF SeekTo, locals, ReadInv, TypeOK, BufferIsSlice
  <2>4. Image!Seek
    BY <2>1, <2>2 DEF SeekTo, Image!Seek
  <2> QED
    BY <2>1, <2>3, <2>4 DEF SeekTo, ImageStep, Image!Next
<1>5. CASE Resize
  <2>1. PICK n \in 0 .. MaxFile : disk' = n /\ UNCHANGED <<meta, pc, locals, reply>>
    BY <1>5 DEF Resize
  <2>2. TypeOK'
    BY <2>1, SizesAssumption DEF meta, locals, ReadInv, TypeOK
  <2>3. BufferIsSlice'
    <3>1. \A p : Image!ByteAt(p) = Image!ByteAt(p)'
      BY <2>1 DEF meta, Image!ByteAt, Image!OfFile
    <3> QED
      BY <2>1, <3>1 DEF meta, locals, ReadInv, BufferIsSlice, Image!Slice, min_size,
                        ATR_TOTAL_SIZE
  <2> QED
    BY <2>1, <2>2, <2>3 DEF meta, locals, ReadInv, ImageStep, ATR_TOTAL_SIZE
<1>6. CASE UNCHANGED vars
  <2>1. UNCHANGED <<meta, disk, pc, locals, reply>>
    BY <1>6 DEF vars
  <2>2. TypeOK'
    BY <2>1 DEF meta, locals, ReadInv, TypeOK
  <2>3. BufferIsSlice'
    <3>1. \A p : Image!ByteAt(p) = Image!ByteAt(p)'
      BY <2>1 DEF meta, Image!ByteAt, Image!OfFile
    <3> QED
      BY <2>1, <3>1 DEF meta, locals, ReadInv, BufferIsSlice, Image!Slice, min_size,
                        ATR_TOTAL_SIZE
  <2> QED
    BY <2>1, <2>2, <2>3 DEF meta, locals, ReadInv, ImageStep, ATR_TOTAL_SIZE
<1> QED
  BY <1>1, <1>2, <1>3, <1>4, <1>5, <1>6 DEF Next

(* The inductive invariant of the reads holds of every behaviour.          *)
THEOREM ReadInvariant == Spec => []ReadInv
<1>1. ReadInv /\ [Next]_vars => ReadInv'
  BY StepLemma
<1> QED
  BY InitReadInv, <1>1, PTL DEF Spec

(* The variables of atari_virtual_read() keep their types: no position or  *)
(* remaining count goes below zero.                                        *)
THEOREM TypeCorrect == Spec => []TypeOK
<1>1. ReadInv => TypeOK
  BY DEF ReadInv
<1> QED
  BY ReadInvariant, <1>1, PTL

(* The buffer of atari_virtual_read() is always the slice of the image     *)
(* that starts at the position, whatever regions were crossed and whatever *)
(* became of the file.                                                     *)
THEOREM BufferIsImage == Spec => []BufferIsSlice
<1>1. ReadInv => BufferIsSlice
  BY DEF ReadInv
<1> QED
  BY ReadInvariant, <1>1, PTL

(* Every behaviour of the region loop, as its client sees it, is one of a  *)
(* plain file that holds the image.                                        *)
THEOREM ReadsImplementImage == Spec => ImplementsImage
<1>1. Init => Image!Init
  BY SizesAssumption DEF Init, Image!Init
<1>2. ReadInv /\ [Next]_vars => [Image!Next]_<<real_file_size, virtual_position, reply>>
  BY StepLemma DEF ImageStep, meta
<1> QED
  BY <1>1, <1>2, ReadInvariant, PTL DEF Spec, ImplementsImage, Image!Spec
=============================================================================
