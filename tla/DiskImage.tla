------------------------------ MODULE DiskImage ------------------------------
(***************************************************************************)
(* What the client of a virtual disk image is promised, without regions or *)
(* loops: the image is a header, the boot program filled up with zeros to  *)
(* whole sectors, the bytes the file had when it was opened, and zeros up  *)
(* to a fixed size. READ returns the bytes from the position on, as many   *)
(* as asked for or as there are; LSEEK moves the position. Only the file's *)
(* own bytes can fail to come: a read may stop early, or be refused, there *)
(* and nowhere else.                                                       *)
(* A byte is known by where it comes from.                                 *)
(***************************************************************************)
EXTENDS Integers, Sequences

CONSTANTS
    HeaderSize, BootLen, SectorSize, ImageSize,
    MaxCount    \* the longest READ

VARIABLES
    size,   \* length of the file when it was opened
    at,     \* position
    reply   \* the last answer

HeaderByte(i) == <<"header", i>>
BootByte(i) == <<"boot", i>>
FileByte(i) == <<"file", i>>
Zero == <<"zero", 0>>

BootSize == CHOOSE n \in BootLen .. BootLen + SectorSize - 1 : n % SectorSize = 0
FileStart == HeaderSize + BootSize

(* Is p the position of one of the file's own bytes?                       *)
OfFile(p) == FileStart <= p /\ p < FileStart + size

ByteAt(p) ==
    CASE p < HeaderSize                          -> HeaderByte(p)
      [] p \in HeaderSize .. HeaderSize + BootLen - 1 -> BootByte(p - HeaderSize)
      [] OfFile(p)                               -> FileByte(p - FileStart)
      [] OTHER                                   -> Zero

Slice(from, len) == [i \in 1 .. len |-> ByteAt(from + i - 1)]

Data(asked, bytes) == [kind |-> "data", asked |-> asked, bytes |-> bytes]
Position(p) == [kind |-> "position", at |-> p]
Error == [kind |-> "error"]

Init ==
    /\ size \in Nat
    /\ at = 0
    /\ reply = Position(0)

Read ==
    \E asked \in 0 .. MaxCount : \E len \in 0 .. asked :
        /\ len > 0 => at + len <= ImageSize
        /\ len = asked \/ at + len >= ImageSize \/ OfFile(at + len)
        /\ reply' = Data(asked, Slice(at, len))
        /\ at' = at + len

ReadFails ==
    /\ OfFile(at)
    /\ reply' = Error
    /\ UNCHANGED at

Seek ==
    \/ at' \in Nat /\ reply' = Position(at')
    \/ UNCHANGED at /\ reply' = Error

Next == (Read \/ ReadFails \/ Seek) /\ UNCHANGED size

Spec == Init /\ [][Next]_<<size, at, reply>>
=============================================================================
