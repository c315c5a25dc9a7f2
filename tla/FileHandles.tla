----------------------------- MODULE FileHandles -----------------------------
(***************************************************************************)
(* What the file handles of a session promise their client: a handle is a  *)
(* view of one file, the file itself or its disk image, with one position. *)
(* Reads and writes on it start there and move it by what they transfer;   *)
(* nothing else moves it but the client's own seeks, and nothing takes it  *)
(* away but its CLOSE or the end of the session.                           *)
(***************************************************************************)
EXTENDS Integers

CONSTANTS
    Handles, NoHandle,
    ImageSize, ImageStart,   \* size of a disk image, and where its file begins
    MaxCount,                \* the longest transfer
    SeekLimit                \* positions from here on do not fit a reply

VARIABLES
    disk,     \* disk[i].len is the present length of file i
    handle,   \* handle[h] is the view of handle h, or NoHandle
    reply     \* the last answer

(* seen is not in the answer: whether OPEN could look at the file it opened. *)
Handle(h, seen) == [kind |-> "handle", handle |-> h, seen |-> seen]
Data(view, from, asked, len) ==
    [kind |-> "data", view |-> view, from |-> from, asked |-> asked, len |-> len]
Moved(at) == [kind |-> "moved", at |-> at]
Ok(n) == [kind |-> "ok", count |-> n]
Error == [kind |-> "error"]
NoReply == [kind |-> "none"]   \* what happened was no request of the client

Init == handle = [h \in Handles |-> NoHandle] /\ reply = Ok(0)

Open(h) ==
    /\ handle[h] = NoHandle
    /\ \E seen \in BOOLEAN : reply' = Handle(h, seen)
    /\ \E file \in DOMAIN disk, view \in {"plain", "image"} :
          handle' = [handle EXCEPT ![h] =
                        [file |-> file, view |-> view, at |-> 0,
                         size |-> IF view = "image" THEN disk'[file].len ELSE 0]]

(* Every byte there is from the position on, up to what was asked for.     *)
ReadsAll(v, asked, len) ==
    LET end == IF v.view = "image" THEN ImageSize ELSE disk[v.file].len
    IN  /\ len = asked \/ v.at + len >= end
        /\ len = 0 \/ v.at + len <= end

(* An image is cut short where its file lost bytes since it was opened.    *)
CutShort(v, len) ==
    /\ v.view = "image"
    /\ v.at + len - ImageStart \in disk[v.file].len .. v.size - 1

Read(h) ==
    /\ handle[h] # NoHandle
    /\ \E asked \in 0 .. MaxCount : \E len \in 0 .. asked :
          /\ reply' = Data(handle[h].view, handle[h].at, asked, len)
          /\ ReadsAll(handle[h], asked, len) \/ CutShort(handle[h], len)
          /\ handle' = [handle EXCEPT ![h].at = @ + len]

(* A write goes to the file, at the position or (a file open to append) at *)
(* its end, and never to an image.                                         *)
Write(h) ==
    /\ handle[h] # NoHandle
    /\ handle[h].view = "plain"
    /\ \E n \in 0 .. MaxCount :
          /\ reply' = Ok(n)
          /\ \E start \in {handle[h].at, disk[handle[h].file].len} :
                handle' = [handle EXCEPT ![h].at = start + n]

Seek(h) ==
    /\ handle[h] # NoHandle /\ handle'[h] # NoHandle
    /\ reply'.kind \in {"moved", "error"}
    /\ LET at == handle'[h].at IN
          /\ at \in Nat
          /\ handle' = [handle EXCEPT ![h].at = at]
          /\ at < SeekLimit => reply' = Moved(at)

Close(h) ==
    /\ handle[h] # NoHandle
    /\ handle' = [handle EXCEPT ![h] = NoHandle]

EndOfSession == handle' = [h \in Handles |-> NoHandle]

(* Requests on paths, and requests refused                                 *)
Other == reply'.kind \in {"ok", "size", "error", "none"} /\ UNCHANGED handle

Next == Other \/ (\E h \in Handles : Open(h) \/ Read(h) \/ Write(h) \/ Close(h) \/ Seek(h))
        \/ EndOfSession

Spec == Init /\ [][Next]_<<handle, reply>>
=============================================================================
