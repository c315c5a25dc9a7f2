---------------------------- MODULE SessionTable ----------------------------
(***************************************************************************)
(* The session table of tnfsd (session.c: slist[]) and the functions that  *)
(* read and write it, as operators and actions over two variables:         *)
(*   slist    slist[i] is a session record or NoSession (a NULL pointer);  *)
(*   openfds  the kernel descriptors this process has open.                *)
(* The module has no next-state relation of its own: Sessions closes the   *)
(* table with the weakest environment it can have, Server with the main    *)
(* loop that really calls it.                                              *)
(*                                                                         *)
(* A time stamp is kept as an age: s.idle is now - s->last_contact, capped *)
(* at SESSION_TIMEOUT, the only threshold it is compared with. s.files is  *)
(* the set of descriptors in s->fd[]; directory handles have a module of   *)
(* their own. NoSid, NoFd and NoIp stand for the 0 of the code.            *)
(***************************************************************************)
EXTENDS Naturals, FiniteSets

CONSTANTS
    MAX_SESSIONS,          \* size of slist[]
    MAX_SESSIONS_PER_IP,   \* sessions after which a MOUNT recycles one
    SESSION_TIMEOUT,       \* idle time after which a session lapses, 0 = never
    MAX_FD_PER_CONN,       \* size of a session's fd[]
    IPs,                   \* client addresses
    Sids,                  \* non-zero session identifiers
    Fds,                   \* descriptors the process may be given
    NoIp, NoSid, NoFd, NoSession

ASSUME SessionConstants ==
    /\ MAX_SESSIONS \in Nat
    /\ MAX_SESSIONS_PER_IP \in Nat
    /\ SESSION_TIMEOUT \in Nat
    /\ MAX_FD_PER_CONN \in Nat

ASSUME ZeroesAreNoValue == NoIp \notin IPs /\ NoSid \notin Sids /\ NoFd \notin Fds

VARIABLES slist, openfds

tableVars == <<slist, openfds>>

Slots == 0 .. MAX_SESSIONS - 1

Session == [sid     : Sids,
            ipaddr  : IPs \cup {NoIp},
            cli_fd  : Fds \cup {NoFd},
            idle    : 0 .. SESSION_TIMEOUT,
            files   : SUBSET Fds]

ASSUME NoSessionIsNull == NoSession \notin Session

TableTypeOK ==
    /\ slist \in [Slots -> Session \cup {NoSession}]
    /\ openfds \in SUBSET Fds

TableInit ==
    /\ slist = [i \in Slots |-> NoSession]
    /\ openfds = {}

-----------------------------------------------------------------------------
(* Reading the table. *)

Used == {i \in Slots : slist[i] # NoSession}

Expired(s) ==
    /\ SESSION_TIMEOUT > 0
    /\ s.idle = SESSION_TIMEOUT
    /\ s.cli_fd = NoFd

FilesOf(S) == UNION {slist[i].files : i \in S}

(* Mutated form: sessions of every address count. *)
MatchAnyIp(ip) == {i \in Used : ~ Expired(slist[i])}

(* The sessions tnfs_findsession_ipaddr() counts for ip. *)
Match(ip) == {i \in Used : ~ Expired(slist[i]) /\ slist[i].ipaddr = ip}

(* The scan returns at the match that makes the count reach                *)
(* MAX_SESSIONS_PER_IP, but never at the first match.                      *)
Limit == IF MAX_SESSIONS_PER_IP < 2 THEN 2 ELSE MAX_SESSIONS_PER_IP

Scanned(ip) == {i \in Slots : Cardinality({j \in Match(ip) : j < i}) < Limit}

(* What the scan frees on its way. *)
LapsedSeen(ip) == {i \in Scanned(ip) \cap Used : Expired(slist[i])}

(* Mutated form: one session more is let in before recycling starts. *)
VictimLate(ip) ==
    {i \in Match(ip) : /\ Cardinality(Match(ip)) > Limit
                       /\ \A j \in Match(ip) : i <= j}

(* The session a MOUNT recycles: none, or the first match. *)
Victim(ip) ==
    {i \in Match(ip) : /\ Cardinality(Match(ip)) >= Limit
                       /\ \A j \in Match(ip) : i <= j}

MountFrees(ip) == LapsedSeen(ip) \cup Victim(ip)

(* Where tnfs_allocsession() may put a session once MountFrees(ip) is gone. *)
FreeSlots(ip) == Slots \ (Used \ MountFrees(ip))

(* Mutated form: tnfs_newsid() does not look for the number in the table. *)
NewSidsUnchecked(ip) ==
    IF Victim(ip) # {} THEN {slist[i].sid : i \in Victim(ip)} ELSE Sids

(* Mutated form: a session is stored although tnfs_newsid() had no number. *)
NewSidsZero(ip) ==
    IF Victim(ip) # {}
    THEN {slist[i].sid : i \in Victim(ip)}
    ELSE {NoSid} \cup (Sids \ {slist[i].sid : i \in Used \ MountFrees(ip)})

(* The identifier of the new session: the recycled one, or one tnfs_newsid *)
(* does not find in the table.                                             *)
NewSids(ip) ==
    IF Victim(ip) # {}
    THEN {slist[i].sid : i \in Victim(ip)}
    ELSE Sids \ {slist[i].sid : i \in Used \ MountFrees(ip)}

-----------------------------------------------------------------------------
(* Writing the table. *)

(* Mutated form: the descriptors of a freed session are not closed. *)
FreeSessionsOnly(S) ==
    /\ slist' = [i \in Slots |-> IF i \in S THEN NoSession ELSE slist[i]]
    /\ UNCHANGED openfds

(* tnfs_freesession() on every slot of S. *)
FreeSessions(S) ==
    /\ slist' = [i \in Slots |-> IF i \in S THEN NoSession ELSE slist[i]]
    /\ openfds' = openfds \ FilesOf(S)

(* tnfs_freesession() on MountFrees(ip), then s in the lowest free slot. *)
Allocate(ip, s) ==
    \E slot \in FreeSlots(ip) :
        /\ \A j \in FreeSlots(ip) : slot <= j
        /\ slist' = [i \in Slots |-> IF i = slot THEN s
                                     ELSE IF i \in MountFrees(ip) THEN NoSession
                                     ELSE slist[i]]
        /\ openfds' = openfds \ FilesOf(MountFrees(ip))

(* A MOUNT that ends with a session for ip, bound to the connection fd     *)
(* (NoFd: the request came in a datagram).                                 *)
MountOk(ip, fd) ==
    \E sid \in NewSids(ip) :
        Allocate(ip, [sid |-> sid, ipaddr |-> ip, cli_fd |-> fd,
                      idle |-> 0, files |-> {}])

(* A MOUNT that ends without one: no memory for it, no free slot, no       *)
(* identifier, or a root directory that cannot be opened. What was freed   *)
(* to make room stays freed.                                               *)
MountFails(ip) == FreeSessions(MountFrees(ip))

(* A MOUNT that finds no memory for the root path returns with the zeroed  *)
(* session still in its slot.                                              *)
MountNoRoot(ip) ==
    \E sid \in NewSids(ip) :
        Allocate(ip, [sid |-> sid, ipaddr |-> NoIp, cli_fd |-> NoFd,
                      idle |-> SESSION_TIMEOUT, files |-> {}])

(* What every request other than MOUNT does to its session first. *)
Contacted(i, fd) == [slist[i] EXCEPT !.cli_fd = fd, !.idle = 0]

MayUse(i, ip) == i \in Used /\ slist[i].ipaddr = ip

(* A request that changes nothing else: a resend, a bad command, or one    *)
(* that only reads or writes files.                                        *)
Serve(i, fd) ==
    /\ slist' = [slist EXCEPT ![i] = Contacted(i, fd)]
    /\ UNCHANGED openfds

OpenFile(i, fd) ==
    /\ Cardinality(slist[i].files) < MAX_FD_PER_CONN
    /\ \E f \in Fds \ openfds :
        /\ slist' = [slist EXCEPT ![i] =
                        [Contacted(i, fd) EXCEPT !.files = @ \cup {f}]]
        /\ openfds' = openfds \cup {f}

(* The place in fd[] is released whatever close() returns. *)
CloseFile(i, fd) ==
    \E f \in slist[i].files :
        /\ slist' = [slist EXCEPT ![i] =
                        [Contacted(i, fd) EXCEPT !.files = @ \ {f}]]
        /\ openfds' = openfds \ {f}

Umount(i) == FreeSessions({i})

Sweep == FreeSessions({i \in Used : Expired(slist[i])})

FreeAll == FreeSessions(Used)

(* Mutated form: the sessions keep the descriptor of a closed connection. *)
UnboundKept(F) == slist

(* slist after tnfs_reset_cli_fd_in_sessions() for every descriptor of F. *)
Unbound(F) ==
    [i \in Slots |-> IF slist[i] # NoSession /\ slist[i].cli_fd \in F
                     THEN [slist[i] EXCEPT !.cli_fd = NoFd]
                     ELSE slist[i]]

(* slist one unit of time later. *)
Aged ==
    [i \in Slots |-> IF slist[i] # NoSession /\ slist[i].idle < SESSION_TIMEOUT
                     THEN [slist[i] EXCEPT !.idle = @ + 1]
                     ELSE slist[i]]
=============================================================================
