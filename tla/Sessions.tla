------------------------------ MODULE Sessions ------------------------------
(***************************************************************************)
(* The session table under the weakest caller: TCP connections come and    *)
(* go, requests arrive on any of them or in datagrams, time passes, and    *)
(* the sweep of expired sessions runs when it likes. What holds here holds *)
(* of the server whatever order its main loop does things in; Server shows *)
(* that the main loop is such a caller.                                    *)
(***************************************************************************)
EXTENDS SessionTable

VARIABLE conns   \* the descriptors of the accepted TCP connections

vars == <<slist, openfds, conns>>

TypeOK == TableTypeOK /\ conns \in SUBSET Fds

Init == TableInit /\ conns = {}

(* Where a request comes from: a connection, or NoFd for a datagram. *)
Origins == conns \cup {NoFd}

Connect(fd) ==
    /\ fd \in Fds \ openfds
    /\ conns' = conns \cup {fd}
    /\ openfds' = openfds \cup {fd}
    /\ UNCHANGED slist

(* tnfs_close_tcp() on every connection of F. *)
Disconnect(F) ==
    /\ slist' = Unbound(F)
    /\ conns' = conns \ F
    /\ openfds' = openfds \ F

Mount(ip, fd) ==
    /\ UNCHANGED conns
    /\ MountOk(ip, fd) \/ MountFails(ip) \/ MountNoRoot(ip)

Request(i, ip, fd) ==
    /\ UNCHANGED conns
    /\ MayUse(i, ip)
    /\ Serve(i, fd) \/ OpenFile(i, fd) \/ CloseFile(i, fd) \/ Umount(i)

Expire == Sweep /\ UNCHANGED conns

Tick == slist' = Aged /\ UNCHANGED <<openfds, conns>>

FreeEverything == FreeAll /\ UNCHANGED conns

Next ==
    \/ Tick
    \/ Expire
    \/ FreeEverything
    \/ \E F \in SUBSET conns : Disconnect(F)
    \/ \E fd \in Fds : Connect(fd)
    \/ \E i \in Slots, ip \in IPs, fd \in Origins : Request(i, ip, fd)
    \/ \E ip \in IPs, fd \in Origins : Mount(ip, fd)

Spec == Init /\ [][Next]_vars

-----------------------------------------------------------------------------
(* No two sessions answer to the same identifier, although a MOUNT reuses  *)
(* the identifier of the session it evicts (session.c, tnfs_mount) and     *)
(* tnfs_findsession_sid() takes the first slot that has it.                *)
UniqueSids ==
    \A i, j \in Used : slist[i].sid = slist[j].sid => i = j

(* A session that claims a TCP connection names one that is still open:    *)
(* such a session is exempt from expiry, so a claim that outlives its      *)
(* connection would keep the session and its files for ever.               *)
CliFdLive == \A i \in Used : slist[i].cli_fd \in conns \cup {NoFd}

(* Every open descriptor has exactly one owner, a connection or a place in *)
(* one session's fd[], and every owner's descriptor is open: nothing leaks *)
(* when a session is freed, and nobody closes or uses a number the kernel  *)
(* has since given to somebody else.                                       *)
OneOwner ==
    /\ openfds = conns \cup FilesOf(Used)
    /\ \A i \in Used : slist[i].files \cap conns = {}
    /\ \A i, j \in Used : i # j => slist[i].files \cap slist[j].files = {}

(* MAX_SESSIONS_PER_IP is "max sessions from one IP" (config.h).           *)
PerIpLimit ==
    \A ip \in IPs :
        Cardinality({i \in Used : slist[i].ipaddr = ip}) <= MAX_SESSIONS_PER_IP

Names == {<<slist[i].sid, slist[i].ipaddr>> : i \in Used}

(* A step that brings a session into being ends no unexpired session of    *)
(* another client: a MOUNT recycles only sessions of its own address, and  *)
(* an identifier never passes from one client's live session to another's. *)
EvictsOnlyOwnIp ==
    [][\A i \in Used, j \in Slots :
          /\ ~ Expired(slist[i])
          /\ <<slist[i].sid, slist[i].ipaddr>> \notin Names'
          /\ slist'[j] # NoSession
          /\ <<slist'[j].sid, slist'[j].ipaddr>> \notin Names
          => slist'[j].ipaddr \in {slist[i].ipaddr, NoIp}]_vars
=============================================================================
