---------------------------- MODULE Server_proofs ----------------------------
(***************************************************************************)
(* Proofs about Server, for every size of its tables, every timeout and    *)
(* every set of clients, identifiers and descriptors: the main loop takes  *)
(* only steps that Sessions allows, and what its own order of calls is     *)
(* for: it never reads a connection with nothing to read, never serves one *)
(* it has marked dead, and leaves nothing open behind.                     *)
(***************************************************************************)
EXTENDS Server, TLAPS

(* The places of tcpsocks: an empty one is all zeroes, an open one has a   *)
(* client.                                                                 *)
Places == \A k \in Conns : IF k \in Open THEN tcpsocks[k].ip \in IPs
                                         ELSE tcpsocks[k] = NoConn

(* What the last wait reported stays a connection until it is served.      *)
ReadyAreConns == pc \in {"udp", "accept"} => ready \cap Fds \subseteq ConnFds

(* The connections that a pass may still serve are not marked dead.        *)
DeadAreBehind ==
    /\ pc \in {"sweep", "wait", "udp", "accept"} =>
          \A k \in Conns : tcpsocks[k].idle # Dead
    /\ pc = "scan" =>
          \A k \in Conns : k >= scan => tcpsocks[k].idle # Dead

(* The way out: connections first, then sessions.                          *)
Leaving ==
    /\ pc \in {"free", "done"} => Open = {}
    /\ pc = "done" => Used = {}

(* The inductive invariant.                                                *)
ServerInv ==
    /\ TypeOK
    /\ Table!TableInv
    /\ Places
    /\ ConnsDistinct
    /\ ReadyAreConns
    /\ NeverBlocks
    /\ DeadAreBehind
    /\ Leaving

-----------------------------------------------------------------------------
(* The operators of SessionTable are the same in the instance: none of     *)
(* them depends on the connections.                                        *)

(* Counting.                                                               *)
LEMMA TableCardinality ==
    ASSUME NEW S
    PROVE  Table!Cardinality(S) = Cardinality(S)
  BY DEF Table!Cardinality, Cardinality

(* The sets and the tests.                                                 *)
LEMMA TableSets ==
    /\ Table!Slots = Slots
    /\ Table!Session = Session
    /\ Table!Used = Used
    /\ Table!Limit = Limit
    /\ \A s : Table!Expired(s) <=> Expired(s)
    /\ \A S : Table!FilesOf(S) = FilesOf(S)
  BY DEF Table!Slots, Slots, Table!Session, Session, Table!Used, Used, Table!Limit,
         Limit, Table!Expired, Expired, Table!FilesOf, FilesOf

(* What a MOUNT looks for.                                                 *)
LEMMA TableMatch ==
    ASSUME NEW ip
    PROVE  /\ Table!MountFrees(ip) = MountFrees(ip)
           /\ Table!FreeSlots(ip) = FreeSlots(ip)
           /\ Table!NewSids(ip) = NewSids(ip)
  <1>0. Table!Match(ip) = Match(ip) /\ Table!Limit = Limit
    BY TableSets DEF Table!Match, Match
  <1>1. Table!LapsedSeen(ip) = LapsedSeen(ip)
    <2>1. ASSUME NEW i
          PROVE  /\ {j \in Table!Match(ip) : j < i} = {j \in Match(ip) : j < i}
                 /\ Table!Cardinality({j \in Match(ip) : j < i})
                      = Cardinality({j \in Match(ip) : j < i})
      BY <1>0, TableCardinality
    <2>2. ASSUME NEW i
          PROVE  (i \in Table!Scanned(ip)) <=> (i \in Scanned(ip))
      BY <1>0, <2>1, TableSets DEF Table!Scanned, Scanned
    <2> QED
      BY <2>2, TableSets DEF Table!LapsedSeen, LapsedSeen
  <1>2. Table!Victim(ip) = Victim(ip)
    <2>1. Table!Cardinality(Match(ip)) = Cardinality(Match(ip))
      BY TableCardinality
    <2> QED
      BY <1>0, <2>1 DEF Table!Victim, Victim
  <1>3. Table!MountFrees(ip) = MountFrees(ip)
    BY <1>1, <1>2 DEF Table!MountFrees, MountFrees
  <1>4. Table!FreeSlots(ip) = FreeSlots(ip)
    BY <1>3, TableSets DEF Table!FreeSlots, FreeSlots
  <1>5. Table!NewSids(ip) = NewSids(ip)
    BY <1>2, <1>3, TableSets DEF Table!NewSids, NewSids
  <1> QED
    BY <1>3, <1>4, <1>5

(* Freeing sessions.                                                       *)
LEMMA TableFree ==
    /\ \A S : Table!FreeSessions(S) <=> FreeSessions(S)
    /\ Table!Sweep <=> Sweep
    /\ Table!FreeAll <=> FreeAll
  <1>1. \A S : Table!FreeSessions(S) <=> FreeSessions(S)
    BY TableSets DEF Table!FreeSessions, FreeSessions
  <1> QED
    BY <1>1, TableSets DEF Table!Sweep, Sweep, Table!FreeAll, FreeAll

(* A MOUNT.                                                                *)
LEMMA TableMount ==
    ASSUME NEW ip, NEW fd
    PROVE  /\ Table!MountOk(ip, fd) <=> MountOk(ip, fd)
           /\ Table!MountFails(ip) <=> MountFails(ip)
           /\ Table!MountNoRoot(ip) <=> MountNoRoot(ip)
  <1>1. \A s : Table!Allocate(ip, s) <=> Allocate(ip, s)
    BY TableSets, TableMatch DEF Table!Allocate, Allocate
  <1>2. Table!MountOk(ip, fd) <=> MountOk(ip, fd)
    BY <1>1, TableMatch DEF Table!MountOk, MountOk
  <1>3. Table!MountFails(ip) <=> MountFails(ip)
    BY TableMatch, TableFree DEF Table!MountFails, MountFails
  <1>4. Table!MountNoRoot(ip) <=> MountNoRoot(ip)
    BY <1>1, TableMatch DEF Table!MountNoRoot, MountNoRoot
  <1> QED
    BY <1>2, <1>3, <1>4

(* Every other request.                                                    *)
LEMMA TableRequest ==
    ASSUME NEW i, NEW ip, NEW fd
    PROVE  /\ Table!MayUse(i, ip) <=> MayUse(i, ip)
           /\ Table!Serve(i, fd) <=> Serve(i, fd)
           /\ Table!OpenFile(i, fd) <=> OpenFile(i, fd)
           /\ Table!CloseFile(i, fd) <=> CloseFile(i, fd)
           /\ Table!Umount(i) <=> Umount(i)
  <1>1. Table!Contacted(i, fd) = Contacted(i, fd)
    BY DEF Table!Contacted, Contacted
  <1>2. Table!MayUse(i, ip) <=> MayUse(i, ip)
    BY TableSets DEF Table!MayUse, MayUse
  <1>3. Table!Serve(i, fd) <=> Serve(i, fd)
    BY <1>1 DEF Table!Serve, Serve
  <1>4. Table!OpenFile(i, fd) <=> OpenFile(i, fd)
    BY <1>1, TableCardinality DEF Table!OpenFile, OpenFile
  <1>5. Table!CloseFile(i, fd) <=> CloseFile(i, fd)
    BY DEF Table!CloseFile, CloseFile, Table!Contacted, Contacted
  <1>6. Table!Umount(i) <=> Umount(i)
    BY TableFree DEF Table!Umount, Umount
  <1> QED
    BY <1>2, <1>3, <1>4, <1>5, <1>6

(* Claims on connections, and time.                                        *)
LEMMA TableTime ==
    /\ Table!Aged = Aged
    /\ \A F : Table!Unbound(F) = Unbound(F)
  BY TableSets DEF Table!Aged, Aged, Table!Unbound, Unbound

-----------------------------------------------------------------------------
(* What the loop does to its connections. *)

FdsOf(K) == {tcpsocks[k].cli_fd : k \in K}

(* The descriptors of the connections are descriptors.                     *)
LEMMA ConnFdsAreFds ==
    ASSUME TypeOK
    PROVE  /\ ConnFds \subseteq Fds
           /\ \A k \in Open : tcpsocks[k].cli_fd \in ConnFds
           /\ sockfd \notin ConnFds /\ tcplistenfd \notin ConnFds
  <1>1. \A k \in Open : tcpsocks[k].cli_fd \in Fds
    BY DEF TypeOK, Open, Connection
  <1> QED
    BY <1>1, ServerSockets DEF ConnFds

(* What leaves every cli_fd alone leaves the connections alone.            *)
LEMMA SameConns ==
    ASSUME \A k \in Conns : tcpsocks'[k].cli_fd = tcpsocks[k].cli_fd
    PROVE  Open' = Open /\ ConnFds' = ConnFds
  <1>1. Open' = Open
    BY DEF Open
  <1>2. Open \subseteq Conns
    BY DEF Open
  <1> QED
    BY <1>1, <1>2 DEF ConnFds

(* Closing connections empties their places, and no other.                 *)
LEMMA CloseTcpResult ==
    ASSUME TypeOK, ConnsDistinct, NEW K \in SUBSET Open, CloseTcp(K)
    PROVE  /\ tcpsocks' = [k \in Conns |-> IF k \in K THEN NoConn ELSE tcpsocks[k]]
           /\ Open' = Open \ K
           /\ FdsOf(K) \in SUBSET ConnFds
           /\ ConnFds' = ConnFds \ FdsOf(K)
           /\ slist' = Unbound(FdsOf(K))
           /\ openfds' = openfds \ FdsOf(K)
           /\ rx' = [fd \in Fds |-> IF fd \in FdsOf(K) THEN "none" ELSE rx[fd]]
  <1>1. /\ tcpsocks' = [k \in Conns |-> IF k \in K THEN NoConn ELSE tcpsocks[k]]
        /\ slist' = Unbound(FdsOf(K))
        /\ openfds' = openfds \ FdsOf(K)
        /\ rx' = [fd \in Fds |-> IF fd \in FdsOf(K) THEN "none" ELSE rx[fd]]
    BY DEF CloseTcp, FdsOf
  <1>2. Open' = Open \ K
    BY <1>1 DEF Open, NoConn
  <1>3. \A k \in Open \ K : tcpsocks'[k] = tcpsocks[k]
    BY <1>1 DEF Open
  <1>4. ConnFds' = ConnFds \ FdsOf(K)
    BY <1>2, <1>3 DEF ConnFds, FdsOf, ConnsDistinct
  <1>5. FdsOf(K) \in SUBSET ConnFds
    BY DEF FdsOf, ConnFds
  <1> QED
    BY <1>1, <1>2, <1>4, <1>5

(* A new connection takes an empty place and an unused number.             *)
LEMMA TakeResult ==
    ASSUME TypeOK, NEW ip \in IPs, TakeConnection(ip)
    PROVE  \E fd \in Fds \ openfds, k \in Conns \ Open :
              /\ tcpsocks' = [tcpsocks EXCEPT ![k] =
                                [cli_fd |-> fd, ip |-> ip, idle |-> 0]]
              /\ openfds' = openfds \cup {fd}
              /\ Open' = Open \cup {k}
              /\ ConnFds' = ConnFds \cup {fd}
  <1>1. PICK fd \in Fds \ openfds, k \in Conns \ Open :
          /\ tcpsocks' = [tcpsocks EXCEPT ![k] = [cli_fd |-> fd, ip |-> ip, idle |-> 0]]
          /\ openfds' = openfds \cup {fd}
    BY DEF TakeConnection
  <1>2. /\ tcpsocks'[k] = [cli_fd |-> fd, ip |-> ip, idle |-> 0]
        /\ \A j \in Conns \ {k} : tcpsocks'[j] = tcpsocks[j]
    BY <1>1 DEF TypeOK
  <1>3. Open' = Open \cup {k}
    BY <1>1, <1>2, ZeroesAreNoValue DEF Open
  <1>4. Open \subseteq Conns \ {k}
    BY <1>1 DEF Open
  <1>5. ConnFds' = ConnFds \cup {fd}
    BY <1>2, <1>3, <1>4 DEF ConnFds
  <1> QED
    BY <1>1, <1>3, <1>5

-----------------------------------------------------------------------------
(* Every step of the server is a step of the session table. *)

(* A request does to the table what Sessions says a request does.          *)
LEMMA DecodeIsTableStep ==
    ASSUME NEW ip \in IPs, NEW fd \in ConnFds \cup {NoFd}, Decode(ip, fd),
           ConnFds' = ConnFds
    PROVE  [Table!Next]_(Table!vars)
  <1>0. fd \in Table!Origins
    BY DEF Table!Origins
  <1>1. CASE Refuse
    BY <1>1 DEF Refuse, tableVars, Table!vars
  <1>2. CASE MountOk(ip, fd) \/ MountFails(ip) \/ MountNoRoot(ip)
    <2>1. Table!Mount(ip, fd)
      BY <1>2, TableMount DEF Table!Mount
    <2> QED
      BY <1>0, <2>1 DEF Table!Next
  <1>3. ASSUME NEW i \in Slots, MayUse(i, ip),
               Serve(i, fd) \/ OpenFile(i, fd) \/ CloseFile(i, fd) \/ Umount(i)
        PROVE  [Table!Next]_(Table!vars)
    <2>1. Table!Request(i, ip, fd)
      BY <1>3, TableRequest DEF Table!Request
    <2>2. i \in Table!Slots
      BY TableSets
    <2> QED
      BY <1>0, <2>1, <2>2 DEF Table!Next
  <1> QED
    BY <1>1, <1>2, <1>3 DEF Decode

(* Closing connections does to the table what Sessions says it does.       *)
LEMMA CloseTcpIsTableStep ==
    ASSUME TypeOK, ConnsDistinct, NEW K \in SUBSET Open, CloseTcp(K)
    PROVE  [Table!Next]_(Table!vars)
  <1>1. Table!Disconnect(FdsOf(K)) /\ FdsOf(K) \in SUBSET ConnFds
    BY CloseTcpResult, TableTime DEF Table!Disconnect
  <1> QED
    BY <1>1 DEF Table!Next

(* What touches neither the table nor a cli_fd is no step of the table.    *)
LEMMA TableStutters ==
    ASSUME UNCHANGED <<slist, openfds, tcpsocks>>
    PROVE  [Table!Next]_(Table!vars) /\ Open' = Open /\ ConnFds' = ConnFds
  BY SameConns DEF Table!vars

(* One case for each call of the loop and each thing that happens to it.   *)
LEMMA TableStep ==
    ASSUME TypeOK, Places, ConnsDistinct, [Next]_vars
    PROVE  [Table!Next]_(Table!vars)
  <1>1. CASE CloseStale
    <2>1. {k \in Conns : Stale(tcpsocks[k])} \in SUBSET Open
      BY DEF Stale, Open
    <2> QED
      BY <1>1, <2>1, CloseTcpIsTableStep DEF CloseStale
  <1>2. CASE SweepSessions
    <2>1. CASE Sweep
      <3>1. ConnFds' = ConnFds
        BY <1>2, SameConns DEF SweepSessions
      <3>2. Table!Expire
        BY <2>1, <3>1, TableFree DEF Table!Expire
      <3> QED
        BY <3>2 DEF Table!Next
    <2>2. CASE UNCHANGED <<slist, openfds>>
      BY <1>2, <2>2, TableStutters DEF SweepSessions
    <2> QED
      BY <1>2, <2>1, <2>2 DEF SweepSessions
  <1>3. CASE Wait \/ WaitEmpty \/ WaitFails \/ EndOfPass \/ LeaveLoop
    BY <1>3, TableStutters DEF Wait, WaitEmpty, WaitFails, EndOfPass, LeaveLoop
  <1>4. CASE HandleUdp
    <2>1. ConnFds' = ConnFds
      BY <1>4, SameConns DEF HandleUdp
    <2>2. CASE \E ip \in IPs : Decode(ip, NoFd)
      BY <2>1, <2>2, DecodeIsTableStep
    <2>3. CASE UNCHANGED <<slist, openfds>>
      BY <1>4, <2>3, TableStutters DEF HandleUdp
    <2> QED
      BY <1>4, <2>2, <2>3 DEF HandleUdp
  <1>5. CASE Accept
    <2>1. CASE UNCHANGED <<tcpsocks, openfds>>
      BY <1>5, <2>1, TableStutters DEF Accept
    <2>2. CASE backlog # <<>> /\ TakeConnection(Head(backlog))
      <3>1. Head(backlog) \in IPs
        BY <2>2 DEF TypeOK
      <3>2. PICK fd \in Fds \ openfds : openfds' = openfds \cup {fd}
                                       /\ ConnFds' = ConnFds \cup {fd}
        BY <2>2, <3>1, TakeResult
      <3>3. Table!Connect(fd)
        BY <1>5, <3>2 DEF Accept, Table!Connect
      <3> QED
        BY <3>2, <3>3 DEF Table!Next
    <2> QED
      BY <1>5, <2>1, <2>2 DEF Accept
  <1>6. CASE HandleTcp
    <2>1. CASE UNCHANGED <<slist, openfds, tcpsocks, rx>>
      BY <2>1, TableStutters
    <2>2. CASE Active(scan) /\ Message(scan)
      <3>1. scan \in Open /\ scan \in Conns
        BY <2>2 DEF Active, Open
      <3>2. CASE CloseTcp({scan})
        BY <3>1, <3>2, CloseTcpIsTableStep
      <3>3. CASE /\ \E idle \in {0, Dead} :
                       tcpsocks' = [tcpsocks EXCEPT ![scan].idle = idle]
                 /\ Decode(tcpsocks[scan].ip, tcpsocks[scan].cli_fd)
        <4>1. \A k \in Conns : tcpsocks'[k].cli_fd = tcpsocks[k].cli_fd
          BY <3>3 DEF TypeOK, Connection
        <4>2. tcpsocks[scan].ip \in IPs /\ tcpsocks[scan].cli_fd \in ConnFds
          BY <3>1, ConnFdsAreFds DEF Places
        <4> QED
          BY <3>3, <4>1, <4>2, SameConns, DecodeIsTableStep
      <3> QED
        BY <2>2, <3>2, <3>3 DEF Message
    <2> QED
      BY <1>6, <2>1, <2>2 DEF HandleTcp
  <1>7. CASE CloseAll
    BY <1>7, CloseTcpIsTableStep DEF CloseAll
  <1>8. CASE FreeAllSessions
    <2>1. ConnFds' = ConnFds
      BY <1>8, SameConns DEF FreeAllSessions
    <2>2. Table!FreeEverything
      BY <1>8, <2>1, TableFree DEF FreeAllSessions, Table!FreeEverything
    <2> QED
      BY <2>2 DEF Table!Next
  <1>9. CASE Tick
    <2>1. \A k \in Conns : tcpsocks'[k].cli_fd = tcpsocks[k].cli_fd
      BY <1>9 DEF Tick, Later, TypeOK, Connection
    <2>2. Table!Tick
      BY <1>9, <2>1, SameConns, TableTime DEF Tick, Table!Tick
    <2> QED
      BY <2>2 DEF Table!Next
  <1>10. CASE Stop \/ DatagramArrives \/ ClientConnects \/ PeerActs
    BY <1>10, TableStutters DEF Stop, DatagramArrives, ClientConnects, PeerActs
  <1>11. CASE UNCHANGED vars
    BY <1>11, TableStutters DEF vars
  <1> QED
    BY <1>1, <1>2, <1>3, <1>4, <1>5, <1>6, <1>7, <1>8, <1>9, <1>10, <1>11
    DEF Next, Loop, Environment, Exited

-----------------------------------------------------------------------------
(* The inductive invariant, one part at a time. *)

(* The table's own invariant comes with its own theorem.                   *)
LEMMA TableInvKept ==
    ASSUME ServerInv, [Next]_vars
    PROVE  Table!TableInv'
  <1>1. [Table!Next]_(Table!vars) /\ Table!TableInv
    BY TableStep DEF ServerInv
  <1>2. Table!Session = Session
    BY TableSets
  <1> QED
    BY <1>1, <1>2, Table!TableInvStep, SessionConstants, ZeroesAreNoValue, NoSessionIsNull
    DEF Table!TableInvStep

(* The types of the table's variables are those of its own specification.  *)
LEMMA TableTypes == Table!TableInv => TableTypeOK /\ ConnFds \subseteq openfds
  BY TableSets DEF Table!TableInv, Table!TypeOK, Table!TableTypeOK, TableTypeOK,
                   Table!OneOwner

(* What a step may do to a place of tcpsocks: empty it, fill it while it   *)
(* is empty, or change the age of its connection, to or from Dead only     *)
(* where the loop is.                                                      *)
PlacesStep ==
    /\ tcpsocks' \in [Conns -> Connection]
    /\ \A k \in Conns :
         \/ tcpsocks'[k] = tcpsocks[k]
         \/ tcpsocks'[k] = NoConn
         \/ /\ k \notin Open /\ tcpsocks'[k].ip \in IPs
            /\ tcpsocks'[k].cli_fd \in Fds \ openfds
            /\ tcpsocks'[k].idle = 0
            /\ \A j \in Conns \ {k} : tcpsocks'[j] = tcpsocks[j]
         \/ /\ k \in Open /\ tcpsocks'[k].ip = tcpsocks[k].ip
            /\ tcpsocks'[k].cli_fd = tcpsocks[k].cli_fd
            /\ tcpsocks'[k].idle = Dead \/ tcpsocks[k].idle = Dead
                 => pc = "scan" /\ k = scan /\ scan' = scan + 1

(* Every step does that to tcpsocks.                                       *)
LEMMA PlaceStep ==
    ASSUME ServerInv, [Next]_vars
    PROVE  PlacesStep
  <1>0. TypeOK /\ ConnsDistinct /\ Places /\ tcpsocks \in [Conns -> Connection]
    BY DEF ServerInv, TypeOK
  <1>1. ASSUME NEW K \in SUBSET Open, CloseTcp(K) PROVE PlacesStep
    <2>1. NoConn \in Connection
      BY ServerConstants DEF NoConn, Connection, Dead
    <2> QED
      BY <1>0, <1>1, <2>1, CloseTcpResult DEF PlacesStep
  <1>2. ASSUME UNCHANGED tcpsocks PROVE PlacesStep
    BY <1>0, <1>2 DEF PlacesStep
  <1>3. ASSUME NEW ip \in IPs, TakeConnection(ip) PROVE PlacesStep
    <2>1. PICK fd \in Fds \ openfds, k \in Conns \ Open :
             tcpsocks' = [tcpsocks EXCEPT ![k] = [cli_fd |-> fd, ip |-> ip, idle |-> 0]]
      BY <1>0, <1>3, TakeResult
    <2>2. [cli_fd |-> fd, ip |-> ip, idle |-> 0] \in Connection
      BY ServerConstants DEF Connection, Dead
    <2> QED
      BY <1>0, <2>1, <2>2 DEF PlacesStep
  <1>4. ASSUME pc = "scan", Active(scan), scan' = scan + 1,
               \E idle \in {0, Dead} : tcpsocks' = [tcpsocks EXCEPT ![scan].idle = idle]
        PROVE  PlacesStep
    <2>1. PICK idle \in {0, Dead} : tcpsocks' = [tcpsocks EXCEPT ![scan].idle = idle]
      BY <1>4
    <2>2. scan \in Open /\ scan \in Conns
      BY <1>4 DEF Active, Open
    <2>3. [tcpsocks[scan] EXCEPT !.idle = idle] \in Connection
      BY <1>0, <2>2, ServerConstants DEF Connection, Dead
    <2>4. /\ tcpsocks'[scan] = [tcpsocks[scan] EXCEPT !.idle = idle]
          /\ \A k \in Conns \ {scan} : tcpsocks'[k] = tcpsocks[k]
      BY <1>0, <2>1, <2>2
    <2>5. tcpsocks' \in [Conns -> Connection]
      BY <1>0, <2>1, <2>2, <2>3
    <2>6. /\ tcpsocks'[scan].ip = tcpsocks[scan].ip
          /\ tcpsocks'[scan].cli_fd = tcpsocks[scan].cli_fd
      BY <1>0, <2>2, <2>4 DEF Connection
    <2> QED
      BY <1>4, <2>2, <2>4, <2>5, <2>6 DEF PlacesStep
  <1>5. CASE Tick
    <2>1. ASSUME NEW k \in Conns
          PROVE  /\ Later(tcpsocks[k]) \in Connection
                 /\ \/ Later(tcpsocks[k]) = tcpsocks[k]
                    \/ /\ k \in Open
                       /\ Later(tcpsocks[k]).ip = tcpsocks[k].ip
                       /\ Later(tcpsocks[k]).cli_fd = tcpsocks[k].cli_fd
                       /\ Later(tcpsocks[k]).idle # Dead
                       /\ tcpsocks[k].idle # Dead
      <3>1. tcpsocks[k] \in Connection
        BY <1>0
      <3>2. CASE tcpsocks[k].cli_fd # NoFd /\ tcpsocks[k].idle <= CONN_TIMEOUT
        <4>1. Later(tcpsocks[k]) = [tcpsocks[k] EXCEPT !.idle = @ + 1]
          BY <3>2 DEF Later
        <4>2. tcpsocks[k].idle \in Nat /\ tcpsocks[k].idle + 1 \in 0 .. Dead
          BY <3>1, <3>2, ServerConstants DEF Connection, Dead
        <4> QED
          BY <3>1, <3>2, <4>1, <4>2, ServerConstants DEF Connection, Dead, Open
      <3>3. CASE ~ (tcpsocks[k].cli_fd # NoFd /\ tcpsocks[k].idle <= CONN_TIMEOUT)
        BY <3>1, <3>3 DEF Later
      <3> QED
        BY <3>2, <3>3
    <2>2. tcpsocks' = [k \in Conns |-> Later(tcpsocks[k])]
      BY <1>5 DEF Tick
    <2> QED
      BY <2>1, <2>2 DEF PlacesStep
  <1>6. CASE CloseStale
    BY <1>1, <1>6 DEF CloseStale, Stale, Open
  <1>7. CASE Accept
    <2>1. CASE backlog # <<>> /\ TakeConnection(Head(backlog))
      <3>1. Head(backlog) \in IPs
        BY <1>0, <2>1 DEF TypeOK
      <3> QED
        BY <1>3, <2>1, <3>1
    <2> QED
      BY <1>2, <1>7, <2>1 DEF Accept
  <1>8. CASE HandleTcp
    <2>1. CASE Active(scan) /\ CloseTcp({scan})
      BY <1>1, <2>1 DEF Active
    <2> QED
      BY <1>2, <1>4, <1>8, <2>1 DEF HandleTcp, Message
  <1>9. CASE CloseAll
    BY <1>1, <1>9 DEF CloseAll
  <1>10. CASE UNCHANGED vars
    BY <1>2, <1>10 DEF vars
  <1> QED
    BY <1>2, <1>5, <1>6, <1>7, <1>8, <1>9, <1>10
    DEF Next, Loop, Environment, SweepSessions, Wait, WaitEmpty, WaitFails, HandleUdp,
        EndOfPass, LeaveLoop, FreeAllSessions, Stop, DatagramArrives, ClientConnects,
        PeerActs, Exited

(* The order of the calls, as far as the invariant depends on it.          *)
LEMMA PassStep ==
    ASSUME [Next]_vars
    PROVE  /\ pc' = "sweep" => pc = "sweep" \/ CloseStale
           /\ pc' \in {"wait", "udp", "accept"} =>
                 pc \in {"sweep", "wait", "udp", "accept"}
           /\ pc' = "scan" => \/ pc = "scan" /\ scan' \in {scan, scan + 1}
                              \/ pc = "accept" /\ scan' = 0
           /\ pc' = "free" => pc = "free" \/ CloseAll
           /\ pc' = "done" => pc = "done" \/ FreeAllSessions
  <1>1. CASE Loop
    BY <1>1 DEF Loop, CloseStale, SweepSessions, Wait, WaitEmpty, WaitFails, HandleUdp,
                Accept, HandleTcp, EndOfPass, LeaveLoop, CloseAll, FreeAllSessions
  <1>2. CASE Environment \/ UNCHANGED vars
    BY <1>2 DEF Environment, Tick, Stop, DatagramArrives, ClientConnects, PeerActs,
                Exited, vars, loopVars
  <1> QED
    BY <1>1, <1>2 DEF Next

(* Places stay empty or owned, and no two share a number: a new one has a  *)
(* number that no connection holds.                                        *)
LEMMA PlacesKept ==
    ASSUME ServerInv, [Next]_vars
    PROVE  Places' /\ ConnsDistinct'
  <1>0. TypeOK /\ Places /\ ConnsDistinct /\ PlacesStep /\ ConnFds \subseteq openfds
    BY PlaceStep, TableTypes DEF ServerInv
  <1>1. Places'
    BY <1>0, ZeroesAreNoValue DEF Places, PlacesStep, Open, NoConn
  <1>2. ASSUME NEW j \in Open', NEW k \in Open',
               tcpsocks'[j].cli_fd = tcpsocks'[k].cli_fd, j # k
        PROVE  FALSE
    <2>1. j \in Conns /\ k \in Conns /\ tcpsocks'[j] # NoConn /\ tcpsocks'[k] # NoConn
      BY <1>2 DEF Open, NoConn
    <2>2. ASSUME NEW i \in Conns, tcpsocks'[i] = tcpsocks[i], i \in Open'
          PROVE  i \in Open /\ tcpsocks[i].cli_fd \in openfds
      BY <1>0, <2>2, ConnFdsAreFds DEF Open
    <2>3. CASE j \notin Open /\ tcpsocks'[j].cli_fd \in Fds \ openfds
                 /\ \A i \in Conns \ {j} : tcpsocks'[i] = tcpsocks[i]
      BY <1>2, <2>1, <2>2, <2>3
    <2>4. CASE k \notin Open /\ tcpsocks'[k].cli_fd \in Fds \ openfds
                 /\ \A i \in Conns \ {k} : tcpsocks'[i] = tcpsocks[i]
      BY <1>2, <2>1, <2>2, <2>4
    <2>5. CASE /\ j \in Open /\ tcpsocks'[j].cli_fd = tcpsocks[j].cli_fd
               /\ k \in Open /\ tcpsocks'[k].cli_fd = tcpsocks[k].cli_fd
      BY <1>0, <1>2, <2>5 DEF ConnsDistinct
    <2> QED
      BY <1>0, <1>2, <2>1, <2>2, <2>3, <2>4, <2>5 DEF PlacesStep
  <1>3. ConnsDistinct'
    BY <1>2 DEF ConnsDistinct
  <1> QED
    BY <1>1, <1>3

(* A pass closes what the one before marked dead, and marks only what it   *)
(* is done with.                                                           *)
LEMMA DeadKept ==
    ASSUME ServerInv, [Next]_vars
    PROVE  DeadAreBehind'
  <1>0. TypeOK /\ Places /\ DeadAreBehind /\ PlacesStep /\ scan \in Nat
    BY PlaceStep DEF ServerInv, TypeOK
  <1>1. 0 # Dead /\ Dead > CONN_TIMEOUT /\ NoConn.idle = 0
    BY ServerConstants DEF Dead, NoConn
  <1>2. CASE CloseStale
    <2>1. ASSUME NEW k \in Conns PROVE tcpsocks'[k].idle # Dead
      <3>1. tcpsocks'[k] = IF Stale(tcpsocks[k]) THEN NoConn ELSE tcpsocks[k]
        BY <1>2 DEF CloseStale, CloseTcp
      <3>2. tcpsocks[k].idle = Dead => Stale(tcpsocks[k])
        BY <1>0, <1>1 DEF Places, Open, Stale
      <3> QED
        BY <1>1, <3>1, <3>2
    <2> QED
      BY <1>2, <2>1 DEF CloseStale, DeadAreBehind
  <1>3. CASE ~ CloseStale /\ pc' \in {"sweep", "wait", "udp", "accept"}
    <2>1. pc \in {"sweep", "wait", "udp", "accept"}
      BY <1>3, PassStep
    <2>2. \A k \in Conns : tcpsocks[k].idle # Dead
      BY <1>0, <2>1 DEF DeadAreBehind
    <2>3. \A k \in Conns : tcpsocks'[k].idle # Dead
      BY <1>0, <1>1, <2>1, <2>2 DEF PlacesStep
    <2> QED
      BY <1>3, <2>3 DEF DeadAreBehind
  <1>4. CASE pc' = "scan" /\ pc = "accept"
    <2>1. \A k \in Conns : tcpsocks[k].idle # Dead
      BY <1>0, <1>4 DEF DeadAreBehind
    <2>2. \A k \in Conns : tcpsocks'[k].idle # Dead
      BY <1>0, <1>1, <1>4, <2>1 DEF PlacesStep
    <2> QED
      BY <1>4, <2>2 DEF DeadAreBehind
  <1>5. CASE pc' = "scan" /\ pc = "scan" /\ scan' \in {scan, scan + 1}
    <2>1. ASSUME NEW k \in Conns, k >= scan' PROVE tcpsocks'[k].idle # Dead
      <3>1. k \in Nat /\ k >= scan
        BY <1>0, <1>5, <2>1, ServerConstants DEF Conns
      <3>2. tcpsocks[k].idle # Dead
        BY <1>0, <1>5, <3>1 DEF DeadAreBehind
      <3>3. ~ (k = scan /\ scan' = scan + 1)
        BY <1>0, <2>1, <3>1
      <3> QED
        BY <1>0, <1>1, <3>2, <3>3 DEF PlacesStep
    <2> QED
      BY <1>5, <2>1 DEF DeadAreBehind
  <1>6. CASE pc' \notin {"sweep", "wait", "udp", "accept", "scan"}
    BY <1>6 DEF DeadAreBehind
  <1> QED
    BY <1>2, <1>3, <1>4, <1>5, <1>6, PassStep

(* The loop's own variables keep their types.                              *)
LEMMA TypeKept ==
    ASSUME ServerInv, [Next]_vars
    PROVE  TypeOK'
  <1>0. TypeOK /\ ConnsDistinct /\ TableTypeOK' /\ tcpsocks' \in [Conns -> Connection]
    <2>1. TableTypeOK'
      BY TableInvKept, TableSets
      DEF Table!TableInv, Table!TypeOK, Table!TableTypeOK, TableTypeOK
    <2> QED
      BY <2>1, PlaceStep DEF ServerInv, PlacesStep
  <1> DEFINE RestOK ==
           /\ pc \in Steps
           /\ scan \in 0 .. MAX_TCP_CONN
           /\ ready \in SUBSET (Fds \cup {sockfd, tcplistenfd})
           /\ sweepIdle \in 0 .. SESSION_SWEEP_INTERVAL
           /\ stopped \in BOOLEAN
           /\ rx \in [Fds -> Receivable]
           /\ dgrams \in BOOLEAN
           /\ backlog \in Seq(IPs)
  <1>1. RestOK
    BY <1>0 DEF TypeOK
  <1>2. ASSUME NEW K \in SUBSET Open, CloseTcp(K) PROVE rx' \in [Fds -> Receivable]
    BY <1>0, <1>1, <1>2, CloseTcpResult DEF Receivable
  <1>3. CASE CloseStale \/ CloseAll
    <2>1. {k \in Conns : Stale(tcpsocks[k])} \in SUBSET Open
      BY DEF Stale, Open
    <2>2. rx' \in [Fds -> Receivable]
      BY <1>2, <1>3, <2>1 DEF CloseStale, CloseAll
    <2> QED
      BY <1>0, <1>1, <1>3, <2>2 DEF CloseStale, CloseAll, TypeOK, Steps
  <1>4. CASE SweepSessions \/ WaitEmpty \/ WaitFails \/ LeaveLoop \/ FreeAllSessions
    BY <1>0, <1>1, <1>4, ServerConstants
    DEF SweepSessions, WaitEmpty, WaitFails, LeaveLoop, FreeAllSessions, envVars,
        TypeOK, Steps
  <1>5. CASE Wait
    <2>1. Readable \in SUBSET (Fds \cup {sockfd, tcplistenfd})
      BY <1>0, ConnFdsAreFds DEF Readable
    <2> QED
      BY <1>0, <1>1, <1>5, <2>1 DEF Wait, envVars, TypeOK, Steps
  <1>6. CASE HandleUdp
    BY <1>0, <1>1, <1>6 DEF HandleUdp, TypeOK, Steps
  <1>7. CASE Accept
    BY <1>0, <1>1, <1>7, ServerConstants DEF Accept, TypeOK, Steps
  <1>8. CASE HandleTcp
    <2>1. rx' \in [Fds -> Receivable]
      <3>1. CASE Active(scan) /\ CloseTcp({scan})
        BY <1>2, <3>1 DEF Active
      <3>2. CASE rx' = [rx EXCEPT ![tcpsocks[scan].cli_fd] = "none"]
        BY <1>1, <3>2 DEF Receivable
      <3> QED
        BY <1>1, <1>8, <3>1, <3>2 DEF HandleTcp, Message
    <2>2. scan' \in 0 .. MAX_TCP_CONN
      BY <1>1, <1>8, ServerConstants DEF HandleTcp
    <2> QED
      BY <1>0, <1>1, <1>8, <2>1, <2>2 DEF HandleTcp, TypeOK
  <1>9. CASE EndOfPass
    BY <1>0, <1>1, <1>9, ServerConstants DEF EndOfPass, envVars, TypeOK, Steps
  <1>10. CASE Tick
    <2>1. sweepIdle' \in 0 .. SESSION_SWEEP_INTERVAL
      BY <1>1, <1>10, ServerConstants DEF Tick
    <2> QED
      BY <1>0, <1>1, <1>10, <2>1 DEF Tick, envVars, TypeOK
  <1>11. CASE Stop
    <2>1. backlog' \in Seq(IPs)
      BY <1>11 DEF Stop
    <2> QED
      BY <1>0, <1>1, <1>11, <2>1 DEF Stop, loopVars, TypeOK
  <1>12. CASE DatagramArrives
    BY <1>0, <1>1, <1>12 DEF DatagramArrives, loopVars, TypeOK
  <1>13. CASE ClientConnects
    BY <1>0, <1>1, <1>13 DEF ClientConnects, loopVars, TypeOK
  <1>14. CASE PeerActs
    <2>1. rx' \in [Fds -> Receivable]
      BY <1>1, <1>14 DEF PeerActs, Receivable
    <2> QED
      BY <1>0, <1>1, <1>14, <2>1 DEF PeerActs, loopVars, TypeOK
  <1>15. CASE UNCHANGED vars
    BY <1>0, <1>1, <1>15 DEF vars, TypeOK
  <1> QED
    BY <1>3, <1>4, <1>5, <1>6, <1>7, <1>8, <1>9, <1>10, <1>11, <1>12, <1>13, <1>14,
       <1>15
    DEF Next, Loop, Environment, Exited

(* What was reported readable stays so until the loop comes to it: nothing *)
(* else receives, and a new connection's number was in nobody's hands when *)
(* the wait returned.                                                      *)
LEMMA ReadyKept ==
    ASSUME ServerInv, [Next]_vars
    PROVE  ReadyAreConns' /\ NeverBlocks'
  <1>0. /\ TypeOK /\ ConnsDistinct /\ ReadyAreConns /\ NeverBlocks
        /\ ConnFds \subseteq openfds /\ ConnFds \subseteq Fds
        /\ scan \in Nat
        /\ \A k \in Open : tcpsocks[k].cli_fd \in ConnFds
    BY TableTypes, ConnFdsAreFds DEF ServerInv, TypeOK
  <1>1. ASSUME ConnFds' = ConnFds, Open' = Open, ready' = ready, pc' = pc,
               scan' = scan,
               \A k \in Conns : tcpsocks'[k].cli_fd = tcpsocks[k].cli_fd,
               \A fd \in ConnFds : rx[fd] # "none" => rx'[fd] # "none"
        PROVE  ReadyAreConns' /\ NeverBlocks'
    BY <1>0, <1>1 DEF ReadyAreConns, NeverBlocks, Active, Open
  <1>2. CASE pc' \notin {"udp", "accept", "scan"}
    BY <1>2 DEF ReadyAreConns, NeverBlocks
  <1>3. CASE Wait
    <2>1. ready' = Readable /\ UNCHANGED <<tcpsocks, rx>> /\ pc' = "udp"
      BY <1>3 DEF Wait, envVars
    <2>2. Readable \cap Fds \subseteq {fd \in ConnFds : rx[fd] # "none"}
      BY ServerSockets DEF Readable
    <2>3. Open' = Open /\ ConnFds' = ConnFds
      BY <2>1, SameConns
    <2> QED
      BY <1>0, <2>1, <2>2, <2>3 DEF ReadyAreConns, NeverBlocks, Active
  <1>4. CASE HandleUdp
    <2>1. Open' = Open /\ ConnFds' = ConnFds
      BY <1>4, SameConns DEF HandleUdp
    <2> QED
      BY <1>0, <1>4, <2>1 DEF HandleUdp, ReadyAreConns, NeverBlocks, Active
  <1>5. CASE Accept
    <2>1. /\ pc = "accept" /\ pc' = "scan" /\ scan' = 0 /\ UNCHANGED <<ready, rx>>
          /\ ready \cap Fds \subseteq ConnFds
      BY <1>0, <1>5 DEF Accept, ReadyAreConns
    <2>2. CASE UNCHANGED tcpsocks
      <3>1. Open' = Open
        BY <2>2, SameConns
      <3> QED
        BY <1>0, <2>1, <2>2, <3>1 DEF ReadyAreConns, NeverBlocks, Active
    <2>3. CASE backlog # <<>> /\ TakeConnection(Head(backlog))
      <3>1. Head(backlog) \in IPs
        BY <1>0, <2>3 DEF TypeOK
      <3>2. PICK fd \in Fds \ openfds, k \in Conns \ Open :
              /\ tcpsocks' = [tcpsocks EXCEPT ![k] =
                                [cli_fd |-> fd, ip |-> Head(backlog), idle |-> 0]]
              /\ Open' = Open \cup {k}
        BY <1>0, <2>3, <3>1, TakeResult
      <3>3. /\ tcpsocks'[k].cli_fd = fd
            /\ \A j \in Conns \ {k} : tcpsocks'[j] = tcpsocks[j]
        BY <1>0, <3>2 DEF TypeOK
      <3>4. fd \notin ready
        BY <1>0, <2>1, <3>2
      <3> QED
        BY <1>0, <2>1, <3>2, <3>3, <3>4 DEF ReadyAreConns, NeverBlocks, Active
    <2> QED
      BY <1>5, <2>2, <2>3 DEF Accept
  <1>6. CASE HandleTcp
    <2>1. pc = "scan" /\ pc' = "scan" /\ scan' = scan + 1 /\ ready' = ready
      BY <1>6 DEF HandleTcp
    <2>2. ASSUME NEW k \in Conns, Active(k)', k >= scan'
          PROVE  rx'[tcpsocks'[k].cli_fd] # "none"
      <3>1. k \in Nat /\ k >= scan /\ k # scan
        BY <1>0, <2>1, <2>2, ServerConstants DEF Conns
      <3>2. CASE UNCHANGED <<tcpsocks, rx>>
        BY <1>0, <2>1, <2>2, <3>1, <3>2 DEF NeverBlocks, Active, Open
      <3>3. CASE Active(scan) /\ Message(scan)
        <4>1. scan \in Open /\ scan \in Conns
          BY <3>3 DEF Active, Open
        <4>2. tcpsocks'[k] = tcpsocks[k]
          <5>1. CASE CloseTcp({scan})
            BY <3>1, <5>1, <4>1, <1>0, CloseTcpResult
          <5>2. CASE \E idle \in {0, Dead} : tcpsocks' = [tcpsocks EXCEPT ![scan].idle = idle]
            BY <1>0, <3>1, <5>2 DEF TypeOK
          <5> QED
            BY <3>3, <5>1, <5>2 DEF Message
        <4>3. k \in Open /\ tcpsocks[k].cli_fd \in ready
          BY <2>1, <2>2, <4>2 DEF Active, Open
        <4>4. rx[tcpsocks[k].cli_fd] # "none"
          BY <1>0, <2>1, <3>1, <4>3 DEF NeverBlocks, Active
        <4>5. tcpsocks[k].cli_fd # tcpsocks[scan].cli_fd
          BY <1>0, <3>1, <4>1, <4>3 DEF ConnsDistinct
        <4>6. tcpsocks[k].cli_fd \in Fds
          BY <1>0, <4>3
        <4>7. rx'[tcpsocks[k].cli_fd] = rx[tcpsocks[k].cli_fd]
          <5>1. CASE CloseTcp({scan})
            <6>1. rx' = [fd \in Fds |-> IF fd \in FdsOf({scan}) THEN "none" ELSE rx[fd]]
              BY <5>1, <4>1, <1>0, CloseTcpResult
            <6> QED
              BY <6>1, <4>5, <4>6 DEF FdsOf
          <5>2. CASE rx' = [rx EXCEPT ![tcpsocks[scan].cli_fd] = "none"]
            BY <1>0, <4>5, <4>6, <5>2 DEF TypeOK
          <5> QED
            BY <3>3, <5>1, <5>2 DEF Message
        <4> QED
          BY <4>2, <4>4, <4>7
      <3> QED
        BY <1>6, <3>2, <3>3 DEF HandleTcp
    <2> QED
      BY <2>1, <2>2 DEF ReadyAreConns, NeverBlocks
  <1>7. CASE Tick
    <2>1. \A k \in Conns : tcpsocks'[k].cli_fd = tcpsocks[k].cli_fd
      BY <1>0, <1>7 DEF Tick, Later, TypeOK, Connection
    <2> QED
      BY <1>1, <1>7, <2>1, SameConns DEF Tick, envVars
  <1>8. CASE Stop \/ DatagramArrives \/ ClientConnects
    BY <1>1, <1>8, SameConns DEF Stop, DatagramArrives, ClientConnects, loopVars
  <1>9. CASE PeerActs
    <2>1. \A fd \in ConnFds : rx[fd] # "none" => rx'[fd] # "none"
      BY <1>0, <1>9 DEF PeerActs, TypeOK
    <2> QED
      BY <1>1, <1>9, <2>1, SameConns DEF PeerActs, loopVars
  <1>10. CASE UNCHANGED vars
    BY <1>1, <1>10, SameConns DEF vars
  <1> QED
    BY <1>2, <1>3, <1>4, <1>5, <1>6, <1>7, <1>8, <1>9, <1>10
    DEF Next, Loop, Environment, CloseStale, SweepSessions, WaitEmpty, WaitFails,
        EndOfPass, LeaveLoop, CloseAll, FreeAllSessions, Exited

(* Once the loop is left nothing opens a connection or a session.          *)
LEMMA LeavingKept ==
    ASSUME ServerInv, [Next]_vars
    PROVE  Leaving'
  <1>0. TypeOK /\ ConnsDistinct /\ Leaving
    BY DEF ServerInv
  <1>1. CASE CloseAll
    <2>1. Open' = {}
      BY <1>0, <1>1, CloseTcpResult DEF CloseAll
    <2> QED
      BY <1>1, <2>1 DEF CloseAll, Leaving
  <1>2. CASE FreeAllSessions
    <2>1. Used' = {}
      BY <1>2 DEF FreeAllSessions, FreeAll, FreeSessions, Used
    <2>2. Open' = Open
      BY <1>2, SameConns DEF FreeAllSessions
    <2> QED
      BY <1>0, <1>2, <2>1, <2>2 DEF FreeAllSessions, Leaving
  <1>3. CASE Tick
    <2>1. \A k \in Conns : tcpsocks'[k].cli_fd = tcpsocks[k].cli_fd
      BY <1>0, <1>3 DEF Tick, Later, TypeOK, Connection
    <2> QED
      BY <1>0, <1>3, <2>1, SameConns DEF Tick, Leaving
  <1>4. CASE Stop \/ DatagramArrives \/ ClientConnects \/ PeerActs \/ UNCHANGED vars
    <2>1. UNCHANGED <<slist, tcpsocks, pc>>
      BY <1>4 DEF Stop, DatagramArrives, ClientConnects, PeerActs, vars, loopVars
    <2>2. Open' = Open /\ Used' = Used
      BY <2>1, SameConns DEF Used
    <2> QED
      BY <1>0, <2>1, <2>2 DEF Leaving
  <1>5. CASE pc' \notin {"free", "done"}
    BY <1>5 DEF Leaving
  <1> QED
    BY <1>1, <1>2, <1>3, <1>4, <1>5
    DEF Next, Loop, Environment, CloseStale, SweepSessions, Wait, WaitEmpty, WaitFails,
        HandleUdp, Accept, HandleTcp, EndOfPass, LeaveLoop, Exited

(* The step of the invariant.                                              *)
LEMMA ServerInvStep == ServerInv /\ [Next]_vars => ServerInv'
  <1> SUFFICES ASSUME ServerInv, [Next]_vars PROVE ServerInv'
    OBVIOUS
  <1> QED
    BY TypeKept, TableInvKept, PlacesKept, ReadyKept, DeadKept, LeavingKept
    DEF ServerInv

(* The initial states are initial states of the table.                     *)
LEMMA TableStarts == Init => Table!Init
  <1> SUFFICES ASSUME Init PROVE Table!Init
    OBVIOUS
  <1>1. ConnFds = {}
    BY DEF Init, ConnFds, Open, NoConn
  <1> QED
    BY <1>1, TableSets DEF Init, TableInit, Table!Init, Table!TableInit

(* The invariant holds in every reachable state.                           *)
THEOREM ServerInvariant == Spec => []ServerInv
  <1>1. Init => ServerInv
    <2> SUFFICES ASSUME Init PROVE ServerInv
      OBVIOUS
    <2>1. Open = {} /\ ConnFds = {} /\ Used = {}
      BY DEF Init, TableInit, Open, ConnFds, NoConn, Used
    <2>2. TypeOK
      <3>1. NoConn \in Connection
        BY ServerConstants DEF NoConn, Connection, Dead
      <3>2. TableTypeOK
        BY DEF Init, TableInit, TableTypeOK
      <3>3. tcpsocks \in [Conns -> Connection]
        BY <3>1 DEF Init
      <3>4. rx \in [Fds -> Receivable] /\ backlog \in Seq(IPs)
        BY DEF Init, Receivable
      <3>5. scan \in 0 .. MAX_TCP_CONN /\ sweepIdle \in 0 .. SESSION_SWEEP_INTERVAL
        BY ServerConstants DEF Init
      <3> QED
        BY <3>2, <3>3, <3>4, <3>5 DEF Init, TypeOK, Steps
    <2>3. Table!TableInv
      BY <2>1, <2>2, TableSets
      DEF Init, TableInit, TypeOK, Table!TableInv, Table!TypeOK, Table!TableTypeOK,
          TableTypeOK, Table!UniqueSids, Table!CliFdLive, Table!OneOwner, FilesOf
    <2>4. Places /\ ConnsDistinct /\ ReadyAreConns /\ NeverBlocks /\ DeadAreBehind
          /\ Leaving
      BY <2>1 DEF Init, Places, ConnsDistinct, ReadyAreConns, NeverBlocks,
                  DeadAreBehind, Leaving
    <2> QED
      BY <2>2, <2>3, <2>4 DEF ServerInv
  <1> QED
    BY <1>1, ServerInvStep, PTL DEF Spec

(* Every variable of the server keeps its type.                            *)
THEOREM TypeCorrect == Spec => []TypeOK
  BY ServerInvariant, PTL DEF ServerInv

(* No two accepted connections ever share a descriptor, however often the  *)
(* kernel gives a number out again.                                        *)
THEOREM ConnectionsAreDistinct == Spec => []ConnsDistinct
  BY ServerInvariant, PTL DEF ServerInv

(* The loop never calls recv() on a connection with nothing to receive: no *)
(* order of accepts, closes and reused numbers within a pass stops the one *)
(* thread there is.                                                        *)
THEOREM LoopNeverBlocks == Spec => []NeverBlocks
  BY ServerInvariant, PTL DEF ServerInv

(* When the process exits it has nothing open.                             *)
THEOREM NothingIsLeftOpen == Spec => []ReleasedAtExit
  <1>1. ServerInv => ReleasedAtExit
    <2> SUFFICES ASSUME ServerInv, pc = "done" PROVE openfds = {} /\ Used = {} /\ Open = {}
      BY DEF ReleasedAtExit
    <2>1. Open = {} /\ Used = {}
      BY DEF ServerInv, Leaving
    <2>2. openfds = ConnFds \cup FilesOf(Used)
      BY TableSets DEF ServerInv, Table!TableInv, Table!OneOwner
    <2> QED
      BY <2>1, <2>2 DEF ConnFds, FilesOf
  <1> QED
    BY <1>1, ServerInvariant, PTL

(* A connection marked dead stays as it is until it is closed.             *)
THEOREM DeadConnectionsAreLeftAlone == Spec => DeadNotServed
  <1>1. ServerInv /\ [Next]_vars =>
           [\A k \in Conns : tcpsocks[k].idle = Dead =>
               tcpsocks'[k] \in {tcpsocks[k], NoConn}]_vars
    <2> SUFFICES ASSUME ServerInv, [Next]_vars, NEW k \in Conns, tcpsocks[k].idle = Dead
                 PROVE  tcpsocks'[k] \in {tcpsocks[k], NoConn}
      OBVIOUS
    <2>1. PlacesStep /\ Places /\ scan \in Nat
      BY PlaceStep DEF ServerInv, TypeOK
    <2>2. k \in Open
      BY <2>1, ServerConstants DEF Places, NoConn, Dead
    <2>3. ~ (pc = "scan" /\ k = scan)
      BY <2>1 DEF ServerInv, DeadAreBehind
    <2> QED
      BY <2>1, <2>2, <2>3 DEF PlacesStep
  <1> QED
    BY <1>1, ServerInvariant, PTL DEF Spec, DeadNotServed

(* The server implements the session table's own specification: it starts  *)
(* where that starts, and each step of the loop, of a client or of time is *)
(* a step of it or leaves it alone. Whatever Sessions promises holds of    *)
(* the server.                                                             *)
THEOREM ServerImplementsSessions == Spec => ImplementsSessions
  <1>1. ServerInv /\ [Next]_vars => [Table!Next]_(Table!vars)
    BY TableStep DEF ServerInv
  <1> QED
    BY <1>1, TableStarts, ServerInvariant, PTL DEF Spec, ImplementsSessions, Table!Spec

(* So the promises of Sessions hold of the server's own table.             *)
THEOREM SessionsPromisesHold ==
    Spec => [](Table!UniqueSids /\ Table!CliFdLive /\ Table!OneOwner)
  BY ServerInvariant, PTL DEF ServerInv, Table!TableInv

(* A MOUNT that reaches the server, on whatever connection and in whatever *)
(* pass, recycles only sessions of its own address.                        *)
THEOREM ServerEvictsOnlyOwnIp == Spec => Table!EvictsOnlyOwnIp
  <1>1. Table!Session = Session
    BY TableSets
  <1>2. Table!Spec => Table!EvictsOnlyOwnIp
    BY <1>1, Table!EvictionIsOfOwnIp, SessionConstants, ZeroesAreNoValue, NoSessionIsNull
    DEF Table!EvictionIsOfOwnIp
  <1> QED
    BY <1>2, ServerImplementsSessions DEF ImplementsSessions

(* No address has more than MAX_SESSIONS_PER_IP sessions in the server.    *)
THEOREM ServerLimitsSessionsPerIp ==
    ASSUME MAX_SESSIONS_PER_IP >= 2
    PROVE  Spec => []Table!PerIpLimit
  <1>1. Table!Session = Session
    BY TableSets
  <1>2. Table!Spec => []Table!PerIpLimit
    BY <1>1, Table!SessionsPerIpLimited, SessionConstants, ZeroesAreNoValue,
       NoSessionIsNull
    DEF Table!SessionsPerIpLimited
  <1> QED
    BY <1>2, ServerImplementsSessions DEF ImplementsSessions
==============================================================================
