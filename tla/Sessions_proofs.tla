--------------------------- MODULE Sessions_proofs ---------------------------
(***************************************************************************)
(* Proofs about Sessions, for every size of the table, every limit and     *)
(* every set of clients, identifiers and descriptors.                      *)
(***************************************************************************)
EXTENDS Sessions, FiniteSetTheorems, TLAPS

(* The identifiers a MOUNT may give are identifiers.                       *)
LEMMA NewSidsAreSids ==
    ASSUME TypeOK, NEW ip \in IPs
    PROVE  NewSids(ip) \subseteq Sids
  BY DEF TypeOK, TableTypeOK, NewSids, Victim, Match, Used, Session

(* Freeing sessions keeps the table well formed.                           *)
LEMMA FreeSessionsType ==
    ASSUME TypeOK, NEW S, FreeSessions(S)
    PROVE  TableTypeOK'
  BY DEF TypeOK, TableTypeOK, FreeSessions

(* Putting a session into the table keeps it well formed.                  *)
LEMMA AllocateType ==
    ASSUME TypeOK, NEW ip \in IPs, NEW s \in Session, Allocate(ip, s)
    PROVE  TableTypeOK'
  BY DEF TypeOK, TableTypeOK, Allocate

(* A session that was just contacted is a session.                         *)
LEMMA ContactedType ==
    ASSUME TypeOK, NEW i \in Used, NEW fd \in Origins
    PROVE  /\ Contacted(i, fd) \in Session
           /\ Contacted(i, fd).sid = slist[i].sid
           /\ Contacted(i, fd).ipaddr = slist[i].ipaddr
           /\ Contacted(i, fd).files = slist[i].files
           /\ Contacted(i, fd).cli_fd = fd
  <1>1. slist[i] \in Session
    BY DEF TypeOK, TableTypeOK, Used
  <1>2. fd \in Fds \cup {NoFd}
    BY DEF TypeOK, Origins
  <1>3. 0 \in 0 .. SESSION_TIMEOUT
    BY SessionConstants
  <1> QED
    BY <1>1, <1>2, <1>3 DEF Contacted, Session

(* A step of any kind leaves every variable with its type.                 *)
LEMMA TypeStep == TypeOK /\ [Next]_vars => TypeOK'
  <1> SUFFICES ASSUME TypeOK, [Next]_vars PROVE TypeOK'
    OBVIOUS
  <1>1. ASSUME NEW fd \in Fds, Connect(fd) PROVE TypeOK'
    BY <1>1 DEF Connect, TypeOK, TableTypeOK
  <1>2. ASSUME NEW F \in SUBSET conns, Disconnect(F) PROVE TypeOK'
    <2>1. \A i \in Slots : slist[i] # NoSession =>
             [slist[i] EXCEPT !.cli_fd = NoFd] \in Session
      BY DEF TypeOK, TableTypeOK, Session
    <2>2. slist' \in [Slots -> Session \cup {NoSession}]
      BY <1>2, <2>1 DEF Disconnect, Unbound, TypeOK, TableTypeOK
    <2> QED
      BY <1>2, <2>2 DEF Disconnect, TypeOK, TableTypeOK
  <1>3. ASSUME NEW ip \in IPs, NEW fd \in Origins, Mount(ip, fd) PROVE TypeOK'
    <2>1. fd \in Fds \cup {NoFd}
      BY DEF Origins, TypeOK
    <2>2. CASE MountOk(ip, fd)
      <3>1. PICK sid \in NewSids(ip) :
               Allocate(ip, [sid |-> sid, ipaddr |-> ip, cli_fd |-> fd,
                             idle |-> 0, files |-> {}])
        BY <2>2 DEF MountOk
      <3>2. [sid |-> sid, ipaddr |-> ip, cli_fd |-> fd, idle |-> 0, files |-> {}]
               \in Session
        BY <2>1, NewSidsAreSids, SessionConstants DEF Session
      <3>3. TableTypeOK'
        BY <3>1, <3>2, AllocateType
      <3> QED
        BY <1>3, <3>3 DEF Mount, TypeOK
    <2>3. CASE MountFails(ip)
      BY <1>3, <2>3, FreeSessionsType DEF MountFails, Mount, TypeOK
    <2>4. CASE MountNoRoot(ip)
      <3>1. PICK sid \in NewSids(ip) :
               Allocate(ip, [sid |-> sid, ipaddr |-> NoIp, cli_fd |-> NoFd,
                             idle |-> SESSION_TIMEOUT, files |-> {}])
        BY <2>4 DEF MountNoRoot
      <3>2. [sid |-> sid, ipaddr |-> NoIp, cli_fd |-> NoFd,
             idle |-> SESSION_TIMEOUT, files |-> {}] \in Session
        BY NewSidsAreSids, SessionConstants DEF Session
      <3>3. TableTypeOK'
        BY <3>1, <3>2, AllocateType
      <3> QED
        BY <1>3, <3>3 DEF Mount, TypeOK
    <2> QED
      BY <1>3, <2>2, <2>3, <2>4 DEF Mount
  <1>4. ASSUME NEW i \in Slots, NEW ip \in IPs, NEW fd \in Origins,
               Request(i, ip, fd)
        PROVE  TypeOK'
    <2>1. i \in Used
      BY <1>4 DEF Request, MayUse
    <2>2. Contacted(i, fd) \in Session
      BY <2>1, ContactedType
    <2>3. CASE Serve(i, fd)
      BY <1>4, <2>2, <2>3 DEF Serve, Request, TypeOK, TableTypeOK
    <2>4. CASE OpenFile(i, fd)
      <3>1. PICK f \in Fds \ openfds :
               /\ slist' = [slist EXCEPT ![i] =
                              [Contacted(i, fd) EXCEPT !.files = @ \cup {f}]]
               /\ openfds' = openfds \cup {f}
        BY <2>4 DEF OpenFile
      <3>2. [Contacted(i, fd) EXCEPT !.files = @ \cup {f}] \in Session
        BY <2>2 DEF Session
      <3> QED
        BY <1>4, <3>1, <3>2 DEF Request, TypeOK, TableTypeOK
    <2>5. CASE CloseFile(i, fd)
      <3>1. PICK f \in slist[i].files :
               /\ slist' = [slist EXCEPT ![i] =
                              [Contacted(i, fd) EXCEPT !.files = @ \ {f}]]
               /\ openfds' = openfds \ {f}
        BY <2>5 DEF CloseFile
      <3>2. [Contacted(i, fd) EXCEPT !.files = @ \ {f}] \in Session
        BY <2>2 DEF Session
      <3> QED
        BY <1>4, <3>1, <3>2 DEF Request, TypeOK, TableTypeOK
    <2>6. CASE Umount(i)
      BY <1>4, <2>6, FreeSessionsType DEF Umount, Request, TypeOK
    <2> QED
      BY <1>4, <2>3, <2>4, <2>5, <2>6 DEF Request
  <1>5. CASE Expire
    BY <1>5, FreeSessionsType DEF Expire, Sweep, TypeOK
  <1>6. CASE Tick
    <2>1. \A i \in Slots : slist[i] # NoSession /\ slist[i].idle < SESSION_TIMEOUT =>
             [slist[i] EXCEPT !.idle = @ + 1] \in Session
      BY SessionConstants DEF TypeOK, TableTypeOK, Session
    <2>2. slist' \in [Slots -> Session \cup {NoSession}]
      BY <1>6, <2>1 DEF Tick, Aged, TypeOK, TableTypeOK
    <2> QED
      BY <1>6, <2>2 DEF Tick, TypeOK, TableTypeOK
  <1>7. CASE FreeEverything
    BY <1>7, FreeSessionsType DEF FreeEverything, FreeAll, TypeOK
  <1>8. CASE UNCHANGED vars
    BY <1>8 DEF vars, TypeOK, TableTypeOK
  <1> QED
    BY <1>1, <1>2, <1>3, <1>4, <1>5, <1>6, <1>7, <1>8 DEF Next

(* Every variable keeps its type, whatever happens to the table.           *)
THEOREM TypeCorrect == Spec => []TypeOK
  <1>1. Init => TypeOK
    BY DEF Init, TableInit, TypeOK, TableTypeOK
  <1> QED
    BY <1>1, TypeStep, PTL DEF Spec

-----------------------------------------------------------------------------
(* What a MOUNT frees is in use.                                           *)
LEMMA MountFreesUsed ==
    ASSUME NEW ip \in IPs
    PROVE  MountFrees(ip) \subseteq Used
  BY DEF MountFrees, LapsedSeen, Victim, Match, Used

(* The identifier a MOUNT gives is that of no session it leaves in place.  *)
LEMMA NewSidsAreFree ==
    ASSUME TypeOK, UniqueSids, NEW ip \in IPs, NEW sid \in NewSids(ip),
           NEW j \in Used \ MountFrees(ip)
    PROVE  slist[j].sid # sid
  <1>1. CASE Victim(ip) # {}
    <2>1. PICK v \in Victim(ip) : sid = slist[v].sid
      BY <1>1 DEF NewSids
    <2>2. v \in Used /\ v \in MountFrees(ip)
      BY <2>1 DEF Victim, Match, MountFrees
    <2> QED
      BY <2>1, <2>2 DEF UniqueSids
  <1>2. CASE Victim(ip) = {}
    BY <1>2 DEF NewSids
  <1> QED
    BY <1>1, <1>2

(* The whole table after a MOUNT that leaves s in a slot: s in one place,  *)
(* nothing in those that were freed, and the rest as before.               *)
LEMMA AllocateResult ==
    ASSUME TypeOK, NEW ip \in IPs, NEW s \in Session, Allocate(ip, s)
    PROVE  \E slot \in Slots :
              /\ slist'[slot] = s
              /\ Used' = (Used \ MountFrees(ip)) \cup {slot}
              /\ slot \notin Used \ MountFrees(ip)
              /\ \A i \in Used \ MountFrees(ip) : slist'[i] = slist[i]
              /\ openfds' = openfds \ FilesOf(MountFrees(ip))
  <1>1. PICK slot \in FreeSlots(ip) :
          /\ slist' = [i \in Slots |-> IF i = slot THEN s
                                       ELSE IF i \in MountFrees(ip) THEN NoSession
                                       ELSE slist[i]]
          /\ openfds' = openfds \ FilesOf(MountFrees(ip))
    BY DEF Allocate
  <1>2. slot \in Slots /\ slot \notin Used \ MountFrees(ip)
    BY <1>1 DEF FreeSlots
  <1>3. s # NoSession
    BY NoSessionIsNull
  <1>4. Used' = (Used \ MountFrees(ip)) \cup {slot}
    BY <1>1, <1>2, <1>3, MountFreesUsed DEF Used
  <1>5. \A i \in Used \ MountFrees(ip) : slist'[i] = slist[i]
    BY <1>1, <1>2 DEF Used
  <1> QED
    BY <1>1, <1>2, <1>4, <1>5

(* The table after sessions were freed.                                    *)
LEMMA FreeSessionsResult ==
    ASSUME TypeOK, NEW S \in SUBSET Used, FreeSessions(S)
    PROVE  /\ Used' = Used \ S
           /\ \A i \in Used \ S : slist'[i] = slist[i]
           /\ openfds' = openfds \ FilesOf(S)
  BY DEF FreeSessions, Used

(* The inductive invariant: each part needs the types, and the eviction of *)
(* a session needs UniqueSids to give its identifier away again.           *)
TableInv == TypeOK /\ UniqueSids /\ CliFdLive /\ OneOwner

(* Freeing any sessions keeps the invariant.                               *)
LEMMA FreeSessionsInv ==
    ASSUME TableInv, NEW S \in SUBSET Used, FreeSessions(S), UNCHANGED conns
    PROVE  TableInv'
  <1>1. TypeOK /\ UniqueSids /\ CliFdLive /\ OneOwner
    BY DEF TableInv
  <1>2. /\ Used' = Used \ S
        /\ \A i \in Used \ S : slist'[i] = slist[i]
        /\ openfds' = openfds \ FilesOf(S)
    BY <1>1, FreeSessionsResult
  <1>3. TypeOK'
    BY <1>1, FreeSessionsType DEF TypeOK
  <1>4. UniqueSids'
    BY <1>1, <1>2 DEF UniqueSids
  <1>5. CliFdLive'
    BY <1>1, <1>2 DEF CliFdLive
  <1>6. FilesOf(Used)' = FilesOf(Used) \ FilesOf(S)
    BY <1>1, <1>2 DEF FilesOf, OneOwner
  <1>7. conns \cap FilesOf(S) = {}
    BY <1>1 DEF OneOwner, FilesOf
  <1>8. OneOwner'
    BY <1>1, <1>2, <1>6, <1>7 DEF OneOwner
  <1> QED
    BY <1>3, <1>4, <1>5, <1>8 DEF TableInv

(* Putting a fresh session in keeps the invariant.                         *)
LEMMA AllocateInv ==
    ASSUME TableInv, NEW ip \in IPs, NEW s \in Session, Allocate(ip, s),
           UNCHANGED conns, s.sid \in NewSids(ip), s.files = {},
           s.cli_fd \in conns \cup {NoFd}
    PROVE  TableInv'
  <1>1. TypeOK /\ UniqueSids /\ CliFdLive /\ OneOwner
    BY DEF TableInv
  <1>2. PICK slot \in Slots :
          /\ slist'[slot] = s
          /\ Used' = (Used \ MountFrees(ip)) \cup {slot}
          /\ slot \notin Used \ MountFrees(ip)
          /\ \A i \in Used \ MountFrees(ip) : slist'[i] = slist[i]
          /\ openfds' = openfds \ FilesOf(MountFrees(ip))
    BY <1>1, AllocateResult
  <1>3. TypeOK'
    BY <1>1, AllocateType DEF TypeOK
  <1>4. UniqueSids'
    BY <1>1, <1>2, NewSidsAreFree DEF UniqueSids
  <1>5. CliFdLive'
    BY <1>1, <1>2 DEF CliFdLive
  <1>6. FilesOf(Used)' = FilesOf(Used) \ FilesOf(MountFrees(ip))
    <2>1. FilesOf(Used)' = FilesOf(Used \ MountFrees(ip))
      BY <1>2 DEF FilesOf
    <2>2. FilesOf(Used \ MountFrees(ip)) = FilesOf(Used) \ FilesOf(MountFrees(ip))
      BY <1>1, MountFreesUsed DEF FilesOf, OneOwner
    <2> QED
      BY <2>1, <2>2
  <1>7. conns \cap FilesOf(MountFrees(ip)) = {}
    BY <1>1, MountFreesUsed DEF OneOwner, FilesOf
  <1>8. OneOwner'
    BY <1>1, <1>2, <1>6, <1>7 DEF OneOwner
  <1> QED
    BY <1>3, <1>4, <1>5, <1>8 DEF TableInv

(* The step of the invariant, one case for each thing that can happen to   *)
(* the table.                                                              *)
LEMMA TableInvStep == TableInv /\ [Next]_vars => TableInv'
  <1> SUFFICES ASSUME TableInv, [Next]_vars PROVE TableInv'
    OBVIOUS
  <1>a. TypeOK /\ UniqueSids /\ CliFdLive /\ OneOwner
    BY DEF TableInv
  <1>t. TypeOK'
    BY <1>a, TypeStep
  <1>1. ASSUME NEW fd \in Fds, Connect(fd) PROVE TableInv'
    <2>1. Used' = Used /\ slist' = slist /\ FilesOf(Used)' = FilesOf(Used)
      BY <1>1 DEF Connect, Used, FilesOf
    <2>2. UniqueSids' /\ CliFdLive'
      BY <1>1, <1>a, <2>1 DEF Connect, UniqueSids, CliFdLive
    <2>3. OneOwner'
      BY <1>1, <1>a, <2>1 DEF Connect, OneOwner, FilesOf
    <2> QED
      BY <1>t, <2>2, <2>3 DEF TableInv
  <1>2. ASSUME NEW F \in SUBSET conns, Disconnect(F) PROVE TableInv'
    <2>1. Used' = Used
      <3>1. \A i \in Slots : slist[i] # NoSession =>
               [slist[i] EXCEPT !.cli_fd = NoFd] \in Session
        BY <1>a DEF TypeOK, TableTypeOK, Session
      <3> QED
        BY <1>2, <3>1, NoSessionIsNull DEF Disconnect, Unbound, Used
    <2>2. \A i \in Used : /\ slist'[i].sid = slist[i].sid
                         /\ slist'[i].files = slist[i].files
                         /\ slist'[i].cli_fd =
                              IF slist[i].cli_fd \in F THEN NoFd ELSE slist[i].cli_fd
      BY <1>2, <1>a DEF Disconnect, Unbound, Used, TypeOK, TableTypeOK, Session
    <2>3. FilesOf(Used)' = FilesOf(Used)
      BY <2>1, <2>2 DEF FilesOf
    <2>4. UniqueSids' /\ CliFdLive'
      BY <1>2, <1>a, <2>1, <2>2 DEF Disconnect, UniqueSids, CliFdLive
    <2>5. FilesOf(Used) \cap F = {}
      BY <1>a DEF OneOwner, FilesOf
    <2>6. OneOwner'
      BY <1>2, <1>a, <2>1, <2>2, <2>3, <2>5 DEF Disconnect, OneOwner
    <2> QED
      BY <1>t, <2>4, <2>6 DEF TableInv
  <1>3. ASSUME NEW ip \in IPs, NEW fd \in Origins, Mount(ip, fd) PROVE TableInv'
    <2>0. fd \in Fds \cup {NoFd} /\ fd \in conns \cup {NoFd}
      BY <1>a DEF Origins, TypeOK
    <2>1. CASE MountOk(ip, fd)
      <3>1. PICK sid \in NewSids(ip) :
               Allocate(ip, [sid |-> sid, ipaddr |-> ip, cli_fd |-> fd,
                             idle |-> 0, files |-> {}])
        BY <2>1 DEF MountOk
      <3>2. [sid |-> sid, ipaddr |-> ip, cli_fd |-> fd, idle |-> 0, files |-> {}]
               \in Session
        BY <1>a, <2>0, NewSidsAreSids, SessionConstants DEF Session
      <3> QED
        BY <1>3, <2>0, <3>1, <3>2, AllocateInv DEF Mount
    <2>2. CASE MountFails(ip)
      BY <1>3, <2>2, MountFreesUsed, FreeSessionsInv DEF MountFails, Mount
    <2>3. CASE MountNoRoot(ip)
      <3>1. PICK sid \in NewSids(ip) :
               Allocate(ip, [sid |-> sid, ipaddr |-> NoIp, cli_fd |-> NoFd,
                             idle |-> SESSION_TIMEOUT, files |-> {}])
        BY <2>3 DEF MountNoRoot
      <3>2. [sid |-> sid, ipaddr |-> NoIp, cli_fd |-> NoFd,
             idle |-> SESSION_TIMEOUT, files |-> {}] \in Session
        BY <1>a, NewSidsAreSids, SessionConstants DEF Session
      <3> QED
        BY <1>3, <3>1, <3>2, AllocateInv DEF Mount
    <2> QED
      BY <1>3, <2>1, <2>2, <2>3 DEF Mount
  <1>4. ASSUME NEW i \in Slots, NEW ip \in IPs, NEW fd \in Origins,
               Request(i, ip, fd)
        PROVE  TableInv'
    <2>1. i \in Used /\ conns' = conns /\ fd \in conns \cup {NoFd}
      BY <1>4 DEF Request, MayUse, Origins
    <2>2. /\ Contacted(i, fd) \in Session
          /\ Contacted(i, fd).sid = slist[i].sid
          /\ Contacted(i, fd).files = slist[i].files
          /\ Contacted(i, fd).cli_fd = fd
      BY <1>a, <2>1, ContactedType DEF Contacted
    <2>3. /\ FilesOf(Used) = FilesOf(Used \ {i}) \cup slist[i].files
          /\ FilesOf(Used \ {i}) \cap slist[i].files = {}
          /\ conns \cap slist[i].files = {}
          /\ conns \cap FilesOf(Used \ {i}) = {}
      BY <2>1, <1>a DEF OneOwner, FilesOf
    <2>4. ASSUME NEW s \in Session, slist' = [slist EXCEPT ![i] = s],
                 s.sid = slist[i].sid, s.cli_fd = fd,
                 s.files \cap (openfds \ slist[i].files) = {},
                 openfds' = (openfds \ slist[i].files) \cup s.files
          PROVE  TableInv'
      <3>1. /\ Used' = Used
            /\ \A j \in Used \ {i} : slist'[j] = slist[j]
            /\ slist'[i] = s
        BY <2>4, <2>1, <1>a, NoSessionIsNull DEF Used, TypeOK, TableTypeOK
      <3>2. UniqueSids' /\ CliFdLive'
        BY <2>1, <2>4, <3>1, <1>a DEF UniqueSids, CliFdLive
      <3>3. FilesOf(Used)' = FilesOf(Used \ {i}) \cup s.files
        BY <2>1, <3>1 DEF FilesOf
      <3>4. openfds = conns \cup FilesOf(Used)
        BY <1>a DEF OneOwner
      <3>5. (openfds = conns \cup FilesOf(Used))'
        BY <2>1, <2>3, <2>4, <3>3, <3>4
      <3>6. s.files \cap conns = {} /\ s.files \cap FilesOf(Used \ {i}) = {}
        BY <2>3, <2>4, <3>4
      <3>7. \A j \in Used \ {i} : s.files \cap slist[j].files = {}
        BY <3>6 DEF FilesOf
      <3>8. (\A j \in Used : slist[j].files \cap conns = {})'
        BY <1>a, <2>1, <3>1, <3>6 DEF OneOwner
      <3>9. (\A j, k \in Used : j # k => slist[j].files \cap slist[k].files = {})'
        BY <1>a, <2>1, <3>1, <3>7 DEF OneOwner
      <3> QED
        BY <1>t, <3>2, <3>5, <3>8, <3>9 DEF TableInv, OneOwner
    <2>5. CASE Serve(i, fd)
      <3>1. slist' = [slist EXCEPT ![i] = Contacted(i, fd)] /\ openfds' = openfds
        BY <2>5 DEF Serve
      <3>2. slist[i].files \subseteq openfds
        BY <1>a, <2>3 DEF OneOwner
      <3> QED
        BY <2>2, <2>4, <3>1, <3>2
    <2>6. CASE OpenFile(i, fd)
      <3>1. PICK f \in Fds \ openfds :
               /\ slist' = [slist EXCEPT ![i] =
                              [Contacted(i, fd) EXCEPT !.files = @ \cup {f}]]
               /\ openfds' = openfds \cup {f}
        BY <2>6 DEF OpenFile
      <3>2. slist[i].files \subseteq openfds
        BY <1>a, <2>3 DEF OneOwner
      <3> DEFINE s == [Contacted(i, fd) EXCEPT !.files = @ \cup {f}]
      <3>3. /\ s \in Session /\ s.sid = slist[i].sid /\ s.cli_fd = fd
            /\ s.files = slist[i].files \cup {f}
        BY <2>2 DEF Session
      <3>4. slist' = [slist EXCEPT ![i] = s]
        BY <3>1
      <3> HIDE DEF s
      <3> QED
        BY <2>4, <3>1, <3>2, <3>3, <3>4
    <2>7. CASE CloseFile(i, fd)
      <3>1. PICK f \in slist[i].files :
               /\ slist' = [slist EXCEPT ![i] =
                              [Contacted(i, fd) EXCEPT !.files = @ \ {f}]]
               /\ openfds' = openfds \ {f}
        BY <2>7 DEF CloseFile
      <3>2. slist[i].files \subseteq openfds
        BY <1>a, <2>3 DEF OneOwner
      <3> DEFINE s == [Contacted(i, fd) EXCEPT !.files = @ \ {f}]
      <3>3. /\ s \in Session /\ s.sid = slist[i].sid /\ s.cli_fd = fd
            /\ s.files = slist[i].files \ {f}
        BY <2>2 DEF Session
      <3>4. slist' = [slist EXCEPT ![i] = s]
        BY <3>1
      <3> HIDE DEF s
      <3> QED
        BY <2>4, <3>1, <3>2, <3>3, <3>4
    <2>8. CASE Umount(i)
      BY <2>1, <2>8, FreeSessionsInv DEF Umount
    <2> QED
      BY <1>4, <2>5, <2>6, <2>7, <2>8 DEF Request
  <1>5. CASE Expire
    BY <1>5, FreeSessionsInv DEF Expire, Sweep
  <1>6. CASE Tick
    <2>1. \A i \in Slots : slist[i] # NoSession /\ slist[i].idle < SESSION_TIMEOUT =>
             /\ [slist[i] EXCEPT !.idle = @ + 1] \in Session
      BY <1>a, SessionConstants DEF TypeOK, TableTypeOK, Session
    <2>2. Used' = Used
      BY <1>6, <2>1, NoSessionIsNull DEF Tick, Aged, Used
    <2>3. \A i \in Used : /\ slist'[i].sid = slist[i].sid
                         /\ slist'[i].files = slist[i].files
                         /\ slist'[i].cli_fd = slist[i].cli_fd
      BY <1>6, <1>a DEF Tick, Aged, Used, TypeOK, TableTypeOK, Session
    <2>4. UniqueSids' /\ CliFdLive'
      BY <1>6, <1>a, <2>2, <2>3 DEF Tick, UniqueSids, CliFdLive
    <2>5. FilesOf(Used)' = FilesOf(Used)
      BY <2>2, <2>3 DEF FilesOf
    <2>6. OneOwner'
      BY <1>6, <1>a, <2>2, <2>3, <2>5 DEF Tick, OneOwner
    <2> QED
      BY <1>t, <2>4, <2>6 DEF TableInv
  <1>7. CASE FreeEverything
    BY <1>7, FreeSessionsInv DEF FreeEverything, FreeAll
  <1>8. CASE UNCHANGED vars
    BY <1>8, <1>a, <1>t DEF vars, TableInv, UniqueSids, CliFdLive, OneOwner, Used, FilesOf
  <1> QED
    BY <1>1, <1>2, <1>3, <1>4, <1>5, <1>6, <1>7, <1>8 DEF Next

(* The invariant holds in every reachable state.                           *)
THEOREM TableInvariant == Spec => []TableInv
  <1>1. Init => TableInv
    BY DEF Init, TableInit, TableInv, TypeOK, TableTypeOK, UniqueSids, CliFdLive,
           OneOwner, Used, FilesOf
  <1> QED
    BY <1>1, TableInvStep, PTL DEF Spec

(* Two sessions never answer to the same identifier, however many are      *)
(* mounted, recycled and expired.                                          *)
THEOREM SidsAreUnique == Spec => []UniqueSids
  BY TableInvariant, PTL DEF TableInv

(* A session never claims a connection that was closed.                    *)
THEOREM CliFdsAreLive == Spec => []CliFdLive
  BY TableInvariant, PTL DEF TableInv

(* Every open descriptor has one owner and every owner's descriptor is     *)
(* open: no leak, no double close, no use of somebody else's descriptor.   *)
THEOREM DescriptorsHaveOneOwner == Spec => []OneOwner
  BY TableInvariant, PTL DEF TableInv

-----------------------------------------------------------------------------
(* Action properties and counts. *)

(* The sessions of an address.                                             *)
OfIp(ip) == {i \in Used : slist[i].ipaddr = ip}

(* Names are never new after a step that allocates no session.             *)
LEMMA NoNewNames ==
    ASSUME Used' \subseteq Used,
           \A j \in Used' : /\ slist'[j].sid = slist[j].sid
                            /\ slist'[j].ipaddr = slist[j].ipaddr
    PROVE  Names' \subseteq Names
  BY DEF Names

(* What every step but a MOUNT does to the slots: a session keeps its      *)
(* identifier and its address, or is gone.                                 *)
LEMMA KeptOrGone ==
    ASSUME TypeOK, [Next]_vars,
           ~ \E ip \in IPs, fd \in Origins : MountOk(ip, fd) \/ MountNoRoot(ip)
    PROVE  /\ Used' \subseteq Used
           /\ \A j \in Used' : /\ slist'[j].sid = slist[j].sid
                                /\ slist'[j].ipaddr = slist[j].ipaddr
  <1> DEFINE Goal == /\ Used' \subseteq Used
                     /\ \A j \in Used' : /\ slist'[j].sid = slist[j].sid
                                          /\ slist'[j].ipaddr = slist[j].ipaddr
  <1>1. ASSUME NEW S \in SUBSET Used, FreeSessions(S) PROVE Goal
    BY <1>1, FreeSessionsResult
  <1>2. ASSUME UNCHANGED slist PROVE Goal
    BY <1>2 DEF Used
  <1>3. ASSUME NEW i \in Used, NEW s \in Session, s.sid = slist[i].sid,
               s.ipaddr = slist[i].ipaddr, slist' = [slist EXCEPT ![i] = s]
        PROVE  Goal
    <2>1. i \in Slots /\ slist'[i] = s /\ \A j \in Slots \ {i} : slist'[j] = slist[j]
      BY <1>3 DEF Used, TypeOK, TableTypeOK
    <2> QED
      BY <1>3, <2>1 DEF Used
  <1>4. ASSUME NEW ip \in IPs, NEW fd \in Origins, Mount(ip, fd) PROVE Goal
    <2>1. MountFails(ip)
      BY <1>4 DEF Mount
    <2> QED
      BY <1>1, <2>1, MountFreesUsed DEF MountFails
  <1>5. ASSUME NEW i \in Slots, NEW ip \in IPs, NEW fd \in Origins,
               Request(i, ip, fd)
        PROVE  Goal
    <2>1. i \in Used
      BY <1>5 DEF Request, MayUse
    <2>2. /\ Contacted(i, fd) \in Session
          /\ Contacted(i, fd).sid = slist[i].sid
          /\ Contacted(i, fd).ipaddr = slist[i].ipaddr
      BY <2>1, ContactedType
    <2>3. CASE Serve(i, fd)
      BY <1>3, <2>1, <2>2, <2>3 DEF Serve
    <2>4. CASE OpenFile(i, fd)
      <3>1. PICK f \in Fds \ openfds :
               slist' = [slist EXCEPT ![i] = [Contacted(i, fd) EXCEPT !.files = @ \cup {f}]]
        BY <2>4 DEF OpenFile
      <3> DEFINE s == [Contacted(i, fd) EXCEPT !.files = @ \cup {f}]
      <3>2. s \in Session /\ s.sid = slist[i].sid /\ s.ipaddr = slist[i].ipaddr
        BY <2>2 DEF Session
      <3>3. slist' = [slist EXCEPT ![i] = s]
        BY <3>1
      <3> HIDE DEF s
      <3> QED
        BY <1>3, <2>1, <3>2, <3>3
    <2>5. CASE CloseFile(i, fd)
      <3>1. PICK f \in slist[i].files :
               slist' = [slist EXCEPT ![i] = [Contacted(i, fd) EXCEPT !.files = @ \ {f}]]
        BY <2>5 DEF CloseFile
      <3> DEFINE s == [Contacted(i, fd) EXCEPT !.files = @ \ {f}]
      <3>2. s \in Session /\ s.sid = slist[i].sid /\ s.ipaddr = slist[i].ipaddr
        BY <2>2 DEF Session
      <3>3. slist' = [slist EXCEPT ![i] = s]
        BY <3>1
      <3> HIDE DEF s
      <3> QED
        BY <1>3, <2>1, <3>2, <3>3
    <2>6. CASE Umount(i)
      BY <1>1, <2>1, <2>6 DEF Umount
    <2> QED
      BY <1>5, <2>3, <2>4, <2>5, <2>6 DEF Request
  <1>6. ASSUME NEW F \in SUBSET conns, Disconnect(F) PROVE Goal
    BY <1>6 DEF Disconnect, Unbound, Used, TypeOK, TableTypeOK, Session
  <1>7. CASE Tick
    BY <1>7 DEF Tick, Aged, Used, TypeOK, TableTypeOK, Session
  <1>8. CASE Expire
    BY <1>1, <1>8 DEF Expire, Sweep
  <1>9. CASE FreeEverything
    BY <1>1, <1>9 DEF FreeEverything, FreeAll
  <1>10. ASSUME NEW fd \in Fds, Connect(fd) PROVE Goal
    BY <1>2, <1>10 DEF Connect
  <1>11. CASE UNCHANGED vars
    BY <1>2, <1>11 DEF vars
  <1> QED
    BY <1>4, <1>5, <1>6, <1>7, <1>8, <1>9, <1>10, <1>11 DEF Next

(* What a MOUNT that brings a session into being allocates.                *)
LEMMA MountAllocates ==
    ASSUME TypeOK, NEW ip \in IPs, NEW fd \in Origins,
           MountOk(ip, fd) \/ MountNoRoot(ip)
    PROVE  \E s \in Session : Allocate(ip, s) /\ s.ipaddr \in {ip, NoIp}
  <1>1. fd \in Fds \cup {NoFd}
    BY DEF Origins, TypeOK
  <1>2. CASE MountOk(ip, fd)
    <2>1. PICK sid \in NewSids(ip) :
             Allocate(ip, [sid |-> sid, ipaddr |-> ip, cli_fd |-> fd,
                           idle |-> 0, files |-> {}])
      BY <1>2 DEF MountOk
    <2>2. [sid |-> sid, ipaddr |-> ip, cli_fd |-> fd, idle |-> 0, files |-> {}]
             \in Session
      BY <1>1, NewSidsAreSids, SessionConstants DEF Session
    <2> QED
      BY <2>1, <2>2
  <1>3. CASE MountNoRoot(ip)
    <2>1. PICK sid \in NewSids(ip) :
             Allocate(ip, [sid |-> sid, ipaddr |-> NoIp, cli_fd |-> NoFd,
                           idle |-> SESSION_TIMEOUT, files |-> {}])
      BY <1>3 DEF MountNoRoot
    <2>2. [sid |-> sid, ipaddr |-> NoIp, cli_fd |-> NoFd,
           idle |-> SESSION_TIMEOUT, files |-> {}] \in Session
      BY NewSidsAreSids, SessionConstants DEF Session
    <2> QED
      BY <2>1, <2>2
  <1> QED
    BY <1>2, <1>3

(* A step that brings a session into being ends no unexpired session of    *)
(* another client: what a MOUNT recycles is of its own address.            *)
THEOREM EvictionIsOfOwnIp == Spec => EvictsOnlyOwnIp
  <1>1. ASSUME TypeOK, [Next]_vars, NEW i \in Used, NEW j \in Slots,
               ~ Expired(slist[i]),
               <<slist[i].sid, slist[i].ipaddr>> \notin Names',
               slist'[j] # NoSession,
               <<slist'[j].sid, slist'[j].ipaddr>> \notin Names
        PROVE  slist'[j].ipaddr \in {slist[i].ipaddr, NoIp}
    <2>0. j \in Used'
      BY <1>1 DEF Used
    <2>1. <<slist'[j].sid, slist'[j].ipaddr>> \in Names'
      BY <2>0 DEF Names
    <2>2. PICK ip \in IPs, fd \in Origins : MountOk(ip, fd) \/ MountNoRoot(ip)
      BY <1>1, <2>1, KeptOrGone, NoNewNames
    <2>3. PICK s \in Session : Allocate(ip, s) /\ s.ipaddr \in {ip, NoIp}
      BY <1>1, <2>2, MountAllocates
    <2>4. PICK slot \in Slots :
             /\ slist'[slot] = s
             /\ Used' = (Used \ MountFrees(ip)) \cup {slot}
             /\ \A k \in Used \ MountFrees(ip) : slist'[k] = slist[k]
      BY <1>1, <2>3, AllocateResult
    <2>5. j = slot
      <3>1. \A k \in Used \ MountFrees(ip) : <<slist'[k].sid, slist'[k].ipaddr>> \in Names
        BY <2>4 DEF Names
      <3> QED
        BY <1>1, <2>0, <2>4, <3>1
    <2>6. i \in MountFrees(ip)
      <3>1. \A k \in Used \ MountFrees(ip) : <<slist[k].sid, slist[k].ipaddr>> \in Names'
        BY <2>4 DEF Names
      <3> QED
        BY <1>1, <3>1
    <2>7. slist[i].ipaddr = ip
      BY <1>1, <2>6 DEF MountFrees, LapsedSeen, Victim, Match
    <2> QED
      BY <2>3, <2>4, <2>5, <2>7
  <1>2. TypeOK /\ [Next]_vars =>
           [\A i \in Used, j \in Slots :
              /\ ~ Expired(slist[i])
              /\ <<slist[i].sid, slist[i].ipaddr>> \notin Names'
              /\ slist'[j] # NoSession
              /\ <<slist'[j].sid, slist'[j].ipaddr>> \notin Names
              => slist'[j].ipaddr \in {slist[i].ipaddr, NoIp}]_vars
    BY <1>1
  <1> QED
    BY <1>2, TypeCorrect, PTL DEF Spec, EvictsOnlyOwnIp

-----------------------------------------------------------------------------
(* The number of sessions of an address. *)

(* The table is finite.                                                    *)
LEMMA SlotsFinite == IsFiniteSet(Slots) /\ Slots \subseteq Nat
  BY SessionConstants, FS_Interval DEF Slots

(* A set of slots has no more elements than one it is part of.             *)
LEMMA SlotCount ==
    ASSUME NEW S \in SUBSET Slots, NEW T \in SUBSET S
    PROVE  /\ IsFiniteSet(S) /\ IsFiniteSet(T)
           /\ Cardinality(S) \in Nat /\ Cardinality(T) \in Nat
           /\ Cardinality(T) <= Cardinality(S)
  <1>1. IsFiniteSet(S)
    BY SlotsFinite, FS_Subset
  <1>2. IsFiniteSet(T) /\ Cardinality(T) <= Cardinality(S)
    BY <1>1, FS_Subset
  <1> QED
    BY <1>1, <1>2, FS_CardinalityType

(* A MOUNT of an address at its limit has a session to recycle.            *)
LEMMA VictimExists ==
    ASSUME NEW ip, Cardinality(Match(ip)) >= Limit
    PROVE  \E v \in Match(ip) : v \in Victim(ip)
  <1>1. Match(ip) \in SUBSET Slots
    BY DEF Match, Used
  <1>2. Match(ip) # {}
    BY FS_EmptySet, SessionConstants DEF Limit
  <1>3. PICK v \in Match(ip) : \A i \in Match(ip) : ~ (<<i, v>> \in OpToRel(<, Nat))
    BY <1>1, <1>2, SlotsFinite, NatLessThanWellFounded, WFMin
  <1>4. \A i \in Match(ip) : ~ (i < v)
    BY <1>1, <1>3, SlotsFinite DEF OpToRel
  <1>5. Match(ip) \subseteq Nat
    BY <1>1, SlotsFinite
  <1>6. \A i \in Match(ip) : v <= i
    BY <1>4, <1>5
  <1> QED
    BY <1>6 DEF Victim

(* After a MOUNT has freed what it frees, its address has room for one.    *)
LEMMA MountMakesRoom ==
    ASSUME NEW ip \in IPs, Cardinality(OfIp(ip)) <= Limit
    PROVE  /\ IsFiniteSet(OfIp(ip) \ MountFrees(ip))
           /\ Cardinality(OfIp(ip) \ MountFrees(ip)) + 1 <= Limit
  <1>1. OfIp(ip) \in SUBSET Slots /\ Match(ip) \in SUBSET OfIp(ip)
    BY DEF OfIp, Used, Match
  <1>2. IsFiniteSet(OfIp(ip)) /\ Cardinality(OfIp(ip)) \in Nat
    BY <1>1, SlotCount
  <1>3. Limit \in Nat /\ Limit >= 2
    BY SessionConstants DEF Limit
  <1>4. CASE Cardinality(Match(ip)) >= Limit
    <2>1. PICK v \in Match(ip) : v \in Victim(ip)
      BY <1>4, VictimExists
    <2>2. /\ IsFiniteSet(OfIp(ip) \ {v})
          /\ Cardinality(OfIp(ip) \ {v}) = Cardinality(OfIp(ip)) - 1
      BY <1>1, <1>2, <2>1, FS_RemoveElement
    <2>3. OfIp(ip) \ MountFrees(ip) \in SUBSET (OfIp(ip) \ {v})
      BY <2>1 DEF MountFrees
    <2>4. /\ IsFiniteSet(OfIp(ip) \ MountFrees(ip))
          /\ Cardinality(OfIp(ip) \ MountFrees(ip)) \in Nat
          /\ Cardinality(OfIp(ip) \ MountFrees(ip)) <= Cardinality(OfIp(ip) \ {v})
      BY <1>1, <2>3, SlotCount
    <2> QED
      BY <1>2, <1>3, <2>2, <2>4
  <1>5. CASE ~ (Cardinality(Match(ip)) >= Limit)
    <2>1. Match(ip) \in SUBSET Slots /\ Cardinality(Match(ip)) \in Nat
      BY <1>1, SlotCount
    <2>2. Scanned(ip) = Slots
      <3>1. ASSUME NEW i \in Slots
            PROVE  Cardinality({j \in Match(ip) : j < i}) < Limit
        <4>1. {j \in Match(ip) : j < i} \in SUBSET Match(ip)
          OBVIOUS
        <4>2. /\ Cardinality({j \in Match(ip) : j < i}) \in Nat
              /\ Cardinality({j \in Match(ip) : j < i}) <= Cardinality(Match(ip))
          BY <2>1, <4>1, SlotCount
        <4> QED
          BY <1>3, <1>5, <2>1, <4>2
      <3> QED
        BY <3>1 DEF Scanned
    <2>3. OfIp(ip) \ MountFrees(ip) \in SUBSET Match(ip)
      BY <2>2 DEF OfIp, MountFrees, LapsedSeen, Match, Used
    <2>4. /\ IsFiniteSet(OfIp(ip) \ MountFrees(ip))
          /\ Cardinality(OfIp(ip) \ MountFrees(ip)) \in Nat
          /\ Cardinality(OfIp(ip) \ MountFrees(ip)) <= Cardinality(Match(ip))
      BY <2>1, <2>3, SlotCount
    <2> QED
      BY <1>3, <1>5, <2>1, <2>4
  <1> QED
    BY <1>4, <1>5

(* No address holds more sessions than the scan lets it: the inductive     *)
(* form of PerIpLimit, which is about MAX_SESSIONS_PER_IP itself.          *)
IpLimit == \A ip \in IPs : Cardinality(OfIp(ip)) <= Limit

(* One step keeps every address within its limit.                          *)
LEMMA IpLimitStep == TypeOK /\ IpLimit /\ [Next]_vars => IpLimit'
  <1> SUFFICES ASSUME TypeOK, IpLimit, [Next]_vars, NEW ip \in IPs
               PROVE  Cardinality(OfIp(ip)') <= Limit
    BY DEF IpLimit
  <1>0. /\ OfIp(ip) \in SUBSET Slots
        /\ Cardinality(OfIp(ip)) \in Nat /\ Cardinality(OfIp(ip)) <= Limit
        /\ Limit \in Nat
    <2>1. OfIp(ip) \in SUBSET Slots
      BY DEF OfIp, Used
    <2> QED
      BY <2>1, SlotCount, SessionConstants DEF IpLimit, Limit
  <1>1. ASSUME OfIp(ip)' \subseteq OfIp(ip)
        PROVE  Cardinality(OfIp(ip)') <= Limit
    <2>1. OfIp(ip)' \in SUBSET OfIp(ip)
      BY <1>1
    <2>2. Cardinality(OfIp(ip)') \in Nat /\ Cardinality(OfIp(ip)') <= Cardinality(OfIp(ip))
      BY <1>0, <2>1, SlotCount
    <2> QED
      BY <1>0, <2>2
  <1>2. ASSUME NEW at \in IPs, NEW fd \in Origins, MountOk(at, fd) \/ MountNoRoot(at)
        PROVE  Cardinality(OfIp(ip)') <= Limit
    <2>1. PICK s \in Session : Allocate(at, s) /\ s.ipaddr \in {at, NoIp}
      BY <1>2, MountAllocates
    <2>2. PICK slot \in Slots :
             /\ slist'[slot] = s
             /\ Used' = (Used \ MountFrees(at)) \cup {slot}
             /\ \A k \in Used \ MountFrees(at) : slist'[k] = slist[k]
      BY <2>1, AllocateResult
    <2>3. OfIp(ip)' \subseteq (OfIp(ip) \ MountFrees(at)) \cup {slot}
      BY <2>2 DEF OfIp
    <2>4. CASE at # ip
      BY <1>1, <2>1, <2>2, <2>3, <2>4, ZeroesAreNoValue DEF OfIp
    <2>5. CASE at = ip
      <3>1. /\ IsFiniteSet(OfIp(ip) \ MountFrees(ip))
            /\ Cardinality(OfIp(ip) \ MountFrees(ip)) + 1 <= Limit
        BY <1>0, MountMakesRoom
      <3> DEFINE T == OfIp(ip) \ MountFrees(ip)
      <3>2. IsFiniteSet(T) /\ Cardinality(T) \in Nat
        BY <3>1, FS_CardinalityType
      <3>3. Cardinality(T \cup {slot}) <= Cardinality(T) + 1
        <4> HIDE DEF T
        <4>1. Cardinality(T \cup {slot}) =
                IF slot \in T THEN Cardinality(T) ELSE Cardinality(T) + 1
          BY <3>2, FS_AddElement
        <4> QED
          BY <3>2, <4>1
      <3>4. T \cup {slot} \in SUBSET Slots
        BY <1>0
      <3>5. OfIp(ip)' \in SUBSET (T \cup {slot})
        BY <2>3, <2>5
      <3>6. /\ Cardinality(OfIp(ip)') \in Nat /\ Cardinality(T \cup {slot}) \in Nat
            /\ Cardinality(OfIp(ip)') <= Cardinality(T \cup {slot})
        BY <3>4, <3>5, SlotCount
      <3> HIDE DEF T
      <3>7. Cardinality(T) + 1 <= Limit
        BY <3>1 DEF T
      <3> QED
        BY <1>0, <3>2, <3>3, <3>6, <3>7
    <2> QED
      BY <2>4, <2>5
  <1>3. CASE ~ \E at \in IPs, fd \in Origins : MountOk(at, fd) \/ MountNoRoot(at)
    <2>1. OfIp(ip)' \subseteq OfIp(ip)
      BY <1>3, KeptOrGone DEF OfIp
    <2> QED
      BY <1>1, <2>1
  <1> QED
    BY <1>2, <1>3

(* No address ever holds more than MAX_SESSIONS_PER_IP sessions, expired   *)
(* ones included. The limit has to be 2 or more (config.h has 16): with a  *)
(* smaller one the scan still waits for a second match.                    *)
THEOREM SessionsPerIpLimited ==
    ASSUME MAX_SESSIONS_PER_IP >= 2
    PROVE  Spec => []PerIpLimit
  <1>1. Init => IpLimit
    <2>1. Init => \A ip \in IPs : OfIp(ip) = {}
      BY DEF Init, TableInit, OfIp, Used
    <2> QED
      BY <2>1, FS_EmptySet, SessionConstants DEF IpLimit, Limit
  <1>2. IpLimit => PerIpLimit
    BY SessionConstants DEF IpLimit, PerIpLimit, OfIp, Limit
  <1> QED
    BY <1>1, <1>2, TypeCorrect, IpLimitStep, PTL DEF Spec
=============================================================================
