------------------------------- MODULE Server -------------------------------
(***************************************************************************)
(* tnfsd's main loop (datagram.c: tnfs_mainloop) over the session table:   *)
(* one thread that, pass after pass, closes stale TCP connections, sweeps  *)
(* expired sessions, waits for events, and serves at most one datagram,    *)
(* one new connection and one message of each connection that the wait     *)
(* reported. Around it, as separate actions that interleave with every     *)
(* step of the loop: time, the clients (datagrams, connections, messages,  *)
(* closes) and the signal that stops the server.                           *)
(*                                                                         *)
(* A pass is the sequence of values of pc. One step is one call the loop   *)
(* makes, since nothing else runs in this process between two calls.       *)
(* tcpsocks[k].idle is now - last_contact, capped at CONN_TIMEOUT + 1, and *)
(* Dead when last_contact is 0, the mark tnfs_mark_tcp_dead() leaves.      *)
(*                                                                         *)
(* Sockets are blocking, as the code leaves them. What a client asks for   *)
(* is chosen when its request is decoded.                                  *)
(***************************************************************************)
EXTENDS SessionTable, Sequences

CONSTANTS
    MAX_TCP_CONN,             \* size of tcpsocks[]
    CONN_TIMEOUT,             \* idle time after which a connection is stale
    SESSION_SWEEP_INTERVAL,   \* time between two sweeps of the session table
    sockfd, tcplistenfd       \* the datagram and the listening socket

ASSUME ServerConstants ==
    /\ MAX_TCP_CONN \in Nat
    /\ CONN_TIMEOUT \in Nat
    /\ SESSION_SWEEP_INTERVAL \in Nat

ASSUME ServerSockets ==
    /\ sockfd # tcplistenfd
    /\ {sockfd, tcplistenfd} \cap (Fds \cup {NoFd}) = {}

VARIABLES
    tcpsocks,   \* tcpsocks[k] is an accepted connection or NoConn
    pc,         \* the call of the pass the loop makes next
    scan,       \* i of the loop over tcpsocks
    ready,      \* wait_res: the descriptors the last wait reported
    sweepIdle,  \* now - last_session_sweep, capped at SESSION_SWEEP_INTERVAL
    stopped,    \* tnfs_stop_requested
    rx,         \* what the kernel holds for each connection: see Receivable
    dgrams,     \* a datagram is waiting on sockfd
    backlog     \* the clients waiting on tcplistenfd, oldest first

loopVars == <<pc, scan, ready, sweepIdle>>
envVars  == <<rx, dgrams, backlog>>
vars     == <<slist, openfds, tcpsocks, pc, scan, ready, sweepIdle, stopped,
              rx, dgrams, backlog>>

Conns == 0 .. MAX_TCP_CONN - 1

Dead == CONN_TIMEOUT + 2

Connection == [cli_fd : Fds \cup {NoFd}, ip : IPs \cup {NoIp}, idle : 0 .. Dead]

NoConn == [cli_fd |-> NoFd, ip |-> NoIp, idle |-> 0]

(* "data": a message can be received; "eof": the peer has closed or the    *)
(* connection has failed; "none": recv() would block.                      *)
Receivable == {"none", "data", "eof"}

Steps == {"stale", "sweep", "wait", "udp", "accept", "scan", "close", "free", "done"}

TypeOK ==
    /\ TableTypeOK
    /\ tcpsocks \in [Conns -> Connection]
    /\ pc \in Steps
    /\ scan \in 0 .. MAX_TCP_CONN
    /\ ready \in SUBSET (Fds \cup {sockfd, tcplistenfd})
    /\ sweepIdle \in 0 .. SESSION_SWEEP_INTERVAL
    /\ stopped \in BOOLEAN
    /\ rx \in [Fds -> Receivable]
    /\ dgrams \in BOOLEAN
    /\ backlog \in Seq(IPs)

Init ==
    /\ TableInit
    /\ tcpsocks = [k \in Conns |-> NoConn]
    /\ pc = "stale"
    /\ scan = 0
    /\ ready = {}
    /\ sweepIdle = SESSION_SWEEP_INTERVAL
    /\ stopped = FALSE
    /\ rx = [fd \in Fds |-> "none"]
    /\ dgrams = FALSE
    /\ backlog = <<>>

Open == {k \in Conns : tcpsocks[k].cli_fd # NoFd}

ConnFds == {tcpsocks[k].cli_fd : k \in Open}

-----------------------------------------------------------------------------
(* Connections. *)

(* Mutated form: the sessions keep the descriptor of a closed connection. *)
CloseTcpKeepsClaims(K) ==
    LET F == {tcpsocks[k].cli_fd : k \in K} IN
    /\ openfds' = openfds \ F
    /\ tcpsocks' = [k \in Conns |-> IF k \in K THEN NoConn ELSE tcpsocks[k]]
    /\ rx' = [fd \in Fds |-> IF fd \in F THEN "none" ELSE rx[fd]]
    /\ UNCHANGED slist

(* tnfs_close_tcp() on every connection of K. *)
CloseTcp(K) ==
    LET F == {tcpsocks[k].cli_fd : k \in K} IN
    /\ slist' = Unbound(F)
    /\ openfds' = openfds \ F
    /\ tcpsocks' = [k \in Conns |-> IF k \in K THEN NoConn ELSE tcpsocks[k]]
    /\ rx' = [fd \in Fds |-> IF fd \in F THEN "none" ELSE rx[fd]]

(* Mutated form: a connection marked dead does not count as stale. *)
StaleByAge(c) == c.cli_fd # NoFd /\ c.idle = CONN_TIMEOUT + 1

(* tnfs_close_stale_connections(): a connection is stale when its idle     *)
(* time exceeds CONN_TIMEOUT, which a connection marked dead always does.  *)
Stale(c) == c.cli_fd # NoFd /\ c.idle > CONN_TIMEOUT

(* Mutated form: a pass begins whether or not the server was stopped. *)
CloseStaleUnchecked ==
    /\ pc = "stale"
    /\ CloseTcp({k \in Conns : Stale(tcpsocks[k])})
    /\ pc' = "sweep"
    /\ UNCHANGED <<scan, ready, sweepIdle, stopped, dgrams, backlog>>

CloseStale ==
    /\ pc = "stale"
    /\ ~ stopped
    /\ CloseTcp({k \in Conns : Stale(tcpsocks[k])})
    /\ pc' = "sweep"
    /\ UNCHANGED <<scan, ready, sweepIdle, stopped, dgrams, backlog>>

(* Mutated form: the table is swept only when nothing waits to be served. *)
SweepWhenQuiet ==
    /\ pc = "sweep"
    /\ IF sweepIdle = SESSION_SWEEP_INTERVAL /\ \A fd \in ConnFds : rx[fd] = "none"
          /\ ~ dgrams /\ backlog = <<>>
       THEN Sweep /\ sweepIdle' = 0
       ELSE UNCHANGED <<slist, openfds, sweepIdle>>
    /\ pc' = "wait"
    /\ UNCHANGED <<tcpsocks, scan, ready, stopped, envVars>>

SweepSessions ==
    /\ pc = "sweep"
    /\ IF sweepIdle = SESSION_SWEEP_INTERVAL
       THEN Sweep /\ sweepIdle' = 0
       ELSE UNCHANGED <<slist, openfds, sweepIdle>>
    /\ pc' = "wait"
    /\ UNCHANGED <<tcpsocks, scan, ready, stopped, envVars>>

(* What tnfs_event_wait() finds readable. The stop signal closes the two   *)
(* listening sockets, which then report nothing.                           *)
Readable ==
    {fd \in ConnFds : rx[fd] # "none"}
    \cup (IF dgrams THEN {sockfd} ELSE {})
    \cup (IF backlog # <<>> THEN {tcplistenfd} ELSE {})

Wait ==
    /\ pc = "wait"
    /\ Readable # {}
    /\ ready' = Readable
    /\ pc' = "udp"
    /\ UNCHANGED <<slist, openfds, tcpsocks, scan, sweepIdle, stopped, envVars>>

(* Nothing came for one second, or a signal interrupted the wait: the loop *)
(* starts another pass.                                                    *)
WaitEmpty ==
    /\ pc = "wait"
    /\ Readable = {} \/ stopped
    /\ pc' = "stale"
    /\ UNCHANGED <<slist, openfds, tcpsocks, scan, ready, sweepIdle, stopped, envVars>>

(* Mutated form: a wait that fails returns from the loop's function. *)
WaitFailsReturns ==
    /\ pc = "wait"
    /\ stopped
    /\ pc' = "done"
    /\ UNCHANGED <<slist, openfds, tcpsocks, scan, ready, sweepIdle, stopped, envVars>>

(* The wait fails: with select(), when a listening socket was closed.      *)
WaitFails ==
    /\ pc = "wait"
    /\ stopped
    /\ pc' = "close"
    /\ UNCHANGED <<slist, openfds, tcpsocks, scan, ready, sweepIdle, stopped, envVars>>

-----------------------------------------------------------------------------
(* Requests. *)

(* A request that reaches no session: a command not permitted, an unknown  *)
(* identifier, another client's session, or an unterminated MOUNT.         *)
Refuse == UNCHANGED tableVars

(* tnfs_decode() of one request that came from ip on the connection fd.    *)
Decode(ip, fd) ==
    \/ Refuse
    \/ MountOk(ip, fd)
    \/ MountFails(ip)
    \/ MountNoRoot(ip)
    \/ \E i \in Slots :
          /\ MayUse(i, ip)
          /\ Serve(i, fd) \/ OpenFile(i, fd) \/ CloseFile(i, fd) \/ Umount(i)

(* Mutated form: datagrams are served as long as there are any. *)
HandleUdpDrain ==
    /\ pc = "udp"
    /\ IF sockfd \in ready /\ dgrams
       THEN dgrams' = FALSE /\ (\E ip \in IPs : Decode(ip, NoFd)) /\ pc' = "udp"
       ELSE UNCHANGED <<dgrams, slist, openfds>> /\ pc' = "accept"
    /\ UNCHANGED <<tcpsocks, scan, ready, sweepIdle, stopped, rx, backlog>>

HandleUdp ==
    /\ pc = "udp"
    /\ IF sockfd \in ready /\ dgrams
       THEN dgrams' = FALSE /\ \E ip \in IPs : Decode(ip, NoFd)
       ELSE UNCHANGED <<dgrams, slist, openfds>>
    /\ pc' = "accept"
    /\ UNCHANGED <<tcpsocks, scan, ready, sweepIdle, stopped, rx, backlog>>

(* Mutated form: the search for a free place goes on after the first. *)
TakeEveryPlace(ip) ==
    \E fd \in Fds \ openfds :
        /\ tcpsocks' = [k \in Conns |-> IF k \in Open THEN tcpsocks[k]
                                       ELSE [cli_fd |-> fd, ip |-> ip, idle |-> 0]]
        /\ openfds' = openfds \cup {fd}

(* The accepted connection takes the first free place of tcpsocks. *)
TakeConnection(ip) ==
    \E fd \in Fds \ openfds, k \in Conns \ Open :
        /\ \A j \in Conns \ Open : k <= j
        /\ tcpsocks' = [tcpsocks EXCEPT ![k] = [cli_fd |-> fd, ip |-> ip, idle |-> 0]]
        /\ openfds' = openfds \cup {fd}

(* Mutated form: a process without descriptors leaves the client queued.   *)
AcceptNoReserve ==
    /\ pc = "accept"
    /\ IF tcplistenfd \in ready /\ backlog # <<>> /\ Fds \ openfds # {}
       THEN /\ backlog' = Tail(backlog)
            /\ TakeConnection(Head(backlog)) \/ UNCHANGED <<tcpsocks, openfds>>
       ELSE UNCHANGED <<backlog, tcpsocks, openfds>>
    /\ pc' = "scan"
    /\ scan' = 0
    /\ UNCHANGED <<slist, ready, sweepIdle, stopped, rx, dgrams>>

(* One waiting client leaves the queue. It gets a connection, or none:     *)
(* it is gone already, tcpsocks or the event backend has no place for it,  *)
(* or the process has no descriptor left and drops it by giving up its     *)
(* reserve descriptor for a moment.                                        *)
Accept ==
    /\ pc = "accept"
    /\ IF tcplistenfd \in ready /\ backlog # <<>>
       THEN /\ backlog' = Tail(backlog)
            /\ TakeConnection(Head(backlog)) \/ UNCHANGED <<tcpsocks, openfds>>
       ELSE UNCHANGED <<backlog, tcpsocks, openfds>>
    /\ pc' = "scan"
    /\ scan' = 0
    /\ UNCHANGED <<slist, ready, sweepIdle, stopped, rx, dgrams>>

(* tnfs_handle_tcpmsg(): the message is decoded, and a reply that cannot   *)
(* be sent whole marks the connection dead; an end of stream or an error   *)
(* closes it.                                                              *)
Message(k) ==
    LET fd == tcpsocks[k].cli_fd IN
    \/ /\ rx[fd] = "data"
       /\ rx' = [rx EXCEPT ![fd] = "none"]
       /\ \E idle \in {0, Dead} : tcpsocks' = [tcpsocks EXCEPT ![k].idle = idle]
       /\ Decode(tcpsocks[k].ip, fd)
    \/ /\ rx[fd] = "eof"
       /\ CloseTcp({k})

(* Mutated form: every open connection counts as readable. *)
ActiveIfOpen(k) == k \in Open

Active(k) == k \in Open /\ tcpsocks[k].cli_fd \in ready

(* Mutated form: the loop goes one connection past the last of tcpsocks. *)
HandleTcpPastEnd ==
    /\ pc = "scan"
    /\ scan <= MAX_TCP_CONN
    /\ IF Active(scan)
       THEN Message(scan)
       ELSE UNCHANGED <<slist, openfds, tcpsocks, rx>>
    /\ scan' = scan + 1
    /\ UNCHANGED <<pc, ready, sweepIdle, stopped, dgrams, backlog>>

HandleTcp ==
    /\ pc = "scan"
    /\ scan < MAX_TCP_CONN
    /\ IF Active(scan)
       THEN Message(scan)
       ELSE UNCHANGED <<slist, openfds, tcpsocks, rx>>
    /\ scan' = scan + 1
    /\ UNCHANGED <<pc, ready, sweepIdle, stopped, dgrams, backlog>>

EndOfPass ==
    /\ pc = "scan"
    /\ scan = MAX_TCP_CONN
    /\ scan' = 0
    /\ ready' = {}
    /\ pc' = "stale"
    /\ UNCHANGED <<slist, openfds, tcpsocks, sweepIdle, stopped, envVars>>

-----------------------------------------------------------------------------
(* Stopping. *)

LeaveLoop ==
    /\ pc = "stale"
    /\ stopped
    /\ pc' = "close"
    /\ UNCHANGED <<slist, openfds, tcpsocks, scan, ready, sweepIdle, stopped, envVars>>

CloseAll ==
    /\ pc = "close"
    /\ CloseTcp(Open)
    /\ pc' = "free"
    /\ UNCHANGED <<scan, ready, sweepIdle, stopped, dgrams, backlog>>

FreeAllSessions ==
    /\ pc = "free"
    /\ FreeAll
    /\ pc' = "done"
    /\ UNCHANGED <<tcpsocks, scan, ready, sweepIdle, stopped, envVars>>

Loop ==
    \/ CloseStale \/ SweepSessions
    \/ Wait \/ WaitEmpty \/ WaitFails
    \/ HandleUdp \/ Accept \/ HandleTcp \/ EndOfPass
    \/ LeaveLoop \/ CloseAll \/ FreeAllSessions

-----------------------------------------------------------------------------
(* The world around the loop. *)

Later(c) == IF c.cli_fd # NoFd /\ c.idle <= CONN_TIMEOUT
            THEN [c EXCEPT !.idle = @ + 1] ELSE c

(* One unit of time passes, at any point of a pass. *)
Tick ==
    /\ pc # "done"
    /\ slist' = Aged
    /\ tcpsocks' = [k \in Conns |-> Later(tcpsocks[k])]
    /\ sweepIdle' = IF sweepIdle < SESSION_SWEEP_INTERVAL THEN sweepIdle + 1 ELSE sweepIdle
    /\ UNCHANGED <<openfds, pc, scan, ready, stopped, envVars>>

(* The signal handler raises the flag and closes both listening sockets,   *)
(* with whatever waits on them.                                            *)
Stop ==
    /\ ~ stopped
    /\ stopped' = TRUE
    /\ dgrams' = FALSE
    /\ backlog' = <<>>
    /\ UNCHANGED <<slist, openfds, tcpsocks, loopVars, rx>>

DatagramArrives ==
    /\ ~ stopped /\ ~ dgrams
    /\ dgrams' = TRUE
    /\ UNCHANGED <<slist, openfds, tcpsocks, loopVars, stopped, rx, backlog>>

(* A client waits for one connection at a time: the bound on backlog.      *)
Waiting == {backlog[n] : n \in DOMAIN backlog}

ClientConnects ==
    /\ ~ stopped
    /\ \E ip \in IPs \ Waiting : backlog' = Append(backlog, ip)
    /\ UNCHANGED <<slist, openfds, tcpsocks, loopVars, stopped, rx, dgrams>>

(* A client of an accepted connection sends a message, or closes.          *)
PeerActs ==
    /\ \E fd \in ConnFds, what \in {"data", "eof"} :
          rx[fd] = "none" /\ rx' = [rx EXCEPT ![fd] = what]
    /\ UNCHANGED <<slist, openfds, tcpsocks, loopVars, stopped, dgrams, backlog>>

(* The process has exited; nothing happens any more. *)
Exited == pc = "done" /\ UNCHANGED vars

Environment ==
    Tick \/ Stop \/ DatagramArrives \/ ClientConnects \/ PeerActs \/ Exited

Next == Loop \/ Environment

(* The thread of the loop keeps running while it can, and time passes.     *)
Fairness == WF_vars(Loop) /\ WF_vars(Tick)

Spec == Init /\ [][Next]_vars /\ Fairness

-----------------------------------------------------------------------------
(* The session table's own specification, with its theorems, over the      *)
(* connections the loop holds.                                             *)
Table == INSTANCE Sessions_proofs WITH conns <- ConnFds

(* Every step of the server is a step of the session table's own           *)
(* specification, so all that Sessions promises (unique identifiers, no    *)
(* claim on a closed connection, one owner for each descriptor, eviction   *)
(* of the same address only) holds in the server.                          *)
ImplementsSessions == Table!Spec

(* The loop calls recv() only on a connection with something to receive.   *)
(* The sockets are blocking and there is one thread: a recv() on a place   *)
(* of tcpsocks that was emptied and refilled since the wait, or on a       *)
(* number reused since, would stop the whole server.                       *)
NeverBlocks ==
    pc \in {"udp", "accept", "scan"} =>
        \A k \in Conns :
            Active(k) /\ (pc = "scan" => k >= scan)
                => rx[tcpsocks[k].cli_fd] # "none"

(* No two places of tcpsocks share a descriptor, although the kernel gives *)
(* the number of a closed connection to the next one.                      *)
ConnsDistinct ==
    \A j, k \in Open : tcpsocks[j].cli_fd = tcpsocks[k].cli_fd => j = k

(* After a reply was cut short the stream is out of step: the connection   *)
(* is not used again and its place stays as it is until it is closed.      *)
DeadNotServed ==
    [][\A k \in Conns : tcpsocks[k].idle = Dead =>
          tcpsocks'[k] \in {tcpsocks[k], NoConn}]_vars

(* When the loop has ended nothing is left open.                           *)
ReleasedAtExit == pc = "done" => openfds = {} /\ Used = {} /\ Open = {}

(* A session nobody uses is freed even if its client never says goodbye    *)
(* and its TCP connection is dead without a close: first the connection    *)
(* is reaped, then the session it no longer shields. (Until then a request *)
(* of the client, or traffic of another session on its connection, may     *)
(* rescue it.)                                                             *)
Abandoned(i) ==
    /\ i \in Used
    /\ slist[i].idle = SESSION_TIMEOUT
    /\ \/ slist[i].cli_fd = NoFd
       \/ \E k \in Open : /\ tcpsocks[k].cli_fd = slist[i].cli_fd
                          /\ Stale(tcpsocks[k])

AbandonedReleased ==
    SESSION_TIMEOUT > 0 => \A i \in Slots : Abandoned(i) ~> ~ Abandoned(i)

(* A client that connects is accepted or turned away: a full tcpsocks or a *)
(* process without descriptors does not leave it waiting, which would keep *)
(* tcplistenfd readable and the loop spinning.                             *)
BacklogDrained == \A ip \in IPs : (ip \in Waiting) ~> (ip \notin Waiting)

(* Whatever arrives on an accepted connection is received, or given up     *)
(* with a connection closed as stale, however busy the datagram socket and *)
(* the other connections are.                                              *)
MessageReceived ==
    \A fd \in Fds : (rx[fd] # "none") ~> (rx[fd] = "none")

(* A stop signal, at whatever point of a pass, ends the loop.              *)
StopCompletes == stopped ~> (pc = "done")
=============================================================================
