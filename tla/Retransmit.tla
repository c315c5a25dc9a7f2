----------------------------- MODULE Retransmit -----------------------------
(***************************************************************************)
(* One client and the server over a network that loses and duplicates      *)
(* datagrams, and with Reorder delivers them in any order: the sequence    *)
(* numbers, the stored last reply and the resend of tnfs_decode(),         *)
(* tnfs_send() and tnfs_resend() (datagram.c). The client is the one the   *)
(* protocol document describes: one request in flight, a number one higher *)
(* for each new request, the same request again when no answer comes, and  *)
(* answers with another number discarded. Other clients have the server    *)
(* too: they are given identifiers this client had, or still believes it   *)
(* has, and use and end the sessions that go with them.                    *)
(*                                                                         *)
(* "read" stands for every command that changes nothing in the session     *)
(* table and is answered; "chmod" for the command whose handler is empty.  *)
(***************************************************************************)
EXTENDS Naturals, Sequences, FiniteSets, SequencesExt

CONSTANTS
    SEQ_MOD,        \* sequence numbers are one byte: 256
    Sids,           \* session identifiers the server can give out
    NoSid,          \* the 0 of the code
    NoSession,
    MAX_SESSIONS_PER_IP,    \* sessions after which a MOUNT recycles one
    Commands,       \* commands the client uses besides MOUNT
    UmountZero,     \* the client numbers UMOUNT 0, as in tnfs-protocol.md:211
    Others,         \* other clients: a "neighbour" at the client's address,
                    \* a "stranger" at another one
    Reorder,        \* the network may reorder datagrams
    MaxCalls,       \* bound: calls the client makes
    MaxGiveUps,     \* bound: calls given up in a row
    MaxNet,         \* bound: datagrams in flight in one direction
    MaxMoves        \* bound: sessions other clients make, and uses of them

ASSUME RetransmitConstants ==
    /\ SEQ_MOD \in Nat \ {0}
    /\ NoSid \notin Sids
    /\ MAX_SESSIONS_PER_IP \in Nat
    /\ Commands \subseteq {"read", "chmod", "umount"}
    /\ Others \subseteq {"neighbour", "stranger"}
    /\ UmountZero \in BOOLEAN /\ Reorder \in BOOLEAN
    /\ MaxCalls \in Nat /\ MaxGiveUps \in Nat /\ MaxNet \in Nat
    /\ MaxMoves \in Nat

VARIABLES
    calls, waiting, answer,   \* the client's side of Calls
    request,    \* the request of the current call
    givenUp,    \* calls given up since the last answer
    csid,       \* the session the client believes it has
    requests,   \* datagrams to the server
    replies,    \* datagrams to the client
    sess,       \* sess[sid]: the session with this identifier, or NoSession
    executed,   \* numbers of the calls executed in a session, in order
    strayed,    \* calls decoded in a session another client made or used
    nsids,      \* identifiers the neighbour was given
    moves       \* what other clients have done so far

clientVars == <<calls, waiting, answer, request, givenUp, csid>>
serverVars == <<sess, executed, strayed>>
otherVars == <<nsids, moves>>
vars == <<clientVars, requests, replies, serverVars, otherVars>>

(* A message carries the number of its call for the properties to speak    *)
(* about; neither side reads it from the other's messages. A reply is sent *)
(* because of one call, and was made for one, "of": the same call, or an   *)
(* earlier one, or one of another client (0).                              *)
Request == [sid : Sids \cup {NoSid}, seqno : 0 .. SEQ_MOD - 1,
            cmd : Commands \cup {"mount"}, call : 0 .. MaxCalls]

Reply == [sid : Sids \cup {NoSid}, seqno : 0 .. SEQ_MOD - 1,
          status : {"ok", "mounted", "badsession"},
          call : 0 .. MaxCalls, of : 0 .. MaxCalls]

(* A session, with whose MOUNT made it; "both": it is the client's, and    *)
(* its neighbour has used it. Only a stranger's has another address.       *)
Session == [owner : {"client", "both", "neighbour", "stranger"},
            lastseqno : 0 .. SEQ_MOD - 1, lastmsg : Reply]

(* A session always has a reply to send again.                             *)
TypeOK ==
    /\ calls \in 0 .. MaxCalls
    /\ waiting \in BOOLEAN
    /\ answer \in [call : 0 .. MaxCalls,
                   status : {"none", "ok", "mounted", "badsession"}]
    /\ request \in Request
    /\ givenUp \in 0 .. MaxGiveUps
    /\ csid \in Sids \cup {NoSid}
    /\ requests \in Seq(Request)
    /\ replies \in Seq(Reply)
    /\ sess \in [Sids -> Session \cup {NoSession}]
    /\ executed \in Seq(1 .. MaxCalls)
    /\ strayed \in SUBSET (1 .. MaxCalls)
    /\ nsids \in SUBSET Sids
    /\ moves \in 0 .. MaxMoves

Init ==
    /\ calls = 0
    /\ waiting = FALSE
    /\ answer = [call |-> 0, status |-> "none"]
    /\ request = [sid |-> NoSid, seqno |-> 0, cmd |-> "mount", call |-> 0]
    /\ givenUp = 0
    /\ csid = NoSid
    /\ requests = <<>>
    /\ replies = <<>>
    /\ sess = [sid \in Sids |-> NoSession]
    /\ executed = <<>>
    /\ strayed = {}
    /\ nsids = {}
    /\ moves = 0

-----------------------------------------------------------------------------
(* The client, as the protocol document describes it. *)

SeqnoOf(call) == (call - 1) % SEQ_MOD

Seqno(cmd, call) == IF UmountZero /\ cmd = "umount" THEN 0 ELSE SeqnoOf(call)

Send(r) == Len(requests) < MaxNet /\ requests' = Append(requests, r)

Call ==
    /\ ~ waiting
    /\ calls < MaxCalls
    /\ \E cmd \in IF csid = NoSid THEN {"mount"} ELSE Commands :
          request' = [sid |-> csid, seqno |-> Seqno(cmd, calls + 1),
                      cmd |-> cmd, call |-> calls + 1]
    /\ Send(request')
    /\ calls' = calls + 1
    /\ waiting' = TRUE
    /\ UNCHANGED <<answer, givenUp, csid, replies, serverVars, otherVars>>

Retry ==
    /\ waiting
    /\ Send(request)
    /\ UNCHANGED <<clientVars, replies, serverVars, otherVars>>

GiveUp ==
    /\ waiting
    /\ givenUp < MaxGiveUps
    /\ givenUp' = givenUp + 1
    /\ waiting' = FALSE
    /\ UNCHANGED <<calls, answer, request, csid, requests, replies,
                   serverVars, otherVars>>

(* The place in a channel whose datagram is delivered next. *)
Deliverable(channel) == IF Reorder THEN DOMAIN channel ELSE DOMAIN channel \cap {1}

Accepted(r) == waiting /\ r.seqno = request.seqno

(* The session the client has once it took r for its request. *)
SidAfter(r) ==
    IF r.status = "badsession" \/ request.cmd = "umount" THEN NoSid
    ELSE IF request.cmd = "mount" THEN r.sid
    ELSE csid

ClientReceive ==
    \E k \in Deliverable(replies) :
        LET r == replies[k] IN
        /\ replies' = RemoveAt(replies, k)
        /\ IF Accepted(r)
           THEN /\ waiting' = FALSE
                /\ answer' = [call |-> r.of, status |-> r.status]
                /\ csid' = SidAfter(r)
                /\ givenUp' = 0
           ELSE UNCHANGED <<waiting, answer, csid, givenUp>>
        /\ UNCHANGED <<calls, request, requests, serverVars, otherVars>>

-----------------------------------------------------------------------------
(* The network. *)

Lose ==
    \/ /\ \E k \in DOMAIN requests : requests' = RemoveAt(requests, k)
       /\ UNCHANGED <<clientVars, replies, serverVars, otherVars>>
    \/ /\ \E k \in DOMAIN replies : replies' = RemoveAt(replies, k)
       /\ UNCHANGED <<clientVars, requests, serverVars, otherVars>>

Duplicate ==
    \/ /\ Len(requests) < MaxNet
       /\ \E k \in DOMAIN requests : requests' = InsertAt(requests, k, requests[k])
       /\ UNCHANGED <<clientVars, replies, serverVars, otherVars>>
    \/ /\ Len(replies) < MaxNet
       /\ \E k \in DOMAIN replies : replies' = InsertAt(replies, k, replies[k])
       /\ UNCHANGED <<clientVars, requests, serverVars, otherVars>>

-----------------------------------------------------------------------------
(* The server. *)

Answer(q, sid, status) ==
    [sid |-> sid, seqno |-> q.seqno, status |-> status,
     call |-> q.call, of |-> q.call]

Transmit(r) == replies' = Append(replies, r)

(* The sessions of the client's address. *)
OfAddress ==
    {sid \in Sids : sess[sid] # NoSession /\ sess[sid].owner # "stranger"}

(* Mutated form: the identifier of a client at its limit is not recycled.  *)
MountSidsFresh == {sid \in Sids : sess[sid] = NoSession}

(* The identifiers a MOUNT from the client's address may get: of a session *)
(* it recycles at its limit, or one that no session has. Which session is  *)
(* recycled depends on the places in slist[], which are in SessionTable.   *)
MountSids ==
    IF Cardinality(OfAddress) >= MAX_SESSIONS_PER_IP THEN OfAddress
    ELSE {sid \in Sids : sess[sid] = NoSession}

NewSession(owner, r) == [owner |-> owner, lastseqno |-> r.seqno, lastmsg |-> r]

(* Mutated form: the reply is sent without a session to store it.          *)
DoMountNotStored(q) ==
    IF MountSids = {} THEN UNCHANGED <<replies, serverVars>>
    ELSE \E sid \in MountSids :
            /\ sess' = [sess EXCEPT ![sid] = [owner |-> "client", lastseqno |-> 0,
                                             lastmsg |-> NoSession]]
            /\ Transmit(Answer(q, sid, "mounted"))
            /\ UNCHANGED <<executed, strayed>>

(* Mutated form: a recycled session is used again with what it has stored. *)
DoMountReused(q) ==
    IF MountSids = {} THEN UNCHANGED <<replies, serverVars>>
    ELSE \E sid \in MountSids :
            LET r == Answer(q, sid, "mounted") IN
            /\ sess' = [sess EXCEPT ![sid] =
                          IF @ = NoSession THEN NewSession("client", r)
                          ELSE NewSession("client", @.lastmsg)]
            /\ Transmit(r)
            /\ UNCHANGED <<executed, strayed>>

(* tnfs_mount() never looks at the sequence number: each MOUNT that finds  *)
(* an identifier makes a session. The directory asked for exists.          *)
DoMount(q) ==
    IF MountSids = {} THEN UNCHANGED <<replies, serverVars>>
    ELSE \E sid \in MountSids :
            LET r == Answer(q, sid, "mounted") IN
            /\ sess' = [sess EXCEPT ![sid] = NewSession("client", r)]
            /\ Transmit(r)
            /\ UNCHANGED <<executed, strayed>>

DoBadSession(q) ==
    /\ Transmit(Answer(q, NoSid, "badsession"))
    /\ UNCHANGED serverVars

(* The stored message goes out as it is, whoever it was made for.          *)
DoResend(q) ==
    LET m == sess[q.sid].lastmsg IN
    /\ Transmit([sid |-> m.sid, seqno |-> m.seqno, status |-> m.status,
                 call |-> q.call, of |-> m.of])
    /\ UNCHANGED <<sess, executed>>

(* Mutated form: the session stays after its UMOUNT was answered.          *)
DoUmountKept(q) ==
    /\ Transmit(Answer(q, q.sid, "ok"))
    /\ executed' = Append(executed, q.call)
    /\ UNCHANGED sess

(* The reply is sent before the session is freed.                          *)
DoUmount(q) ==
    /\ Transmit(Answer(q, q.sid, "ok"))
    /\ sess' = [sess EXCEPT ![q.sid] = NoSession]
    /\ executed' = Append(executed, q.call)

(* tnfs_chmod() is empty: it does nothing and sends no reply.              *)
DoChmod(q) == UNCHANGED <<replies, sess, executed>>

(* Mutated form: the reply is sent without storing its number.             *)
DoReadNotStored(q) ==
    /\ Transmit(Answer(q, q.sid, "ok"))
    /\ executed' = Append(executed, q.call)
    /\ UNCHANGED sess

(* tnfs_send(): the reply and its number replace the stored ones.          *)
DoRead(q) ==
    LET r == Answer(q, q.sid, "ok") IN
    /\ Transmit(r)
    /\ sess' = [sess EXCEPT ![q.sid] = NewSession(sess[q.sid].owner, r)]
    /\ executed' = Append(executed, q.call)

(* Mutated form: a repeated number is dropped instead of answered.         *)
HandleDropsRepeats(q) ==
    IF q.seqno = sess[q.sid].lastseqno THEN UNCHANGED <<replies, sess, executed>>
    ELSE \/ q.cmd = "umount" /\ DoUmount(q)
         \/ q.cmd = "chmod" /\ DoChmod(q)
         \/ q.cmd = "read" /\ DoRead(q)

(* What tnfs_decode() does with a request of a session's own address.      *)
Handle(q) ==
    IF q.seqno = sess[q.sid].lastseqno THEN DoResend(q)
    ELSE \/ q.cmd = "umount" /\ DoUmount(q)
         \/ q.cmd = "chmod" /\ DoChmod(q)
         \/ q.cmd = "read" /\ DoRead(q)

(* tnfs_decode(). A request for a session of another address is dropped    *)
(* without an answer.                                                      *)
Decode(q) ==
    IF q.cmd = "mount" THEN DoMount(q)
    ELSE IF q.sid = NoSid \/ sess[q.sid] = NoSession THEN DoBadSession(q)
    ELSE IF sess[q.sid].owner = "stranger" THEN UNCHANGED <<replies, serverVars>>
    ELSE /\ strayed' = IF sess[q.sid].owner = "client" THEN strayed
                       ELSE strayed \cup {q.call}
         /\ Handle(q)

ServerReceive ==
    /\ Len(replies) < MaxNet
    /\ \E k \in Deliverable(requests) :
          /\ requests' = RemoveAt(requests, k)
          /\ Decode(requests[k])
    /\ UNCHANGED <<clientVars, otherVars>>

-----------------------------------------------------------------------------
(* The other clients and the server's clock. *)

(* What a session stores for another client.                               *)
Theirs(sid, seqno, status) ==
    [sid |-> sid, seqno |-> seqno, status |-> status, call |-> 0, of |-> 0]

(* The neighbour mounts: tnfs_mount() as above, with any number.           *)
NeighbourMount ==
    /\ "neighbour" \in Others
    /\ \E sid \in MountSids, seqno \in 0 .. SEQ_MOD - 1 :
          /\ sess' = [sess EXCEPT ![sid] =
                        NewSession("neighbour", Theirs(sid, seqno, "mounted"))]
          /\ nsids' = nsids \cup {sid}
    /\ UNCHANGED <<clientVars, requests, replies, executed, strayed>>

(* A new request of the neighbour, which cannot know that the identifier   *)
(* it was given has become the client's.                                   *)
NeighbourUse ==
    /\ \E sid \in nsids \cap OfAddress, seqno \in 0 .. SEQ_MOD - 1 :
          /\ seqno # sess[sid].lastseqno
          /\ sess' = [sess EXCEPT ![sid] =
                        NewSession(IF sess[sid].owner = "client" THEN "both"
                                   ELSE sess[sid].owner,
                                   Theirs(sid, seqno, "ok"))]
    /\ UNCHANGED <<clientVars, requests, replies, executed, strayed, nsids>>

(* A stranger is given an identifier that is free, by tnfs_newsid().       *)
StrangerMount ==
    /\ "stranger" \in Others
    /\ \E sid \in Sids :
          /\ sess[sid] = NoSession
          /\ sess' = [sess EXCEPT ![sid] =
                        NewSession("stranger", Theirs(sid, 0, "mounted"))]
    /\ UNCHANGED <<clientVars, requests, replies, executed, strayed, nsids>>

OthersAct ==
    /\ moves < MaxMoves
    /\ moves' = moves + 1
    /\ NeighbourMount \/ NeighbourUse \/ StrangerMount

(* A session is freed: it times out, another client that has the same      *)
(* identifier ends it, or a MOUNT recycles it and then fails.              *)
Expire(sid) ==
    /\ sess[sid] # NoSession
    /\ sess' = [sess EXCEPT ![sid] = NoSession]
    /\ UNCHANGED <<clientVars, requests, replies, executed, strayed, otherVars>>

ExpireAny == \E sid \in Sids : Expire(sid)

(* The client made all the calls of the bound. *)
Finished == calls = MaxCalls /\ ~ waiting /\ UNCHANGED vars

Next ==
    \/ Call \/ Retry \/ GiveUp \/ ClientReceive
    \/ Lose \/ Duplicate
    \/ ServerReceive \/ OthersAct \/ ExpireAny
    \/ Finished

(* A session of the client that it does not use.                           *)
Abandoned(sid) ==
    sid # csid /\ sess[sid] # NoSession /\ sess[sid].owner = "client"

(* The client retries; a request or an answer sent again and again gets    *)
(* through; an abandoned session times out; and the network does not make  *)
(* copies for ever. Nothing is asked of others.                            *)
Fairness ==
    /\ WF_vars(Retry)
    /\ WF_vars(ServerReceive) /\ WF_vars(ClientReceive)
    /\ SF_vars(ServerReceive /\ Head(requests) = request)
    /\ SF_vars(ClientReceive /\ Accepted(Head(replies)))
    /\ \A sid \in Sids : WF_vars(Abandoned(sid) /\ Expire(sid))
    /\ <>[][~ Duplicate]_vars

Spec == Init /\ [][Next]_vars

FairSpec == Spec /\ Fairness

-----------------------------------------------------------------------------
(* The promise of a session: Calls. Over a network that keeps the order of *)
(* datagrams, retries and duplicates of either direction never make the    *)
(* server execute a call twice or out of order, and never give the client  *)
(* the answer to another call, unless a request of the call was decoded in *)
(* a session that another client made or used (strayed).                   *)
C == INSTANCE Calls

ImplementsCalls == C!Spec

(* The session sid was made by a MOUNT of the client.                      *)
Mounted(sid) == sess[sid] # NoSession /\ sess[sid].owner \in {"client", "both"}

(* When the client is told that its UMOUNT succeeded, or that its session  *)
(* is unknown, the server holds no such session of the client any more,    *)
(* unless the UMOUNT strayed.                                              *)
UmountCloses ==
    [][waiting /\ ~ waiting' /\ givenUp' = 0 /\ request.cmd = "umount"
          => request.call \in strayed \/ ~ Mounted(request.sid)]_vars

(* "This allows the receiver to determine whether the datagram it just got *)
(* is a retry or not" (tnfs-protocol.md:112): no call is executed twice.   *)
ExecutedOnce ==
    \A j, k \in DOMAIN executed : executed[j] = executed[k] => j = k

(* No request of the current call can have an answer: its identifier is    *)
(* that of another address's session; or it is a MOUNT, others have all    *)
(* identifiers, and its address is not at its limit.                       *)
Unheard ==
    IF request.cmd = "mount"
    THEN /\ \A sid \in Sids : sess[sid] # NoSession /\ sess[sid].owner # "client"
         /\ Cardinality(OfAddress) < MAX_SESSIONS_PER_IP
    ELSE /\ request.sid # NoSid
         /\ sess[request.sid] # NoSession
         /\ sess[request.sid].owner = "stranger"

(* A call whose handler replies is answered in the end, or its client      *)
(* gives it up: no loss, resend or expiry, and no use others make of its   *)
(* session, leaves it retrying for ever, unless it comes to be unheard.    *)
CallsAnswered == waiting /\ request.cmd # "chmod" ~> ~ waiting \/ Unheard

(* "Every command should yield exactly one datagram in response"           *)
(* (tnfs-protocol.md:125): so is every call.                               *)
EveryCallAnswered == waiting ~> ~ waiting
=============================================================================
