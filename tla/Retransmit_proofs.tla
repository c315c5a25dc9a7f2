-------------------------- MODULE Retransmit_proofs --------------------------
(***************************************************************************)
(* Proofs about Retransmit, for every set of sessions and commands, every  *)
(* bound, every modulus of the sequence numbers and whatever other clients *)
(* do: over a network that loses and duplicates datagrams but keeps their  *)
(* order, a client that gives up fewer calls in a row than there are       *)
(* numbers is answered rightly and has no call executed twice, except a    *)
(* call that strays into a session another client made or used.            *)
(***************************************************************************)
EXTENDS Retransmit, SequenceTheorems, TLAPS

-----------------------------------------------------------------------------
(* The channels. *)

(* A datagram taken out of a channel leaves the others in their order.     *)
LEMMA Removed ==
    ASSUME NEW S, NEW s \in Seq(S), NEW k \in DOMAIN s
    PROVE  /\ RemoveAt(s, k) \in Seq(S)
           /\ Len(RemoveAt(s, k)) = Len(s) - 1
           /\ \A i \in 1 .. Len(s) - 1 :
                 RemoveAt(s, k)[i] = IF i < k THEN s[i] ELSE s[i + 1]
  <1>1. k \in 1 .. Len(s) /\ Len(s) \in Nat
    OBVIOUS
  <1> DEFINE a == SubSeq(s, 1, k - 1)  b == SubSeq(s, k + 1, Len(s))
  <1>2. /\ a \in Seq(S) /\ Len(a) = k - 1
        /\ \A i \in 1 .. k - 1 : a[i] = s[i]
    BY <1>1
  <1>3. /\ b \in Seq(S) /\ Len(b) = Len(s) - k
        /\ \A i \in 1 .. Len(s) - k : b[i] = s[k + i]
    BY <1>1
  <1>4. RemoveAt(s, k) = a \o b
    BY DEF RemoveAt
  <1> HIDE DEF a, b
  <1>5. /\ a \o b \in Seq(S) /\ Len(a \o b) = Len(s) - 1
        /\ \A i \in 1 .. Len(s) - 1 :
              (a \o b)[i] = IF i < k THEN a[i] ELSE b[i - (k - 1)]
    <2>1. /\ a \o b \in Seq(S) /\ Len(a \o b) = Len(a) + Len(b)
          /\ \A i \in 1 .. Len(a) + Len(b) :
                (a \o b)[i] = IF i <= Len(a) THEN a[i] ELSE b[i - Len(a)]
      BY <1>2, <1>3, ConcatProperties
    <2>2. Len(a) = k - 1 /\ Len(a) + Len(b) = Len(s) - 1
      BY <1>1, <1>2, <1>3
    <2>3. \A i \in 1 .. Len(s) - 1 : i <= k - 1 <=> i < k
      BY <1>1
    <2> HIDE DEF a, b
    <2> QED
      BY <2>1, <2>2, <2>3
  <1>6. ASSUME NEW i \in 1 .. Len(s) - 1, ~ i < k
        PROVE  b[i - (k - 1)] = s[i + 1]
    <2>1. i - (k - 1) \in 1 .. Len(s) - k /\ k + (i - (k - 1)) = i + 1
      BY <1>1, <1>6
    <2> QED
      BY <1>3, <2>1
  <1>7. ASSUME NEW i \in 1 .. Len(s) - 1, i < k
        PROVE  a[i] = s[i]
    BY <1>1, <1>2, <1>7
  <1> QED
    BY <1>4, <1>5, <1>6, <1>7

(* A copy put next to its datagram leaves the others in their order.       *)
LEMMA Copied ==
    ASSUME NEW S, NEW s \in Seq(S), NEW k \in DOMAIN s
    PROVE  /\ InsertAt(s, k, s[k]) \in Seq(S)
           /\ Len(InsertAt(s, k, s[k])) = Len(s) + 1
           /\ \A i \in 1 .. Len(s) + 1 :
                 InsertAt(s, k, s[k])[i] = IF i <= k THEN s[i] ELSE s[i - 1]
  <1>1. k \in 1 .. Len(s) /\ Len(s) \in Nat /\ s[k] \in S
    OBVIOUS
  <1> DEFINE a == SubSeq(s, 1, k - 1)  b == SubSeq(s, k, Len(s))
  <1>2. /\ a \in Seq(S) /\ Len(a) = k - 1
        /\ \A i \in 1 .. k - 1 : a[i] = s[i]
    BY <1>1
  <1>3. /\ b \in Seq(S) /\ Len(b) = Len(s) - k + 1
        /\ \A i \in 1 .. Len(s) - k + 1 : b[i] = s[k + i - 1]
    BY <1>1
  <1>4. InsertAt(s, k, s[k]) = a \o <<s[k]>> \o b
    BY DEF InsertAt
  <1> HIDE DEF a, b
  <1> DEFINE c == a \o <<s[k]>>
  <1>5. /\ c \in Seq(S) /\ Len(c) = k
        /\ \A i \in 1 .. k : c[i] = s[i]
    BY <1>1, <1>2
  <1>6. InsertAt(s, k, s[k]) = c \o b
    BY <1>4
  <1> HIDE DEF c
  <1>7. ASSUME NEW i \in 1 .. Len(s) + 1, ~ i <= k
        PROVE  (c \o b)[i] = s[i - 1]
    <2>1. (c \o b)[i] = b[i - k]
      BY <1>1, <1>3, <1>5, <1>7
    <2>2. i - k \in 1 .. Len(s) - k + 1
      BY <1>1, <1>7
    <2>3. k + (i - k) - 1 = i - 1
      BY <1>1, <1>7
    <2>4. b[i - k] = s[k + (i - k) - 1]
      BY <1>3, <2>2
    <2> QED
      BY <2>1, <2>3, <2>4
  <1>8. c \o b \in Seq(S) /\ Len(c \o b) = Len(s) + 1
    <2>1. c \o b \in Seq(S) /\ Len(c \o b) = Len(c) + Len(b)
      BY <1>3, <1>5, ConcatProperties
    <2> QED
      BY <1>1, <1>3, <1>5, <2>1
  <1>9. ASSUME NEW i \in 1 .. k
        PROVE  (c \o b)[i] = s[i]
    BY <1>1, <1>3, <1>5, <1>9
  <1>10. ASSUME NEW i \in 1 .. Len(s) + 1
         PROVE  (c \o b)[i] = IF i <= k THEN s[i] ELSE s[i - 1]
    <2>1. i <= k => i \in 1 .. k
      BY <1>1
    <2> QED
      BY <1>7, <1>9, <2>1
  <1> QED
    BY <1>6, <1>8, <1>10

(* Its datagrams are in the order of their calls.                          *)
Ordered(channel) ==
    \A i, j \in DOMAIN channel : i <= j => channel[i].call <= channel[j].call

(* The range of a sequence over S is in S.                                 *)
LEMMA RangeInSet ==
    ASSUME NEW S, NEW s \in Seq(S)
    PROVE  Range(s) \subseteq S
  BY DEF Range

(* What is left when a datagram is gone was there before, in its order.    *)
LEMMA FewerLeft ==
    ASSUME NEW S, NEW s \in Seq(S), NEW k \in DOMAIN s
    PROVE  /\ RemoveAt(s, k) \in Seq(S)
           /\ Range(RemoveAt(s, k)) \subseteq Range(s)
           /\ Ordered(s) => Ordered(RemoveAt(s, k))
  <1> DEFINE t == RemoveAt(s, k)
  <1>1. /\ k \in 1 .. Len(s) /\ Len(s) \in Nat
        /\ t \in Seq(S) /\ Len(t) = Len(s) - 1
        /\ \A i \in 1 .. Len(s) - 1 : t[i] = IF i < k THEN s[i] ELSE s[i + 1]
    BY Removed
  <1> HIDE DEF t
  <1>2. DOMAIN t = 1 .. Len(s) - 1 /\ DOMAIN s = 1 .. Len(s)
    BY <1>1
  <1>3. Range(t) \subseteq Range(s)
    BY <1>1, <1>2 DEF Range
  <1>4. Ordered(s) => Ordered(t)
    <2> SUFFICES ASSUME Ordered(s), NEW i \in DOMAIN t, NEW j \in DOMAIN t, i <= j
                 PROVE  t[i].call <= t[j].call
      BY DEF Ordered
    <2> DEFINE x == IF i < k THEN i ELSE i + 1  y == IF j < k THEN j ELSE j + 1
    <2>1. x \in DOMAIN s /\ y \in DOMAIN s /\ x <= y
      BY <1>1, <1>2
    <2>2. t[i] = s[x] /\ t[j] = s[y]
      BY <1>1, <1>2
    <2> QED
      BY <2>1, <2>2 DEF Ordered
  <1> QED
    BY <1>1, <1>3, <1>4 DEF t

(* The first datagram of an ordered channel is the oldest.                 *)
LEMMA FirstIsOldest ==
    ASSUME NEW S, NEW s \in Seq(S), 1 \in DOMAIN s, Ordered(s),
           NEW m \in Range(s)
    PROVE  s[1].call <= m.call
  <1>1. PICK i \in DOMAIN s : m = s[i]
    BY DEF Range
  <1>2. 1 <= i
    OBVIOUS
  <1> QED
    BY <1>1, <1>2 DEF Ordered

(* A copy adds nothing new and keeps the order.                            *)
LEMMA CopyAdded ==
    ASSUME NEW S, NEW s \in Seq(S), NEW k \in DOMAIN s
    PROVE  /\ InsertAt(s, k, s[k]) \in Seq(S)
           /\ Range(InsertAt(s, k, s[k])) \subseteq Range(s)
           /\ Ordered(s) => Ordered(InsertAt(s, k, s[k]))
  <1> DEFINE t == InsertAt(s, k, s[k])
  <1>1. /\ k \in 1 .. Len(s) /\ Len(s) \in Nat
        /\ t \in Seq(S) /\ Len(t) = Len(s) + 1
        /\ \A i \in 1 .. Len(s) + 1 : t[i] = IF i <= k THEN s[i] ELSE s[i - 1]
    BY Copied
  <1> HIDE DEF t
  <1>2. DOMAIN t = 1 .. Len(s) + 1 /\ DOMAIN s = 1 .. Len(s)
    BY <1>1
  <1>3. Range(t) \subseteq Range(s)
    <2> SUFFICES ASSUME NEW i \in DOMAIN t
                 PROVE  t[i] \in Range(s)
      BY DEF Range
    <2> DEFINE x == IF i <= k THEN i ELSE i - 1
    <2>1. x \in DOMAIN s /\ t[i] = s[x]
      BY <1>1, <1>2
    <2> QED
      BY <2>1 DEF Range
  <1>4. Ordered(s) => Ordered(t)
    <2> SUFFICES ASSUME Ordered(s), NEW i \in DOMAIN t, NEW j \in DOMAIN t, i <= j
                 PROVE  t[i].call <= t[j].call
      BY DEF Ordered
    <2> DEFINE x == IF i <= k THEN i ELSE i - 1  y == IF j <= k THEN j ELSE j - 1
    <2>1. x \in DOMAIN s /\ y \in DOMAIN s /\ x <= y
      BY <1>1, <1>2
    <2>2. t[i] = s[x] /\ t[j] = s[y]
      BY <1>1, <1>2
    <2> QED
      BY <2>1, <2>2 DEF Ordered
  <1> QED
    BY <1>1, <1>3, <1>4 DEF t

(* A datagram that is not older than the others goes to the end.           *)
LEMMA LatestAdded ==
    ASSUME NEW S, NEW s \in Seq(S), NEW m \in S
    PROVE  /\ Append(s, m) \in Seq(S)
           /\ Range(Append(s, m)) = Range(s) \cup {m}
           /\ (/\ Ordered(s)
               /\ m.call <= m.call
               /\ \A n \in Range(s) : n.call <= m.call) => Ordered(Append(s, m))
  <1> DEFINE t == Append(s, m)
  <1>1. /\ t \in Seq(S) /\ Len(s) \in Nat
        /\ DOMAIN t = 1 .. Len(s) + 1 /\ DOMAIN s = 1 .. Len(s)
        /\ \A i \in 1 .. Len(s) : t[i] = s[i]
        /\ t[Len(s) + 1] = m
    OBVIOUS
  <1> HIDE DEF t
  <1>2. Range(t) = Range(s) \cup {m}
    <2>1. ASSUME NEW x \in Range(t) PROVE x \in Range(s) \cup {m}
      BY <1>1, <2>1 DEF Range
    <2>2. ASSUME NEW x \in Range(s) PROVE x \in Range(t)
      BY <1>1, <2>2 DEF Range
    <2>3. m \in Range(t)
      BY <1>1 DEF Range
    <2> QED
      BY <2>1, <2>2, <2>3
  <1>3. ASSUME Ordered(s), m.call <= m.call,
               \A n \in Range(s) : n.call <= m.call
        PROVE  Ordered(t)
    <2> SUFFICES ASSUME NEW i \in DOMAIN t, NEW j \in DOMAIN t, i <= j
                 PROVE  t[i].call <= t[j].call
      BY DEF Ordered
    <2>1. CASE j = Len(s) + 1
      <3>1. t[i] \in Range(s) \cup {m}
        BY <1>2 DEF Range
      <3> QED
        BY <1>1, <1>3, <2>1, <3>1
    <2>2. CASE j # Len(s) + 1
      <3>1. i \in DOMAIN s /\ j \in DOMAIN s
        BY <1>1, <2>2
      <3> QED
        BY <1>1, <1>3, <3>1 DEF Ordered
    <2> QED
      BY <2>1, <2>2
  <1> QED
    BY <1>1, <1>2, <1>3 DEF t

-----------------------------------------------------------------------------
(* Sequence numbers. *)

(* The quotient and the remainder of a number make the number.             *)
LEMMA Quotient ==
    ASSUME NEW M \in Nat \ {0}, NEW a \in Nat
    PROVE  /\ a \div M \in Nat
           /\ a % M \in Nat
           /\ a = (a \div M) * M + (a % M)
  <1>1. a \div M \in Nat
    OBVIOUS
  <1>2. a % M \in Nat
    OBVIOUS
  <1>3. a = (a \div M) * M + (a % M)
    OBVIOUS
  <1> QED
    BY <1>1, <1>2, <1>3

(* Two different multiples of M are at least M apart.                      *)
LEMMA Multiples ==
    ASSUME NEW M \in Nat \ {0}, NEW p \in Nat, NEW q \in Nat, p < q
    PROVE  q * M >= p * M + M
  OBVIOUS

(* Two numbers less than M apart with the same remainder are the same.     *)
LEMMA SameRemainder ==
    ASSUME NEW M \in Nat \ {0}, NEW a \in Nat, NEW b \in Nat,
           a < b + M, b < a + M, a % M = b % M
    PROVE  a = b
  <1> DEFINE p == a \div M  q == b \div M  r == a % M  pm == p * M  qm == q * M
  <1>1. /\ p \in Nat /\ q \in Nat /\ r \in Nat
        /\ a = pm + r /\ b = qm + r
    BY Quotient
  <1>2. /\ p < q => qm >= pm + M
        /\ q < p => pm >= qm + M
        /\ p = q => pm = qm
    <2> HIDE DEF p, q
    <2> QED
      BY <1>1, Multiples
  <1>3. pm \in Nat /\ qm \in Nat
    <2> HIDE DEF p, q
    <2> QED
      BY <1>1
  <1> HIDE DEF p, q, r, pm, qm
  <1> QED
    BY <1>1, <1>2, <1>3

(* So the sequence number tells apart calls that are close enough.         *)
LEMMA NumberTellsCalls ==
    ASSUME NEW m \in Nat \ {0}, NEW n \in Nat \ {0},
           m < n + SEQ_MOD, n < m + SEQ_MOD, SeqnoOf(m) = SeqnoOf(n)
    PROVE  m = n
  <1>1. m - 1 \in Nat /\ n - 1 \in Nat /\ SEQ_MOD \in Nat \ {0}
    BY RetransmitConstants
  <1>2. m - 1 < (n - 1) + SEQ_MOD /\ n - 1 < (m - 1) + SEQ_MOD
    BY <1>1
  <1>3. (m - 1) % SEQ_MOD = (n - 1) % SEQ_MOD
    BY DEF SeqnoOf
  <1>4. m - 1 = n - 1
    BY <1>1, <1>2, <1>3, SameRemainder
  <1> QED
    BY <1>1, <1>4

(* The number of a call is a sequence number.                              *)
LEMMA NumberIsByte ==
    ASSUME NEW n \in Nat \ {0}
    PROVE  SeqnoOf(n) \in 0 .. SEQ_MOD - 1
  BY RetransmitConstants DEF SeqnoOf

(* So is the number of a request, whichever way UMOUNT is numbered.        *)
LEMMA RequestNumberIsByte ==
    ASSUME NEW cmd, NEW n \in Nat \ {0}
    PROVE  /\ Seqno(cmd, n) \in 0 .. SEQ_MOD - 1
           /\ ~ UmountZero => Seqno(cmd, n) = SeqnoOf(n)
  <1>1. 0 \in 0 .. SEQ_MOD - 1
    BY RetransmitConstants
  <1> QED
    BY <1>1, NumberIsByte DEF Seqno

-----------------------------------------------------------------------------
(* The requests that may still reach the server, now or after a retry.     *)
Sent == Range(requests) \cup {request}

Live == {sid \in Sids : sess[sid] # NoSession}

(* The sessions that the client made and has had to itself.                *)
Kept == {sid \in Sids : sess[sid] # NoSession /\ sess[sid].owner = "client"}

Stored(sid) == sess[sid].lastmsg

(* The last call that was answered.                                        *)
Settled == calls - givenUp - (IF waiting THEN 1 ELSE 0)

(* A request is known by its call, and carries the number of its call.     *)
RequestsOK ==
    /\ request.call = calls
    /\ \A q \in Range(requests) : q.call # 0
    /\ \A q \in Sent : /\ q.call <= calls
                       /\ q.call # 0 => q.seqno = SeqnoOf(q.call)
                       /\ q.cmd # "mount" => q.sid \in Sids /\ q.call # 0
    /\ \A p, q \in Sent : p.call = q.call => p = q
    /\ waiting => calls # 0
    /\ waiting /\ request.cmd # "mount" => request.sid = csid

(* A reply carries the number of its call, and unless the call strayed it  *)
(* was made for it, and "ok" means executed.                               *)
ReplyOK(r) ==
    /\ r.call # 0 /\ r.call <= calls
    /\ r.seqno = SeqnoOf(r.call)
    /\ r.call \notin strayed => /\ r.of = r.call
                                /\ r.status = "ok" => r.call \in Range(executed)

RepliesOK ==
    /\ \A r \in Range(replies) : ReplyOK(r)
    /\ \A sid \in Kept : ReplyOK(Stored(sid))

(* The number and the reply that a session has stored belong together,     *)
(* whoever uses it, and the reply was made for no later call.              *)
StoredOK ==
    /\ \A sid \in Live : /\ sess[sid].lastseqno = Stored(sid).seqno
                         /\ Stored(sid).of <= calls
    /\ \A r \in Range(replies) : r.of <= calls

(* What the server has done is not later than anything still on its way to *)
(* it, and the same holds of the client.                                   *)
InOrder ==
    /\ Ordered(requests) /\ Ordered(replies)
    /\ \A q \in Sent :
          /\ Settled <= q.call
          /\ \A r \in Range(replies) : r.call <= q.call
          /\ \A sid \in Kept : Stored(sid).call <= q.call
          /\ \A n \in Range(executed) : n <= q.call
    /\ \A r \in Range(replies) : Settled <= r.call

(* A kept session that a request can reach has stored a reply that is not  *)
(* older than the last answer: no number in between has come round again.  *)
StoredIsFresh ==
    /\ csid \in Kept => Settled <= Stored(csid).call
    /\ \A q \in Sent : q.cmd # "mount" /\ q.sid \in Kept
                         => Settled <= Stored(q.sid).call

(* A call that was executed finds its own reply stored, if it can come     *)
(* again to a kept session.                                                *)
RepeatIsKnown ==
    \A q \in Sent : q.cmd # "mount" /\ q.sid \in Kept /\ q.call \in Range(executed)
                      => Stored(q.sid).call = q.call

(* Once the current call was answered, its session has stored its answer   *)
(* or is not kept.                                                         *)
AnswerIsStored ==
    \A r \in Range(replies) : r.call = calls =>
        LET sid == IF request.cmd = "mount" THEN r.sid ELSE request.sid IN
        sid \in Kept => Stored(sid).call = calls

(* No kept session remembers an UMOUNT.                                    *)
UmountNotStored ==
    \A sid \in Kept : Stored(sid).call = calls => request.cmd # "umount"

(* Once an UMOUNT that did not stray was answered, its session is gone.    *)
UmountAnswered ==
    \A r \in Range(replies) :
        r.call = calls /\ request.cmd = "umount" /\ calls \notin strayed
            => ~ Mounted(request.sid)

(* The inductive invariant.                                                *)
CallsInv ==
    /\ TypeOK
    /\ RequestsOK
    /\ RepliesOK
    /\ StoredOK
    /\ InOrder
    /\ StoredIsFresh
    /\ RepeatIsKnown
    /\ AnswerIsStored
    /\ UmountNotStored
    /\ UmountAnswered

-----------------------------------------------------------------------------
(* Types. *)

(* What the type invariant says of the messages and the calls.             *)
LEMMA Types ==
    ASSUME TypeOK
    PROVE  /\ Sent \subseteq Request /\ Range(replies) \subseteq Reply
           /\ Kept \subseteq Live
           /\ \A sid \in Live : sess[sid] \in Session /\ Stored(sid) \in Reply
           /\ \A m \in Request \cup Reply : m.call \in Nat
           /\ \A m \in Reply : m.of \in Nat
           /\ Range(executed) \subseteq Nat
           /\ calls \in Nat /\ Settled \in Int
           /\ givenUp \in Nat /\ givenUp <= MaxGiveUps
  <1>1. Range(requests) \subseteq Request
    BY RangeInSet DEF TypeOK
  <1>2. Range(replies) \subseteq Reply
    BY RangeInSet DEF TypeOK
  <1>3. Range(executed) \subseteq Nat
    <2> DEFINE Numbers == 1 .. MaxCalls
    <2>1. executed \in Seq(Numbers) /\ Numbers \subseteq Nat
      BY RetransmitConstants DEF TypeOK
    <2> HIDE DEF Numbers
    <2>2. Range(executed) \subseteq Numbers
      BY <2>1, RangeInSet
    <2> QED
      BY <2>1, <2>2
  <1>4. \A sid \in Live : sess[sid] \in Session /\ Stored(sid) \in Reply
    BY DEF TypeOK, Live, Stored, Session
  <1>5. /\ \A m \in Request \cup Reply : m.call \in Nat
        /\ \A m \in Reply : m.of \in Nat
    BY DEF Request, Reply
  <1>6. /\ calls \in Nat /\ givenUp \in Nat /\ givenUp <= MaxGiveUps
    BY RetransmitConstants DEF TypeOK
  <1>7. Settled \in Int
    BY <1>6 DEF Settled
  <1>8. Kept \subseteq Live
    BY DEF Kept, Live
  <1> QED
    BY <1>1, <1>2, <1>3, <1>4, <1>5, <1>6, <1>7, <1>8 DEF Sent, TypeOK

(* The calls on the way to the server are calls: the 0 of the initial      *)
(* request is never sent.                                                  *)
NamedCalls ==
    /\ waiting => request.call # 0
    /\ \A q \in Range(requests) : q.call # 0

(* An answer to a request is a reply.                                      *)
LEMMA AnswerIsReply ==
    ASSUME NEW q \in Request, NEW sid \in Sids \cup {NoSid},
           NEW status \in {"ok", "mounted", "badsession"}
    PROVE  Answer(q, sid, status) \in Reply
  BY DEF Answer, Request, Reply

(* What a session stores with its reply is a session.                      *)
LEMMA SessionTypes ==
    ASSUME NEW owner \in {"client", "both", "neighbour", "stranger"},
           NEW r \in Reply
    PROVE  NewSession(owner, r) \in Session
  BY DEF NewSession, Session, Reply

(* What the handlers do keeps the types of what the server writes.         *)
LEMMA DecodeTypes ==
    ASSUME TypeOK, NEW q \in Request, q.call # 0, Decode(q)
    PROVE  /\ replies' \in Seq(Reply)
           /\ sess' \in [Sids -> Session \cup {NoSession}]
           /\ executed' \in Seq(1 .. MaxCalls)
           /\ strayed' \in SUBSET (1 .. MaxCalls)
  <1>1. /\ replies \in Seq(Reply) /\ executed \in Seq(1 .. MaxCalls)
        /\ sess \in [Sids -> Session \cup {NoSession}]
        /\ strayed \in SUBSET (1 .. MaxCalls)
    BY DEF TypeOK
  <1>2. q.call \in 1 .. MaxCalls /\ q.sid \in Sids \cup {NoSid}
    BY RetransmitConstants DEF Request
  <1>3. CASE UNCHANGED <<replies, serverVars>>
    BY <1>1, <1>3 DEF serverVars
  <1>4. CASE DoMount(q) /\ ~ UNCHANGED <<replies, serverVars>>
    <2>1. PICK sid \in Sids :
             /\ sess' = [sess EXCEPT ![sid] =
                           NewSession("client", Answer(q, sid, "mounted"))]
             /\ replies' = Append(replies, Answer(q, sid, "mounted"))
             /\ UNCHANGED <<executed, strayed>>
      BY <1>4 DEF DoMount, Transmit, MountSids, OfAddress
    <2>2. Answer(q, sid, "mounted") \in Reply
      BY AnswerIsReply
    <2>3. NewSession("client", Answer(q, sid, "mounted")) \in Session
      BY <2>2, SessionTypes
    <2> QED
      BY <1>1, <2>1, <2>2, <2>3
  <1>5. CASE DoBadSession(q)
    <2>1. Answer(q, NoSid, "badsession") \in Reply
      BY AnswerIsReply
    <2> QED
      BY <1>1, <1>5, <2>1 DEF DoBadSession, Transmit, serverVars
  <1>6. CASE /\ q.sid # NoSid /\ sess[q.sid] # NoSession
             /\ strayed' = IF sess[q.sid].owner = "client" THEN strayed
                           ELSE strayed \cup {q.call}
             /\ Handle(q)
    <2>1. strayed' \in SUBSET (1 .. MaxCalls)
      BY <1>1, <1>2, <1>6
    <2>2. /\ q.sid \in Sids /\ sess[q.sid] \in Session
          /\ sess[q.sid].lastmsg \in Reply
          /\ sess[q.sid].owner \in {"client", "both", "neighbour", "stranger"}
      BY <1>1, <1>2, <1>6 DEF Session
    <2>3. CASE DoResend(q)
      <3> DEFINE m == sess[q.sid].lastmsg
                 r == [sid |-> m.sid, seqno |-> m.seqno, status |-> m.status,
                       call |-> q.call, of |-> m.of]
      <3>1. r \in Reply
        BY <1>2, <2>2 DEF Reply, Request
      <3>2. replies' = Append(replies, r) /\ UNCHANGED <<sess, executed>>
        BY <2>3 DEF DoResend, Transmit
      <3> QED
        BY <1>1, <2>1, <3>1, <3>2
    <2>4. CASE DoChmod(q)
      BY <1>1, <2>1, <2>4 DEF DoChmod
    <2>5. CASE DoUmount(q) \/ DoRead(q)
      <3> DEFINE r == Answer(q, q.sid, "ok")
      <3>1. r \in Reply
        BY <2>2, AnswerIsReply
      <3>2. /\ replies' = Append(replies, r)
            /\ executed' = Append(executed, q.call)
            /\ \/ sess' = [sess EXCEPT ![q.sid] = NoSession]
               \/ sess' = [sess EXCEPT ![q.sid] =
                             NewSession(sess[q.sid].owner, r)]
        BY <2>5 DEF DoUmount, DoRead, Transmit
      <3>3. NewSession(sess[q.sid].owner, r) \in Session
        BY <2>2, <3>1, SessionTypes
      <3> HIDE DEF r
      <3>4. replies' \in Seq(Reply) /\ executed' \in Seq(1 .. MaxCalls)
        BY <1>1, <1>2, <3>1, <3>2
      <3>5. sess' \in [Sids -> Session \cup {NoSession}]
        BY <1>1, <2>2, <3>2, <3>3
      <3> QED
        BY <2>1, <3>4, <3>5
    <2> QED
      BY <1>6, <2>3, <2>4, <2>5 DEF Handle
  <1> QED
    BY <1>3, <1>4, <1>5, <1>6 DEF Decode

(* What other clients do keeps the types of what they write.               *)
LEMMA OthersTypes ==
    ASSUME TypeOK, OthersAct
    PROVE  /\ sess' \in [Sids -> Session \cup {NoSession}]
           /\ nsids' \in SUBSET Sids
           /\ moves' \in 0 .. MaxMoves
           /\ UNCHANGED <<clientVars, requests, replies, executed, strayed>>
  <1>1. /\ sess \in [Sids -> Session \cup {NoSession}]
        /\ nsids \in SUBSET Sids /\ moves \in 0 .. MaxMoves
    BY DEF TypeOK
  <1>2. moves' \in 0 .. MaxMoves
    BY <1>1, RetransmitConstants DEF OthersAct
  <1>3. ASSUME NEW sid \in Sids, NEW seqno \in 0 .. SEQ_MOD - 1,
               NEW status \in {"ok", "mounted"}
        PROVE  Theirs(sid, seqno, status) \in Reply
    BY RetransmitConstants DEF Theirs, Reply
  <1>4. CASE NeighbourMount
    <2>1. PICK sid \in Sids, seqno \in 0 .. SEQ_MOD - 1 :
             /\ sess' = [sess EXCEPT ![sid] =
                           NewSession("neighbour", Theirs(sid, seqno, "mounted"))]
             /\ nsids' = nsids \cup {sid}
      BY <1>4 DEF NeighbourMount, MountSids, OfAddress
    <2>2. NewSession("neighbour", Theirs(sid, seqno, "mounted")) \in Session
      BY <1>3, SessionTypes
    <2> QED
      BY <1>1, <1>2, <1>4, <2>1, <2>2 DEF NeighbourMount
  <1>5. CASE NeighbourUse
    <2>1. PICK sid \in nsids \cap OfAddress, seqno \in 0 .. SEQ_MOD - 1 :
             sess' = [sess EXCEPT ![sid] =
                        NewSession(IF sess[sid].owner = "client" THEN "both"
                                   ELSE sess[sid].owner,
                                   Theirs(sid, seqno, "ok"))]
      BY <1>5 DEF NeighbourUse
    <2> DEFINE o == IF sess[sid].owner = "client" THEN "both" ELSE sess[sid].owner
    <2>2. sid \in Sids /\ o \in {"client", "both", "neighbour", "stranger"}
      BY <1>1, <2>1 DEF OfAddress, Session
    <2>3. sess' = [sess EXCEPT ![sid] = NewSession(o, Theirs(sid, seqno, "ok"))]
      BY <2>1
    <2> HIDE DEF o
    <2>4. NewSession(o, Theirs(sid, seqno, "ok")) \in Session
      BY <1>3, <2>2, SessionTypes
    <2> QED
      BY <1>1, <1>2, <1>5, <2>2, <2>3, <2>4 DEF NeighbourUse
  <1>6. CASE StrangerMount
    <2>1. 0 \in 0 .. SEQ_MOD - 1
      BY RetransmitConstants
    <2>2. PICK sid \in Sids :
             sess' = [sess EXCEPT ![sid] =
                        NewSession("stranger", Theirs(sid, 0, "mounted"))]
      BY <1>6 DEF StrangerMount
    <2>3. NewSession("stranger", Theirs(sid, 0, "mounted")) \in Session
      BY <1>3, <2>1, SessionTypes
    <2> QED
      BY <1>1, <1>2, <1>6, <2>2, <2>3 DEF StrangerMount
  <1> QED
    BY <1>4, <1>5, <1>6 DEF OthersAct

(* A new request is a request.                                             *)
LEMMA CallTypes ==
    ASSUME TypeOK, Call
    PROVE  request' \in Request /\ request'.call # 0 /\ calls' \in 0 .. MaxCalls
  <1>1. PICK cmd \in IF csid = NoSid THEN {"mount"} ELSE Commands :
           request' = [sid |-> csid, seqno |-> Seqno(cmd, calls + 1),
                       cmd |-> cmd, call |-> calls + 1]
    BY DEF Call
  <1>2. /\ calls \in Nat /\ calls + 1 \in 0 .. MaxCalls /\ calls + 1 # 0
        /\ calls' = calls + 1
    BY RetransmitConstants DEF TypeOK, Call
  <1>3. Seqno(cmd, calls + 1) \in 0 .. SEQ_MOD - 1
    BY <1>2, RequestNumberIsByte
  <1>4. cmd \in Commands \cup {"mount"} /\ csid \in Sids \cup {NoSid}
    BY DEF TypeOK
  <1> QED
    BY <1>1, <1>2, <1>3, <1>4 DEF Request

(* Every step keeps the types.                                             *)
LEMMA TypeStep ==
    ASSUME TypeOK, NamedCalls, [Next]_vars
    PROVE  TypeOK' /\ NamedCalls'
  <1>1. /\ requests \in Seq(Request) /\ replies \in Seq(Reply)
        /\ request \in Request
    BY DEF TypeOK
  <1>2. CASE Call
    <2>1. requests' = Append(requests, request')
      BY <1>2 DEF Call, Send
    <2>2. request' \in Request /\ request'.call # 0 /\ calls' \in 0 .. MaxCalls
      BY <1>2, CallTypes
    <2>3. requests' \in Seq(Request) /\ Range(requests') = Range(requests) \cup {request'}
      BY <1>1, <2>1, <2>2, LatestAdded
    <2> QED
      BY <1>2, <2>2, <2>3 DEF Call, TypeOK, NamedCalls, serverVars, otherVars
  <1>3. CASE Retry
    <2>1. requests' = Append(requests, request) /\ request.call # 0
      BY <1>3 DEF Retry, Send, NamedCalls
    <2>2. requests' \in Seq(Request) /\ Range(requests') = Range(requests) \cup {request}
      BY <1>1, <2>1, LatestAdded
    <2> QED
      BY <1>3, <2>1, <2>2 DEF Retry, TypeOK, NamedCalls, serverVars, otherVars, clientVars
  <1>4. CASE GiveUp
    <2>1. givenUp' \in 0 .. MaxGiveUps
      BY <1>4, RetransmitConstants DEF GiveUp, TypeOK
    <2> QED
      BY <1>4, <2>1 DEF GiveUp, TypeOK, NamedCalls, serverVars, otherVars
  <1>5. CASE ClientReceive
    <2>1. PICK k \in DOMAIN replies :
             /\ replies' = RemoveAt(replies, k)
             /\ \/ /\ waiting' = FALSE
                   /\ answer' = [call |-> replies[k].of, status |-> replies[k].status]
                   /\ csid' = SidAfter(replies[k])
                   /\ givenUp' = 0
                \/ UNCHANGED <<waiting, answer, csid, givenUp>>
             /\ UNCHANGED <<calls, request, requests, serverVars, otherVars>>
      BY <1>5 DEF ClientReceive, Deliverable
    <2>2. replies[k] \in Reply /\ replies' \in Seq(Reply)
      BY <1>1, <2>1, FewerLeft
    <2>3. /\ SidAfter(replies[k]) \in Sids \cup {NoSid}
          /\ [call |-> replies[k].of, status |-> replies[k].status]
               \in [call : 0 .. MaxCalls,
                    status : {"none", "ok", "mounted", "badsession"}]
      BY <2>2 DEF SidAfter, TypeOK, Reply
    <2>4. 0 \in 0 .. MaxGiveUps
      BY RetransmitConstants
    <2>5. csid' \in Sids \cup {NoSid} /\ givenUp' \in 0 .. MaxGiveUps
      BY <2>1, <2>3, <2>4 DEF TypeOK
    <2>6. waiting' \in BOOLEAN /\ (waiting' => waiting)
      <3>1. waiting \in BOOLEAN
        BY DEF TypeOK
      <3>2. waiting' = FALSE \/ waiting' = waiting
        BY <2>1
      <3>3. CASE waiting' = FALSE
        BY <3>3
      <3>4. CASE waiting' = waiting
        BY <3>1, <3>4
      <3> QED
        BY <3>2, <3>3, <3>4
    <2>7. answer' \in [call : 0 .. MaxCalls,
                       status : {"none", "ok", "mounted", "badsession"}]
      BY <2>1, <2>3 DEF TypeOK
    <2> QED
      BY <2>1, <2>2, <2>5, <2>6, <2>7 DEF TypeOK, NamedCalls, serverVars, otherVars
  <1>6. CASE Lose \/ Duplicate
    <2>1. /\ requests' \in Seq(Request) /\ Range(requests') \subseteq Range(requests)
          /\ replies' \in Seq(Reply)
          /\ UNCHANGED <<clientVars, serverVars, otherVars>>
      BY <1>1, <1>6, FewerLeft, CopyAdded DEF Lose, Duplicate
    <2> QED
      BY <2>1 DEF TypeOK, NamedCalls, serverVars, otherVars, clientVars
  <1>7. CASE ServerReceive
    <2>1. PICK k \in DOMAIN requests :
             requests' = RemoveAt(requests, k) /\ Decode(requests[k])
      BY <1>7 DEF ServerReceive, Deliverable
    <2>2. /\ requests' \in Seq(Request) /\ Range(requests') \subseteq Range(requests)
      BY <1>1, <2>1, FewerLeft
    <2>3. requests[k] \in Request /\ requests[k].call # 0
      BY <1>1 DEF NamedCalls, Range
    <2>4. /\ replies' \in Seq(Reply)
          /\ sess' \in [Sids -> Session \cup {NoSession}]
          /\ executed' \in Seq(1 .. MaxCalls)
          /\ strayed' \in SUBSET (1 .. MaxCalls)
      BY <2>1, <2>3, DecodeTypes
    <2> QED
      BY <1>7, <2>2, <2>4 DEF ServerReceive, TypeOK, NamedCalls, clientVars,
         otherVars
  <1>8. CASE ExpireAny
    BY <1>8 DEF ExpireAny, Expire, TypeOK, NamedCalls, clientVars, otherVars
  <1>9. CASE UNCHANGED vars
    BY <1>9 DEF TypeOK, NamedCalls, vars, clientVars, serverVars, otherVars
  <1>10. CASE OthersAct
    <2>1. /\ sess' \in [Sids -> Session \cup {NoSession}]
          /\ nsids' \in SUBSET Sids /\ moves' \in 0 .. MaxMoves
          /\ UNCHANGED <<clientVars, requests, replies, executed, strayed>>
      BY <1>10, OthersTypes
    <2>2. /\ calls' = calls /\ waiting' = waiting /\ answer' = answer
          /\ request' = request /\ givenUp' = givenUp /\ csid' = csid
          /\ requests' = requests /\ replies' = replies
          /\ executed' = executed /\ strayed' = strayed
      BY <2>1 DEF clientVars
    <2>3. waiting' \in BOOLEAN
      BY <2>2 DEF TypeOK
    <2>4. NamedCalls'
      BY <2>2 DEF NamedCalls
    <2> QED
      BY <2>1, <2>2, <2>3, <2>4 DEF TypeOK
  <1> QED
    BY <1>2, <1>3, <1>4, <1>5, <1>6, <1>7, <1>8, <1>9, <1>10 DEF Next, Finished

(* Every variable keeps its type, whatever the network does.               *)
THEOREM TypeCorrect == Spec => []TypeOK
  <1>1. Init => TypeOK /\ NamedCalls
    <2> SUFFICES ASSUME Init PROVE TypeOK /\ NamedCalls
      OBVIOUS
    <2>1. /\ 0 \in 0 .. MaxCalls /\ 0 \in 0 .. MaxGiveUps
          /\ 0 \in 0 .. SEQ_MOD - 1 /\ 0 \in 0 .. MaxMoves
      BY RetransmitConstants
    <2>2. TypeOK
      <3>1. request \in Request /\ answer \in [call : 0 .. MaxCalls,
                    status : {"none", "ok", "mounted", "badsession"}]
        BY <2>1 DEF Init, Request
      <3>2. requests \in Seq(Request) /\ replies \in Seq(Reply)
        BY DEF Init
      <3>3. executed \in Seq(1 .. MaxCalls)
        BY DEF Init
      <3> QED
        BY <2>1, <3>1, <3>2, <3>3 DEF Init, TypeOK
    <2>3. NamedCalls
      BY DEF Init, NamedCalls, Range
    <2> QED
      BY <2>2, <2>3
  <1>2. TypeOK /\ NamedCalls /\ [Next]_vars => (TypeOK /\ NamedCalls)'
    BY TypeStep
  <1> QED
    BY <1>1, <1>2, PTL DEF Spec

-----------------------------------------------------------------------------
(* The steps that only move messages: the ones in flight afterwards were   *)
(* there before, or repeat the request of the current call. A call may     *)
(* stray on the way.                                                       *)
LEMMA MessagesMoved ==
    ASSUME CallsInv, TypeOK', UNCHANGED <<clientVars, sess, executed>>,
           strayed \subseteq strayed',
           Range(requests') \subseteq Sent, Range(replies') \subseteq Range(replies),
           Ordered(requests'), Ordered(replies'),
           \A q \in Range(requests') : q.call # 0
    PROVE  CallsInv'
  <1>1. Sent' \subseteq Sent
    BY DEF Sent, clientVars
  <1>2. /\ Live' = Live /\ Kept' = Kept /\ sess' = sess
        /\ \A sid \in Sids : Stored(sid)' = Stored(sid)
    BY DEF Live, Kept, Stored
  <1>3. /\ calls' = calls /\ waiting' = waiting /\ csid' = csid
        /\ request' = request /\ givenUp' = givenUp
        /\ executed' = executed /\ strayed \subseteq strayed'
    BY DEF clientVars
  <1>4. Settled' = Settled
    BY <1>3 DEF Settled
  <1>5. RequestsOK'
    BY <1>1, <1>3 DEF CallsInv, RequestsOK
  <1>6. RepliesOK'
    <2>1. \A r : ReplyOK(r) => ReplyOK(r)'
      BY <1>3 DEF ReplyOK
    <2> QED
      BY <1>2, <2>1 DEF CallsInv, RepliesOK, Kept
  <1>7. StoredOK'
    BY <1>2, <1>3 DEF CallsInv, StoredOK, Live
  <1>8. InOrder'
    BY <1>1, <1>2, <1>3, <1>4 DEF CallsInv, InOrder, Kept
  <1>9. StoredIsFresh' /\ RepeatIsKnown'
    BY <1>1, <1>2, <1>3, <1>4 DEF CallsInv, StoredIsFresh, RepeatIsKnown, Kept
  <1>10. AnswerIsStored' /\ UmountNotStored' /\ UmountAnswered'
    BY <1>2, <1>3
       DEF CallsInv, AnswerIsStored, UmountNotStored, UmountAnswered, Mounted, Kept
  <1> QED
    BY <1>5, <1>6, <1>7, <1>8, <1>9, <1>10 DEF CallsInv

(* A new call is later than all that the server and the channels know.     *)
LEMMA CallKeepsInv ==
    ASSUME CallsInv, TypeOK', ~ UmountZero, Call
    PROVE  CallsInv'
  <1>1. /\ ~ waiting /\ waiting' /\ calls' = calls + 1
        /\ requests' = Append(requests, request')
        /\ UNCHANGED <<givenUp, csid, replies, sess, executed, strayed>>
    BY DEF Call, Send, serverVars
  <1>2. /\ Sent \subseteq Request /\ Range(replies) \subseteq Reply
        /\ Kept \subseteq Live
        /\ \A sid \in Live : Stored(sid) \in Reply
        /\ \A m \in Request \cup Reply : m.call \in Nat
        /\ \A m \in Reply : m.of \in Nat
        /\ Range(executed) \subseteq Nat
        /\ calls \in Nat /\ Settled \in Int /\ givenUp \in Nat
    BY Types DEF CallsInv
  <1>3. PICK cmd \in IF csid = NoSid THEN {"mount"} ELSE Commands :
           request' = [sid |-> csid, seqno |-> Seqno(cmd, calls + 1),
                       cmd |-> cmd, call |-> calls + 1]
    BY DEF Call
  <1>4. Seqno(cmd, calls + 1) = SeqnoOf(calls + 1)
    BY <1>2, RequestNumberIsByte
  <1>5. /\ request'.sid = csid /\ request'.call = calls + 1
        /\ request'.seqno = SeqnoOf(calls + 1)
        /\ request'.cmd # "mount" => csid \in Sids
    BY <1>3, <1>4 DEF CallsInv, TypeOK
  <1>6. request' \in Request /\ requests \in Seq(Request)
    BY CallTypes DEF CallsInv, TypeOK
  <1>7. /\ Range(requests') = Range(requests) \cup {request'}
        /\ Sent' \subseteq Sent \cup {request'}
    BY <1>1, <1>6, LatestAdded DEF Sent
  <1>8. /\ Live' = Live /\ Kept' = Kept
        /\ \A sid \in Sids : Stored(sid)' = Stored(sid)
    BY <1>1 DEF Live, Kept, Stored
  <1>9. Settled' = Settled /\ Settled <= calls + 1
    BY <1>1, <1>2 DEF Settled
  <1>10. \A q \in Sent : q.call \in Nat /\ q.call <= calls
    BY <1>2 DEF CallsInv, RequestsOK
  <1>11. /\ \A r \in Range(replies) : /\ r.call \in Nat /\ r.call <= calls
                                      /\ r.of \in Nat /\ r.of <= calls
         /\ \A sid \in Kept : Stored(sid).call \in Nat /\ Stored(sid).call <= calls
         /\ \A sid \in Live : Stored(sid).of \in Nat /\ Stored(sid).of <= calls
         /\ \A n \in Range(executed) : n \in Nat /\ n <= calls
    BY <1>2 DEF CallsInv, RepliesOK, ReplyOK, StoredOK, RequestsOK, InOrder, Sent
  <1>12. RequestsOK'
    BY <1>1, <1>2, <1>5, <1>7, <1>10 DEF CallsInv, RequestsOK, Sent
  <1>13. RepliesOK'
    <2>1. \A r \in Reply : r.call <= calls /\ ReplyOK(r) => ReplyOK(r)'
      BY <1>1, <1>2 DEF ReplyOK
    <2> QED
      BY <1>1, <1>2, <1>8, <1>11, <2>1 DEF CallsInv, RepliesOK, Kept
  <1>14. StoredOK'
    BY <1>1, <1>2, <1>8, <1>11 DEF CallsInv, StoredOK, Live
  <1>15. InOrder'
    <2>1. Ordered(requests')
      <3>1. \A q \in Range(requests) : q.call <= request'.call
        BY <1>2, <1>5, <1>10 DEF Sent
      <3>2. request'.call <= request'.call
        BY <1>2, <1>5
      <3> QED
        BY <1>1, <1>6, <3>1, <3>2, LatestAdded DEF CallsInv, InOrder
    <2> QED
      BY <1>1, <1>2, <1>5, <1>7, <1>8, <1>9, <1>11, <2>1 DEF CallsInv, InOrder, Kept
  <1>16. StoredIsFresh'
    BY <1>1, <1>5, <1>7, <1>8, <1>9 DEF CallsInv, StoredIsFresh, Kept
  <1>17. RepeatIsKnown'
    BY <1>1, <1>2, <1>5, <1>7, <1>8, <1>11 DEF CallsInv, RepeatIsKnown, Kept
  <1>18. AnswerIsStored' /\ UmountNotStored' /\ UmountAnswered'
    BY <1>1, <1>2, <1>8, <1>11
       DEF CallsInv, AnswerIsStored, UmountNotStored, UmountAnswered, Kept
  <1> QED
    BY <1>12, <1>13, <1>14, <1>15, <1>16, <1>17, <1>18 DEF CallsInv

(* A call given up is one more between the last answer and the next call.  *)
LEMMA GiveUpKeepsInv ==
    ASSUME CallsInv, TypeOK', GiveUp
    PROVE  CallsInv'
  <1>1. /\ waiting /\ ~ waiting' /\ givenUp' = givenUp + 1
        /\ UNCHANGED <<calls, request, csid, requests, replies, sess, executed,
                       strayed>>
    BY DEF GiveUp, serverVars
  <1>2. /\ Sent' = Sent /\ Live' = Live /\ Kept' = Kept
        /\ \A sid \in Sids : Stored(sid)' = Stored(sid)
    BY <1>1 DEF Sent, Live, Kept, Stored
  <1>3. Settled' = Settled
    <2>1. calls \in Nat /\ givenUp \in Nat
      BY Types DEF CallsInv
    <2> QED
      BY <1>1, <2>1 DEF Settled
  <1>4. RequestsOK' /\ RepliesOK' /\ StoredOK'
    BY <1>1, <1>2 DEF CallsInv, RequestsOK, RepliesOK, ReplyOK, StoredOK, Live, Kept
  <1>5. InOrder' /\ StoredIsFresh' /\ RepeatIsKnown'
    BY <1>1, <1>2, <1>3 DEF CallsInv, InOrder, StoredIsFresh, RepeatIsKnown, Kept
  <1>6. AnswerIsStored' /\ UmountNotStored' /\ UmountAnswered'
    BY <1>1, <1>2
       DEF CallsInv, AnswerIsStored, UmountNotStored, UmountAnswered, Mounted, Kept
  <1> QED
    BY <1>4, <1>5, <1>6 DEF CallsInv

(* What becomes of sessions without a request of the client: it keeps no   *)
(* others than before, and those it keeps are as they were.                *)
LEMMA SessionsTaken ==
    ASSUME CallsInv, TypeOK', StoredOK',
           UNCHANGED <<clientVars, requests, replies, executed, strayed>>,
           \A sid \in Kept' : sid \in Kept /\ sess'[sid] = sess[sid],
           \A sid \in Sids : Mounted(sid)' => Mounted(sid)
    PROVE  CallsInv'
  <1>1. /\ calls' = calls /\ waiting' = waiting /\ csid' = csid
        /\ request' = request /\ givenUp' = givenUp /\ requests' = requests
        /\ replies' = replies /\ executed' = executed /\ strayed' = strayed
    BY DEF clientVars
  <1>2. \A sid \in Kept' : sid \in Kept /\ Stored(sid)' = Stored(sid)
    BY DEF Stored
  <1>3. Sent' = Sent /\ Settled' = Settled
    BY <1>1 DEF Sent, Settled
  <1>4. RequestsOK' /\ RepliesOK'
    BY <1>1, <1>2, <1>3 DEF CallsInv, RequestsOK, RepliesOK, ReplyOK
  <1>5. InOrder' /\ StoredIsFresh' /\ RepeatIsKnown'
    BY <1>1, <1>2, <1>3 DEF CallsInv, InOrder, StoredIsFresh, RepeatIsKnown
  <1>6. AnswerIsStored' /\ UmountNotStored'
    BY <1>1, <1>2 DEF CallsInv, AnswerIsStored, UmountNotStored
  <1>7. UmountAnswered'
    <2>1. request.cmd # "mount" => request.sid \in Sids
      BY DEF CallsInv, RequestsOK, Sent
    <2> QED
      BY <1>1, <2>1 DEF CallsInv, UmountAnswered
  <1> QED
    BY <1>4, <1>5, <1>6, <1>7 DEF CallsInv

(* A session that expires takes what it stored with it.                    *)
LEMMA ExpireKeepsInv ==
    ASSUME CallsInv, TypeOK', ExpireAny
    PROVE  CallsInv'
  <1>1. PICK gone \in Sids : sess' = [sess EXCEPT ![gone] = NoSession]
    BY DEF ExpireAny, Expire
  <1>2. UNCHANGED <<clientVars, requests, replies, executed, strayed>>
    BY DEF ExpireAny, Expire
  <1>3. \A sid \in Sids : sess'[sid] = sess[sid] \/ sess'[sid] = NoSession
    BY <1>1 DEF CallsInv, TypeOK
  <1>4. \A sid \in Kept' : sid \in Kept /\ sess'[sid] = sess[sid]
    BY <1>3 DEF Kept
  <1>5. \A sid \in Sids : Mounted(sid)' => Mounted(sid)
    BY <1>3 DEF Mounted
  <1>6. StoredOK'
    <2>1. \A sid \in Live' : sid \in Live /\ sess'[sid] = sess[sid]
      BY <1>3 DEF Live
    <2>2. calls' = calls /\ replies' = replies
      BY <1>2 DEF clientVars
    <2> QED
      BY <2>1, <2>2 DEF CallsInv, StoredOK, Stored
  <1> QED
    BY <1>2, <1>4, <1>5, <1>6, SessionsTaken

(* What another client does to a session leaves it no session of this one, *)
(* or one that it has not had to itself, with another's reply stored.      *)
LEMMA OthersKeepInv ==
    ASSUME CallsInv, TypeOK', OthersAct
    PROVE  CallsInv'
  <1>1. UNCHANGED <<clientVars, requests, replies, executed, strayed>>
    BY OthersTypes DEF CallsInv
  <1>2. sess \in [Sids -> Session \cup {NoSession}]
    BY DEF CallsInv, TypeOK
  <1>3. PICK taken \in Sids, o \in {"both", "neighbour", "stranger"},
             seqno \in 0 .. SEQ_MOD - 1, status \in {"ok", "mounted"} :
           /\ sess' = [sess EXCEPT ![taken] =
                         NewSession(o, Theirs(taken, seqno, status))]
           /\ o = "both" => Mounted(taken)
    <2>1. CASE NeighbourMount
      <3>1. PICK sid \in Sids, seqno \in 0 .. SEQ_MOD - 1 :
               sess' = [sess EXCEPT ![sid] =
                          NewSession("neighbour", Theirs(sid, seqno, "mounted"))]
        BY <2>1 DEF NeighbourMount, MountSids, OfAddress
      <3> QED
        BY <3>1
    <2>2. CASE NeighbourUse
      <3>1. PICK sid \in nsids \cap OfAddress, seqno \in 0 .. SEQ_MOD - 1 :
               sess' = [sess EXCEPT ![sid] =
                          NewSession(IF sess[sid].owner = "client" THEN "both"
                                     ELSE sess[sid].owner,
                                     Theirs(sid, seqno, "ok"))]
        BY <2>2 DEF NeighbourUse
      <3> DEFINE o == IF sess[sid].owner = "client" THEN "both" ELSE sess[sid].owner
      <3>2. /\ sid \in Sids /\ o \in {"both", "neighbour", "stranger"}
            /\ o = "both" => Mounted(sid)
        BY <1>2, <3>1 DEF OfAddress, Session, Mounted
      <3>3. sess' = [sess EXCEPT ![sid] = NewSession(o, Theirs(sid, seqno, "ok"))]
        BY <3>1
      <3> HIDE DEF o
      <3> QED
        BY <3>2, <3>3
    <2>3. CASE StrangerMount
      <3>1. PICK sid \in Sids :
               sess' = [sess EXCEPT ![sid] =
                          NewSession("stranger", Theirs(sid, 0, "mounted"))]
        BY <2>3 DEF StrangerMount
      <3>2. 0 \in 0 .. SEQ_MOD - 1
        BY RetransmitConstants
      <3> QED
        BY <3>1, <3>2
    <2> QED
      BY <2>1, <2>2, <2>3 DEF OthersAct
  <1> DEFINE new == NewSession(o, Theirs(taken, seqno, status))
  <1>4. /\ new.owner = o /\ new.lastseqno = new.lastmsg.seqno
        /\ new.lastmsg.of = 0
    BY DEF NewSession, Theirs
  <1> HIDE DEF new
  <1>5. /\ sess'[taken] = new
        /\ \A sid \in Sids : sid # taken => sess'[sid] = sess[sid]
    BY <1>2, <1>3 DEF new
  <1>6. \A sid \in Kept' : sid \in Kept /\ sess'[sid] = sess[sid]
    BY <1>4, <1>5 DEF Kept
  <1>7. \A sid \in Sids : Mounted(sid)' => Mounted(sid)
    BY <1>3, <1>4, <1>5 DEF Mounted
  <1>8. StoredOK'
    <2>1. calls' = calls /\ replies' = replies /\ 0 <= calls
      BY <1>1, Types DEF clientVars, CallsInv
    <2>2. \A sid \in Live' : /\ sess'[sid].lastseqno = sess'[sid].lastmsg.seqno
                             /\ sess'[sid].lastmsg.of <= calls
      <3> SUFFICES ASSUME NEW sid \in Live'
                   PROVE  /\ sess'[sid].lastseqno = sess'[sid].lastmsg.seqno
                          /\ sess'[sid].lastmsg.of <= calls
        OBVIOUS
      <3>1. CASE sid = taken
        BY <1>4, <1>5, <2>1, <3>1
      <3>2. CASE sid # taken
        BY <1>5, <3>2 DEF CallsInv, StoredOK, Stored, Live
      <3> QED
        BY <3>1, <3>2
    <2> QED
      BY <2>1, <2>2 DEF CallsInv, StoredOK, Stored
  <1> QED
    BY <1>1, <1>6, <1>7, <1>8, SessionsTaken

-----------------------------------------------------------------------------
(* What a number tells. *)

(* With the hypotheses of the theorems, a number that both sides compare   *)
(* tells the call: all calls that can be meant were made since the last    *)
(* one that was answered, and are fewer than there are numbers.            *)
LEMMA NumberIsOfCall ==
    ASSUME CallsInv, MaxGiveUps + 2 <= SEQ_MOD,
           NEW m \in Nat \ {0}, NEW n \in Nat \ {0},
           Settled <= m, m <= n, n <= calls, SeqnoOf(m) = SeqnoOf(n)
    PROVE  m = n
  <1>1. /\ calls \in Nat /\ Settled \in Int
        /\ givenUp \in Nat /\ givenUp <= MaxGiveUps
        /\ MaxGiveUps \in Nat /\ SEQ_MOD \in Nat
    BY Types, RetransmitConstants DEF CallsInv
  <1>2. calls <= Settled + givenUp + 1
    BY <1>1 DEF Settled
  <1>3. m < n + SEQ_MOD /\ n < m + SEQ_MOD
    BY <1>1, <1>2
  <1> QED
    BY <1>3, NumberTellsCalls

(* An answer that the client takes was sent for its current call, and then *)
(* nothing older is left anywhere.                                         *)
LEMMA AcceptedIsCurrent ==
    ASSUME CallsInv, MaxGiveUps + 2 <= SEQ_MOD,
           NEW r \in Range(replies), Accepted(r)
    PROVE  /\ r.call = calls
           /\ \A q \in Sent : q = request
  <1>1. /\ calls \in Nat /\ Sent \subseteq Request
        /\ \A m \in Request \cup Reply : m.call \in Nat
        /\ r \in Reply /\ request \in Sent
    BY Types DEF CallsInv, Sent
  <1>2. /\ calls # 0 /\ request.call = calls /\ request.seqno = SeqnoOf(calls)
        /\ r.call # 0 /\ r.call <= calls /\ r.seqno = SeqnoOf(r.call)
        /\ Settled <= r.call
    BY <1>1 DEF CallsInv, RequestsOK, RepliesOK, ReplyOK, InOrder, Accepted
  <1>3. SeqnoOf(r.call) = SeqnoOf(calls)
    BY <1>2 DEF Accepted
  <1>4. r.call = calls
    BY <1>1, <1>2, <1>3, NumberIsOfCall
  <1>5. ASSUME NEW q \in Sent PROVE q = request
    <2>1. r.call <= q.call /\ q.call <= calls /\ q.call \in Nat
      BY <1>1 DEF CallsInv, InOrder, RequestsOK
    <2>2. q.call = request.call
      BY <1>1, <1>2, <1>4, <2>1
    <2> QED
      BY <1>1, <2>2 DEF CallsInv, RequestsOK
  <1> QED
    BY <1>4, <1>5

(* The client takes an answer, or discards it.                             *)
LEMMA ClientReceiveKeepsInv ==
    ASSUME CallsInv, TypeOK', ~ Reorder, MaxGiveUps + 2 <= SEQ_MOD,
           ClientReceive
    PROVE  CallsInv'
  <1>1. /\ 1 \in DOMAIN replies
        /\ replies' = RemoveAt(replies, 1)
        /\ IF Accepted(replies[1])
           THEN /\ waiting' = FALSE
                /\ answer' = [call |-> replies[1].of, status |-> replies[1].status]
                /\ csid' = SidAfter(replies[1])
                /\ givenUp' = 0
           ELSE UNCHANGED <<waiting, answer, csid, givenUp>>
        /\ UNCHANGED <<calls, request, requests, serverVars>>
    BY DEF ClientReceive, Deliverable
  <1> DEFINE r == replies[1]
  <1>2. /\ r \in Range(replies) /\ replies \in Seq(Reply)
        /\ Range(replies') \subseteq Range(replies)
        /\ Ordered(replies')
    <2>1. replies \in Seq(Reply) /\ Ordered(replies)
      BY DEF CallsInv, TypeOK, InOrder
    <2>2. r \in Range(replies)
      BY <1>1 DEF Range
    <2> QED
      BY <1>1, <2>1, <2>2, FewerLeft
  <1> HIDE DEF r
  <1>3. CASE ~ Accepted(r)
    <2>1. UNCHANGED <<clientVars, sess, executed>> /\ strayed \subseteq strayed'
      BY <1>1, <1>3 DEF clientVars, serverVars, r
    <2>2. /\ Range(requests') \subseteq Sent /\ Ordered(requests')
          /\ \A q \in Range(requests') : q.call # 0
      BY <1>1 DEF CallsInv, InOrder, RequestsOK, Sent
    <2> QED
      BY <1>2, <2>1, <2>2, MessagesMoved
  <1>4. CASE Accepted(r)
    <2>1. r.call = calls /\ \A q \in Sent : q = request
      BY <1>2, <1>4, AcceptedIsCurrent
    <2>2. /\ ~ waiting' /\ csid' = SidAfter(r) /\ givenUp' = 0
          /\ UNCHANGED <<calls, request, requests, sess, executed, strayed>>
      BY <1>1, <1>4 DEF r, serverVars
    <2>3. /\ Sent' = Sent /\ Live' = Live /\ Kept' = Kept
          /\ \A sid \in Sids : Stored(sid)' = Stored(sid)
      BY <2>2 DEF Sent, Live, Kept, Stored
    <2>4. /\ calls \in Nat /\ Sent \subseteq Request /\ Range(replies) \subseteq Reply
          /\ \A m \in Request \cup Reply : m.call \in Nat
          /\ \A sid \in Kept : Stored(sid) \in Reply
      BY Types DEF CallsInv
    <2>5. request.call = calls /\ Settled' = calls
      BY <2>2, <2>4 DEF CallsInv, RequestsOK, Settled
    <2>6. \A x \in Range(replies') : x.call = calls
      <3> SUFFICES ASSUME NEW x \in Range(replies') PROVE x.call = calls
        OBVIOUS
      <3>1. x \in Range(replies) /\ x.call \in Nat
        BY <1>2, <2>4
      <3>2. x.call <= calls
        BY <3>1 DEF CallsInv, RepliesOK, ReplyOK
      <3>3. r.call <= x.call
        <4>1. 1 \in DOMAIN replies
          BY <1>1
        <4>2. Ordered(replies)
          BY DEF CallsInv, InOrder
        <4> QED
          BY <1>2, <3>1, <4>1, <4>2, FirstIsOldest DEF r
      <3> QED
        BY <2>1, <2>4, <3>1, <3>2, <3>3
    <2>7. RequestsOK'
      BY <2>2, <2>3 DEF CallsInv, RequestsOK
    <2>8. RepliesOK' /\ StoredOK'
      BY <1>2, <2>2, <2>3 DEF CallsInv, RepliesOK, ReplyOK, StoredOK, Kept, Live
    <2>9. InOrder'
      BY <1>2, <2>1, <2>2, <2>3, <2>4, <2>5, <2>6 DEF CallsInv, InOrder, Kept
    <2>10. StoredIsFresh'
      <3>1. LET sid == IF request.cmd = "mount" THEN r.sid ELSE request.sid IN
            sid \in Kept => Stored(sid).call = calls
        BY <1>2, <2>1 DEF CallsInv, AnswerIsStored
      <3>2. csid' \in Kept => Stored(csid').call = calls
        <4> SUFFICES ASSUME csid' \in Kept PROVE Stored(csid').call = calls
          OBVIOUS
        <4>1. csid' # NoSid
          BY RetransmitConstants DEF Kept
        <4>2. CASE request.cmd = "mount"
          BY <2>2, <3>1, <4>1, <4>2 DEF SidAfter
        <4>3. CASE request.cmd # "mount"
          <5>1. csid' = request.sid
            BY <1>4, <2>2, <4>1, <4>3 DEF SidAfter, Accepted, CallsInv, RequestsOK
          <5> QED
            BY <3>1, <4>3, <5>1
        <4> QED
          BY <4>2, <4>3
      <3>3. \A q \in Sent : q.cmd # "mount" /\ q.sid \in Kept
                              => Stored(q.sid).call = calls
        BY <2>1, <3>1
      <3>4. csid' \in Kept' => Settled' <= sess'[csid'].lastmsg.call
        BY <2>2, <2>3, <2>4, <2>5, <3>2 DEF Stored
      <3>5. \A q \in Sent' : q.cmd # "mount" /\ q.sid \in Kept'
                               => Settled' <= sess'[q.sid].lastmsg.call
        BY <2>2, <2>3, <2>4, <2>5, <3>3 DEF Stored
      <3> QED
        BY <3>4, <3>5 DEF StoredIsFresh, Stored
    <2>11. RepeatIsKnown'
      BY <2>2, <2>3 DEF CallsInv, RepeatIsKnown, Kept
    <2>12. AnswerIsStored' /\ UmountNotStored' /\ UmountAnswered'
      BY <1>2, <2>2, <2>3
         DEF CallsInv, AnswerIsStored, UmountNotStored, UmountAnswered, Mounted, Kept
    <2> QED
      BY <2>7, <2>8, <2>9, <2>10, <2>11, <2>12 DEF CallsInv
  <1> QED
    BY <1>3, <1>4

-----------------------------------------------------------------------------
(* The server. *)

(* What all handlers that answer have in common: r, sent because of q, is  *)
(* the answer made for it unless q strayed, and each session keeps what it *)
(* had stored or stores r, as the session of q does unless it is gone.     *)
Answered(q, r) ==
    /\ replies' = Append(replies, r)
    /\ r.call = q.call /\ r.seqno = q.seqno /\ r.of <= calls
    /\ strayed \subseteq strayed'
    /\ q.call \notin strayed' => /\ r.of = q.call
                                 /\ r.status = "ok" => q.call \in Range(executed')
    /\ \/ executed' = executed
       \/ /\ q.cmd # "mount"
          /\ Range(executed') = Range(executed) \cup {q.call}
    /\ \A sid \in Live' :
          \/ sid \in Live /\ sess'[sid] = sess[sid]
          \/ /\ sess'[sid].lastmsg = r /\ sess'[sid].lastseqno = r.seqno
             /\ q.cmd # "umount"
    /\ LET sid == IF q.cmd = "mount" THEN r.sid ELSE q.sid IN
       sid \in Kept' => sess'[sid].lastmsg.call = q.call
    /\ q.cmd = "umount" /\ q.call = calls /\ q.call \notin strayed'
          => ~ Mounted(q.sid)'

(* Answering the oldest request in flight keeps the invariant.             *)
LEMMA AnsweredKeepsInv ==
    ASSUME CallsInv, TypeOK', UNCHANGED clientVars,
           NEW q \in Range(requests), NEW r \in Reply, Answered(q, r),
           Range(requests') \subseteq Range(requests), Ordered(requests'),
           \A p \in Range(requests) : q.call <= p.call
    PROVE  CallsInv'
  <1>1. /\ calls' = calls /\ waiting' = waiting /\ csid' = csid
        /\ request' = request /\ givenUp' = givenUp
    BY DEF clientVars
  <1>2. /\ replies' = Append(replies, r)
        /\ r.call = q.call /\ r.seqno = q.seqno /\ r.of <= calls
        /\ strayed \subseteq strayed'
        /\ q.call \notin strayed' => /\ r.of = q.call
                                     /\ r.status = "ok" => q.call \in Range(executed')
        /\ Range(executed) \subseteq Range(executed')
        /\ Range(executed') \subseteq Range(executed) \cup {q.call}
        /\ q.cmd = "mount" => executed' = executed
    BY DEF Answered
  <1>3. \A sid \in Live' :
           \/ /\ sid \in Live /\ Stored(sid)' = Stored(sid)
              /\ sess'[sid] = sess[sid]
           \/ /\ Stored(sid)' = r /\ sess'[sid].lastseqno = r.seqno
              /\ q.cmd # "umount"
    BY DEF Answered, Stored
  <1>4. \A sid \in Kept' :
           \/ /\ sid \in Kept /\ Stored(sid)' = Stored(sid)
              /\ sess'[sid] = sess[sid]
           \/ Stored(sid)' = r /\ q.cmd # "umount"
    BY <1>3 DEF Kept, Live
  <1>5. LET sid == IF q.cmd = "mount" THEN r.sid ELSE q.sid IN
        sid \in Kept' => sess'[sid].lastmsg.call = q.call
    BY DEF Answered
  <1>6. /\ Sent \subseteq Request /\ Range(replies) \subseteq Reply
        /\ \A sid \in Kept : Stored(sid) \in Reply
        /\ \A m \in Request \cup Reply : m.call \in Nat
        /\ Range(executed) \subseteq Nat
        /\ calls \in Nat /\ Settled \in Int
    BY Types DEF CallsInv
  <1>7. /\ q \in Sent /\ q.call \in Nat /\ q.call # 0 /\ q.call <= calls
        /\ r.call # 0 /\ r.call \in Nat /\ r.seqno = SeqnoOf(r.call)
        /\ request.call = calls
    BY <1>2, <1>6 DEF CallsInv, RequestsOK, Sent
  <1>8. Sent' \subseteq Sent /\ Sent' = Range(requests') \cup {request}
    BY <1>1 DEF Sent
  <1>9. \A p \in Sent' : q.call <= p.call
    BY <1>7, <1>8
  <1>10. /\ Range(replies') = Range(replies) \cup {r}
         /\ Ordered(replies')
    <2>1. replies \in Seq(Reply) /\ Ordered(replies)
      BY DEF CallsInv, TypeOK, InOrder
    <2>2. r.call <= r.call
      BY <1>7
    <2>3. \A x \in Range(replies) : x.call <= r.call
      BY <1>2, <1>7 DEF CallsInv, InOrder
    <2> QED
      BY <1>2, <2>1, <2>2, <2>3, LatestAdded
  <1>11. q.call = calls => q = request
    BY <1>7 DEF CallsInv, RequestsOK, Sent
  <1>12. Settled' = Settled /\ Settled <= q.call
    BY <1>1, <1>7 DEF CallsInv, InOrder, Settled
  <1>13. RequestsOK'
    BY <1>1, <1>8 DEF CallsInv, RequestsOK
  <1>14. RepliesOK'
    <2>1. ReplyOK(r)'
      BY <1>1, <1>2, <1>7 DEF ReplyOK
    <2>2. \A x : ReplyOK(x) => ReplyOK(x)'
      BY <1>1, <1>2 DEF ReplyOK
    <2>3. \A x \in Range(replies') : ReplyOK(x)'
      BY <1>10, <2>1, <2>2 DEF CallsInv, RepliesOK
    <2>4. ASSUME NEW sid \in Kept' PROVE ReplyOK(Stored(sid))'
      <3>1. CASE sid \in Kept /\ Stored(sid)' = Stored(sid)
        <4>1. ReplyOK(Stored(sid))
          BY <3>1 DEF CallsInv, RepliesOK
        <4> QED
          BY <1>1, <1>2, <3>1, <4>1 DEF ReplyOK
      <3>2. CASE Stored(sid)' = r
        BY <1>1, <1>2, <1>7, <3>2 DEF ReplyOK
      <3> QED
        BY <1>4, <3>1, <3>2
    <2> QED
      BY <2>3, <2>4 DEF RepliesOK
  <1>15. StoredOK'
    BY <1>1, <1>2, <1>3, <1>10 DEF CallsInv, StoredOK
  <1>16. InOrder'
    <2> SUFFICES ASSUME NEW p \in Sent'
                 PROVE  /\ Settled' <= p.call
                        /\ \A x \in Range(replies') : x.call <= p.call
                        /\ \A sid \in Kept' : sess'[sid].lastmsg.call <= p.call
                        /\ \A n \in Range(executed') : n <= p.call
      <3>1. \A x \in Range(replies') : Settled' <= x.call
        BY <1>2, <1>10, <1>12 DEF CallsInv, InOrder
      <3> QED
        BY <1>10, <3>1 DEF InOrder, Stored
    <2>1. p \in Sent /\ p.call \in Nat /\ q.call <= p.call
      BY <1>6, <1>8, <1>9
    <2>2. \A x \in Range(replies') : x.call <= p.call
      BY <1>2, <1>10, <2>1 DEF CallsInv, InOrder
    <2>3. \A sid \in Kept' : sess'[sid].lastmsg.call <= p.call
      BY <1>2, <1>4, <2>1 DEF CallsInv, InOrder, Stored
    <2>4. \A n \in Range(executed') : n <= p.call
      BY <1>2, <2>1 DEF CallsInv, InOrder
    <2> QED
      BY <1>12, <2>1, <2>2, <2>3, <2>4 DEF CallsInv, InOrder
  <1>17. StoredIsFresh'
    BY <1>1, <1>2, <1>4, <1>8, <1>12 DEF CallsInv, StoredIsFresh, Stored
  <1>18. RepeatIsKnown'
    <2> SUFFICES ASSUME NEW p \in Sent', p.cmd # "mount", p.sid \in Kept',
                        p.call \in Range(executed')
                 PROVE  sess'[p.sid].lastmsg.call = p.call
      BY DEF RepeatIsKnown, Stored
    <2>1. p \in Sent /\ p.call \in Nat /\ q.call <= p.call
      BY <1>6, <1>8, <1>9
    <2>2. CASE p.call = q.call
      <3>1. p = q
        BY <1>7, <2>1, <2>2 DEF CallsInv, RequestsOK
      <3> QED
        BY <1>5, <3>1
    <2>3. CASE p.call # q.call
      <3>1. p.call \in Range(executed)
        BY <1>2, <2>3
      <3>2. p.call <= q.call
        BY <1>7, <3>1 DEF CallsInv, InOrder
      <3> QED
        BY <1>7, <2>1, <2>3, <3>2
    <2> QED
      BY <2>2, <2>3
  <1>19. ASSUME NEW x \in Range(replies), x.call = calls
         PROVE  q.call = calls /\ q = request
    <2>1. calls <= q.call
      BY <1>7, <1>19 DEF CallsInv, InOrder
    <2> QED
      BY <1>6, <1>7, <1>11, <2>1
  <1>20. AnswerIsStored'
    <2> SUFFICES ASSUME NEW x \in Range(replies'), x.call = calls,
                        NEW sid, sid = IF request.cmd = "mount" THEN x.sid
                                       ELSE request.sid,
                        sid \in Kept'
                 PROVE  sess'[sid].lastmsg.call = calls
      BY <1>1 DEF AnswerIsStored, Stored
    <2>1. CASE x = r
      BY <1>2, <1>5, <1>11, <2>1
    <2>2. CASE x # r
      <3>1. x \in Range(replies)
        BY <1>10, <2>2
      <3>2. q.call = calls
        BY <1>19, <3>1
      <3> QED
        BY <1>2, <1>4, <3>1, <3>2 DEF CallsInv, AnswerIsStored, Stored
    <2> QED
      BY <2>1, <2>2
  <1>21. UmountNotStored'
    BY <1>1, <1>2, <1>4, <1>11 DEF CallsInv, UmountNotStored
  <1>22. UmountAnswered'
    <2> SUFFICES ASSUME NEW x \in Range(replies'), x.call = calls,
                        request.cmd = "umount", calls \notin strayed'
                 PROVE  ~ Mounted(request.sid)'
      BY <1>1 DEF UmountAnswered, Mounted
    <2>1. q.call = calls /\ q = request
      <3>1. CASE x = r
        BY <1>2, <1>11, <3>1
      <3>2. CASE x # r
        BY <1>10, <1>19, <3>2
      <3> QED
        BY <3>1, <3>2
    <2> QED
      BY <1>1, <2>1 DEF Answered, Mounted
  <1> QED
    BY <1>13, <1>14, <1>15, <1>16, <1>17, <1>18, <1>20, <1>21, <1>22 DEF CallsInv

(* A repeated number is the number of the call whose reply is stored, in a *)
(* session that the client has had to itself.                              *)
LEMMA RepeatedCall ==
    ASSUME CallsInv, MaxGiveUps + 2 <= SEQ_MOD,
           NEW q \in Sent, q.cmd # "mount", q.sid \in Kept,
           q.seqno = sess[q.sid].lastseqno
    PROVE  Stored(q.sid).call = q.call
  <1>1. /\ calls \in Nat /\ Settled \in Int /\ q.sid \in Live
        /\ Stored(q.sid).call \in Nat /\ q.call \in Nat
    BY Types DEF CallsInv
  <1>2. /\ q.call # 0 /\ q.call <= calls /\ q.seqno = SeqnoOf(q.call)
        /\ Stored(q.sid).call # 0
        /\ Stored(q.sid).seqno = SeqnoOf(Stored(q.sid).call)
        /\ Settled <= Stored(q.sid).call
        /\ Stored(q.sid).call <= q.call
        /\ sess[q.sid].lastseqno = Stored(q.sid).seqno
    BY <1>1 DEF CallsInv, RequestsOK, RepliesOK, ReplyOK, StoredOK, StoredIsFresh,
       InOrder
  <1> QED
    BY <1>1, <1>2, NumberIsOfCall

(* A request that the handlers of a session see is answered as Answered    *)
(* says, or does nothing.                                                  *)
LEMMA HandleAnswers ==
    ASSUME CallsInv, MaxGiveUps + 2 <= SEQ_MOD,
           NEW q \in Range(requests), q.cmd # "mount", q.sid \in Live, Handle(q),
           strayed' = IF sess[q.sid].owner = "client" THEN strayed
                      ELSE strayed \cup {q.call}
    PROVE  \/ UNCHANGED <<replies, sess, executed>>
           \/ \E r \in Reply : Answered(q, r)
  <1>1. /\ q \in Sent /\ q \in Request /\ q.sid \in Sids /\ q.call <= calls
        /\ sess[q.sid] \in Session /\ Stored(q.sid) \in Reply
    BY Types DEF CallsInv, RequestsOK, Sent
  <1>2. /\ sess \in [Sids -> Session \cup {NoSession}]
        /\ executed \in Seq(1 .. MaxCalls)
        /\ q.call \in 1 .. MaxCalls
    BY <1>1, RetransmitConstants DEF CallsInv, TypeOK, Request, RequestsOK
  <1>3. Range(Append(executed, q.call)) = Range(executed) \cup {q.call}
    <2> DEFINE Numbers == 1 .. MaxCalls
    <2>1. executed \in Seq(Numbers) /\ q.call \in Numbers
      BY <1>2
    <2> HIDE DEF Numbers
    <2> QED
      BY <2>1, LatestAdded
  <1>4. strayed \subseteq strayed' /\ (q.call \notin strayed' => q.sid \in Kept)
    BY <1>1 DEF Live, Kept
  <1>5. CASE q.seqno = sess[q.sid].lastseqno /\ DoResend(q)
    <2> DEFINE m == Stored(q.sid)
               r == [sid |-> m.sid, seqno |-> m.seqno, status |-> m.status,
                     call |-> q.call, of |-> m.of]
    <2>1. /\ r \in Reply /\ r.call = q.call /\ r.seqno = m.seqno
          /\ r.status = m.status /\ r.of = m.of
      BY <1>1 DEF Reply, Request
    <2>2. replies' = Append(replies, r) /\ sess' = sess /\ executed' = executed
      BY <1>5 DEF DoResend, Transmit, Stored
    <2> HIDE DEF r
    <2>3. r.seqno = q.seqno /\ r.of <= calls
      BY <1>5, <2>1 DEF CallsInv, StoredOK
    <2>4. q.sid \in Kept => m.call = q.call
      BY <1>1, <1>5, RepeatedCall
    <2>5. q.call \notin strayed' => /\ r.of = q.call
                                    /\ r.status = "ok" => q.call \in Range(executed)
      <3> SUFFICES ASSUME q.call \notin strayed'
                   PROVE  /\ r.of = q.call
                          /\ r.status = "ok" => q.call \in Range(executed)
        OBVIOUS
      <3>1. q.sid \in Kept /\ ReplyOK(m) /\ m.call = q.call /\ m.call \notin strayed
        BY <1>4, <2>4 DEF CallsInv, RepliesOK
      <3> QED
        BY <2>1, <3>1 DEF ReplyOK
    <2>6. Live' = Live /\ Kept' = Kept /\ \A sid \in Live : sess'[sid] = sess[sid]
      BY <2>2 DEF Live, Kept
    <2>7. q.sid \in Kept' => sess'[q.sid].lastmsg.call = q.call
      BY <2>2, <2>4, <2>6 DEF Stored
    <2>8. q.cmd = "umount" /\ q.call = calls => q.sid \notin Kept
      <3> SUFFICES ASSUME q.cmd = "umount", q.call = calls, q.sid \in Kept
                   PROVE  FALSE
        OBVIOUS
      <3>1. q = request
        BY <1>1 DEF CallsInv, RequestsOK, Sent
      <3> QED
        BY <2>4, <3>1 DEF CallsInv, UmountNotStored
    <2>9. Answered(q, r)
      BY <1>4, <2>1, <2>2, <2>3, <2>5, <2>6, <2>7, <2>8 DEF Answered
    <2> QED
      BY <2>1, <2>9
  <1>6. CASE q.cmd = "umount" /\ DoUmount(q)
    <2> DEFINE r == Answer(q, q.sid, "ok")
    <2>1. r \in Reply /\ r.call = q.call /\ r.seqno = q.seqno /\ r.of = q.call
      BY <1>1, AnswerIsReply DEF Answer
    <2>2. /\ replies' = Append(replies, r)
          /\ sess' = [sess EXCEPT ![q.sid] = NoSession]
          /\ executed' = Append(executed, q.call)
      BY <1>6 DEF DoUmount, Transmit
    <2> HIDE DEF r
    <2>3. /\ sess'[q.sid] = NoSession
          /\ \A s \in Live' : s \in Live /\ sess'[s] = sess[s]
      BY <1>1, <1>2, <2>2 DEF Live
    <2>4. q.sid \notin Kept' /\ ~ Mounted(q.sid)'
      BY <2>3 DEF Kept, Mounted
    <2>5. Answered(q, r)
      BY <1>1, <1>3, <1>4, <1>6, <2>1, <2>2, <2>3, <2>4 DEF Answered
    <2> QED
      BY <2>1, <2>5
  <1>7. CASE q.cmd = "read" /\ DoRead(q)
    <2> DEFINE r == Answer(q, q.sid, "ok")
    <2>1. r \in Reply /\ r.call = q.call /\ r.seqno = q.seqno /\ r.of = q.call
      BY <1>1, AnswerIsReply DEF Answer
    <2>2. /\ replies' = Append(replies, r)
          /\ sess' = [sess EXCEPT ![q.sid] = NewSession(sess[q.sid].owner, r)]
          /\ executed' = Append(executed, q.call)
      BY <1>7 DEF DoRead, Transmit
    <2> HIDE DEF r
    <2>3. /\ sess'[q.sid].lastmsg = r /\ sess'[q.sid].lastseqno = r.seqno
          /\ \A s \in Sids : s # q.sid => sess'[s] = sess[s]
      BY <1>1, <1>2, <2>2 DEF NewSession
    <2>4. \A s \in Live' :
             \/ s \in Live /\ sess'[s] = sess[s]
             \/ sess'[s].lastmsg = r /\ sess'[s].lastseqno = r.seqno
      BY <2>3 DEF Live
    <2>5. Answered(q, r)
      BY <1>1, <1>3, <1>4, <1>7, <2>1, <2>2, <2>3, <2>4 DEF Answered
    <2> QED
      BY <2>1, <2>5
  <1> QED
    BY <1>5, <1>6, <1>7 DEF Handle, DoChmod

(* Every request in flight is answered as Answered says, or does nothing.  *)
LEMMA DecodeAnswers ==
    ASSUME CallsInv, MaxGiveUps + 2 <= SEQ_MOD,
           NEW q \in Range(requests), Decode(q)
    PROVE  \/ UNCHANGED <<replies, sess, executed>> /\ strayed \subseteq strayed'
           \/ \E r \in Reply : Answered(q, r)
  <1>1. /\ q \in Sent /\ q \in Request /\ q.call <= calls
        /\ q.cmd # "mount" => q.sid \in Sids
        /\ sess \in [Sids -> Session \cup {NoSession}]
    BY Types DEF CallsInv, RequestsOK, Sent, TypeOK
  <1>2. CASE UNCHANGED <<replies, serverVars>>
    BY <1>2 DEF serverVars
  <1>3. CASE /\ q.cmd = "mount" /\ DoMount(q)
             /\ ~ UNCHANGED <<replies, serverVars>>
    <2>1. PICK sid \in Sids :
             /\ sess' = [sess EXCEPT ![sid] =
                           NewSession("client", Answer(q, sid, "mounted"))]
             /\ replies' = Append(replies, Answer(q, sid, "mounted"))
             /\ executed' = executed /\ strayed' = strayed
      BY <1>3 DEF DoMount, Transmit, MountSids, OfAddress
    <2> DEFINE r == Answer(q, sid, "mounted")
    <2>2. /\ r \in Reply /\ r.call = q.call /\ r.seqno = q.seqno
          /\ r.status = "mounted" /\ r.sid = sid /\ r.of = q.call
      BY <1>1, AnswerIsReply DEF Answer
    <2> HIDE DEF r
    <2>3. /\ sess' = [sess EXCEPT ![sid] = NewSession("client", r)]
          /\ replies' = Append(replies, r)
      BY <2>1 DEF r
    <2>4. /\ sess'[sid].lastmsg = r /\ sess'[sid].lastseqno = r.seqno
          /\ \A s \in Sids : s # sid => sess'[s] = sess[s]
      BY <1>1, <2>3 DEF NewSession
    <2>5. \A s \in Live' :
             \/ s \in Live /\ sess'[s] = sess[s]
             \/ sess'[s].lastmsg = r /\ sess'[s].lastseqno = r.seqno
      BY <2>4 DEF Live
    <2>6. Answered(q, r)
      BY <1>1, <1>3, <2>1, <2>2, <2>3, <2>4, <2>5 DEF Answered
    <2> QED
      BY <2>2, <2>6
  <1>4. CASE q.cmd # "mount" /\ q.sid \notin Live /\ DoBadSession(q)
    <2> DEFINE r == Answer(q, NoSid, "badsession")
    <2>1. /\ r \in Reply /\ r.call = q.call /\ r.seqno = q.seqno
          /\ r.status = "badsession" /\ r.of = q.call
      BY <1>1, AnswerIsReply DEF Answer
    <2>2. /\ replies' = Append(replies, r) /\ sess' = sess
          /\ executed' = executed /\ strayed' = strayed
      BY <1>4 DEF DoBadSession, Transmit, serverVars
    <2> HIDE DEF r
    <2>3. /\ Live' = Live /\ q.sid \notin Kept' /\ ~ Mounted(q.sid)'
      BY <1>1, <1>4, <2>2 DEF Live, Kept, Mounted
    <2>4. Answered(q, r)
      BY <1>1, <1>4, <2>1, <2>2, <2>3 DEF Answered
    <2> QED
      BY <2>1, <2>4
  <1>5. CASE /\ q.cmd # "mount" /\ q.sid \in Live /\ Handle(q)
             /\ strayed' = IF sess[q.sid].owner = "client" THEN strayed
                           ELSE strayed \cup {q.call}
    BY <1>5, HandleAnswers
  <1> QED
    BY <1>1, <1>2, <1>3, <1>4, <1>5, RetransmitConstants DEF Decode, Live

(* The server receives the oldest request in flight.                       *)
LEMMA ServerReceiveKeepsInv ==
    ASSUME CallsInv, TypeOK', ~ Reorder, MaxGiveUps + 2 <= SEQ_MOD,
           ServerReceive
    PROVE  CallsInv'
  <1>1. /\ 1 \in DOMAIN requests /\ requests' = RemoveAt(requests, 1)
        /\ Decode(requests[1]) /\ UNCHANGED clientVars
    BY DEF ServerReceive, Deliverable
  <1> DEFINE q == requests[1]
  <1>2. requests \in Seq(Request) /\ Ordered(requests)
    BY DEF CallsInv, TypeOK, InOrder
  <1>3. /\ q \in Range(requests) /\ Decode(q)
        /\ Range(requests') \subseteq Range(requests) /\ Ordered(requests')
    BY <1>1, <1>2, FewerLeft DEF Range
  <1>4. \A p \in Range(requests) : q.call <= p.call
    BY <1>1, <1>2, FirstIsOldest
  <1> HIDE DEF q
  <1>5. CASE UNCHANGED <<replies, sess, executed>> /\ strayed \subseteq strayed'
    <2>1. /\ Range(requests') \subseteq Sent
          /\ \A p \in Range(requests') : p.call # 0
          /\ Range(replies') \subseteq Range(replies) /\ Ordered(replies')
      BY <1>3, <1>5 DEF CallsInv, RequestsOK, InOrder, Sent
    <2> QED
      BY <1>1, <1>3, <1>5, <2>1, MessagesMoved
  <1>6. CASE \E r \in Reply : Answered(q, r)
    BY <1>1, <1>3, <1>4, <1>6, AnsweredKeepsInv
  <1> QED
    BY <1>3, <1>5, <1>6, DecodeAnswers

(* The invariant holds of every step.                                      *)
LEMMA CallsInvStep ==
    ASSUME CallsInv, ~ Reorder, ~ UmountZero, MaxGiveUps + 2 <= SEQ_MOD,
           [Next]_vars
    PROVE  CallsInv'
  <1>1. TypeOK'
    BY TypeStep DEF CallsInv, RequestsOK, NamedCalls
  <1>2. /\ requests \in Seq(Request) /\ replies \in Seq(Reply)
        /\ Ordered(requests) /\ Ordered(replies)
        /\ request \in Request /\ request.call \in Nat
        /\ \A q \in Range(requests) : q.call # 0 /\ q.call <= request.call
    BY Types DEF CallsInv, TypeOK, InOrder, RequestsOK, Sent
  <1>3. CASE Call
    BY <1>1, <1>3, CallKeepsInv
  <1>4. CASE Retry
    <2>1. /\ requests' = Append(requests, request) /\ request.call # 0
          /\ UNCHANGED <<clientVars, replies, sess, executed, strayed>>
      BY <1>4 DEF Retry, Send, CallsInv, RequestsOK, serverVars
    <2>2. /\ Range(requests') = Range(requests) \cup {request}
          /\ Ordered(requests')
      BY <1>2, <2>1, LatestAdded
    <2>3. Range(replies') \subseteq Range(replies) /\ Ordered(replies')
      BY <1>2, <2>1
    <2> QED
      BY <1>1, <1>2, <2>1, <2>2, <2>3, MessagesMoved DEF Sent
  <1>5. CASE GiveUp
    BY <1>1, <1>5, GiveUpKeepsInv
  <1>6. CASE ClientReceive
    BY <1>1, <1>6, ClientReceiveKeepsInv
  <1>7. CASE Lose \/ Duplicate
    <2>1. /\ Range(requests') \subseteq Range(requests) /\ Ordered(requests')
          /\ Range(replies') \subseteq Range(replies) /\ Ordered(replies')
          /\ UNCHANGED <<clientVars, sess, executed, strayed>>
      BY <1>2, <1>7, FewerLeft, CopyAdded DEF Lose, Duplicate, serverVars
    <2> QED
      BY <1>1, <1>2, <2>1, MessagesMoved DEF Sent
  <1>8. CASE ServerReceive
    BY <1>1, <1>8, ServerReceiveKeepsInv
  <1>9. CASE ExpireAny
    BY <1>1, <1>9, ExpireKeepsInv
  <1>10. CASE OthersAct
    BY <1>1, <1>10, OthersKeepInv
  <1>11. CASE UNCHANGED vars
    <2>1. /\ Range(requests') \subseteq Range(requests) /\ Ordered(requests')
          /\ Range(replies') \subseteq Range(replies) /\ Ordered(replies')
          /\ UNCHANGED <<clientVars, sess, executed, strayed>>
      BY <1>2, <1>11 DEF vars, serverVars
    <2> QED
      BY <1>1, <1>2, <2>1, MessagesMoved DEF Sent
  <1> QED
    BY <1>3, <1>4, <1>5, <1>6, <1>7, <1>8, <1>9, <1>10, <1>11 DEF Next, Finished

-----------------------------------------------------------------------------
(* The theorems. *)

(* Initially nothing was called, sent or stored.                           *)
LEMMA CallsInvInit ==
    ASSUME Init
    PROVE  CallsInv
  <1>1. Range(requests) = {} /\ Range(replies) = {} /\ Range(executed) = {}
    BY DEF Init, Range
  <1>2. Live = {} /\ Kept = {} /\ Sent = {request} /\ Settled = 0
    <2>1. Live = {} /\ Kept = {}
      BY DEF Init, Live, Kept
    <2>2. Sent = {request}
      BY <1>1 DEF Sent
    <2>3. Settled = 0
      <3> DEFINE w == IF waiting THEN 1 ELSE 0
      <3>1. calls = 0 /\ givenUp = 0 /\ w = 0
        BY DEF Init
      <3>2. Settled = calls - givenUp - w
        BY DEF Settled
      <3> HIDE DEF w
      <3> QED
        BY <3>1, <3>2
    <2> QED
      BY <2>1, <2>2, <2>3
  <1>3. TypeOK
    <2>1. /\ 0 \in 0 .. MaxCalls /\ 0 \in 0 .. MaxGiveUps
          /\ 0 \in 0 .. SEQ_MOD - 1 /\ 0 \in 0 .. MaxMoves
      BY RetransmitConstants
    <2>2. request \in Request /\ answer \in [call : 0 .. MaxCalls,
                  status : {"none", "ok", "mounted", "badsession"}]
      BY <2>1 DEF Init, Request
    <2>3. requests \in Seq(Request) /\ replies \in Seq(Reply)
      BY DEF Init
    <2>4. executed \in Seq(1 .. MaxCalls)
      BY DEF Init
    <2> QED
      BY <2>1, <2>2, <2>3, <2>4 DEF Init, TypeOK
  <1>4. RequestsOK /\ RepliesOK /\ StoredOK
    BY <1>1, <1>2 DEF Init, RequestsOK, RepliesOK, StoredOK
  <1>5. InOrder
    BY <1>1, <1>2 DEF Init, InOrder, Ordered
  <1>6. StoredIsFresh /\ RepeatIsKnown /\ AnswerIsStored /\ UmountNotStored
    BY <1>1, <1>2, RetransmitConstants
       DEF Init, StoredIsFresh, RepeatIsKnown, AnswerIsStored, UmountNotStored
  <1>7. UmountAnswered
    BY <1>1 DEF UmountAnswered
  <1> QED
    BY <1>3, <1>4, <1>5, <1>6, <1>7 DEF CallsInv

(* Over a network that keeps the order, numbers, stored replies and calls  *)
(* stay related as CallsInv says, whatever other clients do.               *)
THEOREM CallsInvariant ==
    ASSUME ~ Reorder, ~ UmountZero, MaxGiveUps + 2 <= SEQ_MOD
    PROVE  Spec => []CallsInv
  <1>1. Init => CallsInv
    BY CallsInvInit
  <1>2. CallsInv /\ [Next]_vars => CallsInv'
    BY CallsInvStep
  <1> QED
    BY <1>1, <1>2, PTL DEF Spec

(* A request that has its call executed comes after all the others that    *)
(* were executed, and unless it strays it was not executed itself.         *)
LEMMA ExecutesNext ==
    ASSUME CallsInv, MaxGiveUps + 2 <= SEQ_MOD,
           NEW q \in Range(requests), Decode(q), executed' # executed
    PROVE  /\ executed' = Append(executed, q.call)
           /\ \A k \in DOMAIN executed : executed[k] <= q.call
           /\ strayed' = strayed => \/ \A k \in DOMAIN executed : executed[k] < q.call
                                    \/ q.call \in strayed
  <1>1. /\ q \in Sent /\ q.cmd # "mount" /\ q.sid \in Live
        /\ q.seqno # sess[q.sid].lastseqno
        /\ executed' = Append(executed, q.call)
        /\ strayed' = IF sess[q.sid].owner = "client" THEN strayed
                      ELSE strayed \cup {q.call}
    BY DEF Decode, Handle, DoMount, DoBadSession, DoResend, DoUmount, DoChmod,
       DoRead, serverVars, Sent, Live, CallsInv, RequestsOK
  <1>2. q.call \in Nat /\ Range(executed) \subseteq Nat
    BY <1>1, Types DEF CallsInv
  <1>3. \A k \in DOMAIN executed : executed[k] \in Range(executed)
    BY DEF Range
  <1>4. \A k \in DOMAIN executed : executed[k] <= q.call
    BY <1>1, <1>3 DEF CallsInv, InOrder
  <1>5. ASSUME q.sid \in Kept
        PROVE  q.call \notin Range(executed)
    <2> SUFFICES ASSUME q.call \in Range(executed) PROVE FALSE
      OBVIOUS
    <2>1. Stored(q.sid).call = q.call
      BY <1>1, <1>5 DEF CallsInv, RepeatIsKnown
    <2>2. /\ sess[q.sid].lastseqno = Stored(q.sid).seqno
          /\ Stored(q.sid).seqno = SeqnoOf(Stored(q.sid).call)
          /\ q.call # 0 /\ q.seqno = SeqnoOf(q.call)
      BY <1>1, <1>5 DEF CallsInv, RequestsOK, RepliesOK, ReplyOK, StoredOK
    <2> QED
      BY <1>1, <2>1, <2>2
  <1>6. q.sid \in Kept => \A k \in DOMAIN executed : executed[k] < q.call
    BY <1>2, <1>3, <1>4, <1>5
  <1>7. strayed' = strayed => q.sid \in Kept \/ q.call \in strayed
    BY <1>1 DEF Kept, Live
  <1> QED
    BY <1>1, <1>4, <1>6, <1>7

(* Where a request is decoded decides whether its call strays.             *)
LEMMA StraysOrNot ==
    ASSUME NEW q, Decode(q)
    PROVE  strayed' = strayed \/ strayed' = strayed \cup {q.call}
  BY DEF Decode, DoMount, DoBadSession, serverVars

(* Every step of the protocol is a step of Calls, or changes nothing there.*)
LEMMA CallsStep ==
    ASSUME CallsInv, ~ Reorder, MaxGiveUps + 2 <= SEQ_MOD, [Next]_vars
    PROVE  [C!Next]_(C!callVars)
  <1>1. CASE Call
    BY <1>1 DEF Call, serverVars, C!Next, C!Call
  <1>2. CASE GiveUp
    BY <1>2 DEF GiveUp, serverVars, C!Next, C!GiveUp
  <1>3. CASE ClientReceive
    <2>1. /\ 1 \in DOMAIN replies
          /\ IF Accepted(replies[1])
             THEN /\ waiting' = FALSE
                  /\ answer' = [call |-> replies[1].of, status |-> replies[1].status]
             ELSE UNCHANGED <<waiting, answer>>
          /\ UNCHANGED <<calls, executed, strayed>>
      BY <1>3 DEF ClientReceive, Deliverable, serverVars
    <2> DEFINE r == replies[1]
    <2>2. r \in Range(replies)
      BY <2>1 DEF Range
    <2>3. CASE ~ Accepted(r)
      BY <2>1, <2>3 DEF C!callVars
    <2>4. CASE Accepted(r)
      <3>1. /\ r.call = calls /\ r.status \in {"ok", "mounted", "badsession"}
            /\ r.of \in Nat /\ calls \in Nat
        BY <2>2, <2>4, AcceptedIsCurrent, Types DEF CallsInv, Reply
      <3>2. waiting /\ ~ waiting'
        BY <2>1, <2>4 DEF Accepted
      <3>3. answer' = [call |-> r.of, status |-> r.status]
        BY <2>1, <2>4
      <3>4. CASE calls \in strayed
        <4>1. r.of \in 0 .. calls
          BY <2>2, <3>1 DEF CallsInv, StoredOK
        <4>2. answer' \in [call : 0 .. calls, status : {"ok", "mounted", "badsession"}]
          BY <3>1, <3>3, <4>1
        <4> QED
          BY <2>1, <3>2, <3>4, <4>2 DEF C!Next, C!Return
      <3>5. CASE calls \notin strayed
        <4>1. r.of = calls /\ (r.status = "ok" => calls \in Range(executed))
          BY <2>2, <3>1, <3>5 DEF CallsInv, RepliesOK, ReplyOK
        <4>2. r.status = "ok" => \E k \in DOMAIN executed : executed[k] = calls
          BY <4>1 DEF Range
        <4> QED
          BY <2>1, <3>1, <3>2, <3>3, <4>1, <4>2 DEF C!Next, C!Return
      <3> QED
        BY <3>4, <3>5
    <2> QED
      BY <2>3, <2>4
  <1>4. CASE ServerReceive
    <2>1. /\ 1 \in DOMAIN requests /\ Decode(requests[1])
          /\ UNCHANGED <<calls, waiting, answer>>
      BY <1>4 DEF ServerReceive, Deliverable, clientVars
    <2> DEFINE q == requests[1]
    <2>2. q \in Range(requests)
      BY <2>1 DEF Range
    <2>3. q.call \in 1 .. calls
      <3>1. q \in Sent
        BY <2>2 DEF Sent
      <3>2. q.call \in Nat /\ calls \in Nat
        BY <3>1, Types DEF CallsInv
      <3>3. q.call # 0 /\ q.call <= calls
        BY <2>2, <3>1 DEF CallsInv, RequestsOK
      <3> QED
        BY <3>2, <3>3
    <2>4. /\ Decode(q)
          /\ strayed' = strayed \/ strayed' = strayed \cup {q.call}
      BY <2>1, StraysOrNot
    <2>5. executed' # executed =>
             /\ executed' = Append(executed, q.call)
             /\ \A k \in DOMAIN executed : executed[k] <= q.call
             /\ strayed' = strayed =>
                   \/ \A k \in DOMAIN executed : executed[k] < q.call
                   \/ q.call \in strayed
      BY <2>2, <2>4, ExecutesNext
    <2> HIDE DEF q
    <2>6. CASE strayed' = strayed \cup {q.call}
      <3>1. \/ UNCHANGED executed
            \/ /\ \A k \in DOMAIN executed : executed[k] <= q.call
               /\ executed' = Append(executed, q.call)
        BY <2>5
      <3>2. C!Stray
        BY <2>1, <2>3, <2>6, <3>1 DEF C!Stray
      <3> QED
        BY <3>2 DEF C!Next
    <2>7. CASE strayed' = strayed /\ q.call \notin strayed
      <3>1. CASE executed' = executed
        BY <2>1, <2>7, <3>1 DEF C!callVars
      <3>2. CASE executed' # executed
        BY <2>1, <2>3, <2>5, <2>7, <3>2 DEF C!Next, C!Execute
      <3> QED
        BY <3>1, <3>2
    <2>8. q.call \in strayed /\ strayed' = strayed => strayed' = strayed \cup {q.call}
      OBVIOUS
    <2> QED
      BY <2>4, <2>6, <2>7, <2>8
  <1>5. CASE OthersAct
    <2>1. UNCHANGED <<clientVars, executed, strayed>>
      BY <1>5, OthersTypes DEF CallsInv
    <2> QED
      BY <2>1 DEF clientVars, C!callVars
  <1>6. CASE Retry \/ Lose \/ Duplicate \/ ExpireAny \/ UNCHANGED vars
    BY <1>6 DEF Retry, Lose, Duplicate, ExpireAny, Expire, vars, clientVars,
       serverVars, C!callVars
  <1> QED
    BY <1>1, <1>2, <1>3, <1>4, <1>5, <1>6 DEF Next, Finished

(* Over a network that loses and duplicates datagrams but keeps their      *)
(* order, sequence numbers and the stored reply give each client what      *)
(* Calls promises, if it gives up fewer calls in a row than numbers allow: *)
(* only a call that strays, into a session that another client made or     *)
(* used, is executed again or answered with what was made for another.     *)
THEOREM RetransmitImplementsCalls ==
    ASSUME ~ Reorder, ~ UmountZero, MaxGiveUps + 2 <= SEQ_MOD
    PROVE  Spec => ImplementsCalls
  <1>1. Init => C!Init
    BY DEF Init, C!Init
  <1>2. CallsInv /\ [Next]_vars => [C!Next]_(C!callVars)
    BY CallsStep
  <1> QED
    BY <1>1, <1>2, CallsInvariant, PTL DEF Spec, ImplementsCalls, C!Spec

(* A client that is told that its UMOUNT succeeded, or that its session is *)
(* unknown, has left no session behind, unless the UMOUNT strayed.         *)
THEOREM UmountIsComplete ==
    ASSUME ~ Reorder, ~ UmountZero, MaxGiveUps + 2 <= SEQ_MOD
    PROVE  Spec => UmountCloses
  <1>1. ASSUME CallsInv, [Next]_vars,
               waiting, ~ waiting', givenUp' = 0, request.cmd = "umount"
        PROVE  request.call \in strayed \/ ~ Mounted(request.sid)
    <2>1. ~ Call /\ ~ GiveUp
      <3>1. givenUp \in Nat
        BY <1>1, Types DEF CallsInv
      <3>2. ~ GiveUp
        BY <1>1, <3>1 DEF GiveUp
      <3>3. ~ Call
        BY <1>1 DEF Call
      <3> QED
        BY <3>2, <3>3
    <2>2. ClientReceive
      <3>1. waiting' # waiting
        BY <1>1
      <3>2. ~ OthersAct
        BY <1>1, <3>1, OthersTypes DEF CallsInv, clientVars
      <3> QED
        BY <1>1, <2>1, <3>1, <3>2 DEF Next, Finished, Retry, Lose, Duplicate,
           ServerReceive, ExpireAny, Expire, vars, clientVars
    <2>3. 1 \in DOMAIN replies /\ Accepted(replies[1])
      BY <1>1, <2>2 DEF ClientReceive, Deliverable
    <2>4. replies[1] \in Range(replies)
      BY <2>3 DEF Range
    <2>5. replies[1].call = calls
      BY <1>1, <2>3, <2>4, AcceptedIsCurrent
    <2> QED
      BY <1>1, <2>4, <2>5 DEF CallsInv, UmountAnswered, RequestsOK
  <1>2. CallsInv /\ [Next]_vars =>
          [waiting /\ ~ waiting' /\ givenUp' = 0 /\ request.cmd = "umount"
             => request.call \in strayed \/ ~ Mounted(request.sid)]_vars
    BY <1>1
  <1> QED
    BY <1>2, CallsInvariant, PTL DEF Spec, UmountCloses

(* The calls are executed in the order in which they were made, and only   *)
(* one that strayed more than once.                                        *)
OnlyStraysRepeat ==
    \A j, k \in DOMAIN executed :
        j < k => \/ executed[j] < executed[k]
                 \/ executed[j] = executed[k] /\ executed[j] \in strayed

(* A step keeps it so.                                                     *)
LEMMA OnlyStraysRepeatStep ==
    ASSUME CallsInv, OnlyStraysRepeat, ~ Reorder, MaxGiveUps + 2 <= SEQ_MOD,
           [Next]_vars
    PROVE  OnlyStraysRepeat'
  <1>1. strayed \subseteq strayed' /\ (executed' # executed => ServerReceive)
    <2>1. CASE ServerReceive
      <3>1. PICK k \in DOMAIN requests : Decode(requests[k])
        BY <2>1 DEF ServerReceive, Deliverable
      <3> QED
        BY <2>1, <3>1, StraysOrNot
    <2>2. CASE OthersAct
      BY <2>2, OthersTypes DEF CallsInv
    <2>3. CASE ~ ServerReceive /\ ~ OthersAct
      BY <2>3 DEF Next, Finished, Call, Retry, GiveUp, ClientReceive, Lose,
         Duplicate, ExpireAny, Expire, vars, serverVars
    <2> QED
      BY <2>1, <2>2, <2>3
  <1>2. CASE executed' = executed
    BY <1>1, <1>2 DEF OnlyStraysRepeat
  <1>3. CASE executed' # executed
    <2>1. 1 \in DOMAIN requests /\ Decode(requests[1])
      BY <1>1, <1>3 DEF ServerReceive, Deliverable
    <2> DEFINE n == requests[1].call
    <2>2. requests[1] \in Range(requests)
      BY <2>1 DEF Range
    <2>3. /\ executed' = Append(executed, n)
          /\ \A k \in DOMAIN executed : executed[k] <= n
          /\ strayed' = strayed => \/ \A k \in DOMAIN executed : executed[k] < n
                                   \/ n \in strayed
      BY <1>3, <2>1, <2>2, ExecutesNext
    <2>4. strayed' = strayed \/ n \in strayed'
      BY <2>1, StraysOrNot
    <2>5. n \in Nat
      BY <2>2, Types DEF CallsInv, Sent
    <2> HIDE DEF n
    <2>6. executed \in Seq(1 .. MaxCalls) /\ Range(executed) \subseteq Nat
      BY Types DEF CallsInv, TypeOK
    <2>7. /\ Len(executed) \in Nat
          /\ DOMAIN executed = 1 .. Len(executed)
          /\ DOMAIN executed' = 1 .. Len(executed) + 1
          /\ \A k \in 1 .. Len(executed) : executed'[k] = executed[k]
          /\ executed'[Len(executed) + 1] = n
      BY <2>3, <2>6
    <2>8. \A k \in DOMAIN executed :
             executed[k] < n \/ (executed[k] = n /\ n \in strayed')
      <3> SUFFICES ASSUME NEW k \in DOMAIN executed, ~ executed[k] < n
                   PROVE  executed[k] = n /\ n \in strayed'
        OBVIOUS
      <3>1. executed[k] \in Nat
        BY <2>6 DEF Range
      <3> QED
        BY <1>1, <2>3, <2>4, <2>5, <3>1
    <2> SUFFICES ASSUME NEW j \in DOMAIN executed', NEW k \in DOMAIN executed', j < k
                 PROVE  \/ executed'[j] < executed'[k]
                        \/ executed'[j] = executed'[k] /\ executed'[j] \in strayed'
      BY DEF OnlyStraysRepeat
    <2>9. CASE k = Len(executed) + 1
      BY <2>7, <2>8, <2>9
    <2>10. CASE k # Len(executed) + 1
      BY <1>1, <2>7, <2>10 DEF OnlyStraysRepeat
    <2> QED
      BY <2>9, <2>10
  <1> QED
    BY <1>2, <1>3

(* Calls are executed in their order, and those that keep to the client's  *)
(* own sessions only once, whatever is lost, duplicated or retried.        *)
THEOREM CallsExecuteInOrder ==
    ASSUME ~ Reorder, ~ UmountZero, MaxGiveUps + 2 <= SEQ_MOD
    PROVE  Spec => []OnlyStraysRepeat
  <1>1. Init => OnlyStraysRepeat
    BY DEF Init, OnlyStraysRepeat
  <1>2. CallsInv /\ OnlyStraysRepeat /\ [Next]_vars => OnlyStraysRepeat'
    BY OnlyStraysRepeatStep
  <1> QED
    BY <1>1, <1>2, CallsInvariant, PTL DEF Spec

(* Every session is this client's own, and no call ever strayed.           *)
Alone ==
    /\ \A sid \in Sids : sess[sid] # NoSession => sess[sid].owner = "client"
    /\ strayed = {} /\ nsids = {}

(* Without other clients it stays so.                                      *)
LEMMA StaysAlone ==
    ASSUME TypeOK, Alone, Others = {}, [Next]_vars
    PROVE  Alone'
  <1>1. CASE ServerReceive
    <2>1. PICK k \in DOMAIN requests : Decode(requests[k])
      BY <1>1 DEF ServerReceive, Deliverable
    <2> DEFINE q == requests[k]
    <2>2. nsids' = nsids
      BY <1>1 DEF ServerReceive, otherVars
    <2>3. /\ sess \in [Sids -> Session \cup {NoSession}]
          /\ q.sid \in Sids \cup {NoSid}
      <3>1. requests \in Seq(Request) /\ sess \in [Sids -> Session \cup {NoSession}]
        BY DEF TypeOK
      <3>2. q \in Request
        BY <2>1, <3>1
      <3> QED
        BY <3>1, <3>2 DEF Request
    <2>4. Decode(q)
      BY <2>1
    <2> HIDE DEF q
    <2>5. strayed' = {}
      BY <2>3, <2>4 DEF Decode, DoMount, DoBadSession, serverVars, Alone
    <2>6. \A sid \in Sids :
             \/ sess'[sid] = sess[sid] \/ sess'[sid] = NoSession
             \/ sess'[sid].owner = "client"
      BY <2>3, <2>4 DEF Decode, Handle, DoMount, DoBadSession, DoResend, DoUmount,
         DoChmod, DoRead, NewSession, serverVars, Alone
    <2> QED
      BY <2>2, <2>5, <2>6 DEF Alone
  <1>2. CASE OthersAct
    BY <1>2 DEF OthersAct, NeighbourMount, NeighbourUse, StrangerMount, Alone
  <1>3. CASE ExpireAny
    <2>1. PICK gone \in Sids : sess' = [sess EXCEPT ![gone] = NoSession]
      BY <1>3 DEF ExpireAny, Expire
    <2>2. UNCHANGED <<strayed, nsids>>
      BY <1>3 DEF ExpireAny, Expire, otherVars
    <2>3. \A sid \in Sids : sess'[sid] = sess[sid] \/ sess'[sid] = NoSession
      BY <2>1 DEF TypeOK
    <2> QED
      BY <2>2, <2>3 DEF Alone
  <1>4. CASE ~ ServerReceive /\ ~ OthersAct /\ ~ ExpireAny
    BY <1>4 DEF Next, Finished, Call, Retry, GiveUp, ClientReceive, Lose,
       Duplicate, vars, serverVars, otherVars, Alone
  <1> QED
    BY <1>1, <1>2, <1>3, <1>4

(* So with one client no call is executed twice, which is what the numbers *)
(* are for. With others, or with a network that reorders, this is refuted: *)
(* see the run retransmit_shared and MCRetransmitReorder.cfg.              *)
THEOREM CallsExecuteOnce ==
    ASSUME ~ Reorder, ~ UmountZero, MaxGiveUps + 2 <= SEQ_MOD, Others = {}
    PROVE  Spec => []ExecutedOnce
  <1>1. Init => Alone
    BY DEF Init, Alone
  <1>2. CallsInv /\ Alone /\ [Next]_vars => Alone'
    BY StaysAlone DEF CallsInv
  <1>3. ASSUME CallsInv, OnlyStraysRepeat, Alone
        PROVE  ExecutedOnce
    <2>1. \A k \in DOMAIN executed : executed[k] \in Nat
      BY <1>3, Types DEF CallsInv, Range
    <2>2. DOMAIN executed \subseteq Nat
      BY <1>3 DEF CallsInv, TypeOK
    <2>3. strayed = {}
      BY <1>3 DEF Alone
    <2> QED
      BY <1>3, <2>1, <2>2, <2>3 DEF OnlyStraysRepeat, ExecutedOnce
  <1> QED
    BY <1>1, <1>2, <1>3, CallsInvariant, CallsExecuteInOrder, PTL DEF Spec
=============================================================================
