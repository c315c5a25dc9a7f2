--------------------------- MODULE Listing_proofs ---------------------------
(***************************************************************************)
(* Proofs about Listing, for every set of directories, every order of the  *)
(* characters and every size of a reply: that a listing has what is asked  *)
(* for, that the merge sort orders any list, and that READDIRX sends the   *)
(* entries one after the other without a gap. The recursive functions are  *)
(* shown to exist with the lemmas of Match_proofs.                         *)
(***************************************************************************)
EXTENDS Listing, Match_proofs, FiniteSetTheorems

-----------------------------------------------------------------------------
(* Lists. *)

(* Of two entries of s the first is before the other in R.                 *)
OrderedBy(s, R) == \A i, j \in DOMAIN s : i < j => <<s[i], s[j]>> \in R

(* The range of a list over X is in X.                                     *)
LEMMA RangeInSet ==
    ASSUME NEW X, NEW s \in Seq(X)
    PROVE  Range(s) \subseteq X
  BY DEF Range

(* A list is one over its range.                                           *)
LEMMA ListOverRange ==
    ASSUME NEW X, NEW s \in Seq(X), NEW Y, Range(s) \subseteq Y
    PROVE  s \in Seq(Y)
  <1>1. \A i \in 1 .. Len(s) : s[i] \in Y
    BY DEF Range
  <1> QED
    BY <1>1, SeqDef

(* The list after another.                                                 *)
LEMMA Joined ==
    ASSUME NEW X, NEW a \in Seq(X), NEW b \in Seq(X)
    PROVE  /\ a \o b \in Seq(X)
           /\ Len(a \o b) = Len(a) + Len(b)
           /\ \A i \in 1 .. Len(a) + Len(b) :
                 (a \o b)[i] = IF i <= Len(a) THEN a[i] ELSE b[i - Len(a)]
           /\ Range(a \o b) = Range(a) \cup Range(b)
  <1> DEFINE t == a \o b
  <1>1. /\ t \in Seq(X) /\ Len(t) = Len(a) + Len(b)
        /\ \A i \in 1 .. Len(a) + Len(b) :
              t[i] = IF i <= Len(a) THEN a[i] ELSE b[i - Len(a)]
    BY ConcatProperties
  <1>2. /\ Len(a) \in Nat /\ Len(b) \in Nat
        /\ DOMAIN a = 1 .. Len(a) /\ DOMAIN b = 1 .. Len(b)
    OBVIOUS
  <1> HIDE DEF t
  <1>3. DOMAIN t = 1 .. Len(a) + Len(b)
    BY <1>1
  <1>4. ASSUME NEW x \in Range(t) PROVE x \in Range(a) \cup Range(b)
    <2>1. PICK i \in DOMAIN t : x = t[i]
      BY <1>4 DEF Range
    <2>2. i <= Len(a) => i \in DOMAIN a /\ x = a[i]
      BY <1>1, <1>2, <1>3, <2>1
    <2>3. ~ i <= Len(a) => i - Len(a) \in DOMAIN b /\ x = b[i - Len(a)]
      BY <1>1, <1>2, <1>3, <2>1
    <2> QED
      BY <2>2, <2>3 DEF Range
  <1>5. ASSUME NEW x \in Range(a) PROVE x \in Range(t)
    <2>1. PICK i \in DOMAIN a : x = a[i]
      BY <1>5 DEF Range
    <2>2. i \in DOMAIN t /\ t[i] = x
      BY <1>1, <1>2, <1>3, <2>1
    <2> QED
      BY <2>2 DEF Range
  <1>6. ASSUME NEW x \in Range(b) PROVE x \in Range(t)
    <2>1. PICK i \in DOMAIN b : x = b[i]
      BY <1>6 DEF Range
    <2>2. /\ Len(a) + i \in DOMAIN t /\ ~ Len(a) + i <= Len(a)
          /\ (Len(a) + i) - Len(a) = i
      BY <1>2, <1>3
    <2>3. t[Len(a) + i] = x
      BY <1>1, <1>3, <2>1, <2>2
    <2> QED
      BY <2>2, <2>3 DEF Range
  <1>7. Range(t) = Range(a) \cup Range(b)
    BY <1>4, <1>5, <1>6
  <1> QED
    BY <1>1, <1>7 DEF t

(* An entry before a list.                                                 *)
LEMMA PutFirst ==
    ASSUME NEW X, NEW x \in X, NEW s \in Seq(X)
    PROVE  /\ <<x>> \o s \in Seq(X) /\ Len(<<x>> \o s) = 1 + Len(s)
           /\ Range(<<x>> \o s) = {x} \cup Range(s)
           /\ \A R : OrderedBy(s, R) /\ (\A e \in Range(s) : <<x, e>> \in R)
                        => OrderedBy(<<x>> \o s, R)
  <1> DEFINE t == <<x>> \o s
  <1>1. /\ <<x>> \in Seq(X) /\ Len(<<x>>) = 1 /\ <<x>>[1] = x
        /\ Range(<<x>>) = {x}
    BY DEF Range
  <1>2. /\ t \in Seq(X) /\ Len(t) = 1 + Len(s)
        /\ \A i \in 1 .. 1 + Len(s) : t[i] = IF i <= 1 THEN <<x>>[i] ELSE s[i - 1]
        /\ Range(t) = {x} \cup Range(s)
    <2> DEFINE w == <<x>>
    <2>1. /\ w \o s \in Seq(X) /\ Len(w \o s) = Len(w) + Len(s)
          /\ \A i \in 1 .. Len(w) + Len(s) :
                (w \o s)[i] = IF i <= Len(w) THEN w[i] ELSE s[i - Len(w)]
          /\ Range(w \o s) = Range(w) \cup Range(s)
      <3>1. w \in Seq(X)
        BY <1>1
      <3> HIDE DEF w
      <3> QED
        BY <3>1, Joined
    <2> QED
      BY <1>1, <2>1
  <1>3. /\ Len(s) \in Nat /\ DOMAIN s = 1 .. Len(s) /\ DOMAIN t = 1 .. 1 + Len(s)
        /\ t[1] = x
    BY <1>1, <1>2
  <1>4. ASSUME NEW i \in DOMAIN t, i # 1
        PROVE  i - 1 \in DOMAIN s /\ t[i] = s[i - 1]
    BY <1>2, <1>3, <1>4
  <1> HIDE DEF t
  <1>5. ASSUME NEW R, OrderedBy(s, R), \A e \in Range(s) : <<x, e>> \in R
        PROVE  OrderedBy(t, R)
    <2> SUFFICES ASSUME NEW i \in DOMAIN t, NEW j \in DOMAIN t, i < j
                 PROVE  <<t[i], t[j]>> \in R
      BY DEF OrderedBy
    <2>1. j # 1 /\ i \in Nat /\ j \in Nat
      BY <1>3
    <2>2. CASE i = 1
      BY <1>3, <1>4, <1>5, <2>1, <2>2 DEF Range
    <2>3. CASE i # 1
      <3>1. /\ i - 1 \in DOMAIN s /\ t[i] = s[i - 1]
            /\ j - 1 \in DOMAIN s /\ t[j] = s[j - 1]
        BY <1>4, <2>1, <2>3
      <3>2. i - 1 < j - 1
        BY <2>1
      <3> QED
        BY <1>5, <3>1, <3>2 DEF OrderedBy
    <2> QED
      BY <2>2, <2>3
  <1> QED
    BY <1>2, <1>5 DEF t

(* The first entry and the others.                                         *)
LEMMA TakenFirst ==
    ASSUME NEW X, NEW s \in Seq(X), s # <<>>
    PROVE  /\ Head(s) \in X /\ Tail(s) \in Seq(X) /\ Len(Tail(s)) = Len(s) - 1
           /\ Len(s) \in Nat \ {0}
           /\ Range(s) = {Head(s)} \cup Range(Tail(s))
           /\ \A R : OrderedBy(s, R) =>
                 /\ OrderedBy(Tail(s), R)
                 /\ \A e \in Range(Tail(s)) : <<Head(s), e>> \in R
  <1> DEFINE t == Tail(s)
  <1>1. /\ t \in Seq(X) /\ Len(t) = Len(s) - 1 /\ Len(s) \in Nat \ {0}
        /\ \A i \in 1 .. Len(s) - 1 : t[i] = s[i + 1]
        /\ Head(s) = s[1] /\ Head(s) \in X
    OBVIOUS
  <1> HIDE DEF t
  <1>2. DOMAIN s = 1 .. Len(s) /\ DOMAIN t = 1 .. Len(s) - 1
    BY <1>1
  <1>3. \A i \in DOMAIN t : i + 1 \in DOMAIN s /\ t[i] = s[i + 1] /\ 1 < i + 1
    BY <1>1, <1>2
  <1>4. 1 \in DOMAIN s
    BY <1>1, <1>2
  <1>5. Range(s) = {Head(s)} \cup Range(t)
    <2>1. ASSUME NEW x \in Range(s) PROVE x \in {Head(s)} \cup Range(t)
      <3>1. PICK i \in DOMAIN s : x = s[i]
        BY <2>1 DEF Range
      <3>2. CASE i = 1
        BY <1>1, <3>1, <3>2
      <3>3. CASE i # 1
        <4>1. i - 1 \in DOMAIN t /\ (i - 1) + 1 = i
          BY <1>1, <1>2, <3>3
        <4>2. t[i - 1] = x
          BY <1>3, <3>1, <4>1
        <4> QED
          BY <4>1, <4>2 DEF Range
      <3> QED
        BY <3>2, <3>3
    <2>2. Range(t) \subseteq Range(s)
      BY <1>3 DEF Range
    <2>3. Head(s) \in Range(s)
      BY <1>1, <1>4 DEF Range
    <2> QED
      BY <2>1, <2>2, <2>3
  <1>6. ASSUME NEW R, OrderedBy(s, R)
        PROVE  /\ OrderedBy(t, R)
               /\ \A e \in Range(t) : <<Head(s), e>> \in R
    <2>1. ASSUME NEW i \in DOMAIN t, NEW j \in DOMAIN t, i < j
          PROVE  <<t[i], t[j]>> \in R
      <3>1. i + 1 < j + 1
        BY <1>2, <2>1
      <3> QED
        BY <1>3, <1>6, <3>1 DEF OrderedBy
    <2>2. ASSUME NEW i \in DOMAIN t
          PROVE  <<Head(s), t[i]>> \in R
      BY <1>1, <1>3, <1>4, <1>6 DEF OrderedBy
    <2> QED
      BY <2>1, <2>2 DEF OrderedBy, Range
  <1> QED
    BY <1>1, <1>5, <1>6 DEF t

(* The two parts of a list cut after k entries.                            *)
LEMMA CutInTwo ==
    ASSUME NEW X, NEW s \in Seq(X), NEW k \in 0 .. Len(s)
    PROVE  /\ SubSeq(s, 1, k) \in Seq(X) /\ Len(SubSeq(s, 1, k)) = k
           /\ SubSeq(s, k + 1, Len(s)) \in Seq(X)
           /\ Len(SubSeq(s, k + 1, Len(s))) = Len(s) - k
           /\ Range(s) = Range(SubSeq(s, 1, k)) \cup Range(SubSeq(s, k + 1, Len(s)))
  <1> DEFINE a == SubSeq(s, 1, k)  b == SubSeq(s, k + 1, Len(s))
  <1>1. Len(s) \in Nat /\ k \in Nat /\ k <= Len(s)
    OBVIOUS
  <1>2. a \in Seq(X) /\ Len(a) = k /\ \A i \in 1 .. k : a[i] = s[i]
    BY <1>1
  <1>3. /\ b \in Seq(X) /\ Len(b) = Len(s) - k
        /\ \A i \in 1 .. Len(s) - k : b[i] = s[k + i]
    BY <1>1
  <1> HIDE DEF a, b
  <1>4. /\ DOMAIN a = 1 .. k /\ DOMAIN b = 1 .. Len(s) - k
        /\ DOMAIN s = 1 .. Len(s)
    BY <1>1, <1>2, <1>3
  <1>5. Range(a) \subseteq Range(s)
    BY <1>1, <1>2, <1>4 DEF Range
  <1>6. Range(b) \subseteq Range(s)
    <2>1. \A i \in DOMAIN b : k + i \in DOMAIN s /\ b[i] = s[k + i]
      BY <1>1, <1>3, <1>4
    <2> QED
      BY <2>1 DEF Range
  <1>7. ASSUME NEW i \in DOMAIN s
        PROVE  s[i] \in Range(a) \cup Range(b)
    <2>1. CASE i <= k
      BY <1>1, <1>2, <1>4, <2>1 DEF Range
    <2>2. CASE ~ i <= k
      <3>1. i - k \in DOMAIN b /\ k + (i - k) = i
        BY <1>1, <1>4, <2>2
      <3>2. b[i - k] = s[i]
        BY <1>3, <1>4, <3>1
      <3> QED
        BY <3>1, <3>2 DEF Range
    <2> QED
      BY <2>1, <2>2
  <1>8. Range(s) = Range(a) \cup Range(b)
    BY <1>5, <1>6, <1>7 DEF Range
  <1> QED
    BY <1>2, <1>3, <1>8 DEF a, b

-----------------------------------------------------------------------------
(* The merge. *)

(* What the merge makes of two lists, given what it makes of shorter ones. *)
MergeRound(p, f, sort) ==
    IF p[1] = <<>> THEN p[2]
    ELSE IF p[2] = <<>> THEN p[1]
    ELSE IF LeftFirst(Head(p[1]), Head(p[2]), sort)
    THEN <<Head(p[1])>> \o f[<<Tail(p[1]), p[2]>>]
    ELSE <<Head(p[2])>> \o f[<<p[1], Tail(p[2])>>]

Pairs == Seq(Entry) \X Seq(Entry)

PairLength == [p \in Pairs |-> Len(p[1]) + Len(p[2])]

(* The length of two lists is a number.                                    *)
LEMMA PairLengthType ==
    PairLength \in [Pairs -> Nat]
  <1>1. ASSUME NEW p \in Pairs
        PROVE  Len(p[1]) + Len(p[2]) \in Nat
    <2>1. p[1] \in Seq(Entry) /\ p[2] \in Seq(Entry)
      BY DEF Pairs
    <2> DEFINE m == Len(p[1])  n == Len(p[2])
    <2>2. m \in Nat /\ n \in Nat
      BY <2>1, LenProperties
    <2> HIDE DEF m, n
    <2>3. m + n \in Nat
      BY <2>2
    <2> QED
      BY <2>3 DEF m, n
  <1> QED
    BY <1>1 DEF PairLength

(* The function in Merge.                                                  *)
Merging(sort) == CHOOSE merge : merge = [p \in Pairs |-> MergeRound(p, merge, sort)]

(* A round uses the function at two pairs that are shorter.                *)
LEMMA ShorterPairs ==
    ASSUME NEW p \in Pairs, p[1] # <<>>, p[2] # <<>>
    PROVE  /\ <<Tail(p[1]), p[2]>> \in Pairs /\ <<p[1], Tail(p[2])>> \in Pairs
           /\ PairLength[<<Tail(p[1]), p[2]>>] < PairLength[p]
           /\ PairLength[<<p[1], Tail(p[2])>>] < PairLength[p]
  <1>1. p[1] \in Seq(Entry) /\ p[2] \in Seq(Entry)
    BY DEF Pairs
  <1>2. /\ Tail(p[1]) \in Seq(Entry) /\ Len(Tail(p[1])) = Len(p[1]) - 1
        /\ Len(p[1]) \in Nat \ {0}
        /\ Tail(p[2]) \in Seq(Entry) /\ Len(Tail(p[2])) = Len(p[2]) - 1
        /\ Len(p[2]) \in Nat \ {0}
    BY <1>1, TakenFirst
  <1>3. <<Tail(p[1]), p[2]>> \in Pairs /\ <<p[1], Tail(p[2])>> \in Pairs
    BY <1>1, <1>2 DEF Pairs
  <1>4. /\ PairLength[p] = Len(p[1]) + Len(p[2])
        /\ PairLength[<<Tail(p[1]), p[2]>>] = Len(Tail(p[1])) + Len(p[2])
        /\ PairLength[<<p[1], Tail(p[2])>>] = Len(p[1]) + Len(Tail(p[2]))
    BY <1>3 DEF PairLength
  <1>5. ASSUME NEW m \in Nat \ {0}, NEW n \in Nat \ {0}
        PROVE  (m - 1) + n < m + n /\ m + (n - 1) < m + n
    OBVIOUS
  <1>6. /\ (Len(p[1]) - 1) + Len(p[2]) < Len(p[1]) + Len(p[2])
        /\ Len(p[1]) + (Len(p[2]) - 1) < Len(p[1]) + Len(p[2])
    <2> DEFINE m == Len(p[1])  n == Len(p[2])
    <2>1. m \in Nat \ {0} /\ n \in Nat \ {0}
      BY <1>2
    <2> HIDE DEF m, n
    <2>2. (m - 1) + n < m + n /\ m + (n - 1) < m + n
      BY <1>5, <2>1
    <2> QED
      BY <2>2 DEF m, n
  <1> QED
    BY <1>2, <1>3, <1>4, <1>6

(* A round makes a list of lists.                                          *)
LEMMA MergeRoundType ==
    ASSUME NEW sort, NEW p \in Pairs, NEW f,
           \A y \in Pairs : PairLength[y] < PairLength[p] => f[y] \in Seq(Entry)
    PROVE  MergeRound(p, f, sort) \in Seq(Entry)
  <1>1. p[1] \in Seq(Entry) /\ p[2] \in Seq(Entry)
    BY DEF Pairs
  <1>2. CASE p[1] = <<>> \/ p[2] = <<>>
    BY <1>1, <1>2 DEF MergeRound
  <1>3. CASE p[1] # <<>> /\ p[2] # <<>>
    <2>1. /\ f[<<Tail(p[1]), p[2]>>] \in Seq(Entry)
          /\ f[<<p[1], Tail(p[2])>>] \in Seq(Entry)
      BY <1>3, ShorterPairs
    <2>2. Head(p[1]) \in Entry /\ Head(p[2]) \in Entry
      BY <1>1, <1>3, TakenFirst
    <2>3. /\ <<Head(p[1])>> \o f[<<Tail(p[1]), p[2]>>] \in Seq(Entry)
          /\ <<Head(p[2])>> \o f[<<p[1], Tail(p[2])>>] \in Seq(Entry)
      BY <2>1, <2>2, PutFirst
    <2> QED
      BY <1>3, <2>3 DEF MergeRound
  <1> QED
    BY <1>2, <1>3

(* The function in Merge is what its definition says.                      *)
LEMMA MergeEquation ==
    ASSUME NEW sort
    PROVE  /\ \A l, r : Merge(l, r, sort) = Merging(sort)[<<l, r>>]
           /\ \A p \in Pairs : /\ Merging(sort)[p] \in Seq(Entry)
                               /\ Merging(sort)[p] = MergeRound(p, Merging(sort), sort)
  <1> DEFINE S == Seq(Entry)
             h == [p \in Pairs |-> [f \in [Pairs -> S] |-> MergeRound(p, f, sort)]]
  <1>1. S # {}
    BY EmptySeq
  <1>3. h \in [Pairs -> [[Pairs -> S] -> S]]
    BY MergeRoundType
  <1>4. ASSUME NEW x \in Pairs, NEW f \in [Pairs -> S], NEW g \in [Pairs -> S],
               \A y \in Pairs : PairLength[y] < PairLength[x] => f[y] = g[y]
        PROVE  MergeRound(x, f, sort) = MergeRound(x, g, sort)
    BY <1>4, ShorterPairs DEF MergeRound
  <1>5. \A x \in Pairs : \A f, g \in [Pairs -> S] :
           (\A y \in Pairs : PairLength[y] < PairLength[x] => f[y] = g[y])
             => h[x][f] = h[x][g]
    BY <1>4
  <1>6. \E f \in [Pairs -> S] : \A x \in Pairs : f[x] = h[x][f]
    <2>1. h \in Rounds(Pairs, S, PairLength)
      BY <1>3, <1>5 DEF Rounds
    <2> HIDE DEF h, S
    <2> QED
      BY <1>1, <2>1, PairLengthType, MeasureRecursion
  <1>7. PICK f \in [Pairs -> S] : \A x \in Pairs : f[x] = MergeRound(x, f, sort)
    BY <1>6
  <1>8. f = [p \in Pairs |-> MergeRound(p, f, sort)]
    BY <1>7
  <1>9. Merging(sort) = [p \in Pairs |-> MergeRound(p, Merging(sort), sort)]
    BY <1>8 DEF Merging
  <1>10. \A l, r : Merge(l, r, sort) = Merging(sort)[<<l, r>>]
    BY DEF Merge, Merging, MergeRound, Pairs
  <1> DEFINE T == {p \in Pairs : Merging(sort)[p] \in Seq(Entry)}
  <1>11. \A x \in Pairs :
            (\A y \in Pairs : PairLength[y] < PairLength[x] => y \in T) => x \in T
    BY <1>9, MergeRoundType
  <1>12. Pairs \subseteq T
    <2> HIDE DEF T
    <2> QED
      BY <1>11, PairLengthType, MeasureInduction
  <1> QED
    BY <1>9, <1>10, <1>12

(* The comparison of the sort decides an order R of the entries in X.      *)
Decides(sort, R, X) ==
    /\ X \subseteq Entry
    /\ \A a, b, c \in X : <<a, b>> \in R /\ <<b, c>> \in R => <<a, c>> \in R
    /\ \A a, b \in X : IF LeftFirst(a, b, sort) THEN <<a, b>> \in R ELSE <<b, a>> \in R

(* Merging two lists in order makes one in order, of the same entries.     *)
LEMMA MergeInOrder ==
    ASSUME NEW sort, NEW X, NEW R, Decides(sort, R, X),
           NEW left \in Seq(X), NEW right \in Seq(X),
           OrderedBy(left, R), OrderedBy(right, R)
    PROVE  /\ Merge(left, right, sort) \in Seq(X)
           /\ OrderedBy(Merge(left, right, sort), R)
           /\ Range(Merge(left, right, sort)) = Range(left) \cup Range(right)
           /\ Len(Merge(left, right, sort)) = Len(left) + Len(right)
  <1>0. X \subseteq Entry
    BY DEF Decides
  <1> DEFINE M == Merging(sort)
             Right(p) == /\ M[p] \in Seq(X)
                         /\ OrderedBy(M[p], R)
                         /\ Range(M[p]) = Range(p[1]) \cup Range(p[2])
                         /\ Len(M[p]) = Len(p[1]) + Len(p[2])
             Given(p) == /\ p[1] \in Seq(X) /\ p[2] \in Seq(X)
                         /\ OrderedBy(p[1], R) /\ OrderedBy(p[2], R)
             T == {p \in Pairs : Given(p) => Right(p)}
  <1>1. \A p \in Pairs : M[p] = MergeRound(p, M, sort)
    BY MergeEquation
  <1> HIDE DEF M
  <1>3. ASSUME NEW p \in Pairs, \A y \in Pairs : PairLength[y] < PairLength[p] => y \in T
        PROVE  p \in T
    <2> SUFFICES ASSUME Given(p) PROVE Right(p)
      <3> HIDE DEF Given, Right
      <3> QED
        OBVIOUS
    <2> DEFINE l == p[1]  r == p[2]
    <2>1. CASE l = <<>>
      <3>1. M[p] = r
        BY <1>1, <2>1 DEF MergeRound
      <3>2. Range(l) = {} /\ Len(l) = 0 /\ Len(r) \in Nat
        BY <2>1, LenProperties DEF Range
      <3> QED
        BY <3>1, <3>2
    <2>2. CASE l # <<>> /\ r = <<>>
      <3>1. M[p] = l
        BY <1>1, <2>2 DEF MergeRound
      <3>2. Range(r) = {} /\ Len(r) = 0 /\ Len(l) \in Nat
        BY <2>2, LenProperties DEF Range
      <3> QED
        BY <3>1, <3>2
    <2>3. CASE l # <<>> /\ r # <<>>
      <3> DEFINE pl == <<Tail(l), r>>  pr == <<l, Tail(r)>>
      <3>1. /\ Head(l) \in X /\ Tail(l) \in Seq(X) /\ OrderedBy(Tail(l), R)
            /\ Range(l) = {Head(l)} \cup Range(Tail(l))
            /\ Len(Tail(l)) = Len(l) - 1 /\ Len(l) \in Nat
            /\ \A e \in Range(Tail(l)) : <<Head(l), e>> \in R
        BY <2>3, TakenFirst
      <3>2. /\ Head(r) \in X /\ Tail(r) \in Seq(X) /\ OrderedBy(Tail(r), R)
            /\ Range(r) = {Head(r)} \cup Range(Tail(r))
            /\ Len(Tail(r)) = Len(r) - 1 /\ Len(r) \in Nat
            /\ \A e \in Range(Tail(r)) : <<Head(r), e>> \in R
        BY <2>3, TakenFirst
      <3>3. Range(l) \subseteq X /\ Range(r) \subseteq X
        BY RangeInSet
      <3>4. pl \in T /\ pr \in T
        BY <1>3, <2>3, ShorterPairs
      <3>5. /\ M[pl] \in Seq(X) /\ OrderedBy(M[pl], R)
            /\ Range(M[pl]) = Range(Tail(l)) \cup Range(r)
            /\ Len(M[pl]) = Len(Tail(l)) + Len(r)
        BY <3>1, <3>4
      <3>6. /\ M[pr] \in Seq(X) /\ OrderedBy(M[pr], R)
            /\ Range(M[pr]) = Range(l) \cup Range(Tail(r))
            /\ Len(M[pr]) = Len(l) + Len(Tail(r))
        BY <3>2, <3>4
      <3>7. CASE LeftFirst(Head(l), Head(r), sort)
        <4>1. M[p] = <<Head(l)>> \o M[pl]
          BY <1>1, <2>3, <3>7 DEF MergeRound
        <4>2. <<Head(l), Head(r)>> \in R
          BY <3>1, <3>2, <3>7 DEF Decides
        <4>3. \A e \in Range(M[pl]) : <<Head(l), e>> \in R
          BY <3>1, <3>2, <3>3, <3>5, <4>2 DEF Decides
        <4>4. /\ M[p] \in Seq(X) /\ OrderedBy(M[p], R)
              /\ Range(M[p]) = {Head(l)} \cup Range(M[pl])
              /\ Len(M[p]) = 1 + Len(M[pl])
          <5> DEFINE x == Head(l)  s == M[pl]
          <5>1. x \in X /\ s \in Seq(X)
            BY <3>1, <3>5
          <5>2. OrderedBy(s, R) /\ \A e \in Range(s) : <<x, e>> \in R
            BY <3>5, <4>3
          <5> HIDE DEF x, s
          <5>3. /\ <<x>> \o s \in Seq(X) /\ Range(<<x>> \o s) = {x} \cup Range(s)
                /\ Len(<<x>> \o s) = 1 + Len(s)
                /\ OrderedBy(s, R) /\ (\A e \in Range(s) : <<x, e>> \in R)
                     => OrderedBy(<<x>> \o s, R)
            BY <5>1, PutFirst
          <5> QED
            BY <4>1, <5>2, <5>3 DEF x, s
        <4>5. Len(M[p]) = Len(l) + Len(r)
          <5> DEFINE m == Len(l)  n == Len(r)
          <5>1. m \in Nat /\ n \in Nat /\ Len(M[p]) = 1 + ((m - 1) + n)
            BY <3>1, <3>2, <3>5, <4>4
          <5> HIDE DEF m, n
          <5>2. 1 + ((m - 1) + n) = m + n /\ 1 + (m + (n - 1)) = m + n
            BY <5>1
          <5> QED
            BY <5>1, <5>2 DEF m, n
        <4> QED
          BY <3>1, <3>5, <4>4, <4>5
      <3>8. CASE ~ LeftFirst(Head(l), Head(r), sort)
        <4>1. M[p] = <<Head(r)>> \o M[pr]
          BY <1>1, <2>3, <3>8 DEF MergeRound
        <4>2. <<Head(r), Head(l)>> \in R
          BY <3>1, <3>2, <3>8 DEF Decides
        <4>3. \A e \in Range(M[pr]) : <<Head(r), e>> \in R
          BY <3>1, <3>2, <3>3, <3>6, <4>2 DEF Decides
        <4>4. /\ M[p] \in Seq(X) /\ OrderedBy(M[p], R)
              /\ Range(M[p]) = {Head(r)} \cup Range(M[pr])
              /\ Len(M[p]) = 1 + Len(M[pr])
          <5> DEFINE x == Head(r)  s == M[pr]
          <5>1. x \in X /\ s \in Seq(X)
            BY <3>2, <3>6
          <5>2. OrderedBy(s, R) /\ \A e \in Range(s) : <<x, e>> \in R
            BY <3>6, <4>3
          <5> HIDE DEF x, s
          <5>3. /\ <<x>> \o s \in Seq(X) /\ Range(<<x>> \o s) = {x} \cup Range(s)
                /\ Len(<<x>> \o s) = 1 + Len(s)
                /\ OrderedBy(s, R) /\ (\A e \in Range(s) : <<x, e>> \in R)
                     => OrderedBy(<<x>> \o s, R)
            BY <5>1, PutFirst
          <5> QED
            BY <4>1, <5>2, <5>3 DEF x, s
        <4>5. Len(M[p]) = Len(l) + Len(r)
          <5> DEFINE m == Len(l)  n == Len(r)
          <5>1. m \in Nat /\ n \in Nat /\ Len(M[p]) = 1 + (m + (n - 1))
            BY <3>1, <3>2, <3>6, <4>4
          <5> HIDE DEF m, n
          <5>2. 1 + ((m - 1) + n) = m + n /\ 1 + (m + (n - 1)) = m + n
            BY <5>1
          <5> QED
            BY <5>1, <5>2 DEF m, n
        <4> QED
          BY <3>2, <3>6, <4>4, <4>5
      <3> QED
        BY <3>7, <3>8
    <2> QED
      BY <2>1, <2>2, <2>3
  <1>4. Pairs \subseteq T
    <2>1. \A p \in Pairs :
             (\A y \in Pairs : PairLength[y] < PairLength[p] => y \in T) => p \in T
      BY <1>3
    <2> HIDE DEF T
    <2> QED
      BY <2>1, PairLengthType, MeasureInduction
  <1>5. <<left, right>> \in Pairs
    BY <1>0, SeqMonotonic DEF Pairs
  <1>6. Right(<<left, right>>)
    BY <1>4, <1>5
  <1> QED
    BY <1>6, MergeEquation DEF M

-----------------------------------------------------------------------------
(* The sort. *)

(* What the sort makes of a list, given what it makes of shorter ones.     *)
SortRound(part, f, sort) ==
    IF Len(part) <= 1 THEN part
    ELSE Merge(f[SubSeq(part, 1, Middle(part))],
               f[SubSeq(part, Middle(part) + 1, Len(part))], sort)

ListLength == [s \in Seq(Entry) |-> Len(s)]

(* The function in MergeSort.                                              *)
Sorting(sort) ==
    CHOOSE mergesort : mergesort = [part \in Seq(Entry) |-> SortRound(part, mergesort, sort)]

(* The length of a list is a number.                                       *)
LEMMA ListLengthType ==
    ListLength \in [Seq(Entry) -> Nat]
  BY LenProperties DEF ListLength

(* Neither half of a list of two or more entries is empty or all of it.    *)
LEMMA Halves ==
    ASSUME NEW X \in SUBSET Entry, NEW s \in Seq(X), ~ Len(s) <= 1
    PROVE  LET l == SubSeq(s, 1, Middle(s))
               r == SubSeq(s, Middle(s) + 1, Len(s))
           IN  /\ l \in Seq(X) /\ r \in Seq(X) /\ Range(s) = Range(l) \cup Range(r)
               /\ s \in Seq(Entry) /\ l \in Seq(Entry) /\ r \in Seq(Entry)
               /\ ListLength[l] < ListLength[s] /\ ListLength[r] < ListLength[s]
               /\ Len(s) = Len(l) + Len(r)
  <1> DEFINE n == Len(s)  k == Middle(s)
             l == SubSeq(s, 1, k)  r == SubSeq(s, k + 1, n)
  <1>1. n \in Nat
    OBVIOUS
  <1>2. k \in 0 .. n /\ k < n /\ n - k < n
    <2>1. k = (n + 1) \div 2 /\ n > 1
      BY <1>1 DEF Middle
    <2> HIDE DEF n, k
    <2> QED
      BY <1>1, <2>1
  <1>3. /\ l \in Seq(X) /\ Len(l) = k /\ r \in Seq(X) /\ Len(r) = n - k
        /\ Range(s) = Range(l) \cup Range(r)
    <2> HIDE DEF k
    <2> QED
      BY <1>2, CutInTwo
  <1> HIDE DEF l, r, k
  <1>4. s \in Seq(Entry) /\ l \in Seq(Entry) /\ r \in Seq(Entry)
    BY <1>3, SeqMonotonic
  <1>5. ListLength[l] < ListLength[s] /\ ListLength[r] < ListLength[s]
    BY <1>2, <1>3, <1>4 DEF ListLength
  <1>6. Len(s) = Len(l) + Len(r)
    BY <1>1, <1>2, <1>3
  <1> QED
    BY <1>3, <1>4, <1>5, <1>6 DEF l, r, k

(* A round makes a list of lists.                                          *)
LEMMA SortRoundType ==
    ASSUME NEW sort, NEW s \in Seq(Entry), NEW f,
           \A y \in Seq(Entry) : ListLength[y] < ListLength[s] => f[y] \in Seq(Entry)
    PROVE  SortRound(s, f, sort) \in Seq(Entry)
  <1>1. CASE Len(s) <= 1
    BY <1>1 DEF SortRound
  <1>2. CASE ~ Len(s) <= 1
    <2> DEFINE l == SubSeq(s, 1, Middle(s))  r == SubSeq(s, Middle(s) + 1, Len(s))
    <2>1. /\ l \in Seq(Entry) /\ ListLength[l] < ListLength[s]
          /\ r \in Seq(Entry) /\ ListLength[r] < ListLength[s]
      BY <1>2, Halves
    <2>2. SortRound(s, f, sort) = Merge(f[l], f[r], sort)
      BY <1>2 DEF SortRound
    <2> HIDE DEF l, r
    <2>3. f[l] \in Seq(Entry) /\ f[r] \in Seq(Entry)
      BY <2>1
    <2>4. <<f[l], f[r]>> \in Pairs
      BY <2>3 DEF Pairs
    <2>5. Merge(f[l], f[r], sort) \in Seq(Entry)
      <3>1. Merge(f[l], f[r], sort) = Merging(sort)[<<f[l], f[r]>>]
        BY MergeEquation
      <3> QED
        BY <2>4, <3>1, MergeEquation
    <2> QED
      BY <2>2, <2>5
  <1> QED
    BY <1>1, <1>2

(* The function in MergeSort is what its definition says.                  *)
LEMMA SortEquation ==
    ASSUME NEW sort
    PROVE  /\ \A s : MergeSort(s, sort) = Sorting(sort)[s]
           /\ \A s \in Seq(Entry) : Sorting(sort)[s] = SortRound(s, Sorting(sort), sort)
  <1> DEFINE D == Seq(Entry)  S == Seq(Entry)
             h == [s \in D |-> [f \in [D -> S] |-> SortRound(s, f, sort)]]
  <1>1. S # {}
    BY EmptySeq
  <1>2. h \in [D -> [[D -> S] -> S]]
    BY SortRoundType
  <1>3. ASSUME NEW s \in D, NEW f \in [D -> S], NEW g \in [D -> S],
               \A y \in D : ListLength[y] < ListLength[s] => f[y] = g[y]
        PROVE  SortRound(s, f, sort) = SortRound(s, g, sort)
    <2>1. CASE Len(s) <= 1
      BY <2>1 DEF SortRound
    <2>2. CASE ~ Len(s) <= 1
      <3> DEFINE l == SubSeq(s, 1, Middle(s))  r == SubSeq(s, Middle(s) + 1, Len(s))
      <3>1. /\ l \in Seq(Entry) /\ ListLength[l] < ListLength[s]
            /\ r \in Seq(Entry) /\ ListLength[r] < ListLength[s]
        BY <2>2, Halves
      <3>2. /\ SortRound(s, f, sort) = Merge(f[l], f[r], sort)
            /\ SortRound(s, g, sort) = Merge(g[l], g[r], sort)
        BY <2>2 DEF SortRound
      <3> HIDE DEF l, r
      <3>3. f[l] = g[l] /\ f[r] = g[r]
        BY <1>3, <3>1
      <3> QED
        BY <3>2, <3>3
    <2> QED
      BY <2>1, <2>2
  <1>4. \A s \in D : \A f, g \in [D -> S] :
           (\A y \in D : ListLength[y] < ListLength[s] => f[y] = g[y])
             => h[s][f] = h[s][g]
    BY <1>3
  <1>5. h \in Rounds(D, S, ListLength)
    BY <1>2, <1>4 DEF Rounds
  <1>6. PICK f \in [D -> S] : \A s \in D : f[s] = SortRound(s, f, sort)
    <2>1. \A s \in D : \A f \in [D -> S] : h[s][f] = SortRound(s, f, sort)
      OBVIOUS
    <2>2. ListLength \in [D -> Nat]
      BY ListLengthType
    <2> HIDE DEF h, D, S
    <2>3. PICK f \in [D -> S] : \A s \in D : f[s] = h[s][f]
      BY <1>1, <1>5, <2>2, MeasureRecursion
    <2> QED
      BY <2>1, <2>3
  <1>7. f = [s \in D |-> SortRound(s, f, sort)]
    BY <1>6
  <1>8. Sorting(sort) = [s \in D |-> SortRound(s, Sorting(sort), sort)]
    BY <1>7 DEF Sorting
  <1>9. \A s : MergeSort(s, sort) = Sorting(sort)[s]
    BY DEF MergeSort, Sorting, SortRound
  <1> QED
    BY <1>8, <1>9

(* The merge sort puts every list in order, and keeps its entries.         *)
LEMMA SortInOrder ==
    ASSUME NEW sort, NEW X, NEW R, Decides(sort, R, X), NEW s \in Seq(X)
    PROVE  /\ MergeSort(s, sort) \in Seq(X)
           /\ OrderedBy(MergeSort(s, sort), R)
           /\ Range(MergeSort(s, sort)) = Range(s) /\ Len(MergeSort(s, sort)) = Len(s)
  <1>0. X \subseteq Entry
    BY DEF Decides
  <1> DEFINE F == Sorting(sort)
             Right(x) == /\ F[x] \in Seq(X)
                         /\ OrderedBy(F[x], R)
                         /\ Range(F[x]) = Range(x) /\ Len(F[x]) = Len(x)
             T == {x \in Seq(Entry) : x \in Seq(X) => Right(x)}
  <1>1. \A x \in Seq(Entry) : F[x] = SortRound(x, F, sort)
    BY SortEquation
  <1> HIDE DEF F
  <1>2. ASSUME NEW x \in Seq(Entry),
               \A y \in Seq(Entry) : ListLength[y] < ListLength[x] => y \in T
        PROVE  x \in T
    <2> SUFFICES ASSUME x \in Seq(X) PROVE Right(x)
      <3> HIDE DEF Right
      <3> QED
        OBVIOUS
    <2>1. CASE Len(x) <= 1
      <3>1. F[x] = x
        BY <1>1, <2>1 DEF SortRound
      <3>2. OrderedBy(x, R)
        BY <2>1 DEF OrderedBy
      <3> QED
        BY <3>1, <3>2
    <2>2. CASE ~ Len(x) <= 1
      <3> DEFINE l == SubSeq(x, 1, Middle(x))  r == SubSeq(x, Middle(x) + 1, Len(x))
      <3>1. /\ l \in Seq(X) /\ r \in Seq(X) /\ Range(x) = Range(l) \cup Range(r)
            /\ l \in Seq(Entry) /\ r \in Seq(Entry) /\ Len(x) = Len(l) + Len(r)
            /\ ListLength[l] < ListLength[x] /\ ListLength[r] < ListLength[x]
        BY <1>0, <2>2, Halves
      <3>2. F[x] = Merge(F[l], F[r], sort)
        BY <1>1, <2>2 DEF SortRound
      <3> HIDE DEF l, r
      <3>3. Right(l) /\ Right(r)
        BY <1>2, <3>1
      <3>4. /\ Merge(F[l], F[r], sort) \in Seq(X)
            /\ OrderedBy(Merge(F[l], F[r], sort), R)
            /\ Range(Merge(F[l], F[r], sort)) = Range(F[l]) \cup Range(F[r])
            /\ Len(Merge(F[l], F[r], sort)) = Len(F[l]) + Len(F[r])
        <4> DEFINE a == F[l]  b == F[r]
        <4>1. a \in Seq(X) /\ b \in Seq(X) /\ OrderedBy(a, R) /\ OrderedBy(b, R)
          BY <3>3
        <4> HIDE DEF a, b
        <4>2. /\ Merge(a, b, sort) \in Seq(X)
              /\ OrderedBy(Merge(a, b, sort), R)
              /\ Range(Merge(a, b, sort)) = Range(a) \cup Range(b)
              /\ Len(Merge(a, b, sort)) = Len(a) + Len(b)
          BY <4>1, MergeInOrder
        <4> QED
          BY <4>2 DEF a, b
      <3> QED
        BY <3>1, <3>2, <3>3, <3>4
    <2> QED
      BY <2>1, <2>2
  <1>3. Seq(Entry) \subseteq T
    <2> DEFINE D == Seq(Entry)
    <2>1. \A x \in D : (\A y \in D : ListLength[y] < ListLength[x] => y \in T) => x \in T
      BY <1>2
    <2>2. ListLength \in [D -> Nat]
      BY ListLengthType
    <2> HIDE DEF T, D
    <2>3. D \subseteq T
      BY <2>1, <2>2, MeasureInduction
    <2> QED
      BY <2>3 DEF D
  <1>4. s \in Seq(Entry)
    BY <1>0, SeqMonotonic
  <1>5. Right(s)
    BY <1>3, <1>4
  <1> QED
    BY <1>5, SortEquation DEF F

-----------------------------------------------------------------------------
(* The order of the names. *)

(* The texts a and b first differ at k.                                    *)
FirstDiffer(a, b, code, k) ==
    /\ k \in DOMAIN a \cap DOMAIN b /\ code[a[k]] # code[b[k]]
    /\ \A j \in DOMAIN a \cap DOMAIN b : j < k => code[a[j]] = code[b[j]]

(* One of them goes on where the other ends, if that.                      *)
Alike(a, b, code) ==
    \A k \in DOMAIN a \cap DOMAIN b : code[a[k]] = code[b[k]]

(* Two texts are alike or first differ somewhere.                          *)
LEMMA AlikeOrNot ==
    ASSUME NEW C, NEW code, NEW a \in Seq(C), NEW b \in Seq(C), ~ Alike(a, b, code)
    PROVE  \E k : FirstDiffer(a, b, code, k)
  <1> DEFINE differ == {k \in DOMAIN a \cap DOMAIN b : code[a[k]] # code[b[k]]}
  <1>1. differ # {} /\ differ \subseteq Nat
    BY DEF Alike
  <1>2. PICK k \in differ : \A j \in differ : k <= j
    <2> HIDE DEF differ
    <2> QED
      BY <1>1, FirstNumber
  <1>3. \A j \in DOMAIN a \cap DOMAIN b : j < k => code[a[j]] = code[b[j]]
    <2> SUFFICES ASSUME NEW j \in DOMAIN a \cap DOMAIN b, j < k, j \in differ
                 PROVE  FALSE
      OBVIOUS
    <2>1. k <= j
      BY <1>2
    <2>2. k \in Nat /\ j \in Nat
      BY <1>1
    <2> QED
      BY <2>1, <2>2
  <1> QED
    BY <1>3 DEF FirstDiffer

(* strcmp() of texts that are alike is about their lengths.                *)
LEMMA CompareAlike ==
    ASSUME NEW a, NEW b, NEW code, Alike(a, b, code)
    PROVE  StrCmp(a, b, code) = Len(a) - Len(b)
  BY DEF StrCmp, Alike

(* Of others it is about the characters where they first differ.           *)
LEMMA CompareDiffer ==
    ASSUME NEW C, NEW code, NEW a \in Seq(C), NEW b \in Seq(C), NEW k,
           FirstDiffer(a, b, code, k)
    PROVE  StrCmp(a, b, code) = code[a[k]] - code[b[k]]
  <1> DEFINE differ == {j \in DOMAIN a \cap DOMAIN b : code[a[j]] # code[b[j]]}
  <1>1. differ \subseteq Nat /\ k \in differ
    BY DEF FirstDiffer
  <1>2. \A j \in differ : k <= j
    <2> SUFFICES ASSUME NEW j \in differ, ~ k <= j PROVE FALSE
      OBVIOUS
    <2>1. k \in Nat /\ j \in Nat
      BY <1>1
    <2>2. j < k
      BY <2>1
    <2> QED
      BY <2>2 DEF FirstDiffer
  <1>3. Min(differ) = k
    <2> HIDE DEF differ
    <2>1. \A m \in differ : (\A j \in differ : m <= j) => m = k
      BY <1>1, <1>2
    <2> QED
      BY <1>1, <1>2, <2>1 DEF Min
  <1> QED
    BY <1>1, <1>3 DEF StrCmp

(* strcmp() the other way round has the other sign.                        *)
LEMMA CompareSwapped ==
    ASSUME NEW C, NEW code \in [C -> Int], NEW a \in Seq(C), NEW b \in Seq(C)
    PROVE  /\ StrCmp(a, b, code) \in Int
           /\ StrCmp(b, a, code) = - StrCmp(a, b, code)
  <1>1. CASE Alike(a, b, code)
    <2>1. Alike(b, a, code)
      BY <1>1 DEF Alike
    <2>2. /\ StrCmp(a, b, code) = Len(a) - Len(b)
          /\ StrCmp(b, a, code) = Len(b) - Len(a)
      BY <1>1, <2>1, CompareAlike
    <2> QED
      BY <2>2
  <1>2. CASE ~ Alike(a, b, code)
    <2>1. PICK k : FirstDiffer(a, b, code, k)
      BY <1>2, AlikeOrNot
    <2>2. FirstDiffer(b, a, code, k)
      BY <2>1 DEF FirstDiffer
    <2>3. /\ StrCmp(a, b, code) = code[a[k]] - code[b[k]]
          /\ StrCmp(b, a, code) = code[b[k]] - code[a[k]]
      BY <2>1, <2>2, CompareDiffer
    <2>4. code[a[k]] \in Int /\ code[b[k]] \in Int
      BY <2>1 DEF FirstDiffer
    <2> QED
      BY <2>3, <2>4
  <1> QED
    BY <1>1, <1>2

(* What strcmp() at most 0 means, without a choice.                        *)
NotAfter(a, b, code) ==
    \/ Alike(a, b, code) /\ Len(a) <= Len(b)
    \/ \E k : FirstDiffer(a, b, code, k) /\ code[a[k]] < code[b[k]]

(* It is what strcmp() at most 0 means.                                    *)
LEMMA CompareIsOrder ==
    ASSUME NEW C, NEW code \in [C -> Int], NEW a \in Seq(C), NEW b \in Seq(C)
    PROVE  StrCmp(a, b, code) <= 0 <=> NotAfter(a, b, code)
  <1>1. CASE Alike(a, b, code)
    <2>1. StrCmp(a, b, code) = Len(a) - Len(b)
      BY <1>1, CompareAlike
    <2>2. \A k : ~ FirstDiffer(a, b, code, k)
      BY <1>1 DEF Alike, FirstDiffer
    <2>3. NotAfter(a, b, code) <=> Len(a) <= Len(b)
      BY <1>1, <2>2 DEF NotAfter
    <2> QED
      BY <2>1, <2>3
  <1>2. CASE ~ Alike(a, b, code)
    <2>1. PICK k : FirstDiffer(a, b, code, k)
      BY <1>2, AlikeOrNot
    <2>2. StrCmp(a, b, code) = code[a[k]] - code[b[k]]
      BY <2>1, CompareDiffer
    <2>3. code[a[k]] \in Int /\ code[b[k]] \in Int /\ code[a[k]] # code[b[k]]
      BY <2>1 DEF FirstDiffer
    <2>4. ASSUME NEW j, FirstDiffer(a, b, code, j) PROVE j = k
      BY <2>1, <2>4 DEF FirstDiffer
    <2>5. NotAfter(a, b, code) <=> code[a[k]] < code[b[k]]
      BY <1>2, <2>1, <2>4 DEF NotAfter
    <2> QED
      BY <2>2, <2>3, <2>5
  <1> QED
    BY <1>1, <1>2

(* The places of a text go from its first without a gap.                   *)
LEMMA Positions ==
    ASSUME NEW C, NEW a \in Seq(C), NEW b \in Seq(C)
    PROVE  /\ DOMAIN a \subseteq Nat
           /\ \A k \in DOMAIN a : \A j \in DOMAIN b : j < k => j \in DOMAIN a
           /\ Len(a) <= Len(b) => DOMAIN a \subseteq DOMAIN b
           /\ \A k \in DOMAIN b : k \notin DOMAIN a => Len(a) <= Len(b)
  <1> DEFINE m == Len(a)  n == Len(b)
  <1>1. DOMAIN a = 1 .. m /\ DOMAIN b = 1 .. n /\ m \in Nat /\ n \in Nat
    OBVIOUS
  <1> HIDE DEF m, n
  <1>2. /\ 1 .. m \subseteq Nat
        /\ \A k \in 1 .. m : \A j \in 1 .. n : j < k => j \in 1 .. m
        /\ m <= n => 1 .. m \subseteq 1 .. n
        /\ \A k \in 1 .. n : k \notin 1 .. m => m <= n
    BY <1>1
  <1> QED
    BY <1>1, <1>2 DEF m, n

(* Texts are in order by strcmp(), as far as it distinguishes them.        *)
LEMMA CompareTransitive ==
    ASSUME NEW C, NEW code \in [C -> Int],
           NEW a \in Seq(C), NEW b \in Seq(C), NEW c \in Seq(C),
           StrCmp(a, b, code) <= 0, StrCmp(b, c, code) <= 0
    PROVE  StrCmp(a, c, code) <= 0
  <1>1. NotAfter(a, b, code) /\ NotAfter(b, c, code)
    BY CompareIsOrder
  <1>2. /\ DOMAIN a \subseteq Nat /\ DOMAIN b \subseteq Nat /\ DOMAIN c \subseteq Nat
        /\ \A k \in DOMAIN b : \A j \in DOMAIN a : j < k => j \in DOMAIN b
        /\ \A k \in DOMAIN a : \A j \in DOMAIN b : j < k => j \in DOMAIN a
        /\ \A k \in DOMAIN c : \A j \in DOMAIN b : j < k => j \in DOMAIN c
        /\ Len(a) <= Len(b) => DOMAIN a \subseteq DOMAIN b
        /\ Len(b) <= Len(c) => DOMAIN b \subseteq DOMAIN c
        /\ \A k \in DOMAIN c : k \notin DOMAIN a => Len(a) <= Len(c)
    <2>1. /\ DOMAIN a \subseteq Nat /\ Len(a) <= Len(b) => DOMAIN a \subseteq DOMAIN b
          /\ \A k \in DOMAIN a : \A j \in DOMAIN b : j < k => j \in DOMAIN a
      BY Positions
    <2>2. /\ DOMAIN b \subseteq Nat
          /\ \A k \in DOMAIN b : \A j \in DOMAIN a : j < k => j \in DOMAIN b
          /\ Len(b) <= Len(c) => DOMAIN b \subseteq DOMAIN c
      BY Positions
    <2>3. /\ DOMAIN c \subseteq Nat
          /\ \A k \in DOMAIN c : \A j \in DOMAIN b : j < k => j \in DOMAIN c
      BY Positions
    <2>4. \A k \in DOMAIN c : k \notin DOMAIN a => Len(a) <= Len(c)
      BY Positions
    <2> QED
      BY <2>1, <2>2, <2>3, <2>4
  <1>3. /\ \A k \in DOMAIN a : code[a[k]] \in Int
        /\ \A k \in DOMAIN b : code[b[k]] \in Int
        /\ \A k \in DOMAIN c : code[c[k]] \in Int
    OBVIOUS
  <1>4. NotAfter(a, c, code)
    <2>1. CASE Alike(a, b, code) /\ Len(a) <= Len(b)
      <3>0. \A k \in DOMAIN a : k \in DOMAIN b /\ code[a[k]] = code[b[k]]
        BY <1>2, <2>1 DEF Alike
      <3>1. CASE Alike(b, c, code) /\ Len(b) <= Len(c)
        <4>1. Alike(a, c, code)
          BY <3>0, <3>1 DEF Alike
        <4>2. Len(a) <= Len(c)
          <5>1. Len(a) \in Nat /\ Len(b) \in Nat /\ Len(c) \in Nat
            BY LenProperties
          <5> QED
            BY <2>1, <3>1, <5>1
        <4> QED
          BY <4>1, <4>2 DEF NotAfter
      <3>2. CASE \E k : FirstDiffer(b, c, code, k) /\ code[b[k]] < code[c[k]]
        <4>1. PICK k : FirstDiffer(b, c, code, k) /\ code[b[k]] < code[c[k]]
          BY <3>2
        <4>2. CASE k \in DOMAIN a
          <5>1. FirstDiffer(a, c, code, k) /\ code[a[k]] < code[c[k]]
            BY <3>0, <4>1, <4>2 DEF FirstDiffer
          <5> QED
            BY <5>1 DEF NotAfter
        <4>3. CASE k \notin DOMAIN a
          <5>1. k \in DOMAIN b /\ k \in DOMAIN c
            BY <4>1 DEF FirstDiffer
          <5>2. \A j \in DOMAIN a : j < k
            <6>1. \A j \in DOMAIN a : j # k /\ ~ k < j
              BY <1>2, <4>3, <5>1
            <6> QED
              BY <1>2, <5>1, <6>1
          <5>3. Alike(a, c, code)
            BY <3>0, <4>1, <5>2 DEF Alike, FirstDiffer
          <5>4. Len(a) <= Len(c)
            BY <1>2, <4>3, <5>1
          <5> QED
            BY <5>3, <5>4 DEF NotAfter
        <4> QED
          BY <4>2, <4>3
      <3> QED
        BY <1>1, <3>1, <3>2 DEF NotAfter
    <2>2. CASE \E k : FirstDiffer(a, b, code, k) /\ code[a[k]] < code[b[k]]
      <3>1. PICK k : FirstDiffer(a, b, code, k) /\ code[a[k]] < code[b[k]]
        BY <2>2
      <3>0. k \in DOMAIN a /\ k \in DOMAIN b
        BY <3>1 DEF FirstDiffer
      <3>2. CASE Alike(b, c, code) /\ Len(b) <= Len(c)
        <4>0. \A j \in DOMAIN b : j \in DOMAIN c /\ code[b[j]] = code[c[j]]
          BY <1>2, <3>2 DEF Alike
        <4>1. code[a[k]] < code[c[k]]
          BY <3>0, <3>1, <4>0
        <4>2. ASSUME NEW j \in DOMAIN a, j < k PROVE code[a[j]] = code[c[j]]
          <5>1. j \in DOMAIN b
            BY <1>2, <3>0, <4>2
          <5> QED
            BY <3>1, <4>0, <4>2, <5>1 DEF FirstDiffer
        <4>3. FirstDiffer(a, c, code, k)
          BY <1>3, <3>0, <4>0, <4>1, <4>2 DEF FirstDiffer
        <4> QED
          BY <4>1, <4>3 DEF NotAfter
      <3>3. CASE \E m : FirstDiffer(b, c, code, m) /\ code[b[m]] < code[c[m]]
        <4>1. PICK m : FirstDiffer(b, c, code, m) /\ code[b[m]] < code[c[m]]
          BY <3>3
        <4>0. m \in DOMAIN b /\ m \in DOMAIN c
          BY <4>1 DEF FirstDiffer
        <4>2. CASE k < m
          <5>1. k \in DOMAIN c
            BY <1>2, <3>0, <4>0, <4>2
          <5>2. code[b[k]] = code[c[k]]
            BY <3>0, <4>1, <4>2, <5>1 DEF FirstDiffer
          <5>3. ASSUME NEW j \in DOMAIN a \cap DOMAIN c, j < k PROVE code[a[j]] = code[c[j]]
            <6>1. j \in DOMAIN b
              BY <1>2, <3>0, <5>3
            <6>2. j < m
              <7>1. j \in Nat /\ k \in Nat /\ m \in Nat
                BY <1>2, <3>0, <4>0
              <7> QED
                BY <4>2, <5>3, <7>1
            <6> QED
              BY <3>1, <4>1, <5>3, <6>1, <6>2 DEF FirstDiffer
          <5>4. code[a[k]] < code[c[k]]
            BY <3>1, <5>2
          <5>5. FirstDiffer(a, c, code, k)
            BY <1>3, <3>0, <5>1, <5>3, <5>4 DEF FirstDiffer
          <5> QED
            BY <5>4, <5>5 DEF NotAfter
        <4>3. CASE k = m
          <5>1. ASSUME NEW j \in DOMAIN a \cap DOMAIN c, j < k PROVE code[a[j]] = code[c[j]]
            <6>1. j \in DOMAIN b
              BY <1>2, <3>0, <5>1
            <6> QED
              BY <3>1, <4>1, <4>3, <5>1, <6>1 DEF FirstDiffer
          <5>2. code[a[k]] < code[c[k]]
            <6>1. code[a[k]] < code[b[k]] /\ code[b[k]] < code[c[k]]
              BY <3>1, <4>1, <4>3
            <6> QED
              BY <1>3, <3>0, <4>0, <4>3, <6>1
          <5>3. FirstDiffer(a, c, code, k)
            BY <1>3, <3>0, <4>0, <4>3, <5>1, <5>2 DEF FirstDiffer
          <5> QED
            BY <5>2, <5>3 DEF NotAfter
        <4>4. CASE m < k
          <5>1. m \in DOMAIN a
            BY <1>2, <3>0, <4>0, <4>4
          <5>2. code[a[m]] = code[b[m]]
            BY <3>1, <4>0, <4>4, <5>1 DEF FirstDiffer
          <5>3. ASSUME NEW j \in DOMAIN a \cap DOMAIN c, j < m PROVE code[a[j]] = code[c[j]]
            <6>1. j \in DOMAIN b
              BY <1>2, <4>0, <5>3
            <6>2. j < k
              <7>1. j \in Nat /\ k \in Nat /\ m \in Nat
                BY <1>2, <3>0, <4>0
              <7> QED
                BY <4>4, <5>3, <7>1
            <6> QED
              BY <3>1, <4>1, <5>3, <6>1, <6>2 DEF FirstDiffer
          <5>4. code[a[m]] < code[c[m]]
            BY <4>1, <5>2
          <5>5. FirstDiffer(a, c, code, m)
            BY <1>3, <4>0, <5>1, <5>3, <5>4 DEF FirstDiffer
          <5> QED
            BY <5>4, <5>5 DEF NotAfter
        <4>5. k < m \/ k = m \/ m < k
          <5>1. k \in Nat /\ m \in Nat
            BY <1>2, <3>0, <4>0
          <5> QED
            BY <5>1
        <4> QED
          BY <4>2, <4>3, <4>4, <4>5
      <3> QED
        BY <1>1, <3>2, <3>3 DEF NotAfter
    <2> QED
      BY <1>1, <2>1, <2>2 DEF NotAfter
  <1> QED
    BY <1>4, CompareIsOrder

-----------------------------------------------------------------------------
(* The order of the entries. *)

(* The difference of two numbers that are not too far apart has its sign.  *)
LEMMA SignedDifference ==
    ASSUME NEW d \in Int, - INT_LIMIT < d, d < INT_LIMIT
    PROVE  int(d) = d
  <1>1. INT_LIMIT \in Nat \ {0}
    BY ListingConstants
  <1>2. ASSUME NEW m \in Nat, NEW n \in Nat \ {0}, m < n
        PROVE  m % n = m
    BY <1>2
  <1> DEFINE m == d + INT_LIMIT  n == 2 * INT_LIMIT
  <1>3. m \in Nat /\ n \in Nat \ {0} /\ m < n /\ m - INT_LIMIT = d
    BY <1>1
  <1> HIDE DEF m, n
  <1>4. m % n = m
    BY <1>2, <1>3
  <1> QED
    BY <1>3, <1>4 DEF int, m, n

(* The pairs of X that are in order.                                       *)
InOrderPairs(sort, X) == {p \in X \X X : InOrder(p[1], p[2], sort)}

(* No two sizes and no two times in X are too far apart.                   *)
AllNear(X) == \A l, r \in X : l.size - r.size < INT_LIMIT /\ l.mtime - r.mtime < INT_LIMIT

(* What is known of an entry.                                              *)
LEMMA EntryType ==
    ASSUME NEW e \in Entry
    PROVE  /\ e.path \in Seq(DOMAIN Code) /\ e.folder \in BOOLEAN
           /\ e.size \in Nat /\ e.mtime \in Nat /\ Len(e.path) \in Nat
  <1>1. /\ e.path \in Seq(DOMAIN Code) /\ e.folder \in BOOLEAN
        /\ e.size \in 0 .. 2 * INT_LIMIT - 1 /\ e.mtime \in 0 .. 2 * INT_LIMIT - 1
        /\ INT_LIMIT \in Nat
    BY ListingConstants
  <1>2. e.size \in Nat /\ e.mtime \in Nat
    BY <1>1
  <1> QED
    BY <1>1, <1>2, LenProperties

(* Sizes and times that are near have a difference with the right sign.    *)
LEMMA NearDifference ==
    ASSUME NEW X, X \subseteq Entry, AllNear(X), NEW l \in X, NEW r \in X
    PROVE  int(l.size - r.size) = l.size - r.size /\ int(l.mtime - r.mtime) = l.mtime - r.mtime
  <1>1. /\ l.size \in Nat /\ r.size \in Nat /\ l.mtime \in Nat /\ r.mtime \in Nat
        /\ INT_LIMIT \in Nat
    BY EntryType, ListingConstants
  <1>2. /\ l.size - r.size < INT_LIMIT /\ r.size - l.size < INT_LIMIT
        /\ l.mtime - r.mtime < INT_LIMIT /\ r.mtime - l.mtime < INT_LIMIT
    BY DEF AllNear
  <1>3. /\ l.size - r.size \in Int /\ - INT_LIMIT < l.size - r.size
        /\ l.mtime - r.mtime \in Int /\ - INT_LIMIT < l.mtime - r.mtime
    BY <1>1, <1>2
  <1> QED
    BY <1>2, <1>3, SignedDifference

(* The comparison of the sort decides the order it is meant to make.       *)
LEMMA OrderDecided ==
    ASSUME NEW sort, NEW X, X \subseteq Entry, AllNear(X)
    PROVE  Decides(sort, InOrderPairs(sort, X), X)
  <1> DEFINE code == IF "CASE" \in sort THEN Code ELSE Caseless
             C == DOMAIN Code
  <1>1. code \in [C -> Int]
    BY ListingConstants
  <1>2. \A e \in X : e.path \in Seq(C) /\ e.size \in Nat /\ e.mtime \in Nat
    BY EntryType
  <1>3. ASSUME NEW a \in X, NEW b \in X, NEW c \in X,
               InOrder(a, b, sort), InOrder(b, c, sort)
        PROVE  InOrder(a, c, sort)
    <2> DEFINE lower(m, n) == IF "DESCENDING" \in sort THEN n <= m ELSE m <= n
    <2>0. ASSUME NEW m \in Nat, NEW n \in Nat
          PROVE  (IF "DESCENDING" \in sort THEN -m ELSE m)
                    <= (IF "DESCENDING" \in sort THEN -n ELSE n) <=> lower(m, n)
      OBVIOUS
    <2>1. CASE "SIZE" \in sort
      <3>1. \A l, r \in X : InOrder(l, r, sort) <=> lower(l.size, r.size)
        BY <1>2, <2>0, <2>1 DEF InOrder
      <3> QED
        BY <1>2, <1>3, <3>1
    <2>4. CASE "SIZE" \notin sort /\ "MODIFIED" \in sort
      <3>1. \A l, r \in X : InOrder(l, r, sort) <=> lower(l.mtime, r.mtime)
        BY <1>2, <2>0, <2>4 DEF InOrder
      <3> QED
        BY <1>2, <1>3, <3>1
    <2>2. CASE "SIZE" \notin sort /\ "MODIFIED" \notin sort /\ "DESCENDING" \in sort
      <3>1. StrCmp(b.path, a.path, code) <= 0 /\ StrCmp(c.path, b.path, code) <= 0
        BY <1>3, <2>2 DEF InOrder
      <3>2. StrCmp(c.path, a.path, code) <= 0
        <4> HIDE DEF code, C
        <4> QED
          BY <1>1, <1>2, <3>1, CompareTransitive
      <3> QED
        BY <2>2, <3>2 DEF InOrder
    <2>3. CASE "SIZE" \notin sort /\ "MODIFIED" \notin sort /\ "DESCENDING" \notin sort
      <3>1. StrCmp(a.path, b.path, code) <= 0 /\ StrCmp(b.path, c.path, code) <= 0
        BY <1>3, <2>3 DEF InOrder
      <3>2. StrCmp(a.path, c.path, code) <= 0
        <4> HIDE DEF code, C
        <4> QED
          BY <1>1, <1>2, <3>1, CompareTransitive
      <3> QED
        BY <2>3, <3>2 DEF InOrder
    <2> QED
      BY <2>1, <2>2, <2>3, <2>4
  <1>4. ASSUME NEW a \in X, NEW b \in X
        PROVE  IF LeftFirst(a, b, sort) THEN InOrder(a, b, sort) ELSE InOrder(b, a, sort)
    <2>1. /\ int(a.size - b.size) = a.size - b.size
          /\ int(a.mtime - b.mtime) = a.mtime - b.mtime
      BY NearDifference
    <2>2. CASE "SIZE" \in sort
      <3>1. Order(a, b, sort) = a.size - b.size
        BY <2>1, <2>2 DEF Order
      <3> QED
        BY <1>2, <2>2, <3>1 DEF LeftFirst, InOrder
    <2>3. CASE "SIZE" \notin sort /\ "MODIFIED" \in sort
      <3>1. Order(a, b, sort) = a.mtime - b.mtime
        BY <2>1, <2>3 DEF Order
      <3> QED
        BY <1>2, <2>3, <3>1 DEF LeftFirst, InOrder
    <2>4. CASE "SIZE" \notin sort /\ "MODIFIED" \notin sort
      <3> DEFINE ab == StrCmp(a.path, b.path, code)
                 ba == StrCmp(b.path, a.path, code)
      <3>1. Order(a, b, sort) = ab
        BY <2>4 DEF Order
      <3>2. ab \in Int /\ ba = - ab
        <4> HIDE DEF code, C
        <4> QED
          BY <1>1, <1>2, CompareSwapped
      <3>3. LeftFirst(a, b, sort) <=> IF "DESCENDING" \in sort THEN ab > 0 ELSE ab < 0
        <4> HIDE DEF ab, ba
        <4> QED
          BY <3>1, <3>2 DEF LeftFirst
      <3>4. /\ InOrder(a, b, sort) <=> IF "DESCENDING" \in sort THEN ba <= 0 ELSE ab <= 0
            /\ InOrder(b, a, sort) <=> IF "DESCENDING" \in sort THEN ab <= 0 ELSE ba <= 0
        BY <2>4 DEF InOrder
      <3> HIDE DEF ab, ba
      <3> QED
        BY <3>2, <3>3, <3>4
    <2> QED
      BY <2>2, <2>3, <2>4
  <1> QED
    BY <1>3, <1>4 DEF Decides, InOrderPairs

-----------------------------------------------------------------------------
(* What a load or a traversal finds. *)

Folders(q) == {e \in Range(tree) : e.folder /\ ~ Has(q, "NO_FOLDERSFIRST")}

Files(q) == {e \in Range(tree) : e.folder => Has(q, "NO_FOLDERSFIRST")}

Lists(q) == [dirs : Seq(Folders(q)), files : Seq(Files(q))]

(* The lists after k entries, given what they are after fewer.             *)
FindRound(k, f, q) == IF k = 0 THEN Begin(q) ELSE Consider(f[k - 1], tree[k], q)

(* The function in Found.                                                  *)
Finding(q, n) == CHOOSE lists : lists = [k \in 0 .. n |-> FindRound(k, lists, q)]

(* An entry goes into the list of its kind.                                *)
LEMMA ConsiderType ==
    ASSUME NEW q, NEW lists \in Lists(q), NEW e \in Range(tree)
    PROVE  Consider(lists, e, q) \in Lists(q)
  <1> DEFINE D == Folders(q)  F == Files(q)
  <1>1. lists = [dirs |-> lists.dirs, files |-> lists.files]
        /\ lists.dirs \in Seq(D) /\ lists.files \in Seq(F)
    BY DEF Lists
  <1>2. CASE Stopped(lists, q) \/ Skipped(e, q)
    BY <1>2 DEF Consider
  <1>3. CASE ~ (Stopped(lists, q) \/ Skipped(e, q)) /\ e.folder /\ ~ Has(q, "NO_FOLDERSFIRST")
    <2>1. e \in D
      BY <1>3 DEF Folders
    <2> HIDE DEF D
    <2>2. <<e>> \o lists.dirs \in Seq(D)
      BY <1>1, <2>1, PutFirst
    <2>3. Consider(lists, e, q) = [dirs |-> <<e>> \o lists.dirs, files |-> lists.files]
      BY <1>1, <1>3 DEF Consider
    <2> QED
      BY <1>1, <2>2, <2>3 DEF Lists, D
  <1>4. CASE ~ (Stopped(lists, q) \/ Skipped(e, q)) /\ ~ (e.folder /\ ~ Has(q, "NO_FOLDERSFIRST"))
    <2>1. e \in F
      BY <1>4 DEF Files
    <2> HIDE DEF F
    <2>2. <<e>> \o lists.files \in Seq(F)
      BY <1>1, <2>1, PutFirst
    <2>3. Consider(lists, e, q) = [dirs |-> lists.dirs, files |-> <<e>> \o lists.files]
      BY <1>1, <1>4 DEF Consider
    <2> QED
      BY <1>1, <2>2, <2>3 DEF Lists, F
  <1> QED
    BY <1>2, <1>3, <1>4

(* The function in Found is what its definition says: each entry of the    *)
(* directory is considered after those before it.                          *)
LEMMA FindingType ==
    ASSUME tree \in Trees, NEW q, NEW n \in 0 .. Len(tree)
    PROVE  /\ Found(q, n) = Finding(q, n)[n]
           /\ \A k \in 0 .. n : /\ Finding(q, n)[k] = FindRound(k, Finding(q, n), q)
                               /\ Finding(q, n)[k] \in Lists(q)
  <1> DEFINE D == 0 .. n  S == Lists(q)
             m == [k \in D |-> k]
             h == [k \in D |-> [f \in [D -> S] |-> FindRound(k, f, q)]]
  <1>1. tree \in Seq(Entry) /\ Len(tree) \in Nat /\ n \in Nat
    BY ListingConstants, LenProperties
  <1>2. NoneFound \in S
    BY EmptySeq DEF Lists, NoneFound
  <1>3. ASSUME NEW k \in D, NEW f \in [D -> S]
        PROVE  FindRound(k, f, q) \in S
    <2>1. CASE k = 0
      BY <1>2, <2>1 DEF FindRound, Begin
    <2>2. CASE k # 0
      <3>1. k - 1 \in D /\ k \in DOMAIN tree
        BY <1>1, <2>2
      <3>2. tree[k] \in Range(tree) /\ f[k - 1] \in Lists(q)
        BY <3>1 DEF Range
      <3>3. FindRound(k, f, q) = Consider(f[k - 1], tree[k], q)
        BY <2>2 DEF FindRound
      <3> QED
        BY <3>2, <3>3, ConsiderType
    <2> QED
      BY <2>1, <2>2
  <1>4. ASSUME NEW k \in D, NEW f \in [D -> S], NEW g \in [D -> S],
               \A y \in D : m[y] < m[k] => f[y] = g[y]
        PROVE  FindRound(k, f, q) = FindRound(k, g, q)
    <2>1. CASE k = 0
      BY <2>1 DEF FindRound
    <2>2. CASE k # 0
      <3>1. k - 1 \in D /\ m[k - 1] < m[k]
        BY <1>1, <2>2
      <3> QED
        BY <1>4, <2>2, <3>1 DEF FindRound
    <2> QED
      BY <2>1, <2>2
  <1>5. \E f \in [D -> S] : \A k \in D : f[k] = FindRound(k, f, q)
    <2>1. h \in Rounds(D, S, m)
      BY <1>3, <1>4 DEF Rounds
    <2>2. m \in [D -> Nat] /\ S # {}
      BY <1>1, <1>2
    <2>3. \A k \in D : \A f \in [D -> S] : h[k][f] = FindRound(k, f, q)
      OBVIOUS
    <2> HIDE DEF D, S, m, h
    <2>4. PICK f \in [D -> S] : \A k \in D : f[k] = h[k][f]
      BY <2>1, <2>2, MeasureRecursion
    <2> QED
      BY <2>3, <2>4
  <1>6. PICK f \in [D -> S] : \A k \in D : f[k] = FindRound(k, f, q)
    BY <1>5
  <1>7. f = [k \in D |-> FindRound(k, f, q)]
    BY <1>6
  <1>8. Finding(q, n) = [k \in D |-> FindRound(k, Finding(q, n), q)]
    BY <1>7 DEF Finding
  <1>9. Found(q, n) = Finding(q, n)[n]
    BY DEF Found, Finding, FindRound
  <1> DEFINE F == Finding(q, n)
             T == {k \in Nat : k \in D => F[k] \in S}
  <1>10. \A k \in D : F[k] = FindRound(k, F, q)
    BY <1>8
  <1>11. 0 \in T
    BY <1>1, <1>2, <1>10 DEF FindRound, Begin
  <1>12. ASSUME NEW k \in Nat, k \in T
         PROVE  k + 1 \in T
    <2> SUFFICES ASSUME k + 1 \in D PROVE F[k + 1] \in S
      OBVIOUS
    <2>1. k \in D /\ k + 1 \in DOMAIN tree /\ (k + 1) - 1 = k /\ k + 1 # 0
      BY <1>1
    <2>2. F[k] \in Lists(q) /\ tree[k + 1] \in Range(tree)
      BY <1>12, <2>1 DEF Range
    <2>3. F[k + 1] = Consider(F[k], tree[k + 1], q)
      BY <1>10, <2>1 DEF FindRound
    <2> QED
      BY <2>2, <2>3, ConsiderType
  <1>13. Nat \subseteq T
    <2> HIDE DEF T
    <2> QED
      BY <1>11, <1>12, CountUp
  <1> QED
    BY <1>1, <1>9, <1>10, <1>13

(* What has been found is in the directory, folders with the folders.      *)
LEMMA FoundType ==
    ASSUME tree \in Trees, NEW q, NEW n \in 0 .. Len(tree)
    PROVE  Found(q, n) \in Lists(q)
  <1>1. n \in 0 .. n
    <2>1. Len(tree) \in Nat
      BY ListingConstants, LenProperties
    <2> QED
      BY <2>1
  <1> QED
    BY <1>1, FindingType

-----------------------------------------------------------------------------
(* The size of a reply. *)

(* The size with k entries, given what it is with fewer.                   *)
TotalRound(entries, k, f) ==
    IF k = 0 THEN READDIRX_HEADER_SIZE ELSE f[k - 1] + SizeOf(entries[k])

(* The function in TotalSize.                                              *)
Totaling(entries) ==
    CHOOSE total : total = [k \in 0 .. Len(entries) |-> TotalRound(entries, k, total)]

(* The size of an entry is a number, and a reply has room for one.         *)
LEMMA SizeOfType ==
    ASSUME NEW e \in Entry
    PROVE  /\ SizeOf(e) \in Nat /\ READDIRX_HEADER_SIZE \in Nat /\ TNFS_MAX_PAYLOAD \in Nat
           /\ READDIRX_HEADER_SIZE + SizeOf(e) <= TNFS_MAX_PAYLOAD
  <1>1. /\ READDIRX_HEADER_SIZE \in Nat /\ READDIRX_ENTRY_SIZE \in Nat /\ TNFS_MAX_PAYLOAD \in Nat
        /\ READDIRX_HEADER_SIZE + READDIRX_ENTRY_SIZE + Len(e.path) <= TNFS_MAX_PAYLOAD
    BY ListingConstants
  <1>2. Len(e.path) \in Nat
    BY EntryType
  <1> DEFINE n == Len(e.path)
  <1>3. SizeOf(e) = READDIRX_ENTRY_SIZE + n
    BY DEF SizeOf
  <1> HIDE DEF n
  <1>4. n \in Nat /\ READDIRX_HEADER_SIZE + READDIRX_ENTRY_SIZE + n <= TNFS_MAX_PAYLOAD
    BY <1>1, <1>2 DEF n
  <1> QED
    BY <1>1, <1>3, <1>4

(* The function in TotalSize is what its definition says.                  *)
LEMMA TotalEquation ==
    ASSUME NEW s \in Seq(Entry)
    PROVE  /\ TotalSize(s) = Totaling(s)[Len(s)] /\ Len(s) \in Nat
           /\ \A k \in 0 .. Len(s) : /\ Totaling(s)[k] \in Nat
                                     /\ Totaling(s)[k] = TotalRound(s, k, Totaling(s))
  <1> DEFINE D == 0 .. Len(s)
             m == [k \in D |-> k]
             h == [k \in D |-> [f \in [D -> Nat] |-> TotalRound(s, k, f)]]
  <1>1. Len(s) \in Nat
    BY LenProperties
  <1>2. ASSUME NEW k \in D, k # 0
        PROVE  k - 1 \in D /\ m[k - 1] < m[k] /\ SizeOf(s[k]) \in Nat
    <2>1. k - 1 \in D /\ k \in 1 .. Len(s)
      BY <1>1, <1>2
    <2>2. s[k] \in Entry
      BY <2>1
    <2> QED
      BY <2>1, <2>2, SizeOfType
  <1>3. READDIRX_HEADER_SIZE \in Nat
    BY ListingConstants
  <1>4. ASSUME NEW k \in D, NEW f \in [D -> Nat]
        PROVE  TotalRound(s, k, f) \in Nat
    <2>1. CASE k = 0
      BY <1>3, <2>1 DEF TotalRound
    <2>2. CASE k # 0
      <3>1. f[k - 1] \in Nat /\ SizeOf(s[k]) \in Nat
        BY <1>2, <2>2
      <3> QED
        BY <2>2, <3>1 DEF TotalRound
    <2> QED
      BY <2>1, <2>2
  <1>5. ASSUME NEW k \in D, NEW f \in [D -> Nat], NEW g \in [D -> Nat],
               \A y \in D : m[y] < m[k] => f[y] = g[y]
        PROVE  TotalRound(s, k, f) = TotalRound(s, k, g)
    <2>1. CASE k = 0
      BY <2>1 DEF TotalRound
    <2>2. CASE k # 0
      BY <1>2, <1>5, <2>2 DEF TotalRound
    <2> QED
      BY <2>1, <2>2
  <1>6. PICK f \in [D -> Nat] : \A k \in D : f[k] = TotalRound(s, k, f)
    <2> DEFINE S == Nat
    <2>1. h \in Rounds(D, S, m)
      BY <1>4, <1>5 DEF Rounds
    <2>2. m \in [D -> Nat] /\ S # {}
      BY <1>1
    <2>3. \A k \in D : \A f \in [D -> S] : h[k][f] = TotalRound(s, k, f)
      OBVIOUS
    <2> HIDE DEF D, S, m, h
    <2>4. PICK f \in [D -> S] : \A k \in D : f[k] = h[k][f]
      BY <2>1, <2>2, MeasureRecursion
    <2> QED
      BY <2>3, <2>4 DEF S
  <1>7. f = [k \in D |-> TotalRound(s, k, f)]
    BY <1>6
  <1> DEFINE F == Totaling(s)
  <1>8. F = [k \in D |-> TotalRound(s, k, F)]
    BY <1>7 DEF Totaling
  <1>9. TotalSize(s) = F[Len(s)]
    BY DEF TotalSize, Totaling, TotalRound
  <1> HIDE DEF F
  <1>10. \A k \in D : F[k] = TotalRound(s, k, F)
    BY <1>8
  <1> DEFINE T == {k \in Nat : k \in D => F[k] \in Nat}
  <1>11. 0 \in T
    BY <1>1, <1>3, <1>10 DEF TotalRound
  <1>12. ASSUME NEW k \in Nat, k \in T
         PROVE  k + 1 \in T
    <2> SUFFICES ASSUME k + 1 \in D PROVE F[k + 1] \in Nat
      OBVIOUS
    <2>1. k \in D /\ (k + 1) - 1 = k /\ k + 1 # 0
      BY <1>1
    <2>2. F[k] \in Nat /\ SizeOf(s[k + 1]) \in Nat
      BY <1>2, <1>12, <2>1
    <2>3. F[k + 1] = F[k] + SizeOf(s[k + 1])
      BY <1>10, <2>1 DEF TotalRound
    <2> QED
      BY <2>2, <2>3
  <1>13. Nat \subseteq T
    <2> HIDE DEF T
    <2> QED
      BY <1>11, <1>12, CountUp
  <1> QED
    BY <1>1, <1>9, <1>10, <1>13 DEF F

(* A reply without entries is the header.                                  *)
LEMMA TotalOfNone ==
    TotalSize(<<>>) = READDIRX_HEADER_SIZE
  <1> DEFINE s == <<>>
  <1>1. s \in Seq(Entry) /\ Len(s) = 0
    BY EmptySeq
  <1> HIDE DEF s
  <1>2. TotalSize(s) = TotalRound(s, 0, Totaling(s))
    <2> DEFINE F == Totaling(s)
    <2>1. /\ TotalSize(s) = F[Len(s)]
          /\ \A k \in 0 .. Len(s) : F[k] = TotalRound(s, k, F)
      BY <1>1, TotalEquation
    <2>2. 0 \in 0 .. Len(s)
      BY <1>1
    <2> QED
      BY <1>1, <2>1, <2>2
  <1> QED
    BY <1>2 DEF TotalRound, s

(* One entry more adds its size.                                           *)
LEMMA TotalOfMore ==
    ASSUME NEW s \in Seq(Entry), NEW t \in Seq(Entry), Len(t) = Len(s) + 1,
           \A i \in 1 .. Len(s) : t[i] = s[i]
    PROVE  /\ TotalSize(s) \in Nat
           /\ TotalSize(t) = TotalSize(s) + SizeOf(t[Len(t)])
  <1> DEFINE F == Totaling(s)  G == Totaling(t)  n == Len(s)
             T == {k \in Nat : k <= n => F[k] = G[k]}
  <1>1. /\ n \in Nat /\ TotalSize(s) = F[n] /\ F[n] \in Nat
        /\ \A k \in 0 .. n : F[k] = TotalRound(s, k, F)
    BY TotalEquation
  <1>2. /\ TotalSize(t) = G[n + 1]
        /\ \A k \in 0 .. n + 1 : G[k] = TotalRound(t, k, G)
    BY TotalEquation
  <1> HIDE DEF F, G, n
  <1>3. 0 \in T
    BY <1>1, <1>2 DEF TotalRound
  <1>4. ASSUME NEW k \in Nat, k \in T
        PROVE  k + 1 \in T
    <2> SUFFICES ASSUME k + 1 <= n PROVE F[k + 1] = G[k + 1]
      OBVIOUS
    <2>1. /\ k <= n /\ (k + 1) - 1 = k /\ k + 1 # 0
          /\ k + 1 \in 0 .. n /\ k + 1 \in 0 .. n + 1 /\ k + 1 \in 1 .. n
      BY <1>1
    <2>2. F[k] = G[k] /\ s[k + 1] = t[k + 1]
      BY <1>4, <2>1 DEF n
    <2> QED
      BY <1>1, <1>2, <2>1, <2>2 DEF TotalRound
  <1>5. Nat \subseteq T
    <2> HIDE DEF T
    <2> QED
      BY <1>3, <1>4, CountUp
  <1>6. F[n] = G[n]
    BY <1>1, <1>5
  <1>7. G[n + 1] = G[n] + SizeOf(t[n + 1])
    <2>1. n + 1 \in 0 .. n + 1 /\ (n + 1) - 1 = n /\ n + 1 # 0
      BY <1>1
    <2> QED
      BY <1>2, <2>1 DEF TotalRound
  <1>8. Len(t) = n + 1
    BY DEF n
  <1> QED
    BY <1>1, <1>2, <1>6, <1>7, <1>8

-----------------------------------------------------------------------------
(* How many entries a READDIRX sends. *)

Left == Len(list) - current

Places == (0 .. Left) \X Nat

(* How many are sent in the end, given that of the places after p.         *)
CountRound(p, f, n) ==
    IF current + p[1] = Len(list) \/ Enough(p[1], n) THEN p[1]
    ELSE LET total_size == p[2] + SizeOf(list[current + p[1] + 1])
         IN  IF total_size > TNFS_MAX_PAYLOAD THEN p[1]
             ELSE f[<<p[1] + 1, total_size>>]

(* The function in CountSent.                                              *)
Counting(n) == CHOOSE count : count = [p \in Places |-> CountRound(p, count, n)]

Before == [p \in Places |-> Left - p[1]]

(* The places there are.                                                   *)
LEMMA PlaceType ==
    ASSUME list \in Seq(Entry), current \in 0 .. Len(list)
    PROVE  /\ Len(list) \in Nat /\ current \in Nat /\ Left \in Nat
           /\ Before \in [Places -> Nat]
           /\ \A p \in Places : p[1] \in 0 .. Left /\ p[2] \in Nat /\ Before[p] = Left - p[1]
  <1>1. Len(list) \in Nat /\ current \in Nat /\ Left \in Nat
    BY LenProperties DEF Left
  <1>2. \A p \in Places : p[1] \in 0 .. Left /\ p[2] \in Nat /\ Left - p[1] \in Nat
    BY <1>1 DEF Places
  <1> QED
    BY <1>1, <1>2 DEF Before

(* The loop goes on at a place that is further on.                         *)
LEMMA NextPlace ==
    ASSUME list \in Seq(Entry), current \in 0 .. Len(list),
           NEW p \in Places, current + p[1] # Len(list)
    PROVE  LET e == list[current + p[1] + 1]
               next == <<p[1] + 1, p[2] + SizeOf(e)>>
           IN  /\ e \in Entry /\ SizeOf(e) \in Nat
               /\ next \in Places /\ Before[next] < Before[p]
  <1> DEFINE k == p[1]  len == Len(list)
             e == list[current + k + 1]  next == <<k + 1, p[2] + SizeOf(e)>>
  <1>1. /\ len \in Nat /\ current \in Nat /\ Left \in Nat /\ Left = len - current
        /\ k \in 0 .. Left /\ p[2] \in Nat /\ Before[p] = Left - k
    BY PlaceType DEF Left
  <1>2. e \in Entry
    <2>1. current + k + 1 \in 1 .. len
      <3> HIDE DEF k, len
      <3> QED
        BY <1>1 DEF k, len
    <2> QED
      BY <2>1
  <1>3. SizeOf(e) \in Nat
    BY <1>2, SizeOfType
  <1>4. next \in Places
    <2>1. k + 1 \in 0 .. Left
      BY <1>1
    <2>2. p[2] + SizeOf(e) \in Nat
      BY <1>1, <1>3
    <2> QED
      BY <2>1, <2>2 DEF Places
  <1>5. Before[next] = Left - (k + 1)
    BY <1>4 DEF Before
  <1>6. Left - (k + 1) < Left - k
    BY <1>1
  <1> QED
    BY <1>1, <1>2, <1>3, <1>4, <1>5, <1>6

(* The function in CountSent is what its definition says.                  *)
LEMMA CountEquation ==
    ASSUME list \in Seq(Entry), current \in 0 .. Len(list), NEW n
    PROVE  /\ CountSent(n) = Counting(n)[<<0, READDIRX_HEADER_SIZE>>]
           /\ \A p \in Places : Counting(n)[p] = CountRound(p, Counting(n), n)
  <1> DEFINE S == 0 .. Left
             h == [p \in Places |-> [f \in [Places -> S] |-> CountRound(p, f, n)]]
  <1>1. 0 \in S /\ \A p \in Places : p[1] \in S
    BY PlaceType
  <1>2. ASSUME NEW p \in Places, NEW f \in [Places -> S]
        PROVE  CountRound(p, f, n) \in S
    <2>1. CASE current + p[1] = Len(list)
      BY <1>1, <2>1 DEF CountRound
    <2>2. CASE current + p[1] # Len(list)
      <3> DEFINE next == <<p[1] + 1, p[2] + SizeOf(list[current + p[1] + 1])>>
      <3>1. next \in Places
        BY <2>2, NextPlace
      <3>2. CountRound(p, f, n) = p[1] \/ CountRound(p, f, n) = f[next]
        BY <2>2 DEF CountRound
      <3> HIDE DEF next
      <3> QED
        BY <1>1, <3>1, <3>2
    <2> QED
      BY <2>1, <2>2
  <1>3. ASSUME NEW p \in Places, NEW f \in [Places -> S], NEW g \in [Places -> S],
               \A y \in Places : Before[y] < Before[p] => f[y] = g[y]
        PROVE  CountRound(p, f, n) = CountRound(p, g, n)
    <2>1. CASE current + p[1] = Len(list)
      BY <2>1 DEF CountRound
    <2>2. CASE current + p[1] # Len(list)
      <3> DEFINE next == <<p[1] + 1, p[2] + SizeOf(list[current + p[1] + 1])>>
      <3>1. f[next] = g[next]
        <4>1. next \in Places /\ Before[next] < Before[p]
          BY <2>2, NextPlace
        <4> HIDE DEF next
        <4> QED
          BY <1>3, <4>1
      <3> QED
        BY <3>1 DEF CountRound
    <2> QED
      BY <2>1, <2>2
  <1>4. PICK f \in [Places -> S] : \A p \in Places : f[p] = CountRound(p, f, n)
    <2>1. h \in Rounds(Places, S, Before)
      BY <1>2, <1>3 DEF Rounds
    <2>2. Before \in [Places -> Nat] /\ S # {}
      BY <1>1, PlaceType
    <2>3. \A p \in Places : \A f \in [Places -> S] : h[p][f] = CountRound(p, f, n)
      OBVIOUS
    <2> HIDE DEF S, h
    <2>4. PICK f \in [Places -> S] : \A p \in Places : f[p] = h[p][f]
      BY <2>1, <2>2, MeasureRecursion
    <2> QED
      BY <2>3, <2>4
  <1>5. f = [p \in Places |-> CountRound(p, f, n)]
    BY <1>4
  <1>6. Counting(n) = [p \in Places |-> CountRound(p, Counting(n), n)]
    BY <1>5 DEF Counting
  <1>7. CountSent(n) = Counting(n)[<<0, READDIRX_HEADER_SIZE>>]
    BY DEF CountSent, Counting, CountRound, Places, Left
  <1> QED
    BY <1>6, <1>7

(* The next s entries.                                                     *)
Sent(s) == SubSeq(list, current + 1, current + s)

(* They may be sent when n are asked for, and they are all that may be.    *)
Fits(n, s) ==
    /\ s \in 0 .. Left
    /\ n # 0 => s <= n
    /\ TotalSize(Sent(s)) <= TNFS_MAX_PAYLOAD

Ends(n, s) ==
    \/ current + s = Len(list)
    \/ n # 0 /\ s = n
    \/ TotalSize(Sent(s)) + SizeOf(list[current + s + 1]) > TNFS_MAX_PAYLOAD

(* The next s entries are a list of s entries.                             *)
LEMMA SentType ==
    ASSUME list \in Seq(Entry), current \in 0 .. Len(list), NEW s \in 0 .. Left
    PROVE  /\ Sent(s) \in Seq(Entry) /\ Len(Sent(s)) = s
           /\ \A i \in 1 .. s : Sent(s)[i] = list[current + i]
  <1>1. /\ Len(list) \in Nat /\ current \in Nat /\ Left = Len(list) - current
    BY PlaceType DEF Left
  <1> DEFINE m == current + 1  n == current + s
  <1>2. /\ m \in 1 .. Len(list) + 1 /\ n \in m - 1 .. Len(list) /\ n - m + 1 = s
        /\ \A i \in 1 .. s : m + i - 1 = current + i
    BY <1>1
  <1>3. /\ SubSeq(list, m, n) \in Seq(Entry)
        /\ Len(SubSeq(list, m, n)) = n - m + 1
        /\ \A i \in 1 .. n - m + 1 : SubSeq(list, m, n)[i] = list[m + i - 1]
    <2> HIDE DEF m, n
    <2> QED
      BY <1>2, SubSeqProperties
  <1> QED
    BY <1>2, <1>3 DEF Sent

(* The size of a reply with one entry more.                                *)
LEMMA SentOneMore ==
    ASSUME list \in Seq(Entry), current \in 0 .. Len(list), NEW s \in 0 .. Left,
           current + s # Len(list)
    PROVE  /\ s + 1 \in 0 .. Left /\ TotalSize(Sent(s)) \in Nat
           /\ TotalSize(Sent(s + 1)) = TotalSize(Sent(s)) + SizeOf(list[current + s + 1])
  <1>1. /\ Len(list) \in Nat /\ current \in Nat /\ Left = Len(list) - current /\ Left \in Nat
    BY PlaceType DEF Left
  <1>2. s + 1 \in 0 .. Left /\ s \in Nat /\ current + (s + 1) = current + s + 1
    BY <1>1
  <1> DEFINE a == Sent(s)  b == Sent(s + 1)
  <1>3. /\ a \in Seq(Entry) /\ Len(a) = s
        /\ \A i \in 1 .. s : a[i] = list[current + i]
    BY SentType
  <1>4. /\ b \in Seq(Entry) /\ Len(b) = s + 1
        /\ \A i \in 1 .. s + 1 : b[i] = list[current + i]
    BY <1>2, SentType
  <1> HIDE DEF a, b
  <1>5. Len(b) = Len(a) + 1 /\ \A i \in 1 .. Len(a) : b[i] = a[i]
    BY <1>2, <1>3, <1>4
  <1>6. TotalSize(a) \in Nat /\ TotalSize(b) = TotalSize(a) + SizeOf(b[Len(b)])
    BY <1>3, <1>4, <1>5, TotalOfMore
  <1>7. b[Len(b)] = list[current + s + 1]
    BY <1>2, <1>4
  <1> QED
    BY <1>2, <1>6, <1>7 DEF a, b

(* From a place with the entries before it in the reply, as many more are  *)
(* sent as fit and are asked for.                                          *)
LEMMA CountIsRight ==
    ASSUME list \in Seq(Entry), current \in 0 .. Len(list), NEW n \in Nat,
           NEW q \in Places, q[2] = TotalSize(Sent(q[1])), Fits(n, q[1])
    PROVE  LET s == Counting(n)[q]
           IN  q[1] <= s /\ Fits(n, s) /\ Ends(n, s)
  <1> DEFINE F == Counting(n)
             Given(p) == p[2] = TotalSize(Sent(p[1])) /\ Fits(n, p[1])
             Right(p) == p[1] <= F[p] /\ Fits(n, F[p]) /\ Ends(n, F[p])
             T == {p \in Places : Given(p) => Right(p)}
  <1>1. \A p \in Places : F[p] = CountRound(p, F, n)
    BY CountEquation
  <1> HIDE DEF F
  <1>2. ASSUME NEW p \in Places, \A y \in Places : Before[y] < Before[p] => y \in T
        PROVE  p \in T
    <2> SUFFICES ASSUME Given(p) PROVE Right(p)
      <3> HIDE DEF Given, Right
      <3> QED
        OBVIOUS
    <2> DEFINE k == p[1]  e == list[current + k + 1]  next == <<k + 1, p[2] + SizeOf(e)>>
    <2>1. k \in 0 .. Left /\ Left \in Nat /\ k \in Nat
      BY PlaceType
    <2>2. CASE current + k = Len(list)
      <3>1. F[p] = k
        BY <1>1, <2>2 DEF CountRound
      <3> QED
        BY <2>1, <2>2, <3>1 DEF Ends
    <2>3. CASE current + k # Len(list) /\ Enough(k, n)
      <3>1. F[p] = k
        BY <1>1, <2>3 DEF CountRound
      <3>2. n # 0 /\ k = n
        BY <2>1, <2>3 DEF Enough, Fits
      <3> QED
        BY <2>1, <3>1, <3>2 DEF Ends
    <2>4. CASE current + k # Len(list) /\ ~ Enough(k, n) /\ p[2] + SizeOf(e) > TNFS_MAX_PAYLOAD
      <3>1. F[p] = k
        BY <1>1, <2>4 DEF CountRound
      <3> QED
        BY <2>1, <2>4, <3>1 DEF Ends
    <2>5. CASE current + k # Len(list) /\ ~ Enough(k, n) /\ ~ p[2] + SizeOf(e) > TNFS_MAX_PAYLOAD
      <3>1. F[p] = F[next]
        BY <1>1, <2>5 DEF CountRound
      <3>2. next \in Places /\ Before[next] < Before[p] /\ next[1] = k + 1
            /\ next[2] = p[2] + SizeOf(e) /\ SizeOf(e) \in Nat /\ e \in Entry
        BY <2>5, NextPlace
      <3>3. /\ k + 1 \in 0 .. Left /\ TotalSize(Sent(k)) \in Nat
            /\ TotalSize(Sent(k + 1)) = p[2] + SizeOf(e)
        BY <2>1, <2>5, SentOneMore
      <3>4. n # 0 => k + 1 <= n
        BY <2>1, <2>5 DEF Enough
      <3>5. TNFS_MAX_PAYLOAD \in Nat /\ p[2] \in Nat
        BY <3>2, PlaceType, SizeOfType
      <3>6. p[2] + SizeOf(e) <= TNFS_MAX_PAYLOAD
        BY <2>5, <3>2, <3>5
      <3>7. Given(next)
        BY <3>2, <3>3, <3>4, <3>6 DEF Fits
      <3>8. next \in T
        BY <1>2, <3>2
      <3>9. Right(next)
        BY <3>7, <3>8
      <3>10. k <= F[next]
        <4>1. F[next] \in 0 .. Left /\ k + 1 <= F[next]
          BY <3>2, <3>9 DEF Fits
        <4> QED
          BY <2>1, <4>1
      <3> QED
        BY <3>1, <3>9, <3>10
    <2> QED
      BY <2>2, <2>3, <2>4, <2>5
  <1>3. Places \subseteq T
    <2>1. \A p \in Places : (\A y \in Places : Before[y] < Before[p] => y \in T) => p \in T
      BY <1>2
    <2>2. Before \in [Places -> Nat]
      BY PlaceType
    <2> HIDE DEF T
    <2> QED
      BY <2>1, <2>2, MeasureInduction
  <1>4. Given(q)
    OBVIOUS
  <1>5. Right(q)
    BY <1>3, <1>4
  <1> QED
    BY <1>5 DEF F

(* READDIRX sends at least one entry while there are any, and as many as   *)
(* fit and are asked for.                                                  *)
LEMMA CountSentIsRight ==
    ASSUME list \in Seq(Entry), current \in 0 .. Len(list), current # Len(list), NEW n \in Nat
    PROVE  /\ CountSent(n) \in 1 .. Left
           /\ Fits(n, CountSent(n)) /\ Ends(n, CountSent(n))
  <1> DEFINE F == Counting(n)  q == <<0, READDIRX_HEADER_SIZE>>
             e == list[current + 1]  q1 == <<1, READDIRX_HEADER_SIZE + SizeOf(e)>>
  <1>1. /\ Len(list) \in Nat /\ current \in Nat /\ Left \in Nat /\ Left = Len(list) - current
        /\ current + 0 = current /\ current + 0 + 1 = current + 1 /\ 0 + 1 = 1
    BY PlaceType DEF Left
  <1>2. READDIRX_HEADER_SIZE \in Nat /\ TNFS_MAX_PAYLOAD \in Nat
    BY ListingConstants
  <1>3. q \in Places
    BY <1>1, <1>2 DEF Places
  <1>4. e \in Entry /\ SizeOf(e) \in Nat /\ q1 \in Places
    BY <1>1, <1>3, NextPlace
  <1>5. READDIRX_HEADER_SIZE + SizeOf(e) <= TNFS_MAX_PAYLOAD
    BY <1>4, SizeOfType
  <1>6. ~ Enough(0, n)
    BY DEF Enough
  <1>7. CountSent(n) = F[q1]
    <2>1. CountSent(n) = CountRound(q, F, n)
      BY <1>3, CountEquation
    <2>2. ~ READDIRX_HEADER_SIZE + SizeOf(e) > TNFS_MAX_PAYLOAD
      BY <1>2, <1>4, <1>5
    <2> QED
      BY <1>1, <1>6, <2>1, <2>2 DEF CountRound
  <1>8. TotalSize(Sent(1)) = READDIRX_HEADER_SIZE + SizeOf(e)
    <2>1. Sent(0) = <<>>
      <3>1. Sent(0) \in Seq(Entry) /\ Len(Sent(0)) = 0
        BY <1>1, SentType
      <3> QED
        BY <3>1, EmptySeq
    <2>2. TotalSize(Sent(0 + 1)) = TotalSize(Sent(0)) + SizeOf(list[current + 0 + 1])
      BY <1>1, SentOneMore
    <2> QED
      BY <1>1, <2>1, <2>2, TotalOfNone
  <1>9. Fits(n, 1)
    BY <1>1, <1>5, <1>8 DEF Fits
  <1>10. 1 <= F[q1] /\ Fits(n, F[q1]) /\ Ends(n, F[q1])
    <2>1. q1[1] = 1 /\ q1[2] = TotalSize(Sent(q1[1]))
      BY <1>8
    <2> HIDE DEF q1, F
    <2>2. /\ q1 \in Places /\ q1[2] = TotalSize(Sent(q1[1])) /\ Fits(n, q1[1])
      BY <1>4, <1>9, <2>1
    <2> QED
      BY <2>1, <2>2, CountIsRight DEF F
  <1>11. F[q1] \in 1 .. Left
    <2> DEFINE s == F[q1]
    <2>1. s \in 0 .. Left
      BY <1>10 DEF Fits
    <2> HIDE DEF s
    <2> QED
      BY <1>1, <1>10, <2>1 DEF s
  <1> QED
    BY <1>7, <1>10, <1>11

-----------------------------------------------------------------------------
(* What a listing may contain. *)

(* Sorting keeps the entries.                                              *)
LEMMA SortedKeeps ==
    ASSUME NEW X, X \subseteq Entry, NEW s \in Seq(X), NEW sort
    PROVE  /\ Sorted(s, sort) \in Seq(X)
           /\ Range(Sorted(s, sort)) = Range(s) /\ Len(Sorted(s, sort)) = Len(s)
  <1> DEFINE R == X \X X
  <1>1. Decides(sort, R, X)
    BY DEF Decides
  <1> HIDE DEF R
  <1>2. /\ MergeSort(s, sort) \in Seq(X)
        /\ Range(MergeSort(s, sort)) = Range(s) /\ Len(MergeSort(s, sort)) = Len(s)
    BY <1>1, SortInOrder
  <1> QED
    BY <1>2 DEF Sorted

(* Sorting puts entries that are near in order.                            *)
LEMMA SortedInOrder ==
    ASSUME NEW X, X \subseteq Entry, AllNear(X), NEW s \in Seq(X), NEW sort, "NONE" \notin sort
    PROVE  OrderedBy(Sorted(s, sort), InOrderPairs(sort, X))
  <1> DEFINE R == InOrderPairs(sort, X)
  <1>1. Decides(sort, R, X)
    BY OrderDecided
  <1> HIDE DEF R
  <1>2. OrderedBy(MergeSort(s, sort), R)
    BY <1>1, SortInOrder
  <1> QED
    BY <1>2 DEF Sorted, R

(* The type invariant, with the list as a list.                            *)
ListInvariant == TypeOK /\ list \in Seq(Range(tree))

(* A directory is a list of entries.                                       *)
LEMMA TreeType ==
    ASSUME tree \in Trees
    PROVE  /\ tree \in Seq(Entry) /\ Range(tree) \subseteq Entry /\ Len(tree) \in Nat
           /\ tree \in Seq(Range(tree))
  <1>1. tree \in Seq(Entry)
    BY ListingConstants
  <1>2. Range(tree) \subseteq Entry
    BY <1>1, RangeInSet
  <1>3. tree \in Seq(Range(tree))
    BY <1>1, ListOverRange
  <1> QED
    BY <1>1, <1>2, <1>3, LenProperties

(* The list of an OPENDIRX: what was found, in the two parts.              *)
LEMMA OpenedList ==
    ASSUME tree \in Trees, NEW q, OpenX(q)
    PROVE  \E d, f : /\ Found(q, Len(tree)) = [dirs |-> d, files |-> f]
                     /\ d \in Seq(Folders(q)) /\ f \in Seq(Files(q))
                     /\ list' = Sorted(d, q.sort) \o Sorted(f, q.sort)
                     /\ found' = IF Has(q, "TRAVERSE") THEN [dirs |-> d, files |-> f] ELSE found
  <1>1. Len(tree) \in 0 .. Len(tree)
    BY TreeType
  <1>2. Found(q, Len(tree)) \in Lists(q)
    BY <1>1, FoundType
  <1>3. PICK d \in Seq(Folders(q)), f \in Seq(Files(q)) :
            Found(q, Len(tree)) = [dirs |-> d, files |-> f]
    BY <1>2 DEF Lists
  <1> DEFINE lists == Found(q, Len(tree))
  <1>4. /\ list' = Sorted(lists.dirs, q.sort) \o Sorted(lists.files, q.sort)
        /\ found' = IF Has(q, "TRAVERSE") THEN lists ELSE found
    BY DEF OpenX
  <1>5. lists = [dirs |-> d, files |-> f]
    BY <1>3
  <1> HIDE DEF lists
  <1>6. /\ list' = Sorted(d, q.sort) \o Sorted(f, q.sort)
        /\ found' = IF Has(q, "TRAVERSE") THEN [dirs |-> d, files |-> f] ELSE found
    BY <1>4, <1>5
  <1> WITNESS d, f
  <1> QED
    BY <1>3, <1>6

(* The sorted parts, and the list they make.                               *)
LEMMA SortedParts ==
    ASSUME tree \in Trees, NEW q, NEW d \in Seq(Folders(q)), NEW f \in Seq(Files(q)), NEW sort
    PROVE  LET a == Sorted(d, sort)
               b == Sorted(f, sort)
           IN  /\ a \in Seq(Folders(q)) /\ b \in Seq(Files(q))
               /\ a \o b \in Seq(Range(tree)) /\ Range(a \o b) = Range(d) \cup Range(f)
               /\ Len(a) \in Nat /\ Len(b) \in Nat /\ Len(a \o b) = Len(a) + Len(b)
               /\ Len(a) = Len(d) /\ Len(b) = Len(f)
               /\ \A i \in 1 .. Len(a) + Len(b) :
                     (a \o b)[i] = IF i <= Len(a) THEN a[i] ELSE b[i - Len(a)]
  <1> DEFINE a == Sorted(d, sort)  b == Sorted(f, sort)  X == Range(tree)
  <1>1. Folders(q) \subseteq X /\ Files(q) \subseteq X /\ X \subseteq Entry
    BY TreeType DEF Folders, Files
  <1>2. /\ a \in Seq(Folders(q)) /\ Range(a) = Range(d) /\ Len(a) = Len(d)
        /\ b \in Seq(Files(q)) /\ Range(b) = Range(f) /\ Len(b) = Len(f)
    <2>1. Folders(q) \subseteq Entry /\ Files(q) \subseteq Entry
      BY <1>1
    <2> QED
      BY <2>1, SortedKeeps
  <1> HIDE DEF a, b, X
  <1>3. a \in Seq(X) /\ b \in Seq(X)
    BY <1>1, <1>2, SeqMonotonic
  <1>4. /\ a \o b \in Seq(X) /\ Len(a \o b) = Len(a) + Len(b)
        /\ \A i \in 1 .. Len(a) + Len(b) :
              (a \o b)[i] = IF i <= Len(a) THEN a[i] ELSE b[i - Len(a)]
        /\ Range(a \o b) = Range(a) \cup Range(b)
    BY <1>3, Joined
  <1> QED
    BY <1>2, <1>3, <1>4, LenProperties DEF a, b, X

(* What READDIRX does when there is a next entry.                          *)
LEMMA ReadMoves ==
    ASSUME ListInvariant, NEW n \in 0 .. MaxCount, ReadX(n), current # Len(list)
    PROVE  /\ list \in Seq(Entry) /\ current \in 0 .. Len(list) /\ n \in Nat
           /\ CountSent(n) \in 1 .. Left /\ Fits(n, CountSent(n)) /\ Ends(n, CountSent(n))
           /\ current' = current + CountSent(n) /\ current' \in 0 .. Len(list)
           /\ Len(list) \in Nat /\ current \in Nat /\ Left = Len(list) - current
  <1>1. list \in Seq(Entry) /\ current \in 0 .. Len(list)
    <2>1. Range(tree) \subseteq Entry
      BY TreeType DEF ListInvariant, TypeOK
    <2> QED
      BY <2>1, SeqMonotonic DEF ListInvariant, TypeOK
  <1>2. n \in Nat
    BY ListingConstants
  <1>3. CountSent(n) \in 1 .. Left /\ Fits(n, CountSent(n)) /\ Ends(n, CountSent(n))
    BY <1>1, <1>2, CountSentIsRight
  <1>4. current' = current + CountSent(n)
    BY DEF ReadX
  <1>5. Len(list) \in Nat /\ current \in Nat /\ Left = Len(list) - current
    BY <1>1, PlaceType DEF Left
  <1>6. current' \in 0 .. Len(list)
    <2> DEFINE s == CountSent(n)  len == Len(list)
    <2> HIDE DEF s, len
    <2>1. s \in 1 .. Left /\ len \in Nat /\ Left = len - current /\ current' = current + s
      BY <1>3, <1>4, <1>5 DEF s, len
    <2>2. current' \in 0 .. len
      BY <1>5, <2>1
    <2> QED
      BY <2>2 DEF len
  <1> QED
    BY <1>1, <1>2, <1>3, <1>4, <1>5, <1>6

(* A directory just served has the invariant.                              *)
LEMMA InitKeepsType ==
    Init => ListInvariant
  <1> SUFFICES ASSUME Init PROVE ListInvariant
    OBVIOUS
  <1>1. list = <<>> /\ current = 0 /\ found = NoneFound /\ request = NoRequest
    BY DEF Init
  <1>2. Range(<<>>) = {} /\ Len(list) = 0
    BY <1>1 DEF Range
  <1>3. Range(found.dirs) \cup Range(found.files) \cup Range(list) \subseteq Range(tree)
    BY <1>1, <1>2 DEF NoneFound
  <1>4. current \in 0 .. Len(list)
    BY <1>1, <1>2
  <1>5. list \in Seq(Range(tree))
    BY <1>1, EmptySeq
  <1> QED
    BY <1>1, <1>3, <1>4, <1>5 DEF Init, ListInvariant, TypeOK

(* Every request keeps it.                                                 *)
LEMMA NextKeepsType ==
    ListInvariant /\ [Next]_vars => ListInvariant'
  <1> SUFFICES ASSUME ListInvariant, [Next]_vars PROVE ListInvariant'
    OBVIOUS
  <1>1. /\ tree \in Trees /\ ignore \in Ignores /\ request \in Requests \cup {NoRequest}
        /\ Range(found.dirs) \cup Range(found.files) \cup Range(list) \subseteq Range(tree)
        /\ current \in 0 .. Len(list) /\ list \in Seq(Range(tree)) /\ Len(list) \in Nat
    BY LenProperties DEF ListInvariant, TypeOK
  <1>2. ASSUME NEW q, NEW n \in 0 .. Len(tree)
        PROVE  Range(Found(q, n).dirs) \cup Range(Found(q, n).files) \subseteq Range(tree)
    <2>1. Found(q, n) \in Lists(q)
      BY <1>1, FoundType
    <2>2. Found(q, n).dirs \in Seq(Folders(q)) /\ Found(q, n).files \in Seq(Files(q))
      BY <2>1 DEF Lists
    <2>3. Range(Found(q, n).dirs) \subseteq Folders(q) /\ Range(Found(q, n).files) \subseteq Files(q)
      BY <2>2, RangeInSet
    <2> QED
      BY <2>3 DEF Folders, Files
  <1>3. ASSUME NEW q \in Requests, OpenX(q)
        PROVE  ListInvariant'
    <2>1. PICK d, f : /\ Found(q, Len(tree)) = [dirs |-> d, files |-> f]
                      /\ d \in Seq(Folders(q)) /\ f \in Seq(Files(q))
                      /\ list' = Sorted(d, q.sort) \o Sorted(f, q.sort)
                      /\ found' = IF Has(q, "TRAVERSE") THEN [dirs |-> d, files |-> f] ELSE found
      BY <1>1, <1>3, OpenedList
    <2>2. list' \in Seq(Range(tree)) /\ Range(list') = Range(d) \cup Range(f)
      BY <1>1, <2>1, SortedParts
    <2>3. Range(d) \cup Range(f) \subseteq Range(tree)
      <3>1. Len(tree) \in 0 .. Len(tree)
        BY <1>1, TreeType
      <3> QED
        BY <1>2, <2>1, <3>1
    <2>4. Range(found'.dirs) \cup Range(found'.files) \subseteq Range(tree)
      BY <1>1, <2>1, <2>3
    <2>5. tree' = tree /\ ignore' = ignore /\ request' = q /\ current' = 0
      BY <1>3 DEF OpenX
    <2>6. current' \in 0 .. Len(list')
      BY <2>2, <2>5, LenProperties
    <2> QED
      BY <1>1, <2>2, <2>3, <2>4, <2>5, <2>6 DEF ListInvariant, TypeOK
  <1>4. ASSUME NEW q \in Failing, OpenFails(q)
        PROVE  ListInvariant'
    <2>1. /\ tree' = tree /\ ignore' = ignore /\ request' = request
          /\ list' = list /\ current' = current
      BY <1>4 DEF OpenFails
    <2>2. Range(found'.dirs) \cup Range(found'.files) \subseteq Range(tree)
      <3>1. CASE Has(q, "TRAVERSE")
        <4>1. PICK n \in 0 .. Len(tree) : found' = Found(q, n)
          BY <1>4, <3>1 DEF OpenFails
        <4> QED
          BY <1>2, <4>1
      <3>2. CASE ~ Has(q, "TRAVERSE")
        BY <1>1, <1>4, <3>2 DEF OpenFails
      <3> QED
        BY <3>1, <3>2
    <2> QED
      BY <1>1, <2>1, <2>2 DEF ListInvariant, TypeOK
  <1>5. ASSUME NEW n \in 0 .. MaxCount, ReadX(n)
        PROVE  ListInvariant'
    <2>1. /\ tree' = tree /\ ignore' = ignore /\ request' = request
          /\ list' = list /\ found' = found
      BY <1>5 DEF ReadX
    <2>2. current' \in 0 .. Len(list)
      <3>1. CASE current = Len(list)
        BY <1>1, <1>5, <3>1 DEF ReadX
      <3>2. CASE current # Len(list)
        BY <1>5, <3>2, ReadMoves
      <3> QED
        BY <3>1, <3>2
    <2> QED
      BY <1>1, <2>1, <2>2 DEF ListInvariant, TypeOK
  <1>6. ASSUME NEW index \in 0 .. Len(list) + 1, SeekDir(index)
        PROVE  ListInvariant'
    <2>1. /\ tree' = tree /\ ignore' = ignore /\ request' = request
          /\ list' = list /\ found' = found
      BY <1>6 DEF SeekDir
    <2>2. NodeAt(index) \in 0 .. Len(list)
      BY <1>1 DEF NodeAt
    <2>3. current' \in 0 .. Len(list)
      BY <1>1, <1>6, <2>2 DEF SeekDir, WithoutList
    <2> QED
      BY <1>1, <2>1, <2>3 DEF ListInvariant, TypeOK
  <1>7. ASSUME TellDir
        PROVE  ListInvariant'
    BY <1>1, <1>7 DEF TellDir, WithoutList, ListInvariant, TypeOK
  <1>8. ASSUME UNCHANGED vars
        PROVE  ListInvariant'
    BY <1>1, <1>8 DEF vars, ListInvariant, TypeOK
  <1> QED
    BY <1>3, <1>4, <1>5, <1>6, <1>7, <1>8 DEF Next

(* What _load_directory() and _traverse_directory() list is in the         *)
(* directory, and READDIRX and SEEKDIR stay within the list.               *)
THEOREM TypeCorrect ==
    Spec => []TypeOK
  <1>1. Spec => []ListInvariant
    BY InitKeepsType, NextKeepsType, PTL DEF Spec
  <1>2. ListInvariant => TypeOK
    BY DEF ListInvariant
  <1> QED
    BY <1>1, <1>2, PTL

-----------------------------------------------------------------------------
(* What a listing has. *)

(* The path of an entry is a name, from the directory and from the root.   *)
LEMMA EntryNamed ==
    ASSUME NEW e \in Entry
    PROVE  /\ Named(DOMAIN Code, e.path)
           /\ Named({Slash} \cup DOMAIN Code, FromRoot(e))
  <1> DEFINE s == e.path  n == Len(s)  C == {Slash} \cup DOMAIN Code  w == <<Slash>>
             t == w \o s
  <1>1. s \in Seq(DOMAIN Code) /\ s # <<>> /\ s[n] # Slash
    BY ListingConstants
  <1>2. Named(DOMAIN Code, s)
    BY <1>1 DEF Named
  <1>3. s \in Seq(C) /\ w \in Seq(C) /\ Len(w) = 1
    BY <1>1, SeqMonotonic
  <1>4. n \in Nat /\ n # 0
    BY <1>1, LenProperties, EmptySeq
  <1>5. /\ t \in Seq(C) /\ Len(t) = Len(w) + n
        /\ \A i \in 1 .. Len(w) + n : t[i] = IF i <= Len(w) THEN w[i] ELSE s[i - Len(w)]
    <2> HIDE DEF s, w, C
    <2> QED
      BY <1>3, ConcatProperties
  <1> HIDE DEF s, n, w, t
  <1>6. Len(t) = 1 + n /\ 1 + n \in 1 .. 1 + n /\ ~ 1 + n <= 1 /\ (1 + n) - 1 = n
    BY <1>3, <1>4, <1>5
  <1>7. t[1 + n] = s[n]
    BY <1>3, <1>5, <1>6
  <1>8. t # <<>>
    BY <1>4, <1>5, <1>6, EmptySeq
  <1>9. Named(C, t)
    BY <1>1, <1>5, <1>6, <1>7, <1>8 DEF Named
  <1> QED
    BY <1>2, <1>9 DEF FromRoot, s, t, w

(* Of patterns with a meaning, what the matchers leave out is what the     *)
(* patterns mean to leave out.                                             *)
LEMMA SkippedOrWanted ==
    ASSUME ignore \in Ignores, NEW q \in Requests, Meaningful(q), NEW e \in Entry
    PROVE  Skipped(e, q) <=> ~ Wanted(e, q)
  <1>1. Named(DOMAIN Code, e.path) /\ Named({Slash} \cup DOMAIN Code, FromRoot(e))
    BY EntryNamed
  <1>2. q.pattern \in Seq(Token) /\ \A p \in ignore : p \in Seq(Token) /\ WellFormed(p)
    BY ListingConstants DEF Meaningful
  <1>3. ASSUME NEW C, NEW text, Named(C, text), NEW p \in Seq(Token), WellFormed(p)
        PROVE  gitignore_glob_match(text, p) <=> MatchesPath(text, p)
    BY <1>3, PathsAreMatched DEF Named
  <1>4. ASSUME NEW p \in ignore
        PROVE  /\ gitignore_glob_match(e.path, p) <=> MatchesPath(e.path, p)
               /\ gitignore_glob_match(FromRoot(e), p) <=> MatchesPath(FromRoot(e), p)
    BY <1>1, <1>2, <1>3
  <1>5. Ignored(e, q) <=>
          ~ \A p \in ignore : /\ ~ MatchesPath(e.path, p)
                              /\ Has(q, "TRAVERSE") => ~ MatchesPath(FromRoot(e), p)
    BY <1>4 DEF Ignored
  <1>6. Matching(e, q) <=> IF Has(q, "TRAVERSE") THEN MatchesPath(FromRoot(e), q.pattern)
                           ELSE MatchesWildcard(e.path, q.pattern)
    <2>1. CASE Has(q, "TRAVERSE")
      <3>1. WellFormed(q.pattern)
        BY <2>1 DEF Meaningful
      <3>2. gitignore_glob_match(FromRoot(e), q.pattern) <=> MatchesPath(FromRoot(e), q.pattern)
        BY <1>1, <1>2, <1>3, <3>1
      <3> QED
        BY <2>1, <3>2 DEF Matching
    <2>2. CASE ~ Has(q, "TRAVERSE")
      <3>1. e.path \in Seq(DOMAIN Code)
        BY <1>1 DEF Named
      <3>2. pattern_match(e.path, q.pattern) <=> MatchesWildcard(e.path, q.pattern)
        BY <1>2, <3>1, WildcardsAreMatched
      <3> QED
        BY <2>2, <3>2 DEF Matching
    <2> QED
      BY <2>1, <2>2
  <1> QED
    BY <1>5, <1>6 DEF Skipped, Wanted

(* The wanted ones are numbered.                                           *)
LEMMA WantedType ==
    ASSUME NEW q, NEW k \in Nat
    PROVE  /\ WantedAmong(q, k) \subseteq 1 .. k /\ FirstWanted(q, k) \subseteq 1 .. k
           /\ FirstWanted(q, k) \subseteq WantedAmong(q, k)
           /\ IsFiniteSet(WantedAmong(q, k)) /\ IsFiniteSet(FirstWanted(q, k))
           /\ Cardinality(WantedAmong(q, k)) \in Nat /\ Cardinality(FirstWanted(q, k)) \in Nat
           /\ Cardinality(FirstWanted(q, k)) <= Cardinality(WantedAmong(q, k))
  <1> DEFINE W == WantedAmong(q, k)  F == FirstWanted(q, k)
  <1>1. W \subseteq 1 .. k /\ F \subseteq W
    BY DEF WantedAmong, FirstWanted
  <1>2. IsFiniteSet(1 .. k)
    BY FS_Interval
  <1> HIDE DEF W, F
  <1>3. IsFiniteSet(W)
    BY <1>1, <1>2, FS_Subset
  <1>4. IsFiniteSet(F) /\ Cardinality(F) <= Cardinality(W)
    BY <1>1, <1>3, FS_Subset
  <1>5. Cardinality(W) \in Nat /\ Cardinality(F) \in Nat
    BY <1>3, <1>4, FS_CardinalityType
  <1> QED
    BY <1>1, <1>3, <1>4, <1>5 DEF W, F

(* There may be one more than the first count of them.                     *)
Room(q, count) == q.maxresults = 0 \/ count < q.maxresults

(* Of one more entry, it is wanted or not, and one of the first or not.    *)
LEMMA WantedNext ==
    ASSUME NEW q, q.maxresults \in Nat, NEW k \in Nat
    PROVE  LET W == WantedAmong(q, k)
               F == FirstWanted(q, k)
               more == Wanted(tree[k + 1], q)
           IN  /\ WantedAmong(q, k + 1) = IF more THEN W \cup {k + 1} ELSE W
               /\ Cardinality(WantedAmong(q, k + 1)) = Cardinality(W) + IF more THEN 1 ELSE 0
               /\ FirstWanted(q, k + 1) =
                     IF more /\ Room(q, Cardinality(W)) THEN F \cup {k + 1} ELSE F
               /\ Cardinality(FirstWanted(q, k + 1)) =
                     Cardinality(F) + IF more /\ Room(q, Cardinality(W)) THEN 1 ELSE 0
  <1> DEFINE W == WantedAmong(q, k)  F == FirstWanted(q, k)
             more == Wanted(tree[k + 1], q)
             W2 == WantedAmong(q, k + 1)  F2 == FirstWanted(q, k + 1)
             count == Cardinality(W)  max == q.maxresults
  <1>1. /\ W \subseteq 1 .. k /\ F \subseteq W /\ F \subseteq 1 .. k
        /\ IsFiniteSet(W) /\ IsFiniteSet(F) /\ count \in Nat /\ Cardinality(F) \in Nat
    BY WantedType
  <1>2. k + 1 \notin W /\ k + 1 \notin F
    <2>1. k + 1 \notin 1 .. k
      OBVIOUS
    <2> HIDE DEF W, F
    <2> QED
      BY <1>1, <2>1
  <1>3. W2 = IF more THEN W \cup {k + 1} ELSE W
    <2>1. 1 .. k + 1 = (1 .. k) \cup {k + 1}
      OBVIOUS
    <2> QED
      BY <2>1 DEF WantedAmong
  <1>4. Cardinality(W2) = count + IF more THEN 1 ELSE 0
    <2>1. Cardinality(W \cup {k + 1}) = count + 1
      <3> HIDE DEF W
      <3> QED
        BY <1>1, <1>2, FS_AddElement
    <2> HIDE DEF W, W2, more, count
    <2>2. CASE more
      BY <1>3, <2>1, <2>2
    <2>3. CASE ~ more
      BY <1>1, <1>3, <2>3 DEF count
    <2> QED
      BY <2>2, <2>3
  <1>5. F = {j \in W : max = 0 \/ Cardinality(WantedAmong(q, j)) <= max}
    BY DEF FirstWanted
  <1>6. F2 = {j \in W2 : max = 0 \/ Cardinality(WantedAmong(q, j)) <= max}
    BY DEF FirstWanted
  <1>7. F2 = IF more /\ Room(q, count) THEN F \cup {k + 1} ELSE F
    <2>1. CASE more
      <3>1. Cardinality(W2) = count + 1
        BY <1>4, <2>1
      <3>2. (max = 0 \/ Cardinality(W2) <= max) <=> Room(q, count)
        <4> HIDE DEF W, W2, more, count
        <4> QED
          BY <1>1, <3>1 DEF Room
      <3>3. W2 = W \cup {k + 1}
        BY <1>3, <2>1
      <3> DEFINE In(j) == max = 0 \/ Cardinality(WantedAmong(q, j)) <= max
      <3>4. In(k + 1) <=> Room(q, count)
        BY <3>2
      <3>5. F = {j \in W : In(j)} /\ F2 = {j \in W2 : In(j)}
        BY <1>5, <1>6
      <3> HIDE DEF In, W, W2, F, F2, more, count
      <3> QED
        BY <2>1, <3>3, <3>4, <3>5
    <2>2. CASE ~ more
      BY <1>3, <1>5, <1>6, <2>2
    <2> QED
      BY <2>1, <2>2
  <1>8. Cardinality(F2) = Cardinality(F) + IF more /\ Room(q, count) THEN 1 ELSE 0
    <2>1. Cardinality(F \cup {k + 1}) = Cardinality(F) + 1
      <3> HIDE DEF F
      <3> QED
        BY <1>1, <1>2, FS_AddElement
    <2> HIDE DEF W, F, F2, more, count
    <2>2. CASE more /\ Room(q, count)
      BY <1>7, <2>1, <2>2
    <2>3. CASE ~ (more /\ Room(q, count))
      BY <1>1, <1>7, <2>3
    <2> QED
      BY <2>2, <2>3
  <1> QED
    BY <1>3, <1>4, <1>7, <1>8

(* The entries in the lists, and how many there are.                       *)
Listed(lists) == Range(lists.dirs) \cup Range(lists.files)

Total(lists) == Len(lists.dirs) + Len(lists.files)

(* An entry that is taken is one more.                                     *)
LEMMA ConsiderAdds ==
    ASSUME NEW q, NEW lists \in Lists(q), NEW e \in Range(tree)
    PROVE  /\ Total(lists) \in Nat
           /\ IF Stopped(lists, q) \/ Skipped(e, q) THEN Consider(lists, e, q) = lists
              ELSE /\ Total(Consider(lists, e, q)) = Total(lists) + 1
                   /\ Listed(Consider(lists, e, q)) = Listed(lists) \cup {e}
  <1> DEFINE d == lists.dirs  f == lists.files  next == Consider(lists, e, q)
             X == {e} \cup Range(tree)
  <1>1. lists = [dirs |-> d, files |-> f] /\ d \in Seq(Folders(q)) /\ f \in Seq(Files(q))
    BY DEF Lists
  <1>2. Folders(q) \subseteq X /\ Files(q) \subseteq X /\ e \in X
    BY DEF Folders, Files
  <1>3. /\ d \in Seq(X) /\ f \in Seq(X) /\ Len(d) \in Nat /\ Len(f) \in Nat
    <2> HIDE DEF X, d, f
    <2> QED
      BY <1>1, <1>2, SeqMonotonic, LenProperties
  <1>4. /\ Len(<<e>> \o d) = 1 + Len(d) /\ Range(<<e>> \o d) = {e} \cup Range(d)
        /\ Len(<<e>> \o f) = 1 + Len(f) /\ Range(<<e>> \o f) = {e} \cup Range(f)
    <2> HIDE DEF X, d, f
    <2> QED
      BY <1>2, <1>3, PutFirst
  <1>5. CASE Stopped(lists, q) \/ Skipped(e, q)
    <2>1. next = lists
      BY <1>5 DEF Consider
    <2>2. \A a, b \in Nat : a + b \in Nat
      OBVIOUS
    <2> HIDE DEF d, f
    <2>3. Len(d) + Len(f) \in Nat
      BY <1>3, <2>2
    <2> QED
      BY <1>5, <2>1, <2>3 DEF Total, d, f
  <1>6. CASE ~ (Stopped(lists, q) \/ Skipped(e, q))
    <2>1. \/ next = [dirs |-> <<e>> \o d, files |-> f]
          \/ next = [dirs |-> d, files |-> <<e>> \o f]
      BY <1>1, <1>6 DEF Consider
    <2>2. Listed(lists) = Range(d) \cup Range(f) /\ Total(lists) = Len(d) + Len(f)
      BY DEF Listed, Total
    <2> HIDE DEF d, f, next
    <2>3. \/ /\ Total(next) = Len(<<e>> \o d) + Len(f)
             /\ Listed(next) = Range(<<e>> \o d) \cup Range(f)
          \/ /\ Total(next) = Len(d) + Len(<<e>> \o f)
             /\ Listed(next) = Range(d) \cup Range(<<e>> \o f)
      <3>1. CASE next = [dirs |-> <<e>> \o d, files |-> f]
        <4>1. next.dirs = <<e>> \o d /\ next.files = f
          BY <3>1
        <4> QED
          BY <4>1 DEF Total, Listed
      <3>2. CASE next = [dirs |-> d, files |-> <<e>> \o f]
        <4>1. next.dirs = d /\ next.files = <<e>> \o f
          BY <3>2
        <4> QED
          BY <4>1 DEF Total, Listed
      <3> QED
        BY <2>1, <3>1, <3>2
    <2>4. \/ Total(next) = (1 + Len(d)) + Len(f) \/ Total(next) = Len(d) + (1 + Len(f))
      BY <1>4, <2>3
    <2>5. Listed(next) = Listed(lists) \cup {e}
      BY <1>4, <2>2, <2>3
    <2>6. Total(next) = Total(lists) + 1 /\ Total(lists) \in Nat
      <3> DEFINE a == Len(d)  b == Len(f)
      <3>1. a \in Nat /\ b \in Nat
        BY <1>3
      <3>2. (Total(next) = (1 + a) + b \/ Total(next) = a + (1 + b)) /\ Total(lists) = a + b
        BY <2>2, <2>4
      <3> HIDE DEF a, b
      <3> QED
        BY <3>1, <3>2
    <2> QED
      BY <1>6, <2>5, <2>6 DEF next
  <1> QED
    BY <1>5, <1>6

(* The lists have the first of the wanted ones of the first k entries:     *)
(* all of them while there is room for one more.                           *)
Means(lists, q, k) ==
    LET F == FirstWanted(q, k)
    IN  /\ Total(lists) = Cardinality(F)
        /\ Listed(lists) = {tree[i] : i \in F}
        /\ Room(q, Cardinality(F)) => F = WantedAmong(q, k)
        /\ q.maxresults # 0 => Cardinality(F) <= q.maxresults

(* The loop stops when there is no room.                                   *)
LEMMA StopsWhenFull ==
    ASSUME NEW q \in Requests, NEW lists, NEW k \in Nat, Means(lists, q, k)
    PROVE  Stopped(lists, q) <=> ~ Room(q, Cardinality(FirstWanted(q, k)))
  <1> DEFINE n == Cardinality(FirstWanted(q, k))  max == q.maxresults
  <1>1. n \in Nat
    BY WantedType
  <1>2. max \in Nat /\ max < COUNT_LIMIT /\ COUNT_LIMIT \in Nat
    BY ListingConstants
  <1>3. entrycount(lists) = n % COUNT_LIMIT /\ (max # 0 => n <= max)
    BY DEF Means, Total, entrycount
  <1> HIDE DEF n, max
  <1>4. max # 0 => n % COUNT_LIMIT = n
    BY <1>1, <1>2, <1>3
  <1>5. (max > 0 /\ n % COUNT_LIMIT >= max) <=> ~ (max = 0 \/ n < max)
    BY <1>1, <1>2, <1>4
  <1> QED
    BY <1>3, <1>5 DEF Stopped, Room, n, max

(* One more entry is considered as it should be.                           *)
LEMMA ConsiderMeans ==
    ASSUME tree \in Trees, ignore \in Ignores, NEW q \in Requests, Meaningful(q),
           NEW k \in Nat, k + 1 \in DOMAIN tree,
           NEW lists \in Lists(q), Means(lists, q, k)
    PROVE  Means(Consider(lists, tree[k + 1], q), q, k + 1)
  <1> DEFINE e == tree[k + 1]  next == Consider(lists, e, q)
             W == WantedAmong(q, k)  F == FirstWanted(q, k)
             W2 == WantedAmong(q, k + 1)  F2 == FirstWanted(q, k + 1)
             n == Cardinality(F)  more == Wanted(e, q)  max == q.maxresults
  <1>1. e \in Range(tree) /\ e \in Entry
    BY TreeType DEF Range
  <1>2. Skipped(e, q) <=> ~ more
    BY <1>1, SkippedOrWanted
  <1>3. Stopped(lists, q) <=> ~ Room(q, n)
    BY StopsWhenFull
  <1>4. IF Stopped(lists, q) \/ Skipped(e, q) THEN next = lists
        ELSE Total(next) = Total(lists) + 1 /\ Listed(next) = Listed(lists) \cup {e}
    BY <1>1, ConsiderAdds
  <1>5. /\ n \in Nat /\ Cardinality(W) \in Nat /\ n <= Cardinality(W) /\ max \in Nat
    <2>1. n \in Nat /\ Cardinality(W) \in Nat /\ n <= Cardinality(W)
      BY WantedType
    <2>2. max \in Nat
      BY ListingConstants
    <2> HIDE DEF n, W, max
    <2> QED
      BY <2>1, <2>2
  <1>6. /\ Total(lists) = n /\ Listed(lists) = {tree[i] : i \in F}
        /\ Room(q, n) => F = W
        /\ max # 0 => n <= max
    BY DEF Means
  <1>7. Room(q, n) <=> Room(q, Cardinality(W))
    <2>1. Room(q, n) => Room(q, Cardinality(W))
      BY <1>6
    <2> HIDE DEF n, W
    <2>2. Room(q, Cardinality(W)) => Room(q, n)
      BY <1>5 DEF Room
    <2> QED
      BY <2>1, <2>2
  <1>8. /\ W2 = IF more THEN W \cup {k + 1} ELSE W
        /\ F2 = IF more /\ Room(q, n) THEN F \cup {k + 1} ELSE F
        /\ Cardinality(F2) = n + IF more /\ Room(q, n) THEN 1 ELSE 0
    <2>1. /\ W2 = IF more THEN W \cup {k + 1} ELSE W
          /\ F2 = IF more /\ Room(q, Cardinality(W)) THEN F \cup {k + 1} ELSE F
          /\ Cardinality(F2) = n + IF more /\ Room(q, Cardinality(W)) THEN 1 ELSE 0
      BY <1>5, WantedNext
    <2> HIDE DEF n, W, F, W2, F2, more
    <2> QED
      BY <1>7, <2>1
  <1>9. e = tree[k + 1]
    OBVIOUS
  <1> DEFINE count == Cardinality(F2)
  <1> HIDE DEF e, next, W, F, W2, F2, n, more, max
  <1>10. /\ Total(next) = count /\ Listed(next) = {tree[i] : i \in F2}
         /\ Room(q, count) => F2 = W2
         /\ max # 0 => count <= max
    <2>1. CASE more /\ Room(q, n)
      <3>1. F2 = F \cup {k + 1} /\ W2 = W \cup {k + 1} /\ count = n + 1
        BY <1>8, <2>1
      <3>2. Total(next) = n + 1 /\ Listed(next) = {tree[i] : i \in F} \cup {e}
        BY <1>2, <1>3, <1>4, <1>6, <2>1
      <3>3. Listed(next) = {tree[i] : i \in F2}
        BY <1>9, <3>1, <3>2
      <3>4. max # 0 => count <= max
        <4>1. max = 0 \/ n < max
          BY <2>1 DEF Room, max
        <4> HIDE DEF count
        <4> QED
          BY <1>5, <3>1, <4>1
      <3> QED
        BY <1>6, <2>1, <3>1, <3>2, <3>3, <3>4
    <2>2. CASE ~ (more /\ Room(q, n))
      <3>1. F2 = F /\ next = lists
        BY <1>2, <1>3, <1>4, <1>8, <2>2
      <3>2. count = n
        BY <3>1 DEF n
      <3>3. Room(q, count) => F2 = W2
        BY <1>6, <1>8, <2>2, <3>1, <3>2
      <3> QED
        BY <1>6, <3>1, <3>2, <3>3
    <2> QED
      BY <2>1, <2>2
  <1> QED
    BY <1>10 DEF Means, count, next, e, F2, W2, max

(* What is found is what is wanted, as many as there may be.               *)
LEMMA FoundMeans ==
    ASSUME tree \in Trees, ignore \in Ignores, NEW q \in Requests, Meaningful(q)
    PROVE  Means(Found(q, Len(tree)), q, Len(tree))
  <1> DEFINE n == Len(tree)  F == Finding(q, n)
             T == {k \in Nat : k <= n => Means(F[k], q, k)}
  <1>1. tree \in Seq(Entry) /\ n \in Nat /\ DOMAIN tree = 1 .. n
    BY TreeType
  <1>2. /\ Found(q, n) = F[n]
        /\ \A k \in 0 .. n : F[k] = FindRound(k, F, q) /\ F[k] \in Lists(q)
    <2>1. n \in 0 .. n
      BY <1>1
    <2> QED
      BY <2>1, FindingType
  <1> HIDE DEF n, F
  <1>3. Means(F[0], q, 0)
    <2>1. F[0] = NoneFound
      BY <1>1, <1>2 DEF FindRound, Begin
    <2>2. Total(NoneFound) = 0 /\ Listed(NoneFound) = {}
      BY DEF Total, Listed, NoneFound, Range
    <2>3. WantedAmong(q, 0) = {} /\ FirstWanted(q, 0) = {}
      BY DEF WantedAmong, FirstWanted
    <2>4. Cardinality({}) = 0 /\ q.maxresults \in Nat
      BY FS_EmptySet, ListingConstants
    <2> QED
      BY <2>1, <2>2, <2>3, <2>4 DEF Means
  <1>4. ASSUME NEW k \in Nat, k \in T
        PROVE  k + 1 \in T
    <2> SUFFICES ASSUME k + 1 <= n PROVE Means(F[k + 1], q, k + 1)
      OBVIOUS
    <2>1. /\ k \in 0 .. n /\ k + 1 \in 0 .. n /\ k + 1 \in DOMAIN tree
          /\ (k + 1) - 1 = k /\ k + 1 # 0
      BY <1>1
    <2>2. Means(F[k], q, k) /\ F[k] \in Lists(q)
      BY <1>2, <1>4, <2>1
    <2>3. F[k + 1] = Consider(F[k], tree[k + 1], q)
      BY <1>2, <2>1 DEF FindRound
    <2> QED
      BY <2>1, <2>2, <2>3, ConsiderMeans
  <1>5. Nat \subseteq T
    <2>1. 0 \in T
      BY <1>3
    <2> HIDE DEF T
    <2> QED
      BY <1>4, <2>1, CountUp
  <1> QED
    BY <1>1, <1>2, <1>5 DEF n

(* An OPENDIRX leaves a list of what is wanted.                            *)
LEMMA OpenedMeans ==
    ASSUME tree \in Trees, ignore \in Ignores, NEW q \in Requests, OpenX(q)
    PROVE  ListsWhatMatches'
  <1> SUFFICES ASSUME Meaningful(request)'
               PROVE  LET listed == FirstWanted(request, Len(tree))'
                      IN  /\ Len(list') = Cardinality(listed)
                          /\ Range(list') = {tree'[k] : k \in listed}
    BY DEF ListsWhatMatches
  <1>1. tree' = tree /\ ignore' = ignore /\ request' = q
    BY DEF OpenX
  <1>2. Meaningful(q)
    BY <1>1 DEF Meaningful
  <1>3. \A e : Wanted(e, request)' <=> Wanted(e, q)
    BY <1>1 DEF Wanted
  <1>4. \A k : WantedAmong(request, k)' = WantedAmong(q, k)
    BY <1>1, <1>3 DEF WantedAmong
  <1>5. FirstWanted(request, Len(tree))' = FirstWanted(q, Len(tree))
    BY <1>1, <1>4 DEF FirstWanted
  <1>6. PICK d, f : /\ Found(q, Len(tree)) = [dirs |-> d, files |-> f]
                    /\ d \in Seq(Folders(q)) /\ f \in Seq(Files(q))
                    /\ list' = Sorted(d, q.sort) \o Sorted(f, q.sort)
    BY OpenedList
  <1> DEFINE sort == q.sort
  <1> HIDE DEF sort
  <1>7. Len(list') = Len(d) + Len(f) /\ Range(list') = Range(d) \cup Range(f)
    <2>1. list' = Sorted(d, sort) \o Sorted(f, sort)
      BY <1>6 DEF sort
    <2> DEFINE a == Sorted(d, sort)  b == Sorted(f, sort)
    <2>2. /\ Range(a \o b) = Range(d) \cup Range(f) /\ Len(a \o b) = Len(a) + Len(b)
          /\ Len(a) = Len(d) /\ Len(b) = Len(f)
      BY <1>6, SortedParts
    <2> HIDE DEF a, b
    <2>3. list' = a \o b
      BY <2>1 DEF a, b
    <2> QED
      BY <2>2, <2>3
  <1> DEFINE lists == Found(q, Len(tree))  listed == FirstWanted(q, Len(tree))
  <1>8. Total(lists) = Cardinality(listed) /\ Listed(lists) = {tree[k] : k \in listed}
    BY <1>2, FoundMeans DEF Means
  <1>9. Total(lists) = Len(d) + Len(f) /\ Listed(lists) = Range(d) \cup Range(f)
    <2>1. lists.dirs = d /\ lists.files = f
      BY <1>6
    <2> QED
      BY <2>1 DEF Total, Listed
  <1> HIDE DEF lists, listed
  <1>10. Len(list') = Cardinality(listed) /\ Range(list') = {tree[k] : k \in listed}
    BY <1>7, <1>8, <1>9
  <1> QED
    BY <1>1, <1>5, <1>10 DEF listed

(* Whatever the directory, the options and the patterns, if these have a   *)
(* meaning: after an OPENDIRX the slot has each entry that is asked for,   *)
(* once, and no other, up to the number of results. The two matchers, the  *)
(* loop that fills the two lists, the sort and the join lose none and let  *)
(* none in.                                                                *)
THEOREM ListsAreWhatMatches ==
    Spec => []ListsWhatMatches
  <1>1. Init => ListsWhatMatches
    BY DEF Init, ListsWhatMatches
  <1>2. ListsWhatMatches /\ TypeOK /\ [Next]_vars => ListsWhatMatches'
    <2> SUFFICES ASSUME ListsWhatMatches, TypeOK, [Next]_vars PROVE ListsWhatMatches'
      OBVIOUS
    <2>1. ASSUME NEW q \in Requests, OpenX(q) PROVE ListsWhatMatches'
      BY <2>1, OpenedMeans DEF TypeOK
    <2>2. ASSUME list' = list, request' = request, tree' = tree, ignore' = ignore
          PROVE  ListsWhatMatches'
      <3>1. \A e : Wanted(e, request)' <=> Wanted(e, request)
        BY <2>2 DEF Wanted
      <3>2. \A k : WantedAmong(request, k)' = WantedAmong(request, k)
        BY <2>2, <3>1 DEF WantedAmong
      <3>3. FirstWanted(request, Len(tree))' = FirstWanted(request, Len(tree))
        BY <2>2, <3>2 DEF FirstWanted
      <3>4. Meaningful(request)' <=> Meaningful(request)
        BY <2>2 DEF Meaningful
      <3> QED
        BY <2>2, <3>3, <3>4 DEF ListsWhatMatches
    <2>3. CASE \E q \in Failing : OpenFails(q)
      BY <2>2, <2>3 DEF OpenFails
    <2>4. CASE \E n \in 0 .. MaxCount : ReadX(n)
      BY <2>2, <2>4 DEF ReadX
    <2>5. CASE \E index \in 0 .. Len(list) + 1 : SeekDir(index)
      BY <2>2, <2>5 DEF SeekDir
    <2>6. CASE TellDir
      BY <2>2, <2>6 DEF TellDir
    <2>7. CASE UNCHANGED vars
      BY <2>2, <2>7 DEF vars
    <2> QED
      BY <2>1, <2>3, <2>4, <2>5, <2>6, <2>7 DEF Next
  <1> QED
    BY <1>1, <1>2, TypeCorrect, PTL DEF Spec

-----------------------------------------------------------------------------
(* The order of the list. *)

(* An OPENDIRX leaves a list in order.                                     *)
LEMMA OpenedInOrder ==
    ASSUME tree \in Trees, NEW q, OpenX(q)
    PROVE  ListsInOrder'
  <1>1. PICK d, f : /\ d \in Seq(Folders(q)) /\ f \in Seq(Files(q))
                    /\ list' = Sorted(d, q.sort) \o Sorted(f, q.sort)
    BY OpenedList
  <1> DEFINE sort == q.sort  a == Sorted(d, sort)  b == Sorted(f, sort)
             m == Len(a)  n == Len(b)  R == InOrderPairs(sort, Range(list'))
  <1>2. /\ a \in Seq(Folders(q)) /\ b \in Seq(Files(q)) /\ m \in Nat /\ n \in Nat
        /\ list' \in Seq(Range(tree)) /\ Range(list') = Range(d) \cup Range(f)
        /\ Len(list') = m + n
        /\ \A i \in 1 .. m + n : list'[i] = IF i <= m THEN a[i] ELSE b[i - m]
    <2> HIDE DEF sort
    <2>1. list' = a \o b
      BY <1>1 DEF sort
    <2> QED
      BY <1>1, <2>1, SortedParts
  <1>3. /\ DOMAIN list' = 1 .. m + n /\ DOMAIN a = 1 .. m /\ DOMAIN b = 1 .. n
    BY <1>2
  <1>4. request' = q
    BY DEF OpenX
  <1>5. ASSUME "NONE" \notin sort, AllNear(Range(list'))
        PROVE  OrderedBy(a, R) /\ OrderedBy(b, R)
    <2> DEFINE X == Range(list')
    <2>1. X \subseteq Entry
      <3>1. X \subseteq Range(tree)
        BY <1>2, RangeInSet
      <3> QED
        BY <3>1, TreeType
    <2>2. d \in Seq(X) /\ f \in Seq(X)
      BY <1>1, <1>2, ListOverRange
    <2>3. AllNear(X)
      BY <1>5
    <2> HIDE DEF X, sort
    <2>4. OrderedBy(a, InOrderPairs(sort, X)) /\ OrderedBy(b, InOrderPairs(sort, X))
      BY <1>5, <2>1, <2>2, <2>3, SortedInOrder
    <2> QED
      BY <2>4 DEF X
  <1>6. \A p : p \in R => InOrder(p[1], p[2], sort)
    BY DEF InOrderPairs
  <1>7. Near' => AllNear(Range(list'))
    BY DEF Near, AllNear
  <1>8. ASSUME NEW i \in DOMAIN a
        PROVE  a[i].folder /\ ~ Has(q, "NO_FOLDERSFIRST")
    BY <1>2, <1>8 DEF Folders
  <1>9. ASSUME NEW i \in DOMAIN b, ~ Has(q, "NO_FOLDERSFIRST")
        PROVE  b[i].folder = FALSE
    <2>1. b[i] \in Files(q)
      BY <1>2
    <2>2. b[i] \in Entry
      BY <2>1, TreeType DEF Files
    <2>3. b[i].folder \in BOOLEAN
      BY <2>2, EntryType
    <2>4. ~ b[i].folder
      BY <1>9, <2>1 DEF Files
    <2> QED
      BY <2>3, <2>4
  <1> HIDE DEF a, b, R, m, n
  <1>10. ASSUME NEW i \in DOMAIN list', NEW j \in DOMAIN list', i < j
         PROVE  LET apart == list'[i].folder # list'[j].folder /\ ~ Has(q, "NO_FOLDERSFIRST")
                IN  IF apart THEN list'[i].folder
                    ELSE Near' /\ "NONE" \notin sort => InOrder(list'[i], list'[j], sort)
    <2>1. i \in Nat /\ j \in Nat /\ i \in 1 .. m + n /\ j \in 1 .. m + n
      BY <1>2, <1>3
    <2>2. CASE j <= m
      <3>1. i \in DOMAIN a /\ j \in DOMAIN a /\ list'[i] = a[i] /\ list'[j] = a[j]
        BY <1>2, <1>3, <1>10, <2>1, <2>2
      <3>2. list'[i].folder
        BY <1>8, <3>1
      <3>3. ASSUME Near', "NONE" \notin sort PROVE InOrder(list'[i], list'[j], sort)
        <4>1. <<a[i], a[j]>> \in R
          BY <1>5, <1>7, <1>10, <3>1, <3>3 DEF OrderedBy
        <4> QED
          BY <1>6, <3>1, <4>1
      <3> QED
        BY <3>2, <3>3
    <2>3. CASE i <= m /\ ~ j <= m
      <3>1. /\ i \in DOMAIN a /\ list'[i] = a[i]
            /\ j - m \in DOMAIN b /\ list'[j] = b[j - m]
        BY <1>2, <1>3, <2>1, <2>3
      <3>2. list'[i].folder /\ ~ Has(q, "NO_FOLDERSFIRST")
        BY <1>8, <3>1
      <3>3. list'[j].folder = FALSE
        BY <1>9, <3>1, <3>2
      <3> QED
        BY <3>2, <3>3
    <2>4. CASE ~ i <= m
      <3>1. /\ i - m \in DOMAIN b /\ list'[i] = b[i - m]
            /\ j - m \in DOMAIN b /\ list'[j] = b[j - m] /\ i - m < j - m
        BY <1>2, <1>3, <1>10, <2>1, <2>4
      <3>2. ~ (list'[i].folder # list'[j].folder /\ ~ Has(q, "NO_FOLDERSFIRST"))
        BY <1>9, <3>1
      <3>3. ASSUME Near', "NONE" \notin sort PROVE InOrder(list'[i], list'[j], sort)
        <4>1. <<b[i - m], b[j - m]>> \in R
          BY <1>5, <1>7, <3>1, <3>3 DEF OrderedBy
        <4> QED
          BY <1>6, <3>1, <4>1
      <3> QED
        BY <3>2, <3>3
    <2> QED
      BY <1>10, <2>1, <2>2, <2>3, <2>4
  <1> QED
    BY <1>4, <1>10 DEF ListsInOrder

(* Whatever the directory and the options, the list has the folders before *)
(* the files and each part in the order that was asked for: the merge sort *)
(* of dirlist_sort() with its comparisons, on lists of any length.         *)
THEOREM ListsAreInOrder ==
    Spec => []ListsInOrder
  <1>1. Init => ListsInOrder
    BY DEF Init, ListsInOrder
  <1>2. ListsInOrder /\ TypeOK /\ [Next]_vars => ListsInOrder'
    <2> SUFFICES ASSUME ListsInOrder, TypeOK, [Next]_vars PROVE ListsInOrder'
      OBVIOUS
    <2>1. ASSUME NEW q, OpenX(q) PROVE ListsInOrder'
      BY <2>1, OpenedInOrder DEF TypeOK
    <2>2. ASSUME list' = list, request' = request PROVE ListsInOrder'
      <3>1. ListsInOrder' <=> ListsInOrder
        BY <2>2 DEF ListsInOrder, Near
      <3> QED
        BY <3>1
    <2>3. CASE \E q \in Failing : OpenFails(q)
      BY <2>2, <2>3 DEF OpenFails
    <2>4. CASE \E n \in 0 .. MaxCount : ReadX(n)
      BY <2>2, <2>4 DEF ReadX
    <2>5. CASE \E index \in 0 .. Len(list) + 1 : SeekDir(index)
      BY <2>2, <2>5 DEF SeekDir
    <2>6. CASE TellDir
      BY <2>2, <2>6 DEF TellDir
    <2>7. CASE UNCHANGED vars
      BY <2>2, <2>7 DEF vars
    <2> QED
      BY <2>1, <2>3, <2>4, <2>5, <2>6, <2>7 DEF Next
  <1> QED
    BY <1>1, <1>2, TypeCorrect, PTL DEF Spec

(* The count in the answer of OPENDIRX is that of the list it leaves: what *)
(* was counted while searching is what the sorted and joined lists have.   *)
THEOREM CountsAreTold ==
    Spec => CountTold
  <1> DEFINE Told == reply'.kind = "opened" => reply'.count = Len(list') % COUNT_LIMIT
  <1>1. TypeOK /\ [Next]_vars => [Told]_vars
    <2> SUFFICES ASSUME TypeOK, Next PROVE Told
      OBVIOUS
    <2>1. ASSUME NEW q, OpenX(q)
          PROVE  Told
      <3>1. tree \in Trees
        BY DEF TypeOK
      <3>2. PICK d, f : /\ Found(q, Len(tree)) = [dirs |-> d, files |-> f]
                        /\ d \in Seq(Folders(q)) /\ f \in Seq(Files(q))
                        /\ list' = Sorted(d, q.sort) \o Sorted(f, q.sort)
        BY <2>1, <3>1, OpenedList
      <3> DEFINE sort == q.sort
      <3> HIDE DEF sort
      <3>3. Len(list') = Len(d) + Len(f)
        <4>1. list' = Sorted(d, sort) \o Sorted(f, sort)
          BY <3>2 DEF sort
        <4> QED
          BY <3>1, <3>2, <4>1, SortedParts
      <3>4. reply'.count = entrycount(Found(q, Len(tree)))
        BY <2>1 DEF OpenX
      <3>5. entrycount(Found(q, Len(tree))) = (Len(d) + Len(f)) % COUNT_LIMIT
        BY <3>2 DEF entrycount
      <3> QED
        BY <3>3, <3>4, <3>5
    <2>2. ASSUME reply'.kind # "opened"
          PROVE  Told
      BY <2>2
    <2> HIDE DEF Told
    <2>3. ASSUME NEW q, OpenFails(q)
          PROVE  Told
      <3>1. reply'.kind = "error"
        BY <2>3 DEF OpenFails
      <3> QED
        BY <2>2, <3>1
    <2>4. ASSUME NEW n \in 0 .. MaxCount, ReadX(n)
          PROVE  Told
      <3>1. CASE current = Len(list)
        <4>1. reply'.kind = "eof"
          BY <2>4, <3>1 DEF ReadX
        <4> QED
          BY <2>2, <4>1
      <3>2. CASE current # Len(list)
        <4>1. reply'.kind = "entries"
          BY <2>4, <3>2 DEF ReadX
        <4> QED
          BY <2>2, <4>1
      <3> QED
        BY <3>1, <3>2
    <2>5. \A kind : WithoutList(kind) /\ kind # "opened" => reply'.kind # "opened"
      BY DEF WithoutList
    <2>6. ASSUME NEW index, SeekDir(index)
          PROVE  Told
      <3>1. WithoutList("stream moved") \/ reply' = [kind |-> "ok"]
        BY <2>6 DEF SeekDir
      <3>2. WithoutList("stream moved") => reply'.kind # "opened"
        BY <2>5
      <3>3. reply' = [kind |-> "ok"] => reply'.kind # "opened"
        OBVIOUS
      <3> QED
        BY <2>2, <3>1, <3>2, <3>3
    <2>7. ASSUME TellDir
          PROVE  Told
      <3>1. WithoutList("stream told") \/ reply' = [kind |-> "told", at |-> current]
        BY <2>7 DEF TellDir
      <3>2. WithoutList("stream told") => reply'.kind # "opened"
        BY <2>5
      <3>3. reply' = [kind |-> "told", at |-> current] => reply'.kind # "opened"
        OBVIOUS
      <3> QED
        BY <2>2, <3>1, <3>2, <3>3
    <2> QED
      BY <2>1, <2>3, <2>4, <2>6, <2>7 DEF Next
  <1>2. CountTold <=> [][Told]_vars
    BY DEF CountTold
  <1> QED
    BY <1>1, <1>2, TypeCorrect, PTL DEF Spec

(* READDIRX gives the entries of the list one after the other, none twice  *)
(* and none left out, at least one while there are any, and as many as     *)
(* were asked for and fit.                                                 *)
THEOREM ReadsGoOn ==
    Spec => ReadsOn
  <1> DEFINE Goes ==
          reply'.kind = "entries" =>
              LET sent == reply'.entries
              IN  /\ sent # <<>> /\ sent = SubSeq(list, current + 1, current + Len(sent))
                  /\ current' = current + Len(sent)
                  /\ TotalSize(sent) <= TNFS_MAX_PAYLOAD
                  /\ reply'.eof <=> current' = Len(list)
                  /\ reply'.asked # 0 => Len(sent) <= reply'.asked
                  /\ \/ reply'.eof \/ Len(sent) = reply'.asked
                     \/ TotalSize(sent) + SizeOf(list[current' + 1]) > TNFS_MAX_PAYLOAD
  <1>1. ListInvariant /\ [Next]_vars => [Goes]_vars
    <2> SUFFICES ASSUME ListInvariant, Next PROVE Goes
      OBVIOUS
    <2>1. ASSUME NEW n \in 0 .. MaxCount, ReadX(n), current # Len(list)
          PROVE  Goes
      <3> DEFINE s == CountSent(n)  t == Sent(s)
      <3>1. /\ list \in Seq(Entry) /\ current \in 0 .. Len(list)
            /\ s \in 1 .. Left /\ Fits(n, s) /\ Ends(n, s)
            /\ current' = current + s /\ Len(list) \in Nat /\ current \in Nat
            /\ Left = Len(list) - current
        BY <2>1, ReadMoves
      <3>2. /\ reply'.kind = "entries" /\ reply'.asked = n /\ reply'.entries = t
            /\ reply'.eof = (current + s = Len(list))
        BY <2>1 DEF ReadX, Sent
      <3> HIDE DEF s
      <3>3. s \in 0 .. Left /\ s \in Nat /\ s # 0
        BY <3>1
      <3>4. t \in Seq(Entry) /\ Len(t) = s /\ t = SubSeq(list, current + 1, current + s)
        BY <3>1, <3>3, SentType DEF Sent
      <3> HIDE DEF t
      <3>5. t # <<>>
        BY <3>3, <3>4, EmptySeq
      <3>6. TotalSize(t) <= TNFS_MAX_PAYLOAD /\ (n # 0 => s <= n)
        BY <3>1 DEF Fits, t
      <3>7. current + s = Len(list) \/ s = n
            \/ TotalSize(t) + SizeOf(list[current + s + 1]) > TNFS_MAX_PAYLOAD
        BY <3>1 DEF Ends, t
      <3> QED
        BY <3>1, <3>2, <3>4, <3>5, <3>6, <3>7
    <2>2. ASSUME NEW n \in 0 .. MaxCount, ReadX(n), current = Len(list)
          PROVE  Goes
      BY <2>2 DEF ReadX
    <2>3. ASSUME NEW q, OpenX(q) \/ OpenFails(q)
          PROVE  Goes
      <3>1. reply'.kind = "opened" \/ reply'.kind = "error"
        BY <2>3 DEF OpenX, OpenFails
      <3> QED
        BY <3>1
    <2>4. \A kind : WithoutList(kind) /\ kind # "entries" => reply'.kind # "entries"
      BY DEF WithoutList
    <2>5. ASSUME reply'.kind # "entries"
          PROVE  Goes
      BY <2>5
    <2> HIDE DEF Goes
    <2>6. ASSUME NEW index, SeekDir(index)
          PROVE  Goes
      <3>1. WithoutList("stream moved") \/ reply' = [kind |-> "ok"]
        BY <2>6 DEF SeekDir
      <3>2. WithoutList("stream moved") => reply'.kind # "entries"
        BY <2>4
      <3>3. reply' = [kind |-> "ok"] => reply'.kind # "entries"
        OBVIOUS
      <3> QED
        BY <2>5, <3>1, <3>2, <3>3
    <2>7. ASSUME TellDir
          PROVE  Goes
      <3>1. WithoutList("stream told") \/ reply' = [kind |-> "told", at |-> current]
        BY <2>7 DEF TellDir
      <3>2. WithoutList("stream told") => reply'.kind # "entries"
        BY <2>4
      <3>3. reply' = [kind |-> "told", at |-> current] => reply'.kind # "entries"
        OBVIOUS
      <3> QED
        BY <2>5, <3>1, <3>2, <3>3
    <2> QED
      BY <2>1, <2>2, <2>3, <2>6, <2>7 DEF Next
  <1>2. Spec => []ListInvariant
    BY InitKeepsType, NextKeepsType, PTL DEF Spec
  <1>3. ReadsOn <=> [][Goes]_vars
    BY DEF ReadsOn
  <1> QED
    BY <1>1, <1>2, <1>3, PTL DEF Spec
=============================================================================
