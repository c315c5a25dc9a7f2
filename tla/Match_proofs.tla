---------------------------- MODULE Match_proofs ----------------------------
(***************************************************************************)
(* Proofs about Match, for every text and every pattern: each of the two   *)
(* matchers accepts exactly what its patterns mean.                        *)
(*                                                                         *)
(* The algorithms are recursive functions. That such a function exists,    *)
(* and that what holds of all smaller arguments and then of each holds of  *)
(* all, is proved here once for functions with a measure in Nat, and for   *)
(* loops.                                                                  *)
(***************************************************************************)
EXTENDS Match, Integers, SequenceTheorems, WellFoundedInduction, TLAPS

-----------------------------------------------------------------------------
(* Recursion. *)

(* A set of numbers has a least one.                                       *)
LEMMA FirstNumber ==
    ASSUME NEW N, N \subseteq Nat, N # {}
    PROVE  \E n \in N : \A k \in N : n <= k
  <1>1. PICK n \in N : \A k \in N : <<k, n>> \notin OpToRel(<, Nat)
    BY NatLessThanWellFounded, WFMin
  <1>2. \A k \in N : ~ k < n
    BY <1>1 DEF OpToRel
  <1> QED
    BY <1>2

(* Induction on a measure.                                                 *)
LEMMA MeasureInduction ==
    ASSUME NEW D, NEW m \in [D -> Nat], NEW T,
           \A x \in D : (\A y \in D : m[y] < m[x] => y \in T) => x \in T
    PROVE  D \subseteq T
  <1> SUFFICES ASSUME D \ T # {} PROVE FALSE
    OBVIOUS
  <1> DEFINE N == {m[x] : x \in D \ T}
  <1>1. N \subseteq Nat /\ N # {}
    OBVIOUS
  <1>2. PICK n \in N : \A k \in N : n <= k
    BY <1>1, FirstNumber
  <1>3. PICK x \in D \ T : n = m[x]
    OBVIOUS
  <1>4. ASSUME NEW y \in D, m[y] < m[x]
        PROVE  y \in T
    <2>1. y \notin T => m[x] <= m[y]
      BY <1>2, <1>3
    <2>2. m[x] \in Nat /\ m[y] \in Nat
      BY <1>3
    <2> QED
      BY <1>4, <2>1, <2>2
  <1> QED
    BY <1>3, <1>4

(* Induction on the natural numbers.                                       *)
LEMMA CountUp ==
    ASSUME NEW T, 0 \in T, \A n \in Nat : n \in T => n + 1 \in T
    PROVE  Nat \subseteq T
  <1> DEFINE m == [n \in Nat |-> n]
  <1>1. \A x \in Nat : (\A y \in Nat : m[y] < m[x] => y \in T) => x \in T
    <2> SUFFICES ASSUME NEW x \in Nat, \A y \in Nat : m[y] < m[x] => y \in T
                 PROVE  x \in T
      OBVIOUS
    <2>1. CASE x = 0
      BY <2>1
    <2>2. CASE x # 0
      <3>1. x - 1 \in Nat /\ x - 1 < x /\ (x - 1) + 1 = x
        BY <2>2
      <3> QED
        BY <3>1
    <2> QED
      BY <2>1, <2>2
  <1>2. m \in [Nat -> Nat]
    OBVIOUS
  <1> QED
    BY <1>1, <1>2, MeasureInduction

(* How the value at x is made from the values at smaller arguments.        *)
Rounds(D, S, m) ==
    {h \in [D -> [[D -> S] -> S]] :
        \A x \in D : \A f, g \in [D -> S] :
           (\A y \in D : m[y] < m[x] => f[y] = g[y]) => h[x][f] = h[x][g]}

(* Recursion on a measure: a function whose value at x is made from its    *)
(* values at smaller arguments exists.                                     *)
LEMMA MeasureRecursion ==
    ASSUME NEW D, NEW S, S # {}, NEW m \in [D -> Nat], NEW h \in Rounds(D, S, m)
    PROVE  \E f \in [D -> S] : \A x \in D : f[x] = h[x][f]
  <1>0. /\ h \in [D -> [[D -> S] -> S]]
        /\ \A x \in D : \A f, g \in [D -> S] :
              (\A y \in D : m[y] < m[x] => f[y] = g[y]) => h[x][f] = h[x][g]
    BY DEF Rounds
  <1> DEFINE Good(n, g) == g \in [D -> S] /\ \A x \in D : m[x] < n => g[x] = h[x][g]
             Reached == {n \in Nat : \E g : Good(n, g)}
  <1>1. 0 \in Reached
    <2>1. PICK s \in S : TRUE
      OBVIOUS
    <2>2. Good(0, [x \in D |-> s])
      OBVIOUS
    <2> QED
      BY <2>2
  <1>2. ASSUME NEW n \in Nat, n \in Reached
        PROVE  n + 1 \in Reached
    <2>1. PICK g : Good(n, g)
      BY <1>2
    <2> DEFINE f == [x \in D |-> h[x][g]]
    <2>2. f \in [D -> S]
      BY <1>0, <2>1
    <2>3. ASSUME NEW x \in D, m[x] < n + 1
          PROVE  f[x] = h[x][f]
      <3>1. \A y \in D : m[y] < m[x] => f[y] = g[y]
        BY <2>1, <2>3
      <3>2. h[x][f] = h[x][g]
        BY <1>0, <2>1, <2>2, <3>1
      <3> QED
        BY <3>2
    <2>4. Good(n + 1, f)
      BY <2>2, <2>3
    <2> HIDE DEF Good, f
    <2> QED
      BY <2>4
  <1>3. Nat \subseteq Reached
    BY <1>1, <1>2, CountUp
  <1>4. ASSUME NEW n \in Nat, NEW k \in Nat, NEW g, NEW f, Good(n, g), Good(k, f),
               NEW x \in D, m[x] < n, m[x] < k
        PROVE  g[x] = f[x]
    <2> DEFINE T == {y \in D : m[y] < n /\ m[y] < k => g[y] = f[y]}
    <2>1. ASSUME NEW y \in D, \A z \in D : m[z] < m[y] => z \in T
          PROVE  y \in T
      <3> SUFFICES ASSUME m[y] < n, m[y] < k PROVE g[y] = f[y]
        OBVIOUS
      <3>1. \A z \in D : m[z] < m[y] => g[z] = f[z]
        BY <2>1
      <3>2. h[y][g] = h[y][f]
        BY <1>0, <1>4, <3>1
      <3> QED
        BY <1>4, <3>2
    <2> HIDE DEF Good
    <2>2. \A y \in D : (\A z \in D : m[z] < m[y] => z \in T) => y \in T
      BY <2>1
    <2>3. D \subseteq T
      <3> HIDE DEF T
      <3> QED
        BY <2>2, MeasureInduction
    <2> QED
      BY <1>4, <2>3
  <1> DEFINE G(x) == CHOOSE g : Good(m[x] + 1, g)
             F == [x \in D |-> G(x)[x]]
  <1>5. \A x \in D : Good(m[x] + 1, G(x))
    <2> SUFFICES ASSUME NEW x \in D PROVE Good(m[x] + 1, G(x))
      OBVIOUS
    <2>1. m[x] + 1 \in Reached
      BY <1>3
    <2> HIDE DEF Good
    <2> QED
      BY <2>1
  <1> HIDE DEF G
  <1>6. F \in [D -> S]
    BY <1>5
  <1>7. ASSUME NEW x \in D
        PROVE  F[x] = h[x][F]
    <2>1. Good(m[x] + 1, G(x)) /\ m[x] \in Nat
      BY <1>5
    <2>2. ASSUME NEW y \in D, m[y] < m[x]
          PROVE  F[y] = G(x)[y]
      <3>1. Good(m[y] + 1, G(y)) /\ m[y] \in Nat
        BY <1>5
      <3>2. G(y)[y] = G(x)[y]
        <4>1. /\ m[y] + 1 \in Nat /\ m[x] + 1 \in Nat
              /\ m[y] < m[y] + 1 /\ m[y] < m[x] + 1
          BY <2>1, <2>2, <3>1
        <4> HIDE DEF Good
        <4> QED
          BY <1>4, <2>1, <3>1, <4>1
      <3> QED
        BY <3>2
    <2>3. h[x][G(x)] = h[x][F]
      BY <1>0, <1>6, <2>1, <2>2
    <2> QED
      BY <2>1, <2>3
  <1> QED
    BY <1>6, <1>7

-----------------------------------------------------------------------------
(* The wildcard matcher. *)

(* Where the table of _pattern_match() has an entry.                       *)
Corners(text, p) == (0 .. Len(text)) \X (0 .. Len(p))

(* An entry, given those before it.                                        *)
LookRound(text, p, at, f) ==
    LET i == at[1]
        j == at[2]
    IN  IF j = 0 THEN i = 0
        ELSE IF p[j] = Star THEN f[<<i, j - 1>>] \/ (i > 0 /\ f[<<i - 1, j>>])
        ELSE i > 0 /\ text[i] \in p[j] /\ f[<<i - 1, j - 1>>]

(* The function in pattern_match.                                          *)
Looking(text, p) ==
    CHOOSE lookup : lookup = [at \in Corners(text, p) |-> LookRound(text, p, at, lookup)]

Away(text, p) == [at \in Corners(text, p) |-> at[1] + at[2]]

(* The entries that an entry is made from are before it.                   *)
LEMMA CornerType ==
    ASSUME NEW C, NEW text \in Seq(C), NEW P, NEW p \in Seq(P), NEW at \in Corners(text, p)
    PROVE  LET i == at[1]
               j == at[2]
               D == Corners(text, p)
               m == Away(text, p)
           IN  /\ i \in 0 .. Len(text) /\ j \in 0 .. Len(p) /\ i \in Nat /\ j \in Nat
               /\ at = <<i, j>> /\ m[at] \in Nat
               /\ j # 0 => <<i, j - 1>> \in D /\ m[<<i, j - 1>>] < m[at]
               /\ i > 0 => <<i - 1, j>> \in D /\ m[<<i - 1, j>>] < m[at]
               /\ i > 0 /\ j # 0 => <<i - 1, j - 1>> \in D /\ m[<<i - 1, j - 1>>] < m[at]
  <1> DEFINE a == Len(text)  b == Len(p)  i == at[1]  j == at[2]
             D == Corners(text, p)  m == Away(text, p)
  <1>1. a \in Nat /\ b \in Nat
    BY LenProperties
  <1>2. D = (0 .. a) \X (0 .. b)
    BY DEF Corners
  <1>3. i \in 0 .. a /\ j \in 0 .. b /\ at = <<i, j>>
    BY <1>2
  <1>4. \A x \in D : m[x] = x[1] + x[2]
    BY DEF Away
  <1> HIDE DEF a, b, i, j, D, m
  <1>5. i \in Nat /\ j \in Nat /\ at \in D
    BY <1>1, <1>3 DEF D
  <1>6. m[at] = i + j
    BY <1>4, <1>5 DEF i, j
  <1>7. ASSUME NEW k \in 0 .. a, NEW n \in 0 .. b
        PROVE  <<k, n>> \in D /\ m[<<k, n>>] = k + n
    <2>1. <<k, n>> \in D
      BY <1>2
    <2> QED
      BY <1>4, <2>1
  <1>8. j # 0 => <<i, j - 1>> \in D /\ m[<<i, j - 1>>] < m[at]
    <2> SUFFICES ASSUME j # 0 PROVE <<i, j - 1>> \in D /\ m[<<i, j - 1>>] < m[at]
      OBVIOUS
    <2>1. j - 1 \in 0 .. b /\ i + (j - 1) < i + j
      BY <1>1, <1>3, <1>5
    <2> QED
      BY <1>3, <1>6, <1>7, <2>1
  <1>9. i > 0 => <<i - 1, j>> \in D /\ m[<<i - 1, j>>] < m[at]
    <2> SUFFICES ASSUME i > 0 PROVE <<i - 1, j>> \in D /\ m[<<i - 1, j>>] < m[at]
      OBVIOUS
    <2>1. i - 1 \in 0 .. a /\ (i - 1) + j < i + j
      BY <1>1, <1>3, <1>5
    <2> QED
      BY <1>3, <1>6, <1>7, <2>1
  <1>10. i > 0 /\ j # 0 => <<i - 1, j - 1>> \in D /\ m[<<i - 1, j - 1>>] < m[at]
    <2> SUFFICES ASSUME i > 0, j # 0 PROVE <<i - 1, j - 1>> \in D /\ m[<<i - 1, j - 1>>] < m[at]
      OBVIOUS
    <2>1. i - 1 \in 0 .. a /\ j - 1 \in 0 .. b /\ (i - 1) + (j - 1) < i + j
      BY <1>1, <1>3, <1>5
    <2> QED
      BY <1>6, <1>7, <2>1
  <1>11. m[at] \in Nat
    BY <1>5, <1>6
  <1> QED
    BY <1>3, <1>5, <1>8, <1>9, <1>10, <1>11 DEF a, b, i, j, D, m

(* The function in pattern_match is what its definition says.              *)
LEMMA LookEquation ==
    ASSUME NEW C, NEW text \in Seq(C), NEW P, NEW p \in Seq(P)
    PROVE  /\ pattern_match(text, p) = Looking(text, p)[<<Len(text), Len(p)>>]
           /\ \A at \in Corners(text, p) :
                 Looking(text, p)[at] = LookRound(text, p, at, Looking(text, p))
  <1> DEFINE D == Corners(text, p)  m == Away(text, p)  S == BOOLEAN
             h == [at \in D |-> [f \in [D -> S] |-> LookRound(text, p, at, f)]]
  <1>1. ASSUME NEW at \in D, NEW f \in [D -> S]
        PROVE  LookRound(text, p, at, f) \in S
    BY DEF LookRound
  <1>2. ASSUME NEW at \in D, NEW f \in [D -> S], NEW g \in [D -> S],
               \A y \in D : m[y] < m[at] => f[y] = g[y]
        PROVE  LookRound(text, p, at, f) = LookRound(text, p, at, g)
    <2> DEFINE i == at[1]  j == at[2]
    <2>1. /\ j # 0 => f[<<i, j - 1>>] = g[<<i, j - 1>>]
          /\ i > 0 => f[<<i - 1, j>>] = g[<<i - 1, j>>]
          /\ i > 0 /\ j # 0 => f[<<i - 1, j - 1>>] = g[<<i - 1, j - 1>>]
      BY <1>2, CornerType
    <2>2. CASE j = 0
      BY <2>2 DEF LookRound
    <2>3. CASE j # 0 /\ p[j] = Star
      BY <2>1, <2>3 DEF LookRound
    <2>4. CASE j # 0 /\ p[j] # Star
      BY <2>1, <2>4 DEF LookRound
    <2> QED
      BY <2>2, <2>3, <2>4
  <1>3. h \in Rounds(D, S, m)
    BY <1>1, <1>2 DEF Rounds
  <1>4. m \in [D -> Nat] /\ S # {}
    <2>1. \A at \in D : at[1] + at[2] \in Nat
      <3> SUFFICES ASSUME NEW at \in D PROVE at[1] + at[2] \in Nat
        OBVIOUS
      <3>1. at[1] \in Nat /\ at[2] \in Nat
        BY CornerType
      <3> QED
        BY <3>1
    <2> QED
      BY <2>1 DEF Away
  <1>5. PICK f \in [D -> S] : \A at \in D : f[at] = LookRound(text, p, at, f)
    <2>1. \A at \in D : \A f \in [D -> S] : h[at][f] = LookRound(text, p, at, f)
      OBVIOUS
    <2> HIDE DEF D, S, m, h
    <2>2. PICK f \in [D -> S] : \A at \in D : f[at] = h[at][f]
      BY <1>3, <1>4, MeasureRecursion
    <2> QED
      BY <2>1, <2>2
  <1>6. f = [at \in D |-> LookRound(text, p, at, f)]
    BY <1>5
  <1>7. Looking(text, p) = [at \in D |-> LookRound(text, p, at, Looking(text, p))]
    BY <1>6 DEF Looking
  <1>8. pattern_match(text, p) = Looking(text, p)[<<Len(text), Len(p)>>]
    BY DEF pattern_match, Looking, LookRound, Corners
  <1> QED
    BY <1>7, <1>8

(* The piece of the text between a and b is one that place k accepts.      *)
Piece(text, p, k, a, b) == p[k] = Star \/ (b = a + 1 /\ text[b] \in p[k])

(* The ways to cut the first i characters into pieces for the first j      *)
(* places of the pattern.                                                  *)
Cuts(text, p, i, j) ==
    {cut \in [0 .. j -> 0 .. Len(text)] :
        /\ cut[0] = 0 /\ cut[j] = i
        /\ \A k \in 1 .. j : cut[k - 1] <= cut[k] /\ Piece(text, p, k, cut[k - 1], cut[k])}

(* The last piece is added or taken away.                                  *)
LEMMA LastPiece ==
    ASSUME NEW C, NEW text \in Seq(C), NEW p,
           NEW i \in 0 .. Len(text), NEW j \in Nat \ {0}
    PROVE  Cuts(text, p, i, j) # {} <=>
              \E a \in 0 .. i : Piece(text, p, j, a, i) /\ Cuts(text, p, a, j - 1) # {}
  <1>1. /\ Len(text) \in Nat /\ i \in Nat /\ j - 1 \in Nat /\ j \in 0 .. j /\ j - 1 \in 0 .. j - 1
        /\ 0 .. j - 1 \subseteq 0 .. j /\ j \in 1 .. j /\ 0 \in 0 .. j - 1 /\ j - 1 \in 0 .. j
        /\ 1 .. j - 1 \subseteq 1 .. j
        /\ \A k \in 0 .. j : k # j => k \in 0 .. j - 1
        /\ \A k \in 1 .. j : k # j => k \in 1 .. j - 1
        /\ \A k \in 1 .. j - 1 : k - 1 \in 0 .. j - 1 /\ k \in 0 .. j - 1 /\ k # j /\ k - 1 # j
        /\ j - 1 # j
    BY LenProperties
  <1>2. ASSUME NEW cut \in Cuts(text, p, i, j)
        PROVE  \E a \in 0 .. i : Piece(text, p, j, a, i) /\ Cuts(text, p, a, j - 1) # {}
    <2>1. /\ cut \in [0 .. j -> 0 .. Len(text)] /\ cut[0] = 0 /\ cut[j] = i
          /\ \A k \in 1 .. j : cut[k - 1] <= cut[k] /\ Piece(text, p, k, cut[k - 1], cut[k])
      BY DEF Cuts
    <2> DEFINE a == cut[j - 1]
               short == [k \in 0 .. j - 1 |-> cut[k]]
    <2>2. a \in 0 .. Len(text) /\ a <= i /\ Piece(text, p, j, a, i)
      BY <1>1, <2>1
    <2>3. a \in 0 .. i
      BY <1>1, <2>2
    <2>4. \A k \in 0 .. j - 1 : short[k] = cut[k]
      OBVIOUS
    <2>5. short \in [0 .. j - 1 -> 0 .. Len(text)]
      BY <1>1, <2>1
    <2> HIDE DEF short
    <2>6. short[0] = 0 /\ short[j - 1] = a
      BY <1>1, <2>1, <2>4
    <2>7. ASSUME NEW k \in 1 .. j - 1
          PROVE  short[k - 1] <= short[k] /\ Piece(text, p, k, short[k - 1], short[k])
      <3>1. short[k - 1] = cut[k - 1] /\ short[k] = cut[k] /\ k \in 1 .. j
        BY <1>1, <2>4
      <3> QED
        BY <2>1, <3>1
    <2>8. short \in Cuts(text, p, a, j - 1)
      BY <2>5, <2>6, <2>7 DEF Cuts
    <2> QED
      BY <2>2, <2>3, <2>8
  <1>3. ASSUME NEW a \in 0 .. i, Piece(text, p, j, a, i), NEW cut \in Cuts(text, p, a, j - 1)
        PROVE  Cuts(text, p, i, j) # {}
    <2>1. /\ cut \in [0 .. j - 1 -> 0 .. Len(text)] /\ cut[0] = 0 /\ cut[j - 1] = a
          /\ \A k \in 1 .. j - 1 : cut[k - 1] <= cut[k] /\ Piece(text, p, k, cut[k - 1], cut[k])
      BY DEF Cuts
    <2> DEFINE long == [k \in 0 .. j |-> IF k = j THEN i ELSE cut[k]]
    <2>2. long[j] = i /\ \A k \in 0 .. j - 1 : long[k] = cut[k]
      BY <1>1
    <2>3. long \in [0 .. j -> 0 .. Len(text)]
      BY <1>1, <2>1
    <2> HIDE DEF long
    <2>4. long[0] = 0 /\ long[j - 1] = a
      BY <1>1, <2>1, <2>2
    <2>5. ASSUME NEW k \in 1 .. j
          PROVE  long[k - 1] <= long[k] /\ Piece(text, p, k, long[k - 1], long[k])
      <3>1. CASE k = j
        BY <1>1, <1>3, <2>2, <2>4, <3>1
      <3>2. CASE k # j
        <4>1. k \in 1 .. j - 1
          BY <1>1, <3>2
        <4>2. long[k - 1] = cut[k - 1] /\ long[k] = cut[k]
          BY <1>1, <2>2, <4>1
        <4> QED
          BY <2>1, <4>1, <4>2
      <3> QED
        BY <3>1, <3>2
    <2>6. long \in Cuts(text, p, i, j)
      BY <2>2, <2>3, <2>4, <2>5 DEF Cuts
    <2> QED
      BY <2>6
  <1> QED
    BY <1>2, <1>3

(* Without places there is only the empty text.                            *)
LEMMA NoPiece ==
    ASSUME NEW C, NEW text \in Seq(C), NEW p, NEW i \in 0 .. Len(text)
    PROVE  Cuts(text, p, i, 0) # {} <=> i = 0
  <1>1. Len(text) \in Nat
    BY LenProperties
  <1>2. CASE i = 0
    <2> DEFINE cut == [k \in 0 .. 0 |-> 0]
    <2>1. /\ cut \in [0 .. 0 -> 0 .. Len(text)] /\ cut[0] = 0
          /\ \A k \in 1 .. 0 : FALSE
      BY <1>1
    <2>2. cut \in Cuts(text, p, i, 0)
      BY <1>2, <2>1 DEF Cuts
    <2> QED
      BY <1>2, <2>2
  <1>3. CASE i # 0
    BY <1>3 DEF Cuts
  <1> QED
    BY <1>2, <1>3

(* A piece is what the meaning of the pattern says it is.                  *)
LEMMA PieceMeans ==
    ASSUME NEW C, NEW text \in Seq(C), NEW p, NEW k,
           NEW a \in 0 .. Len(text), NEW b \in 0 .. Len(text), a <= b
    PROVE  Piece(text, p, k, a, b) <=>
              p[k] = Star \/ OneOf(SubSeq(text, a + 1, b), p[k])
  <1> DEFINE n == Len(text)  m == a + 1  piece == SubSeq(text, m, b)
  <1>1. n \in Nat /\ a \in Nat /\ b \in Nat /\ a <= n /\ b <= n
    BY LenProperties
  <1>2. m \in 1 .. n + 1 /\ b \in m - 1 .. n /\ b - m + 1 = b - a /\ m + 1 - 1 = a + 1
    BY <1>1
  <1>3. /\ piece \in Seq(C) /\ Len(piece) = b - m + 1
        /\ \A i \in 1 .. b - m + 1 : piece[i] = text[m + i - 1]
    <2>1. /\ m \in Int /\ b \in Int /\ (m <= b \/ b - m + 1 = 0)
          /\ \A i \in m .. b : text[i] \in C
      BY <1>1
    <2> HIDE DEF m
    <2>2. /\ piece \in Seq(C) /\ Len(piece) = IF m <= b THEN b - m + 1 ELSE 0
          /\ \A i \in 1 .. b - m + 1 : piece[i] = text[m + i - 1]
      BY <2>1, SubSeqProperties
    <2> QED
      BY <2>1, <2>2
  <1> HIDE DEF piece
  <1>4. Len(piece) = b - a
    BY <1>2, <1>3
  <1>5. Len(piece) = 1 <=> b = a + 1
    BY <1>1, <1>4
  <1>6. b = a + 1 => piece[1] = text[b]
    <2> SUFFICES ASSUME b = a + 1 PROVE piece[1] = text[b]
      OBVIOUS
    <2>1. 1 \in 1 .. b - m + 1 /\ m + 1 - 1 = b
      BY <1>1
    <2> QED
      BY <1>3, <2>1
  <1> QED
    BY <1>5, <1>6 DEF Piece, OneOf, piece, m

(* Each entry of the table tells whether the text can be cut that far.     *)
LEMMA LookMeans ==
    ASSUME NEW C, NEW text \in Seq(C), NEW P, NEW p \in Seq(P), NEW at \in Corners(text, p)
    PROVE  Looking(text, p)[at] <=> Cuts(text, p, at[1], at[2]) # {}
  <1> DEFINE D == Corners(text, p)  m == Away(text, p)  F == Looking(text, p)
             Cut(i, j) == Cuts(text, p, i, j) # {}
             T == {x \in D : F[x] <=> Cut(x[1], x[2])}
  <1>1. \A x \in D : F[x] = LookRound(text, p, x, F)
    BY LookEquation
  <1> HIDE DEF F
  <1>2. ASSUME NEW x \in D, \A y \in D : m[y] < m[x] => y \in T
        PROVE  x \in T
    <2> DEFINE i == x[1]  j == x[2]
    <2>1. /\ i \in 0 .. Len(text) /\ i \in Nat /\ j \in Nat /\ x = <<i, j>>
          /\ j # 0 => <<i, j - 1>> \in T
          /\ i > 0 => <<i - 1, j>> \in T
          /\ i > 0 /\ j # 0 => <<i - 1, j - 1>> \in T
      <3>1. /\ i \in 0 .. Len(text) /\ i \in Nat /\ j \in Nat /\ x = <<i, j>>
            /\ j # 0 => <<i, j - 1>> \in D /\ m[<<i, j - 1>>] < m[x]
            /\ i > 0 => <<i - 1, j>> \in D /\ m[<<i - 1, j>>] < m[x]
            /\ i > 0 /\ j # 0 => <<i - 1, j - 1>> \in D /\ m[<<i - 1, j - 1>>] < m[x]
        BY CornerType
      <3> HIDE DEF i, j, D, m, T
      <3> QED
        BY <1>2, <3>1
    <2>2. /\ j # 0 => (F[<<i, j - 1>>] <=> Cut(i, j - 1))
          /\ i > 0 => (F[<<i - 1, j>>] <=> Cut(i - 1, j))
          /\ i > 0 /\ j # 0 => (F[<<i - 1, j - 1>>] <=> Cut(i - 1, j - 1))
      <3>1. \A k, n : <<k, n>> \in T => (F[<<k, n>>] <=> Cut(k, n))
        OBVIOUS
      <3> HIDE DEF T, Cut, i, j
      <3> QED
        BY <2>1, <3>1
    <2>3. ASSUME NEW k \in 0 .. i, j # 0
          PROVE  Cut(k, j) <=> \E a \in 0 .. k : Piece(text, p, j, a, k) /\ Cut(a, j - 1)
      <3>1. k \in 0 .. Len(text) /\ j \in Nat \ {0}
        BY <2>1, <2>3, LenProperties
      <3> HIDE DEF i, j
      <3> QED
        BY <3>1, LastPiece
    <2> HIDE DEF Cut, T, D, m
    <2>4. F[x] <=> Cut(i, j)
      <3>1. CASE j = 0
        <4>1. F[x] = (i = 0)
          BY <1>1, <3>1 DEF LookRound
        <4>2. Cut(i, 0) <=> i = 0
          <5> HIDE DEF i
          <5> QED
            BY <2>1, NoPiece DEF Cut
        <4> QED
          BY <3>1, <4>1, <4>2
      <3>2. CASE j # 0 /\ p[j] = Star
        <4>1. F[x] = (F[<<i, j - 1>>] \/ (i > 0 /\ F[<<i - 1, j>>]))
          BY <1>1, <3>2 DEF LookRound
        <4>2. \A k \in 0 .. i : Cut(k, j) <=> \E a \in 0 .. k : Cut(a, j - 1)
          BY <2>3, <3>2 DEF Piece
        <4> HIDE DEF i, j
        <4>3. Cut(i, j) <=> \E a \in 0 .. i : Cut(a, j - 1)
          BY <2>1, <4>2
        <4>4. i > 0 => (Cut(i - 1, j) <=> \E a \in 0 .. i - 1 : Cut(a, j - 1))
          <5>1. i > 0 => i - 1 \in 0 .. i
            BY <2>1
          <5> QED
            BY <4>2, <5>1
        <4>5. (\E a \in 0 .. i : Cut(a, j - 1)) <=>
                 Cut(i, j - 1) \/ (i > 0 /\ \E a \in 0 .. i - 1 : Cut(a, j - 1))
          <5>1. \A a \in 0 .. i : a = i \/ (i > 0 /\ a \in 0 .. i - 1)
            BY <2>1
          <5>2. i \in 0 .. i /\ 0 .. i - 1 \subseteq 0 .. i
            BY <2>1
          <5> QED
            BY <5>1, <5>2
        <4> QED
          BY <2>2, <3>2, <4>1, <4>3, <4>4, <4>5
      <3>3. CASE j # 0 /\ p[j] # Star
        <4>1. F[x] = (i > 0 /\ text[i] \in p[j] /\ F[<<i - 1, j - 1>>])
          BY <1>1, <3>3 DEF LookRound
        <4> HIDE DEF i, j
        <4>2. Cut(i, j) <=> \E a \in 0 .. i : Piece(text, p, j, a, i) /\ Cut(a, j - 1)
          BY <2>1, <2>3, <3>3
        <4>3. \A a \in 0 .. i : Piece(text, p, j, a, i) <=>
                 i > 0 /\ a = i - 1 /\ text[i] \in p[j]
          <5>1. \A a \in 0 .. i : i = a + 1 <=> i > 0 /\ a = i - 1
            BY <2>1
          <5> QED
            BY <3>3, <5>1 DEF Piece
        <4>4. i > 0 => i - 1 \in 0 .. i
          BY <2>1
        <4>5. Cut(i, j) <=> i > 0 /\ text[i] \in p[j] /\ Cut(i - 1, j - 1)
          BY <4>2, <4>3, <4>4
        <4> QED
          BY <2>2, <3>3, <4>1, <4>5
      <3> QED
        BY <3>1, <3>2, <3>3
    <2> QED
      BY <2>4 DEF T
  <1>3. D \subseteq T
    <2>1. m \in [D -> Nat]
      <3>1. \A x \in D : m[x] \in Nat
        BY CornerType
      <3> QED
        BY <3>1 DEF Away
    <2> HIDE DEF D, m, T
    <2> QED
      BY <1>2, <2>1, MeasureInduction
  <1> QED
    BY <1>3 DEF F

(* _pattern_match() accepts the names that its pattern means, and no       *)
(* others: a star is any text, and any other place one of its characters.  *)
THEOREM WildcardsAreMatched ==
    ASSUME NEW C, NEW text \in Seq(C), NEW P, NEW p \in Seq(P)
    PROVE  pattern_match(text, p) <=> MatchesWildcard(text, p)
  <1> DEFINE a == Len(text)  b == Len(p)
  <1>1. <<a, b>> \in Corners(text, p)
    BY LenProperties DEF Corners
  <1>2. pattern_match(text, p) <=> Cuts(text, p, a, b) # {}
    <2>1. pattern_match(text, p) = Looking(text, p)[<<a, b>>]
      BY LookEquation
    <2>2. Looking(text, p)[<<a, b>>] <=> Cuts(text, p, <<a, b>>[1], <<a, b>>[2]) # {}
      <3> HIDE DEF a, b
      <3> QED
        BY <1>1, LookMeans
    <2> QED
      BY <2>1, <2>2
  <1>3. MatchesWildcard(text, p) <=>
          \E cut \in [0 .. b -> 0 .. a] :
             /\ cut[0] = 0 /\ cut[b] = a
             /\ \A k \in 1 .. b : /\ cut[k - 1] <= cut[k]
                                  /\ \/ p[k] = Star
                                     \/ OneOf(SubSeq(text, cut[k - 1] + 1, cut[k]), p[k])
    BY DEF MatchesWildcard, Cuttable
  <1>4. ASSUME NEW cut \in [0 .. b -> 0 .. a], NEW k \in 1 .. b, cut[k - 1] <= cut[k]
        PROVE  Piece(text, p, k, cut[k - 1], cut[k]) <=>
                  p[k] = Star \/ OneOf(SubSeq(text, cut[k - 1] + 1, cut[k]), p[k])
    <2>1. b \in Nat /\ k - 1 \in 0 .. b /\ k \in 0 .. b
      BY LenProperties
    <2> DEFINE x == cut[k - 1]  y == cut[k]
    <2>2. x \in 0 .. a /\ y \in 0 .. a /\ x <= y
      BY <1>4, <2>1
    <2> HIDE DEF x, y
    <2> QED
      BY <2>2, PieceMeans DEF x, y
  <1> QED
    BY <1>2, <1>3, <1>4 DEF Cuts

-----------------------------------------------------------------------------
(* The matcher of .ignore. What the loop has to tell is whether the text   *)
(* from some places on is what the pattern from a place on means. That     *)
(* stays the same at every step, while the loop goes upwards in an order;  *)
(* a state with a wrong answer that is the highest one can then only be    *)
(* one where the loop ends, and there the answers are right.               *)

(* The results of a loop that goes on from x to next[x] for x in C, and    *)
(* else accepts the x in T.                                                *)
LoopResults(D, T, C, next) ==
    {f \in [D -> BOOLEAN] :
        \A x \in D : /\ x \in C => (f[x] <=> f[next[x]])
                     /\ x \notin C => (f[x] <=> x \in T)}

(* A loop has a result for each x: it accepts what has to be accepted.     *)
LEMMA LoopHasResult ==
    ASSUME NEW D, NEW T, NEW C \in SUBSET D, NEW next \in [C -> D]
    PROVE  LoopResults(D, T, C, next) # {}
  <1> DEFINE Closed(A) == \A x \in D : (IF x \in C THEN next[x] \in A ELSE x \in T) => x \in A
             Accepted == {x \in D : \A A \in SUBSET D : Closed(A) => x \in A}
             Once == {x \in D : IF x \in C THEN next[x] \in Accepted ELSE x \in T}
             f == [x \in D |-> x \in Accepted]
  <1>1. Once \subseteq Accepted
    OBVIOUS
  <1>2. Closed(Once)
    BY <1>1
  <1>3. Accepted \subseteq Once
    <2>1. Once \in SUBSET D
      OBVIOUS
    <2> HIDE DEF Once, Closed
    <2> QED
      BY <1>2, <2>1
  <1>4. \A x \in D : x \in Accepted <=> IF x \in C THEN next[x] \in Accepted ELSE x \in T
    BY <1>1, <1>3
  <1>5. \A x \in C : next[x] \in D
    OBVIOUS
  <1> HIDE DEF Accepted
  <1>6. \A x \in D : f[x] <=> x \in Accepted
    OBVIOUS
  <1>7. f \in [D -> BOOLEAN]
    OBVIOUS
  <1> HIDE DEF f
  <1>8. f \in LoopResults(D, T, C, next)
    BY <1>4, <1>5, <1>6, <1>7 DEF LoopResults
  <1> QED
    BY <1>8

(* Of numbers that are not above a bound there is a greatest.              *)
LEMMA Greatest ==
    ASSUME NEW D, D # {}, NEW W \in Nat, NEW r \in [D -> 0 .. W]
    PROVE  \E x \in D : \A y \in D : r[y] <= r[x]
  <1> DEFINE N == {W - r[x] : x \in D}
  <1>1. \A x \in D : r[x] \in 0 .. W /\ W - r[x] \in Nat
    BY SMT
  <1>2. N \subseteq Nat /\ N # {}
    BY <1>1
  <1>3. PICK n \in N : \A k \in N : n <= k
    <2> HIDE DEF N
    <2> QED
      BY <1>2, FirstNumber
  <1>4. PICK x \in D : n = W - r[x]
    BY <1>3
  <1>5. ASSUME NEW y \in D PROVE r[y] <= r[x]
    <2>1. W - r[x] <= W - r[y]
      BY <1>3, <1>4
    <2> QED
      BY <1>1, <2>1
  <1> QED
    BY <1>5

(* Five numbers for each x of D; y is above x when the first of them that  *)
(* differs is greater.                                                     *)
Ranks(D, W) == [1 .. 5 -> [D -> 0 .. W]]

Above(r, y, x) ==
    \E n \in 1 .. 5 : r[n][y] > r[n][x] /\ \A k \in 1 .. n - 1 : r[k][y] = r[k][x]

(* Of bounded ranks there is a greatest.                                   *)
LEMMA GreatestInOrder ==
    ASSUME NEW D, D # {}, NEW W \in Nat, NEW r \in Ranks(D, W)
    PROVE  \E x \in D : \A y \in D : ~ Above(r, y, x)
  <1> DEFINE Most(S, n) == {x \in S : \A y \in S : r[n][y] <= r[n][x]}
             S1 == Most(D, 1)  S2 == Most(S1, 2)  S3 == Most(S2, 3)
             S4 == Most(S3, 4)  S5 == Most(S4, 5)
  <1>2. \A S : \A n \in 1 .. 5 : S # {} /\ S \subseteq D =>
           Most(S, n) # {} /\ Most(S, n) \subseteq S
    <2> SUFFICES ASSUME NEW S, S # {}, S \subseteq D, NEW n \in 1 .. 5
                 PROVE  Most(S, n) # {}
      OBVIOUS
    <2> DEFINE s == [x \in S |-> r[n][x]]
    <2>1. s \in [S -> 0 .. W]
      BY DEF Ranks
    <2>2. \A x \in S : s[x] = r[n][x]
      OBVIOUS
    <2> HIDE DEF s
    <2>3. PICK x \in S : \A y \in S : s[y] <= s[x]
      BY <2>1, Greatest
    <2> QED
      BY <2>2, <2>3
  <1> HIDE DEF Most
  <1>3. /\ S1 # {} /\ S1 \subseteq D
        /\ S2 # {} /\ S2 \subseteq S1
        /\ S3 # {} /\ S3 \subseteq S2
        /\ S4 # {} /\ S4 \subseteq S3
        /\ S5 # {} /\ S5 \subseteq S4
    <2>1. S1 # {} /\ S1 \subseteq D
      BY <1>2
    <2> HIDE DEF S1
    <2>2. S2 # {} /\ S2 \subseteq S1
      BY <1>2, <2>1
    <2> HIDE DEF S2
    <2>3. S3 # {} /\ S3 \subseteq S2
      BY <1>2, <2>1, <2>2
    <2> HIDE DEF S3
    <2>4. S4 # {} /\ S4 \subseteq S3
      BY <1>2, <2>1, <2>2, <2>3
    <2> HIDE DEF S4
    <2>5. S5 # {} /\ S5 \subseteq S4
      BY <1>2, <2>1, <2>2, <2>3, <2>4
    <2> QED
      BY <2>1, <2>2, <2>3, <2>4, <2>5
  <1> HIDE DEF S1, S2, S3, S4, S5
  <1>4. PICK x \in S5 : TRUE
    BY <1>3
  <1>5. x \in D /\ x \in S1 /\ x \in S2 /\ x \in S3 /\ x \in S4
    BY <1>3
  <1>6. ASSUME NEW S, x \in S, S \subseteq D, NEW n \in 1 .. 5, x \in Most(S, n), NEW y \in S
        PROVE  /\ r[n][y] <= r[n][x]
               /\ r[n][y] = r[n][x] => y \in Most(S, n)
    BY <1>6 DEF Most
  <1>7. ASSUME NEW y \in D
        PROVE  ~ Above(r, y, x)
    <2> DEFINE Same(k) == r[k][y] = r[k][x]
               Not(k) == r[k][y] <= r[k][x]
    <2>1. Not(1) /\ (Same(1) => y \in S1)
      BY <1>3, <1>5, <1>6 DEF S1
    <2>2. y \in S1 => Not(2) /\ (Same(2) => y \in S2)
      BY <1>3, <1>5, <1>6 DEF S2
    <2>3. y \in S2 => Not(3) /\ (Same(3) => y \in S3)
      BY <1>3, <1>5, <1>6 DEF S3
    <2>4. y \in S3 => Not(4) /\ (Same(4) => y \in S4)
      BY <1>3, <1>5, <1>6 DEF S4
    <2>5. y \in S4 => Not(5)
      BY <1>3, <1>5, <1>6 DEF S5
    <2>6. ASSUME NEW n \in 1 .. 5, \A k \in 1 .. n - 1 : Same(k)
          PROVE  Not(n)
      <3>1. /\ n = 1 \/ n = 2 \/ n = 3 \/ n = 4 \/ n = 5
            /\ n >= 2 => 1 \in 1 .. n - 1
            /\ n >= 3 => 2 \in 1 .. n - 1
            /\ n >= 4 => 3 \in 1 .. n - 1
            /\ n >= 5 => 4 \in 1 .. n - 1
        OBVIOUS
      <3>2. /\ n >= 2 => Same(1)
            /\ n >= 3 => Same(2)
            /\ n >= 4 => Same(3)
            /\ n >= 5 => Same(4)
        BY <2>6, <3>1
      <3> HIDE DEF Same, Not
      <3> QED
        BY <2>1, <2>2, <2>3, <2>4, <2>5, <3>1, <3>2
    <2>7. \A n \in 1 .. 5 : r[n][y] \in Int /\ r[n][x] \in Int
      BY <1>5 DEF Ranks
    <2> QED
      BY <2>6, <2>7 DEF Above
  <1> QED
    BY <1>5, <1>7

NoPlace == <<0, 0>>

(* Where the loop of gitignore_glob_match() may be.                        *)
GlobStates == Nat \X Nat \X Place \X Place

(* What the loop does at a state, given what it answers at the others.     *)
GlobRound(text, p, at, f) ==
    LET t == at[1]
        g == at[2]
        star == at[3]
        dirs == at[4]
    IN  IF t > Len(text) THEN \A k \in g .. Len(p) : p[k] = Star
        ELSE IF TokenAt(p, g) = Star /\ TokenAt(p, g + 1) = Star THEN
            IF g + 1 = Len(p) THEN TRUE
            ELSE TokenAt(p, g + 2) = Slashes /\ f[<<t, g + 3, <<0, 0>>, <<t, g + 3>>>>]
        ELSE IF TokenAt(p, g) = Star THEN f[<<t, g + 1, <<t, g + 1>>, dirs>>]
        ELSE IF text[t] \in TokenAt(p, g) THEN f[<<t + 1, g + 1, star, dirs>>]
        ELSE IF CanStretch(text, star)
            THEN f[<<star[1] + 1, star[2], Advance(star), dirs>>]
        ELSE IF dirs # <<0, 0>> THEN f[<<dirs[1] + 1, dirs[2], star, Advance(dirs)>>]
        ELSE FALSE

(* The function in GlobLoop.                                               *)
Globbing(text, p) == CHOOSE loop : loop = [at \in GlobStates |-> GlobRound(text, p, at, loop)]

(* Where the loop goes on, and where to; what it answers where it ends.    *)
TwoStars(p, g) == TokenAt(p, g) = Star /\ TokenAt(p, g + 1) = Star

GlobGoesOn(text, p, at) ==
    /\ at[1] <= Len(text)
    /\ IF TwoStars(p, at[2])
       THEN at[2] + 1 # Len(p) /\ TokenAt(p, at[2] + 2) = Slashes
       ELSE \/ TokenAt(p, at[2]) = Star \/ text[at[1]] \in TokenAt(p, at[2])
            \/ CanStretch(text, at[3]) \/ at[4] # NoPlace

GlobNext(text, p, at) ==
    LET t == at[1]
        g == at[2]
        star == at[3]
        dirs == at[4]
    IN  IF TwoStars(p, g) THEN <<t, g + 3, NoPlace, <<t, g + 3>>>>
        ELSE IF TokenAt(p, g) = Star THEN <<t, g + 1, <<t, g + 1>>, dirs>>
        ELSE IF text[t] \in TokenAt(p, g) THEN <<t + 1, g + 1, star, dirs>>
        ELSE IF CanStretch(text, star) THEN <<star[1] + 1, star[2], Advance(star), dirs>>
        ELSE <<dirs[1] + 1, dirs[2], star, Advance(dirs)>>

GlobAccepts(text, p, at) ==
    IF at[1] > Len(text) THEN \A k \in at[2] .. Len(p) : p[k] = Star
    ELSE TwoStars(p, at[2]) /\ at[2] + 1 = Len(p)

(* A round of the loop makes a state of a state.                           *)
LEMMA GlobNextType ==
    ASSUME NEW text, NEW p, NEW at \in GlobStates
    PROVE  GlobNext(text, p, at) \in GlobStates
  <1> DEFINE t == at[1]  g == at[2]  star == at[3]  dirs == at[4]
  <1>1. t \in Nat /\ g \in Nat /\ star \in Place /\ dirs \in Place
    BY DEF GlobStates
  <1>2. /\ star[1] \in Nat /\ star[2] \in Nat /\ dirs[1] \in Nat /\ dirs[2] \in Nat
    BY <1>1 DEF Place
  <1> DEFINE IsState(a, b, c, d) == a \in Nat /\ b \in Nat /\ c \in Place /\ d \in Place
  <1>3. \A a, b, c, d : IsState(a, b, c, d) => <<a, b, c, d>> \in GlobStates
    BY DEF GlobStates
  <1> HIDE DEF t, g, star, dirs
  <1>4. /\ NoPlace \in Place /\ <<t, g + 3>> \in Place /\ <<t, g + 1>> \in Place
        /\ Advance(star) \in Place /\ Advance(dirs) \in Place
    BY <1>1, <1>2 DEF Place, NoPlace, Advance
  <1>5. /\ IsState(t, g + 3, NoPlace, <<t, g + 3>>)
        /\ IsState(t, g + 1, <<t, g + 1>>, dirs)
        /\ IsState(t + 1, g + 1, star, dirs)
        /\ IsState(star[1] + 1, star[2], Advance(star), dirs)
        /\ IsState(dirs[1] + 1, dirs[2], star, Advance(dirs))
    BY <1>1, <1>2, <1>4
  <1> HIDE DEF IsState
  <1> QED
    BY <1>3, <1>5 DEF GlobNext, t, g, star, dirs

(* The function in GlobLoop is what its definition says: it goes on, or    *)
(* ends with its answer.                                                   *)
LEMMA GlobEquation ==
    ASSUME NEW text, NEW p
    PROVE  /\ GlobLoop(text, p) = Globbing(text, p)[<<1, 1, NoPlace, NoPlace>>]
           /\ \A at \in GlobStates :
                 Globbing(text, p)[at] <=>
                    IF GlobGoesOn(text, p, at) THEN Globbing(text, p)[GlobNext(text, p, at)]
                    ELSE GlobAccepts(text, p, at)
  <1> DEFINE D == GlobStates
             C == {at \in D : GlobGoesOn(text, p, at)}
             T == {at \in D : GlobAccepts(text, p, at)}
             next == [at \in C |-> GlobNext(text, p, at)]
  <1>1. ASSUME NEW at \in D, NEW f
        PROVE  GlobRound(text, p, at, f) <=>
                  IF GlobGoesOn(text, p, at) THEN f[GlobNext(text, p, at)]
                  ELSE GlobAccepts(text, p, at)
    <2> DEFINE t == at[1]  g == at[2]  star == at[3]  dirs == at[4]  n == Len(text)
               Goes == GlobGoesOn(text, p, at)
    <2>1. CASE t > n
      <3>1. ~ Goes
        BY <2>1, LenProperties DEF GlobGoesOn, GlobStates
      <3> QED
        BY <2>1, <3>1 DEF GlobRound, GlobAccepts
    <2>2. CASE ~ t > n
      <3>1. t <= n
        BY <2>2, LenProperties DEF GlobStates
      <3> QED
        BY <2>2, <3>1 DEF GlobRound, GlobAccepts, GlobGoesOn, GlobNext, TwoStars, NoPlace
    <2> QED
      BY <2>1, <2>2
  <1>2. next \in [C -> D] /\ C \in SUBSET D
    BY GlobNextType
  <1>3. PICK f \in [D -> BOOLEAN] :
            \A at \in D :
               /\ GlobGoesOn(text, p, at) => (f[at] <=> f[GlobNext(text, p, at)])
               /\ ~ GlobGoesOn(text, p, at) => (f[at] <=> GlobAccepts(text, p, at))
    <2>1. /\ \A at \in D : at \in C <=> GlobGoesOn(text, p, at)
          /\ \A at \in D : at \in T <=> GlobAccepts(text, p, at)
          /\ \A at \in C : next[at] = GlobNext(text, p, at)
      OBVIOUS
    <2> HIDE DEF C, D, T, next
    <2>2. PICK f \in LoopResults(D, T, C, next) : TRUE
      BY <1>2, LoopHasResult
    <2>3. /\ f \in [D -> BOOLEAN]
          /\ \A at \in D : /\ at \in C => (f[at] <=> f[next[at]])
                           /\ at \notin C => (f[at] <=> at \in T)
      BY DEF LoopResults
    <2>4. ASSUME NEW at \in D
          PROVE  /\ GlobGoesOn(text, p, at) => (f[at] <=> f[GlobNext(text, p, at)])
                 /\ ~ GlobGoesOn(text, p, at) => (f[at] <=> GlobAccepts(text, p, at))
      BY <2>1, <2>3
    <2> QED
      BY <2>3, <2>4
  <1>4. ASSUME NEW at \in D
        PROVE  f[at] = GlobRound(text, p, at, f)
    <2>1. f[at] <=> GlobRound(text, p, at, f)
      <3>1. CASE GlobGoesOn(text, p, at)
        BY <1>1, <1>3, <3>1
      <3>2. CASE ~ GlobGoesOn(text, p, at)
        BY <1>1, <1>3, <3>2
      <3> QED
        BY <3>1, <3>2
    <2>2. GlobRound(text, p, at, f) \in BOOLEAN
      <3>1. GlobGoesOn(text, p, at) => GlobNext(text, p, at) \in D
        BY GlobNextType
      <3>2. GlobGoesOn(text, p, at) => f[GlobNext(text, p, at)] \in BOOLEAN
        BY <1>3, <3>1
      <3>3. CASE GlobGoesOn(text, p, at) /\ ~ TwoStars(p, at[2])
        <4>1. ~ at[1] > Len(text)
          BY <3>3 DEF GlobGoesOn, GlobStates
        <4>2. GlobRound(text, p, at, f) = f[GlobNext(text, p, at)]
          BY <3>3, <4>1 DEF GlobGoesOn, GlobRound, GlobNext, TwoStars, NoPlace
        <4> QED
          BY <3>2, <3>3, <4>2
      <3>4. CASE at[1] > Len(text)
        BY <3>4 DEF GlobRound
      <3>5. CASE ~ at[1] > Len(text) /\ TwoStars(p, at[2])
        BY <3>5 DEF GlobRound, TwoStars
      <3>6. CASE ~ at[1] > Len(text) /\ ~ TwoStars(p, at[2]) /\ ~ GlobGoesOn(text, p, at)
        <4>1. at[1] <= Len(text)
          BY <3>6 DEF GlobStates
        <4>2. GlobRound(text, p, at, f) = FALSE
          BY <3>6, <4>1 DEF GlobRound, TwoStars, GlobGoesOn, NoPlace
        <4> QED
          BY <4>2
      <3> QED
        BY <3>3, <3>4, <3>5, <3>6
    <2>3. f[at] \in BOOLEAN
      OBVIOUS
    <2> QED
      BY <2>1, <2>2, <2>3
  <1>5. f = [at \in D |-> GlobRound(text, p, at, f)]
    BY <1>4
  <1>6. Globbing(text, p) = [at \in D |-> GlobRound(text, p, at, Globbing(text, p))]
    BY <1>5 DEF Globbing
  <1>7. ASSUME NEW at \in D
        PROVE  Globbing(text, p)[at] <=>
                  IF GlobGoesOn(text, p, at) THEN Globbing(text, p)[GlobNext(text, p, at)]
                  ELSE GlobAccepts(text, p, at)
    <2>1. Globbing(text, p)[at] = GlobRound(text, p, at, Globbing(text, p))
      BY <1>6
    <2> QED
      BY <1>1, <2>1
  <1>8. GlobLoop(text, p) = Globbing(text, p)[<<1, 1, NoPlace, NoPlace>>]
    BY DEF GlobLoop, Globbing, GlobRound, GlobStates, NoPlace
  <1> QED
    BY <1>7, <1>8

(* The second of two stars.                                                *)
Twice(p, k) == TokenAt(p, k) = Star /\ TokenAt(p, k - 1) = Star

(* Place k of the pattern may stand for the text from b up to before e.    *)
Takes(text, p, k, b, e) ==
    IF Twice(p, k) THEN TRUE
    ELSE IF Twice(p, k + 1) \/ Twice(p, k - 1) THEN e = b
    ELSE IF p[k] = Star THEN \A i \in b .. e - 1 : text[i] # Slash
    ELSE e = b + 1 /\ text[b] \in p[k]

(* The ways in which the text from t on is what the pattern from g on      *)
(* means: where the text of each place begins.                             *)
Ways(text, p, t, g) ==
    {w \in [g .. Len(p) + 1 -> 1 .. Len(text) + 1] :
        /\ w[g] = t /\ w[Len(p) + 1] = Len(text) + 1
        /\ \A k \in g .. Len(p) : w[k] <= w[k + 1] /\ Takes(text, p, k, w[k], w[k + 1])}

(* What is known of a way.                                                 *)
LEMMA WayType ==
    ASSUME NEW C, NEW text \in Seq(C), NEW P, NEW p \in Seq(P),
           NEW g \in 1 .. Len(p) + 1, NEW t, NEW w \in Ways(text, p, t, g)
    PROVE  /\ w[g] = t /\ w[Len(p) + 1] = Len(text) + 1
           /\ \A k \in g .. Len(p) + 1 : w[k] \in 1 .. Len(text) + 1
           /\ \A k \in g .. Len(p) :
                 w[k] <= w[k + 1] /\ Takes(text, p, k, w[k], w[k + 1])
  BY DEF Ways

(* What follows in a way is a way.                                         *)
LEMMA WayFrom ==
    ASSUME NEW C, NEW text \in Seq(C), NEW P, NEW p \in Seq(P),
           NEW g \in 1 .. Len(p) + 1, NEW t, NEW w \in Ways(text, p, t, g),
           NEW k \in g .. Len(p) + 1
    PROVE  Ways(text, p, w[k], k) # {}
  <1> DEFINE m == Len(p)  n == Len(text)
             v == [i \in k .. m + 1 |-> w[i]]
  <1>1. m \in Nat /\ n \in Nat /\ g \in Nat /\ k \in Nat /\ g <= k /\ k <= m + 1
    BY LenProperties
  <1>2. /\ w[m + 1] = n + 1
        /\ \A i \in g .. m + 1 : w[i] \in 1 .. n + 1
        /\ \A i \in g .. m : w[i] <= w[i + 1] /\ Takes(text, p, i, w[i], w[i + 1])
    BY WayType
  <1> HIDE DEF m, n
  <1>3. /\ k .. m + 1 \subseteq g .. m + 1 /\ k .. m \subseteq g .. m
        /\ k \in k .. m + 1 /\ m + 1 \in k .. m + 1
        /\ \A i \in k .. m : i \in k .. m + 1 /\ i + 1 \in k .. m + 1
    BY <1>1
  <1>4. v \in [k .. m + 1 -> 1 .. n + 1] /\ \A i \in k .. m + 1 : v[i] = w[i]
    BY <1>2, <1>3
  <1> HIDE DEF v
  <1>5. v[k] = w[k] /\ v[m + 1] = n + 1
    BY <1>2, <1>3, <1>4
  <1>6. \A i \in k .. m : v[i] <= v[i + 1] /\ Takes(text, p, i, v[i], v[i + 1])
    BY <1>2, <1>3, <1>4
  <1>7. v \in Ways(text, p, w[k], k)
    BY <1>4, <1>5, <1>6 DEF Ways, m, n
  <1> QED
    BY <1>7

(* A place before a way makes a way.                                       *)
LEMMA WayBefore ==
    ASSUME NEW C, NEW text \in Seq(C), NEW P, NEW p \in Seq(P),
           NEW g \in 1 .. Len(p), NEW u \in 1 .. Len(text) + 1, NEW t \in 1 .. u,
           Takes(text, p, g, t, u), Ways(text, p, u, g + 1) # {}
    PROVE  Ways(text, p, t, g) # {}
  <1> DEFINE m == Len(p)  n == Len(text)  h == g + 1
  <1>1. PICK w : w \in Ways(text, p, u, h)
    OBVIOUS
  <1> DEFINE v == [i \in g .. m + 1 |-> IF i = g THEN t ELSE w[i]]
  <1>2. /\ m \in Nat /\ n \in Nat /\ g \in Nat /\ g <= m /\ u \in Nat /\ t \in Nat /\ t <= u
        /\ h \in 1 .. m + 1 /\ u <= n + 1
    BY LenProperties
  <1>3. /\ w[h] = u /\ w[m + 1] = n + 1
        /\ \A i \in h .. m + 1 : w[i] \in 1 .. n + 1
        /\ \A i \in h .. m : w[i] <= w[i + 1] /\ Takes(text, p, i, w[i], w[i + 1])
    <2> HIDE DEF h
    <2> QED
      BY <1>1, <1>2, WayType
  <1> HIDE DEF m, n
  <1>4. /\ g \in g .. m + 1 /\ m + 1 \in g .. m + 1 /\ m + 1 # g
        /\ \A i \in g .. m + 1 : i # g => i \in h .. m + 1
        /\ \A i \in g .. m : i # g => i \in h .. m /\ i + 1 # g
        /\ \A i \in g .. m : i \in g .. m + 1 /\ i + 1 \in g .. m + 1
        /\ h # g /\ h \in g .. m + 1
    BY <1>2
  <1>5. /\ v \in [g .. m + 1 -> 1 .. n + 1]
        /\ v[g] = t /\ \A i \in g .. m + 1 : i # g => v[i] = w[i]
    BY <1>2, <1>3, <1>4
  <1> HIDE DEF v
  <1>6. v[m + 1] = n + 1
    BY <1>3, <1>4, <1>5
  <1>7. ASSUME NEW i \in g .. m
        PROVE  v[i] <= v[i + 1] /\ Takes(text, p, i, v[i], v[i + 1])
    <2>1. CASE i = g
      <3>1. v[i] = t /\ v[i + 1] = u
        BY <1>3, <1>4, <1>5, <2>1
      <3> QED
        BY <1>2, <2>1, <3>1
    <2>2. CASE i # g
      <3>1. v[i] = w[i] /\ v[i + 1] = w[i + 1]
        BY <1>4, <1>5, <2>2
      <3> QED
        BY <1>3, <1>4, <2>2, <3>1
    <2> QED
      BY <2>1, <2>2
  <1>8. v \in Ways(text, p, t, g)
    BY <1>5, <1>6, <1>7 DEF Ways, m, n
  <1> QED
    BY <1>8

(* A way goes onward.                                                      *)
LEMMA WayOnward ==
    ASSUME NEW C, NEW text \in Seq(C), NEW P, NEW p \in Seq(P),
           NEW g \in 1 .. Len(p) + 1, NEW t, NEW w \in Ways(text, p, t, g),
           NEW k \in g .. Len(p) + 1
    PROVE  t <= w[k]
  <1> DEFINE m == Len(p)  n == Len(text)
             T == {i \in Nat : g + i <= m + 1 => t <= w[g + i]}
  <1>1. m \in Nat /\ n \in Nat /\ g \in Nat /\ k \in Nat /\ g <= k /\ k <= m + 1
    BY LenProperties
  <1>2. /\ w[g] = t
        /\ \A i \in g .. m + 1 : w[i] \in 1 .. n + 1
        /\ \A i \in g .. m : w[i] <= w[i + 1]
    BY WayType
  <1> HIDE DEF m, n
  <1>3. 0 \in T
    <2>1. g + 0 = g /\ g \in g .. m + 1
      BY <1>1
    <2>2. w[g + 0] = t /\ t \in 1 .. n + 1
      BY <1>2, <2>1
    <2> QED
      BY <2>2
  <1>4. ASSUME NEW i \in Nat, i \in T
        PROVE  i + 1 \in T
    <2> SUFFICES ASSUME g + (i + 1) <= m + 1 PROVE t <= w[g + (i + 1)]
      OBVIOUS
    <2>1. /\ g + i \in g .. m /\ g + i \in g .. m + 1 /\ (g + i) + 1 = g + (i + 1)
          /\ g + (i + 1) \in g .. m + 1 /\ g \in g .. m + 1 /\ g + i <= m + 1
      BY <1>1
    <2>2. t <= w[g + i] /\ w[g + i] <= w[g + (i + 1)]
      BY <1>2, <1>4, <2>1
    <2>3. t \in Nat /\ w[g + i] \in Nat /\ w[g + (i + 1)] \in Nat
      BY <1>2, <2>1
    <2> QED
      BY <2>2, <2>3
  <1>5. Nat \subseteq T
    <2> HIDE DEF T
    <2> QED
      BY <1>3, <1>4, CountUp
  <1>6. k - g \in T /\ g + (k - g) = k
    BY <1>1, <1>5
  <1> QED
    BY <1>1, <1>6

(* A place that stands for one character.                                  *)
Plain(p, k) == TokenAt(p, k) # Star /\ ~ Twice(p, k - 1)

(* Places that stand for one character each.                               *)
LEMMA WayAlong ==
    ASSUME NEW C, NEW text \in Seq(C), NEW P, NEW p \in Seq(P),
           NEW s \in 1 .. Len(p) + 1, NEW t, NEW w \in Ways(text, p, t, s),
           NEW d \in s .. Len(p) + 1, NEW g \in d .. Len(p) + 1,
           \A k \in d .. g - 1 : Plain(p, k)
    PROVE  w[g] = w[d] + (g - d)
  <1> DEFINE m == Len(p)  n == Len(text)
             T == {i \in Nat : d + i <= g => w[d + i] = w[d] + i}
  <1>1. /\ m \in Nat /\ n \in Nat /\ s \in Nat /\ d \in Nat /\ g \in Nat
        /\ 1 <= s /\ s <= d /\ d <= g /\ g <= m + 1
        /\ DOMAIN p = 1 .. m
    BY LenProperties
  <1>2. /\ \A i \in s .. m + 1 : w[i] \in 1 .. n + 1
        /\ \A i \in s .. m : Takes(text, p, i, w[i], w[i + 1])
    BY WayType
  <1> HIDE DEF m, n
  <1>3. 0 \in T
    <2>1. d + 0 = d /\ w[d] \in Nat
      BY <1>1, <1>2
    <2> QED
      BY <2>1
  <1>4. ASSUME NEW i \in Nat, i \in T
        PROVE  i + 1 \in T
    <2> SUFFICES ASSUME d + (i + 1) <= g PROVE w[d + (i + 1)] = w[d] + (i + 1)
      OBVIOUS
    <2> DEFINE k == d + i
    <2>1. /\ k \in d .. g - 1 /\ k \in s .. m /\ k \in 1 .. m /\ k + 1 = d + (i + 1)
          /\ k \in s .. m + 1 /\ k <= g /\ d \in s .. m + 1
      BY <1>1
    <2>2. w[k] = w[d] + i
      BY <1>4, <2>1
    <2>3. TokenAt(p, k) # Star /\ ~ Twice(p, k - 1) /\ TokenAt(p, k) = p[k]
      BY <1>1, <2>1 DEF Plain, TokenAt
    <2>4. ~ Twice(p, k) /\ ~ Twice(p, k + 1)
      <3>1. (k + 1) - 1 = k
        BY <2>1
      <3> QED
        BY <2>3, <3>1 DEF Twice
    <2>5. w[k + 1] = w[k] + 1
      <3>1. Takes(text, p, k, w[k], w[k + 1])
        BY <1>2, <2>1
      <3> HIDE DEF k
      <3> QED
        BY <2>3, <2>4, <3>1 DEF Takes
    <2>6. w[k] \in Nat /\ w[d] \in Nat
      BY <1>2, <2>1
    <2>7. w[d + (i + 1)] = w[k + 1]
      BY <2>1
    <2> DEFINE a == w[k]  c == w[d]  e == w[k + 1]
    <2>8. a = c + i /\ e = a + 1 /\ a \in Nat /\ c \in Nat
      BY <2>2, <2>5, <2>6
    <2>9. w[d + (i + 1)] = e
      BY <2>7
    <2> HIDE DEF k, a, c, e
    <2>10. e = c + (i + 1)
      BY <2>8
    <2> QED
      BY <2>9, <2>10 DEF c
  <1>5. Nat \subseteq T
    <2> HIDE DEF T
    <2> QED
      BY <1>3, <1>4, CountUp
  <1>6. g - d \in T /\ d + (g - d) = g
    BY <1>1, <1>5
  <1> QED
    BY <1>1, <1>6

(* A place that is neither a star nor the slash after two stands for one   *)
(* of its characters.                                                      *)
LEMMA TakesOne ==
    ASSUME NEW text, NEW P, NEW p \in Seq(P), NEW g \in 1 .. Len(p), Plain(p, g), NEW b, NEW e
    PROVE  Takes(text, p, g, b, e) <=> e = b + 1 /\ text[b] \in TokenAt(p, g)
  <1>1. g \in DOMAIN p /\ (g + 1) - 1 = g
    BY LenProperties
  <1>2. TokenAt(p, g) = p[g]
    BY <1>1 DEF TokenAt
  <1>3. ~ Twice(p, g) /\ ~ Twice(p, g + 1) /\ ~ Twice(p, g - 1) /\ p[g] # Star
    BY <1>1, <1>2 DEF Twice, Plain
  <1> QED
    BY <1>2, <1>3 DEF Takes

(* A star alone stands for any text without a slash.                       *)
LEMMA TakesStar ==
    ASSUME NEW text, NEW P, NEW p \in Seq(P), NEW g \in Nat, TokenAt(p, g) = Star,
           ~ TwoStars(p, g), ~ Twice(p, g), ~ Twice(p, g - 1), NEW b, NEW e
    PROVE  /\ g \in 1 .. Len(p)
           /\ Takes(text, p, g, b, e) <=> \A i \in b .. e - 1 : text[i] # Slash
  <1>1. g \in DOMAIN p /\ p[g] = Star
    BY StarIsNoSet DEF TokenAt
  <1>2. DOMAIN p = 1 .. Len(p) /\ (g + 1) - 1 = g
    BY LenProperties
  <1>3. ~ Twice(p, g + 1)
    BY <1>2 DEF Twice, TwoStars
  <1> QED
    BY <1>1, <1>2, <1>3 DEF Takes

(* Two stars, and the slash after them.                                    *)
LEMMA TakesFolders ==
    ASSUME NEW text, NEW P, NEW p \in Seq(P), WellFormed(p), NEW g \in Nat, TwoStars(p, g),
           ~ Twice(p, g), ~ Twice(p, g - 1)
    PROVE  /\ g \in 1 .. Len(p) /\ g + 1 \in 1 .. Len(p)
           /\ g = 1 \/ TokenAt(p, g - 1) = Slashes
           /\ \A b, e : Takes(text, p, g, b, e) <=> e = b
           /\ \A b, e : Takes(text, p, g + 1, b, e)
           /\ g + 1 # Len(p) =>
                 /\ g + 2 \in 1 .. Len(p) /\ g + 3 \in 1 .. Len(p) + 1
                 /\ TokenAt(p, g + 2) = Slashes
                 /\ ~ Twice(p, g + 3) /\ ~ Twice(p, g + 2)
                 /\ \A b, e : Takes(text, p, g + 2, b, e) <=> e = b
  <1> DEFINE m == Len(p)
  <1>1. DOMAIN p = 1 .. m /\ m \in Nat
    BY LenProperties
  <1>2. g \in DOMAIN p /\ g + 1 \in DOMAIN p /\ p[g] = Star /\ p[g + 1] = Star
    BY StarIsNoSet DEF TwoStars, TokenAt
  <1> HIDE DEF m
  <1>3. g \in 1 .. m - 1 /\ g \in 1 .. m /\ g + 1 \in 1 .. m
    BY <1>1, <1>2
  <1>4. /\ g = 1 \/ p[g - 1] = Slashes
        /\ g + 1 = m \/ p[g + 2] = Slashes
    BY <1>2, <1>3 DEF WellFormed, m
  <1>5. g = 1 \/ TokenAt(p, g - 1) = Slashes
    <2>1. g # 1 => g - 1 \in DOMAIN p
      BY <1>1, <1>3
    <2> QED
      BY <1>4, <2>1 DEF TokenAt
  <1>6. Twice(p, g + 1)
    <2>1. (g + 1) - 1 = g
      BY <1>1
    <2> QED
      BY <2>1 DEF Twice, TwoStars
  <1>7. /\ \A b, e : Takes(text, p, g, b, e) <=> e = b
        /\ \A b, e : Takes(text, p, g + 1, b, e)
    BY <1>6 DEF Takes
  <1>8. ASSUME g + 1 # m
        PROVE  /\ g + 2 \in 1 .. m /\ g + 3 \in 1 .. m + 1
               /\ TokenAt(p, g + 2) = Slashes
               /\ ~ Twice(p, g + 3) /\ ~ Twice(p, g + 2)
               /\ \A b, e : Takes(text, p, g + 2, b, e) <=> e = b
    <2>1. /\ g + 2 \in 1 .. m /\ g + 3 \in 1 .. m + 1 /\ g + 2 \in DOMAIN p
          /\ (g + 3) - 1 = g + 2 /\ (g + 2) + 1 = g + 3 /\ (g + 2) - 1 = g + 1
      BY <1>1, <1>3, <1>8
    <2>2. TokenAt(p, g + 2) = Slashes /\ p[g + 2] = Slashes
      BY <1>4, <1>8, <2>1 DEF TokenAt
    <2>3. ~ Twice(p, g + 3) /\ ~ Twice(p, g + 2)
      BY <2>1, <2>2, StarIsNoSet DEF Twice
    <2>4. \A b, e : Takes(text, p, g + 2, b, e) <=> e = b
      BY <1>6, <2>1, <2>3 DEF Takes
    <2> QED
      BY <2>1, <2>2, <2>3, <2>4
  <1> QED
    BY <1>3, <1>5, <1>7, <1>8 DEF m

(* The ways that begin with place d of the pattern at one of the places U  *)
(* of the text.                                                            *)
Solutions(text, p, d, U) == UNION {Ways(text, p, u, d) : u \in U}

(* What is known of a way that begins in U.                                *)
LEMMA SolutionType ==
    ASSUME NEW C, NEW text \in Seq(C), NEW P, NEW p \in Seq(P),
           NEW d \in 1 .. Len(p) + 1, NEW U, NEW w \in Solutions(text, p, d, U)
    PROVE  /\ \E u \in U : w \in Ways(text, p, u, d)
           /\ w[Len(p) + 1] = Len(text) + 1
           /\ \A k \in d .. Len(p) + 1 :
                 w[k] \in 1 .. Len(text) + 1 /\ Ways(text, p, w[k], k) # {}
           /\ \A k \in d .. Len(p) :
                 w[k] <= w[k + 1] /\ Takes(text, p, k, w[k], w[k + 1])
  <1>1. PICK u \in U : w \in Ways(text, p, u, d)
    BY DEF Solutions
  <1>2. \A k \in d .. Len(p) + 1 : Ways(text, p, w[k], k) # {}
    BY <1>1, WayFrom
  <1>3. /\ w[Len(p) + 1] = Len(text) + 1
        /\ \A k \in d .. Len(p) + 1 : w[k] \in 1 .. Len(text) + 1
        /\ \A k \in d .. Len(p) :
              w[k] <= w[k + 1] /\ Takes(text, p, k, w[k], w[k + 1])
    BY <1>1, WayType
  <1> QED
    BY <1>1, <1>2, <1>3

(* Two stars with a slash after them.                                      *)
FolderStars(p, g) == TwoStars(p, g) /\ g + 1 # Len(p)

(* What the loop has to tell is whether there is a way from place d on     *)
(* that begins at one of U, of which b is the first.                       *)
GlobBase(text, p, b, d, U) ==
    /\ b \in 1 .. Len(text) + 1 /\ d \in 1 .. Len(p) + 1
    /\ b \in U /\ U \subseteq b .. Len(text) + 1
    /\ ~ Twice(p, d) /\ ~ Twice(p, d - 1)

(* If the rest of the text is what the rest of the pattern means, then     *)
(* there is a way.                                                         *)
Sound(text, p, d, U, t, g) == Ways(text, p, t, g) # {} => Solutions(text, p, d, U) # {}

(* No way has place g of the pattern before t; those that begin at b have  *)
(* it before the next slash.                                               *)
Ahead(text, p, b, d, U, t, g) ==
    /\ \A w \in Solutions(text, p, d, U) : t <= w[g]
    /\ \A w \in Ways(text, p, b, d) : \A i \in t .. w[g] - 1 : text[i] # Slash

(* The loop is at the place t of the text and g of the pattern.            *)
Here(text, p, b, d, U, t, g) ==
    /\ t \in b .. Len(text) + 1 /\ g \in d .. Len(p) + 1
    /\ ~ Twice(p, g) /\ ~ Twice(p, g - 1)
    /\ FolderStars(p, g) => t <= Len(text)
    /\ FolderStars(p, d) => t = b /\ g = d
    /\ Sound(text, p, d, U, t, g)
    /\ Ahead(text, p, b, d, U, t, g)

(* It came from b and d without a star, or from the star before y, when    *)
(* that had all up to x.                                                   *)
FromBase(p, b, d, t, g) == t - b = g - d /\ \A k \in d .. g - 1 : Plain(p, k)

FromStar(text, p, b, d, U, t, g, x, y) ==
    /\ x \in b .. t /\ y \in d .. g /\ t - x = g - y
    /\ \A k \in y .. g - 1 : Plain(p, k)
    /\ TokenAt(p, y) # Star /\ ~ Twice(p, y - 1)
    /\ Ahead(text, p, b, d, U, x, y)
    /\ \A u \in x .. Len(text) + 1 :
          (\A i \in x .. u - 1 : text[i] # Slash) => Sound(text, p, d, U, u, y)

(* At the end of both there is a way without places.                       *)
LEMMA WayEnds ==
    ASSUME NEW C, NEW text \in Seq(C), NEW P, NEW p \in Seq(P)
    PROVE  Ways(text, p, Len(text) + 1, Len(p) + 1) # {}
  <1> DEFINE m == Len(p)  n == Len(text)
             v == [i \in m + 1 .. m + 1 |-> n + 1]
  <1>1. m \in Nat /\ n \in Nat
    BY LenProperties
  <1> HIDE DEF m, n
  <1>2. /\ m + 1 \in m + 1 .. m + 1 /\ n + 1 \in 1 .. n + 1
        /\ \A k \in m + 1 .. m : FALSE
    BY <1>1
  <1>3. v \in [m + 1 .. m + 1 -> 1 .. n + 1] /\ v[m + 1] = n + 1
    BY <1>2
  <1> HIDE DEF v
  <1>4. v \in Ways(text, p, n + 1, m + 1)
    BY <1>2, <1>3 DEF Ways, m, n
  <1> QED
    BY <1>4 DEF m, n

(* At the end of the text: only stars may be left of the pattern.          *)
LEMMA GlobAtEnd ==
    ASSUME NEW C, NEW text \in Seq(C), NEW P, NEW p \in Seq(P), WellFormed(p),
           NEW b, NEW d, NEW U, GlobBase(text, p, b, d, U),
           NEW g, Here(text, p, b, d, U, Len(text) + 1, g)
    PROVE  (\A k \in g .. Len(p) : p[k] = Star) <=> Solutions(text, p, d, U) # {}
  <1> DEFINE m == Len(p)  n == Len(text)  S == Solutions(text, p, d, U)
  <1>1. /\ m \in Nat /\ n \in Nat /\ DOMAIN p = 1 .. m
        /\ b \in Nat /\ d \in Nat /\ g \in Nat /\ 1 <= d /\ d <= g /\ g <= m + 1
        /\ d \in 1 .. m + 1 /\ g \in 1 .. m + 1 /\ g \in d .. m + 1
    BY LenProperties DEF GlobBase, Here
  <1>2. ASSUME \A k \in g .. m : p[k] = Star
        PROVE  S # {}
    <2> DEFINE v == [i \in g .. m + 1 |-> n + 1]
    <2>1. \A k \in g .. m : Takes(text, p, k, n + 1, n + 1)
      <3>1. \A i \in n + 1 .. (n + 1) - 1 : FALSE
        BY <1>1
      <3> HIDE DEF n
      <3> QED
        BY <1>2, <3>1 DEF Takes
    <2>2. v \in Ways(text, p, n + 1, g)
      <3> HIDE DEF m, n
      <3>1. /\ g \in g .. m + 1 /\ m + 1 \in g .. m + 1 /\ n + 1 \in 1 .. n + 1
            /\ \A k \in g .. m : k \in g .. m + 1 /\ k + 1 \in g .. m + 1
            /\ n + 1 <= n + 1
        BY <1>1
      <3>2. v \in [g .. m + 1 -> 1 .. n + 1] /\ \A k \in g .. m + 1 : v[k] = n + 1
        BY <3>1
      <3> HIDE DEF v
      <3>3. \A k \in g .. m : v[k] <= v[k + 1] /\ Takes(text, p, k, v[k], v[k + 1])
        BY <2>1, <3>1, <3>2
      <3> QED
        BY <3>1, <3>2, <3>3 DEF Ways, m, n
    <2> QED
      BY <2>2 DEF Here, Sound
  <1>3. ASSUME S # {}
        PROVE  \A k \in g .. m : p[k] = Star
    <2>1. PICK w \in S : TRUE
      BY <1>3
    <2>2. w[g] \in 1 .. n + 1 /\ n + 1 <= w[g] /\ Ways(text, p, w[g], g) # {}
      BY <1>1, SolutionType DEF Here, Ahead
    <2>3. w[g] = n + 1
      <3> HIDE DEF n
      <3> QED
        BY <1>1, <2>2
    <2>4. PICK v : v \in Ways(text, p, n + 1, g)
      BY <2>2, <2>3
    <2>5. /\ \A k \in g .. m + 1 : v[k] \in 1 .. n + 1 /\ n + 1 <= v[k]
          /\ \A k \in g .. m : Takes(text, p, k, v[k], v[k + 1])
      BY <1>1, <2>4, WayType, WayOnward
    <2>6. \A k \in g .. m : Takes(text, p, k, n + 1, n + 1)
      <3> HIDE DEF m, n
      <3>1. \A k \in g .. m + 1 : v[k] = n + 1
        BY <1>1, <2>5
      <3>2. \A k \in g .. m : k \in g .. m + 1 /\ k + 1 \in g .. m + 1
        BY <1>1
      <3> QED
        BY <2>5, <3>1, <3>2
    <2> DEFINE K == {k \in g .. m : p[k] # Star}
    <2> SUFFICES ASSUME K # {} PROVE FALSE
      OBVIOUS
    <2>7. PICK k \in K : \A i \in K : k <= i
      <3>1. K \subseteq Nat
        BY <1>1
      <3> HIDE DEF K
      <3> QED
        BY <3>1, FirstNumber
    <2>8. /\ k \in g .. m /\ k \in Nat /\ k \in DOMAIN p /\ (k + 1) - 1 = k
          /\ p[k] # Star /\ TokenAt(p, k) = p[k]
      BY <1>1, <2>7 DEF TokenAt
    <2>9. Twice(p, k - 1)
      <3>1. ~ Twice(p, k) /\ ~ Twice(p, k + 1)
        BY <2>8 DEF Twice
      <3>2. n + 1 # (n + 1) + 1
        BY <1>1
      <3> HIDE DEF n
      <3> QED
        BY <2>6, <2>8, <3>1, <3>2 DEF Takes
    <2> DEFINE h == k - 2
    <2>10. k # g /\ k # g + 1
      <3>1. (g + 1) - 1 = g
        BY <1>1
      <3> QED
        BY <2>9, <3>1 DEF Here
    <2>11. /\ h \in Nat /\ g <= h /\ h + 1 = k - 1 /\ h + 2 = k /\ h \in 1 .. m - 1
           /\ (k - 1) - 1 = h /\ h \in DOMAIN p /\ h + 1 \in DOMAIN p /\ h + 1 # m
      <3> HIDE DEF m
      <3> QED
        BY <1>1, <2>8, <2>10
    <2>12. TokenAt(p, h) = Star /\ TokenAt(p, h + 1) = Star /\ p[h] = Star /\ p[h + 1] = Star
      BY <2>9, <2>11 DEF Twice, TokenAt
    <2>13. h = 1 \/ p[h - 1] = Slashes
      <3> HIDE DEF h
      <3> QED
        BY <2>11, <2>12 DEF WellFormed
    <2>14. h # g
      <3>1. h = g => FolderStars(p, g)
        <4> HIDE DEF h
        <4> QED
          BY <2>11, <2>12 DEF FolderStars, TwoStars
      <3>2. ~ n + 1 <= n
        BY <1>1
      <3> QED
        BY <3>1, <3>2 DEF Here
    <2>15. h - 1 \in g .. m /\ h # 1 /\ ~ k <= h - 1
      <3> HIDE DEF m
      <3> QED
        BY <1>1, <2>8, <2>11, <2>14
    <2>16. h - 1 \in K
      <3> HIDE DEF h
      <3> QED
        BY <2>13, <2>15, StarIsNoSet
    <2> QED
      BY <2>7, <2>15, <2>16
  <1> QED
    BY <1>2, <1>3

(* The text from b on.                                                     *)
Onward(text, b) == b .. Len(text) + 1

(* Where the loop is, it is in the text and the pattern.                   *)
LEMMA HereType ==
    ASSUME NEW C, NEW text \in Seq(C), NEW P, NEW p \in Seq(P),
           NEW b, NEW d, NEW U, GlobBase(text, p, b, d, U),
           NEW t, NEW g, Here(text, p, b, d, U, t, g)
    PROVE  /\ Len(text) \in Nat /\ Len(p) \in Nat /\ DOMAIN p = 1 .. Len(p)
           /\ b \in Nat /\ 1 <= b /\ b <= t /\ t \in Nat /\ t <= Len(text) + 1
           /\ d \in Nat /\ 1 <= d /\ d <= g /\ g \in Nat /\ g <= Len(p) + 1
           /\ t \in 1 .. Len(text) + 1 /\ g \in 1 .. Len(p) + 1 /\ g \in d .. Len(p) + 1
           /\ d \in 1 .. Len(p) + 1
  <1> DEFINE m == Len(p)  n == Len(text)
  <1>1. m \in Nat /\ n \in Nat /\ DOMAIN p = 1 .. m
    BY LenProperties
  <1>2. /\ t \in b .. n + 1 /\ g \in d .. m + 1 /\ b \in 1 .. n + 1 /\ d \in 1 .. m + 1
    BY DEF GlobBase, Here
  <1> HIDE DEF m, n
  <1>3. /\ m \in Nat /\ n \in Nat /\ DOMAIN p = 1 .. m
        /\ b \in Nat /\ 1 <= b /\ b <= t /\ t \in Nat /\ t <= n + 1
        /\ d \in Nat /\ 1 <= d /\ d <= g /\ g \in Nat /\ g <= m + 1
        /\ t \in 1 .. n + 1 /\ g \in 1 .. m + 1 /\ g \in d .. m + 1
        /\ d \in 1 .. m + 1
    BY <1>1, <1>2
  <1> QED
    BY <1>3 DEF m, n

(* Two stars at the end of the pattern.                                    *)
LEMMA GlobTrailing ==
    ASSUME NEW C, NEW text \in Seq(C), NEW P, NEW p \in Seq(P), WellFormed(p),
           NEW b, NEW d, NEW U, GlobBase(text, p, b, d, U),
           NEW t, NEW g, Here(text, p, b, d, U, t, g),
           t <= Len(text), TwoStars(p, g), g + 1 = Len(p)
    PROVE  Solutions(text, p, d, U) # {}
  <1> DEFINE m == Len(p)  n == Len(text)  h == g + 1  e == n + 1
  <1>1. m \in Nat /\ n \in Nat /\ t \in Nat /\ g \in Nat /\ 1 <= t /\ t <= n
    BY HereType
  <1>2. /\ g \in 1 .. m /\ h \in 1 .. m
        /\ \A i, j : Takes(text, p, g, i, j) <=> j = i
        /\ \A i, j : Takes(text, p, h, i, j)
    BY <1>1, TakesFolders DEF Here
  <1>3. h + 1 = m + 1 /\ h = m
    OBVIOUS
  <1>4. Ways(text, p, e, m + 1) # {}
    BY WayEnds
  <1> HIDE DEF m, n
  <1>5. e \in 1 .. n + 1 /\ t \in 1 .. e /\ t \in 1 .. n + 1 /\ t \in 1 .. t
    BY <1>1
  <1> HIDE DEF e, h
  <1>6. Ways(text, p, t, h) # {}
    BY <1>2, <1>3, <1>4, <1>5, WayBefore DEF m, n
  <1>7. Ways(text, p, t, g) # {}
    <2>1. Takes(text, p, g, t, t)
      BY <1>2
    <2>2. Ways(text, p, t, g + 1) # {}
      BY <1>6 DEF h
    <2> QED
      BY <1>2, <1>5, <2>1, <2>2, WayBefore DEF m, n
  <1> QED
    BY <1>7 DEF Here, Sound

(* Where the ways begin, the loop may begin.                               *)
LEMMA GlobFresh ==
    ASSUME NEW C, NEW text \in Seq(C), NEW P, NEW p \in Seq(P),
           NEW b, NEW d, NEW U, GlobBase(text, p, b, d, U),
           FolderStars(p, d) => b <= Len(text)
    PROVE  Here(text, p, b, d, U, b, d) /\ FromBase(p, b, d, b, d)
  <1> DEFINE m == Len(p)  n == Len(text)
  <1>1. /\ b \in 1 .. n + 1 /\ d \in 1 .. m + 1 /\ b \in U
        /\ ~ Twice(p, d) /\ ~ Twice(p, d - 1)
    BY DEF GlobBase
  <1>2. \A u \in U : u \in b .. n + 1
    BY DEF GlobBase
  <1>3. n \in Nat /\ m \in Nat
    BY LenProperties
  <1>4. /\ b \in b .. n + 1 /\ d \in d .. m + 1 /\ b - b = d - d
        /\ \A i \in b .. b - 1 : FALSE
        /\ \A k \in d .. d - 1 : FALSE
        /\ \A u \in U : b <= u
    <2> HIDE DEF n, m
    <2> QED
      BY <1>1, <1>2, <1>3
  <1>5. Sound(text, p, d, U, b, d)
    BY <1>1 DEF Sound, Solutions
  <1>6. ASSUME NEW w \in Solutions(text, p, d, U)
        PROVE  b <= w[d]
    <2>1. PICK u \in U : w \in Ways(text, p, u, d)
      BY DEF Solutions
    <2>2. w[d] = u
      BY <1>1, <2>1, WayType
    <2> QED
      BY <1>4, <2>2
  <1>7. \A w \in Ways(text, p, b, d) : w[d] = b
    BY <1>1, WayType
  <1>8. Ahead(text, p, b, d, U, b, d)
    BY <1>4, <1>6, <1>7 DEF Ahead
  <1> QED
    BY <1>1, <1>4, <1>5, <1>8 DEF Here, FromBase

(* Two stars with a slash after them: any of the folders to come may be    *)
(* where the rest begins, and what was before does not matter.             *)
LEMMA GlobNewFolders ==
    ASSUME NEW C, NEW text \in Seq(C), NEW P, NEW p \in Seq(P), WellFormed(p),
           NEW b, NEW d, NEW U, GlobBase(text, p, b, d, U),
           NEW t, NEW g, Here(text, p, b, d, U, t, g),
           t <= Len(text), TwoStars(p, g), g + 1 # Len(p),
           NEW W, W = Onward(text, t)
    PROVE  /\ TokenAt(p, g + 2) = Slashes
           /\ GlobBase(text, p, t, g + 3, W)
           /\ Here(text, p, t, g + 3, W, t, g + 3)
           /\ FromBase(p, t, g + 3, t, g + 3)
           /\ Solutions(text, p, d, U) # {} <=> Solutions(text, p, g + 3, W) # {}
  <1> DEFINE m == Len(p)  n == Len(text)  h == g + 1  s == g + 2  q == g + 3
             S == Solutions(text, p, d, U)  Z == Solutions(text, p, q, W)
  <1>1. /\ m \in Nat /\ n \in Nat /\ t \in Nat /\ g \in Nat /\ 1 <= t /\ t <= n
        /\ d \in Nat /\ 1 <= d /\ d <= g /\ d \in 1 .. m + 1
    BY HereType
  <1>2. /\ g \in 1 .. m /\ h \in 1 .. m /\ s \in 1 .. m /\ q \in 1 .. m + 1
        /\ \A i, j : Takes(text, p, g, i, j) <=> j = i
        /\ \A i, j : Takes(text, p, h, i, j)
        /\ \A i, j : Takes(text, p, s, i, j) <=> j = i
        /\ TokenAt(p, s) = Slashes /\ ~ Twice(p, q) /\ ~ Twice(p, s)
    BY <1>1, TakesFolders DEF Here
  <1>3. /\ g + 1 = h /\ h + 1 = s /\ s + 1 = q /\ q - 1 = s /\ q \in q .. m + 1
        /\ q \in d .. m + 1 /\ g \in d .. m + 1
        /\ g \in d .. m /\ h \in d .. m /\ s \in d .. m
        /\ q \in Nat
    <2> HIDE DEF m
    <2> QED
      BY <1>1, <1>2
  <1> HIDE DEF h, s, q
  <1>4. GlobBase(text, p, t, q, W)
    <2>1. t \in 1 .. n + 1 /\ t \in t .. n + 1
      <3> HIDE DEF n
      <3> QED
        BY <1>1
    <2> QED
      BY <1>2, <1>3, <2>1 DEF GlobBase, Onward
  <1>5. \A u \in W : Ways(text, p, u, q) # {} => Z # {}
    BY DEF Solutions
  <1>6. W \subseteq 1 .. n + 1 /\ t \in W /\ \A u \in W : t <= u /\ u \in Nat
    <2> HIDE DEF n
    <2>1. W = t .. n + 1
      BY DEF n, Onward
    <2> QED
      BY <1>1, <2>1
  <1>7. ASSUME NEW w \in Z
        PROVE  w[q] \in W /\ Ways(text, p, w[q], q) # {}
    <2>1. PICK u \in W : w \in Ways(text, p, u, q)
      BY <1>2, SolutionType
    <2>2. w[q] = u
      BY <1>2, <2>1, WayType
    <2> QED
      BY <2>1, <2>2
  <1>8. Here(text, p, t, q, W, t, q) /\ FromBase(p, t, q, t, q)
    BY <1>1, <1>4, GlobFresh
  <1>9. ASSUME S # {} PROVE Z # {}
    <2>1. PICK w \in S : TRUE
      BY <1>9
    <2>2. /\ \A k \in d .. m + 1 : w[k] \in 1 .. n + 1 /\ Ways(text, p, w[k], k) # {}
          /\ \A k \in d .. m : w[k] <= w[k + 1]
      <3>1. w \in Solutions(text, p, d, U) /\ d \in 1 .. Len(p) + 1
        BY <1>1
      <3> HIDE DEF S
      <3> QED
        BY <3>1, SolutionType
    <2>3. t <= w[g]
      BY DEF Here, Ahead
    <2>4. w[g] <= w[h] /\ w[h] <= w[s] /\ w[s] <= w[q]
      BY <1>3, <2>2
    <2>5. h \in d .. m + 1 /\ s \in d .. m + 1
      <3> HIDE DEF m
      <3> QED
        BY <1>1, <1>3
    <2>6. w[q] \in W
      <3> HIDE DEF n
      <3>1. /\ w[g] \in 1 .. n + 1 /\ w[h] \in 1 .. n + 1
            /\ w[s] \in 1 .. n + 1 /\ w[q] \in 1 .. n + 1
        BY <1>3, <2>2, <2>5 DEF n
      <3>2. w[q] \in t .. n + 1
        <4> DEFINE w1 == w[g]  w2 == w[h]  w3 == w[s]  w4 == w[q]
        <4>1. /\ w1 \in 1 .. n + 1 /\ w2 \in 1 .. n + 1 /\ w3 \in 1 .. n + 1
              /\ w4 \in 1 .. n + 1 /\ t <= w1 /\ w1 <= w2 /\ w2 <= w3 /\ w3 <= w4
          BY <2>3, <2>4, <3>1
        <4> HIDE DEF w1, w2, w3, w4
        <4>2. w4 \in t .. n + 1
          BY <1>1, <4>1
        <4> QED
          BY <4>2 DEF w4
      <3> QED
        BY <3>2 DEF n, Onward
    <2> QED
      BY <1>3, <1>5, <2>2, <2>6
  <1>10. ASSUME Z # {} PROVE S # {}
    <2>1. PICK w \in Z : TRUE
      BY <1>10
    <2> DEFINE u == w[q]
    <2>2. u \in W /\ Ways(text, p, u, q) # {}
      BY <1>7
    <2> HIDE DEF u, m, n
    <2>3. /\ u \in 1 .. n + 1 /\ t \in 1 .. u /\ u \in 1 .. u /\ t \in 1 .. n + 1
          /\ t \in 1 .. t
      BY <1>1, <1>6, <2>2
    <2>4. Takes(text, p, s, u, u) /\ Takes(text, p, h, t, u) /\ Takes(text, p, g, t, t)
      BY <1>2
    <2>5. Ways(text, p, u, s) # {}
      <3>1. Ways(text, p, u, s + 1) # {}
        BY <1>3, <2>2
      <3> QED
        BY <1>2, <2>3, <2>4, <3>1, WayBefore DEF m, n
    <2>6. Ways(text, p, t, h) # {}
      <3>1. Ways(text, p, u, h + 1) # {}
        BY <1>3, <2>5
      <3> QED
        BY <1>2, <2>3, <2>4, <3>1, WayBefore DEF m, n
    <2>7. Ways(text, p, t, g) # {}
      <3>1. Ways(text, p, t, g + 1) # {}
        BY <1>3, <2>6
      <3> QED
        BY <1>2, <2>3, <2>4, <3>1, WayBefore DEF m, n
    <2> QED
      BY <2>7 DEF Here, Sound
  <1> QED
    BY <1>2, <1>4, <1>8, <1>9, <1>10 DEF s, q

(* A star alone: the loop goes on behind it, and may come back there.      *)
LEMMA GlobAtStar ==
    ASSUME NEW C, NEW text \in Seq(C), NEW P, NEW p \in Seq(P),
           NEW b, NEW d, NEW U, GlobBase(text, p, b, d, U),
           NEW t, NEW g, Here(text, p, b, d, U, t, g),
           t <= Len(text), TokenAt(p, g) = Star, ~ TwoStars(p, g)
    PROVE  /\ Here(text, p, b, d, U, t, g + 1)
           /\ FromStar(text, p, b, d, U, t, g + 1, t, g + 1)
  <1> DEFINE m == Len(p)  n == Len(text)  h == g + 1  S == Solutions(text, p, d, U)
  <1>1. /\ m \in Nat /\ n \in Nat /\ t \in Nat /\ g \in Nat /\ 1 <= t /\ t <= n
        /\ d \in Nat /\ b \in Nat /\ 1 <= b /\ b <= t /\ 1 <= d /\ d <= g
        /\ t \in 1 .. n + 1 /\ d \in 1 .. m + 1 /\ g \in d .. m + 1
    BY HereType
  <1>2. /\ ~ Twice(p, g) /\ ~ Twice(p, g - 1)
        /\ FolderStars(p, d) => g = d
        /\ Sound(text, p, d, U, t, g) /\ Ahead(text, p, b, d, U, t, g)
    BY DEF Here
  <1>3. /\ g \in 1 .. m
        /\ \A i, j : Takes(text, p, g, i, j) <=> \A k \in i .. j - 1 : text[k] # Slash
    BY <1>1, <1>2, TakesStar
  <1>4. h = g + 1 /\ h - 1 = g /\ h \in 1 .. m + 1 /\ h \in d .. m + 1 /\ g \in d .. m
    <2> HIDE DEF m
    <2> QED
      BY <1>1, <1>3
  <1> HIDE DEF h, m, n
  <1>5. TokenAt(p, h) # Star /\ ~ Twice(p, h) /\ ~ FolderStars(p, d)
    BY <1>2, <1>4 DEF TwoStars, Twice, FolderStars
  <1>6. ASSUME NEW u \in t .. n + 1, \A i \in t .. u - 1 : text[i] # Slash
        PROVE  Sound(text, p, d, U, u, h)
    <2> SUFFICES ASSUME Ways(text, p, u, g + 1) # {} PROVE S # {}
      BY <1>4 DEF Sound
    <2>1. Takes(text, p, g, t, u)
      BY <1>3, <1>6
    <2>2. u \in 1 .. n + 1 /\ t \in 1 .. u
      BY <1>1
    <2>3. Ways(text, p, t, g) # {}
      BY <1>3, <2>1, <2>2, WayBefore DEF m, n
    <2> QED
      BY <1>2, <2>3 DEF Sound
  <1>7. Sound(text, p, d, U, t, h)
    <2>1. t \in t .. n + 1 /\ \A i \in t .. t - 1 : FALSE
      BY <1>1
    <2> QED
      BY <1>6, <2>1
  <1>8. ASSUME NEW w \in S
        PROVE  t <= w[h] /\ w[g] <= w[h] /\ w[g] \in Nat /\ w[h] \in Nat
    <2>1. w[g] \in 1 .. n + 1 /\ w[h] \in 1 .. n + 1 /\ w[g] <= w[h]
      <3>1. w \in Solutions(text, p, d, U) /\ d \in 1 .. Len(p) + 1
        BY <1>1 DEF m
      <3> HIDE DEF S
      <3> QED
        BY <1>4, <3>1, SolutionType DEF m, n
    <2>2. t <= w[g]
      BY <1>2 DEF Ahead
    <2> DEFINE v == w[g]  u == w[h]
    <2>3. v \in 1 .. n + 1 /\ u \in 1 .. n + 1 /\ v <= u /\ t <= v
      BY <2>1, <2>2
    <2> HIDE DEF u, v
    <2>4. t <= u /\ v <= u /\ u \in Nat /\ v \in Nat
      BY <1>1, <2>3
    <2> QED
      BY <2>4 DEF u, v
  <1>9. ASSUME NEW w \in Ways(text, p, b, d), NEW i \in t .. w[h] - 1
        PROVE  text[i] # Slash
    <2>1. /\ w[g] \in 1 .. n + 1 /\ w[h] \in 1 .. n + 1
          /\ Takes(text, p, g, w[g], w[g + 1])
      BY <1>1, <1>4, WayType DEF m, n
    <2>2. \A k \in w[g] .. w[h] - 1 : text[k] # Slash
      BY <1>3, <1>4, <2>1
    <2>3. \A k \in t .. w[g] - 1 : text[k] # Slash
      BY <1>2 DEF Ahead
    <2>4. i \in t .. w[g] - 1 \/ i \in w[g] .. w[h] - 1
      <3> DEFINE v == w[g]  u == w[h]
      <3>1. v \in 1 .. n + 1 /\ u \in 1 .. n + 1 /\ i \in t .. u - 1
        BY <2>1
      <3> HIDE DEF u, v
      <3>2. i \in t .. v - 1 \/ i \in v .. u - 1
        BY <1>1, <3>1
      <3> QED
        BY <3>2 DEF u, v
    <2> QED
      BY <2>2, <2>3, <2>4
  <1>10. Ahead(text, p, b, d, U, t, h)
    BY <1>8, <1>9 DEF Ahead
  <1>11. t \in b .. n + 1 /\ t \in b .. t /\ h \in d .. h /\ t - t = h - h
         /\ \A k \in h .. h - 1 : FALSE
    BY <1>1, <1>4
  <1>12. Here(text, p, b, d, U, t, h)
    BY <1>1, <1>2, <1>4, <1>5, <1>7, <1>10, <1>11 DEF Here, m, n
  <1>13. FromStar(text, p, b, d, U, t, h, t, h)
    BY <1>2, <1>4, <1>5, <1>6, <1>10, <1>11 DEF FromStar, n
  <1> QED
    BY <1>12, <1>13 DEF h

(* One character.                                                          *)
LEMMA GlobOneCharacter ==
    ASSUME NEW C, NEW text \in Seq(C), NEW P, NEW p \in Seq(P), WellFormed(p),
           text[Len(text)] # Slash,
           NEW b, NEW d, NEW U, GlobBase(text, p, b, d, U),
           NEW t, NEW g, Here(text, p, b, d, U, t, g),
           t <= Len(text), TokenAt(p, g) # Star, text[t] \in TokenAt(p, g)
    PROVE  /\ Here(text, p, b, d, U, t + 1, g + 1)
           /\ FromBase(p, b, d, t, g) => FromBase(p, b, d, t + 1, g + 1)
           /\ \A x, y : FromStar(text, p, b, d, U, t, g, x, y) =>
                           FromStar(text, p, b, d, U, t + 1, g + 1, x, y)
  <1> DEFINE m == Len(p)  n == Len(text)  h == g + 1  e == t + 1
             S == Solutions(text, p, d, U)
  <1>1. /\ m \in Nat /\ n \in Nat /\ t \in Nat /\ g \in Nat /\ 1 <= t /\ t <= n
        /\ d \in Nat /\ b \in Nat /\ 1 <= b /\ b <= t /\ 1 <= d /\ d <= g
        /\ t \in 1 .. n + 1 /\ d \in 1 .. m + 1 /\ g \in d .. m + 1
    BY HereType
  <1>2. /\ ~ Twice(p, g) /\ ~ Twice(p, g - 1)
        /\ FolderStars(p, d) => g = d
        /\ Sound(text, p, d, U, t, g) /\ Ahead(text, p, b, d, U, t, g)
    BY DEF Here
  <1>3. g \in DOMAIN p /\ TokenAt(p, g) = p[g] /\ g \in 1 .. m
    <2>1. g \in DOMAIN p /\ TokenAt(p, g) = p[g]
      BY DEF TokenAt
    <2> QED
      BY <2>1, LenProperties
  <1>4. /\ h = g + 1 /\ h - 1 = g /\ h \in 1 .. m + 1 /\ h \in d .. m + 1 /\ g \in d .. m
        /\ e = t + 1 /\ e \in b .. n + 1 /\ e \in 1 .. n + 1 /\ t \in 1 .. e
    <2> HIDE DEF m, n
    <2> QED
      BY <1>1, <1>3
  <1>5. Plain(p, g)
    BY <1>2 DEF Plain
  <1>6. \A i, j : Takes(text, p, g, i, j) <=> j = i + 1 /\ text[i] \in TokenAt(p, g)
    BY <1>3, <1>5, TakesOne
  <1> HIDE DEF h, e, m, n
  <1>7. ~ Twice(p, h) /\ ~ FolderStars(p, d)
    BY <1>2, <1>4 DEF TwoStars, Twice, FolderStars
  <1>8. FolderStars(p, h) => e <= n
    <2> SUFFICES ASSUME FolderStars(p, h) PROVE e <= n
      OBVIOUS
    <2>1. h \in DOMAIN p /\ h + 1 \in DOMAIN p /\ p[h] = Star /\ p[h + 1] = Star
      BY StarIsNoSet DEF FolderStars, TwoStars, TokenAt
    <2>2. DOMAIN p = 1 .. m
      BY LenProperties DEF m
    <2>3. h \in 1 .. m - 1 /\ h # 1
      BY <1>1, <1>4, <2>1, <2>2
    <2>4. p[h - 1] = Slashes
      BY <2>1, <2>3 DEF WellFormed, m
    <2>5. text[t] = Slash
      BY <1>3, <1>4, <2>4 DEF Slashes
    <2>6. t # n
      BY <2>5 DEF n
    <2> QED
      BY <1>1, <1>4, <2>6
  <1>9. Sound(text, p, d, U, e, h)
    <2> SUFFICES ASSUME Ways(text, p, e, g + 1) # {} PROVE S # {}
      BY <1>4 DEF Sound
    <2>1. Takes(text, p, g, t, e)
      BY <1>4, <1>6
    <2>2. Ways(text, p, t, g) # {}
      BY <1>3, <1>4, <2>1, WayBefore DEF m, n
    <2> QED
      BY <1>2, <2>2 DEF Sound
  <1>10. ASSUME NEW w \in S
         PROVE  e <= w[h]
    <2>1. w[g] \in 1 .. n + 1 /\ Takes(text, p, g, w[g], w[g + 1])
      <3>1. w \in Solutions(text, p, d, U) /\ d \in 1 .. Len(p) + 1
        BY <1>1 DEF m
      <3> HIDE DEF S
      <3> QED
        BY <1>1, <1>4, <3>1, SolutionType DEF m, n
    <2>2. w[h] = w[g] + 1
      BY <1>4, <1>6, <2>1
    <2>3. t <= w[g]
      BY <1>2 DEF Ahead
    <2> DEFINE v == w[g]
    <2>4. v \in 1 .. n + 1 /\ t <= v /\ w[h] = v + 1
      BY <2>1, <2>2, <2>3
    <2> HIDE DEF v
    <2> QED
      BY <1>1, <1>4, <2>4
  <1>11. ASSUME NEW w \in Ways(text, p, b, d), NEW i \in e .. w[h] - 1
         PROVE  text[i] # Slash
    <2>1. w[g] \in 1 .. n + 1 /\ Takes(text, p, g, w[g], w[g + 1])
      BY <1>1, <1>4, WayType DEF m, n
    <2>2. w[h] = w[g] + 1 /\ text[w[g]] \in TokenAt(p, g)
      BY <1>4, <1>6, <2>1
    <2>3. \A k \in t .. w[g] - 1 : text[k] # Slash
      BY <1>2 DEF Ahead
    <2>4. i \in t .. w[g] - 1 \/ (i = w[g] /\ t \in t .. w[g] - 1)
      <3> DEFINE v == w[g]
      <3>1. v \in 1 .. n + 1 /\ i \in e .. (v + 1) - 1
        BY <2>1, <2>2
      <3> HIDE DEF v
      <3>2. i \in t .. v - 1 \/ (i = v /\ t \in t .. v - 1)
        BY <1>1, <1>4, <3>1
      <3> QED
        BY <3>2 DEF v
    <2>5. CASE i = w[g] /\ t \in t .. w[g] - 1
      <3>1. text[t] # Slash
        BY <2>3, <2>5
      <3>2. p[g] # Slashes
        BY <1>3, <3>1 DEF Slashes
      <3>3. Slash \notin p[g]
        BY <1>3, <3>2 DEF WellFormed
      <3> QED
        BY <1>3, <2>2, <2>5, <3>3
    <2> QED
      BY <2>3, <2>4, <2>5
  <1>12. Ahead(text, p, b, d, U, e, h)
    BY <1>10, <1>11 DEF Ahead
  <1>13. Here(text, p, b, d, U, e, h)
    BY <1>2, <1>4, <1>7, <1>8, <1>9, <1>12 DEF Here, m, n
  <1>14. ASSUME NEW y \in Nat, \A k \in y .. g - 1 : Plain(p, k), y <= g
         PROVE  \A k \in y .. h - 1 : Plain(p, k)
    <2>1. \A k \in y .. h - 1 : k \in y .. g - 1 \/ k = g
      BY <1>1, <1>4
    <2> QED
      BY <1>5, <1>14, <2>1
  <1>15. FromBase(p, b, d, t, g) => FromBase(p, b, d, e, h)
    <2> SUFFICES ASSUME t - b = g - d, \A k \in d .. g - 1 : Plain(p, k)
                 PROVE  e - b = h - d /\ \A k \in d .. h - 1 : Plain(p, k)
      BY DEF FromBase
    <2>1. e - b = h - d
      BY <1>1, <1>4
    <2> QED
      BY <1>1, <1>14, <2>1
  <1>16. ASSUME NEW x, NEW y, FromStar(text, p, b, d, U, t, g, x, y)
         PROVE  FromStar(text, p, b, d, U, e, h, x, y)
    <2>1. /\ x \in b .. t /\ y \in d .. g /\ t - x = g - y
          /\ \A k \in y .. g - 1 : Plain(p, k)
      BY <1>16 DEF FromStar
    <2>2. x \in b .. e /\ y \in d .. h /\ e - x = h - y /\ y \in Nat /\ y <= g
      BY <1>1, <1>4, <2>1
    <2>3. \A k \in y .. h - 1 : Plain(p, k)
      BY <1>14, <2>1, <2>2
    <2> QED
      BY <1>16, <2>2, <2>3 DEF FromStar
  <1> QED
    BY <1>13, <1>15, <1>16 DEF e, h

AllPlain(p, y, g) == \A k \in y .. g - 1 : Plain(p, k)

(* Where the text does not go on as the pattern does, no way comes along   *)
(* places that stand for one character each.                               *)
LEMMA GlobMismatch ==
    ASSUME NEW C, NEW text \in Seq(C), NEW P, NEW p \in Seq(P),
           NEW s \in 1 .. Len(p) + 1, NEW u, NEW w \in Ways(text, p, u, s),
           NEW y \in s .. Len(p) + 1, NEW g \in y .. Len(p) + 1,
           AllPlain(p, y, g),
           NEW t \in 1 .. Len(text), Plain(p, g), text[t] \notin TokenAt(p, g)
    PROVE  w[y] + (g - y) # t
  <1> SUFFICES ASSUME w[y] + (g - y) = t PROVE FALSE
    OBVIOUS
  <1> DEFINE m == Len(p)  n == Len(text)
  <1>1. w[g] = t
    <2>1. \A k \in y .. g - 1 : Plain(p, k)
      BY DEF AllPlain
    <2> QED
      BY <2>1, WayAlong
  <1>2. m \in Nat /\ n \in Nat
    BY LenProperties
  <1>3. w[m + 1] = n + 1 /\ \A k \in s .. m : Takes(text, p, k, w[k], w[k + 1])
    BY WayType
  <1>4. g = m + 1 \/ (g \in s .. m /\ g \in 1 .. m)
    <2> HIDE DEF m
    <2>1. /\ s \in 1 .. m + 1 /\ y \in s .. m + 1 /\ g \in y .. m + 1
      BY DEF m
    <2> QED
      BY <1>2, <2>1
  <1>5. t # n + 1
    <2> HIDE DEF n
    <2>1. t \in 1 .. n
      BY DEF n
    <2> QED
      BY <1>2, <2>1
  <1>6. CASE g = m + 1
    BY <1>1, <1>3, <1>5, <1>6
  <1>7. CASE g \in s .. m /\ g \in 1 .. m
    <2>1. Takes(text, p, g, t, w[g + 1])
      BY <1>1, <1>3, <1>7
    <2>2. text[t] \in TokenAt(p, g)
      BY <1>7, <2>1, TakesOne
    <2> QED
      BY <2>2
  <1> QED
    BY <1>4, <1>6, <1>7

(* The last star takes one more character.                                 *)
LEMMA GlobStretch ==
    ASSUME NEW C, NEW text \in Seq(C), NEW P, NEW p \in Seq(P),
           NEW b, NEW d, NEW U, GlobBase(text, p, b, d, U),
           NEW t, NEW g, Here(text, p, b, d, U, t, g),
           t <= Len(text), TokenAt(p, g) # Star, text[t] \notin TokenAt(p, g),
           NEW x, NEW y, FromStar(text, p, b, d, U, t, g, x, y), text[x] # Slash
    PROVE  /\ Here(text, p, b, d, U, x + 1, y)
           /\ FromStar(text, p, b, d, U, x + 1, y, x + 1, y)
  <1> DEFINE m == Len(p)  n == Len(text)  e == x + 1  S == Solutions(text, p, d, U)
  <1>1. /\ m \in Nat /\ n \in Nat /\ t \in Nat /\ g \in Nat /\ 1 <= t /\ t <= n
        /\ d \in Nat /\ b \in Nat /\ 1 <= b /\ b <= t /\ 1 <= d /\ d <= g
        /\ t \in 1 .. n + 1 /\ d \in 1 .. m + 1 /\ g \in d .. m + 1 /\ g <= m + 1
    BY HereType
  <1>2. /\ ~ Twice(p, g) /\ ~ Twice(p, g - 1)
        /\ FolderStars(p, d) => g = d
    BY DEF Here
  <1>3. /\ x \in b .. t /\ y \in d .. g /\ t - x = g - y
        /\ \A k \in y .. g - 1 : Plain(p, k)
        /\ TokenAt(p, y) # Star /\ ~ Twice(p, y - 1)
        /\ Ahead(text, p, b, d, U, x, y)
        /\ \A u \in x .. n + 1 :
              (\A i \in x .. u - 1 : text[i] # Slash) => Sound(text, p, d, U, u, y)
    BY DEF FromStar
  <1>4. Plain(p, g)
    BY <1>2 DEF Plain
  <1>5. ~ FolderStars(p, d) /\ ~ FolderStars(p, y) /\ ~ Twice(p, y)
    <2>1. FolderStars(p, d) => y = d
      BY <1>1, <1>2, <1>3
    <2> QED
      BY <1>3, <2>1 DEF FolderStars, TwoStars, Twice
  <1> HIDE DEF m, n, e
  <1>6. /\ x \in Nat /\ y \in Nat /\ e = x + 1 /\ e \in Nat /\ y \in d .. m + 1 /\ g \in y .. m + 1
        /\ e \in b .. n + 1 /\ e \in x .. n + 1 /\ x + (g - y) = t /\ t \in 1 .. n
        /\ e \in b .. e /\ y \in d .. y /\ e - e = y - y
        /\ \A k \in y .. y - 1 : FALSE
        /\ \A i \in x .. e - 1 : i = x
        /\ \A j : \A i \in e .. j - 1 : i \in x .. j - 1
        /\ \A j : \A i \in x .. j - 1 : i = x \/ i \in e .. j - 1
        /\ \A u \in e .. n + 1 : u \in x .. n + 1
    <2>1. /\ x \in Nat /\ y \in Nat /\ e = x + 1 /\ e \in Nat /\ y \in d .. m + 1 /\ g \in y .. m + 1
          /\ e \in b .. n + 1 /\ e \in x .. n + 1 /\ x + (g - y) = t /\ t \in 1 .. n
          /\ e \in b .. e /\ y \in d .. y /\ e - e = y - y
      BY <1>1, <1>3 DEF e
    <2> QED
      BY <2>1, <1>1
  <1>7. ASSUME NEW w \in S
        PROVE  e <= w[y]
    <2>1. PICK u \in U : w \in Ways(text, p, u, d)
      BY DEF Solutions
    <2>2. w[y] + (g - y) # t
      <3>1. AllPlain(p, y, g)
        BY <1>3 DEF AllPlain
      <3> QED
        BY <1>1, <1>4, <1>6, <2>1, <3>1, GlobMismatch DEF m, n
    <2>3. x <= w[y]
      BY <1>3 DEF Ahead
    <2>4. w[y] \in 1 .. n + 1
      BY <1>1, <1>6, <2>1, WayType DEF m, n
    <2> DEFINE v == w[y]
    <2>5. v \in 1 .. n + 1 /\ x <= v /\ v # x
      BY <1>6, <2>2, <2>3, <2>4
    <2> HIDE DEF v
    <2>6. e <= v
      BY <1>1, <1>6, <2>5
    <2> QED
      BY <2>6 DEF v
  <1>8. \A w \in Ways(text, p, b, d) : \A i \in e .. w[y] - 1 : text[i] # Slash
    BY <1>3, <1>6 DEF Ahead
  <1>9. Ahead(text, p, b, d, U, e, y)
    BY <1>7, <1>8 DEF Ahead
  <1>10. \A u \in e .. n + 1 :
            (\A i \in e .. u - 1 : text[i] # Slash) => Sound(text, p, d, U, u, y)
    BY <1>3, <1>6
  <1>11. Sound(text, p, d, U, e, y)
    BY <1>3, <1>6
  <1>12. Here(text, p, b, d, U, e, y)
    BY <1>3, <1>5, <1>6, <1>9, <1>11 DEF Here, m, n
  <1>13. FromStar(text, p, b, d, U, e, y, e, y)
    BY <1>3, <1>6, <1>9, <1>10 DEF FromStar, n
  <1> QED
    BY <1>12, <1>13 DEF e

(* No way begins at b when the loop can not go on from there.              *)
LEMMA GlobNoWay ==
    ASSUME NEW C, NEW text \in Seq(C), NEW P, NEW p \in Seq(P),
           NEW b, NEW d, NEW U, GlobBase(text, p, b, d, U),
           NEW t, NEW g, Here(text, p, b, d, U, t, g),
           t <= Len(text), TokenAt(p, g) # Star, text[t] \notin TokenAt(p, g),
           \/ FromBase(p, b, d, t, g)
           \/ \E x, y : FromStar(text, p, b, d, U, t, g, x, y) /\ text[x] = Slash
    PROVE  Ways(text, p, b, d) = {}
  <1> DEFINE m == Len(p)  n == Len(text)  S == Solutions(text, p, d, U)
  <1> SUFFICES ASSUME NEW w \in Ways(text, p, b, d) PROVE FALSE
    OBVIOUS
  <1>1. /\ m \in Nat /\ n \in Nat /\ t \in Nat /\ g \in Nat /\ 1 <= t /\ t <= n
        /\ d \in Nat /\ b \in Nat /\ 1 <= b /\ b <= t /\ 1 <= d /\ d <= g
        /\ d \in 1 .. m + 1 /\ g \in d .. m + 1 /\ g <= m + 1
    BY HereType
  <1>2. Plain(p, g)
    BY DEF Here, Plain
  <1>3. t \in 1 .. n /\ d \in d .. m + 1
    <2> HIDE DEF m, n
    <2> QED
      BY <1>1
  <1>4. w[d] = b
    BY <1>1, WayType
  <1> HIDE DEF m, n
  <1>5. CASE FromBase(p, b, d, t, g)
    <2>1. t - b = g - d /\ \A k \in d .. g - 1 : Plain(p, k)
      BY <1>5 DEF FromBase
    <2>2. w[d] + (g - d) = t
      BY <1>1, <1>4, <2>1
    <2> QED
      <3>1. AllPlain(p, d, g)
        BY <2>1 DEF AllPlain
      <3> QED
        BY <1>1, <1>2, <1>3, <2>2, <3>1, GlobMismatch DEF m, n
  <1>6. ASSUME NEW x, NEW y, FromStar(text, p, b, d, U, t, g, x, y), text[x] = Slash
        PROVE  FALSE
    <2>1. /\ x \in b .. t /\ y \in d .. g /\ t - x = g - y
          /\ \A k \in y .. g - 1 : Plain(p, k)
          /\ Ahead(text, p, b, d, U, x, y)
      BY <1>6 DEF FromStar
    <2>2. w \in S
      BY DEF GlobBase, Solutions
    <2>3. x <= w[y] /\ \A i \in x .. w[y] - 1 : text[i] # Slash
      BY <2>1, <2>2 DEF Ahead
    <2>4. x \in Nat /\ y \in Nat /\ y \in d .. m + 1 /\ g \in y .. m + 1 /\ x + (g - y) = t
      BY <1>1, <2>1
    <2>5. w[y] \in 1 .. n + 1
      BY <1>1, <2>4, WayType DEF m, n
    <2>6. w[y] = x
      <3> DEFINE v == w[y]
      <3>1. v \in 1 .. n + 1 /\ x <= v /\ x \notin x .. v - 1
        BY <1>6, <2>3, <2>5
      <3> HIDE DEF v
      <3>2. v = x
        BY <1>1, <2>4, <3>1
      <3> QED
        BY <3>2 DEF v
    <2> QED
      <3>1. AllPlain(p, y, g)
        BY <2>1 DEF AllPlain
      <3> QED
        BY <1>1, <1>2, <1>3, <2>4, <2>6, <3>1, GlobMismatch DEF m, n
  <1> QED
    BY <1>5, <1>6

(* The folders that two stars stand for take one more character.           *)
LEMMA GlobNextFolder ==
    ASSUME NEW C, NEW text \in Seq(C), NEW P, NEW p \in Seq(P),
           NEW b, NEW d, NEW U, U = Onward(text, b), GlobBase(text, p, b, d, U),
           NEW t, NEW g, Here(text, p, b, d, U, t, g),
           t <= Len(text), TokenAt(p, g) # Star, Ways(text, p, b, d) = {},
           NEW W, W = Onward(text, b + 1)
    PROVE  /\ GlobBase(text, p, b + 1, d, W)
           /\ Here(text, p, b + 1, d, W, b + 1, d)
           /\ FromBase(p, b + 1, d, b + 1, d)
           /\ Solutions(text, p, d, U) # {} <=> Solutions(text, p, d, W) # {}
  <1> DEFINE n == Len(text)  e == b + 1
  <1>1. n \in Nat /\ b \in Nat /\ 1 <= b /\ b <= t /\ t \in Nat /\ t <= n
    BY HereType
  <1>2. ~ FolderStars(p, d)
    BY DEF Here, FolderStars, TwoStars
  <1> HIDE DEF n
  <1>3. U = b .. n + 1 /\ W = e .. n + 1
    BY DEF Onward, n
  <1>4. /\ e \in 1 .. n + 1 /\ e \in W /\ W \in SUBSET (e .. n + 1)
        /\ \A u : u \in U <=> u = b \/ u \in W
    <2>1. e \in 1 .. n + 1 /\ e \in e .. n + 1
      BY <1>1
    <2>2. \A u : u \in b .. n + 1 <=> u = b \/ u \in e .. n + 1
      BY <1>1
    <2> QED
      BY <1>3, <2>1, <2>2
  <1>5. GlobBase(text, p, e, d, W)
    BY <1>4 DEF GlobBase, n
  <1> HIDE DEF e
  <1>6. Here(text, p, e, d, W, e, d) /\ FromBase(p, e, d, e, d)
    BY <1>2, <1>5, GlobFresh
  <1>7. Solutions(text, p, d, U) # {} <=> Solutions(text, p, d, W) # {}
    BY <1>4 DEF Solutions
  <1> QED
    BY <1>5, <1>6, <1>7 DEF e

(* Where a star may be in the text and in the pattern; zero for none.       *)
GlobPlaces(text, p) == (0 .. Len(text) + 1) \X (0 .. Len(p) + 1)

(* Where the ways begin that the loop tells of: at the start, or after the *)
(* last two stars, from the place it now tries on.                         *)
GlobFirst(dirs) == IF dirs = NoPlace THEN <<1, 1>> ELSE dirs

GlobStarts(text, dirs) == IF dirs = NoPlace THEN {1} ELSE Onward(text, dirs[1])

GlobAnswer(text, p, dirs) ==
    Solutions(text, p, GlobFirst(dirs)[2], GlobStarts(text, dirs)) # {}

(* What is so whenever the loop goes round.                                *)
GlobCame(text, p, b, d, U, t, g, star) ==
    \/ ~ CanStretch(text, star) /\ FromBase(p, b, d, t, g)
    \/ star # NoPlace /\ FromStar(text, p, b, d, U, t, g, star[1], star[2])

GlobAt(text, p, t, g, star, dirs) ==
    LET b == GlobFirst(dirs)[1]
        d == GlobFirst(dirs)[2]
        U == GlobStarts(text, dirs)
    IN  /\ star \in GlobPlaces(text, p) /\ dirs \in GlobPlaces(text, p)
        /\ GlobBase(text, p, b, d, U)
        /\ Here(text, p, b, d, U, t, g)
        /\ GlobCame(text, p, b, d, U, t, g, star)

(* The place after the star from which the loop came, or 0.                *)
GlobTrack(t, g, star) ==
    IF star[2] <= g /\ t - star[1] = g - star[2] THEN star[2] ELSE 0

(* The loop goes on upwards in this order.                                 *)
GlobUp(t, g, star, dirs, t2, g2, star2, dirs2) ==
    \/ dirs2[2] > dirs[2]
    \/ dirs2[2] = dirs[2] /\ dirs2[1] > dirs[1]
    \/ /\ dirs2[2] = dirs[2] /\ dirs2[1] = dirs[1]
       /\ \/ GlobTrack(t2, g2, star2) > GlobTrack(t, g, star)
          \/ /\ GlobTrack(t2, g2, star2) = GlobTrack(t, g, star)
             /\ star2[1] > star[1] \/ (star2[1] = star[1] /\ g2 > g)

(* One round leads there.                                                  *)
GlobRoundTo(text, p, t, g, star, dirs, t2, g2, star2, dirs2) ==
    /\ GlobNext(text, p, <<t, g, star, dirs>>) = <<t2, g2, star2, dirs2>>
    /\ GlobAt(text, p, t2, g2, star2, dirs2)
    /\ GlobAnswer(text, p, dirs) <=> GlobAnswer(text, p, dirs2)
    /\ GlobUp(t, g, star, dirs, t2, g2, star2, dirs2)

(* Where the loop may be, all is within the text and the pattern.          *)
LEMMA GlobAtType ==
    ASSUME NEW C, NEW text \in Seq(C), NEW P, NEW p \in Seq(P),
           NEW t, NEW g, NEW star, NEW dirs, GlobAt(text, p, t, g, star, dirs)
    PROVE  /\ Len(text) \in Nat /\ Len(p) \in Nat
           /\ t \in Nat /\ 1 <= t /\ t <= Len(text) + 1
           /\ g \in Nat /\ 1 <= g /\ g <= Len(p) + 1
           /\ star = <<star[1], star[2]>> /\ star[1] \in 0 .. Len(text) + 1
           /\ star[2] \in 0 .. Len(p) + 1
           /\ dirs = <<dirs[1], dirs[2]>> /\ dirs[1] \in 0 .. Len(text) + 1
           /\ dirs[2] \in 0 .. Len(p) + 1
           /\ dirs[2] <= g
           /\ dirs # NoPlace => dirs[1] <= t
           /\ GlobTrack(t, g, star) \in 0 .. Len(p) + 1 /\ GlobTrack(t, g, star) <= g
           /\ <<t, g, star, dirs>> \in GlobStates
  <1> DEFINE m == Len(p)  n == Len(text)
             b == GlobFirst(dirs)[1]  d == GlobFirst(dirs)[2]  U == GlobStarts(text, dirs)
  <1>1. /\ star \in GlobPlaces(text, p) /\ dirs \in GlobPlaces(text, p)
        /\ GlobBase(text, p, b, d, U) /\ Here(text, p, b, d, U, t, g)
    BY DEF GlobAt
  <1> HIDE DEF b, d, U
  <1>2. /\ m \in Nat /\ n \in Nat /\ t \in Nat /\ g \in Nat /\ t <= n + 1 /\ g <= m + 1
        /\ 1 <= b /\ b <= t /\ 1 <= d /\ d <= g /\ b \in Nat /\ d \in Nat
    BY <1>1, HereType
  <1>3. /\ star = <<star[1], star[2]>> /\ star[1] \in 0 .. n + 1 /\ star[2] \in 0 .. m + 1
        /\ dirs = <<dirs[1], dirs[2]>> /\ dirs[1] \in 0 .. n + 1 /\ dirs[2] \in 0 .. m + 1
    BY <1>1 DEF GlobPlaces
  <1>4. /\ dirs # NoPlace => dirs[1] = b /\ dirs[2] = d
        /\ dirs = NoPlace => dirs[2] = 0
    BY DEF b, d, GlobFirst, NoPlace
  <1> HIDE DEF m, n
  <1>5. dirs[2] <= g /\ 1 <= t /\ 1 <= g
    BY <1>2, <1>3, <1>4
  <1>6. GlobTrack(t, g, star) \in 0 .. m + 1 /\ GlobTrack(t, g, star) <= g
    <2> DEFINE x == star[1]  y == star[2]
    <2>1. x \in 0 .. n + 1 /\ y \in 0 .. m + 1
      BY <1>3
    <2> HIDE DEF x, y
    <2>2. /\ (IF y <= g /\ t - x = g - y THEN y ELSE 0) \in 0 .. m + 1
          /\ (IF y <= g /\ t - x = g - y THEN y ELSE 0) <= g
      BY <1>2, <2>1
    <2> QED
      BY <2>2 DEF GlobTrack, x, y
  <1>7. <<t, g, star, dirs>> \in GlobStates
    <2>1. star[1] \in Nat /\ star[2] \in Nat /\ dirs[1] \in Nat /\ dirs[2] \in Nat
      BY <1>2, <1>3
    <2> QED
      BY <1>2, <1>3, <2>1 DEF GlobStates, Place
  <1> QED
    BY <1>2, <1>3, <1>4, <1>5, <1>6, <1>7 DEF m, n

(* Where the loop ends, it tells whether there is a way.                   *)
LEMMA GlobEnds ==
    ASSUME NEW C, NEW text \in Seq(C), NEW P, NEW p \in Seq(P), WellFormed(p),
           NEW t, NEW g, NEW star, NEW dirs, GlobAt(text, p, t, g, star, dirs),
           ~ GlobGoesOn(text, p, <<t, g, star, dirs>>)
    PROVE  GlobAccepts(text, p, <<t, g, star, dirs>>) <=> GlobAnswer(text, p, dirs)
  <1> DEFINE m == Len(p)  n == Len(text)
             b == GlobFirst(dirs)[1]  d == GlobFirst(dirs)[2]  U == GlobStarts(text, dirs)
  <1>1. /\ GlobBase(text, p, b, d, U) /\ Here(text, p, b, d, U, t, g)
        /\ GlobCame(text, p, b, d, U, t, g, star)
    BY DEF GlobAt
  <1>2. GlobAnswer(text, p, dirs) <=> Solutions(text, p, d, U) # {}
    BY DEF GlobAnswer
  <1>3. /\ m \in Nat /\ n \in Nat /\ t \in Nat /\ g \in Nat /\ t <= n + 1
    BY GlobAtType
  <1>4. (b = 1 /\ d = 1 /\ U = {1}) \/ dirs # NoPlace
    BY DEF GlobFirst, GlobStarts
  <1> HIDE DEF b, d, U
  <1>5. CASE t = n + 1
    <2>1. ~ n + 1 <= n /\ n + 1 > n
      BY <1>3
    <2>2. GlobAccepts(text, p, <<t, g, star, dirs>>) <=> \A k \in g .. m : p[k] = Star
      BY <1>5, <2>1 DEF GlobAccepts
    <2> QED
      BY <1>1, <1>2, <1>5, <2>2, GlobAtEnd
  <1>6. CASE t # n + 1
    <2>1. t <= n /\ ~ t > n
      <3> HIDE DEF n
      <3> QED
        BY <1>3, <1>6
    <2>2. GlobAccepts(text, p, <<t, g, star, dirs>>) <=> TwoStars(p, g) /\ g + 1 = m
      BY <2>1 DEF GlobAccepts
    <2>3. CASE TwoStars(p, g)
      <3>1. g + 1 = m
        <4> SUFFICES ASSUME g + 1 # m PROVE FALSE
          OBVIOUS
        <4>1. TokenAt(p, g + 2) = Slashes
          BY <1>1, <2>1, <2>3, GlobNewFolders
        <4> QED
          BY <2>1, <2>3, <4>1 DEF GlobGoesOn
      <3> QED
        BY <1>1, <1>2, <2>1, <2>2, <2>3, <3>1, GlobTrailing
    <2>4. CASE ~ TwoStars(p, g)
      <3>1. /\ TokenAt(p, g) # Star /\ text[t] \notin TokenAt(p, g)
            /\ ~ CanStretch(text, star) /\ dirs = NoPlace
        BY <2>1, <2>4 DEF GlobGoesOn
      <3>2. \/ FromBase(p, b, d, t, g)
            \/ \E x, y : FromStar(text, p, b, d, U, t, g, x, y) /\ text[x] = Slash
        BY <1>1, <3>1 DEF GlobCame, CanStretch, NoPlace
      <3>3. Ways(text, p, b, d) = {}
        BY <1>1, <2>1, <3>1, <3>2, GlobNoWay
      <3>4. Solutions(text, p, d, U) = {}
        BY <1>4, <3>1, <3>3 DEF Solutions
      <3> QED
        BY <1>2, <2>2, <2>4, <3>4
    <2> QED
      BY <2>3, <2>4
  <1> QED
    BY <1>5, <1>6

(* A round leads to the next state, upwards, and what the loop has to tell *)
(* stays what it was.                                                      *)
LEMMA GlobRounds ==
    ASSUME NEW C, NEW text \in Seq(C), NEW P, NEW p \in Seq(P), WellFormed(p),
           text[Len(text)] # Slash,
           NEW t, NEW g, NEW star, NEW dirs, GlobAt(text, p, t, g, star, dirs),
           GlobGoesOn(text, p, <<t, g, star, dirs>>)
    PROVE  \E t2, g2, star2, dirs2 :
              GlobRoundTo(text, p, t, g, star, dirs, t2, g2, star2, dirs2)
  <1> DEFINE m == Len(p)  n == Len(text)
             b == GlobFirst(dirs)[1]  d == GlobFirst(dirs)[2]  U == GlobStarts(text, dirs)
             next == GlobNext(text, p, <<t, g, star, dirs>>)
  <1>1. /\ star \in GlobPlaces(text, p) /\ dirs \in GlobPlaces(text, p)
        /\ GlobBase(text, p, b, d, U) /\ Here(text, p, b, d, U, t, g)
        /\ GlobCame(text, p, b, d, U, t, g, star)
    BY DEF GlobAt
  <1>2. GlobAnswer(text, p, dirs) <=> Solutions(text, p, d, U) # {}
    BY DEF GlobAnswer
  <1>3. /\ m \in Nat /\ n \in Nat /\ t \in Nat /\ g \in Nat /\ 1 <= t /\ 1 <= g
        /\ t <= n + 1 /\ g <= m + 1
        /\ star = <<star[1], star[2]>> /\ star[1] \in 0 .. n + 1 /\ star[2] \in 0 .. m + 1
        /\ dirs = <<dirs[1], dirs[2]>> /\ dirs[1] \in 0 .. n + 1 /\ dirs[2] \in 0 .. m + 1
        /\ dirs[2] <= g /\ (dirs # NoPlace => dirs[1] <= t)
    BY GlobAtType
  <1>types. /\ m \in Nat /\ n \in Nat /\ t \in Nat /\ g \in Nat
            /\ t <= n + 1 /\ g <= m + 1 /\ dirs[2] \in 0 .. m + 1 /\ dirs[2] <= g
    BY GlobAtType
  <1>4. /\ GlobTrack(t, g, star) \in 0 .. m + 1 /\ GlobTrack(t, g, star) <= g
    BY GlobAtType
  <1>5. dirs # NoPlace => dirs[1] = b /\ dirs[2] = d /\ U = Onward(text, b)
    BY DEF GlobFirst, GlobStarts
  <1>6. t <= n
    BY DEF GlobGoesOn
  <1>7. NoPlace \in GlobPlaces(text, p) /\ ~ CanStretch(text, NoPlace)
    BY <1>3 DEF NoPlace, GlobPlaces, CanStretch
  <1>8. \A i \in 0 .. n + 1, j \in 0 .. m + 1 : <<i, j>> \in GlobPlaces(text, p)
    BY DEF GlobPlaces
  <1>9. ASSUME NEW t2, NEW g2, NEW star2, star2 \in GlobPlaces(text, p),
               next = <<t2, g2, star2, dirs>>,
               Here(text, p, b, d, U, t2, g2), GlobCame(text, p, b, d, U, t2, g2, star2),
               GlobUp(t, g, star, dirs, t2, g2, star2, dirs)
        PROVE  GlobRoundTo(text, p, t, g, star, dirs, t2, g2, star2, dirs)
    <2>1. GlobAt(text, p, t2, g2, star2, dirs)
      BY <1>1, <1>9 DEF GlobAt
    <2> QED
      BY <1>9, <2>1 DEF GlobRoundTo
  <1> HIDE DEF b, d, U, m, n
  <1>10. CASE TwoStars(p, g)
    <2> DEFINE q == g + 3  W == Onward(text, t)  dirs2 == <<t, q>>
    <2>1. g + 1 # m
      BY <1>10 DEF GlobGoesOn, m
    <2>2. /\ GlobBase(text, p, t, q, W) /\ Here(text, p, t, q, W, t, q)
          /\ FromBase(p, t, q, t, q)
          /\ Solutions(text, p, d, U) # {} <=> Solutions(text, p, q, W) # {}
      BY <1>1, <1>6, <1>10, <2>1, GlobNewFolders DEF m, n
    <2>3. next = <<t, q, NoPlace, dirs2>>
      BY <1>10 DEF GlobNext
    <2>4. q \in 1 .. m + 1 /\ q > dirs[2] /\ t \in 0 .. n + 1 /\ q \in 0 .. m + 1
      <3>1. q \in 1 .. m + 1
        BY <2>2 DEF GlobBase, m
      <3>2. q > dirs[2]
        <4> DEFINE z == dirs[2]
        <4>1. z \in 0 .. m + 1 /\ z <= g /\ g \in Nat /\ m \in Nat
          BY <1>types
        <4> HIDE DEF z
        <4>2. q > z
          BY <4>1
        <4> QED
          BY <4>2 DEF z
      <3> HIDE DEF q
      <3> QED
        BY <1>types, <3>1, <3>2
    <2> HIDE DEF q, W, next
    <2>5. dirs2 # NoPlace /\ dirs2[1] = t /\ dirs2[2] = q
      BY <1>3 DEF NoPlace
    <2>6. dirs2 \in GlobPlaces(text, p)
      BY <1>8, <2>4
    <2> HIDE DEF dirs2
    <2>7. GlobFirst(dirs2)[1] = t /\ GlobFirst(dirs2)[2] = q /\ GlobStarts(text, dirs2) = W
      BY <2>5 DEF GlobFirst, GlobStarts, W
    <2>8. GlobAt(text, p, t, q, NoPlace, dirs2)
      BY <1>7, <2>2, <2>6, <2>7 DEF GlobAt, GlobCame
    <2>9. GlobAnswer(text, p, dirs) <=> GlobAnswer(text, p, dirs2)
      BY <1>2, <2>2, <2>7 DEF GlobAnswer
    <2>10. GlobUp(t, g, star, dirs, t, q, NoPlace, dirs2)
      BY <2>4, <2>5 DEF GlobUp
    <2> QED
      BY <2>3, <2>8, <2>9, <2>10 DEF GlobRoundTo, next
  <1>11. CASE TokenAt(p, g) = Star /\ ~ TwoStars(p, g)
    <2> DEFINE h == g + 1  star2 == <<t, h>>
    <2>1. /\ Here(text, p, b, d, U, t, h)
          /\ FromStar(text, p, b, d, U, t, h, t, h)
      BY <1>1, <1>6, <1>11, GlobAtStar DEF n
    <2>2. next = <<t, h, star2, dirs>>
      BY <1>11 DEF GlobNext
    <2>3. h \in 0 .. m + 1 /\ t \in 0 .. n + 1
      <3>1. h \in d .. m + 1 /\ d \in 1 .. m + 1
        BY <1>1, <2>1 DEF Here, GlobBase, m
      <3> HIDE DEF h
      <3> QED
        BY <1>3, <3>1
    <2>4. star2[1] = t /\ star2[2] = h
      OBVIOUS
    <2>5. star2 \in GlobPlaces(text, p)
      BY <1>8, <2>3
    <2>6. star2 # NoPlace
      BY <1>3 DEF NoPlace
    <2>7. GlobTrack(t, h, star2) = h /\ h > g
      <3>1. h <= h /\ t - t = h - h /\ h > g
        BY <1>types
      <3> QED
        BY <2>4, <3>1 DEF GlobTrack
    <2> HIDE DEF star2, next
    <2>8. GlobCame(text, p, b, d, U, t, h, star2)
      BY <2>1, <2>4, <2>6 DEF GlobCame
    <2>9. GlobTrack(t, h, star2) > GlobTrack(t, g, star)
      <3> DEFINE a == GlobTrack(t, h, star2)  c == GlobTrack(t, g, star)
      <3>1. a = h /\ h > g /\ c <= g /\ c \in 0 .. m + 1 /\ h \in Nat
        BY <1>types, <1>4, <2>7
      <3> HIDE DEF a, c, h
      <3>2. a > c
        BY <1>types, <3>1
      <3> QED
        BY <3>2 DEF a, c
    <2>10. GlobUp(t, g, star, dirs, t, h, star2, dirs)
      BY <2>9 DEF GlobUp
    <2> QED
      BY <1>9, <2>1, <2>2, <2>5, <2>8, <2>10
  <1>12. CASE TokenAt(p, g) # Star /\ text[t] \in TokenAt(p, g)
    <2> DEFINE h == g + 1  e == t + 1
    <2>1. /\ Here(text, p, b, d, U, e, h)
          /\ FromBase(p, b, d, t, g) => FromBase(p, b, d, e, h)
          /\ \A x, y : FromStar(text, p, b, d, U, t, g, x, y) =>
                          FromStar(text, p, b, d, U, e, h, x, y)
      BY <1>1, <1>6, <1>12, GlobOneCharacter DEF n
    <2>2. next = <<e, h, star, dirs>>
      BY <1>12 DEF GlobNext, TwoStars
    <2>3. GlobCame(text, p, b, d, U, e, h, star)
      BY <1>1, <2>1 DEF GlobCame
    <2>4. GlobTrack(e, h, star) >= GlobTrack(t, g, star) /\ h > g
      <3> DEFINE x == star[1]  y == star[2]
      <3>1. /\ x \in 0 .. n + 1 /\ y \in 0 .. m + 1 /\ n \in Nat /\ m \in Nat
            /\ t \in Nat /\ g \in Nat
        BY <1>3
      <3> HIDE DEF x, y
      <3>2. h > g /\ y >= 0 /\ y >= y /\ 0 >= 0
        BY <3>1
      <3>3. y <= g /\ t - x = g - y => y <= h /\ e - x = h - y
        BY <3>1
      <3>4. (IF y <= h /\ e - x = h - y THEN y ELSE 0) >=
                (IF y <= g /\ t - x = g - y THEN y ELSE 0)
        BY <3>2, <3>3
      <3> QED
        BY <3>2, <3>4 DEF GlobTrack, x, y
    <2>5. GlobTrack(e, h, star) \in Int /\ GlobTrack(t, g, star) \in Int
      <3>1. star[2] \in Int
        BY <1>3
      <3> QED
        BY <3>1 DEF GlobTrack
    <2> HIDE DEF e, h, next
    <2>6. GlobUp(t, g, star, dirs, e, h, star, dirs)
      <3> DEFINE a == GlobTrack(e, h, star)  c == GlobTrack(t, g, star)
      <3>1. a >= c /\ a \in Int /\ c \in Int
        BY <2>4, <2>5
      <3> HIDE DEF a, c
      <3>2. a > c \/ a = c
        BY <3>1
      <3> QED
        BY <2>4, <3>2 DEF GlobUp, a, c
    <2> QED
      BY <1>1, <1>9, <2>1, <2>2, <2>3, <2>6
  <1>13. CASE TokenAt(p, g) # Star /\ text[t] \notin TokenAt(p, g) /\ CanStretch(text, star)
    <2> DEFINE x == star[1]  y == star[2]  e == x + 1  star2 == <<e, y>>
    <2>1. star # NoPlace /\ text[x] # Slash
      BY <1>13 DEF CanStretch, NoPlace
    <2>2. FromStar(text, p, b, d, U, t, g, x, y)
      BY <1>1, <1>13 DEF GlobCame
    <2>3. Here(text, p, b, d, U, e, y) /\ FromStar(text, p, b, d, U, e, y, e, y)
      <3> HIDE DEF x, y
      <3> QED
        BY <1>1, <1>6, <1>13, <2>1, <2>2, GlobStretch DEF n
    <2>4. next = <<e, y, star2, dirs>>
      BY <1>13 DEF GlobNext, TwoStars, Advance
    <2>5. /\ b \in 1 .. n + 1 /\ d \in 1 .. m + 1
          /\ x \in b .. t /\ y \in d .. g /\ t - x = g - y
      BY <1>1, <2>2 DEF FromStar, GlobBase, m, n
    <2>6. x \in 0 .. n + 1 /\ y \in 0 .. m + 1
      BY <1>3
    <2> HIDE DEF x, y, next
    <2>7. e \in 0 .. n + 1 /\ y <= g /\ e # 0 /\ e > x /\ y <= y /\ e - e = y - y
      <3> DEFINE b1 == b  d1 == d
      <3>1. /\ b1 \in 1 .. n + 1 /\ d1 \in 1 .. m + 1 /\ x \in b1 .. t /\ y \in d1 .. g
            /\ e = x + 1 /\ t \in Nat /\ g \in Nat /\ n \in Nat /\ m \in Nat /\ t <= n
        BY <1>3, <1>6, <2>5
      <3> HIDE DEF b1, d1, e
      <3> QED
        BY <3>1
    <2>8. star2 # NoPlace /\ star2[1] = e /\ star2[2] = y
      BY <2>7 DEF NoPlace
    <2>9. star2 \in GlobPlaces(text, p)
      BY <1>8, <2>6, <2>7
    <2> HIDE DEF e, star2
    <2>10. GlobCame(text, p, b, d, U, e, y, star2)
      BY <2>3, <2>8 DEF GlobCame
    <2>11. GlobTrack(t, g, star) = y /\ GlobTrack(e, y, star2) = y
      BY <2>5, <2>7, <2>8 DEF GlobTrack, x, y
    <2>12. GlobUp(t, g, star, dirs, e, y, star2, dirs)
      BY <2>7, <2>8, <2>11 DEF GlobUp, x
    <2> QED
      BY <1>9, <2>3, <2>4, <2>9, <2>10, <2>12
  <1>14. CASE TokenAt(p, g) # Star /\ text[t] \notin TokenAt(p, g) /\ ~ CanStretch(text, star)
    <2> DEFINE e == b + 1  W == Onward(text, e)  dirs2 == <<e, d>>
    <2>1. dirs # NoPlace
      BY <1>14 DEF GlobGoesOn, TwoStars
    <2>2. U = Onward(text, b) /\ dirs[1] = b /\ dirs[2] = d /\ b \in 0 .. n + 1
      BY <1>3, <1>5, <2>1
    <2>3. \/ FromBase(p, b, d, t, g)
          \/ \E x, y : FromStar(text, p, b, d, U, t, g, x, y) /\ text[x] = Slash
      BY <1>1, <1>14 DEF GlobCame, CanStretch, NoPlace
    <2>4. Ways(text, p, b, d) = {}
      BY <1>1, <1>6, <1>14, <2>3, GlobNoWay DEF n
    <2>5. /\ GlobBase(text, p, e, d, W) /\ Here(text, p, e, d, W, e, d)
          /\ FromBase(p, e, d, e, d)
          /\ Solutions(text, p, d, U) # {} <=> Solutions(text, p, d, W) # {}
      BY <1>1, <1>6, <1>14, <2>2, <2>4, GlobNextFolder DEF n
    <2>6. next = <<e, d, star, dirs2>>
      BY <1>14, <2>2 DEF GlobNext, TwoStars, Advance
    <2>7. e > b /\ e # 0
      BY <2>2
    <2> HIDE DEF e, W, next
    <2>8. dirs2 # NoPlace /\ dirs2[1] = e /\ dirs2[2] = d
      BY <2>7 DEF NoPlace
    <2>9. dirs2 \in GlobPlaces(text, p)
      <3>1. e \in 1 .. n + 1 /\ d \in 1 .. m + 1
        BY <2>5 DEF GlobBase, m, n
      <3>2. e \in 0 .. n + 1 /\ d \in 0 .. m + 1
        BY <1>types, <3>1
      <3> QED
        BY <1>8, <3>2
    <2> HIDE DEF dirs2
    <2>10. GlobFirst(dirs2)[1] = e /\ GlobFirst(dirs2)[2] = d /\ GlobStarts(text, dirs2) = W
      BY <2>8 DEF GlobFirst, GlobStarts, W
    <2>11. GlobAt(text, p, e, d, star, dirs2)
      BY <1>1, <1>14, <2>5, <2>9, <2>10 DEF GlobAt, GlobCame
    <2>12. GlobAnswer(text, p, dirs) <=> GlobAnswer(text, p, dirs2)
      BY <1>2, <2>5, <2>10 DEF GlobAnswer
    <2>13. GlobUp(t, g, star, dirs, e, d, star, dirs2)
      BY <2>2, <2>7, <2>8 DEF GlobUp
    <2> QED
      BY <2>6, <2>11, <2>12, <2>13 DEF GlobRoundTo, next
  <1>15. TwoStars(p, g) => TokenAt(p, g) = Star
    BY DEF TwoStars
  <1> QED
    BY <1>10, <1>11, <1>12, <1>13, <1>14, <1>15

(* The loop tells at each place where it may be whether there is a way.    *)
LEMMA GlobTells ==
    ASSUME NEW C, NEW text \in Seq(C), NEW P, NEW p \in Seq(P), WellFormed(p),
           text[Len(text)] # Slash,
           NEW t, NEW g, NEW star, NEW dirs, GlobAt(text, p, t, g, star, dirs)
    PROVE  Globbing(text, p)[<<t, g, star, dirs>>] <=> GlobAnswer(text, p, dirs)
  <1> DEFINE m == Len(p)  n == Len(text)  W == n + m + 2
             D == {at \in GlobStates : GlobAt(text, p, at[1], at[2], at[3], at[4])}
             Bad == {at \in D : ~ (Globbing(text, p)[at] <=> GlobAnswer(text, p, at[4]))}
             Track(at) == GlobTrack(at[1], at[2], at[3])
             Rank(k, at) == CASE k = 1 -> at[4][2] [] k = 2 -> at[4][1] [] k = 3 -> Track(at)
                              [] k = 4 -> at[3][1] [] k = 5 -> at[2]
             r == [k \in 1 .. 5 |-> [at \in Bad |-> Rank(k, at)]]
  <1>1. ASSUME NEW a, NEW i, NEW k, NEW l, GlobAt(text, p, a, i, k, l)
        PROVE  <<a, i, k, l>> \in D
    BY <1>1, GlobAtType
  <1>2. ASSUME NEW at \in D
        PROVE  /\ at = <<at[1], at[2], at[3], at[4]>>
               /\ GlobAt(text, p, at[1], at[2], at[3], at[4])
    BY DEF GlobStates
  <1>3. ASSUME NEW at \in D
        PROVE  /\ at[4][2] \in 0 .. W /\ at[4][1] \in 0 .. W /\ Track(at) \in 0 .. W
               /\ at[3][1] \in 0 .. W /\ at[2] \in 0 .. W
    <2> DEFINE a == at[4][2]  c == at[4][1]  e == Track(at)  h == at[3][1]  q == at[2]
    <2>1. /\ n \in Nat /\ m \in Nat /\ a \in 0 .. m + 1 /\ c \in 0 .. n + 1
          /\ e \in 0 .. m + 1 /\ h \in 0 .. n + 1 /\ q \in Nat /\ q <= m + 1
      BY <1>2, GlobAtType
    <2> HIDE DEF a, c, e, h, q, n, m
    <2>2. a \in 0 .. W /\ c \in 0 .. W /\ e \in 0 .. W /\ h \in 0 .. W /\ q \in 0 .. W
      BY <2>1
    <2> QED
      BY <2>2 DEF a, c, e, h, q
  <1>4. W \in Nat
    BY LenProperties
  <1> SUFFICES ASSUME Bad # {} PROVE FALSE
    BY <1>1
  <1>5. Bad \subseteq D
    OBVIOUS
  <1>6. \A at \in Bad : ~ (Globbing(text, p)[at] <=> GlobAnswer(text, p, at[4]))
    OBVIOUS
  <1>7. \A at \in D : ~ (Globbing(text, p)[at] <=> GlobAnswer(text, p, at[4])) => at \in Bad
    OBVIOUS
  <1> HIDE DEF D, Bad, W, Track
  <1>8. \A at \in Bad : /\ r[1][at] = at[4][2] /\ r[2][at] = at[4][1]
                        /\ r[3][at] = Track(at)
                        /\ r[4][at] = at[3][1] /\ r[5][at] = at[2]
    OBVIOUS
  <1>9. r \in Ranks(Bad, W)
    <2> SUFFICES ASSUME NEW k \in 1 .. 5, NEW at \in Bad PROVE Rank(k, at) \in 0 .. W
      BY DEF Ranks
    <2>1. k = 1 \/ k = 2 \/ k = 3 \/ k = 4 \/ k = 5
      OBVIOUS
    <2> QED
      BY <1>3, <1>5, <2>1
  <1> HIDE DEF r, Rank
  <1>10. PICK x \in Bad : \A y \in Bad : ~ Above(r, y, x)
    BY <1>4, <1>9, GreatestInOrder
  <1> DEFINE t1 == x[1]  g1 == x[2]  star1 == x[3]  dirs1 == x[4]
  <1>11. /\ x = <<t1, g1, star1, dirs1>> /\ GlobAt(text, p, t1, g1, star1, dirs1)
         /\ x \in GlobStates
    <2>1. x \in D
      BY <1>5
    <2> QED
      BY <1>2, <2>1 DEF D
  <1>12. Globbing(text, p)[x] <=>
            IF GlobGoesOn(text, p, x) THEN Globbing(text, p)[GlobNext(text, p, x)]
            ELSE GlobAccepts(text, p, x)
    BY <1>11, GlobEquation
  <1>13. ~ (Globbing(text, p)[x] <=> GlobAnswer(text, p, dirs1))
    BY <1>6
  <1> HIDE DEF t1, g1, star1, dirs1
  <1>14. GlobGoesOn(text, p, x)
    <2> SUFFICES ASSUME ~ GlobGoesOn(text, p, x) PROVE FALSE
      OBVIOUS
    <2>1. GlobAccepts(text, p, x) <=> GlobAnswer(text, p, dirs1)
      BY <1>11, GlobEnds
    <2> QED
      BY <1>12, <1>13, <2>1
  <1>15. PICK t2, g2, star2, dirs2 :
            GlobRoundTo(text, p, t1, g1, star1, dirs1, t2, g2, star2, dirs2)
    BY <1>11, <1>14, GlobRounds
  <1> DEFINE y == <<t2, g2, star2, dirs2>>
  <1>16. /\ GlobNext(text, p, x) = y /\ GlobAt(text, p, t2, g2, star2, dirs2)
         /\ GlobAnswer(text, p, dirs1) <=> GlobAnswer(text, p, dirs2)
         /\ GlobUp(t1, g1, star1, dirs1, t2, g2, star2, dirs2)
    BY <1>11, <1>15 DEF GlobRoundTo
  <1>17. y[1] = t2 /\ y[2] = g2 /\ y[3] = star2 /\ y[4] = dirs2
    OBVIOUS
  <1>18. y \in D
    BY <1>1, <1>16
  <1> HIDE DEF y
  <1>19. y \in Bad
    BY <1>7, <1>12, <1>13, <1>14, <1>16, <1>17, <1>18
  <1>20. /\ r[1][x] = dirs1[2] /\ r[2][x] = dirs1[1] /\ r[3][x] = GlobTrack(t1, g1, star1)
         /\ r[4][x] = star1[1] /\ r[5][x] = g1
    BY <1>8 DEF t1, g1, star1, dirs1, Track
  <1>21. /\ r[1][y] = dirs2[2] /\ r[2][y] = dirs2[1] /\ r[3][y] = GlobTrack(t2, g2, star2)
         /\ r[4][y] = star2[1] /\ r[5][y] = g2
    BY <1>8, <1>17, <1>19 DEF Track
  <1>22. \E k \in 1 .. 5 :
            r[k][y] > r[k][x] /\ \A i \in 1 .. k - 1 : r[i][y] = r[i][x]
    <2> DEFINE More(k) == r[k][y] > r[k][x]
               Same(k) == r[k][y] = r[k][x]
    <2>1. \/ More(1)
          \/ Same(1) /\ More(2)
          \/ Same(1) /\ Same(2) /\ More(3)
          \/ Same(1) /\ Same(2) /\ Same(3) /\ More(4)
          \/ Same(1) /\ Same(2) /\ Same(3) /\ Same(4) /\ More(5)
      BY <1>16, <1>20, <1>21 DEF GlobUp
    <2> HIDE DEF More, Same
    <2>2. \E k \in 1 .. 5 : More(k) /\ \A i \in 1 .. k - 1 : Same(i)
      <3>1. /\ \A i \in 1 .. 1 - 1 : FALSE
            /\ \A i \in 1 .. 2 - 1 : i = 1
            /\ \A i \in 1 .. 3 - 1 : i = 1 \/ i = 2
            /\ \A i \in 1 .. 4 - 1 : i = 1 \/ i = 2 \/ i = 3
            /\ \A i \in 1 .. 5 - 1 : i = 1 \/ i = 2 \/ i = 3 \/ i = 4
            /\ 1 \in 1 .. 5 /\ 2 \in 1 .. 5 /\ 3 \in 1 .. 5 /\ 4 \in 1 .. 5 /\ 5 \in 1 .. 5
        OBVIOUS
      <3>2. CASE More(1)
        BY <3>1, <3>2
      <3>3. CASE Same(1) /\ More(2)
        BY <3>1, <3>3
      <3>4. CASE Same(1) /\ Same(2) /\ More(3)
        BY <3>1, <3>4
      <3>5. CASE Same(1) /\ Same(2) /\ Same(3) /\ More(4)
        BY <3>1, <3>5
      <3>6. CASE Same(1) /\ Same(2) /\ Same(3) /\ Same(4) /\ More(5)
        BY <3>1, <3>6
      <3> QED
        BY <2>1, <3>2, <3>3, <3>4, <3>5, <3>6
    <2> QED
      BY <2>2 DEF More, Same
  <1> QED
    BY <1>10, <1>19, <1>22 DEF Above

(* The loop tells whether there is a way from the start.                   *)
LEMMA GlobLoopTells ==
    ASSUME NEW C, NEW text \in Seq(C), NEW P, NEW p \in Seq(P), WellFormed(p),
           text # <<>>, text[Len(text)] # Slash
    PROVE  GlobLoop(text, p) <=> Ways(text, p, 1, 1) # {}
  <1> DEFINE m == Len(p)  n == Len(text)
  <1>1. n \in Nat /\ m \in Nat /\ DOMAIN p = 1 .. m /\ n # 0
    BY LenProperties, EmptySeq
  <1>2. 1 \in 1 .. n + 1 /\ 1 \in 1 .. m + 1 /\ 1 <= n /\ 0 \in 0 .. n + 1 /\ 0 \in 0 .. m + 1
        /\ 0 \notin DOMAIN p /\ 1 - 1 = 0
    <2> HIDE DEF n, m
    <2> QED
      BY <1>1
  <1>3. ~ Twice(p, 1) /\ ~ Twice(p, 1 - 1)
    BY <1>2, StarIsNoSet DEF Twice, TokenAt
  <1>4. GlobBase(text, p, 1, 1, {1})
    BY <1>2, <1>3 DEF GlobBase
  <1>5. Here(text, p, 1, 1, {1}, 1, 1) /\ FromBase(p, 1, 1, 1, 1)
    BY <1>2, <1>4, GlobFresh
  <1>6. NoPlace \in GlobPlaces(text, p) /\ ~ CanStretch(text, NoPlace)
    BY <1>2 DEF NoPlace, GlobPlaces, CanStretch
  <1>7. GlobFirst(NoPlace)[1] = 1 /\ GlobFirst(NoPlace)[2] = 1 /\ GlobStarts(text, NoPlace) = {1}
    BY DEF GlobFirst, GlobStarts
  <1>8. GlobAt(text, p, 1, 1, NoPlace, NoPlace)
    BY <1>4, <1>5, <1>6, <1>7 DEF GlobAt, GlobCame
  <1>9. Globbing(text, p)[<<1, 1, NoPlace, NoPlace>>] <=> GlobAnswer(text, p, NoPlace)
    BY <1>8, GlobTells
  <1>10. GlobAnswer(text, p, NoPlace) <=> Ways(text, p, 1, 1) # {}
    BY <1>7 DEF GlobAnswer, Solutions
  <1> QED
    BY <1>9, <1>10, GlobEquation

(* The text behind a up to b.                                              *)
Slice(text, a, b) == SubSeq(text, a + 1, b)

SlashFree(text, a, b) == \A i \in a + 1 .. b : text[i] # Slash

(* What a piece of a text has.                                             *)
LEMMA PieceOf ==
    ASSUME NEW C, NEW text \in Seq(C), NEW a \in 0 .. Len(text), NEW b \in a .. Len(text)
    PROVE  /\ Slice(text, a, b) \in Seq(C) /\ Len(Slice(text, a, b)) = b - a
           /\ b # a => Slice(text, a, b)[b - a] = text[b]
           /\ Slice(text, a, b) = <<>> <=> b = a
           /\ Slash \notin Range(Slice(text, a, b)) <=> SlashFree(text, a, b)
           /\ \A T : OneOf(Slice(text, a, b), T) <=> b = a + 1 /\ text[b] \in T
  <1> DEFINE piece == Slice(text, a, b)  n == Len(text)  s == a + 1
  <1>1. /\ n \in Nat /\ a \in Nat /\ b \in Nat /\ a <= b /\ b <= n /\ s \in Int
        /\ (s <= b <=> a # b) /\ b - s + 1 = b - a /\ s .. b \subseteq 1 .. n
    <2>1. n \in Nat /\ a \in 0 .. n /\ b \in a .. n
      BY LenProperties
    <2> HIDE DEF n
    <2> QED
      BY <2>1
  <1>2. \A i \in s .. b : text[i] \in C
    <2>1. \A i \in 1 .. n : text[i] \in C
      BY ElementOfSeq
    <2> HIDE DEF n, s
    <2> QED
      BY <1>1, <2>1
  <1> HIDE DEF n, piece
  <1>3. /\ piece \in Seq(C) /\ Len(piece) = b - a
        /\ \A i \in 1 .. b - a : piece[i] = text[a + i]
    <2>1. /\ piece \in Seq(C) /\ Len(piece) = (IF s <= b THEN b - s + 1 ELSE 0)
          /\ \A i \in 1 .. b - s + 1 : piece[i] = text[s + i - 1]
      <3>1. piece = SubSeq(text, s, b)
        BY DEF Slice, piece
      <3> HIDE DEF s, piece
      <3> QED
        BY <1>1, <1>2, <3>1, SubSeqProperties
    <2>2. \A i \in 1 .. b - a : s + i - 1 = a + i
      BY <1>1
    <2> HIDE DEF s
    <2> QED
      BY <1>1, <2>1, <2>2
  <1>4. piece = <<>> <=> b = a
    <2>1. piece = <<>> <=> Len(piece) = 0
      BY <1>3, EmptySeq
    <2>2. b - a = 0 <=> b = a
      BY <1>1
    <2> QED
      BY <1>3, <2>1, <2>2
  <1>5. Slash \notin Range(piece) <=> \A i \in s .. b : text[i] # Slash
    <2>1. Slash \in Range(piece) <=> \E i \in 1 .. b - a : piece[i] = Slash
      <3>1. DOMAIN piece = 1 .. b - a
        BY <1>3, LenProperties
      <3> QED
        BY <3>1 DEF Range
    <2>2. /\ \A i \in 1 .. b - a : a + i \in s .. b
          /\ \A i \in s .. b : i - a \in 1 .. b - a /\ a + (i - a) = i
      BY <1>1
    <2> HIDE DEF s
    <2>3. (\E i \in 1 .. b - a : piece[i] = Slash) <=> \E i \in s .. b : text[i] = Slash
      BY <1>3, <2>2
    <2> QED
      BY <2>1, <2>3
  <1>6. ASSUME NEW T
        PROVE  OneOf(piece, T) <=> b = a + 1 /\ text[b] \in T
    <2>1. b - a = 1 <=> b = a + 1
      BY <1>1
    <2>2. b = a + 1 => piece[1] = text[b]
      <3>1. b = a + 1 => 1 \in 1 .. b - a
        BY <1>1
      <3> QED
        BY <1>3, <3>1
    <2> QED
      BY <1>3, <2>1, <2>2 DEF OneOf
  <1>7. b # a => piece[b - a] = text[b]
    <2>1. b # a => b - a \in 1 .. b - a /\ a + (b - a) = b
      BY <1>1
    <2> QED
      BY <1>3, <2>1
  <1> QED
    BY <1>3, <1>4, <1>5, <1>6, <1>7 DEF piece, SlashFree

(* What MatchesGlob says of a piece.                                       *)
MayBe(p, piece, k) ==
    IF Twice(p, k) THEN TRUE
    ELSE IF Twice(p, k + 1) THEN piece = <<>>
    ELSE IF Twice(p, k - 1) THEN piece = <<>>
    ELSE IF p[k] = Star THEN Slash \notin Range(piece)
    ELSE OneOf(piece, p[k])

(* A place of the pattern takes a piece as a way has it.                   *)
LEMMA GlobPieceMeans ==
    ASSUME NEW C, NEW text \in Seq(C), NEW P, NEW p \in Seq(P), NEW k \in 1 .. Len(p),
           NEW a \in 0 .. Len(text), NEW b \in a .. Len(text)
    PROVE  MayBe(p, SubSeq(text, a + 1, b), k) <=> Takes(text, p, k, a + 1, b + 1)
  <1> DEFINE n == Len(text)  piece == SubSeq(text, a + 1, b)
  <1>1. /\ piece = <<>> <=> b = a
        /\ Slash \notin Range(piece) <=> \A i \in a + 1 .. b : text[i] # Slash
        /\ \A T : OneOf(piece, T) <=> b = a + 1 /\ text[b] \in T
    <2>1. piece = Slice(text, a, b)
      BY DEF Slice
    <2> HIDE DEF piece
    <2>2. /\ Slice(text, a, b) = <<>> <=> b = a
          /\ Slash \notin Range(Slice(text, a, b)) <=> SlashFree(text, a, b)
          /\ \A T : OneOf(Slice(text, a, b), T) <=> b = a + 1 /\ text[b] \in T
      BY PieceOf
    <2> QED
      BY <2>1, <2>2 DEF SlashFree
  <1>2. a \in Nat /\ b \in Nat
    <2>1. n \in Nat /\ a \in 0 .. n /\ b \in a .. n
      BY LenProperties
    <2> HIDE DEF n
    <2> QED
      BY <2>1
  <1>3. (b + 1) - 1 = b /\ (b + 1 = a + 1 <=> b = a) /\ (b + 1 = (a + 1) + 1 <=> b = a + 1)
    BY <1>2
  <1> HIDE DEF piece
  <1>4. MayBe(p, piece, k) <=> Takes(text, p, k, a + 1, b + 1)
    BY <1>1, <1>3 DEF MayBe, Takes
  <1> QED
    BY <1>4 DEF piece

(* A way is a way to cut the text into pieces.                             *)
LEMMA WaysAreCuts ==
    ASSUME NEW C, NEW text \in Seq(C), NEW P, NEW p \in Seq(P)
    PROVE  MatchesGlob(text, p) <=> Ways(text, p, 1, 1) # {}
  <1> DEFINE n == Len(text)  m == Len(p)
  <1>1. MatchesGlob(text, p) <=>
          \E cut \in [0 .. m -> 0 .. n] :
             /\ cut[0] = 0 /\ cut[m] = n
             /\ \A k \in 1 .. m : /\ cut[k - 1] <= cut[k]
                                  /\ MayBe(p, SubSeq(text, cut[k - 1] + 1, cut[k]), k)
    BY DEF MatchesGlob, Cuttable, MayBe, Twice
  <1>2. n \in Nat /\ m \in Nat
    BY LenProperties
  <1>3. ASSUME NEW cut \in [0 .. m -> 0 .. n], cut[0] = 0, cut[m] = n,
               \A k \in 1 .. m : /\ cut[k - 1] <= cut[k]
                                 /\ MayBe(p, SubSeq(text, cut[k - 1] + 1, cut[k]), k)
        PROVE  Ways(text, p, 1, 1) # {}
    <2> DEFINE w == [k \in 1 .. m + 1 |-> cut[k - 1] + 1]
    <2>1. /\ \A k \in 1 .. m + 1 : k - 1 \in 0 .. m
          /\ \A k \in 1 .. m : k \in 1 .. m + 1 /\ k + 1 \in 1 .. m + 1 /\ (k + 1) - 1 = k
          /\ \A k \in 1 .. m : k - 1 \in 0 .. m /\ k \in 0 .. m
          /\ \A i \in 0 .. n : i + 1 \in 1 .. n + 1
          /\ 1 \in 1 .. m + 1 /\ m + 1 \in 1 .. m + 1 /\ (m + 1) - 1 = m /\ 1 - 1 = 0 /\ 0 + 1 = 1
      BY <1>2
    <2> HIDE DEF n, m
    <2>2. /\ w \in [1 .. m + 1 -> 1 .. n + 1]
          /\ \A k \in 1 .. m + 1 : w[k] = cut[k - 1] + 1
      BY <2>1
    <2> HIDE DEF w
    <2>3. w[1] = 1 /\ w[m + 1] = n + 1
      BY <1>3, <2>1, <2>2
    <2>4. ASSUME NEW k \in 1 .. m
          PROVE  w[k] <= w[k + 1] /\ Takes(text, p, k, w[k], w[k + 1])
      <3> DEFINE x == cut[k - 1]  y == cut[k]
      <3>1. /\ x \in 0 .. n /\ y \in 0 .. n /\ x <= y /\ w[k] = x + 1 /\ w[k + 1] = y + 1
            /\ MayBe(p, SubSeq(text, x + 1, y), k)
        BY <1>3, <2>1, <2>2
      <3> HIDE DEF x, y
      <3>2. y \in x .. n /\ x + 1 <= y + 1
        BY <1>2, <3>1
      <3>3. Takes(text, p, k, x + 1, y + 1)
        BY <3>1, <3>2, GlobPieceMeans DEF n, m
      <3> QED
        BY <3>1, <3>2, <3>3
    <2>5. w \in Ways(text, p, 1, 1)
      BY <2>2, <2>3, <2>4 DEF Ways, n, m
    <2> QED
      BY <2>5
  <1>4. ASSUME NEW w \in Ways(text, p, 1, 1)
        PROVE  \E cut \in [0 .. m -> 0 .. n] :
                  /\ cut[0] = 0 /\ cut[m] = n
                  /\ \A k \in 1 .. m : /\ cut[k - 1] <= cut[k]
                                       /\ MayBe(p, SubSeq(text, cut[k - 1] + 1, cut[k]), k)
    <2> DEFINE cut == [k \in 0 .. m |-> w[k + 1] - 1]
    <2>1. /\ w[1] = 1 /\ w[m + 1] = n + 1
          /\ \A k \in 1 .. m + 1 : w[k] \in 1 .. n + 1
          /\ \A k \in 1 .. m : w[k] <= w[k + 1] /\ Takes(text, p, k, w[k], w[k + 1])
      BY DEF Ways
    <2> HIDE DEF n, m
    <2>2. /\ \A k \in 0 .. m : k + 1 \in 1 .. m + 1
          /\ \A k \in 1 .. m : k \in 1 .. m + 1 /\ k + 1 \in 1 .. m + 1 /\ (k - 1) + 1 = k
          /\ \A k \in 1 .. m : k - 1 \in 0 .. m /\ k \in 0 .. m
          /\ \A i \in 1 .. n + 1 : i - 1 \in 0 .. n
          /\ 0 \in 0 .. m /\ m \in 0 .. m /\ 0 + 1 = 1 /\ 1 - 1 = 0 /\ (n + 1) - 1 = n
      BY <1>2
    <2>3. /\ cut \in [0 .. m -> 0 .. n]
          /\ \A k \in 0 .. m : cut[k] = w[k + 1] - 1
      BY <2>1, <2>2
    <2> HIDE DEF cut
    <2>4. cut[0] = 0 /\ cut[m] = n
      BY <2>1, <2>2, <2>3
    <2>5. ASSUME NEW k \in 1 .. m
          PROVE  cut[k - 1] <= cut[k] /\ MayBe(p, SubSeq(text, cut[k - 1] + 1, cut[k]), k)
      <3> DEFINE x == cut[k - 1]  y == cut[k]  x1 == w[k]  y1 == w[k + 1]
      <3>1. /\ x = x1 - 1 /\ y = y1 - 1 /\ x1 \in 1 .. n + 1 /\ y1 \in 1 .. n + 1 /\ x1 <= y1
            /\ Takes(text, p, k, x1, y1)
        BY <2>1, <2>2, <2>3
      <3> HIDE DEF x, y, x1, y1
      <3>2. x \in 0 .. n /\ y \in x .. n /\ x <= y /\ x1 = x + 1 /\ y1 = y + 1
        BY <1>2, <3>1
      <3>3. MayBe(p, SubSeq(text, x + 1, y), k)
        BY <3>1, <3>2, GlobPieceMeans DEF n, m
      <3> QED
        BY <3>2, <3>3 DEF x, y
    <2> QED
      BY <2>3, <2>4, <2>5
  <1> QED
    BY <1>1, <1>3, <1>4

(* The loop of gitignore_glob_match() accepts the names that the pattern   *)
(* means, and no others. The pattern has a meaning, and the name is not    *)
(* empty and does not end with a slash.                                    *)
THEOREM GlobsAreMatched ==
    ASSUME NEW C, NEW text \in Seq(C), NEW P, NEW p \in Seq(P), WellFormed(p),
           text # <<>>, text[Len(text)] # Slash
    PROVE  GlobLoop(text, p) <=> MatchesGlob(text, p)
  BY GlobLoopTells, WaysAreCuts

(* A name that is not empty and does not end with a slash.                 *)
Named(C, text) == text \in Seq(C) /\ text # <<>> /\ text[Len(text)] # Slash

(* It stays so without the slash before it, and so does its last part.     *)
LEMMA WithoutSlashIsNamed ==
    ASSUME NEW C, NEW text, Named(C, text)
    PROVE  Named(C, WithoutSlash(text))
  <1> DEFINE n == Len(text)  tail == Tail(text)
  <1>1. text \in Seq(C) /\ text # <<>> /\ text[n] # Slash
    BY DEF Named
  <1>2. n \in Nat /\ n # 0 /\ DOMAIN text = 1 .. n
    BY <1>1, LenProperties, EmptySeq
  <1>3. CASE TokenAt(text, 1) = Slash
    <2>1. 1 \in 1 .. n
      <3> HIDE DEF n
      <3> QED
        BY <1>2
    <2>2. text[1] = Slash
      BY <1>2, <1>3, <2>1 DEF TokenAt
    <2>3. n # 1
      BY <1>1, <2>2
    <2>4. /\ tail \in Seq(C) /\ Len(tail) = n - 1
          /\ \A i \in 1 .. Len(tail) : tail[i] = text[i + 1]
      BY <1>1, HeadTailProperties
    <2> HIDE DEF n, tail
    <2>5. n - 1 \in 1 .. n - 1 /\ (n - 1) + 1 = n /\ n - 1 # 0
      BY <1>2, <2>3
    <2>6. tail[n - 1] = text[n]
      BY <2>4, <2>5
    <2>7. tail # <<>>
      BY <2>4, <2>5, EmptySeq
    <2>8. Named(C, tail)
      BY <1>1, <2>4, <2>6, <2>7 DEF Named
    <2> QED
      BY <1>3, <2>8 DEF WithoutSlash, tail
  <1>4. CASE TokenAt(text, 1) # Slash
    BY <1>4 DEF WithoutSlash
  <1> QED
    BY <1>3, <1>4

(* The last part of a name is a name.                                      *)
LEMMA BaseNameIsNamed ==
    ASSUME NEW C, NEW text, Named(C, text)
    PROVE  Named(C, BaseName(text))
  <1> DEFINE n == Len(text)
             S == {0} \cup {k \in DOMAIN text : text[k] = Slash}
             a == Max(S)
  <1>1. text \in Seq(C) /\ text # <<>> /\ text[n] # Slash
    BY DEF Named
  <1>2. n \in Nat /\ n # 0 /\ DOMAIN text = 1 .. n
    BY <1>1, LenProperties, EmptySeq
  <1>3. 0 \in S /\ \A k \in S : k \in 0 .. n /\ (k = 0 \/ text[k] = Slash)
    <2>1. \A k \in 1 .. n : k \in 0 .. n
      OBVIOUS
    <2>2. 0 \in 0 .. n
      <3> HIDE DEF n
      <3> QED
        BY <1>2
    <2> QED
      BY <1>2, <2>1, <2>2
  <1> HIDE DEF S
  <1>4. a \in S
    <2> DEFINE r == [k \in S |-> k]
    <2> HIDE DEF n
    <2>1. r \in [S -> 0 .. n] /\ \A k \in S : r[k] = k
      BY <1>3
    <2> HIDE DEF r
    <2>2. PICK x \in S : \A y \in S : r[y] <= r[x]
      BY <1>2, <1>3, <2>1, Greatest
    <2>3. \A y \in S : x >= y
      BY <1>3, <2>1, <2>2
    <2> QED
      BY <2>3 DEF Max
  <1> HIDE DEF a
  <1>5. a \in 0 .. n /\ a # n
    BY <1>1, <1>2, <1>3, <1>4
  <1> DEFINE piece == Slice(text, a, n)
  <1>6. /\ n \in a .. n /\ n - a \in 1 .. n - a /\ a + (n - a) = n
    <2> HIDE DEF n
    <2> QED
      BY <1>2, <1>5
  <1>7. /\ piece \in Seq(C) /\ Len(piece) = n - a
        /\ n # a => piece[n - a] = text[n]
        /\ piece = <<>> <=> n = a
    <2>1. a \in 0 .. Len(text)
      BY <1>5
    <2>2. PICK b \in a .. Len(text) : b = Len(text)
      BY <1>6
    <2>3. /\ Slice(text, a, b) \in Seq(C)
          /\ Len(Slice(text, a, b)) = b - a
          /\ b # a => Slice(text, a, b)[b - a] = text[b]
          /\ Slice(text, a, b) = <<>> <=> b = a
      BY <1>1, <2>1, PieceOf
    <2> QED
      BY <2>2, <2>3
  <1>8. Named(C, piece)
    <2> HIDE DEF piece, n
    <2> QED
      BY <1>1, <1>5, <1>7 DEF Named
  <1>9. BaseName(text) = piece
    BY DEF BaseName, Slice, a, S
  <1> QED
    BY <1>8, <1>9

(* What is behind a slash is well-formed if the whole is.                  *)
LEMMA TailIsWellFormed ==
    ASSUME NEW P, NEW p \in Seq(P), WellFormed(p), TokenAt(p, 1) = Slashes
    PROVE  Tail(p) \in Seq(P) /\ WellFormed(Tail(p))
  <1> DEFINE m == Len(p)  tail == Tail(p)
  <1>1. m \in Nat /\ DOMAIN p = 1 .. m
    BY LenProperties
  <1>2. 1 \in DOMAIN p /\ p[1] = Slashes
    BY DEF TokenAt, Slashes
  <1>3. p # <<>>
    BY <1>2
  <1>4. /\ tail \in Seq(P) /\ Len(tail) = m - 1
        /\ \A i \in 1 .. Len(tail) : tail[i] = p[i + 1]
    BY <1>3, HeadTailProperties
  <1>5. DOMAIN tail = 1 .. m - 1
    BY <1>4, LenProperties
  <1>6. /\ \A k \in DOMAIN p : p[k] = Star \/ p[k] = Slashes \/ Slash \notin p[k]
        /\ \A k \in 1 .. m - 1 :
              p[k] = Star /\ p[k + 1] = Star =>
                 (k = 1 \/ p[k - 1] = Slashes) /\ (k + 1 = m \/ p[k + 2] = Slashes)
    BY DEF WellFormed
  <1> HIDE DEF m, tail
  <1>7. ASSUME NEW k \in DOMAIN tail
        PROVE  tail[k] = Star \/ tail[k] = Slashes \/ Slash \notin tail[k]
    <2>1. k + 1 \in DOMAIN p /\ tail[k] = p[k + 1]
      BY <1>1, <1>4, <1>5
    <2> QED
      BY <1>6, <2>1
  <1>8. ASSUME NEW k \in 1 .. (m - 1) - 1, tail[k] = Star, tail[k + 1] = Star
        PROVE  /\ k = 1 \/ tail[k - 1] = Slashes
               /\ k + 1 = m - 1 \/ tail[k + 2] = Slashes
    <2> DEFINE h == k + 1
    <2>1. /\ h \in 1 .. m - 1 /\ h + 1 = k + 2 /\ h - 1 = k /\ h + 2 = k + 3 /\ h # 1
          /\ k \in 1 .. m - 1 /\ h + 1 \in 2 .. m /\ m \in Nat /\ k \in Nat
          /\ h + 1 = m <=> k + 1 = m - 1
          /\ k + 1 # m - 1 => k + 2 \in 1 .. m - 1 /\ (k + 2) + 1 = h + 2
          /\ k # 1 => k - 1 \in 1 .. m - 1 /\ (k - 1) + 1 = k
      BY <1>1
    <2>2. p[h] = Star /\ p[h + 1] = Star
      <3>1. tail[k] = p[k + 1] /\ tail[h] = p[h + 1]
        BY <1>4, <2>1
      <3> QED
        BY <1>8, <3>1
    <2> HIDE DEF h
    <2>3. p[h - 1] = Slashes /\ (h + 1 = m \/ p[h + 2] = Slashes)
      BY <1>6, <2>1, <2>2
    <2>4. k = 1 \/ tail[k - 1] = Slashes
      BY <1>4, <2>1, <2>3
    <2>5. k + 1 = m - 1 \/ tail[k + 2] = Slashes
      BY <1>4, <2>1, <2>3
    <2> QED
      BY <2>4, <2>5
  <1>9. WellFormed(tail)
    BY <1>4, <1>7, <1>8 DEF WellFormed
  <1> QED
    BY <1>4, <1>9 DEF tail

(* gitignore_glob_match() accepts the paths that the line or the pattern   *)
(* means, and no others.                                                   *)
THEOREM PathsAreMatched ==
    ASSUME NEW C, NEW text \in Seq(C), NEW P, NEW p \in Seq(P), WellFormed(p),
           text # <<>>, text[Len(text)] # Slash
    PROVE  gitignore_glob_match(text, p) <=> MatchesPath(text, p)
  <1>1. Named(C, text)
    BY DEF Named
  <1>2. ASSUME NEW name, Named(C, name), NEW q \in Seq(P), WellFormed(q)
        PROVE  GlobLoop(name, q) <=> MatchesGlob(name, q)
    BY <1>2, GlobsAreMatched DEF Named
  <1>3. ASSUME TokenAt(p, 1) = Slashes
        PROVE  GlobLoop(WithoutSlash(text), Tail(p)) <=>
                  MatchesGlob(WithoutSlash(text), Tail(p))
    BY <1>1, <1>2, <1>3, WithoutSlashIsNamed, TailIsWellFormed
  <1>4. GlobLoop(BaseName(text), p) <=> MatchesGlob(BaseName(text), p)
    BY <1>1, <1>2, BaseNameIsNamed
  <1>5. GlobLoop(text, p) <=> MatchesGlob(text, p)
    BY <1>1, <1>2
  <1> QED
    BY <1>3, <1>4, <1>5 DEF gitignore_glob_match, MatchesPath
=============================================================================
