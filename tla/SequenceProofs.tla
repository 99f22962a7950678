--------------------------- MODULE SequenceProofs ---------------------------
(***************************************************************************)
(* What the operators on sequences do that the functions of the server are *)
(* built from, for every sequence: FlattenSeq of the community modules and *)
(* Kept, Firsts and Mapped of Inputs.  The library states induction with   *)
(* an operator as a parameter; here it is induction over a set of numbers, *)
(* from the fact that a set of natural numbers has a least element.        *)
(***************************************************************************)
EXTENDS Inputs, TLAPS, WellFoundedInduction

-----------------------------------------------------------------------------
(* Numbers *)

\* The order of the natural numbers, as a relation.
Below == {ss \in Nat \X Nat : ss[1] < ss[2]}

\* No natural numbers descend for ever.
LEMMA BelowWellFounded == IsWellFoundedOn(Below, Nat)
  BY NatLessThanWellFounded DEF OpToRel, Below

\* The least element of a set of natural numbers.
LEMMA LeastOne ==
  ASSUME NEW U \in SUBSET Nat, U # {}
  PROVE  Min(U) \in U /\ \A y \in U : Min(U) <= y
  <1>1. PICK x \in U : \A y \in U : ~(<<y, x>> \in Below)
    BY BelowWellFounded, WFMin
  <1>2. ASSUME NEW y \in U
        PROVE  x <= y
    <2>1. x \in Nat /\ y \in Nat /\ <<y, x>> \in Nat \X Nat
      OBVIOUS
    <2>2. y < x => <<y, x>> \in Below
      BY <2>1 DEF Below
    <2> QED
      BY <1>1, <2>1, <2>2
  <1> QED
    BY <1>1, <1>2 DEF Min

\* Induction over the natural numbers, for a set of them.
LEMMA SetInduction ==
  ASSUME NEW T \in SUBSET Nat, 0 \in T, \A n \in T : n + 1 \in T
  PROVE  T = Nat
  <1> SUFFICES ASSUME Nat \ T # {}
               PROVE  FALSE
    OBVIOUS
  <1> DEFINE U == Nat \ T
             x == Min(U)
  <1>1. x \in U /\ \A y \in U : x <= y
    BY LeastOne
  <1> HIDE DEF x
  <1>2. x # 0 /\ x - 1 \in Nat /\ x = (x - 1) + 1
    BY <1>1
  <1>3. x - 1 \notin T
    BY <1>1, <1>2
  <1> QED
    BY <1>1, <1>2, <1>3

\* The greatest element of a bounded one.
LEMMA GreatestOne ==
  ASSUME NEW n \in Nat, NEW U \in SUBSET (0..n), U # {}
  PROVE  Max(U) \in U /\ \A y \in U : Max(U) >= y
  <1> DEFINE V == {m \in Nat : \A y \in U : y <= m}
             m == Min(V)
  <1>1. m \in V /\ \A k \in V : m <= k
    <2>1. n \in V /\ V \in SUBSET Nat
      OBVIOUS
    <2> HIDE DEF V
    <2> QED
      BY <2>1, LeastOne
  <1> HIDE DEF m
  <1>2. m \in U
    <2> SUFFICES ASSUME m \notin U
                 PROVE  FALSE
      OBVIOUS
    <2>1. m \in Nat /\ \A y \in U : y < m /\ y \in Nat
      BY <1>1
    <2>2. m # 0
      <3>1. PICK y \in U : TRUE
        OBVIOUS
      <3>2. y < m /\ y \in Nat
        BY <2>1
      <3> QED
        BY <3>2
    <2>3. m - 1 \in V
      BY <2>1, <2>2
    <2> QED
      BY <1>1, <2>1, <2>3
  <1>3. \A y \in U : m >= y
    BY <1>1
  <1> HIDE DEF V
  <1>4. \A x \in U : (\A y \in U : x >= y) => x = m
    BY <1>1, <1>2, <1>3
  <1> QED
    BY <1>2, <1>3 DEF Max

-----------------------------------------------------------------------------

\* FlattenSeq is a recursive function of the library: there is one that does what
\* it says.
Flattening(seqs, f, n) == f = [i \in 1..n |-> IF i = 1 THEN seqs[i] ELSE f[i - 1] \o seqs[i]]

\* By induction on the length.
LEMMA FlatteningExists ==
  ASSUME NEW seqs, NEW n \in Nat \ {0}
  PROVE  \E f : Flattening(seqs, f, n)
  <1> DEFINE T == {m \in Nat : \E f : Flattening(seqs, f, m + 1)}
  <1>1. 0 \in T
    <2>1. Flattening(seqs, [i \in 1..1 |-> seqs[1]], 1)
      BY DEF Flattening
    <2> QED
      BY <2>1
  <1>2. ASSUME NEW m \in T
        PROVE  m + 1 \in T
    <2>1. PICK f : Flattening(seqs, f, m + 1)
      BY <1>2
    <2> DEFINE g == [i \in 1..(m + 2) |-> IF i = m + 2 THEN f[m + 1] \o seqs[m + 2] ELSE f[i]]
    <2>2. m \in Nat
      BY <1>2
    <2> DEFINE next(h, i) == h[i - 1] \o seqs[i]
    <2>3. ASSUME NEW i \in 1..(m + 2)
          PROVE  g[i] = IF i = 1 THEN seqs[i] ELSE next(g, i)
      <3>1. CASE i = m + 2
        <4>1. m + 1 \in 1..(m + 2) /\ m + 1 # m + 2 /\ i # 1 /\ i - 1 = m + 1
          BY <2>2, <3>1
        <4>2. g[m + 1] = f[m + 1]
          BY <4>1
        <4>3. g[i] = f[i - 1] \o seqs[i]
          BY <3>1, <4>1
        <4> HIDE DEF g
        <4> QED
          BY <4>1, <4>2, <4>3, Zenon
      <3>2. CASE i # m + 2
        <4>1. i \in 1..(m + 1) /\ (i # 1 => i - 1 \in 1..(m + 2) /\ i - 1 # m + 2)
          BY <2>2, <3>2
        <4>2. g[i] = f[i] /\ (i # 1 => g[i - 1] = f[i - 1])
          BY <3>2, <4>1
        <4> HIDE DEF next, g
        <4>3. f[i] = IF i = 1 THEN seqs[i] ELSE next(f, i)
          BY <2>1, <4>1, Zenon DEF Flattening, next
        <4>4. i # 1 => next(f, i) = next(g, i)
          BY <4>2, Zenon DEF next
        <4> QED
          BY <4>2, <4>3, <4>4
      <3> QED
        BY <3>1, <3>2
    <2>4. g = [i \in 1..(m + 2) |-> IF i = 1 THEN seqs[i] ELSE next(g, i)]
      <3> HIDE DEF next
      <3> QED
        BY <2>3, Zenon
    <2>5. Flattening(seqs, g, (m + 1) + 1)
      <3>1. (m + 1) + 1 = m + 2
        BY <2>2
      <3> HIDE DEF g
      <3> QED
        BY <2>4, <3>1, Zenon DEF Flattening
    <2> HIDE DEF g
    <2> QED
      BY <2>2, <2>5
  <1>3. T \in SUBSET Nat
    OBVIOUS
  <1> HIDE DEF T
  <1>4. n - 1 \in T
    BY <1>1, <1>2, <1>3, SetInduction
  <1> QED
    BY <1>4 DEF T

\* The flattened sequence is the last value of that function.
LEMMA FlattenIsLast ==
  ASSUME NEW S, NEW seqs \in Seq(Seq(S)), Len(seqs) # 0
  PROVE  \E f : Flattening(seqs, f, Len(seqs)) /\ FlattenSeq(seqs) = f[Len(seqs)]
  <1> DEFINE f == CHOOSE g : g = [i \in 1..Len(seqs) |-> IF i = 1 THEN seqs[i] ELSE g[i - 1] \o seqs[i]]
  <1>1. FlattenSeq(seqs) = f[Len(seqs)]
    BY DEF FlattenSeq
  <1>2. \E g : g = [i \in 1..Len(seqs) |-> IF i = 1 THEN seqs[i] ELSE g[i - 1] \o seqs[i]]
    <2>1. Len(seqs) \in Nat \ {0}
      OBVIOUS
    <2> QED
      BY <2>1, FlatteningExists, Zenon DEF Flattening
  <1>3. f = [i \in 1..Len(seqs) |-> IF i = 1 THEN seqs[i] ELSE f[i - 1] \o seqs[i]]
    BY <1>2
  <1> HIDE DEF f
  <1> QED
    BY <1>1, <1>3 DEF Flattening

\* Where the places of two sequences lie in the one made of them.
LEMMA AppendPlaces ==
  ASSUME NEW S, NEW u \in Seq(S), NEW v \in Seq(S)
  PROVE  /\ u \o v \in Seq(S) /\ Len(u) \in Nat
         /\ \A k \in 1..Len(u) : k \in 1..Len(u \o v) /\ (u \o v)[k] = u[k]
         /\ \A j \in 1..Len(v) : Len(u) + j \in 1..Len(u \o v) /\ (u \o v)[Len(u) + j] = v[j]
         /\ \A k \in 1..Len(u \o v) : k \in 1..Len(u) \/ \E j \in 1..Len(v) : k = Len(u) + j
  <1>1. u \o v \in Seq(S) /\ Len(u) \in Nat /\ Len(v) \in Nat /\ Len(u \o v) = Len(u) + Len(v)
    OBVIOUS
  <1>2. ASSUME NEW k \in 1..Len(u)
        PROVE  k \in 1..Len(u \o v) /\ (u \o v)[k] = u[k]
    BY <1>1
  <1>3. ASSUME NEW j \in 1..Len(v)
        PROVE  Len(u) + j \in 1..Len(u \o v) /\ (u \o v)[Len(u) + j] = v[j]
    BY <1>1
  <1>4. ASSUME NEW k \in 1..Len(u \o v)
        PROVE  k \in 1..Len(u) \/ \E j \in 1..Len(v) : k = Len(u) + j
    <2> DEFINE a == Len(u)
               b == Len(v)
    <2>1. k \in 1..a + b /\ a \in Nat /\ b \in Nat
      BY <1>1
    <2> HIDE DEF a, b
    <2>2. k <= a => k \in 1..a
      BY <2>1
    <2>3. k > a => k - a \in 1..b /\ k = a + (k - a)
      BY <2>1
    <2>4. k \in 1..a \/ \E j \in 1..b : k = a + j
      BY <2>1, <2>2, <2>3
    <2> QED
      BY <2>4 DEF a, b
  <1> QED
    BY <1>1, <1>2, <1>3, <1>4

\* Where the pieces lie in the flattened sequence: piece i is at the places after
\* those of the pieces before it, and there is nothing else.
Laid(seqs, flat, off) ==
  /\ \A i \in 1..Len(seqs) : \A j \in 1..Len(seqs[i]) :
       off[i - 1] + j \in 1..Len(flat) /\ flat[off[i - 1] + j] = seqs[i][j]
  /\ \A k \in 1..Len(flat) : \E i \in 1..Len(seqs) : \E j \in 1..Len(seqs[i]) : k = off[i - 1] + j

\* That is so for every sequence of sequences.
LEMMA FlattenPieces ==
  ASSUME NEW S, NEW seqs \in Seq(Seq(S))
  PROVE  FlattenSeq(seqs) \in Seq(S) /\ \E off : Laid(seqs, FlattenSeq(seqs), off)
  <1>1. CASE Len(seqs) = 0
    <2>1. FlattenSeq(seqs) = seqs /\ seqs = <<>>
      BY <1>1 DEF FlattenSeq
    <2>2. FlattenSeq(seqs) \in Seq(S) /\ Len(FlattenSeq(seqs)) = 0
      BY <2>1
    <2>3. \A x : x \notin 1..Len(seqs) /\ x \notin 1..Len(FlattenSeq(seqs))
      BY <1>1, <2>2
    <2> QED
      BY <2>2, <2>3, Zenon DEF Laid
  <1>2. CASE Len(seqs) # 0
    <2> DEFINE N == Len(seqs)
    <2>1. N \in Nat \ {0} /\ \A i \in 1..N : seqs[i] \in Seq(S)
      BY <1>2
    <2>2. PICK f : Flattening(seqs, f, N) /\ FlattenSeq(seqs) = f[N]
      BY <1>2, FlattenIsLast
    <2> DEFINE off == [n \in 0..N |-> IF n = 0 THEN 0 ELSE Len(f[n])]
               Right(n) == /\ f[n] \in Seq(S)
                           /\ \A i \in 1..n : \A j \in 1..Len(seqs[i]) :
                                off[i - 1] + j \in 1..Len(f[n]) /\ f[n][off[i - 1] + j] = seqs[i][j]
                           /\ \A k \in 1..Len(f[n]) : \E i \in 1..n : \E j \in 1..Len(seqs[i]) : k = off[i - 1] + j
               T == {m \in Nat : \A n \in 1..m + 1 : n <= N => Right(n)}
    <2> HIDE DEF N
    <2>3. f[1] = seqs[1] /\ \A n \in 2..N : f[n] = f[n - 1] \o seqs[n]
      <3>1. f = [i \in 1..N |-> IF i = 1 THEN seqs[i] ELSE f[i - 1] \o seqs[i]]
        BY <2>2 DEF Flattening
      <3>2. 1 \in 1..N /\ \A n \in 2..N : n \in 1..N /\ n # 1
        BY <2>1
      <3>3. f[1] = seqs[1]
        BY <3>1, <3>2, Zenon
      <3>4. ASSUME NEW n \in 2..N
            PROVE  f[n] = f[n - 1] \o seqs[n]
        BY <3>1, <3>2, Zenon
      <3> QED
        BY <3>3, <3>4
    <2>4. Right(1)
      <3>1. off[0] = 0 /\ f[1] \in Seq(S) /\ 1 \in 1..1 /\ \A i \in 1..1 : i = 1
        BY <2>1, <2>3
      <3> HIDE DEF off
      <3>2. ASSUME NEW i \in 1..1, NEW j \in 1..Len(seqs[i])
            PROVE  off[i - 1] + j \in 1..Len(f[1]) /\ f[1][off[i - 1] + j] = seqs[i][j]
        BY <2>3, <3>1
      <3>3. ASSUME NEW k \in 1..Len(f[1])
            PROVE  k \in 1..Len(seqs[1]) /\ k = off[1 - 1] + k
        BY <2>3, <3>1
      <3> QED
        BY <3>1, <3>2, <3>3
    <2>5. ASSUME NEW n \in 1..N, n + 1 <= N, Right(n)
          PROVE  Right(n + 1)
      <3>1. n + 1 \in 2..N /\ n \in 0..N /\ n # 0 /\ (n + 1) - 1 = n /\ n + 1 \in 1..N
        BY <2>1, <2>5
      <3>2. f[n + 1] = f[n] \o seqs[n + 1] /\ off[n] = Len(f[n])
        BY <2>3, <3>1
      <3> HIDE DEF off
      <3>3. f[n] \in Seq(S) /\ seqs[n + 1] \in Seq(S)
        BY <2>1, <2>5, <3>1
      <3>4. /\ f[n + 1] \in Seq(S) /\ Len(f[n]) \in Nat
            /\ \A k \in 1..Len(f[n]) : k \in 1..Len(f[n + 1]) /\ f[n + 1][k] = f[n][k]
            /\ \A j \in 1..Len(seqs[n + 1]) :
                 Len(f[n]) + j \in 1..Len(f[n + 1]) /\ f[n + 1][Len(f[n]) + j] = seqs[n + 1][j]
            /\ \A k \in 1..Len(f[n + 1]) :
                 k \in 1..Len(f[n]) \/ \E j \in 1..Len(seqs[n + 1]) : k = Len(f[n]) + j
        <4> DEFINE u == f[n]
                   v == seqs[n + 1]
        <4>1. u \in Seq(S) /\ v \in Seq(S) /\ f[n + 1] = u \o v
          BY <3>2, <3>3
        <4> HIDE DEF u, v
        <4>2. /\ u \o v \in Seq(S) /\ Len(u) \in Nat
              /\ \A k \in 1..Len(u) : k \in 1..Len(u \o v) /\ (u \o v)[k] = u[k]
              /\ \A j \in 1..Len(v) : Len(u) + j \in 1..Len(u \o v) /\ (u \o v)[Len(u) + j] = v[j]
              /\ \A k \in 1..Len(u \o v) : k \in 1..Len(u) \/ \E j \in 1..Len(v) : k = Len(u) + j
          BY <4>1, AppendPlaces
        <4> QED
          BY <4>1, <4>2, Zenon DEF u, v
      <3>5. \A i \in 1..n + 1 : i = n + 1 \/ i \in 1..n
        BY <3>1
      <3>6. \A i \in 1..n : i \in 1..n + 1
        BY <3>1
      <3>7. n + 1 \in 1..n + 1
        BY <3>1
      <3>8. ASSUME NEW i \in 1..n + 1, NEW j \in 1..Len(seqs[i])
            PROVE  off[i - 1] + j \in 1..Len(f[n + 1]) /\ f[n + 1][off[i - 1] + j] = seqs[i][j]
        <4>1. CASE i = n + 1
          BY <3>1, <3>2, <3>4, <4>1, Zenon
        <4>2. CASE i \in 1..n
          <5>1. off[i - 1] + j \in 1..Len(f[n]) /\ f[n][off[i - 1] + j] = seqs[i][j]
            BY <2>5, <4>2, Zenon
          <5> QED
            BY <3>4, <5>1, Zenon
        <4> QED
          BY <3>5, <4>1, <4>2
      <3>9. ASSUME NEW k \in 1..Len(f[n + 1])
            PROVE  \E i \in 1..n + 1 : \E j \in 1..Len(seqs[i]) : k = off[i - 1] + j
        <4>1. CASE k \in 1..Len(f[n])
          <5>1. PICK i \in 1..n : \E j \in 1..Len(seqs[i]) : k = off[i - 1] + j
            BY <2>5, <4>1, Zenon
          <5> QED
            BY <3>6, <5>1, Zenon
        <4>2. CASE \E j \in 1..Len(seqs[n + 1]) : k = Len(f[n]) + j
          BY <3>1, <3>2, <3>7, <4>2, Zenon
        <4> QED
          BY <3>4, <4>1, <4>2
      <3> QED
        BY <3>4, <3>8, <3>9
    <2> HIDE DEF Right
    <2>6. N - 1 \in T
      <3>1. 0 \in T
        BY <2>4
      <3>2. ASSUME NEW m \in T
            PROVE  m + 1 \in T
        <4>1. m \in Nat /\ \A n \in 1..m + 1 : n <= N => Right(n)
          OBVIOUS
        <4>2. ASSUME NEW n \in 1..m + 2, n <= N
              PROVE  Right(n)
          <5>1. CASE n \in 1..m + 1
            BY <4>1, <4>2, <5>1
          <5>2. CASE n = m + 2
            <6>1. m + 1 \in 1..m + 1 /\ m + 1 <= N /\ m + 1 \in 1..N /\ (m + 1) + 1 = n
              BY <2>1, <4>1, <4>2, <5>2
            <6> QED
              BY <2>5, <4>1, <4>2, <6>1
          <5> QED
            BY <4>1, <5>1, <5>2
        <4> QED
          BY <4>1, <4>2
      <3>3. T \in SUBSET Nat
        OBVIOUS
      <3> HIDE DEF T
      <3>4. T = Nat
        BY <3>1, <3>2, <3>3, SetInduction
      <3> QED
        BY <2>1, <3>4
    <2>7. Right(N)
      BY <2>1, <2>6
    <2> HIDE DEF off
    <2>8. /\ f[N] \in Seq(S)
          /\ \A i \in 1..N : \A j \in 1..Len(seqs[i]) :
               off[i - 1] + j \in 1..Len(f[N]) /\ f[N][off[i - 1] + j] = seqs[i][j]
          /\ \A k \in 1..Len(f[N]) : \E i \in 1..N : \E j \in 1..Len(seqs[i]) : k = off[i - 1] + j
      BY <2>7, Zenon DEF Right
    <2>9. Laid(seqs, f[N], off)
      BY <2>8, Zenon DEF Laid, N
    <2> QED
      BY <2>2, <2>8, <2>9, Zenon
  <1> QED
    BY <1>1, <1>2

\* The elements of a sequence, by their places.
LEMMA RangeByPlace ==
  ASSUME NEW S, NEW s \in Seq(S)
  PROVE  /\ DOMAIN s = 1..Len(s) /\ Len(s) \in Nat
         /\ \A i \in 1..Len(s) : s[i] \in S
         /\ \A x : x \in ToSet(s) <=> \E i \in 1..Len(s) : x = s[i]
  <1>1. DOMAIN s = 1..Len(s) /\ Len(s) \in Nat /\ \A i \in 1..Len(s) : s[i] \in S
    OBVIOUS
  <1>2. ASSUME NEW x
        PROVE  x \in ToSet(s) <=> \E i \in 1..Len(s) : x = s[i]
    <2>1. x \in {s[i] : i \in DOMAIN s} <=> \E i \in DOMAIN s : x = s[i]
      BY Zenon
    <2> QED
      BY <1>1, <2>1, Zenon DEF ToSet
  <1> QED
    BY <1>1, <1>2

\* A sequence of one element, and of none.
LEMMA OneOrNone ==
  /\ \A S : \A x \in S : <<x>> \in Seq(S)
  /\ \A x : Len(<<x>>) = 1 /\ <<x>>[1] = x /\ ToSet(<<x>>) = {x}
  /\ Len(<<>>) = 0 /\ ToSet(<<>>) = {} /\ \A S : <<>> \in Seq(S)
  BY DEF ToSet

\* The elements of a flattened sequence are those of the pieces.
LEMMA FlattenRange ==
  ASSUME NEW S, NEW seqs \in Seq(Seq(S))
  PROVE  /\ FlattenSeq(seqs) \in Seq(S)
         /\ \A x : x \in ToSet(FlattenSeq(seqs)) <=> \E i \in 1..Len(seqs) : x \in ToSet(seqs[i])
  <1> DEFINE flat == FlattenSeq(seqs)
  <1>1. flat \in Seq(S) /\ \E off : Laid(seqs, flat, off)
    BY FlattenPieces
  <1> HIDE DEF flat
  <1>0. PICK off : Laid(seqs, flat, off)
    BY <1>1
  <1>2. /\ \A x : x \in ToSet(flat) <=> \E k \in 1..Len(flat) : x = flat[k]
        /\ \A i \in 1..Len(seqs) : \A x : x \in ToSet(seqs[i]) <=> \E j \in 1..Len(seqs[i]) : x = seqs[i][j]
    <2>1. \A i \in 1..Len(seqs) : seqs[i] \in Seq(S)
      BY RangeByPlace
    <2> QED
      BY <1>1, <2>1, RangeByPlace
  <1>3. ASSUME NEW x, NEW k \in 1..Len(flat), x = flat[k]
        PROVE  \E i \in 1..Len(seqs) : \E j \in 1..Len(seqs[i]) : x = seqs[i][j]
    <2>1. PICK i \in 1..Len(seqs) : \E j \in 1..Len(seqs[i]) : k = off[i - 1] + j
      BY <1>0, Zenon DEF Laid
    <2>2. PICK j \in 1..Len(seqs[i]) : k = off[i - 1] + j
      BY <2>1, Zenon
    <2>3. flat[k] = seqs[i][j]
      BY <1>0, <2>2, Zenon DEF Laid
    <2> QED
      BY <1>3, <2>3, Zenon
  <1>4. ASSUME NEW x, NEW i \in 1..Len(seqs), NEW j \in 1..Len(seqs[i]), x = seqs[i][j]
        PROVE  \E k \in 1..Len(flat) : x = flat[k]
    BY <1>0, <1>4, Zenon DEF Laid
  <1>5. ASSUME NEW x
        PROVE  x \in ToSet(flat) <=> \E i \in 1..Len(seqs) : x \in ToSet(seqs[i])
    <2>1. ASSUME x \in ToSet(flat)
          PROVE  \E i \in 1..Len(seqs) : x \in ToSet(seqs[i])
      <3>1. PICK k \in 1..Len(flat) : x = flat[k]
        BY <1>2, <2>1, Zenon
      <3> QED
        BY <1>2, <1>3, <3>1, Zenon
    <2>2. ASSUME NEW i \in 1..Len(seqs), x \in ToSet(seqs[i])
          PROVE  x \in ToSet(flat)
      <3>1. PICK j \in 1..Len(seqs[i]) : x = seqs[i][j]
        <4>1. seqs[i] \in Seq(S)
          BY RangeByPlace
        <4> QED
          BY <2>2, <4>1, RangeByPlace
      <3> QED
        BY <1>2, <1>4, <3>1, Zenon
    <2> QED
      BY <2>1, <2>2
  <1> QED
    BY <1>1, <1>5 DEF flat

\* Pieces without repetition, no two of which share an element, have none when
\* they are flattened.  `key` tells what counts as the same element.
LEMMA FlattenOnce ==
  ASSUME NEW S, NEW seqs \in Seq(Seq(S)), NEW key,
         \A i \in 1..Len(seqs) : \A a, b \in 1..Len(seqs[i]) : key[seqs[i][a]] = key[seqs[i][b]] => a = b,
         \A i, j \in 1..Len(seqs) : \A a \in 1..Len(seqs[i]) : \A b \in 1..Len(seqs[j]) :
           key[seqs[i][a]] = key[seqs[j][b]] => i = j
  PROVE  \A k, l \in 1..Len(FlattenSeq(seqs)) : key[FlattenSeq(seqs)[k]] = key[FlattenSeq(seqs)[l]] => k = l
  <1> DEFINE flat == FlattenSeq(seqs)
  <1>1. flat \in Seq(S) /\ \E off : Laid(seqs, flat, off)
    BY FlattenPieces
  <1> HIDE DEF flat
  <1>0. PICK off : Laid(seqs, flat, off)
    BY <1>1
  <1>2. SUFFICES ASSUME NEW k \in 1..Len(flat), NEW l \in 1..Len(flat), key[flat[k]] = key[flat[l]]
                 PROVE  k = l
    BY DEF flat
  <1>3. PICK i \in 1..Len(seqs) : \E a \in 1..Len(seqs[i]) : k = off[i - 1] + a
    BY <1>0, Zenon DEF Laid
  <1>4. PICK a \in 1..Len(seqs[i]) : k = off[i - 1] + a
    BY <1>3, Zenon
  <1>5. PICK j \in 1..Len(seqs) : \E b \in 1..Len(seqs[j]) : l = off[j - 1] + b
    BY <1>0, Zenon DEF Laid
  <1>6. PICK b \in 1..Len(seqs[j]) : l = off[j - 1] + b
    BY <1>5, Zenon
  <1>7. flat[k] = seqs[i][a] /\ flat[l] = seqs[j][b]
    BY <1>0, <1>4, <1>6, Zenon DEF Laid
  <1>8. i = j
    <2>1. key[seqs[i][a]] = key[seqs[j][b]]
      BY <1>2, <1>7
    <2> QED
      BY <2>1
  <1>9. a = b
    <2>1. b \in 1..Len(seqs[i]) /\ flat[l] = seqs[i][b]
      BY <1>7, <1>8, Zenon
    <2> QED
      BY <1>2, <1>7, <2>1, Zenon
  <1> QED
    BY <1>4, <1>6, <1>8, <1>9, Zenon

\* Kept for the elements of P, Firsts for the values of the function key, and
\* Mapped for a function f, kept where its value is in R.
Passing(s, P) == FlattenSeq([i \in DOMAIN s |-> IF s[i] \in P THEN <<s[i]>> ELSE <<>>])
FirstsBy(s, key) ==
  FlattenSeq([i \in DOMAIN s |-> IF \E j \in 1..i - 1 : key[s[j]] = key[s[i]] THEN <<>> ELSE <<s[i]>>])
Images(s, f, R) == Passing([i \in DOMAIN s |-> f[s[i]]], R)

\* What passes a test: those elements and no others, without repetition if there
\* was none.
LEMMA KeptFacts ==
  ASSUME NEW S, NEW s \in Seq(S), NEW P
  PROVE  LET kept == Passing(s, P) IN
         /\ kept \in Seq(S)
         /\ \A x : x \in ToSet(kept) <=> x \in ToSet(s) /\ x \in P
         /\ (\A i, j \in 1..Len(s) : s[i] = s[j] /\ s[i] \in P => i = j)
              => \A a, b \in 1..Len(kept) : kept[a] = kept[b] => a = b
  <1> DEFINE pieces == [i \in DOMAIN s |-> IF s[i] \in P THEN <<s[i]>> ELSE <<>>]
  <1>1. DOMAIN s = 1..Len(s) /\ Len(s) \in Nat /\ \A i \in 1..Len(s) : s[i] \in S
    OBVIOUS
  <1>2. pieces \in Seq(Seq(S)) /\ Len(pieces) = Len(s)
    BY <1>1
  <1>3. \A i \in 1..Len(s) : pieces[i] = IF s[i] \in P THEN <<s[i]>> ELSE <<>>
    BY <1>1
  <1> HIDE DEF pieces
  <1>4. ASSUME NEW i \in 1..Len(s)
        PROVE  /\ \A x : x \in ToSet(pieces[i]) <=> x \in P /\ x = s[i]
               /\ \A a \in 1..Len(pieces[i]) : a = 1 /\ pieces[i][a] = s[i] /\ s[i] \in P
    <2>1. CASE s[i] \in P
      <3>1. pieces[i] = <<s[i]>>
        BY <1>3, <2>1
      <3> HIDE DEF pieces
      <3>2. Len(pieces[i]) = 1 /\ pieces[i][1] = s[i] /\ ToSet(pieces[i]) = {s[i]}
        BY <3>1, OneOrNone, Zenon
      <3> QED
        BY <2>1, <3>2
    <2>2. CASE s[i] \notin P
      <3>1. pieces[i] = <<>>
        BY <1>3, <2>2
      <3>2. Len(pieces[i]) = 0 /\ ToSet(pieces[i]) = {}
        BY <3>1, OneOrNone, Zenon
      <3> QED
        BY <2>2, <3>2
    <2> QED
      BY <2>1, <2>2
  <1>5. FlattenSeq(pieces) \in Seq(S)
        /\ \A x : x \in ToSet(FlattenSeq(pieces)) <=> \E i \in 1..Len(pieces) : x \in ToSet(pieces[i])
    BY <1>2, FlattenRange
  <1>6. \A x : x \in ToSet(s) <=> \E i \in 1..Len(s) : x = s[i]
    BY RangeByPlace
  <1>7. \A x : x \in ToSet(FlattenSeq(pieces)) <=> x \in ToSet(s) /\ x \in P
    <2>1. 1..Len(pieces) = 1..Len(s)
      BY <1>2
    <2>2. \A x : x \in ToSet(FlattenSeq(pieces)) <=> \E i \in 1..Len(s) : x \in P /\ x = s[i]
      BY <1>4, <1>5, <2>1, Zenon
    <2> QED
      BY <1>6, <2>2, Zenon
  <1>8. ASSUME \A i, j \in 1..Len(s) : s[i] = s[j] /\ s[i] \in P => i = j
        PROVE  \A a, b \in 1..Len(FlattenSeq(pieces)) : FlattenSeq(pieces)[a] = FlattenSeq(pieces)[b] => a = b
    <2> DEFINE key == [x \in S |-> x]
               flat == FlattenSeq(pieces)
    <2>1. \A x \in S : key[x] = x
      OBVIOUS
    <2> HIDE DEF key
    <2>2. \A i \in 1..Len(pieces) : \A a, b \in 1..Len(pieces[i]) : key[pieces[i][a]] = key[pieces[i][b]] => a = b
      <3> SUFFICES ASSUME NEW i \in 1..Len(pieces), NEW a \in 1..Len(pieces[i]), NEW b \in 1..Len(pieces[i])
                   PROVE  a = b
        OBVIOUS
      <3>1. i \in 1..Len(s)
        BY <1>2
      <3> QED
        BY <1>4, <3>1, Zenon
    <2>3. \A i, j \in 1..Len(pieces) : \A a \in 1..Len(pieces[i]) : \A b \in 1..Len(pieces[j]) :
            key[pieces[i][a]] = key[pieces[j][b]] => i = j
      <3> SUFFICES ASSUME NEW i \in 1..Len(pieces), NEW j \in 1..Len(pieces),
                          NEW a \in 1..Len(pieces[i]), NEW b \in 1..Len(pieces[j]),
                          key[pieces[i][a]] = key[pieces[j][b]]
                   PROVE  i = j
        OBVIOUS
      <3>1. i \in 1..Len(s) /\ j \in 1..Len(s)
        BY <1>2
      <3>2. pieces[i][a] = s[i] /\ pieces[j][b] = s[j] /\ s[i] \in S /\ s[j] \in S /\ s[i] \in P
        BY <1>1, <1>4, <3>1, Zenon
      <3>3. s[i] = s[j]
        BY <2>1, <3>2
      <3> QED
        BY <1>8, <3>1, <3>2, <3>3, Zenon
    <2>4. \A k, l \in 1..Len(flat) : key[flat[k]] = key[flat[l]] => k = l
      BY <1>2, <2>2, <2>3, FlattenOnce
    <2>5. \A k \in 1..Len(flat) : flat[k] \in S
      BY <1>5, RangeByPlace
    <2> HIDE DEF flat
    <2>6. \A k, l \in 1..Len(flat) : flat[k] = flat[l] => k = l
      BY <2>1, <2>4, <2>5
    <2> QED
      BY <2>6 DEF flat
  <1> QED
    BY <1>5, <1>7, <1>8 DEF pieces, Passing

\* The first element of every key: one of each, and no others than there were.
LEMMA FirstsFacts ==
  ASSUME NEW S, NEW s \in Seq(S), NEW key
  PROVE  LET first == FirstsBy(s, key) IN
         /\ first \in Seq(S)
         /\ \A x \in ToSet(first) : x \in ToSet(s)
         /\ \A x \in ToSet(s) : \E y \in ToSet(first) : key[y] = key[x]
         /\ \A a, b \in 1..Len(first) : key[first[a]] = key[first[b]] => a = b
  <1> DEFINE Later(i) == \E j \in 1..i - 1 : key[s[j]] = key[s[i]]
             pieces == [i \in DOMAIN s |-> IF Later(i) THEN <<>> ELSE <<s[i]>>]
             first == FlattenSeq(pieces)
  <1>1. /\ DOMAIN s = 1..Len(s) /\ Len(s) \in Nat /\ \A i \in 1..Len(s) : s[i] \in S
        /\ \A x : x \in ToSet(s) <=> \E i \in 1..Len(s) : x = s[i]
    BY RangeByPlace
  <1> HIDE DEF Later
  <1>2. pieces \in Seq(Seq(S)) /\ Len(pieces) = Len(s)
    BY <1>1
  <1>3. \A i \in 1..Len(s) : pieces[i] = IF Later(i) THEN <<>> ELSE <<s[i]>>
    BY <1>1
  <1> HIDE DEF pieces
  <1>4. ASSUME NEW i \in 1..Len(s)
        PROVE  /\ \A x : x \in ToSet(pieces[i]) <=> ~Later(i) /\ x = s[i]
               /\ \A a \in 1..Len(pieces[i]) : a = 1 /\ pieces[i][a] = s[i] /\ ~Later(i)
    <2>1. CASE Later(i)
      <3>1. pieces[i] = <<>>
        BY <1>3, <2>1
      <3>2. Len(pieces[i]) = 0 /\ ToSet(pieces[i]) = {}
        BY <3>1, OneOrNone, Zenon
      <3> QED
        BY <2>1, <3>2
    <2>2. CASE ~Later(i)
      <3>1. pieces[i] = <<s[i]>>
        BY <1>3, <2>2
      <3>2. Len(pieces[i]) = 1 /\ pieces[i][1] = s[i] /\ ToSet(pieces[i]) = {s[i]}
        BY <3>1, OneOrNone, Zenon
      <3> QED
        BY <2>2, <3>2
    <2> QED
      BY <2>1, <2>2
  <1>5. first \in Seq(S) /\ \A x : x \in ToSet(first) <=> \E i \in 1..Len(pieces) : x \in ToSet(pieces[i])
    BY <1>2, FlattenRange
  <1>6. \A k, l \in 1..Len(first) : key[first[k]] = key[first[l]] => k = l
    <2>1. \A i \in 1..Len(pieces) : \A a, b \in 1..Len(pieces[i]) : key[pieces[i][a]] = key[pieces[i][b]] => a = b
      <3> SUFFICES ASSUME NEW i \in 1..Len(pieces), NEW a \in 1..Len(pieces[i]), NEW b \in 1..Len(pieces[i])
                   PROVE  a = b
        OBVIOUS
      <3>1. i \in 1..Len(s)
        BY <1>2
      <3> QED
        BY <1>4, <3>1, Zenon
    <2>2. \A i, j \in 1..Len(pieces) : \A a \in 1..Len(pieces[i]) : \A b \in 1..Len(pieces[j]) :
            key[pieces[i][a]] = key[pieces[j][b]] => i = j
      <3> SUFFICES ASSUME NEW i \in 1..Len(pieces), NEW j \in 1..Len(pieces),
                          NEW a \in 1..Len(pieces[i]), NEW b \in 1..Len(pieces[j]),
                          key[pieces[i][a]] = key[pieces[j][b]]
                   PROVE  i = j
        OBVIOUS
      <3>1. i \in 1..Len(s) /\ j \in 1..Len(s)
        BY <1>2
      <3>2. pieces[i][a] = s[i] /\ pieces[j][b] = s[j] /\ ~Later(i) /\ ~Later(j)
        BY <1>4, <3>1, Zenon
      <3>3. key[s[i]] = key[s[j]]
        BY <3>2
      <3>4. i < j => i \in 1..j - 1
        BY <3>1
      <3>5. j < i => j \in 1..i - 1
        BY <3>1
      <3> QED
        BY <3>1, <3>2, <3>3, <3>4, <3>5 DEF Later
    <2> QED
      BY <1>2, <2>1, <2>2, FlattenOnce DEF first
  <1> HIDE DEF first
  <1>7. ASSUME NEW x \in ToSet(first)
        PROVE  x \in ToSet(s)
    <2>1. PICK i \in 1..Len(pieces) : x \in ToSet(pieces[i])
      BY <1>5
    <2>2. i \in 1..Len(s)
      BY <1>2
    <2> QED
      BY <1>1, <1>4, <2>1, <2>2
  <1>8. ASSUME NEW x \in ToSet(s)
        PROVE  \E y \in ToSet(first) : key[y] = key[x]
    <2>1. PICK i \in 1..Len(s) : x = s[i]
      BY <1>1
    <2> DEFINE U == {j \in 1..Len(s) : key[s[j]] = key[x]}
               m == Min(U)
    <2>2. U \in SUBSET Nat /\ U # {}
      BY <2>1
    <2>3. m \in U /\ \A y \in U : m <= y
      <3> HIDE DEF U
      <3> QED
        BY <2>2, LeastOne
    <2> HIDE DEF m
    <2>4. m \in 1..Len(s) /\ key[s[m]] = key[x]
      BY <2>3
    <2>5. ~Later(m)
      <3> SUFFICES ASSUME NEW j \in 1..m - 1, key[s[j]] = key[s[m]]
                   PROVE  FALSE
        BY DEF Later
      <3>1. j \in 1..Len(s) /\ j < m
        BY <1>1, <2>4
      <3>2. j \in U
        BY <2>4, <3>1
      <3> QED
        BY <2>3, <2>4, <3>1, <3>2
    <2>6. s[m] \in ToSet(pieces[m]) /\ m \in 1..Len(pieces)
      BY <1>2, <1>4, <2>4, <2>5
    <2>7. s[m] \in ToSet(first)
      BY <1>5, <2>6
    <2> QED
      BY <2>4, <2>7
  <1> QED
    BY <1>5, <1>6, <1>7, <1>8 DEF first, pieces, Later, FirstsBy

\* A sequence over V is the values of f for the elements of s, kept where they are
\* in R, and without repetition if those elements have different values.
AreImages(out, s, f, R, V) ==
  /\ out \in Seq(V)
  /\ \A y : y \in ToSet(out) <=> y \in R /\ \E x \in ToSet(s) : y = f[x]
  /\ (\A i, j \in 1..Len(s) : f[s[i]] = f[s[j]] /\ f[s[i]] \in R => i = j)
       => \A a, b \in 1..Len(out) : out[a] = out[b] => a = b

\* The values of f for the elements that have one.
LEMMA MappedFacts ==
  ASSUME NEW S, NEW s \in Seq(S), NEW V, NEW f, \A x \in S : f[x] \in V, NEW R
  PROVE  AreImages(Images(s, f, R), s, f, R, V)
  <1> DEFINE m == [i \in DOMAIN s |-> f[s[i]]]
             out == Passing(m, R)
  <1>1. /\ DOMAIN s = 1..Len(s) /\ Len(s) \in Nat /\ \A i \in 1..Len(s) : s[i] \in S
        /\ \A x : x \in ToSet(s) <=> \E i \in 1..Len(s) : x = s[i]
    BY RangeByPlace
  <1>2. m \in Seq(V) /\ Len(m) = Len(s) /\ DOMAIN m = 1..Len(s)
    BY <1>1
  <1>3. \A i \in 1..Len(s) : m[i] = f[s[i]]
    BY <1>1
  <1> HIDE DEF m
  <1>6. /\ out \in Seq(V)
        /\ \A y : y \in ToSet(out) <=> y \in ToSet(m) /\ y \in R
        /\ (\A i, j \in 1..Len(m) : m[i] = m[j] /\ m[i] \in R => i = j)
             => \A a, b \in 1..Len(out) : out[a] = out[b] => a = b
    BY <1>2, KeptFacts
  <1>7. \A y : y \in ToSet(m) <=> \E i \in 1..Len(s) : y = f[s[i]]
    <2>1. \A y : y \in ToSet(m) <=> \E i \in 1..Len(m) : y = m[i]
      BY <1>2, RangeByPlace
    <2> QED
      BY <1>2, <1>3, <2>1
  <1> HIDE DEF out
  <1>9. \A y : y \in ToSet(out) <=> y \in R /\ \E x \in ToSet(s) : y = f[x]
    BY <1>1, <1>6, <1>7
  <1>10. (\A i, j \in 1..Len(s) : f[s[i]] = f[s[j]] /\ f[s[i]] \in R => i = j)
           => \A a, b \in 1..Len(out) : out[a] = out[b] => a = b
    BY <1>2, <1>3, <1>6
  <1> QED
    BY <1>6, <1>9, <1>10 DEF out, m, Images, AreImages
=============================================================================
