------------------------- MODULE FortranFileProofs -------------------------
(* What the passes make of any files of the form the sources have.  Every  *)
(* pass but the pointwise ones concatenates what it makes of each line, so *)
(* the proofs rest on one fact about concatenation, that it keeps the      *)
(* order of the pieces, and follow the lines that open and close           *)
(* procedures and prototypes through all passes.                           *)
EXTENDS FortranFile, FiniteSetTheorems, SequenceTheorems, WellFoundedInduction, TLAPS

LEMMA LeastOf ==
  ASSUME NEW T \in SUBSET Nat, T # {}
  PROVE  \E m \in T : \A n \in T : m <= n
<1> DEFINE R == {ss \in Nat \X Nat : ss[1] < ss[2]}
<1>1. IsWellFoundedOn(R, Nat)
  BY NatLessThanWellFounded, Zenon DEF OpToRel
<1>2. \E x \in T : \A y \in T : ~ (<<y, x>> \in R)
  <2> HIDE DEF R
  <2> QED BY <1>1, WFMin, Zenon
<1>3. PICK m \in T : \A y \in T : ~ (<<y, m>> \in R)
  BY <1>2
<1>4. \A y \in T : ~ (y < m)
  BY <1>3
<1> QED BY <1>4

-----------------------------------------------------------------------------
(* Concatenation.                                                          *)

PrefixConcats(s) ==
  CHOOSE g : g = [i \in 1 .. Len(s) |-> IF i = 1 THEN s[i] ELSE g[i - 1] \o s[i]]

LEMMA FlattenByPrefixConcats ==
  ASSUME NEW s
  PROVE  FlattenSeq(s) = IF Len(s) = 0 THEN s ELSE PrefixConcats(s)[Len(s)]
BY Zenon DEF FlattenSeq, PrefixConcats

\* The equation that defines the prefixes has a solution: one for the first
\* n pieces gives one for n + 1.
LEMMA PrefixConcatsExist ==
  ASSUME NEW S, NEW s \in Seq(Seq(S))
  PROVE  \A i \in 1 .. Len(s) :
           /\ PrefixConcats(s)[i] \in Seq(S)
           /\ PrefixConcats(s)[i] = IF i = 1 THEN s[i] ELSE PrefixConcats(s)[i - 1] \o s[i]
<1> DEFINE N         == Len(s)
           Val(g, i) == IF i = 1 THEN s[i] ELSE g[i - 1] \o s[i]
           UpTo(g, n) == \A i \in 1 .. N : i <= n => g[i] \in Seq(S) /\ g[i] = Val(g, i)
           T         == {n \in Nat : ~ \E g : UpTo(g, n)}
<1>1. N \in Nat /\ \A i \in 1 .. N : s[i] \in Seq(S)
  OBVIOUS
<1> HIDE DEF N
<1>2. T = {}
  <2>1. SUFFICES ASSUME T # {} PROVE FALSE
    OBVIOUS
  <2>2. PICK m \in T : \A n \in T : m <= n
    <3>1. T \in SUBSET Nat
      OBVIOUS
    <3> HIDE DEF T
    <3> QED BY <2>1, <3>1, LeastOf
  <2>3. m \in Nat /\ ~ \E g : UpTo(g, m)
    OBVIOUS
  <2>4. CASE m = 0
    <3>1. UpTo(s, 0)
      BY <1>1
    <3> QED BY <3>1, <2>3, <2>4
  <2>5. CASE m # 0
    <3>1. m - 1 \in Nat /\ m - 1 \notin T
      <4>1. m - 1 \in Nat /\ ~ (m <= m - 1)
        BY <2>3, <2>5
      <4> HIDE DEF T
      <4> QED BY <2>2, <4>1
    <3>2. PICK g : UpTo(g, m - 1)
      BY <3>1
    <3> DEFINE h == [i \in 1 .. N |-> IF i < m THEN g[i] ELSE Val(g, i)]
    <3>3. ASSUME NEW i \in 1 .. N, i <= m PROVE h[i] \in Seq(S) /\ h[i] = Val(h, i)
      <4>1. CASE i = 1
        <5>1. h[i] = s[i]
          <6>1. i < m => g[i] = s[i]
            BY <3>2, <4>1, <2>3
          <6> QED BY <6>1, <4>1
        <5> QED BY <5>1, <4>1, <1>1
      <4>2. CASE i # 1
        <5>1. i - 1 \in 1 .. N /\ i - 1 < m /\ i - 1 <= m - 1
          BY <4>2, <3>3, <2>3, <1>1
        <5>2. h[i - 1] = g[i - 1] /\ g[i - 1] \in Seq(S)
          BY <5>1, <3>2
        <5>3. h[i] = g[i - 1] \o s[i]
          <6>1. CASE i < m
            <7>1. i <= m - 1
              BY <6>1, <2>3, <1>1
            <7>2. g[i] = Val(g, i)
              BY <7>1, <3>2
            <7> QED BY <7>2, <6>1, <4>2
          <6>2. CASE ~(i < m)
            BY <6>2, <4>2
          <6> QED BY <6>1, <6>2
        <5>4. s[i] \in Seq(S)
          BY <1>1
        <5>5. g[i - 1] \o s[i] \in Seq(S)
          BY <5>2, <5>4
        <5> HIDE DEF h
        <5> QED BY <5>2, <5>3, <5>5, <4>2
      <4> QED BY <4>1, <4>2
    <3>4. UpTo(h, m)
      <4> HIDE DEF h
      <4> QED BY <3>3
    <3> QED BY <2>3, <3>4
  <2> QED BY <2>4, <2>5
<1>3. PICK g : UpTo(g, N)
  BY <1>2, <1>1
<1> DEFINE h == [i \in 1 .. N |-> Val(g, i)]
<1>4. \A i \in 1 .. N : h[i] = g[i]
  BY <1>3, <1>1
<1>5. h = [i \in 1 .. N |-> Val(h, i)]
  <2>1. ASSUME NEW i \in 1 .. N PROVE Val(g, i) = Val(h, i)
    <3>1. i # 1 => i - 1 \in 1 .. N
      BY <1>1
    <3> HIDE DEF h
    <3> QED BY <3>1, <1>4
  <2> QED BY <2>1
<1>6. h = [i \in 1 .. Len(s) |-> IF i = 1 THEN s[i] ELSE h[i - 1] \o s[i]]
  <2> HIDE DEF h
  <2> QED BY <1>5 DEF N
<1>7. PrefixConcats(s) = [i \in 1 .. Len(s) |-> IF i = 1 THEN s[i] ELSE PrefixConcats(s)[i - 1] \o s[i]]
  <2> HIDE DEF h
  <2> QED BY <1>6, Zenon DEF PrefixConcats
<1>8. \A i \in 1 .. N : PrefixConcats(s)[i] = Val(PrefixConcats(s), i)
  BY <1>7 DEF N
<1> DEFINE Q == {n \in Nat : n \in 1 .. N /\ PrefixConcats(s)[n] \notin Seq(S)}
<1>9. Q = {}
  <2>1. SUFFICES ASSUME Q # {} PROVE FALSE
    OBVIOUS
  <2>2. PICK m \in Q : \A n \in Q : m <= n
    <3>1. Q \in SUBSET Nat
      OBVIOUS
    <3> HIDE DEF Q
    <3> QED BY <2>1, <3>1, LeastOf
  <2>3. m \in 1 .. N /\ PrefixConcats(s)[m] \notin Seq(S)
    OBVIOUS
  <2>4. CASE m = 1
    BY <2>3, <2>4, <1>8, <1>1
  <2>5. CASE m # 1
    <3>1. m - 1 \in 1 .. N /\ m - 1 \notin Q
      <4>1. m - 1 \in 1 .. N /\ ~ (m <= m - 1)
        BY <2>3, <2>5, <1>1
      <4> HIDE DEF Q
      <4> QED BY <2>2, <4>1
    <3>2. PrefixConcats(s)[m - 1] \in Seq(S)
      BY <3>1
    <3>3. PrefixConcats(s)[m] = PrefixConcats(s)[m - 1] \o s[m] /\ s[m] \in Seq(S)
      BY <2>3, <2>5, <1>8, <1>1
    <3> QED BY <3>2, <3>3, <2>3
  <2> QED BY <2>4, <2>5
<1>10. \A i \in 1 .. N : PrefixConcats(s)[i] \in Seq(S)
  BY <1>9, <1>1
<1> HIDE DEF Q
<1> QED BY <1>8, <1>10 DEF N

\* Piece i of a concatenation stands behind the lengths of those before it.
Offsets(s, o) ==
  /\ o \in [1 .. Len(s) + 1 -> Nat] /\ o[1] = 0
  /\ \A i \in 1 .. Len(s) : o[i + 1] = o[i] + Len(s[i])

LEMMA ConcatPlaces ==
  ASSUME NEW S, NEW a \in Seq(S), NEW b \in Seq(S)
  PROVE  /\ \A j \in 1 .. Len(a) : (a \o b)[j] = a[j]
         /\ \A j \in 1 .. Len(b) : (a \o b)[Len(a) + j] = b[j]
         /\ a \o b \in Seq(S) /\ Len(a \o b) = Len(a) + Len(b)
OBVIOUS

LEMMA FlattenOffsets ==
  ASSUME NEW S, NEW s \in Seq(Seq(S))
  PROVE  /\ FlattenSeq(s) \in Seq(S)
         /\ \E o : /\ Offsets(s, o)
                   /\ Len(FlattenSeq(s)) = o[Len(s) + 1]
                   /\ \A i \in 1 .. Len(s) : \A j \in 1 .. Len(s[i]) :
                         FlattenSeq(s)[o[i] + j] = s[i][j]
<1> DEFINE N == Len(s)
           P == PrefixConcats(s)
           o == [i \in 1 .. N + 1 |-> IF i = 1 THEN 0 ELSE Len(P[i - 1])]
<1>1. N \in Nat /\ \A i \in 1 .. N : s[i] \in Seq(S)
  OBVIOUS
<1>2. \A i \in 1 .. N : P[i] \in Seq(S) /\ P[i] = IF i = 1 THEN s[i] ELSE P[i - 1] \o s[i]
  BY PrefixConcatsExist
<1>3. FlattenSeq(s) = IF N = 0 THEN s ELSE P[N]
  BY FlattenByPrefixConcats
<1> HIDE DEF N, P
<1>4. FlattenSeq(s) \in Seq(S)
  <2>1. N = 0 => s \in Seq(S)
    BY DEF N
  <2>2. N # 0 => N \in 1 .. N
    BY <1>1
  <2> QED BY <2>1, <2>2, <1>2, <1>3
<1>5. o \in [1 .. N + 1 -> Nat]
  <2>1. ASSUME NEW i \in 1 .. N + 1, i # 1 PROVE Len(P[i - 1]) \in Nat
    <3>1. i - 1 \in 1 .. N
      BY <2>1, <1>1
    <3> QED BY <3>1, <1>2, LenProperties
  <2> QED BY <2>1
<1>6. o[1] = 0 /\ \A i \in 1 .. N : o[i + 1] = Len(P[i])
  BY <1>1
<1>7. ASSUME NEW i \in 1 .. N PROVE Len(P[i]) = o[i] + Len(s[i])
  <2>1. CASE i = 1
    BY <2>1, <1>2, <1>6, <1>1, LenProperties
  <2>2. CASE i # 1
    <3>1. i - 1 \in 1 .. N /\ (i - 1) + 1 = i
      BY <2>2, <1>1
    <3>2. P[i] = P[i - 1] \o s[i] /\ P[i - 1] \in Seq(S) /\ s[i] \in Seq(S)
      BY <3>1, <2>2, <1>1, <1>2
    <3>3. Len(P[i]) = Len(P[i - 1]) + Len(s[i])
      BY <3>2, ConcatProperties
    <3>4. o[i] = Len(P[i - 1])
      BY <3>1, <1>6
    <3> QED BY <3>3, <3>4
  <2> QED BY <2>1, <2>2
<1>8. Offsets(s, o)
  <2>1. \A i \in 1 .. N : o[i + 1] = o[i] + Len(s[i])
    BY <1>6, <1>7
  <2> HIDE DEF o
  <2> QED BY <2>1, <1>5, <1>6 DEF Offsets, N
<1> HIDE DEF o
<1> DEFINE Here(n) == \A i \in 1 .. n : \A j \in 1 .. Len(s[i]) :
                         o[i] + j <= Len(P[n]) /\ P[n][o[i] + j] = s[i][j]
           T == {n \in Nat : n \in 1 .. N /\ ~Here(n)}
<1>9. T = {}
  <2>1. SUFFICES ASSUME T # {} PROVE FALSE
    OBVIOUS
  <2>2. PICK m \in T : \A n \in T : m <= n
    <3>1. T \in SUBSET Nat
      OBVIOUS
    <3> HIDE DEF T
    <3> QED BY <2>1, <3>1, LeastOf
  <2>3. m \in 1 .. N /\ ~Here(m)
    OBVIOUS
  <2>4. PICK i \in 1 .. m : \E j \in 1 .. Len(s[i]) :
          ~ (o[i] + j <= Len(P[m]) /\ P[m][o[i] + j] = s[i][j])
    BY <2>3
  <2>5. PICK j \in 1 .. Len(s[i]) : ~ (o[i] + j <= Len(P[m]) /\ P[m][o[i] + j] = s[i][j])
    BY <2>4
  <2> HIDE DEF T, Here
  <2>6. i \in 1 .. N /\ s[i] \in Seq(S) /\ s[m] \in Seq(S) /\ o[i] \in Nat /\ o[m] \in Nat
    BY <2>3, <1>1, <1>5
  <2>7. j \in Nat /\ j >= 1 /\ j <= Len(s[i]) /\ Len(s[i]) \in Nat
    BY <2>6, LenProperties
  <2>8. CASE m = 1
    BY <2>8, <2>6, <2>7, <2>5, <1>2, <1>6
  <2>9. CASE m # 1
    <3>1. m - 1 \in 1 .. N /\ m - 1 \notin T /\ (m - 1) + 1 = m
      <4>1. m - 1 \in 1 .. N /\ ~ (m <= m - 1) /\ (m - 1) + 1 = m
        BY <2>3, <2>9, <1>1
      <4> HIDE DEF T
      <4> QED BY <2>2, <4>1
    <3>2. Here(m - 1)
      BY <3>1 DEF T
    <3>3. P[m] = P[m - 1] \o s[m] /\ P[m - 1] \in Seq(S)
      BY <3>1, <2>3, <2>9, <1>2
    <3>4. o[m] = Len(P[m - 1]) /\ Len(P[m]) = o[m] + Len(s[m])
      BY <3>1, <2>3, <1>6, <1>7
    <3>5. CASE i = m
      <4>1. P[m][Len(P[m - 1]) + j] = s[m][j]
        <5>1. j \in 1 .. Len(s[m])
          BY <2>7, <3>5
        <5>2. (P[m - 1] \o s[m])[Len(P[m - 1]) + j] = s[m][j]
          <6>1. P[m - 1] \in Seq(S) /\ s[m] \in Seq(S)
            BY <3>3, <2>6
          <6>2. \A x, y \in Seq(S) : \A k \in 1 .. Len(y) : (x \o y)[Len(x) + k] = y[k]
            BY ConcatPlaces
          <6> QED BY <5>1, <6>1, <6>2
        <5> QED BY <5>2, <3>3
      <4>2. o[i] = Len(P[m - 1]) /\ s[i] = s[m] /\ Len(P[m]) = o[i] + Len(s[i])
        BY <3>4, <3>5
      <4>3. o[i] + j <= o[i] + Len(s[i])
        BY <2>6, <2>7
      <4>4. P[m][o[i] + j] = s[i][j] /\ o[i] + j <= Len(P[m])
        BY <4>1, <4>2, <4>3
      <4> QED BY <4>4, <2>5
    <3>6. CASE i # m
      <4>1. i \in 1 .. m - 1
        BY <3>6, <2>3
      <4>2. o[i] + j <= Len(P[m - 1]) /\ P[m - 1][o[i] + j] = s[i][j]
        BY <4>1, <3>2, <2>7, <2>6 DEF Here
      <4>3. o[i] + j \in 1 .. Len(P[m - 1]) /\ Len(P[m - 1]) \in Nat /\ Len(s[m]) \in Nat
        <5>1. Len(P[m - 1]) \in Nat /\ Len(s[m]) \in Nat
          BY <2>6, <3>3, LenProperties
        <5>2. o[i] + j \in Nat /\ 1 <= o[i] + j
          BY <2>6, <2>7
        <5> QED BY <4>2, <5>1, <5>2
      <4>4. P[m][o[i] + j] = P[m - 1][o[i] + j]
        <5>1. (P[m - 1] \o s[m])[o[i] + j] = P[m - 1][o[i] + j]
          BY <3>3, <2>6, <4>3, ConcatPlaces
        <5> QED BY <5>1, <3>3
      <4>5. o[i] + j <= Len(P[m])
        <5>1. Len(P[m]) = Len(P[m - 1]) + Len(s[m])
          BY <3>4
        <5>2. \A x, a, b \in Nat : x <= a => x <= a + b
          OBVIOUS
        <5>3. o[i] + j \in Nat
          BY <2>6, <2>7
        <5> QED BY <4>2, <4>3, <5>1, <5>2, <5>3, Zenon
      <4> QED BY <4>2, <4>4, <4>5, <2>5
    <3> QED BY <3>5, <3>6
  <2> QED BY <2>8, <2>9
<1>10. \A i \in 1 .. N : \A j \in 1 .. Len(s[i]) : FlattenSeq(s)[o[i] + j] = s[i][j]
  <2>1. \A n \in 1 .. N : Here(n)
    <3> HIDE DEF Here
    <3> QED BY <1>9, <1>1
  <2>2. N # 0 => N \in 1 .. N
    BY <1>1
  <2> HIDE DEF T
  <2>3. N # 0 => \A i \in 1 .. N : \A j \in 1 .. Len(s[i]) : P[N][o[i] + j] = s[i][j]
    BY <2>1, <2>2 DEF Here
  <2> QED BY <2>3, <1>3, <1>1
<1>11. Len(FlattenSeq(s)) = o[N + 1]
  <2>1. CASE N = 0
    BY <2>1, <1>3, <1>6 DEF N
  <2>2. CASE N # 0
    BY <2>2, <1>1, <1>3, <1>6
  <2> QED BY <2>1, <2>2
<1> QED BY <1>4, <1>8, <1>10, <1>11 DEF N

LEMMA OffsetsGrow ==
  ASSUME NEW S, NEW s \in Seq(Seq(S)), NEW o, Offsets(s, o)
  PROVE  \A i \in 1 .. Len(s) : \A k \in i + 1 .. Len(s) + 1 : o[i] + Len(s[i]) <= o[k]
<1> DEFINE N == Len(s)
<1>1. N \in Nat /\ \A i \in 1 .. N : Len(s[i]) \in Nat
  OBVIOUS
<1>2. /\ \A i \in 1 .. N + 1 : o[i] \in Nat
      /\ \A i \in 1 .. N : o[i + 1] = o[i] + Len(s[i])
  BY DEF Offsets
<1> HIDE DEF N
<1> SUFFICES ASSUME NEW i \in 1 .. N PROVE \A k \in i + 1 .. N + 1 : o[i] + Len(s[i]) <= o[k]
  BY DEF N
<1> DEFINE T == {k \in Nat : k \in i + 1 .. N + 1 /\ ~ (o[i] + Len(s[i]) <= o[k])}
<1>3. SUFFICES ASSUME T # {} PROVE FALSE
  BY <1>1
<1>4. PICK m \in T : \A n \in T : m <= n
  <2>1. T \in SUBSET Nat
    OBVIOUS
  <2> HIDE DEF T
  <2> QED BY <1>3, <2>1, LeastOf
<1>5. m \in i + 1 .. N + 1 /\ ~ (o[i] + Len(s[i]) <= o[m])
  OBVIOUS
<1>6. CASE m = i + 1
  BY <1>1, <1>2, <1>5, <1>6
<1>7. CASE m # i + 1
  <2>1. m - 1 \in i + 1 .. N + 1 /\ m - 1 \in 1 .. N /\ m - 1 \in Nat /\ ~ (m <= m - 1) /\ (m - 1) + 1 = m
    BY <1>1, <1>5, <1>7
  <2>2. m - 1 \notin T
    <3> HIDE DEF T
    <3> QED BY <1>4, <2>1
  <2>3. o[i] + Len(s[i]) <= o[m - 1]
    BY <2>1, <2>2
  <2>4. o[m] = o[m - 1] + Len(s[m - 1])
    BY <2>1, <1>2
  <2>5. o[i] \in Nat /\ o[m - 1] \in Nat /\ Len(s[m - 1]) \in Nat /\ Len(s[i]) \in Nat
    BY <1>1, <1>2, <2>1
  <2> QED BY <2>3, <2>4, <2>5, <1>5
<1> QED BY <1>6, <1>7

\* The element at p of the concatenation r of s comes from place nth[p] of
\* piece at[p], every element does, and they keep their order.
Places(s, r, at, nth) ==
  /\ at \in [DOMAIN r -> DOMAIN s] /\ nth \in [DOMAIN r -> Nat]
  /\ \A p \in DOMAIN r : nth[p] \in DOMAIN s[at[p]] /\ r[p] = s[at[p]][nth[p]]
  /\ \A i \in DOMAIN s : \A j \in DOMAIN s[i] : \E p \in DOMAIN r : at[p] = i /\ nth[p] = j
  /\ \A p, q \in DOMAIN r : p < q => at[p] < at[q] \/ (at[p] = at[q] /\ nth[p] < nth[q])

LEMMA FlattenPlaces ==
  ASSUME NEW S, NEW s \in Seq(Seq(S))
  PROVE  FlattenSeq(s) \in Seq(S) /\ \E at, nth : Places(s, FlattenSeq(s), at, nth)
<1> DEFINE N == Len(s)
           r == FlattenSeq(s)
<1>1. r \in Seq(S)
  BY FlattenOffsets
<1>2. PICK o : /\ Offsets(s, o)
               /\ Len(r) = o[N + 1]
               /\ \A i \in 1 .. N : \A j \in 1 .. Len(s[i]) : r[o[i] + j] = s[i][j]
  BY FlattenOffsets
<1>3. \A i \in 1 .. N : \A k \in i + 1 .. N + 1 : o[i] + Len(s[i]) <= o[k]
  BY <1>2, OffsetsGrow
<1>4. N \in Nat /\ DOMAIN s = 1 .. N /\ \A i \in 1 .. N : Len(s[i]) \in Nat /\ DOMAIN s[i] = 1 .. Len(s[i])
  OBVIOUS
<1>5. DOMAIN r = 1 .. Len(r) /\ Len(r) \in Nat
  BY <1>1
<1>6. /\ \A i \in 1 .. N + 1 : o[i] \in Nat
      /\ o[1] = 0
      /\ \A i \in 1 .. N : o[i + 1] = o[i] + Len(s[i])
  BY <1>2 DEF Offsets
<1> HIDE DEF N, r
<1>7. ASSUME NEW p \in DOMAIN r PROVE \E i \in 1 .. N : o[i] < p /\ p <= o[i] + Len(s[i])
  <2> DEFINE T == {k \in Nat : k \in 1 .. N + 1 /\ p <= o[k]}
  <2>1. p \in Nat /\ p >= 1 /\ p <= o[N + 1]
    BY <1>2, <1>5
  <2>2. N + 1 \in T
    BY <2>1, <1>4
  <2>3. PICK m \in T : \A n \in T : m <= n
    <3>1. T \in SUBSET Nat /\ T # {}
      BY <2>2
    <3> HIDE DEF T
    <3> QED BY <3>1, LeastOf
  <2>4. m \in 1 .. N + 1 /\ p <= o[m]
    OBVIOUS
  <2>5. m # 1
    BY <2>1, <2>4, <1>6
  <2>6. m - 1 \in 1 .. N /\ m - 1 \in 1 .. N + 1 /\ m - 1 \in Nat /\ ~ (m <= m - 1) /\ (m - 1) + 1 = m
    BY <2>4, <2>5, <1>4
  <2>7. m - 1 \notin T
    <3> HIDE DEF T
    <3> QED BY <2>3, <2>6
  <2>8. o[m - 1] < p
    <3>1. o[m - 1] \in Nat
      BY <2>6, <1>6
    <3> QED BY <2>1, <2>6, <2>7, <3>1
  <2>9. o[m] = o[m - 1] + Len(s[m - 1])
    BY <2>6, <1>6
  <2> HIDE DEF T
  <2> QED BY <2>4, <2>6, <2>8, <2>9
<1> DEFINE at == [p \in DOMAIN r |-> CHOOSE i \in 1 .. N : o[i] < p /\ p <= o[i] + Len(s[i])]
           nth == [p \in DOMAIN r |-> p - o[at[p]]]
<1>8. ASSUME NEW p \in DOMAIN r
      PROVE  at[p] \in 1 .. N /\ o[at[p]] < p /\ p <= o[at[p]] + Len(s[at[p]])
  BY <1>7
<1>9. \A p \in DOMAIN r : nth[p] = p - o[at[p]]
  OBVIOUS
<1> HIDE DEF at
<1>10. \A p \in DOMAIN r : nth[p] \in 1 .. Len(s[at[p]]) /\ o[at[p]] + nth[p] = p
  <2> SUFFICES ASSUME NEW p \in DOMAIN r
               PROVE  nth[p] \in 1 .. Len(s[at[p]]) /\ o[at[p]] + nth[p] = p
    OBVIOUS
  <2>1. at[p] \in 1 .. N /\ o[at[p]] < p /\ p <= o[at[p]] + Len(s[at[p]])
    BY <1>8
  <2>2. o[at[p]] \in Nat /\ Len(s[at[p]]) \in Nat /\ p \in Nat
    BY <2>1, <1>4, <1>5, <1>6
  <2>3. nth[p] = p - o[at[p]]
    BY <1>9
  <2> HIDE DEF nth
  <2> QED BY <2>1, <2>2, <2>3
<1>11. \A p \in DOMAIN r : nth[p] \in DOMAIN s[at[p]] /\ r[p] = s[at[p]][nth[p]]
  <2> HIDE DEF nth
  <2> SUFFICES ASSUME NEW p \in DOMAIN r PROVE nth[p] \in DOMAIN s[at[p]] /\ r[p] = s[at[p]][nth[p]]
    OBVIOUS
  <2>1. nth[p] \in 1 .. Len(s[at[p]]) /\ o[at[p]] + nth[p] = p /\ at[p] \in 1 .. N
    BY <1>8, <1>10
  <2>2. r[o[at[p]] + nth[p]] = s[at[p]][nth[p]]
    BY <2>1, <1>2
  <2> QED BY <2>1, <2>2, <1>4
<1>12. \A p, q \in DOMAIN r : p < q => at[p] < at[q] \/ (at[p] = at[q] /\ nth[p] < nth[q])
  <2> HIDE DEF nth
  <2> SUFFICES ASSUME NEW p \in DOMAIN r, NEW q \in DOMAIN r, p < q
               PROVE  at[p] < at[q] \/ (at[p] = at[q] /\ nth[p] < nth[q])
    OBVIOUS
  <2>1. /\ at[p] \in 1 .. N /\ o[at[p]] < p /\ p <= o[at[p]] + Len(s[at[p]])
        /\ at[q] \in 1 .. N /\ o[at[q]] < q /\ q <= o[at[q]] + Len(s[at[q]])
        /\ p \in Nat /\ q \in Nat
    BY <1>8, <1>5
  <2>2. CASE at[q] < at[p]
    <3>1. at[p] \in at[q] + 1 .. N + 1
      BY <2>1, <2>2, <1>4
    <3>2. o[at[q]] + Len(s[at[q]]) <= o[at[p]]
      BY <3>1, <2>1, <1>3
    <3>3. o[at[p]] \in Nat /\ o[at[q]] \in Nat /\ Len(s[at[q]]) \in Nat
      BY <2>1, <1>4, <1>6
    <3> QED BY <3>2, <3>3, <2>1
  <2>3. CASE at[q] = at[p]
    <3>1. o[at[p]] + nth[p] = p /\ o[at[p]] + nth[q] = q /\ nth[p] \in Nat /\ nth[q] \in Nat /\ o[at[p]] \in Nat
      <4>1. o[at[p]] \in Nat /\ Len(s[at[p]]) \in Nat
        BY <2>1, <1>4, <1>6
      <4>2. nth[p] \in 1 .. Len(s[at[p]]) /\ o[at[p]] + nth[p] = p
        BY <1>10
      <4>3. nth[q] \in 1 .. Len(s[at[p]]) /\ o[at[p]] + nth[q] = q
        BY <2>3, <1>10
      <4> QED BY <4>1, <4>2, <4>3
    <3> QED BY <3>1, <2>3
  <2> QED BY <2>1, <2>2, <2>3, <1>4
<1>13. ASSUME NEW i \in DOMAIN s, NEW j \in DOMAIN s[i]
       PROVE  \E p \in DOMAIN r : at[p] = i /\ nth[p] = j
  <2>1. i \in 1 .. N /\ j \in 1 .. Len(s[i]) /\ o[i] \in Nat /\ Len(s[i]) \in Nat
    BY <1>4, <1>6
  <2>2. o[i] + Len(s[i]) <= o[N + 1] /\ o[N + 1] \in Nat
    BY <2>1, <1>3, <1>4, <1>6
  <2>3. o[i] + j \in DOMAIN r
    BY <2>1, <2>2, <1>2, <1>5
  <2> DEFINE p == o[i] + j
  <2>4. at[p] \in 1 .. N /\ o[at[p]] < p /\ p <= o[at[p]] + Len(s[at[p]])
    BY <2>3, <1>8
  <2>5. o[at[p]] \in Nat /\ Len(s[at[p]]) \in Nat
    BY <2>4, <1>4, <1>6
  <2>6. ~ (at[p] < i)
    <3>1. SUFFICES ASSUME at[p] < i PROVE FALSE
      OBVIOUS
    <3>2. i \in at[p] + 1 .. N + 1
      BY <3>1, <2>1, <2>4, <1>4
    <3>3. o[at[p]] + Len(s[at[p]]) <= o[i]
      BY <3>2, <2>4, <1>3
    <3> QED BY <3>3, <2>1, <2>4, <2>5
  <2>7. ~ (i < at[p])
    <3>1. SUFFICES ASSUME i < at[p] PROVE FALSE
      OBVIOUS
    <3>2. at[p] \in i + 1 .. N + 1
      BY <3>1, <2>1, <2>4, <1>4
    <3>3. o[i] + Len(s[i]) <= o[at[p]]
      BY <3>2, <2>1, <1>3
    <3> QED BY <3>3, <2>1, <2>4, <2>5
  <2>8. at[p] = i
    BY <2>1, <2>4, <2>6, <2>7
  <2>9. nth[p] = j
    <3>1. nth[p] = p - o[at[p]]
      BY <2>3
    <3> QED BY <3>1, <2>1, <2>8
  <2> HIDE DEF nth
  <2> QED BY <2>3, <2>8, <2>9
<1>14. at \in [DOMAIN r -> DOMAIN s] /\ nth \in [DOMAIN r -> Nat]
  <2>1. at \in [DOMAIN r -> DOMAIN s]
    <3>1. at = [p \in DOMAIN r |-> at[p]]
      BY DEF at
    <3> QED BY <3>1, <1>8, <1>4
  <2>2. \A p \in DOMAIN r : nth[p] \in Nat
    <3> HIDE DEF nth
    <3> QED BY <1>10, <1>4
  <2> QED BY <2>1, <2>2
<1> HIDE DEF nth
<1>15. Places(s, r, at, nth)
  BY <1>11, <1>12, <1>13, <1>14 DEF Places
<1> QED BY <1>1, <1>15 DEF r

-----------------------------------------------------------------------------
(* The structure of a file: what opens and closes procedures and           *)
(* prototypes.                                                             *)

\* Line p of u stems from line at[p] of t; the structural lines of u are
\* those of t, and what a pass puts in stands in front of the line at its place.
Follows(t, u, at) ==
  /\ at \in [DOMAIN u -> Nat]
  /\ \A p, q \in DOMAIN u : p < q => at[p] <= at[q]
  /\ \A p \in DOMAIN u : Structural(u[p]) =>
       /\ at[p] \in DOMAIN t /\ u[p].k = t[at[p]].k
       /\ \A q \in DOMAIN u : p < q => at[p] < at[q]
  /\ \A i \in DOMAIN t : Structural(t[i]) => \E p \in DOMAIN u : at[p] = i /\ Structural(u[p])

KeepsStructure(t, s) ==
  /\ DOMAIN t \subseteq DOMAIN s
  /\ \A i \in DOMAIN s : \A j \in DOMAIN s[i] :
       Structural(s[i][j]) => j = Len(s[i]) /\ i \in DOMAIN t /\ s[i][j].k = t[i].k
  /\ \A i \in DOMAIN t : Structural(t[i]) => s[i] # <<>> /\ Structural(s[i][Len(s[i])])

LEMMA PiecesFollow ==
  ASSUME NEW S, NEW s \in Seq(Seq(S)), NEW t \in Seq(S), NEW u \in Seq(S), NEW at, NEW nth,
         Places(s, u, at, nth), KeepsStructure(t, s)
  PROVE  Follows(t, u, at)
<1>1. DOMAIN u \subseteq Nat /\ DOMAIN s \subseteq Nat
  OBVIOUS
<1>2. at \in [DOMAIN u -> DOMAIN s] /\ nth \in [DOMAIN u -> Nat]
  BY DEF Places
<1>3. at \in [DOMAIN u -> Nat]
  BY <1>1, <1>2
<1>4. \A p, q \in DOMAIN u : p < q => at[p] <= at[q]
  <2>1. \A p, q \in DOMAIN u : p < q => at[p] < at[q] \/ at[p] = at[q]
    BY DEF Places
  <2> QED BY <2>1, <1>3
<1>5. ASSUME NEW p \in DOMAIN u, Structural(u[p])
      PROVE  /\ at[p] \in DOMAIN t /\ u[p].k = t[at[p]].k
             /\ \A q \in DOMAIN u : p < q => at[p] < at[q]
  <2>1. nth[p] \in DOMAIN s[at[p]] /\ u[p] = s[at[p]][nth[p]] /\ at[p] \in DOMAIN s
    BY <1>2 DEF Places
  <2>2. nth[p] = Len(s[at[p]]) /\ at[p] \in DOMAIN t /\ u[p].k = t[at[p]].k
    BY <2>1, <1>5 DEF KeepsStructure
  <2>3. ASSUME NEW q \in DOMAIN u, p < q PROVE at[p] < at[q]
    <3>1. at[p] < at[q] \/ (at[p] = at[q] /\ nth[p] < nth[q])
      BY <2>3 DEF Places
    <3>2. nth[q] \in DOMAIN s[at[q]] /\ at[q] \in DOMAIN s
      BY <1>2 DEF Places
    <3>3. at[p] = at[q] => nth[q] <= Len(s[at[p]]) /\ nth[q] \in Nat /\ nth[p] \in Nat
      BY <3>2, <1>2
    <3> QED BY <3>1, <3>3, <2>2
  <2> QED BY <2>2, <2>3
<1>6. ASSUME NEW i \in DOMAIN t, Structural(t[i])
      PROVE  \E p \in DOMAIN u : at[p] = i /\ Structural(u[p])
  <2>1. i \in DOMAIN s /\ s[i] # <<>> /\ Structural(s[i][Len(s[i])])
    BY <1>6 DEF KeepsStructure
  <2>2. Len(s[i]) \in DOMAIN s[i]
    <3>1. s[i] \in Seq(S)
      BY <2>1
    <3> QED BY <3>1, <2>1
  <2>3. PICK p \in DOMAIN u : at[p] = i /\ nth[p] = Len(s[i])
    BY <2>1, <2>2 DEF Places
  <2>4. u[p] = s[at[p]][nth[p]]
    BY DEF Places
  <2> QED BY <2>1, <2>3, <2>4
<1> QED BY <1>3, <1>4, <1>5, <1>6 DEF Follows

\* A pass that rewrites line by line keeps the structure.
LEMMA PointwiseFollows ==
  ASSUME NEW S, NEW t \in Seq(S), NEW u \in Seq(S), DOMAIN u = DOMAIN t,
         \A i \in DOMAIN t : u[i].k = t[i].k
  PROVE  Follows(t, u, [i \in DOMAIN u |-> i])
BY DEF Follows, Structural

\* Structural lines keep their order.
LEMMA StructureInOrder ==
  ASSUME NEW S, NEW t \in Seq(S), NEW u \in Seq(S), NEW at, Follows(t, u, at),
         NEW p \in DOMAIN u, NEW q \in DOMAIN u, Structural(u[p])
  PROVE  /\ at[p] \in Nat /\ at[q] \in Nat /\ p \in Nat /\ q \in Nat
         /\ p < q <=> at[p] < at[q]
         /\ q < p => at[q] <= at[p]
         /\ Structural(u[q]) => (p = q <=> at[p] = at[q])
<1>1. at[p] \in Nat /\ at[q] \in Nat /\ p \in Nat /\ q \in Nat
  BY DEF Follows
<1>2. p < q => at[p] < at[q]
  BY DEF Follows
<1>3. q < p => at[q] <= at[p]
  BY DEF Follows
<1>4. Structural(u[q]) /\ q < p => at[q] < at[p]
  BY DEF Follows
<1> QED BY <1>1, <1>2, <1>3, <1>4

LEMMA SameCount ==
  ASSUME NEW S, NEW t \in Seq(S), NEW u \in Seq(S), NEW at, Follows(t, u, at),
         NEW A, A \subseteq {p \in DOMAIN u : Structural(u[p])},
         NEW B, B \subseteq DOMAIN t,
         \A p \in A : at[p] \in B,
         \A i \in B : \E p \in A : at[p] = i
  PROVE  Cardinality(B) = Cardinality(A) /\ IsFiniteSet(A) /\ IsFiniteSet(B) /\ Cardinality(A) \in Nat
<1> DEFINE f == [p \in A |-> at[p]]
<1>1. IsFiniteSet(A)
  <2>1. IsFiniteSet(1 .. Len(u)) /\ A \subseteq 1 .. Len(u)
    BY FS_Interval
  <2> QED BY <2>1, FS_Subset
<1>2. f \in [A -> B]
  OBVIOUS
<1>3. \A p, q \in A : f[p] = f[q] => p = q
  BY StructureInOrder
<1>4. \A i \in B : \E p \in A : f[p] = i
  OBVIOUS
<1>5. f \in Injection(A, B) /\ f \in Surjection(A, B)
  <2> HIDE DEF f
  <2> QED BY <1>2, <1>3, <1>4 DEF Injection, Surjection, IsInjective
<1>6. ExistsBijection(A, B)
  <2> HIDE DEF f
  <2> QED BY <1>5 DEF ExistsBijection, Bijection
<1> QED BY <1>1, <1>6, FS_Bijection, FS_CardinalityType

\* So a structural line stays inside or outside interface blocks.
LEMMA SameInterface ==
  ASSUME NEW S, NEW t \in Seq(S), NEW u \in Seq(S), NEW at, Follows(t, u, at),
         NEW p \in DOMAIN u, Structural(u[p])
  PROVE  InInterface(u, p) <=> InInterface(t, at[p])
<1> DEFINE A(v, k, i) == {j \in Lines(v, k) : j <= i}
<1>1. ASSUME NEW k \in {"interface", "endinterface"}
      PROVE  Cardinality(A(t, k, at[p])) = Cardinality(A(u, k, p))
  <2>1. A(u, k, p) \subseteq {j \in DOMAIN u : Structural(u[j])}
    BY DEF Lines, Structural
  <2>2. A(t, k, at[p]) \subseteq DOMAIN t
    BY DEF Lines
  <2>3. ASSUME NEW j \in A(u, k, p) PROVE at[j] \in A(t, k, at[p])
    <3>1. j \in DOMAIN u /\ u[j].k = k /\ Structural(u[j]) /\ j <= p
      BY DEF Lines, Structural
    <3>2. at[j] \in DOMAIN t /\ t[at[j]].k = k
      BY <3>1 DEF Follows
    <3>3. at[j] <= at[p]
      <4>1. ~ (at[p] < at[j])
        BY <3>1, StructureInOrder
      <4>2. at[p] \in Nat /\ at[j] \in Nat
        BY <3>1 DEF Follows
      <4> QED BY <4>1, <4>2
    <3> QED BY <3>2, <3>3 DEF Lines
  <2>4. ASSUME NEW i \in A(t, k, at[p]) PROVE \E j \in A(u, k, p) : at[j] = i
    <3>1. i \in DOMAIN t /\ t[i].k = k /\ i <= at[p] /\ Structural(t[i])
      BY DEF Lines, Structural
    <3>2. PICK j \in DOMAIN u : at[j] = i /\ Structural(u[j])
      BY <3>1 DEF Follows
    <3>3. u[j].k = k
      BY <3>1, <3>2 DEF Follows
    <3>4. j <= p
      <4>1. ~ (p < j)
        BY <3>1, <3>2, StructureInOrder
      <4> QED BY <4>1
    <3> QED BY <3>2, <3>3, <3>4 DEF Lines
  <2> HIDE DEF A
  <2> QED BY <2>1, <2>2, <2>3, <2>4, SameCount
<1> QED BY <1>1 DEF InInterface

\* Line i stands in the stretch that structural line h opens.
NoneIn(t, h, i) == \A j \in DOMAIN t : h < j /\ j <= i => ~Structural(t[j])
Under(t, h, i)  == h < i /\ i \in DOMAIN t /\ NoneIn(t, h, i)

LEMMA UnderStems ==
  ASSUME NEW S, NEW t \in Seq(S), NEW u \in Seq(S), NEW at, Follows(t, u, at),
         NEW h \in DOMAIN u, Structural(u[h]), NEW i, Under(u, h, i),
         at[i] \in DOMAIN t => ~Structural(t[at[i]])
  PROVE  at[h] < at[i] /\ NoneIn(t, at[h], at[i])
<1>1. i \in DOMAIN u /\ h < i /\ \A j \in DOMAIN u : h < j /\ j <= i => ~Structural(u[j])
  BY DEF Under, NoneIn
<1>2. at[h] < at[i] /\ at[h] \in Nat /\ at[i] \in Nat
  BY <1>1, StructureInOrder
<1>3. ASSUME NEW j \in DOMAIN t, at[h] < j, j <= at[i], Structural(t[j]) PROVE FALSE
  <2>1. PICK p \in DOMAIN u : at[p] = j /\ Structural(u[p])
    BY <1>3 DEF Follows
  <2>2. h < p
    BY <2>1, <1>3, StructureInOrder
  <2>3. p <= i
    <3>1. SUFFICES ASSUME i < p PROVE FALSE
      BY <1>1
    <3>2. at[i] <= at[p]
      BY <3>1, <1>1 DEF Follows
    <3>3. at[i] = j
      BY <3>2, <2>1, <1>2, <1>3
    <3> QED BY <3>3, <1>3
  <2> QED BY <2>1, <2>2, <2>3, <1>1
<1> QED BY <1>2, <1>3 DEF NoneIn

LEMMA UnderStays ==
  ASSUME NEW S, NEW t \in Seq(S), NEW u \in Seq(S), NEW at, Follows(t, u, at),
         NEW h \in DOMAIN u, Structural(u[h]), NEW i \in DOMAIN u,
         Under(t, at[h], at[i])
  PROVE  Under(u, h, i)
<1>1. at[i] \in DOMAIN t /\ at[h] < at[i] /\ at[h] \in Nat /\ at[i] \in Nat
  BY DEF Under, Follows
<1>2. h < i
  BY <1>1, StructureInOrder
<1>3. ASSUME NEW j \in DOMAIN u, h < j, j <= i, Structural(u[j]) PROVE FALSE
  <2>1. at[h] < at[j] /\ at[j] \in DOMAIN t /\ u[j].k = t[at[j]].k
    BY <1>3 DEF Follows
  <2>2. at[j] <= at[i]
    <3>1. at[j] \in Nat /\ (j < i => at[j] <= at[i])
      BY <1>3 DEF Follows
    <3>2. j < i \/ j = i
      BY <1>3
    <3> QED BY <3>1, <3>2, <1>1
  <2>3. Structural(t[at[j]])
    BY <2>1, <1>3 DEF Structural
  <2> QED BY <2>1, <2>2, <2>3 DEF Under, NoneIn
<1> QED BY <1>2, <1>3 DEF Under, NoneIn

\* Two structural lines with nothing between them stay neighbours.
LEMMA NeighboursStay ==
  ASSUME NEW S, NEW t \in Seq(S), NEW u \in Seq(S), NEW at, Follows(t, u, at),
         NEW h \in DOMAIN u, Structural(u[h]), NEW e \in DOMAIN u, Structural(u[e]),
         at[h] < at[e], NothingBetween(t, at[h], at[e])
  PROVE  h < e /\ NothingBetween(u, h, e)
<1>1. at[h] \in DOMAIN t /\ at[e] \in DOMAIN t /\ h < e /\ at[e] \in Nat /\ at[h] \in Nat
  <2>1. at[h] \in DOMAIN t /\ at[e] \in DOMAIN t
    BY DEF Follows
  <2> QED BY <2>1, StructureInOrder
<1>2. ASSUME NEW j \in h + 1 .. e - 1, Structural(u[j]) PROVE FALSE
  <2>1. j \in DOMAIN u /\ h < j /\ j < e
    BY <1>1
  <2>2. at[h] < at[j] /\ at[j] < at[e] /\ at[j] \in DOMAIN t /\ u[j].k = t[at[j]].k
    BY <2>1, <1>2 DEF Follows
  <2>3. Structural(t[at[j]]) /\ at[j] \in at[h] + 1 .. at[e] - 1
    BY <2>2, <1>1, <1>2 DEF Structural
  <2> QED BY <2>3 DEF NothingBetween
<1> QED BY <1>1, <1>2 DEF NothingBetween

LEMMA StructuralKinds ==
  ASSUME NEW l
  PROVE  Structural(l) <=> l.k = "header" \/ l.k = "end" \/ l.k = "interface" \/ l.k = "endinterface"
BY DEF Structural

LEMMA WellFormedStays ==
  ASSUME NEW S, NEW t \in Seq(S), NEW u \in Seq(S), NEW at, Follows(t, u, at), WellFormed(t)
  PROVE  WellFormed(u)
<1>1. ASSUME NEW p \in DOMAIN u, Structural(u[p])
      PROVE  /\ at[p] \in DOMAIN t /\ t[at[p]].k = u[p].k /\ Structural(t[at[p]])
             /\ InInterface(u, p) <=> InInterface(t, at[p])
  BY <1>1, SameInterface DEF Follows, Structural
<1>2. ASSUME NEW i \in DOMAIN t, Structural(t[i])
      PROVE  \E p \in DOMAIN u : at[p] = i /\ Structural(u[p])
  BY <1>2 DEF Follows
<1>3. ASSUME NEW h \in Lines(u, "header"), InInterface(u, h)
      PROVE  \E e \in Lines(u, "end") : h < e /\ NothingBetween(u, h, e)
  <2>1. h \in DOMAIN u /\ Structural(u[h]) /\ at[h] \in Lines(t, "header") /\ InInterface(t, at[h])
    BY <1>1, <1>3, StructuralKinds DEF Lines
  <2>2. PICK i \in Lines(t, "end") : at[h] < i /\ NothingBetween(t, at[h], i)
    BY <2>1 DEF WellFormed
  <2>3. PICK e \in DOMAIN u : at[e] = i /\ Structural(u[e])
    BY <1>2, StructuralKinds DEF Lines
  <2>4. e \in Lines(u, "end")
    BY <2>3, <1>1 DEF Lines
  <2> QED BY <2>1, <2>2, <2>3, <2>4, NeighboursStay
<1>4. ASSUME NEW e \in Lines(u, "end"), InInterface(u, e)
      PROVE  \E h \in Lines(u, "header") : h < e /\ NothingBetween(u, h, e)
  <2>1. e \in DOMAIN u /\ Structural(u[e]) /\ at[e] \in Lines(t, "end") /\ InInterface(t, at[e])
    BY <1>1, <1>4, StructuralKinds DEF Lines
  <2>2. PICK i \in Lines(t, "header") : i < at[e] /\ NothingBetween(t, i, at[e])
    BY <2>1 DEF WellFormed
  <2>3. PICK h \in DOMAIN u : at[h] = i /\ Structural(u[h])
    BY <1>2, StructuralKinds DEF Lines
  <2>4. h \in Lines(u, "header")
    BY <2>3, <1>1 DEF Lines
  <2> QED BY <2>1, <2>2, <2>3, <2>4, NeighboursStay
<1>5. ASSUME NEW h \in Procedures(u)
      PROVE  \E e \in Lines(u, "end") :
               /\ h < e /\ ~InInterface(u, e)
               /\ \A j \in h + 1 .. e - 1 : u[j].k \in {"header", "end"} => InInterface(u, j)
  <2>1. h \in DOMAIN u /\ Structural(u[h]) /\ at[h] \in Procedures(t)
    BY <1>1, StructuralKinds DEF Lines, Procedures
  <2>2. PICK i \in Lines(t, "end") :
          /\ at[h] < i /\ ~InInterface(t, i)
          /\ \A j \in at[h] + 1 .. i - 1 : t[j].k \in {"header", "end"} => InInterface(t, j)
    BY <2>1 DEF WellFormed
  <2>3. PICK e \in DOMAIN u : at[e] = i /\ Structural(u[e])
    BY <1>2, StructuralKinds DEF Lines
  <2>4. e \in Lines(u, "end") /\ ~InInterface(u, e)
    BY <2>2, <2>3, <1>1 DEF Lines
  <2>5. h < e
    BY <2>1, <2>2, <2>3, StructureInOrder
  <2>6. ASSUME NEW j \in h + 1 .. e - 1, u[j].k \in {"header", "end"} PROVE InInterface(u, j)
    <3>1. j \in DOMAIN u /\ h < j /\ j < e /\ Structural(u[j])
      BY <2>1, <2>3, <2>6 DEF Structural
    <3>2. at[h] < at[j] /\ at[j] < at[e] /\ at[j] \in Nat /\ at[h] \in Nat /\ at[e] \in Nat
      BY <3>1, <2>1, <2>3 DEF Follows
    <3>3. at[j] \in at[h] + 1 .. i - 1 /\ t[at[j]].k \in {"header", "end"}
      BY <3>1, <3>2, <2>3, <2>6, <1>1
    <3> QED BY <3>1, <3>3, <2>2, <1>1
  <2> QED BY <2>4, <2>5, <2>6
<1> QED BY <1>3, <1>4, <1>5 DEF WellFormed

-----------------------------------------------------------------------------
(* Statements.                                                             *)

Refs == Name \cup {"kept_dble"}

LEMMA LineFields ==
  ASSUME NEW l \in LineType
  PROVE  /\ l.k \in Kinds /\ l.ty \in Types /\ l.it \in Seq(ItemType)
         /\ l.rf \subseteq Refs /\ l.cond \subseteq Config
BY DEF LineType, Refs

LEMMA LineExcept ==
  ASSUME NEW l \in LineType
  PROVE  /\ \A ty \in Types : /\ [l EXCEPT !.ty = ty] \in LineType /\ [l EXCEPT !.ty = ty].k = l.k
                               /\ [l EXCEPT !.ty = ty].ty = ty /\ [l EXCEPT !.ty = ty].it = l.it
                               /\ [l EXCEPT !.ty = ty].rf = l.rf /\ [l EXCEPT !.ty = ty].cond = l.cond
         /\ \A it \in Seq(ItemType) :
               /\ [l EXCEPT !.it = it] \in LineType /\ [l EXCEPT !.it = it].k = l.k
               /\ [l EXCEPT !.it = it].ty = l.ty /\ [l EXCEPT !.it = it].it = it
               /\ [l EXCEPT !.it = it].rf = l.rf /\ [l EXCEPT !.it = it].cond = l.cond
         /\ \A rf \in SUBSET Refs :
               /\ [l EXCEPT !.rf = rf] \in LineType /\ [l EXCEPT !.rf = rf].k = l.k
               /\ [l EXCEPT !.rf = rf].ty = l.ty /\ [l EXCEPT !.rf = rf].it = l.it
               /\ [l EXCEPT !.rf = rf].rf = rf /\ [l EXCEPT !.rf = rf].cond = l.cond
         /\ \A cond \in SUBSET Config :
               /\ [l EXCEPT !.cond = cond] \in LineType /\ [l EXCEPT !.cond = cond].k = l.k
               /\ [l EXCEPT !.cond = cond].ty = l.ty /\ [l EXCEPT !.cond = cond].it = l.it
               /\ [l EXCEPT !.cond = cond].rf = l.rf
BY DEF LineType, Refs

LEMMA NewLine ==
  ASSUME NEW k \in Kinds
  PROVE  /\ Line(k) \in LineType /\ Line(k).k = k /\ Line(k).ty = "none" /\ Line(k).it = <<>>
         /\ Line(k).rf = {} /\ Line(k).cond = {} /\ ItemNames(Line(k)) = {}
<1>1. <<>> \in Seq(ItemType)
  OBVIOUS
<1>2. Line(k) \in LineType
  <2>1. "none" \in Types /\ {} \in SUBSET Refs /\ {} \in SUBSET Config
    BY DEF Types
  <2> QED BY <1>1, <2>1 DEF Line, LineType, Refs
<1>3. Line(k).it = <<>>
  BY DEF Line
<1>4. ToSet(<<>>) = {}
  BY DEF ToSet
<1> QED BY <1>2, <1>3, <1>4 DEF Line, ItemNames

LEMMA PickedItems ==
  ASSUME NEW S, NEW s \in Seq(S), NEW P
  PROVE  ItemsIn(s, P) \in Seq(S) /\ ToSet(ItemsIn(s, P)) = ToSet(s) \cap P
<1> DEFINE z == [i \in DOMAIN s |-> IF s[i] \in P THEN <<s[i]>> ELSE <<>>]
           r == FlattenSeq(z)
<1>1. z \in Seq(Seq(S))
  <2>1. \A i \in DOMAIN s : (IF s[i] \in P THEN <<s[i]>> ELSE <<>>) \in Seq(S)
    OBVIOUS
  <2>2. DOMAIN s = 1 .. Len(s) /\ Len(s) \in Nat
    OBVIOUS
  <2> QED BY <2>1, <2>2
<1>2. r \in Seq(S) /\ \E at, nth : Places(z, r, at, nth)
  BY <1>1, FlattenPlaces
<1>3. PICK at, nth : Places(z, r, at, nth)
  BY <1>2
<1>4. DOMAIN z = DOMAIN s /\ \A i \in DOMAIN s : z[i] = IF s[i] \in P THEN <<s[i]>> ELSE <<>>
  OBVIOUS
<1>5. ItemsIn(s, P) = r
  BY DEF ItemsIn
<1> HIDE DEF z, r
<1>6. ASSUME NEW p \in DOMAIN r PROVE r[p] \in ToSet(s) \cap P
  <2>1. at[p] \in DOMAIN s /\ nth[p] \in DOMAIN z[at[p]] /\ r[p] = z[at[p]][nth[p]]
    BY <1>3, <1>4 DEF Places
  <2>2. s[at[p]] \in P
    BY <2>1, <1>4
  <2>3. z[at[p]] = <<s[at[p]]>>
    BY <2>1, <2>2, <1>4
  <2> QED BY <2>1, <2>2, <2>3 DEF ToSet
<1>7. ASSUME NEW x \in ToSet(s) \cap P PROVE x \in ToSet(r)
  <2>1. PICK i \in DOMAIN s : s[i] = x
    BY DEF ToSet
  <2>2. z[i] = <<x>> /\ 1 \in DOMAIN z[i] /\ z[i][1] = x
    BY <2>1, <1>4
  <2>3. PICK p \in DOMAIN r : at[p] = i /\ nth[p] = 1
    <3>1. i \in DOMAIN z
      BY <2>1, <1>4
    <3> QED BY <2>2, <3>1, <1>3 DEF Places
  <2> QED BY <2>2, <2>3, <1>3 DEF ToSet, Places
<1> QED BY <1>2, <1>5, <1>6, <1>7 DEF ToSet

\* What a pass makes of a line that is one line or none.
OneFor(l, x) ==
  /\ x \in Seq(LineType) /\ (x = <<>> \/ x = <<x[1]>>)
  /\ x = <<>> => ~Structural(l)
  /\ x # <<>> => (Structural(l) \/ Structural(x[1]) => x[1].k = l.k)

\* Text u is what the lines of t became: that of line i is x[i].
Becomes(t, x, u, at) ==
  /\ u \in Seq(LineType) /\ Follows(t, u, at)
  /\ \A p \in DOMAIN u : at[p] \in DOMAIN t /\ x[at[p]] = <<u[p]>>
  /\ \A i \in DOMAIN t : x[i] # <<>> => \E p \in DOMAIN u : at[p] = i
  /\ \A p, q \in DOMAIN u : p < q => at[p] < at[q]

LEMMA LinesBecome ==
  ASSUME NEW t \in Seq(LineType), NEW x, DOMAIN x = DOMAIN t,
         x = [i \in DOMAIN t |-> x[i]], \A i \in DOMAIN t : OneFor(t[i], x[i])
  PROVE  x \in Seq(Seq(LineType)) /\ \E at : Becomes(t, x, FlattenSeq(x), at)
<1> DEFINE u == FlattenSeq(x)
<1>1. x \in Seq(Seq(LineType))
  <2>1. DOMAIN t = 1 .. Len(t) /\ Len(t) \in Nat
    OBVIOUS
  <2> QED BY <2>1 DEF OneFor
<1>2. u \in Seq(LineType) /\ \E at, nth : Places(x, u, at, nth)
  BY <1>1, FlattenPlaces
<1>3. PICK at, nth : Places(x, u, at, nth)
  BY <1>2
<1> HIDE DEF u
<1>4. ASSUME NEW i \in DOMAIN t, x[i] # <<>>
      PROVE  x[i] = <<x[i][1]>> /\ Len(x[i]) = 1 /\ DOMAIN x[i] = {1}
  <2>1. x[i] = <<x[i][1]>>
    BY <1>4 DEF OneFor
  <2>2. PICK y : y = x[i][1]
    OBVIOUS
  <2>3. x[i] = <<y>>
    BY <2>1, <2>2
  <2>4. Len(<<y>>) = 1 /\ DOMAIN <<y>> = 1 .. 1 /\ 1 .. 1 = {1}
    OBVIOUS
  <2> QED BY <2>1, <2>3, <2>4
<1>5. ASSUME NEW p \in DOMAIN u
      PROVE  at[p] \in DOMAIN t /\ nth[p] = 1 /\ x[at[p]] = <<u[p]>>
  <2>1. at[p] \in DOMAIN t /\ nth[p] \in DOMAIN x[at[p]] /\ u[p] = x[at[p]][nth[p]]
    BY <1>3 DEF Places
  <2>2. x[at[p]] # <<>>
    BY <2>1
  <2> QED BY <2>1, <2>2, <1>4
<1>6. ASSUME NEW i \in DOMAIN t, x[i] # <<>> PROVE \E p \in DOMAIN u : at[p] = i
  <2>1. 1 \in DOMAIN x[i]
    BY <1>4, <1>6
  <2> QED BY <2>1, <1>3 DEF Places
<1>7. ASSUME NEW p \in DOMAIN u, NEW q \in DOMAIN u, p < q PROVE at[p] < at[q]
  <2>1. at[p] < at[q] \/ (at[p] = at[q] /\ nth[p] < nth[q])
    BY <1>3, <1>7 DEF Places
  <2>2. nth[p] = 1 /\ nth[q] = 1
    BY <1>5
  <2> QED BY <2>1, <2>2
<1>8. KeepsStructure(t, x)
  <2>1. ASSUME NEW i \in DOMAIN x, NEW j \in DOMAIN x[i], Structural(x[i][j])
        PROVE  j = Len(x[i]) /\ x[i][j].k = t[i].k
    <3>1. x[i] # <<>>
      OBVIOUS
    <3>2. j = 1 /\ Len(x[i]) = 1
      BY <3>1, <1>4
    <3> QED BY <3>1, <3>2, <2>1 DEF OneFor
  <2>2. ASSUME NEW i \in DOMAIN t, Structural(t[i]) PROVE x[i] # <<>> /\ Structural(x[i][Len(x[i])])
    <3>1. x[i] # <<>> /\ x[i][1].k = t[i].k
      BY <2>2 DEF OneFor
    <3>2. Len(x[i]) = 1
      BY <3>1, <1>4
    <3> QED BY <3>1, <3>2, <2>2 DEF Structural
  <2> QED BY <2>1, <2>2 DEF KeepsStructure
<1>9. Follows(t, u, at)
  BY <1>1, <1>2, <1>3, <1>8, PiecesFollow
<1>10. Becomes(t, x, u, at)
  BY <1>2, <1>5, <1>6, <1>7, <1>9 DEF Becomes
<1> QED BY <1>1, <1>10 DEF u

-----------------------------------------------------------------------------
(* The passes up to the import keep every line clean.                      *)

TargetTypes == {"real64x2", "cmplx64x2"}

\* No line declares the target's types, and no comment has a type.
Clean(l) ==
  /\ l \in LineType /\ ItemNames(l) \cap TargetTypes = {}
  /\ IsComment(l) \/ IsDirective(l) => l.ty = "none"

InterfacesOpen(t) == \A i \in Lines(t, "interface") : InInterface(t, i)

Sound(t) ==
  /\ t \in Seq(LineType) /\ WellFormed(t) /\ InterfacesOpen(t)
  /\ \A i \in DOMAIN t : Clean(t[i]) /\ t[i].ty # "module"

LEMMA InterfacesStay ==
  ASSUME NEW t \in Seq(LineType), NEW u \in Seq(LineType), NEW at, Follows(t, u, at), InterfacesOpen(t)
  PROVE  InterfacesOpen(u)
<1> SUFFICES ASSUME NEW p \in Lines(u, "interface") PROVE InInterface(u, p)
  BY DEF InterfacesOpen
<1>1. p \in DOMAIN u /\ Structural(u[p]) /\ u[p].k = "interface"
  BY StructuralKinds DEF Lines
<1>2. at[p] \in Lines(t, "interface")
  BY <1>1 DEF Follows, Lines
<1>3. InInterface(t, at[p])
  BY <1>2 DEF InterfacesOpen
<1> QED BY <1>1, <1>3, SameInterface

LEMMA SoundPieces ==
  ASSUME NEW t, Sound(t), NEW x, x = [i \in DOMAIN t |-> x[i]],
         \A i \in DOMAIN t : /\ OneFor(t[i], x[i])
                             /\ x[i] # <<>> => Clean(x[i][1]) /\ x[i][1].ty # "module"
  PROVE  Sound(FlattenSeq(x))
<1>1. t \in Seq(LineType) /\ WellFormed(t) /\ DOMAIN x = DOMAIN t
  BY DEF Sound
<1>2. PICK at : Becomes(t, x, FlattenSeq(x), at)
  BY <1>1, LinesBecome
<1> DEFINE u == FlattenSeq(x)
<1>3. u \in Seq(LineType) /\ Follows(t, u, at)
  BY <1>2 DEF Becomes
<1>4. WellFormed(u) /\ InterfacesOpen(u)
  BY <1>1, <1>3, WellFormedStays, InterfacesStay DEF Sound
<1>5. ASSUME NEW p \in DOMAIN u PROVE Clean(u[p]) /\ u[p].ty # "module"
  <2>1. at[p] \in DOMAIN t /\ x[at[p]] = <<u[p]>>
    BY <1>2 DEF Becomes
  <2>2. x[at[p]] # <<>> /\ x[at[p]][1] = u[p]
    BY <2>1
  <2> QED BY <2>1, <2>2
<1> QED BY <1>3, <1>4, <1>5 DEF Sound

LEMMA SoundPointwise ==
  ASSUME NEW t, Sound(t), NEW u, u = [i \in DOMAIN t |-> u[i]],
         \A i \in DOMAIN t : Clean(u[i]) /\ u[i].k = t[i].k /\ u[i].ty # "module"
  PROVE  Sound(u)
<1>1. t \in Seq(LineType) /\ DOMAIN u = DOMAIN t
  BY DEF Sound
<1>2. u \in Seq(LineType)
  <2>1. DOMAIN t = 1 .. Len(t) /\ Len(t) \in Nat
    BY <1>1
  <2>2. \A i \in DOMAIN t : u[i] \in LineType
    BY DEF Clean
  <2> QED BY <2>1, <2>2
<1>3. Follows(t, u, [i \in DOMAIN u |-> i])
  BY <1>1, <1>2, PointwiseFollows
<1>4. WellFormed(u) /\ InterfacesOpen(u)
  BY <1>1, <1>2, <1>3, WellFormedStays, InterfacesStay DEF Sound
<1> QED BY <1>1, <1>2, <1>4 DEF Sound

LEMMA SoundLine ==
  ASSUME NEW t, Sound(t), NEW i \in DOMAIN t
  PROVE  t[i] \in LineType /\ Clean(t[i]) /\ t[i].ty # "module"
BY DEF Sound, Clean

\* A line whose items shrink and whose kind stays is clean.
LEMMA CleanExcept ==
  ASSUME NEW l, Clean(l), NEW m \in LineType, m.k = l.k, m.ty = l.ty \/ l.ty # "none",
         ItemNames(m) \subseteq ItemNames(l)
  PROVE  Clean(m)
BY DEF Clean, IsComment, IsDirective

LEMMA FewerItems ==
  ASSUME NEW l \in LineType, NEW ns
  PROVE  LET m == WithoutItems(l, ns)
         IN  /\ m \in LineType /\ m.k = l.k /\ m.ty = l.ty /\ m.rf = l.rf /\ m.cond = l.cond
             /\ ItemNames(m) \subseteq ItemNames(l) /\ ToSet(m.it) \subseteq ToSet(l.it)
<1> DEFINE it == ItemsIn(l.it, {x \in ToSet(l.it) : x.n \notin ns})
<1>1. it \in Seq(ItemType) /\ ToSet(it) \subseteq ToSet(l.it)
  BY LineFields, PickedItems
<1>2. WithoutItems(l, ns) = [l EXCEPT !.it = it]
  BY DEF WithoutItems
<1> HIDE DEF it
<1>3. /\ [l EXCEPT !.it = it] \in LineType /\ [l EXCEPT !.it = it].k = l.k
      /\ [l EXCEPT !.it = it].ty = l.ty /\ [l EXCEPT !.it = it].it = it
      /\ [l EXCEPT !.it = it].rf = l.rf /\ [l EXCEPT !.it = it].cond = l.cond
  BY <1>1, LineExcept
<1> QED BY <1>1, <1>2, <1>3 DEF ItemNames

LEMMA OneLine ==
  ASSUME NEW l, NEW m \in LineType, m.k = l.k
  PROVE  OneFor(l, <<m>>) /\ <<m>> # <<>> /\ <<m>>[1] = m
BY DEF OneFor, Structural

LEMMA NoLine ==
  ASSUME NEW l, ~Structural(l)
  PROVE  OneFor(l, <<>>)
BY DEF OneFor

Retyped(l, ty, rf) == [l EXCEPT !.ty = ty, !.rf = rf]

LEMMA TypeAndRefs ==
  ASSUME NEW l \in LineType, NEW ty \in Types, NEW rf \in SUBSET Refs
  PROVE  LET m == Retyped(l, ty, rf)
         IN  m \in LineType /\ m.k = l.k /\ m.ty = ty /\ m.it = l.it /\ m.rf = rf /\ m.cond = l.cond
<1> DEFINE a == [l EXCEPT !.ty = ty]
           m == Retyped(l, ty, rf)
<1>1. m = [a EXCEPT !.rf = rf]
  BY DEF LineType, Retyped
<1>2. a \in LineType /\ a.k = l.k /\ a.ty = ty /\ a.it = l.it /\ a.cond = l.cond
  BY LineExcept
<1> HIDE DEF a, m
<1> QED BY <1>1, <1>2, LineExcept DEF m

LEMMA MaskedIs ==
  ASSUME NEW l \in LineType
  PROVE  LET m == Masked(l)
         IN  /\ m \in LineType /\ m.k = l.k /\ m.it = l.it /\ m.cond = l.cond
             /\ m.ty = IF l.ty = "real8" THEN "kept" ELSE l.ty
             /\ m.rf = {IF n = "dble" THEN "kept_dble" ELSE n : n \in l.rf}
<1> DEFINE ty == IF l.ty = "real8" THEN "kept" ELSE l.ty
           rf == {IF n = "dble" THEN "kept_dble" ELSE n : n \in l.rf}
<1>1. Masked(l) = Retyped(l, ty, rf)
  BY DEF Masked, Retyped
<1>2. ty \in Types /\ rf \in SUBSET Refs
  <2>1. l.ty \in Types /\ l.rf \subseteq Refs
    BY LineFields
  <2>2. "kept" \in Types /\ "kept_dble" \in Refs
    BY DEF Types, Refs
  <2> QED BY <2>1, <2>2
<1> HIDE DEF ty, rf
<1>3. LET m == Masked(l)
      IN  m \in LineType /\ m.k = l.k /\ m.ty = ty /\ m.it = l.it /\ m.rf = rf /\ m.cond = l.cond
  BY <1>1, <1>2, TypeAndRefs
<1> QED BY <1>3 DEF ty, rf

LEMMA UnmaskedIs ==
  ASSUME NEW l \in LineType
  PROVE  LET m == Unmasked(l)
         IN  /\ m \in LineType /\ m.k = l.k /\ m.it = l.it /\ m.cond = l.cond
             /\ m.ty = IF l.ty = "kept" THEN "real8" ELSE l.ty
             /\ m.rf = {IF n = "kept_dble" THEN "dble" ELSE n : n \in l.rf}
<1> DEFINE ty == IF l.ty = "kept" THEN "real8" ELSE l.ty
           rf == {IF n = "kept_dble" THEN "dble" ELSE n : n \in l.rf}
<1>1. Unmasked(l) = Retyped(l, ty, rf)
  BY DEF Unmasked, Retyped
<1>2. ty \in Types /\ rf \in SUBSET Refs
  <2>1. l.ty \in Types /\ l.rf \subseteq Refs
    BY LineFields
  <2>2. ty \in Types
    BY <2>1 DEF Types
  <2>3. rf \in SUBSET Refs
    BY <2>1, ModuleAssumption DEF Refs, PublicNames
  <2> QED BY <2>2, <2>3
<1> HIDE DEF ty, rf
<1>3. LET m == Unmasked(l)
      IN  m \in LineType /\ m.k = l.k /\ m.ty = ty /\ m.it = l.it /\ m.rf = rf /\ m.cond = l.cond
  BY <1>1, <1>2, TypeAndRefs
<1> QED BY <1>3 DEF ty, rf

LEMMA HandledIs ==
  ASSUME NEW t \in Seq(LineType), NEW i \in DOMAIN t
  PROVE  LET m == RewriteHandles(t)[i]
         IN  /\ m \in LineType /\ m.k = t[i].k /\ m.ty = t[i].ty /\ m.cond = t[i].cond
             /\ m.rf = {TargetHandle(n) : n \in t[i].rf}
<1> DEFINE l == t[i]
           rf == {TargetHandle(n) : n \in l.rf}
<1>1. l \in LineType /\ l.rf \subseteq Refs
  BY LineFields
<1>2. rf \in SUBSET Refs
  BY <1>1, ModuleAssumption DEF Refs, TargetHandle
<1>3. RewriteHandles(t)[i] = [l EXCEPT !.rf = rf]
  BY DEF RewriteHandles
<1> DEFINE m == [l EXCEPT !.rf = rf]
<1> HIDE DEF rf, l
<1>4. m \in LineType /\ m.k = l.k /\ m.ty = l.ty /\ m.rf = rf /\ m.cond = l.cond
  BY <1>1, <1>2, LineExcept
<1> HIDE DEF m
<1>5. m = RewriteHandles(t)[i]
  BY <1>3 DEF m
<1> QED BY <1>4, <1>5 DEF l, rf

LEMMA ProtectSound ==
  ASSUME NEW t, Sound(t), NEW lines
  PROVE  Sound(Protect(t, lines))
<1>1. ASSUME NEW l, Clean(l), l.ty # "module"
      PROVE  Clean(Masked(l)) /\ Masked(l).k = l.k /\ Masked(l).ty # "module"
  <2>1. l \in LineType
    BY <1>1 DEF Clean
  <2> QED BY <1>1, <2>1, MaskedIs, CleanExcept DEF ItemNames
<1>2. ASSUME NEW i \in DOMAIN t
      PROVE  /\ Clean(Protect(t, lines)[i]) /\ Protect(t, lines)[i].k = t[i].k
             /\ Protect(t, lines)[i].ty # "module"
  <2>1. Clean(t[i]) /\ t[i].ty # "module"
    BY SoundLine
  <2>2. Protect(t, lines)[i] = IF i \in lines THEN Masked(t[i]) ELSE t[i]
    BY DEF Protect
  <2> QED BY <2>1, <2>2, <1>1
<1>3. Protect(t, lines) = [i \in DOMAIN t |-> Protect(t, lines)[i]]
  BY DEF Protect
<1> QED BY <1>2, <1>3, SoundPointwise

LEMMA StrippedPiece ==
  ASSUME NEW l, Clean(l), l.ty # "module", NEW t
  PROVE  LET x == Stripped(l, t)
         IN  OneFor(l, x) /\ (x # <<>> => Clean(x[1]) /\ x[1].ty # "module" /\ x[1].k = l.k)
<1> DEFINE x == Stripped(l, t)
           m == WithoutItems(l, Strippable(l, t))
<1>1. l \in LineType
  BY DEF Clean
<1>2. m \in LineType /\ m.k = l.k /\ m.ty = l.ty /\ ItemNames(m) \subseteq ItemNames(l)
  BY <1>1, FewerItems
<1>3. x = IF l.k = "decl" /\ m.it = <<>> THEN <<>> ELSE <<m>>
  BY DEF Stripped
<1> HIDE DEF m, x
<1>4. Clean(m)
  BY <1>1, <1>2, CleanExcept
<1>5. l.k = "decl" => ~Structural(l)
  BY DEF Structural
<1>6. OneFor(l, x) /\ (x # <<>> => Clean(x[1]) /\ x[1].ty # "module" /\ x[1].k = l.k)
  BY <1>1, <1>2, <1>3, <1>4, <1>5, OneLine, NoLine
<1> QED BY <1>6 DEF x

LEMMA StripKnownSound ==
  ASSUME NEW t, Sound(t)
  PROVE  Sound(StripKnown(t)) /\ UNION {Strippable(l, t) : l \in ToSet(t)} \subseteq Known
<1> DEFINE x == [i \in DOMAIN t |-> Stripped(t[i], t)]
<1>1. ASSUME NEW i \in DOMAIN t
      PROVE  OneFor(t[i], x[i]) /\ (x[i] # <<>> => Clean(x[i][1]) /\ x[i][1].ty # "module")
  BY SoundLine, StrippedPiece
<1>2. StripKnown(t) = FlattenSeq(x)
  BY DEF StripKnown
<1>3. x = [i \in DOMAIN t |-> x[i]]
  OBVIOUS
<1>4. \A l : Strippable(l, t) \subseteq Known
  BY DEF Strippable
<1> HIDE DEF x
<1> QED BY <1>1, <1>2, <1>3, <1>4, SoundPieces

-----------------------------------------------------------------------------
(* Constants become assignments.                                           *)

GuardType == [wrap : SUBSET Config, history : SUBSET Config]

LEMMA GuardStackType ==
  ASSUME NEW st \in Seq(GuardType), NEW l \in LineType
  PROVE  GuardStack(st, l) \in Seq(GuardType)
<1>1. l.cond \subseteq Config
  BY LineFields
<1> DEFINE c == [wrap |-> l.cond, history |-> l.cond]
<1>2. c \in GuardType
  BY <1>1 DEF GuardType
<1>3. Append(st, c) \in Seq(GuardType)
  BY <1>2
<1>4. ASSUME st # <<>>
      PROVE  /\ Top(st) \in GuardType
             /\ \A f \in GuardType : SetTop(st, f) \in Seq(GuardType)
             /\ SubSeq(st, 1, Len(st) - 1) \in Seq(GuardType)
  <2>1. Len(st) \in 1 .. Len(st) /\ Len(st) \in Nat
    BY <1>4
  <2>2. Top(st) \in GuardType
    BY <2>1 DEF Top
  <2>3. ASSUME NEW f \in GuardType PROVE SetTop(st, f) \in Seq(GuardType)
    BY <2>1 DEF SetTop
  <2>4. SubSeq(st, 1, Len(st) - 1) \in Seq(GuardType)
    <3>1. \A i \in 1 .. Len(st) - 1 : st[i] \in GuardType
      BY <2>1
    <3>2. Len(st) - 1 \in Nat
      BY <2>1
    <3> QED BY <3>1, <3>2, SubSeqProperties
  <2> QED BY <2>2, <2>3, <2>4
<1>5. ASSUME st # <<>>
      PROVE  /\ [wrap |-> l.cond \ Top(st).history, history |-> Top(st).history \cup l.cond] \in GuardType
             /\ [Top(st) EXCEPT !.wrap = Config \ Top(st).history] \in GuardType
  BY <1>1, <1>4, <1>5 DEF GuardType
<1>6. CASE st = <<>> /\ l.k # "if"
  BY <1>6 DEF GuardStack
<1>7. CASE l.k = "if"
  <2>1. GuardStack(st, l) = Append(st, c)
    BY <1>7 DEF GuardStack
  <2> QED BY <2>1, <1>3
<1>8. CASE st # <<>> /\ l.k # "if"
  <2>1. CASE l.k = "elif"
    BY <1>4, <1>5, <1>8, <2>1 DEF GuardStack
  <2>2. CASE l.k = "else"
    BY <1>4, <1>5, <1>8, <2>2 DEF GuardStack
  <2>3. CASE l.k = "endif"
    BY <1>4, <1>8, <2>3 DEF GuardStack
  <2>4. CASE l.k \notin {"elif", "else", "endif"}
    BY <1>8, <2>4 DEF GuardStack
  <2> QED BY <2>1, <2>2, <2>3, <2>4
<1> QED BY <1>6, <1>7, <1>8

LEMMA GuardStacksType ==
  ASSUME NEW t \in Seq(LineType)
  PROVE  \A i \in 0 .. Len(t) : GuardStacks(t)[i] \in Seq(GuardType)
<1> DEFINE N         == Len(t)
           Val(g, i) == IF i = 0 THEN <<>> ELSE GuardStack(g[i - 1], t[i])
           UpTo(g, n) == \A i \in 0 .. N : i <= n => g[i] \in Seq(GuardType) /\ g[i] = Val(g, i)
           T         == {n \in Nat : ~ \E g : UpTo(g, n)}
<1>1. N \in Nat /\ \A i \in 1 .. N : t[i] \in LineType
  OBVIOUS
<1>2. GuardStacks(t) = CHOOSE g : g = [i \in 0 .. N |-> Val(g, i)]
  BY Zenon DEF GuardStacks
<1> HIDE DEF N
<1>3. T = {}
  <2>1. SUFFICES ASSUME T # {} PROVE FALSE
    OBVIOUS
  <2>2. PICK m \in T : \A n \in T : m <= n
    <3>1. T \in SUBSET Nat
      OBVIOUS
    <3> HIDE DEF T
    <3> QED BY <2>1, <3>1, LeastOf
  <2>3. m \in Nat /\ ~ \E g : UpTo(g, m)
    OBVIOUS
  <2>4. CASE m = 0
    <3> DEFINE z == [i \in 0 .. N |-> <<>>]
    <3>1. UpTo(z, 0)
      <4>1. <<>> \in Seq(GuardType)
        OBVIOUS
      <4> QED BY <1>1, <4>1
    <3> HIDE DEF z
    <3> QED BY <3>1, <2>3, <2>4
  <2>5. CASE m # 0
    <3>1. m - 1 \in Nat /\ m - 1 \notin T
      <4>1. m - 1 \in Nat /\ ~ (m <= m - 1)
        BY <2>3, <2>5
      <4> HIDE DEF T
      <4> QED BY <2>2, <4>1
    <3>2. PICK g : UpTo(g, m - 1)
      BY <3>1
    <3> DEFINE h == [i \in 0 .. N |-> IF i < m THEN g[i] ELSE Val(g, i)]
    <3>3. ASSUME NEW i \in 0 .. N, i <= m PROVE h[i] \in Seq(GuardType) /\ h[i] = Val(h, i)
      <4>1. CASE i = 0
        <5>1. h[i] = g[i] /\ g[i] = <<>>
          BY <3>2, <4>1, <2>3, <2>5, <3>1
        <5>2. <<>> \in Seq(GuardType)
          OBVIOUS
        <5> HIDE DEF h
        <5> QED BY <5>1, <5>2, <4>1
      <4>2. CASE i # 0
        <5>1. i - 1 \in 0 .. N /\ i - 1 < m /\ i - 1 <= m - 1 /\ i \in 1 .. N
          BY <4>2, <3>3, <2>3, <1>1
        <5>2. h[i - 1] = g[i - 1] /\ g[i - 1] \in Seq(GuardType)
          BY <5>1, <3>2
        <5>3. h[i] = GuardStack(g[i - 1], t[i])
          <6>1. CASE i < m
            <7>1. i <= m - 1
              BY <6>1, <2>3, <1>1
            <7>2. g[i] = Val(g, i)
              BY <7>1, <3>2
            <7> QED BY <7>2, <6>1, <4>2
          <6>2. CASE ~(i < m)
            BY <6>2, <4>2
          <6> QED BY <6>1, <6>2
        <5>4. t[i] \in LineType
          BY <5>1, <1>1
        <5>5. GuardStack(g[i - 1], t[i]) \in Seq(GuardType)
          BY <5>2, <5>4, GuardStackType
        <5> HIDE DEF h
        <5> QED BY <5>2, <5>3, <5>5, <4>2
      <4> QED BY <4>1, <4>2
    <3>4. UpTo(h, m)
      <4> HIDE DEF h
      <4> QED BY <3>3
    <3> QED BY <2>3, <3>4
  <2> QED BY <2>4, <2>5
<1>4. PICK g : UpTo(g, N)
  BY <1>3, <1>1
<1> DEFINE h == [i \in 0 .. N |-> Val(g, i)]
<1>5. \A i \in 0 .. N : h[i] = g[i]
  BY <1>4, <1>1
<1>6. h = [i \in 0 .. N |-> Val(h, i)]
  <2>1. ASSUME NEW i \in 0 .. N PROVE Val(g, i) = Val(h, i)
    <3>1. i # 0 => i - 1 \in 0 .. N
      BY <1>1
    <3> HIDE DEF h
    <3> QED BY <3>1, <1>5
  <2> QED BY <2>1
<1>7. GuardStacks(t) = [i \in 0 .. N |-> Val(GuardStacks(t), i)]
  <2> HIDE DEF h
  <2> QED BY <1>6, <1>2, Zenon
<1> DEFINE G == GuardStacks(t)
<1>8. \A i \in 0 .. N : G[i] = Val(G, i)
  BY <1>7
<1> HIDE DEF G
<1> DEFINE Q == {n \in Nat : n \in 0 .. N /\ G[n] \notin Seq(GuardType)}
<1>9. Q = {}
  <2>1. SUFFICES ASSUME Q # {} PROVE FALSE
    OBVIOUS
  <2>2. PICK m \in Q : \A n \in Q : m <= n
    <3>1. Q \in SUBSET Nat
      OBVIOUS
    <3> HIDE DEF Q
    <3> QED BY <2>1, <3>1, LeastOf
  <2>3. m \in 0 .. N /\ G[m] \notin Seq(GuardType)
    OBVIOUS
  <2>4. CASE m = 0
    <3>1. G[m] = <<>>
      BY <2>3, <2>4, <1>8
    <3>2. <<>> \in Seq(GuardType)
      OBVIOUS
    <3> HIDE DEF Q
    <3> QED BY <2>3, <3>1, <3>2
  <2>5. CASE m # 0
    <3>1. m - 1 \in 0 .. N /\ m - 1 \notin Q /\ m \in 1 .. N
      <4>1. m - 1 \in 0 .. N /\ ~ (m <= m - 1) /\ m \in 1 .. N
        BY <2>3, <2>5, <1>1
      <4> HIDE DEF Q
      <4> QED BY <2>2, <4>1
    <3>2. G[m - 1] \in Seq(GuardType)
      BY <3>1
    <3>3. G[m] = GuardStack(G[m - 1], t[m]) /\ t[m] \in LineType
      BY <2>3, <2>5, <3>1, <1>8, <1>1
    <3> QED BY <3>2, <3>3, <2>3, GuardStackType
  <2> QED BY <2>4, <2>5
<1>10. \A i \in 0 .. N : G[i] \in Seq(GuardType)
  BY <1>9, <1>1
<1> QED BY <1>10 DEF G, N

\* The lines the passes put in with an assignment.
AddedLines == {l \in LineType : Clean(l) /\ l.ty = "none" /\ l.k \in {"assign", "if", "endif"}}
ExtraType  == [scope : Nat, ls : Seq(AddedLines)]

LEMMA GuardedType ==
  ASSUME NEW st \in Seq(GuardType), NEW x \in ItemType, x.n \notin TargetTypes
  PROVE  Guarded(x, st) \in Seq(AddedLines)
<1>1. ASSUME NEW l \in LineType, ItemNames(l) = {}, l.ty = "none", l.k \in {"assign", "if", "endif"}
      PROVE  l \in AddedLines
  BY <1>1 DEF AddedLines, Clean
<1>2. "if" \in Kinds /\ "endif" \in Kinds /\ "assign" \in Kinds
  BY DEF Kinds
<1>3. \A c \in SUBSET Config : Guard(c) \in AddedLines
  <2> SUFFICES ASSUME NEW c \in SUBSET Config PROVE Guard(c) \in AddedLines
    OBVIOUS
  <2>1. Line("if") \in LineType /\ Line("if").k = "if" /\ Line("if").ty = "none" /\ Line("if").it = <<>>
        /\ ItemNames(Line("if")) = {}
    BY <1>2, NewLine
  <2>2. /\ Guard(c) \in LineType /\ Guard(c).k = "if" /\ Guard(c).ty = "none" /\ Guard(c).it = <<>>
    BY <2>1, LineExcept DEF Guard
  <2>3. ItemNames(Guard(c)) = {}
    BY <2>1, <2>2 DEF ItemNames
  <2> QED BY <1>1, <2>2, <2>3
<1>4. Line("endif") \in AddedLines
  <2>1. Line("endif") \in LineType /\ Line("endif").k = "endif" /\ Line("endif").ty = "none"
        /\ ItemNames(Line("endif")) = {}
    BY <1>2, NewLine
  <2> QED BY <1>1, <2>1
<1>5. Assign(x) \in AddedLines
  <2>1. Line("assign") \in LineType /\ Line("assign").k = "assign" /\ Line("assign").ty = "none"
    BY <1>2, NewLine
  <2>2. <<x>> \in Seq(ItemType) /\ ToSet(<<x>>) = {x}
    BY DEF ToSet
  <2>3. /\ Assign(x) \in LineType /\ Assign(x).k = "assign" /\ Assign(x).ty = "none" /\ Assign(x).it = <<x>>
    BY <2>1, <2>2, LineExcept DEF Assign
  <2>4. ItemNames(Assign(x)) = {x.n}
    BY <2>2, <2>3 DEF ItemNames
  <2> QED BY <2>3, <2>4 DEF AddedLines, Clean, IsComment, IsDirective
<1>6. DOMAIN st = 1 .. Len(st) /\ Len(st) \in Nat /\ \A i \in DOMAIN st : st[i].wrap \in SUBSET Config
  <2>1. DOMAIN st = 1 .. Len(st) /\ Len(st) \in Nat /\ \A i \in DOMAIN st : st[i] \in GuardType
    OBVIOUS
  <2>2. \A g \in GuardType : g.wrap \in SUBSET Config
    BY DEF GuardType
  <2> QED BY <2>1, <2>2
<1>7. [i \in DOMAIN st |-> Guard(st[i].wrap)] \in Seq(AddedLines)
  BY <1>3, <1>6
<1>8. [i \in DOMAIN st |-> Line("endif")] \in Seq(AddedLines)
  BY <1>4, <1>6
<1>9. <<Assign(x)>> \in Seq(AddedLines)
  BY <1>5
<1> QED BY <1>7, <1>8, <1>9, ConcatPlaces DEF Guarded

LEMMA ScopeType ==
  ASSUME NEW t \in Seq(LineType), NEW i
  PROVE  Scope(t, i) \in Nat
<1>1. IsFiniteSet(1 .. Len(t))
  <2>1. 1 \in Int /\ Len(t) \in Int
    OBVIOUS
  <2> QED BY <2>1, FS_Interval
<1>2. {h \in Procedures(t) : h <= i} \subseteq 1 .. Len(t)
  <2>1. DOMAIN t = 1 .. Len(t)
    OBVIOUS
  <2> QED BY <2>1 DEF Procedures, Lines
<1> QED BY <1>1, <1>2, FS_Subset, FS_CardinalityType DEF Scope

LEMMA NewAssignmentsType ==
  ASSUME NEW l, Clean(l), NEW t, NEW sc \in Nat, NEW st \in Seq(GuardType)
  PROVE  NewAssignments(l, t, sc, st) \in Seq(ExtraType)
<1> DEFINE a == Assigned(l, t)
<1>1. a \in Seq(ItemType) /\ ToSet(a) \subseteq ToSet(l.it)
  <2>1. l.it \in Seq(ItemType)
    BY LineFields DEF Clean
  <2> QED BY <2>1, PickedItems DEF Assigned
<1>2. NewAssignments(l, t, sc, st) = [i \in DOMAIN a |-> [scope |-> sc, ls |-> Guarded(a[i], st)]]
  BY DEF NewAssignments
<1> HIDE DEF a
<1>3. DOMAIN a = 1 .. Len(a) /\ Len(a) \in Nat
  BY <1>1
<1>4. ASSUME NEW i \in DOMAIN a PROVE [scope |-> sc, ls |-> Guarded(a[i], st)] \in ExtraType
  <2>1. a[i] \in ItemType /\ a[i] \in ToSet(l.it)
    <3>1. a[i] \in ItemType
      BY <1>1
    <3>2. a[i] \in ToSet(a)
      BY DEF ToSet
    <3> QED BY <3>1, <3>2, <1>1
  <2>2. a[i].n \notin TargetTypes
    BY <2>1 DEF Clean, ItemNames
  <2> QED BY <2>1, <2>2, GuardedType DEF ExtraType
<1> QED BY <1>2, <1>3, <1>4

LEMMA BareItemsType ==
  ASSUME NEW s \in Seq(ItemType)
  PROVE  /\ BareItems(s) \in Seq(ItemType)
         /\ {x.n : x \in ToSet(BareItems(s))} = {x.n : x \in ToSet(s)}
<1>1. DOMAIN s = 1 .. Len(s) /\ Len(s) \in Nat /\ \A i \in DOMAIN s : s[i] \in ItemType
  OBVIOUS
<1>2. \A x \in ItemType : Item(x.n, Bare) \in ItemType /\ Item(x.n, Bare).n = x.n
  BY ModuleAssumption DEF Item, Bare, Value, ItemType
<1>3. \A i \in DOMAIN s : BareItems(s)[i] \in ItemType /\ BareItems(s)[i].n = s[i].n
  BY <1>1, <1>2 DEF BareItems
<1>4. BareItems(s) = [i \in DOMAIN s |-> BareItems(s)[i]]
  BY DEF BareItems
<1>5. BareItems(s) \in Seq(ItemType) /\ DOMAIN BareItems(s) = DOMAIN s
  BY <1>1, <1>3, <1>4
<1> QED BY <1>3, <1>5 DEF ToSet

LEMMA ParameterRestPiece ==
  ASSUME NEW l, Clean(l), l.k = "param", l.ty # "module", NEW t
  PROVE  LET x == ParameterRest(l, t)
         IN  OneFor(l, x) /\ (x # <<>> => Clean(x[1]) /\ x[1].ty # "module")
<1> DEFINE a == Assigned(l, t)
           o == ItemsIn(l.it, {x \in ToSet(l.it) : ~IsFpValue(x.v)})
           d == [Line("decl") EXCEPT !.ty = CombinedType(l), !.it = BareItems(a)]
           m == [l EXCEPT !.it = o]
           c == Line("comment")
<1>1. l \in LineType /\ l.it \in Seq(ItemType)
  BY LineFields DEF Clean
<1>2. a \in Seq(ItemType) /\ ToSet(a) \subseteq ToSet(l.it)
  BY <1>1, PickedItems DEF Assigned
<1>3. o \in Seq(ItemType) /\ ToSet(o) \subseteq ToSet(l.it)
  BY <1>1, PickedItems
<1>4. "decl" \in Kinds /\ "comment" \in Kinds /\ CombinedType(l) \in Types /\ CombinedType(l) # "module"
  BY <1>1, LineFields DEF Kinds, CombinedType, Types
<1>5. ParameterRest(l, t) = IF l.ty # "none" THEN IF a = <<>> THEN <<>> ELSE <<d>>
                            ELSE IF o # <<>> THEN <<m>> ELSE IF a # <<>> THEN <<c>> ELSE <<>>
  BY DEF ParameterRest
<1>6. d \in LineType /\ d.k = "decl" /\ d.ty = CombinedType(l) /\ d.it = BareItems(a)
  <2>1. BareItems(a) \in Seq(ItemType)
    BY <1>2, BareItemsType
  <2>2. Line("decl") \in LineType /\ Line("decl").k = "decl"
    BY <1>4, NewLine
  <2> HIDE DEF a
  <2> QED BY <1>4, <2>1, <2>2 DEF LineType
<1>7. Clean(d) /\ d.ty # "module"
  <2>1. ItemNames(d) = {x.n : x \in ToSet(a)}
    BY <1>2, <1>6, BareItemsType DEF ItemNames
  <2>2. ItemNames(d) \subseteq ItemNames(l)
    BY <1>2, <2>1 DEF ItemNames
  <2> HIDE DEF d
  <2> QED BY <1>4, <1>6, <2>2 DEF Clean, IsComment, IsDirective
<1>8. m \in LineType /\ m.k = l.k /\ Clean(m) /\ m.ty # "module"
  <2>1. m \in LineType /\ m.k = l.k /\ m.ty = l.ty /\ m.it = o
    BY <1>1, <1>3, LineExcept
  <2>2. ItemNames(m) \subseteq ItemNames(l)
    BY <1>3, <2>1 DEF ItemNames
  <2> HIDE DEF m
  <2> QED BY <2>1, <2>2, CleanExcept
<1>9. c \in LineType /\ Clean(c) /\ c.k = "comment" /\ c.ty # "module"
  BY <1>4, NewLine DEF Clean
<1>10. ~Structural(l) /\ ~Structural(d) /\ ~Structural(m) /\ ~Structural(c)
  <2>1. l.k = "param" /\ d.k = "decl" /\ m.k = "param" /\ c.k = "comment"
    BY <1>6, <1>8, <1>9
  <2> HIDE DEF d, m, c
  <2> QED BY <2>1 DEF Structural
<1>11. \A y \in LineType : ~Structural(y) => OneFor(l, <<y>>) /\ <<y>> # <<>> /\ <<y>>[1] = y
  BY <1>10 DEF OneFor
<1> HIDE DEF a, o, d, m, c
<1>12. OneFor(l, <<>>)
  BY <1>10, NoLine
<1> QED BY <1>5, <1>6, <1>7, <1>8, <1>9, <1>10, <1>11, <1>12

LEMMA ConvertParametersSound ==
  ASSUME NEW t, Sound(t)
  PROVE  LET r == ConvertParameters(t)
         IN  Sound(r.out) /\ r.extra \in Seq(ExtraType) /\ r.folded \subseteq Known
<1> DEFINE converts(l) == l.k = "param" /\ Convertible(l)
           x == [i \in DOMAIN t |-> IF converts(t[i]) THEN ParameterRest(t[i], t) ELSE <<t[i]>>]
           e == [i \in DOMAIN t |->
                   IF converts(t[i]) THEN NewAssignments(t[i], t, Scope(t, i), GuardStacks(t)[i]) ELSE <<>>]
           f == UNION {FoldedNames(l, t) : l \in {l \in ToSet(t) : converts(l)}}
<1>1. ConvertParameters(t) = [out |-> FlattenSeq(x), extra |-> FlattenSeq(e), folded |-> f]
  BY DEF ConvertParameters
<1>2. t \in Seq(LineType) /\ DOMAIN t = 1 .. Len(t) /\ Len(t) \in Nat
  BY DEF Sound
<1>3. ASSUME NEW i \in DOMAIN t
      PROVE  OneFor(t[i], x[i]) /\ (x[i] # <<>> => Clean(x[i][1]) /\ x[i][1].ty # "module")
  <2>1. Clean(t[i]) /\ t[i].ty # "module" /\ t[i] \in LineType
    BY SoundLine
  <2>2. CASE converts(t[i])
    <3>1. x[i] = ParameterRest(t[i], t)
      BY <2>2
    <3> HIDE DEF x
    <3> QED BY <2>1, <2>2, <3>1, ParameterRestPiece
  <2>3. CASE ~converts(t[i])
    <3>1. x[i] = <<t[i]>>
      BY <2>3
    <3> HIDE DEF x
    <3> QED BY <2>1, <3>1, OneLine
  <2> QED BY <2>2, <2>3
<1>4. Sound(FlattenSeq(x))
  <2>1. x = [i \in DOMAIN t |-> x[i]]
    OBVIOUS
  <2> HIDE DEF x
  <2> QED BY <1>3, <2>1, SoundPieces
<1>5. ASSUME NEW i \in DOMAIN t PROVE e[i] \in Seq(ExtraType)
  <2>1. Clean(t[i])
    BY SoundLine
  <2>2. GuardStacks(t)[i] \in Seq(GuardType) /\ Scope(t, i) \in Nat
    BY <1>2, GuardStacksType, ScopeType
  <2>3. NewAssignments(t[i], t, Scope(t, i), GuardStacks(t)[i]) \in Seq(ExtraType)
    BY <2>1, <2>2, NewAssignmentsType
  <2> QED BY <2>3
<1>6. FlattenSeq(e) \in Seq(ExtraType)
  <2>1. e \in Seq(Seq(ExtraType))
    BY <1>2, <1>5
  <2> HIDE DEF e
  <2> QED BY <2>1, FlattenPlaces
<1>7. f \subseteq Known
  BY DEF FoldedNames, FoldsAway
<1> HIDE DEF x, e, f
<1> QED BY <1>1, <1>4, <1>6, <1>7

DataRest(l) ==
  IF ~IsFpData(l) THEN <<l>> ELSE IF WithoutItems(l, Known).it = <<>> THEN <<>> ELSE <<Line("comment")>>

LEMMA DataPiece ==
  ASSUME NEW l, Clean(l), l.ty # "module"
  PROVE  LET x == DataRest(l)
         IN  OneFor(l, x) /\ (x # <<>> => Clean(x[1]) /\ x[1].ty # "module")
<1> DEFINE x == DataRest(l)
<1>1. l \in LineType
  BY DEF Clean
<1>2. CASE ~IsFpData(l)
  <2>1. x = <<l>>
    BY <1>2 DEF DataRest
  <2> HIDE DEF x
  <2>2. OneFor(l, x) /\ (x # <<>> => Clean(x[1]) /\ x[1].ty # "module")
    BY <1>1, <2>1, OneLine
  <2> QED BY <2>2 DEF x
<1>3. CASE IsFpData(l)
  <2>1. x = <<>> \/ x = <<Line("comment")>>
    BY <1>3 DEF DataRest
  <2>2. l.k = "data" /\ ~Structural(l)
    BY <1>3 DEF IsFpData, Structural
  <2>3. "comment" \in Kinds
    BY DEF Kinds
  <2>4. PICK c : c = Line("comment")
    OBVIOUS
  <2>5. c \in LineType /\ Clean(c) /\ c.ty # "module" /\ ~Structural(c)
    BY <2>3, <2>4, NewLine DEF Clean, Structural
  <2>6. OneFor(l, <<c>>) /\ <<c>> # <<>> /\ <<c>>[1] = c /\ OneFor(l, <<>>)
    BY <2>2, <2>5, NoLine DEF OneFor
  <2> HIDE DEF x
  <2>7. OneFor(l, x) /\ (x # <<>> => Clean(x[1]) /\ x[1].ty # "module")
    BY <2>1, <2>4, <2>5, <2>6
  <2> QED BY <2>7 DEF x
<1> QED BY <1>2, <1>3

DataExtras(t, i) ==
  LET s == WithoutItems(t[i], Known).it
  IN  [j \in DOMAIN s |-> [scope |-> Scope(t, i), ls |-> <<Assign(s[j])>>]]

LEMMA DataExtrasType ==
  ASSUME NEW t, Sound(t)
  PROVE  [i \in DOMAIN t |-> IF IsFpData(t[i]) THEN DataExtras(t, i) ELSE <<>>] \in Seq(Seq(ExtraType))
<1> DEFINE assigned(l) == WithoutItems(l, Known).it
           extras(i) == DataExtras(t, i)
           e == [i \in DOMAIN t |-> IF IsFpData(t[i]) THEN extras(i) ELSE <<>>]
<1>2. t \in Seq(LineType) /\ DOMAIN t = 1 .. Len(t) /\ Len(t) \in Nat
  BY DEF Sound
<1>5. ASSUME NEW i \in DOMAIN t PROVE extras(i) \in Seq(ExtraType)
  <2>1. Clean(t[i]) /\ t[i] \in LineType
    BY SoundLine
  <2>2. PICK s : s = assigned(t[i])
    OBVIOUS
  <2>3. s \in Seq(ItemType) /\ ToSet(s) \subseteq ToSet(t[i].it)
    BY <2>1, <2>2, FewerItems, LineFields
  <2>4. ASSUME NEW j \in DOMAIN s PROVE [scope |-> Scope(t, i), ls |-> <<Assign(s[j])>>] \in ExtraType
    <3>1. s[j] \in ItemType /\ s[j] \in ToSet(t[i].it)
      BY <2>3 DEF ToSet
    <3>2. s[j].n \notin TargetTypes
      BY <2>1, <3>1 DEF Clean, ItemNames
    <3>3. Guarded(s[j], <<>>) \in Seq(AddedLines)
      <4>1. <<>> \in Seq(GuardType)
        OBVIOUS
      <4> QED BY <3>1, <3>2, <4>1, GuardedType
    <3>4. Guarded(s[j], <<>>) = <<Assign(s[j])>>
      <4> DEFINE as == Assign(s[j])
      <4>1. [k \in DOMAIN <<>> |-> Guard(<<>>[k].wrap)] = <<>> /\ [k \in DOMAIN <<>> |-> Line("endif")] = <<>>
        OBVIOUS
      <4>2. Guarded(s[j], <<>>) = <<>> \o <<as>> \o <<>>
        BY <4>1, Zenon DEF Guarded
      <4> HIDE DEF as
      <4>3. <<>> \o <<as>> \o <<>> = <<as>>
        OBVIOUS
      <4> QED BY <4>2, <4>3 DEF as
    <3>5. Scope(t, i) \in Nat
      BY <1>2, ScopeType
    <3> QED BY <3>3, <3>4, <3>5 DEF ExtraType
  <2>5. DOMAIN s = 1 .. Len(s) /\ Len(s) \in Nat
    BY <2>3
  <2>6. extras(i) = [j \in DOMAIN s |-> [scope |-> Scope(t, i), ls |-> <<Assign(s[j])>>]]
    BY <2>2 DEF DataExtras
  <2> HIDE DEF extras
  <2> QED BY <2>4, <2>5, <2>6
<1>6. e \in Seq(Seq(ExtraType))
  <2>1. \A i \in DOMAIN t : e[i] \in Seq(ExtraType)
    <3> HIDE DEF extras
    <3>1. <<>> \in Seq(ExtraType)
      OBVIOUS
    <3> QED BY <1>5, <3>1
  <2>2. e = [i \in DOMAIN t |-> e[i]]
    OBVIOUS
  <2> HIDE DEF e
  <2> QED BY <1>2, <2>1, <2>2
<1> QED BY <1>6

LEMMA ConvertDataSound ==
  ASSUME NEW t, Sound(t)
  PROVE  LET r == ConvertData(t)
         IN  Sound(r.out) /\ r.extra \in Seq(ExtraType) /\ r.folded \subseteq Known
<1> DEFINE x == [i \in DOMAIN t |-> DataRest(t[i])]
           e == [i \in DOMAIN t |-> IF IsFpData(t[i]) THEN DataExtras(t, i) ELSE <<>>]
           f == Known \cap UNION {ItemNames(l) : l \in {l \in ToSet(t) : IsFpData(l)}}
<1>1. ConvertData(t) = [out |-> FlattenSeq(x), extra |-> FlattenSeq(e), folded |-> f]
  BY DEF ConvertData, DataRest, DataExtras
<1>2. t \in Seq(LineType) /\ DOMAIN t = 1 .. Len(t) /\ Len(t) \in Nat
  BY DEF Sound
<1>3. ASSUME NEW i \in DOMAIN t
      PROVE  OneFor(t[i], x[i]) /\ (x[i] # <<>> => Clean(x[i][1]) /\ x[i][1].ty # "module")
  BY SoundLine, DataPiece
<1>4. Sound(FlattenSeq(x))
  <2>1. x = [i \in DOMAIN t |-> x[i]]
    OBVIOUS
  <2> HIDE DEF x
  <2> QED BY <1>3, <2>1, SoundPieces
<1>6. FlattenSeq(e) \in Seq(ExtraType)
  <2>1. e \in Seq(Seq(ExtraType))
    BY DataExtrasType
  <2> HIDE DEF e
  <2> QED BY <2>1, FlattenPlaces
<1>7. f \subseteq Known
  OBVIOUS
<1> HIDE DEF x, e, f
<1> QED BY <1>1, <1>4, <1>6, <1>7

-----------------------------------------------------------------------------
(* Every header gets the import.                                           *)

LEMMA FirstOfLeast ==
  ASSUME NEW T \in SUBSET Nat, T # {}
  PROVE  FirstOf(T) \in T /\ \A j \in T : FirstOf(T) <= j
BY LeastOf DEF FirstOf

LEMMA AfterHeaderIs ==
  ASSUME NEW t \in Seq(LineType), NEW h \in DOMAIN t
  PROVE  LET a == AfterHeader(t, h)
         IN  /\ a \in h + 1 .. Len(t) + 1
             /\ \A k \in h + 1 .. a - 1 : k \in DOMAIN t /\ IsDirective(t[k])
<1> DEFINE T == {k \in h + 1 .. Len(t) + 1 : k > Len(t) \/ ~IsDirective(t[k])}
<1>1. h \in 1 .. Len(t) /\ Len(t) \in Nat /\ DOMAIN t = 1 .. Len(t)
  OBVIOUS
<1>2. T \in SUBSET Nat /\ Len(t) + 1 \in T
  BY <1>1
<1>3. AfterHeader(t, h) = FirstOf(T)
  BY DEF AfterHeader
<1> HIDE DEF T
<1>4. FirstOf(T) \in T /\ \A j \in T : FirstOf(T) <= j
  BY <1>2, FirstOfLeast
<1>5. FirstOf(T) \in h + 1 .. Len(t) + 1
  BY <1>4 DEF T
<1>6. ASSUME NEW k \in h + 1 .. FirstOf(T) - 1 PROVE k \in DOMAIN t /\ IsDirective(t[k])
  <2>1. k \in DOMAIN t /\ k \in h + 1 .. Len(t) + 1 /\ ~ (FirstOf(T) <= k)
    BY <1>1, <1>5
  <2>2. k \notin T
    BY <2>1, <1>4
  <2> QED BY <2>1, <2>2 DEF T
<1> QED BY <1>3, <1>5, <1>6

LEMMA ExtrasType ==
  ASSUME NEW e \in Seq(ExtraType), NEW sc
  PROVE  ExtrasOf(e, sc) \in Seq(AddedLines)
<1> DEFINE z == [i \in DOMAIN e |-> IF e[i].scope = sc THEN e[i].ls ELSE <<>>]
<1>1. DOMAIN e = 1 .. Len(e) /\ Len(e) \in Nat /\ \A i \in DOMAIN e : e[i] \in ExtraType
  OBVIOUS
<1>2. \A x \in ExtraType : x.ls \in Seq(AddedLines)
  BY DEF ExtraType
<1>3. <<>> \in Seq(AddedLines)
  OBVIOUS
<1>4. z \in Seq(Seq(AddedLines))
  BY <1>1, <1>2, <1>3
<1> HIDE DEF z
<1>5. FlattenSeq(z) \in Seq(AddedLines)
  BY <1>4, FlattenPlaces
<1> QED BY <1>5 DEF ExtrasOf, z

Inserted == AddedLines \cup {BareUse}

LEMMA InsertedLines ==
  /\ BareUse \in LineType /\ BareUse.k = "use" /\ BareUse.ty = "module"
  /\ Inserted \subseteq LineType
  /\ \A l \in Inserted : Clean(l) /\ ~Structural(l) /\ (l.ty = "module" => l = BareUse)
<1>1. "use" \in Kinds /\ "module" \in Types
  BY DEF Kinds, Types
<1>2. /\ Line("use") \in LineType /\ Line("use").k = "use" /\ Line("use").ty = "none"
      /\ Line("use").it = <<>> /\ ItemNames(Line("use")) = {}
  BY <1>1, NewLine
<1>3. BareUse \in LineType /\ BareUse.k = "use" /\ BareUse.ty = "module" /\ BareUse.it = <<>>
  BY <1>1, <1>2, LineExcept DEF BareUse
<1>4. ItemNames(BareUse) = {}
  BY <1>2, <1>3 DEF ItemNames
<1>5. Clean(BareUse) /\ ~Structural(BareUse)
  BY <1>3, <1>4 DEF Clean, Structural, IsComment, IsDirective
<1>6. \A l \in AddedLines : l \in LineType /\ Clean(l) /\ ~Structural(l) /\ l.ty = "none"
  BY DEF AddedLines, Structural
<1> HIDE DEF BareUse
<1> QED BY <1>3, <1>5, <1>6 DEF Inserted

Placed(t) ==
  /\ t \in Seq(LineType) /\ WellFormed(t)
  /\ \A i \in DOMAIN t : Clean(t[i]) /\ (t[i].ty = "module" => t[i] = BareUse)
  /\ \A h \in Lines(t, "header") : \E u \in DOMAIN t : Under(t, h, u) /\ t[u] = BareUse

\* What insert_use_multifloats puts in front of line i, and the line.
UseAt(t, i) ==
  IF \E h \in Lines(t, "header") : AfterHeader(t, h) = i /\ ~HasUseNearby(t, i) THEN <<BareUse>> ELSE <<>>
AssignsOf(t, e, i, n) ==
  IF \E h \in Procedures(t) : Scope(t, h) = n /\ WalkDeclBlock(t, AfterHeader(t, h)) = i
  THEN ExtrasOf(e, n) ELSE <<>>
AssignAt(t, e, i) == FlattenSeq([n \in 1 .. Cardinality(Procedures(t)) |-> AssignsOf(t, e, i, n)])
OwnLine(t, i) == IF i \in DOMAIN t THEN <<t[i]>> ELSE <<>>
InsertPieces(t, e) == [i \in 1 .. Len(t) + 1 |-> UseAt(t, i) \o AssignAt(t, e, i) \o OwnLine(t, i)]

LEMMA InsertUseIs ==
  ASSUME NEW t, NEW e
  PROVE  InsertUse(t, e) = FlattenSeq(InsertPieces(t, e))
BY DEF InsertUse, InsertPieces, UseAt, AssignAt, AssignsOf, OwnLine

LEMMA UseAtIs ==
  ASSUME NEW t, NEW i
  PROVE  /\ UseAt(t, i) \in Seq(Inserted)
         /\ UseAt(t, i) # <<>> => Len(UseAt(t, i)) = 1
         /\ \A j \in DOMAIN UseAt(t, i) : UseAt(t, i)[j] = BareUse
<1>1. BareUse \in Inserted
  BY DEF Inserted
<1>2. PICK b : b = BareUse
  OBVIOUS
<1>3. UseAt(t, i) = <<>> \/ UseAt(t, i) = <<b>>
  BY <1>2 DEF UseAt
<1>4. PICK c : c = UseAt(t, i)
  OBVIOUS
<1>5. CASE c = <<>>
  <2>1. <<>> \in Seq(Inserted) /\ DOMAIN <<>> = {}
    OBVIOUS
  <2> QED BY <1>4, <1>5, <2>1
<1>6. CASE c = <<b>>
  <2>1. c \in Seq(Inserted) /\ Len(c) = 1 /\ \A j \in DOMAIN c : c[j] = b
    BY <1>1, <1>2, <1>6
  <2> QED BY <1>2, <1>4, <2>1
<1> QED BY <1>3, <1>4, <1>5, <1>6

LEMMA AssignAtType ==
  ASSUME NEW t \in Seq(LineType), NEW e \in Seq(ExtraType), NEW i
  PROVE  AssignAt(t, e, i) \in Seq(Inserted)
<1> DEFINE C == Cardinality(Procedures(t))
           z == [n \in 1 .. C |-> AssignsOf(t, e, i, n)]
<1>1. C \in Nat
  <2>1. Procedures(t) \subseteq 1 .. Len(t) /\ Len(t) \in Nat
    BY DEF Procedures, Lines
  <2>2. IsFiniteSet(1 .. Len(t))
    BY <2>1, FS_Interval
  <2> QED BY <2>1, <2>2, FS_Subset, FS_CardinalityType
<1>2. \A n \in 1 .. C : AssignsOf(t, e, i, n) \in Seq(AddedLines)
  <2>1. <<>> \in Seq(AddedLines)
    OBVIOUS
  <2> QED BY <2>1, ExtrasType DEF AssignsOf
<1> HIDE DEF C
<1>3. z \in Seq(Seq(AddedLines))
  BY <1>1, <1>2
<1>4. AssignAt(t, e, i) = FlattenSeq(z)
  BY DEF AssignAt, C
<1> HIDE DEF z
<1>5. FlattenSeq(z) \in Seq(AddedLines)
  BY <1>3, FlattenPlaces
<1>6. AddedLines \subseteq Inserted
  BY DEF Inserted
<1> QED BY <1>4, <1>5, <1>6

LEMMA InsertedPiece ==
  ASSUME NEW t \in Seq(LineType), NEW e \in Seq(ExtraType), NEW i \in 1 .. Len(t) + 1
  PROVE  LET s == InsertPieces(t, e)[i]
         IN  /\ s \in Seq(LineType)
             /\ \A j \in DOMAIN s : s[j] \in Inserted \/ (i \in DOMAIN t /\ j = Len(s) /\ s[j] = t[i])
             /\ i \in DOMAIN t => s # <<>> /\ s[Len(s)] = t[i]
             /\ UseAt(t, i) # <<>> => 1 \in DOMAIN s /\ s[1] = BareUse
             /\ AssignAt(t, e, i) = <<>> =>
                  \A j \in DOMAIN s : s[j] = BareUse \/ (i \in DOMAIN t /\ j = Len(s))
<1> DEFINE a == UseAt(t, i) \o AssignAt(t, e, i)
           s == InsertPieces(t, e)[i]
<1>1. /\ UseAt(t, i) \in Seq(Inserted) /\ (UseAt(t, i) # <<>> => Len(UseAt(t, i)) = 1)
      /\ \A j \in DOMAIN UseAt(t, i) : UseAt(t, i)[j] = BareUse
  BY UseAtIs
<1>2. AssignAt(t, e, i) \in Seq(Inserted)
  BY AssignAtType
<1>3. s = UseAt(t, i) \o AssignAt(t, e, i) \o OwnLine(t, i)
  BY DEF InsertPieces
<1>4. a \in Seq(Inserted) /\ a \in Seq(LineType)
  BY <1>1, <1>2, InsertedLines
<1>5. UseAt(t, i) # <<>> => a # <<>> /\ a[1] = BareUse
  BY <1>1, <1>2
<1>6. AssignAt(t, e, i) = <<>> => a = UseAt(t, i)
  BY <1>1
<1>7. s = a \o OwnLine(t, i)
  BY <1>3
<1> HIDE DEF a, s
<1>8. CASE i \in DOMAIN t
  <2>1. PICK l \in LineType : l = t[i]
    BY <1>8
  <2>2. s = a \o <<l>>
    BY <1>7, <1>8, <2>1 DEF OwnLine
  <2>3. /\ s \in Seq(LineType) /\ Len(s) = Len(a) + 1 /\ s[Len(a) + 1] = l
        /\ \A j \in 1 .. Len(a) : s[j] = a[j]
    BY <1>4, <2>2
  <2>4. \A j \in DOMAIN s : j \in 1 .. Len(a) \/ j = Len(s)
    BY <1>4, <2>3
  <2>5. \A j \in 1 .. Len(a) : a[j] \in Inserted
    BY <1>4
  <2>6. a # <<>> => 1 \in 1 .. Len(a) /\ 1 \in DOMAIN s
    BY <1>4, <2>3
  <2>7. DOMAIN a = 1 .. Len(a)
    BY <1>4
  <2> QED BY <1>1, <1>5, <1>6, <1>8, <2>1, <2>3, <2>4, <2>5, <2>6, <2>7 DEF s
<1>9. CASE i \notin DOMAIN t
  <2>1. s = a \o <<>>
    BY <1>7, <1>9 DEF OwnLine
  <2>2. s = a
    BY <1>4, <2>1
  <2>3. \A j \in DOMAIN a : a[j] \in Inserted
    BY <1>4
  <2>4. a # <<>> => 1 \in DOMAIN a
    BY <1>4
  <2> QED BY <1>1, <1>4, <1>5, <1>6, <1>9, <2>2, <2>3, <2>4 DEF s
<1> QED BY <1>8, <1>9

LEMMA InsertPiecesFollow ==
  ASSUME NEW t \in Seq(LineType), NEW e \in Seq(ExtraType)
  PROVE  LET s == InsertPieces(t, e)
             u == InsertUse(t, e)
         IN  /\ s \in Seq(Seq(LineType)) /\ DOMAIN s = 1 .. Len(t) + 1 /\ u \in Seq(LineType)
             /\ \E at, nth : Places(s, u, at, nth) /\ Follows(t, u, at)
<1> DEFINE s == InsertPieces(t, e)
           u == InsertUse(t, e)
<1>1. Len(t) \in Nat /\ DOMAIN t = 1 .. Len(t)
  OBVIOUS
<1>2. DOMAIN s = 1 .. Len(t) + 1
  BY DEF InsertPieces
<1>3. s \in Seq(Seq(LineType))
  <2>1. \A i \in 1 .. Len(t) + 1 : s[i] \in Seq(LineType)
    BY InsertedPiece
  <2>2. s = [i \in 1 .. Len(t) + 1 |-> s[i]]
    BY DEF InsertPieces
  <2> HIDE DEF s
  <2> QED BY <1>1, <2>1, <2>2
<1>4. u = FlattenSeq(s)
  BY InsertUseIs
<1>5. KeepsStructure(t, s)
  <2>1. \A i \in DOMAIN s : \A j \in DOMAIN s[i] :
          s[i][j] \in Inserted \/ (i \in DOMAIN t /\ j = Len(s[i]) /\ s[i][j] = t[i])
    BY <1>2, InsertedPiece
  <2>2. \A i \in DOMAIN t : i \in DOMAIN s /\ s[i] # <<>> /\ s[i][Len(s[i])] = t[i]
    BY <1>1, <1>2, InsertedPiece
  <2> HIDE DEF s
  <2> QED BY <2>1, <2>2, InsertedLines DEF KeepsStructure
<1> HIDE DEF s, u
<1>6. u \in Seq(LineType) /\ \E at, nth : Places(s, u, at, nth)
  BY <1>3, <1>4, FlattenPlaces
<1>7. PICK at, nth : Places(s, u, at, nth)
  BY <1>6
<1>8. Follows(t, u, at)
  BY <1>3, <1>5, <1>6, <1>7, PiecesFollow
<1> QED BY <1>2, <1>3, <1>6, <1>7, <1>8 DEF s, u

LEMMA InsertUsePlaces ==
  ASSUME NEW t, Sound(t), NEW e \in Seq(ExtraType)
  PROVE  Placed(InsertUse(t, e))
<1> DEFINE N == Len(t)
           s == InsertPieces(t, e)
           u == InsertUse(t, e)
<1>1. t \in Seq(LineType) /\ WellFormed(t) /\ N \in Nat /\ DOMAIN t = 1 .. N
  BY DEF Sound
<1>2. ASSUME NEW i \in 1 .. N + 1
      PROVE  /\ \A j \in DOMAIN s[i] : s[i][j] \in Inserted \/ (i \in DOMAIN t /\ s[i][j] = t[i])
             /\ UseAt(t, i) # <<>> => 1 \in DOMAIN s[i] /\ s[i][1] = BareUse
  BY <1>1, InsertedPiece
<1>3. DOMAIN s = 1 .. N + 1 /\ u \in Seq(LineType) /\ \E at, nth : Places(s, u, at, nth) /\ Follows(t, u, at)
  BY <1>1, InsertPiecesFollow
<1>4. PICK at, nth : Places(s, u, at, nth) /\ Follows(t, u, at)
  BY <1>3
<1> HIDE DEF s, u
<1>5. u \in Seq(LineType)
  BY <1>3
<1>6. Follows(t, u, at)
  BY <1>4
<1>7. WellFormed(u)
  BY <1>1, <1>5, <1>6, WellFormedStays
<1>8. ASSUME NEW p \in DOMAIN u PROVE Clean(u[p]) /\ (u[p].ty = "module" => u[p] = BareUse)
  <2>1. at[p] \in DOMAIN s /\ nth[p] \in DOMAIN s[at[p]] /\ u[p] = s[at[p]][nth[p]]
    BY <1>4 DEF Places
  <2>2. CASE u[p] \in Inserted
    BY <2>2, InsertedLines
  <2>3. CASE at[p] \in DOMAIN t /\ u[p] = t[at[p]]
    BY <2>3, SoundLine
  <2> QED BY <2>1, <2>2, <2>3, <1>2, <1>3
<1>9. ASSUME NEW h \in Lines(u, "header")
       PROVE  \E v \in DOMAIN u : Under(u, h, v) /\ u[v] = BareUse
  <2>1. h \in DOMAIN u /\ Structural(u[h])
    BY StructuralKinds DEF Lines
  <2>2. at[h] \in Lines(t, "header") /\ at[h] \in DOMAIN t
    BY <2>1, <1>6 DEF Follows, Lines
  <2> DEFINE a == AfterHeader(t, at[h])
  <2>3. a \in at[h] + 1 .. N + 1 /\ \A k \in at[h] + 1 .. a - 1 : k \in DOMAIN t /\ IsDirective(t[k])
    BY <2>2, <1>1, AfterHeaderIs
  <2>4. a \in 1 .. N + 1
    BY <2>2, <2>3, <1>1
  <2>5. ~HasUseNearby(t, a)
    BY SoundLine DEF HasUseNearby
  <2>6. UseAt(t, a) = <<BareUse>>
    BY <2>2, <2>5 DEF UseAt
  <2>7. 1 \in DOMAIN s[a] /\ s[a][1] = BareUse
    <3>1. UseAt(t, a) # <<>>
      BY <2>6
    <3> HIDE DEF a
    <3> QED BY <2>4, <3>1, <1>2
  <2> HIDE DEF a
  <2>8. PICK v \in DOMAIN u : at[v] = a /\ nth[v] = 1
    <3>1. a \in DOMAIN s
      BY <2>4, <1>3
    <3> QED BY <3>1, <2>7, <1>4 DEF Places
  <2>9. u[v] = BareUse
    BY <2>7, <2>8, <1>4 DEF Places
  <2>10. h < v
    <3>1. at[h] < at[v]
      BY <2>2, <2>3, <2>8, <1>1
    <3> QED BY <3>1, <2>1, <1>1, <1>5, <1>6, StructureInOrder
  <2>11. ASSUME NEW j \in DOMAIN u, h < j, j <= v, Structural(u[j]) PROVE FALSE
    <3>1. at[h] < at[j] /\ at[j] \in DOMAIN t /\ u[j].k = t[at[j]].k
      BY <2>1, <2>11, <1>6 DEF Follows
    <3>2. j # v
      <4>1. ~Structural(BareUse)
        BY InsertedLines DEF Inserted
      <4> QED BY <4>1, <2>9, <2>11
    <3>3. j < v
      BY <3>2, <2>11, <1>5
    <3>4. at[j] < at[v]
      BY <3>3, <2>11, <1>6 DEF Follows
    <3>5. at[j] \in at[h] + 1 .. a - 1
      BY <3>1, <3>4, <2>2, <2>8, <1>1, <2>4
    <3>6. IsDirective(t[at[j]]) /\ Structural(t[at[j]])
      BY <3>1, <3>5, <2>3, <2>11 DEF Structural
    <3> QED BY <3>6 DEF IsDirective, Structural
  <2> QED BY <2>9, <2>10, <2>11 DEF Under, NoneIn
<1> QED BY <1>5, <1>7, <1>8, <1>9 DEF Placed, u

-----------------------------------------------------------------------------
(* Line by line.                                                           *)

LEMMA RenamedItems ==
  ASSUME NEW s \in Seq(ItemType), NEW rs, rs \subseteq Known,
         NEW u, u = [i \in DOMAIN s |-> RenamedItem(s[i], rs \ {s[i].n})]
  PROVE  u \in Seq(ItemType) /\ {x.n : x \in ToSet(u)} = {x.n : x \in ToSet(s)}
<1>1. DOMAIN s = 1 .. Len(s) /\ Len(s) \in Nat /\ \A i \in DOMAIN s : s[i] \in ItemType
  OBVIOUS
<1>2. ASSUME NEW x \in ItemType, NEW ps, ps \subseteq Known
      PROVE  RenamedItem(x, ps) \in ItemType /\ RenamedItem(x, ps).n = x.n
  <2>1. x.v.of \subseteq Name
    BY DEF ItemType
  <2>2. \A n \in ps : KnownConstants[n] \in Name
    BY <1>2, ModuleAssumption
  <2>3. RenameKnown(x.v.of, ps) \in SUBSET Name
    BY <2>1, <2>2 DEF RenameKnown
  <2>4. RenamedItem(x, ps) = [x EXCEPT !.v.of = RenameKnown(x.v.of, ps)]
    BY DEF RenamedItem
  <2> DEFINE of == RenameKnown(x.v.of, ps)
  <2>5. of \in SUBSET Name
    BY <2>3
  <2> HIDE DEF of
  <2>6. [x EXCEPT !.v.of = of] \in ItemType /\ [x EXCEPT !.v.of = of].n = x.n
    BY <2>5 DEF ItemType
  <2> QED BY <2>4, <2>6 DEF of
<1>3. \A i \in DOMAIN s : u[i] \in ItemType /\ u[i].n = s[i].n
  <2> SUFFICES ASSUME NEW i \in DOMAIN s PROVE u[i] \in ItemType /\ u[i].n = s[i].n
    OBVIOUS
  <2>1. u[i] = RenamedItem(s[i], rs \ {s[i].n})
    OBVIOUS
  <2>2. rs \ {s[i].n} \subseteq Known /\ s[i] \in ItemType
    BY <1>1
  <2> QED BY <2>1, <2>2, <1>2
<1>4. DOMAIN u = DOMAIN s
  OBVIOUS
<1>5. u \in Seq(ItemType)
  BY <1>1, <1>3, <1>4
<1>6. ToSet(u) = {u[i] : i \in DOMAIN s} /\ ToSet(s) = {s[i] : i \in DOMAIN s}
  BY <1>4 DEF ToSet
<1>7. \A n : (\E x \in ToSet(u) : n = x.n) <=> (\E x \in ToSet(s) : n = x.n)
  <2>1. ASSUME NEW n, NEW x \in ToSet(u), n = x.n PROVE \E y \in ToSet(s) : n = y.n
    <3>1. PICK i \in DOMAIN s : x = u[i]
      BY <1>6
    <3>2. s[i] \in ToSet(s)
      BY <1>6
    <3>3. n = s[i].n
      BY <1>3, <2>1, <3>1
    <3> QED BY <3>2, <3>3
  <2>2. ASSUME NEW n, NEW x \in ToSet(s), n = x.n PROVE \E y \in ToSet(u) : n = y.n
    <3>1. PICK i \in DOMAIN s : x = s[i]
      BY <1>6
    <3>2. u[i] \in ToSet(u)
      BY <1>6
    <3>3. n = u[i].n
      BY <1>3, <2>2, <3>1
    <3> QED BY <3>2, <3>3
  <2> QED BY <2>1, <2>2, Zenon
<1>8. {x.n : x \in ToSet(u)} = {x.n : x \in ToSet(s)}
  <2>1. {x.n : x \in ToSet(u)} \subseteq {x.n : x \in ToSet(s)}
    BY <1>7
  <2>2. {x.n : x \in ToSet(s)} \subseteq {x.n : x \in ToSet(u)}
    BY <1>7
  <2> QED BY <2>1, <2>2, Zenon
<1> QED BY <1>5, <1>8

LEMMA ReplacedTypes ==
  ASSUME NEW l \in LineType, NEW complex
  PROVE  LET m == ReplaceTypeDecls(l, complex)
         IN  /\ m \in LineType /\ m.k = l.k /\ m.ty = Promoted(l.ty) /\ m.rf = l.rf
             /\ ItemNames(m) \subseteq ItemNames(l)
             /\ l.k # "decl" => m = [l EXCEPT !.ty = Promoted(l.ty)]
<1> DEFINE p == [l EXCEPT !.ty = Promoted(@)]
           w == WithoutItems(p, Known \ complex)
<1>1. Promoted(l.ty) \in Types
  BY LineFields DEF Promoted, Types
<1>2. p \in LineType /\ p.k = l.k /\ p.ty = Promoted(l.ty) /\ p.it = l.it /\ p.rf = l.rf
  <2>1. p = [l EXCEPT !.ty = Promoted(l.ty)]
    OBVIOUS
  <2> QED BY <1>1, <2>1, LineExcept
<1>3. /\ w \in LineType /\ w.k = p.k /\ w.ty = p.ty /\ w.rf = p.rf /\ ItemNames(w) \subseteq ItemNames(p)
  <2> HIDE DEF p
  <2> QED BY <1>2, FewerItems
<1>4. ItemNames(p) = ItemNames(l)
  BY <1>2 DEF ItemNames
<1>5. ReplaceTypeDecls(l, complex) =
        IF p.k = "decl" /\ p.ty = "treal" /\ \A x \in ToSet(p.it) : x.v = Bare THEN w ELSE p
  BY DEF ReplaceTypeDecls
<1> HIDE DEF w
<1>6. p = [l EXCEPT !.ty = Promoted(l.ty)]
  OBVIOUS
<1> HIDE DEF p
<1> QED BY <1>2, <1>3, <1>4, <1>5, <1>6

LEMMA ReplacedKnown ==
  ASSUME NEW l \in LineType, NEW rs, rs \subseteq Known
  PROVE  LET m == ReplaceKnown(l, rs)
         IN  /\ m \in LineType /\ m.k = l.k /\ m.ty = l.ty /\ ItemNames(m) = ItemNames(l)
             /\ l.k \notin {"exec", "assign"} => m = l
<1> DEFINE m == ReplaceKnown(l, rs)
<1>1. l.it \in Seq(ItemType) /\ l.rf \subseteq Refs
  BY LineFields
<1>2. CASE l.k = "exec"
  <2>1. \A n \in rs : KnownConstants[n] \in Name
    BY ModuleAssumption
  <2>2. RenameKnown(l.rf, rs) \in SUBSET Refs
    BY <1>1, <2>1 DEF RenameKnown, Refs
  <2>3. m = [l EXCEPT !.rf = RenameKnown(l.rf, rs)]
    BY <1>2 DEF ReplaceKnown
  <2> DEFINE rf == RenameKnown(l.rf, rs)
  <2> HIDE DEF rf
  <2>4. [l EXCEPT !.rf = rf] \in LineType /\ [l EXCEPT !.rf = rf].k = l.k
        /\ [l EXCEPT !.rf = rf].ty = l.ty /\ [l EXCEPT !.rf = rf].it = l.it
    BY <2>2, LineExcept DEF rf
  <2> QED BY <1>2, <2>3, <2>4 DEF ItemNames, rf
<1>3. CASE l.k = "assign"
  <2> DEFINE it == [i \in DOMAIN l.it |-> RenamedItem(l.it[i], rs \ {l.it[i].n})]
             rf == l.rf \cup UNION {Constructors(x.v) : x \in ToSet(l.it)}
  <2>1. it \in Seq(ItemType) /\ {x.n : x \in ToSet(it)} = {x.n : x \in ToSet(l.it)}
    <3>1. it = [i \in DOMAIN l.it |-> RenamedItem(l.it[i], rs \ {l.it[i].n})]
      OBVIOUS
    <3> HIDE DEF it
    <3> QED BY <1>1, <3>1, RenamedItems
  <2>2. rf \in SUBSET Refs
    <3>1. \A v : Constructors(v) \subseteq Refs
      BY ModuleAssumption DEF Constructors, Refs
    <3> QED BY <1>1, <3>1
  <2>3. m = [l EXCEPT !.it = it, !.rf = rf]
    BY <1>3 DEF ReplaceKnown
  <2> HIDE DEF it, rf
  <2>4. [l EXCEPT !.it = it, !.rf = rf] \in LineType
    BY <2>1, <2>2 DEF LineType, Refs
  <2>5. m.k = l.k /\ m.ty = l.ty /\ m.it = it
    BY <2>3 DEF LineType
  <2>6. ItemNames(m) = ItemNames(l)
    BY <2>1, <2>5 DEF ItemNames
  <2> QED BY <1>3, <2>3, <2>4, <2>5, <2>6
<1>4. CASE l.k \notin {"exec", "assign"}
  BY <1>4 DEF ReplaceKnown
<1> QED BY <1>2, <1>3, <1>4

Migrated(l, rs, complex) == ReplaceKnown(ReplaceTypeDecls(l, complex), rs)

LEMMA MigratedLine ==
  ASSUME NEW l, Clean(l), l.ty = "module" => l = BareUse,
         NEW rs, rs \subseteq Known, NEW complex
  PROVE  LET m == Migrated(l, rs, complex)
         IN  /\ m \in LineType /\ m.k = l.k /\ Clean(m) /\ m.ty = Promoted(l.ty)
             /\ m.ty = "module" => m = BareUse /\ l = BareUse
             /\ l = BareUse => m = BareUse
<1> DEFINE r == ReplaceTypeDecls(l, complex)
           m == Migrated(l, rs, complex)
<1>1. l \in LineType
  BY DEF Clean
<1>2. /\ r \in LineType /\ r.k = l.k /\ r.ty = Promoted(l.ty) /\ ItemNames(r) \subseteq ItemNames(l)
      /\ l.k # "decl" => r = [l EXCEPT !.ty = Promoted(l.ty)]
  BY <1>1, ReplacedTypes
<1>3. /\ m \in LineType /\ m.k = r.k /\ m.ty = r.ty /\ ItemNames(m) = ItemNames(r)
      /\ r.k \notin {"exec", "assign"} => m = r
  <2> HIDE DEF r
  <2> QED BY <1>2, ReplacedKnown DEF Migrated, r
<1>4. /\ l.ty = "none" => Promoted(l.ty) = "none"
      /\ Promoted(l.ty) = "module" <=> l.ty = "module"
  BY DEF Promoted
<1> HIDE DEF r, m
<1>5. m.k = l.k /\ ItemNames(m) \subseteq ItemNames(l) /\ (m.ty = l.ty \/ l.ty # "none")
  BY <1>2, <1>3, <1>4
<1>6. Clean(m)
  BY <1>3, <1>5, CleanExcept
<1>7. l = BareUse => m = BareUse
  <2> SUFFICES ASSUME l = BareUse PROVE m = l
    OBVIOUS
  <2>1. l.k = "use" /\ l.ty = "module"
    BY InsertedLines
  <2>2. Promoted(l.ty) = l.ty
    BY <2>1 DEF Promoted
  <2>3. [l EXCEPT !.ty = l.ty] = l
    BY <1>1 DEF LineType
  <2> QED BY <1>2, <1>3, <2>1, <2>2, <2>3
<1> QED BY <1>2, <1>3, <1>4, <1>5, <1>6, <1>7 DEF m

LEMMA PlacedPieces ==
  ASSUME NEW t, Placed(t), NEW x, x = [i \in DOMAIN t |-> x[i]],
         \A i \in DOMAIN t :
            /\ OneFor(t[i], x[i])
            /\ x[i] # <<>> => Clean(x[i][1]) /\ (x[i][1].ty = "module" => x[i][1] = BareUse)
            /\ t[i] = BareUse => x[i] = <<BareUse>>
  PROVE  Placed(FlattenSeq(x))
<1> DEFINE u == FlattenSeq(x)
<1>1. t \in Seq(LineType) /\ WellFormed(t) /\ DOMAIN x = DOMAIN t
  BY DEF Placed
<1>2. PICK at : Becomes(t, x, u, at)
  BY <1>1, LinesBecome
<1> HIDE DEF u
<1>3. u \in Seq(LineType) /\ Follows(t, u, at)
  BY <1>2 DEF Becomes
<1>4. WellFormed(u)
  BY <1>1, <1>3, WellFormedStays
<1>5. ASSUME NEW p \in DOMAIN u PROVE Clean(u[p]) /\ (u[p].ty = "module" => u[p] = BareUse)
  <2>1. at[p] \in DOMAIN t /\ x[at[p]] = <<u[p]>>
    BY <1>2 DEF Becomes
  <2>2. x[at[p]] # <<>> /\ x[at[p]][1] = u[p]
    BY <2>1
  <2> QED BY <2>1, <2>2
<1>6. ASSUME NEW h \in Lines(u, "header") PROVE \E v \in DOMAIN u : Under(u, h, v) /\ u[v] = BareUse
  <2>1. h \in DOMAIN u /\ Structural(u[h])
    BY StructuralKinds DEF Lines
  <2>2. at[h] \in Lines(t, "header")
    BY <2>1, <1>3 DEF Follows, Lines
  <2>3. PICK i \in DOMAIN t : Under(t, at[h], i) /\ t[i] = BareUse
    BY <2>2 DEF Placed
  <2>4. x[i] = <<BareUse>> /\ x[i] # <<>>
    BY <2>3
  <2>5. PICK v \in DOMAIN u : at[v] = i
    BY <2>4, <1>2 DEF Becomes
  <2>6. x[i] = <<u[v]>>
    BY <2>5, <1>2 DEF Becomes
  <2>7. u[v] = BareUse
    <3>1. \A a, b : <<a>> = <<b>> => a = b
      OBVIOUS
    <3> QED BY <2>4, <2>6, <3>1
  <2>8. Under(u, h, v)
    BY <2>1, <2>3, <2>5, <1>1, <1>3, UnderStays
  <2> QED BY <2>7, <2>8
<1> QED BY <1>3, <1>4, <1>5, <1>6 DEF Placed, u

LEMMA MigrateLinesPlaced ==
  ASSUME NEW t, Placed(t), NEW rs, rs \subseteq Known, NEW complex
  PROVE  Placed(MigrateLines(t, rs, complex))
<1> DEFINE M(l) == Migrated(l, rs, complex)
           x == [i \in DOMAIN t |-> IF t[i].k # "decl" \/ M(t[i]).it # <<>> THEN <<M(t[i])>> ELSE <<>>]
<1>1. MigrateLines(t, rs, complex) = FlattenSeq(x)
  BY DEF MigrateLines, Migrated
<1>2. ASSUME NEW i \in DOMAIN t
      PROVE  /\ OneFor(t[i], x[i])
             /\ x[i] # <<>> => Clean(x[i][1]) /\ (x[i][1].ty = "module" => x[i][1] = BareUse)
             /\ t[i] = BareUse => x[i] = <<BareUse>>
  <2>1. Clean(t[i]) /\ (t[i].ty = "module" => t[i] = BareUse)
    BY DEF Placed
  <2> DEFINE m == M(t[i])
  <2>2. /\ m \in LineType /\ m.k = t[i].k /\ Clean(m)
        /\ m.ty = "module" => m = BareUse
        /\ t[i] = BareUse => m = BareUse
    BY <2>1, MigratedLine
  <2>3. x[i] = IF t[i].k # "decl" \/ m.it # <<>> THEN <<m>> ELSE <<>>
    OBVIOUS
  <2>4. t[i].k = "decl" => ~Structural(t[i])
    BY DEF Structural
  <2>5. t[i] = BareUse => t[i].k # "decl"
    BY InsertedLines
  <2> HIDE DEF m, x, M
  <2> QED BY <2>2, <2>3, <2>4, <2>5, OneLine, NoLine
<1>3. x = [i \in DOMAIN t |-> x[i]]
  OBVIOUS
<1> HIDE DEF x
<1> QED BY <1>1, <1>2, <1>3, PlacedPieces

-----------------------------------------------------------------------------
(* The import list.                                                        *)

Gives(l, ns) == l.ty = "module" /\ (l.k = "use" \/ (l.k = "useonly" /\ ns \subseteq l.rf))

\* What stands in a prototype finds the name of its type imported there.
Served(t) ==
  /\ t \in Seq(LineType) /\ WellFormed(t)
  /\ \A h \in Prototypes(t) : \A i \in DOMAIN t : Under(t, h, i) =>
        \/ TypeName(t[i].ty) = {}
        \/ \E v \in DOMAIN t : Under(t, h, v) /\ Gives(t[v], TypeName(t[i].ty))

LEMMA NextEndIs ==
  ASSUME NEW t \in Seq(LineType), NEW h \in DOMAIN t
  PROVE  /\ NextEnd(t, h) \in DOMAIN t
         /\ \/ NextEnd(t, h) = Len(t)
            \/ /\ NextEnd(t, h) \in Lines(t, "end") /\ NextEnd(t, h) >= h
               /\ ~InInterface(t, NextEnd(t, h))
<1> DEFINE T == {e \in Lines(t, "end") : e >= h /\ ~InInterface(t, e)}
<1>1. T \in SUBSET Nat /\ T \subseteq DOMAIN t /\ Len(t) \in DOMAIN t
  <2>1. DOMAIN t = 1 .. Len(t) /\ Len(t) \in Nat
    OBVIOUS
  <2> QED BY <2>1 DEF Lines
<1>2. NextEnd(t, h) = IF T = {} THEN Len(t) ELSE FirstOf(T)
  BY DEF NextEnd
<1>3. T # {} => FirstOf(T) \in T
  <2> HIDE DEF T
  <2> QED BY <1>1, FirstOfLeast
<1> QED BY <1>1, <1>2, <1>3

LEMMA TypeNames ==
  /\ \A ty : TypeName(ty) \subseteq TargetTypes
  /\ \A ty : TypeName(ty) # {} => ty = "treal" \/ ty = "tcomplex"
  /\ TargetTypes \subseteq PublicNames /\ PublicNames \subseteq Name
<1>1. PublicNames \subseteq Name
  BY ModuleAssumption DEF PublicNames, Supplied
<1>2. TargetTypes \subseteq PublicNames
  BY ModuleAssumption DEF PublicNames, TargetTypes
<1>3. \A ty : TypeName(ty) \subseteq TargetTypes
  BY DEF TypeName, TargetTypes
<1>4. \A ty : TypeName(ty) # {} => ty = "treal" \/ ty = "tcomplex"
  BY DEF TypeName
<1> QED BY <1>1, <1>2, <1>3, <1>4

LEMMA OnlyListHas ==
  ASSUME NEW t, Placed(t), NEW p \in DOMAIN t, NEW i, i \in p .. NextEnd(t, p),
         i \in DOMAIN t
  PROVE  TypeName(t[i].ty) \subseteq OnlyList(ProcLines(t, p))
<1> DEFINE ls == ProcLines(t, p)
           only == OnlyList(ls)
<1>1. t \in Seq(LineType)
  BY DEF Placed
<1>2. NextEnd(t, p) \in DOMAIN t
  BY <1>1, NextEndIs
<1>3. p .. NextEnd(t, p) \subseteq DOMAIN t
  <2>1. DOMAIN t = 1 .. Len(t) /\ Len(t) \in Nat
    BY <1>1
  <2> QED BY <1>2, <2>1
<1>4. \A l \in ls : Clean(l)
  BY <1>3 DEF ProcLines, Placed
<1>5. t[i] \in ls
  BY DEF ProcLines
<1> HIDE DEF ls
<1>6. DeclaredNames(ls) \cap TargetTypes = {}
  BY <1>4 DEF DeclaredNames, Clean
<1>7. TypeName(t[i].ty) # {} => TypeName(t[i].ty) \subseteq Identifiers(t[i])
  <2> SUFFICES ASSUME TypeName(t[i].ty) # {} PROVE TypeName(t[i].ty) \subseteq Identifiers(t[i])
    OBVIOUS
  <2>1. t[i].ty = "treal" \/ t[i].ty = "tcomplex"
    BY TypeNames
  <2>2. ~IsComment(t[i]) /\ ~IsDirective(t[i])
    BY <2>1, <1>4, <1>5 DEF Clean
  <2>3. t[i].ty # "real4"
    BY <2>1
  <2> QED BY <2>2, <2>3 DEF Identifiers
<1>8. TypeName(t[i].ty) \subseteq UNION {Identifiers(l) : l \in ls}
  BY <1>5, <1>7
<1>9. TypeName(t[i].ty) \subseteq PublicNames /\ TypeName(t[i].ty) \cap DeclaredNames(ls) = {}
  BY <1>6, TypeNames
<1> QED BY <1>8, <1>9 DEF OnlyList, ls

LEMMA SpecializedLine ==
  ASSUME NEW t, Placed(t), NEW u \in DOMAIN t, t[u] = BareUse
  PROVE  LET hs == {h \in Procedures(t) : h < u /\ u <= NextEnd(t, h)}
             only == OnlyList(ProcLines(t, FirstOf(hs)))
         IN  /\ hs = {} => Specialized(t, u) = <<BareUse>>
             /\ hs # {} /\ only = {} => Specialized(t, u) = <<>>
             /\ hs # {} /\ only # {} => \E m \in LineType :
                  /\ Specialized(t, u) = <<m>> /\ m.k = "useonly" /\ m.ty = "module" /\ m.rf = only
<1> DEFINE hs == {h \in Procedures(t) : h < u /\ u <= NextEnd(t, h)}
           only == OnlyList(ProcLines(t, FirstOf(hs)))
           m == [t[u] EXCEPT !.k = "useonly", !.rf = only]
<1>1. Specialized(t, u) = IF hs = {} THEN <<t[u]>> ELSE IF only = {} THEN <<>> ELSE <<m>>
  BY DEF Specialized
<1>2. only \subseteq Refs
  BY TypeNames DEF OnlyList, Refs
<1>3. "useonly" \in Kinds
  BY DEF Kinds
<1> HIDE DEF only
<1>4. m \in LineType /\ m.k = "useonly" /\ m.ty = "module" /\ m.rf = only
  <2>1. t[u] \in LineType /\ t[u].ty = "module"
    BY InsertedLines
  <2> QED BY <1>2, <1>3, <2>1 DEF LineType, Refs
<1> HIDE DEF m, hs
<1> QED BY <1>1, <1>4 DEF only, hs

LEMMA SpecializeServes ==
  ASSUME NEW t, Placed(t)
  PROVE  Served(SpecializeUse(t))
<1> DEFINE x == [i \in DOMAIN t |-> IF t[i] = BareUse THEN Specialized(t, i) ELSE <<t[i]>>]
           u == FlattenSeq(x)
           hs(v) == {h \in Procedures(t) : h < v /\ v <= NextEnd(t, h)}
           only(v) == OnlyList(ProcLines(t, FirstOf(hs(v))))
<1>1. SpecializeUse(t) = u
  BY DEF SpecializeUse
<1>2. t \in Seq(LineType) /\ WellFormed(t) /\ DOMAIN t = 1 .. Len(t) /\ Len(t) \in Nat
  BY DEF Placed
<1>3. ASSUME NEW i \in DOMAIN t, t[i] # BareUse PROVE x[i] = <<t[i]>> /\ OneFor(t[i], x[i])
  <2>1. x[i] = <<t[i]>>
    BY <1>3
  <2>2. t[i] \in LineType
    BY <1>2
  <2> HIDE DEF x
  <2> QED BY <2>1, <2>2, OneLine
<1>4. ASSUME NEW i \in DOMAIN t, t[i] = BareUse
      PROVE  /\ OneFor(t[i], x[i]) /\ (x[i] # <<>> => x[i][1].ty = "module")
             /\ hs(i) = {} => x[i] = <<BareUse>>
             /\ hs(i) # {} /\ only(i) # {} =>
                  \E m \in LineType : x[i] = <<m>> /\ m.k = "useonly" /\ m.ty = "module" /\ m.rf = only(i)
  <2>1. x[i] = Specialized(t, i)
    BY <1>4
  <2>2. /\ hs(i) = {} => x[i] = <<BareUse>>
        /\ hs(i) # {} /\ only(i) = {} => x[i] = <<>>
        /\ hs(i) # {} /\ only(i) # {} =>
             \E m \in LineType : x[i] = <<m>> /\ m.k = "useonly" /\ m.ty = "module" /\ m.rf = only(i)
    BY <1>4, <2>1, SpecializedLine
  <2> HIDE DEF x, hs, only
  <2>3. ~Structural(t[i]) /\ BareUse \in LineType /\ BareUse.ty = "module" /\ BareUse.k = "use"
    BY <1>4, InsertedLines DEF Inserted
  <2>4. OneFor(t[i], <<>>)
    BY <2>3, NoLine
  <2>5. \A m \in LineType : m.k = "useonly" \/ m.k = "use" =>
           OneFor(t[i], <<m>>) /\ <<m>> # <<>> /\ <<m>>[1] = m
    BY <2>3 DEF OneFor, Structural
  <2>6. PICK b : b = BareUse
    OBVIOUS
  <2> QED BY <2>2, <2>3, <2>4, <2>5, <2>6
<1> HIDE DEF x
<1>5. PICK at : Becomes(t, x, u, at)
  <2>1. x = [i \in DOMAIN t |-> x[i]] /\ DOMAIN x = DOMAIN t
    BY DEF x
  <2>2. \A i \in DOMAIN t : OneFor(t[i], x[i])
    BY <1>3, <1>4
  <2> QED BY <1>2, <2>1, <2>2, LinesBecome
<1> HIDE DEF u, hs, only
<1>6. u \in Seq(LineType) /\ Follows(t, u, at)
  BY <1>5 DEF Becomes
<1>7. WellFormed(u)
  BY <1>2, <1>6, WellFormedStays
<1>8. ASSUME NEW h1 \in Prototypes(u), NEW i1 \in DOMAIN u, Under(u, h1, i1), TypeName(u[i1].ty) # {}
      PROVE  \E v \in DOMAIN u : Under(u, h1, v) /\ Gives(u[v], TypeName(u[i1].ty))
  <2> DEFINE h == at[h1]
             i == at[i1]
  <2>1. h1 \in DOMAIN u /\ Structural(u[h1])
    BY StructuralKinds DEF Prototypes, Lines
  <2>2. h \in Lines(t, "header") /\ InInterface(t, h) /\ h \in DOMAIN t
    BY <2>1, <1>2, <1>6, SameInterface DEF Follows, Prototypes, Lines
  <2>3. i \in DOMAIN t /\ x[i] = <<u[i1]>>
    BY <1>5 DEF Becomes
  <2>4. x[i] # <<>> /\ x[i][1] = u[i1]
    BY <2>3
  <2>5. t[i] # BareUse
    <3>1. u[i1].ty # "module"
      BY <1>8, TypeNames
    <3> QED BY <2>3, <2>4, <3>1, <1>4
  <2>6. u[i1] = t[i]
    <3>1. x[i] = <<t[i]>>
      BY <2>3, <2>5, <1>3
    <3>2. \A a, b : <<a>> = <<b>> => a = b
      OBVIOUS
    <3> QED BY <2>3, <3>1, <3>2
  <2>7. ~Structural(u[i1])
    BY <1>8, <1>6 DEF Under, NoneIn
  <2>8. Under(t, h, i)
    <3>1. h < i /\ NoneIn(t, h, i)
      BY <2>1, <2>6, <2>7, <1>2, <1>6, <1>8, UnderStems
    <3> QED BY <2>3, <3>1 DEF Under
  <2>9. PICK v \in DOMAIN t : Under(t, h, v) /\ t[v] = BareUse
    BY <2>2 DEF Placed
  <2> HIDE DEF h, i
  <2>10. CASE hs(v) = {}
    <3>1. x[v] = <<BareUse>> /\ x[v] # <<>>
      BY <2>9, <2>10, <1>4
    <3>2. PICK w \in DOMAIN u : at[w] = v
      BY <3>1, <1>5 DEF Becomes
    <3>3. u[w] = BareUse
      <4>1. x[v] = <<u[w]>>
        BY <3>2, <1>5 DEF Becomes
      <4>2. \A a, b : <<a>> = <<b>> => a = b
        OBVIOUS
      <4> QED BY <3>1, <4>1, <4>2
    <3>4. Under(u, h1, w)
      BY <2>1, <2>9, <3>2, <1>2, <1>6, UnderStays DEF h
    <3> QED BY <3>3, <3>4, InsertedLines DEF Gives
  <2>11. CASE hs(v) # {}
    <3> DEFINE p == FirstOf(hs(v))
    <3>1. p \in Procedures(t) /\ p < v /\ v <= NextEnd(t, p)
      <4>1. hs(v) \in SUBSET Nat
        BY <1>2 DEF hs, Procedures, Lines
      <4>2. p \in hs(v)
        BY <2>11, <4>1, FirstOfLeast
      <4> QED BY <4>2 DEF hs
    <3>2. only(v) = OnlyList(ProcLines(t, p))
      BY DEF only
    <3> HIDE DEF p
    <3>3. p \in DOMAIN t /\ Structural(t[p]) /\ ~InInterface(t, p)
      BY <3>1, StructuralKinds DEF Procedures, Lines
    <3>4. p < h
      <4>1. p # h
        BY <2>2, <3>3
      <4>2. ~ (h < p)
        BY <2>9, <3>1, <3>3, <1>2 DEF Under, NoneIn
      <4> QED BY <2>2, <3>3, <4>1, <4>2, <1>2
    <3>5. i \in p .. NextEnd(t, p)
      <4>1. p < i
        BY <2>2, <2>3, <2>8, <3>3, <3>4, <1>2 DEF Under, i
      <4>2. NextEnd(t, p) \in DOMAIN t /\ (NextEnd(t, p) = Len(t) \/ Structural(t[NextEnd(t, p)]))
        BY <3>3, <1>2, NextEndIs, StructuralKinds DEF Lines
      <4>3. ~ (NextEnd(t, p) < i)
        <5>1. SUFFICES ASSUME NextEnd(t, p) < i PROVE FALSE
          OBVIOUS
        <5>2. i \in DOMAIN t
          BY <2>3 DEF i
        <5>3. Structural(t[NextEnd(t, p)])
          BY <4>2, <5>1, <5>2, <1>2
        <5>4. h < NextEnd(t, p)
          BY <2>2, <2>9, <3>1, <4>2, <1>2 DEF Under
        <5> QED BY <2>8, <4>2, <5>1, <5>2, <5>3, <5>4, <1>2 DEF Under, NoneIn
      <4>4. i \in DOMAIN t
        BY <2>3 DEF i
      <4> QED BY <3>3, <4>1, <4>2, <4>3, <4>4, <1>2
    <3>6. TypeName(t[i].ty) \subseteq only(v)
      BY <2>3, <3>2, <3>3, <3>5, OnlyListHas DEF i
    <3>7. TypeName(t[i].ty) # {}
      BY <2>6, <1>8 DEF i
    <3>8. PICK m \in LineType : x[v] = <<m>> /\ m.k = "useonly" /\ m.ty = "module" /\ m.rf = only(v)
      BY <2>9, <2>11, <3>6, <3>7, <1>4
    <3>9. PICK w \in DOMAIN u : at[w] = v
      <4>1. x[v] # <<>>
        BY <3>8
      <4> QED BY <4>1, <1>5 DEF Becomes
    <3>10. u[w] = m
      <4>1. x[v] = <<u[w]>>
        BY <3>9, <1>5 DEF Becomes
      <4>2. \A a, b : <<a>> = <<b>> => a = b
        OBVIOUS
      <4> QED BY <3>8, <4>1, <4>2
    <3>11. Under(u, h1, w)
      BY <2>1, <2>9, <3>9, <1>2, <1>6, UnderStays DEF h
    <3>12. TypeName(u[i1].ty) \subseteq m.rf
      BY <2>6, <3>6, <3>8 DEF i
    <3> QED BY <3>8, <3>10, <3>11, <3>12 DEF Gives
  <2> QED BY <2>10, <2>11
<1> QED BY <1>1, <1>6, <1>7, <1>8 DEF Served

-----------------------------------------------------------------------------
(* The passes after the driver.                                            *)

\* Every line of a target type was one, and every import is still there.
KeepsTypes(t, u, at) ==
  /\ \A p \in DOMAIN u : TypeName(u[p].ty) # {} =>
       /\ at[p] \in DOMAIN t /\ TypeName(u[p].ty) = TypeName(t[at[p]].ty)
       /\ Structural(t[at[p]]) => Structural(u[p])
  /\ \A i \in DOMAIN t : \A ns \in SUBSET TargetTypes : Gives(t[i], ns) =>
       \E p \in DOMAIN u : at[p] = i /\ Gives(u[p], ns)

LEMMA ServedFollows ==
  ASSUME NEW t, Served(t), NEW u \in Seq(LineType), NEW at, Follows(t, u, at), KeepsTypes(t, u, at)
  PROVE  Served(u)
<1>1. t \in Seq(LineType) /\ WellFormed(t)
  BY DEF Served
<1>2. WellFormed(u)
  BY <1>1, WellFormedStays
<1>3. ASSUME NEW h1 \in Prototypes(u), NEW i1 \in DOMAIN u, Under(u, h1, i1), TypeName(u[i1].ty) # {}
      PROVE  \E v \in DOMAIN u : Under(u, h1, v) /\ Gives(u[v], TypeName(u[i1].ty))
  <2> DEFINE h == at[h1]
             i == at[i1]
             ns == TypeName(u[i1].ty)
  <2>1. h1 \in DOMAIN u /\ Structural(u[h1])
    BY StructuralKinds DEF Prototypes, Lines
  <2>2. h \in Prototypes(t)
    BY <2>1, <1>1, SameInterface DEF Follows, Prototypes, Lines
  <2>3. i \in DOMAIN t /\ TypeName(t[i].ty) = ns /\ ns # {} /\ (Structural(t[i]) => Structural(u[i1]))
    BY <1>3 DEF KeepsTypes
  <2>4. ~Structural(t[i])
    <3>1. ~Structural(u[i1])
      BY <1>3 DEF Under, NoneIn
    <3> QED BY <2>3, <3>1
  <2>5. Under(t, h, i)
    <3>1. h < i /\ NoneIn(t, h, i)
      BY <2>1, <2>4, <1>1, <1>3, UnderStems
    <3> QED BY <2>3, <3>1 DEF Under
  <2>6. ns \in SUBSET TargetTypes
    BY TypeNames
  <2> HIDE DEF ns, i
  <2>7. PICK v \in DOMAIN t : Under(t, h, v) /\ Gives(t[v], ns)
    BY <2>2, <2>3, <2>5 DEF Served
  <2>8. PICK w \in DOMAIN u : at[w] = v /\ Gives(u[w], ns)
    BY <2>6, <2>7 DEF KeepsTypes
  <2>9. Under(u, h1, w)
    BY <2>1, <2>7, <2>8, <1>1, UnderStays
  <2> QED BY <2>8, <2>9 DEF ns
<1> QED BY <1>2, <1>3 DEF Served

LEMMA ServedPointwise ==
  ASSUME NEW t, Served(t), NEW u, u = [i \in DOMAIN t |-> u[i]],
         \A i \in DOMAIN t :
            /\ u[i] \in LineType /\ u[i].k = t[i].k /\ TypeName(u[i].ty) = TypeName(t[i].ty)
            /\ \A ns \in SUBSET TargetTypes : Gives(t[i], ns) => Gives(u[i], ns)
  PROVE  Served(u)
<1> DEFINE at == [i \in DOMAIN u |-> i]
<1>1. t \in Seq(LineType) /\ DOMAIN u = DOMAIN t
  BY DEF Served
<1>2. u \in Seq(LineType)
  <2>1. DOMAIN t = 1 .. Len(t) /\ Len(t) \in Nat
    BY <1>1
  <2> QED BY <1>1, <2>1
<1>3. Follows(t, u, at)
  BY <1>1, <1>2, PointwiseFollows
<1>4. \A p \in DOMAIN u : at[p] = p
  OBVIOUS
<1> HIDE DEF at
<1>5. \A p \in DOMAIN u : TypeName(u[p].ty) # {} =>
         /\ at[p] \in DOMAIN t /\ TypeName(u[p].ty) = TypeName(t[at[p]].ty)
         /\ Structural(t[at[p]]) => Structural(u[p])
  BY <1>1, <1>4 DEF Structural
<1>6. \A i \in DOMAIN t : \A ns \in SUBSET TargetTypes : Gives(t[i], ns) =>
         \E p \in DOMAIN u : at[p] = i /\ Gives(u[p], ns)
  BY <1>1, <1>4
<1>7. KeepsTypes(t, u, at)
  BY <1>5, <1>6 DEF KeepsTypes
<1> QED BY <1>2, <1>3, <1>7, ServedFollows

LEMMA RestoreServed ==
  ASSUME NEW t, Served(t)
  PROVE  Served(Restore(t))
<1>1. ASSUME NEW i \in DOMAIN t
      PROVE  LET m == Unmasked(t[i])
             IN  /\ m \in LineType /\ m.k = t[i].k /\ TypeName(m.ty) = TypeName(t[i].ty)
                 /\ \A ns \in SUBSET TargetTypes : Gives(t[i], ns) => Gives(m, ns)
  <2>1. PICK l \in LineType : l = t[i]
    BY DEF Served
  <2>2. PICK m : m = Unmasked(l)
    OBVIOUS
  <2>3. /\ m \in LineType /\ m.k = l.k /\ m.ty = (IF l.ty = "kept" THEN "real8" ELSE l.ty)
        /\ m.rf = {IF n = "kept_dble" THEN "dble" ELSE n : n \in l.rf}
    BY <2>2, UnmaskedIs
  <2>4. TypeName(m.ty) = TypeName(l.ty) /\ (l.ty = "module" => m.ty = "module")
    BY <2>3 DEF TypeName
  <2>5. \A ns \in SUBSET TargetTypes : ns \subseteq l.rf => ns \subseteq m.rf
    BY <2>3 DEF TargetTypes
  <2> QED BY <2>1, <2>2, <2>3, <2>4, <2>5 DEF Gives
<1>2. Restore(t) = [i \in DOMAIN t |-> Restore(t)[i]] /\ \A i \in DOMAIN t : Restore(t)[i] = Unmasked(t[i])
  BY DEF Restore
<1> QED BY <1>1, <1>2, ServedPointwise

LEMMA HandlesServed ==
  ASSUME NEW t, Served(t)
  PROVE  Served(RewriteHandles(t))
<1>1. ASSUME NEW i \in DOMAIN t
      PROVE  LET m == RewriteHandles(t)[i]
             IN  /\ m \in LineType /\ m.k = t[i].k /\ TypeName(m.ty) = TypeName(t[i].ty)
                 /\ \A ns \in SUBSET TargetTypes : Gives(t[i], ns) => Gives(m, ns)
  <2>1. PICK m : m = RewriteHandles(t)[i]
    OBVIOUS
  <2>2. /\ m \in LineType /\ m.k = t[i].k /\ m.ty = t[i].ty
        /\ m.rf = {TargetHandle(n) : n \in t[i].rf}
    BY <2>1, HandledIs DEF Served
  <2>3. \A ns \in SUBSET TargetTypes : ns \subseteq t[i].rf => ns \subseteq m.rf
    BY <2>2 DEF TargetTypes, TargetHandle
  <2> QED BY <2>1, <2>2, <2>3 DEF Gives
<1>2. RewriteHandles(t) = [i \in DOMAIN t |-> RewriteHandles(t)[i]]
  BY DEF RewriteHandles
<1> QED BY <1>1, <1>2, ServedPointwise

\* The call of ROUNDUP_LWORK, the declarations it leaves behind, and the line
\* _strip_roundup_lwork makes of a line.
Roundup == {"ROUNDUP_LWORK"}
CallsRoundup(l) == l.k = "exec" /\ "ROUNDUP_LWORK" \in l.rf
RoundupOrphan(l) == l.k = "external" \/ (l.k = "decl" /\ l.ty = "real4")
Unrounded(l) == IF CallsRoundup(l) THEN [l EXCEPT !.rf = @ \ Roundup]
                ELSE IF RoundupOrphan(l) THEN WithoutItems(l, Roundup) ELSE l
UnroundedPiece(l) == IF RoundupOrphan(l) /\ Unrounded(l).it = <<>> THEN <<>> ELSE <<Unrounded(l)>>

LEMMA UnroundedIs ==
  ASSUME NEW l \in LineType
  PROVE  LET m == Unrounded(l)
         IN  /\ m \in LineType /\ m.k = l.k /\ m.ty = l.ty /\ m.cond = l.cond
             /\ UnroundedPiece(l) = <<m>> \/ (UnroundedPiece(l) = <<>> /\ RoundupOrphan(l))
<1> DEFINE rf == l.rf \ Roundup
           a == [l EXCEPT !.rf = rf]
<1>1. rf \in SUBSET Refs
  BY LineFields
<1> HIDE DEF rf
<1>2. a \in LineType /\ a.k = l.k /\ a.ty = l.ty /\ a.cond = l.cond
  BY <1>1, LineExcept
<1> HIDE DEF a
<1>3. LET m == WithoutItems(l, Roundup) IN m \in LineType /\ m.k = l.k /\ m.ty = l.ty /\ m.cond = l.cond
  BY FewerItems
<1>4. [l EXCEPT !.rf = @ \ Roundup] = a
  BY DEF a, rf
<1> QED BY <1>2, <1>3, <1>4 DEF Unrounded, UnroundedPiece

LEMMA StripRoundupServed ==
  ASSUME NEW t, Served(t)
  PROVE  Served(StripRoundup(t))
<1> DEFINE x == [i \in DOMAIN t |-> UnroundedPiece(t[i])]
           u == FlattenSeq(x)
<1>1. t \in Seq(LineType)
  BY DEF Served
<1>2. StripRoundup(t) = t \/ StripRoundup(t) = u
  BY DEF StripRoundup, UnroundedPiece, Unrounded, RoundupOrphan, CallsRoundup, Roundup
<1>3. \A i \in DOMAIN t : UnroundedPiece(t[i]) = x[i]
  OBVIOUS
<1>4. ASSUME NEW i \in DOMAIN t
      PROVE  /\ OneFor(t[i], x[i])
             /\ x[i] # <<>> => x[i] = <<Unrounded(t[i])>>
             /\ t[i].k = "use" \/ t[i].k = "useonly" => x[i] = <<t[i]>>
  <2>1. t[i] \in LineType
    BY <1>1
  <2>2. RoundupOrphan(t[i]) => t[i].k \in {"external", "decl"} /\ ~Structural(t[i]) /\ TypeName(t[i].ty) \subseteq TargetTypes
    BY <2>1, TypeNames DEF RoundupOrphan, Structural
  <2>3. t[i].k = "use" \/ t[i].k = "useonly" => Unrounded(t[i]) = t[i]
    BY DEF Unrounded, CallsRoundup, RoundupOrphan
  <2> HIDE DEF x
  <2> QED BY <1>3, <2>1, <2>2, <2>3, UnroundedIs, NoLine, OneLine
<1>5. x = [i \in DOMAIN t |-> x[i]] /\ DOMAIN x = DOMAIN t
  OBVIOUS
<1> HIDE DEF x
<1>6. PICK at : Becomes(t, x, u, at)
  BY <1>1, <1>4, <1>5, LinesBecome
<1>7. u \in Seq(LineType) /\ Follows(t, u, at)
  BY <1>6 DEF Becomes
<1>8. ASSUME NEW p \in DOMAIN u
      PROVE  /\ at[p] \in DOMAIN t /\ u[p].ty = t[at[p]].ty /\ u[p].k = t[at[p]].k
  <2>1. at[p] \in DOMAIN t /\ x[at[p]] = <<u[p]>>
    BY <1>6 DEF Becomes
  <2>2. <<u[p]>> = <<Unrounded(t[at[p]])>>
    <3>1. x[at[p]] # <<>>
      BY <2>1
    <3> QED BY <2>1, <3>1, <1>4
  <2>3. \A a, b : <<a>> = <<b>> => a = b
    OBVIOUS
  <2>4. u[p] = Unrounded(t[at[p]])
    BY <2>2, <2>3
  <2>5. t[at[p]] \in LineType
    BY <2>1, <1>1
  <2> QED BY <2>1, <2>4, <2>5, UnroundedIs
<1>9. \A p \in DOMAIN u : TypeName(u[p].ty) # {} =>
         /\ at[p] \in DOMAIN t /\ TypeName(u[p].ty) = TypeName(t[at[p]].ty)
         /\ Structural(t[at[p]]) => Structural(u[p])
  BY <1>8 DEF Structural
<1>10. ASSUME NEW i \in DOMAIN t, NEW ns \in SUBSET TargetTypes, Gives(t[i], ns)
       PROVE  \E p \in DOMAIN u : at[p] = i /\ Gives(u[p], ns)
  <2>1. x[i] = <<t[i]>>
    BY <1>4, <1>10 DEF Gives
  <2>2. x[i] # <<>>
    BY <2>1
  <2>3. PICK p \in DOMAIN u : at[p] = i
    BY <2>2, <1>6 DEF Becomes
  <2>4. x[i] = <<u[p]>>
    BY <2>3, <1>6 DEF Becomes
  <2>5. \A a, b : <<a>> = <<b>> => a = b
    OBVIOUS
  <2>6. u[p] = t[i]
    BY <2>1, <2>4, <2>5
  <2> QED BY <1>10, <2>3, <2>6
<1>11. Served(u)
  <2>1. KeepsTypes(t, u, at)
    BY <1>9, <1>10 DEF KeepsTypes
  <2> QED BY <2>1, <1>7, ServedFollows
<1> QED BY <1>2, <1>11

\* What insert_use_multifloats_mpi_f puts in front of line i, and the line.
NeedsMpi(t, h) == \E i \in AfterHeader(t, h) .. MatchingEnd(t, h) : t[i].rf \cap MpiTokens # {}
MpiUseAt(t, i) ==
  IF \E h \in Lines(t, "header") : AfterHeader(t, h) = i /\ NeedsMpi(t, h) THEN <<MpiUse>> ELSE <<>>

LEMMA MpiUseFollows ==
  ASSUME NEW t \in Seq(LineType)
  PROVE  LET u == InsertMpiUse(t)
         IN  u \in Seq(LineType) /\ \E at :
               /\ Follows(t, u, at)
               /\ \A p \in DOMAIN u : at[p] \in DOMAIN t /\ (u[p] = MpiUse \/ u[p] = t[at[p]])
               /\ \A i \in DOMAIN t : \E p \in DOMAIN u :
                     /\ at[p] = i /\ u[p] = t[i]
                     /\ MpiUseAt(t, i) = <<>> => \A q \in DOMAIN u : at[q] = i => q = p
<1> DEFINE s == [i \in DOMAIN t |-> MpiUseAt(t, i) \o <<t[i]>>]
           u == FlattenSeq(s)
<1>1. DOMAIN t = 1 .. Len(t) /\ Len(t) \in Nat
  OBVIOUS
<1>2. InsertMpiUse(t) = u
  BY DEF InsertMpiUse, MpiUseAt, NeedsMpi
<1>3. MpiUse \in LineType /\ MpiUse.k = "use"
  <2>1. "use" \in Kinds /\ "mpi" \in Types
    BY DEF Kinds, Types
  <2> QED BY <2>1, NewLine, LineExcept DEF MpiUse
<1>4. ~Structural(MpiUse)
  BY <1>3 DEF Structural
<1>5. ASSUME NEW i \in DOMAIN t
      PROVE  /\ s[i] \in Seq(LineType) /\ s[i] # <<>> /\ Len(s[i]) \in DOMAIN s[i] /\ s[i][Len(s[i])] = t[i]
             /\ \A j \in DOMAIN s[i] : s[i][j] = MpiUse \/ (j = Len(s[i]) /\ s[i][j] = t[i])
  <2>1. t[i] \in LineType
    BY <1>1
  <2>2. s[i] = <<>> \o <<t[i]>> \/ s[i] = <<MpiUse>> \o <<t[i]>>
    BY DEF MpiUseAt
  <2> HIDE DEF s
  <2>3. PICK l \in LineType, m \in LineType : l = t[i] /\ m = MpiUse
    BY <1>3, <2>1
  <2>4. s[i] = <<>> \o <<l>> \/ s[i] = <<m>> \o <<l>>
    BY <2>2, <2>3
  <2>5. CASE s[i] = <<>> \o <<l>>
    <3>1. /\ s[i] \in Seq(LineType) /\ Len(s[i]) = 1 /\ s[i][1] = l
      BY <2>5
    <3> QED BY <2>3, <3>1
  <2>6. CASE s[i] = <<m>> \o <<l>>
    <3>1. <<m>> \in Seq(LineType) /\ <<l>> \in Seq(LineType) /\ Len(<<m>>) = 1 /\ Len(<<l>>) = 1
          /\ <<m>>[1] = m /\ <<l>>[1] = l
      OBVIOUS
    <3> DEFINE a == <<m>>
               b == <<l>>
               r == a \o b
    <3>2. a \in Seq(LineType) /\ b \in Seq(LineType) /\ Len(a) = 1 /\ Len(b) = 1 /\ a[1] = m /\ b[1] = l
      BY <3>1
    <3> HIDE DEF a, b
    <3>3. r \in Seq(LineType) /\ Len(r) = 2 /\ r[1] = m /\ r[2] = l
      BY <3>2, ConcatPlaces
    <3>4. s[i] = r
      BY <2>6 DEF a, b
    <3> HIDE DEF r
    <3>5. s[i] \in Seq(LineType) /\ Len(s[i]) = 2 /\ s[i][1] = MpiUse /\ s[i][2] = t[i]
      BY <2>3, <3>3, <3>4
    <3>6. 2 \in DOMAIN s[i] /\ s[i] # <<>> /\ \A j \in DOMAIN s[i] : j = 1 \/ j = 2
      BY <3>5
    <3> QED BY <3>5, <3>6
  <2> QED BY <2>4, <2>5, <2>6
<1>6. ASSUME NEW i \in DOMAIN t, MpiUseAt(t, i) = <<>> PROVE Len(s[i]) = 1
  <2>1. PICK l : l = t[i]
    OBVIOUS
  <2>2. s[i] = <<>> \o <<l>>
    BY <1>6, <2>1
  <2> QED BY <2>2
<1>7. s \in Seq(Seq(LineType)) /\ DOMAIN s = DOMAIN t
  <2>1. s = [i \in DOMAIN t |-> s[i]] /\ DOMAIN s = DOMAIN t
    OBVIOUS
  <2> HIDE DEF s
  <2> QED BY <1>1, <1>5, <2>1
<1>8. u \in Seq(LineType) /\ \E at, nth : Places(s, u, at, nth)
  BY <1>7, FlattenPlaces
<1>9. PICK at, nth : Places(s, u, at, nth)
  BY <1>8
<1> HIDE DEF s, u
<1>10. KeepsStructure(t, s)
  <2>1. ASSUME NEW i \in DOMAIN s, NEW j \in DOMAIN s[i], Structural(s[i][j])
        PROVE  j = Len(s[i]) /\ i \in DOMAIN t /\ s[i][j].k = t[i].k
    <3>1. s[i][j] # MpiUse
      BY <2>1, <1>4
    <3> QED BY <3>1, <1>5, <1>7
  <2> QED BY <2>1, <1>5, <1>7 DEF KeepsStructure
<1>11. Follows(t, u, at)
  BY <1>7, <1>8, <1>9, <1>10, PiecesFollow
<1>12. ASSUME NEW p \in DOMAIN u
       PROVE  at[p] \in DOMAIN t /\ (u[p] = MpiUse \/ u[p] = t[at[p]])
  <2>1. at[p] \in DOMAIN s /\ nth[p] \in DOMAIN s[at[p]] /\ u[p] = s[at[p]][nth[p]]
    BY <1>9 DEF Places
  <2> QED BY <2>1, <1>5, <1>7
<1>13. ASSUME NEW i \in DOMAIN t
       PROVE  \E p \in DOMAIN u : /\ at[p] = i /\ u[p] = t[i]
                                  /\ MpiUseAt(t, i) = <<>> => \A q \in DOMAIN u : at[q] = i => q = p
  <2>1. Len(s[i]) \in DOMAIN s[i] /\ s[i][Len(s[i])] = t[i] /\ i \in DOMAIN s
    BY <1>5, <1>7
  <2>2. PICK p \in DOMAIN u : at[p] = i /\ nth[p] = Len(s[i])
    BY <2>1, <1>9 DEF Places
  <2>3. u[p] = t[i]
    BY <2>1, <2>2, <1>9 DEF Places
  <2>4. ASSUME MpiUseAt(t, i) = <<>>, NEW q \in DOMAIN u, at[q] = i PROVE q = p
    <3>1. nth[q] \in DOMAIN s[i] /\ nth[p] \in DOMAIN s[i] /\ s[i] \in Seq(LineType) /\ Len(s[i]) = 1
      BY <1>5, <1>6, <1>9, <2>1, <2>2, <2>4 DEF Places
    <3>2. nth[q] = 1 /\ nth[p] = 1
      BY <3>1
    <3>3. p \in Nat /\ q \in Nat /\ i \in Nat
      <4>1. DOMAIN u \subseteq Nat
        BY <1>8
      <4> QED BY <1>1, <4>1
    <3>4. /\ p < q => at[p] < at[q] \/ (at[p] = at[q] /\ nth[p] < nth[q])
          /\ q < p => at[q] < at[p] \/ (at[q] = at[p] /\ nth[q] < nth[p])
      BY <1>9 DEF Places
    <3> QED BY <2>2, <2>4, <3>2, <3>3, <3>4
  <2> QED BY <2>2, <2>3, <2>4
<1>14. u \in Seq(LineType)
  BY <1>8
<1> QED BY <1>2, <1>11, <1>12, <1>13, <1>14

LEMMA MpiUseServed ==
  ASSUME NEW t, Served(t)
  PROVE  Served(InsertMpiUse(t))
<1> DEFINE u == InsertMpiUse(t)
<1>1. t \in Seq(LineType)
  BY DEF Served
<1>2. TypeName(MpiUse.ty) = {}
  <2>1. "use" \in Kinds /\ "mpi" \in Types
    BY DEF Kinds, Types
  <2>2. MpiUse.ty = "mpi"
    BY <2>1, NewLine, LineExcept DEF MpiUse
  <2> QED BY <2>2 DEF TypeName
<1>3. PICK at :
        /\ Follows(t, u, at)
        /\ \A p \in DOMAIN u : at[p] \in DOMAIN t /\ (u[p] = MpiUse \/ u[p] = t[at[p]])
        /\ \A i \in DOMAIN t : \E p \in DOMAIN u : at[p] = i /\ u[p] = t[i]
  BY <1>1, MpiUseFollows
<1>4. u \in Seq(LineType)
  BY <1>1, MpiUseFollows
<1> HIDE DEF u
<1>5. ASSUME NEW p \in DOMAIN u, TypeName(u[p].ty) # {}
      PROVE  /\ at[p] \in DOMAIN t /\ TypeName(u[p].ty) = TypeName(t[at[p]].ty)
             /\ Structural(t[at[p]]) => Structural(u[p])
  <2>1. u[p] # MpiUse
    BY <1>2, <1>5
  <2> QED BY <1>3, <2>1
<1>6. ASSUME NEW i \in DOMAIN t, NEW ns \in SUBSET TargetTypes, Gives(t[i], ns)
      PROVE  \E p \in DOMAIN u : at[p] = i /\ Gives(u[p], ns)
  BY <1>3, <1>6
<1>7. KeepsTypes(t, u, at)
  BY <1>5, <1>6 DEF KeepsTypes
<1>8. Served(u)
  BY <1>3, <1>4, <1>7, ServedFollows
<1> QED BY <1>8 DEF u

-----------------------------------------------------------------------------
(* What the prototypes of a served file see.                               *)

LEMMA MatchingEndIs ==
  ASSUME NEW S, NEW t \in Seq(S), NEW h \in Lines(t, "header"),
         NEW e \in Lines(t, "end"), h < e, NothingBetween(t, h, e)
  PROVE  MatchingEnd(t, h) = e
<1> DEFINE H(k) == {i \in Lines(t, "header") : h <= i /\ i <= k}
           E(k) == {i \in Lines(t, "end") : h <= i /\ i <= k}
           open(k) == Cardinality(H(k)) - Cardinality(E(k))
           ends == {f \in Lines(t, "end") : f > h /\ open(f) = 0}
<1>1. h \in DOMAIN t /\ e \in DOMAIN t /\ h \in Nat /\ e \in Nat /\ DOMAIN t = 1 .. Len(t) /\ Len(t) \in Nat
  BY DEF Lines
<1>2. t[h].k = "header" /\ t[e].k = "end"
  BY DEF Lines
<1>3. MatchingEnd(t, h) = IF ends = {} THEN Len(t) ELSE FirstOf(ends)
  BY DEF MatchingEnd
<1>4. \A j \in DOMAIN t : h < j /\ j < e => t[j].k # "header" /\ t[j].k # "end"
  BY <1>1 DEF NothingBetween, Structural
<1>5. H(e) = {h} /\ E(e) = {e}
  BY <1>1, <1>2, <1>4 DEF Lines
<1>6. open(e) = 0
  <2>1. Cardinality({h}) = 1 /\ Cardinality({e}) = 1
    BY FS_Singleton
  <2>2. open(e) = Cardinality({h}) - Cardinality({e})
    BY <1>5
  <2> QED BY <2>1, <2>2
<1> HIDE DEF open
<1>7. e \in ends
  BY <1>6
<1>8. \A f \in ends : e <= f
  BY <1>1, <1>4 DEF Lines
<1>9. ends \in SUBSET Nat
  BY <1>1 DEF Lines
<1> HIDE DEF ends
<1>10. FirstOf(ends) \in ends /\ FirstOf(ends) <= e /\ ends # {}
  BY <1>7, <1>9, FirstOfLeast
<1>11. FirstOf(ends) = e
  <2>1. PICK f \in ends : f = FirstOf(ends)
    BY <1>10
  <2>2. f \in Nat /\ e <= f /\ f <= e
    BY <1>8, <1>9, <1>10, <2>1
  <2> QED BY <1>1, <2>1, <2>2
<1> QED BY <1>3, <1>10, <1>11

LEMMA ServedPrototypes ==
  ASSUME NEW t, Served(t), NEW h \in Prototypes(t)
  PROVE  LET ls == ToSet(PrototypeLines(t, h))
         IN  UNION {TypeName(l.ty) : l \in ls} \subseteq Imports(ls)
<1> DEFINE ls == ToSet(PrototypeLines(t, h))
<1>1. t \in Seq(LineType) /\ WellFormed(t) /\ DOMAIN t = 1 .. Len(t) /\ Len(t) \in Nat
  BY DEF Served
<1>2. h \in Lines(t, "header") /\ InInterface(t, h) /\ h \in DOMAIN t
  BY DEF Prototypes, Lines
<1>3. PICK e \in Lines(t, "end") : h < e /\ NothingBetween(t, h, e)
  BY <1>1, <1>2 DEF WellFormed
<1>4. MatchingEnd(t, h) = e /\ e \in DOMAIN t
  BY <1>1, <1>2, <1>3, MatchingEndIs DEF Lines
<1>5. ls = {t[i] : i \in h + 1 .. e - 1}
  <2> DEFINE r == SubSeq(t, h + 1, e - 1)
  <2>0. h \in Nat /\ e \in Nat /\ e <= Len(t)
    BY <1>1, <1>2, <1>4
  <2>1. PrototypeLines(t, h) = r
    BY <1>4 DEF PrototypeLines
  <2>2. DOMAIN r = 1 .. e - 1 - h /\ \A j \in 1 .. e - 1 - h : r[j] = t[h + j]
    BY <1>1, <1>3, <2>0
  <2> HIDE DEF r
  <2>3. \A i \in h + 1 .. e - 1 : i - h \in DOMAIN r /\ r[i - h] = t[i]
    BY <2>0, <2>2
  <2>4. \A j \in DOMAIN r : h + j \in h + 1 .. e - 1 /\ r[j] = t[h + j]
    BY <2>0, <2>2
  <2>5. ToSet(r) = {r[j] : j \in DOMAIN r}
    BY DEF ToSet
  <2>6. {r[j] : j \in DOMAIN r} \subseteq {t[i] : i \in h + 1 .. e - 1}
    BY <2>4
  <2>7. {t[i] : i \in h + 1 .. e - 1} \subseteq {r[j] : j \in DOMAIN r}
    BY <2>3
  <2> QED BY <2>1, <2>5, <2>6, <2>7
<1>6. \A i \in DOMAIN t : h < i /\ i < e => Under(t, h, i)
  BY <1>1, <1>2, <1>3, <1>4 DEF Under, NoneIn, NothingBetween
<1>7. \A i \in DOMAIN t : Under(t, h, i) => i \in h + 1 .. e - 1
  <2>1. Structural(t[e])
    BY <1>3 DEF Lines, Structural
  <2> QED BY <1>1, <1>2, <1>3, <1>4, <2>1 DEF Under, NoneIn
<1> HIDE DEF ls
<1>8. ASSUME NEW l \in ls, TypeName(l.ty) # {} PROVE TypeName(l.ty) \subseteq Imports(ls)
  <2>1. PICK i \in h + 1 .. e - 1 : l = t[i]
    BY <1>5
  <2>2. i \in DOMAIN t /\ Under(t, h, i)
    BY <1>1, <1>2, <1>4, <1>6
  <2>3. PICK v \in DOMAIN t : Under(t, h, v) /\ Gives(t[v], TypeName(l.ty))
    BY <2>1, <2>2, <1>8 DEF Served
  <2>4. t[v] \in ls
    BY <2>3, <1>5, <1>7
  <2>5. TypeName(l.ty) \subseteq IF t[v].k = "useonly" THEN t[v].rf ELSE PublicNames
    BY <2>3, TypeNames DEF Gives
  <2>6. t[v].k \in {"use", "useonly"} /\ t[v].ty = "module"
    BY <2>3 DEF Gives
  <2> QED BY <2>4, <2>5, <2>6 DEF Imports
<1> QED BY <1>8 DEF ls

-----------------------------------------------------------------------------
(* The invariant of the driver.                                            *)

BeforeUse == {"read", "protected", "stripped", "parameters", "data"}
WithBareUse == {"placed", "promoted"}
WithOnlyList == {"specialized", "restored", "handles", "mpi", "done"}

IInv ==
  /\ stage \in BeforeUse \cup WithBareUse \cup WithOnlyList
  /\ removed \subseteq Known /\ extra \in Seq(ExtraType)
  /\ stage \in BeforeUse => Sound(text)
  /\ stage \in WithBareUse => Placed(text)
  /\ stage \in WithOnlyList => Served(text)

LEMMA InitEstablishes == Init => IInv
<1> SUFFICES ASSUME Init PROVE IInv
  OBVIOUS
<1>1. PICK f \in Sources : text = f.text
  BY DEF Init
<1>2. text \in Seq(LineType) /\ WellFormed(text) /\ InterfacesOpen(text)
  BY <1>1, SourceAssumption, CompilerAssumption DEF InterfacesOpen
<1>3. ASSUME NEW i \in DOMAIN text PROVE Clean(text[i]) /\ text[i].ty # "module"
  <2>1. text[i] \in ToSet(text) /\ text[i] \in LineType
    BY <1>2 DEF ToSet
  <2> QED BY <1>1, <2>1, SourceAssumption DEF Clean, TargetTypes
<1>4. Sound(text)
  BY <1>2, <1>3 DEF Sound
<1>5. removed = {} /\ extra = <<>> /\ stage = "read"
  BY DEF Init
<1>6. extra \in Seq(ExtraType)
  BY <1>5
<1> QED BY <1>4, <1>5, <1>6 DEF IInv, BeforeUse, WithBareUse, WithOnlyList

LEMMA StepKeeps == IInv /\ [Next]_vars => IInv'
<1> SUFFICES ASSUME IInv, [Next]_vars PROVE IInv'
  OBVIOUS
<1> USE DEF BeforeUse, WithBareUse, WithOnlyList
<1>0. UNCHANGED <<removed, extra>> => removed' \subseteq Known /\ extra' \in Seq(ExtraType)
  BY DEF IInv
<1>1. CASE ApplyKeepKind
  <2>1. stage = "read" /\ stage' = "protected" /\ Sound(text)
    BY <1>1 DEF ApplyKeepKind, Pass, IInv
  <2>2. Sound(text')
    BY <1>1, <2>1, ProtectSound DEF ApplyKeepKind
  <2> QED BY <1>0, <1>1, <2>1, <2>2 DEF ApplyKeepKind, IInv
<1>2. CASE StripKnownConstants
  <2>1. stage = "protected" /\ stage' = "stripped" /\ Sound(text)
    BY <1>2 DEF StripKnownConstants, Pass, IInv
  <2>2. Sound(text') /\ removed' \subseteq Known
    BY <1>2, <2>1, StripKnownSound DEF StripKnownConstants
  <2>3. extra' \in Seq(ExtraType)
    BY <1>2 DEF StripKnownConstants, IInv
  <2> QED BY <2>1, <2>2, <2>3 DEF IInv
<1>3. CASE ConvertParameterStmts
  <2>1. stage = "stripped" /\ stage' = "parameters" /\ Sound(text) /\ removed \subseteq Known
    BY <1>3 DEF ConvertParameterStmts, Pass, IInv
  <2> DEFINE r == ConvertParameters(text)
  <2>2. Sound(r.out) /\ r.extra \in Seq(ExtraType) /\ r.folded \subseteq Known
    BY <2>1, ConvertParametersSound
  <2>3. text' = r.out /\ extra' = r.extra /\ removed' = removed \cup r.folded
    BY <1>3 DEF ConvertParameterStmts
  <2> HIDE DEF r
  <2>4. Sound(text') /\ extra' \in Seq(ExtraType) /\ removed' \subseteq Known
    BY <2>1, <2>2, <2>3
  <2> QED BY <2>1, <2>4 DEF IInv
<1>4. CASE ConvertDataStmts
  <2>1. /\ stage = "parameters" /\ stage' = "data" /\ Sound(text)
        /\ removed \subseteq Known /\ extra \in Seq(ExtraType)
    BY <1>4 DEF ConvertDataStmts, Pass, IInv
  <2> DEFINE r == ConvertData(text)
  <2>2. Sound(r.out) /\ r.extra \in Seq(ExtraType) /\ r.folded \subseteq Known
    BY <2>1, ConvertDataSound
  <2>3. text' = r.out /\ extra' = extra \o r.extra /\ removed' = removed \cup r.folded
    BY <1>4 DEF ConvertDataStmts
  <2> HIDE DEF r
  <2>4. Sound(text') /\ extra' \in Seq(ExtraType) /\ removed' \subseteq Known
    BY <2>1, <2>2, <2>3
  <2> QED BY <2>1, <2>4 DEF IInv
<1>5. CASE InsertUseModule
  <2>1. stage = "data" /\ stage' = "placed" /\ Sound(text) /\ extra \in Seq(ExtraType)
    BY <1>5 DEF InsertUseModule, Pass, IInv
  <2>2. Placed(text')
    BY <1>5, <2>1, InsertUsePlaces DEF InsertUseModule
  <2>3. removed' \subseteq Known /\ extra' = <<>>
    BY <1>5 DEF InsertUseModule, IInv
  <2>4. extra' \in Seq(ExtraType)
    BY <2>3
  <2> QED BY <2>1, <2>2, <2>3, <2>4 DEF IInv
<1>6. CASE MigrateEachLine
  <2>1. stage = "placed" /\ stage' = "promoted" /\ Placed(text) /\ removed \subseteq Known
    BY <1>6 DEF MigrateEachLine, Pass, IInv
  <2>2. Placed(text')
    BY <1>6, <2>1, MigrateLinesPlaced DEF MigrateEachLine
  <2> QED BY <1>0, <1>6, <2>1, <2>2 DEF MigrateEachLine, IInv
<1>7. CASE SpecializeUseModule
  <2>1. stage = "promoted" /\ stage' = "specialized" /\ Placed(text)
    BY <1>7 DEF SpecializeUseModule, Pass, IInv
  <2>2. Served(text')
    BY <1>7, <2>1, SpecializeServes DEF SpecializeUseModule
  <2> QED BY <1>0, <1>7, <2>1, <2>2 DEF SpecializeUseModule, IInv
<1>8. CASE RestoreKeepKind
  <2>1. stage = "specialized" /\ stage' = "restored" /\ Served(text)
    BY <1>8 DEF RestoreKeepKind, Pass, IInv
  <2>2. Served(text')
    BY <1>8, <2>1, RestoreServed DEF RestoreKeepKind
  <2> QED BY <1>0, <1>8, <2>1, <2>2 DEF RestoreKeepKind, IInv
<1>9. CASE RewriteMpiHandles
  <2>1. stage = "restored" /\ stage' = "handles" /\ Served(text)
    BY <1>9 DEF RewriteMpiHandles, Pass, IInv
  <2>2. Served(text')
    BY <1>9, <2>1, HandlesServed DEF RewriteMpiHandles
  <2> QED BY <1>0, <1>9, <2>1, <2>2 DEF RewriteMpiHandles, IInv
<1>10. CASE InsertMpiModule
  <2>1. stage = "handles" /\ stage' = "mpi" /\ Served(text)
    BY <1>10 DEF InsertMpiModule, Pass, IInv
  <2>2. Served(text')
    BY <1>10, <2>1, MpiUseServed DEF InsertMpiModule
  <2> QED BY <1>0, <1>10, <2>1, <2>2 DEF InsertMpiModule, IInv
<1>11. CASE StripRoundupLwork
  <2>1. stage = "mpi" /\ stage' = "done" /\ Served(text)
    BY <1>11 DEF StripRoundupLwork, Pass, IInv
  <2>2. Served(text')
    BY <1>11, <2>1, StripRoundupServed DEF StripRoundupLwork
  <2> QED BY <1>0, <1>11, <2>1, <2>2 DEF StripRoundupLwork, IInv
<1>12. CASE Finished \/ UNCHANGED vars
  BY <1>12 DEF Finished, vars, IInv
<1> QED BY <1>1, <1>2, <1>3, <1>4, <1>5, <1>6, <1>7, <1>8, <1>9, <1>10, <1>11, <1>12 DEF Next

\* Every pass leaves what the next one counts on: no line declares a name of
\* the target's types, every header has a bare USE behind it before a line
\* is promoted, and after the import lists are made what a prototype declares
\* has its type imported under the same header.
THEOREM EachPassPreparesTheNext == Spec => []IInv
<1>1. Init => IInv
  BY InitEstablishes
<1>2. IInv /\ [Next]_vars => IInv'
  BY StepKeeps
<1> QED BY <1>1, <1>2, PTL DEF Spec

\* The passes of migrate_file_to_string take no END from a prototype or a
\* procedure and put none between a prototype's header and its END, so the
\* passes that count headers against ENDs pair the ones that belong together.
StructureIsKept == text \in Seq(LineType) /\ WellFormed(text)

THEOREM StructureStays == Spec => []StructureIsKept
<1>1. IInv => StructureIsKept
  BY DEF IInv, Sound, Placed, Served, StructureIsKept
<1> QED BY <1>1, EachPassPreparesTheNext, PTL

\* PrototypesSeeTheirTypes, for every file, every target module and both
\* halves: insert_use_multifloats puts a USE under the header of a prototype
\* too, specialize_use_multifloats lists in it what the whole procedure
\* refers to, and no later pass takes it away.
THEOREM PrototypesAreServed == Spec => []PrototypesSeeTheirTypes
<1>1. IInv => PrototypesSeeTheirTypes
  <2> SUFFICES ASSUME IInv, stage = "done", NEW h \in Prototypes(text)
               PROVE  LET ls == ToSet(PrototypeLines(text, h))
                      IN  UNION {TypeName(l.ty) : l \in ls} \subseteq Imports(ls)
    BY DEF PrototypesSeeTheirTypes
  <2>1. Served(text)
    BY DEF IInv, WithOnlyList
  <2> QED BY <2>1, ServedPrototypes
<1> QED BY <1>1, EachPassPreparesTheNext, PTL

-----------------------------------------------------------------------------
(* Concatenations that change nothing.                                     *)

LEMMA FlattenOfSingletons ==
  ASSUME NEW S, NEW s \in Seq(S), NEW z \in Seq(Seq(S)), Len(z) = Len(s),
         \A i \in 1 .. Len(s) : Len(z[i]) = 1 /\ z[i][1] = s[i]
  PROVE  FlattenSeq(z) = s
<1> DEFINE N == Len(s)
           r == FlattenSeq(z)
<1>1. DOMAIN s = 1 .. N /\ N \in Nat
  OBVIOUS
<1>2. \A i \in 1 .. N : Len(z[i]) = 1 /\ z[i][1] = s[i]
  OBVIOUS
<1>3. Len(z) = N
  OBVIOUS
<1>4. PICK o : /\ Offsets(z, o)
               /\ Len(r) = o[Len(z) + 1]
               /\ \A i \in 1 .. Len(z) : \A j \in 1 .. Len(z[i]) : r[o[i] + j] = z[i][j]
  BY FlattenOffsets
<1>5. r \in Seq(S)
  BY FlattenOffsets
<1> HIDE DEF r, N
<1>6. /\ \A i \in 1 .. N + 1 : o[i] \in Nat
      /\ o[1] = 0 /\ \A i \in 1 .. N : o[i + 1] = o[i] + 1
  BY <1>2, <1>3, <1>4 DEF Offsets
<1> DEFINE T == {k \in Nat : k \in 1 .. N + 1 /\ o[k] # k - 1}
<1>7. T = {}
  <2>1. SUFFICES ASSUME T # {} PROVE FALSE
    OBVIOUS
  <2>2. PICK m \in T : \A n \in T : m <= n
    <3>1. T \in SUBSET Nat
      OBVIOUS
    <3> HIDE DEF T
    <3> QED BY <2>1, <3>1, LeastOf
  <2>3. m \in 1 .. N + 1 /\ o[m] # m - 1
    OBVIOUS
  <2>4. m # 1
    BY <2>3, <1>6
  <2>5. m - 1 \in 1 .. N /\ m - 1 \in 1 .. N + 1 /\ m - 1 \in Nat /\ ~ (m <= m - 1) /\ (m - 1) + 1 = m
    BY <2>3, <2>4, <1>1
  <2>6. m - 1 \notin T
    <3> HIDE DEF T
    <3> QED BY <2>2, <2>5
  <2>7. o[m - 1] = (m - 1) - 1
    BY <2>5, <2>6
  <2>8. o[m] = o[m - 1] + 1
    BY <2>5, <1>6
  <2> HIDE DEF T
  <2> QED BY <2>3, <2>5, <2>7, <2>8
<1>8. ASSUME NEW k \in 1 .. N + 1 PROVE o[k] = k - 1
  <2>1. k \in Nat
    BY <1>1
  <2> QED BY <1>7, <2>1
<1> HIDE DEF T
<1>9. Len(r) = N
  <2>1. N + 1 \in 1 .. N + 1
    BY <1>1
  <2> QED BY <2>1, <1>1, <1>3, <1>4, <1>8
<1>10. \A i \in 1 .. N : r[i] = s[i]
  <2> SUFFICES ASSUME NEW i \in 1 .. N PROVE r[i] = s[i]
    OBVIOUS
  <2>1. r[o[i] + 1] = s[i]
    <3>1. 1 \in 1 .. Len(z[i]) /\ z[i][1] = s[i]
      BY <1>2
    <3> QED BY <3>1, <1>3, <1>4
  <2>2. o[i] + 1 = i
    BY <1>1, <1>8
  <2> QED BY <2>1, <2>2
<1> QED BY <1>1, <1>5, <1>9, <1>10, SeqEqual DEF r, N

LEMMA FlattenOfNone ==
  ASSUME NEW S, NEW z \in Seq(Seq(S)), \A i \in DOMAIN z : z[i] = <<>>
  PROVE  FlattenSeq(z) = <<>>
<1> DEFINE r == FlattenSeq(z)
<1>1. PICK at, nth : Places(z, r, at, nth)
  BY FlattenPlaces
<1>2. r \in Seq(S)
  BY FlattenPlaces
<1> HIDE DEF r
<1>3. DOMAIN r = {}
  <2> SUFFICES ASSUME NEW p \in DOMAIN r PROVE FALSE
    OBVIOUS
  <2>1. at[p] \in DOMAIN z /\ nth[p] \in DOMAIN z[at[p]]
    BY <1>1 DEF Places
  <2>2. z[at[p]] = <<>>
    BY <2>1
  <2> QED BY <2>1, <2>2
<1> QED BY <1>2, <1>3 DEF r

LEMMA AllItems ==
  ASSUME NEW S, NEW s \in Seq(S), NEW P, ToSet(s) \subseteq P
  PROVE  ItemsIn(s, P) = s
<1> DEFINE z == [i \in DOMAIN s |-> IF s[i] \in P THEN <<s[i]>> ELSE <<>>]
           y == [i \in DOMAIN s |-> <<s[i]>>]
<1>1. \A i \in DOMAIN s : s[i] \in P
  BY DEF ToSet
<1>2. z = y
  BY <1>1
<1>3. ItemsIn(s, P) = FlattenSeq(z)
  BY DEF ItemsIn
<1> HIDE DEF z
<1>4. FlattenSeq(y) = s
  <2>1. \A i \in DOMAIN s : y[i] = <<s[i]>> /\ y[i] \in Seq(S) /\ Len(y[i]) = 1 /\ y[i][1] = s[i]
    OBVIOUS
  <2>2. y = [i \in DOMAIN s |-> y[i]] /\ DOMAIN s = 1 .. Len(s) /\ Len(s) \in Nat
    OBVIOUS
  <2> HIDE DEF y
  <2>3. y \in Seq(Seq(S)) /\ Len(y) = Len(s)
    BY <2>1, <2>2
  <2> QED BY <2>1, <2>2, <2>3, FlattenOfSingletons
<1> QED BY <1>2, <1>3, <1>4

LEMMA NoItems ==
  ASSUME NEW S, NEW s \in Seq(S), NEW P, ToSet(s) \cap P = {}
  PROVE  ItemsIn(s, P) = <<>>
<1>1. ItemsIn(s, P) \in Seq(S) /\ ToSet(ItemsIn(s, P)) = {}
  BY PickedItems
<1>2. DOMAIN ItemsIn(s, P) = {}
  BY <1>1 DEF ToSet
<1> QED BY <1>1, <1>2

\* The n values of f are increasing and fill the numbers from h to e.
Fills(f, n, h, e) ==
  /\ f[1] = h /\ f[n] = e /\ \A j \in 1 .. n : f[j] \in Nat
  /\ \A j, k \in 1 .. n : j < k => f[j] < f[k]
  /\ \A p \in h .. e : \E j \in 1 .. n : p = f[j]

LEMMA Shift ==
  ASSUME NEW n \in Nat, NEW h \in Nat, NEW e \in Nat, NEW f, n >= 1, Fills(f, n, h, e)
  PROVE  \A j \in 1 .. n : f[j] = h + (j - 1)
<1> USE DEF Fills
<1> DEFINE T == {k \in Nat : k \in 1 .. n /\ f[k] # h + (k - 1)}
<1>1. T = {}
  <2>1. SUFFICES ASSUME T # {} PROVE FALSE
    OBVIOUS
  <2>2. PICK m \in T : \A k \in T : m <= k
    <3>1. T \in SUBSET Nat
      OBVIOUS
    <3> HIDE DEF T
    <3> QED BY <2>1, <3>1, LeastOf
  <2>3. m \in 1 .. n /\ f[m] # h + (m - 1)
    OBVIOUS
  <2>4. m # 1
    BY <2>3
  <2>5. m - 1 \in 1 .. n /\ m - 1 \in Nat /\ ~ (m <= m - 1) /\ m - 1 < m
    BY <2>3, <2>4
  <2>6. m - 1 \notin T
    <3> HIDE DEF T
    <3> QED BY <2>2, <2>5
  <2>7. f[m - 1] = h + ((m - 1) - 1)
    BY <2>5, <2>6
  <2> HIDE DEF T
  <2>8. f[m - 1] < f[m] /\ f[m] \in Nat
    BY <2>3, <2>5
  <2>9. f[m] <= e
    <3>1. m = n \/ m < n
      BY <2>3
    <3>2. m < n => f[m] < f[n]
      BY <2>3
    <3> QED BY <2>3, <2>8, <3>1, <3>2
  <2> DEFINE p == h + (m - 1)
  <2>10. p \in h .. e /\ p < f[m] /\ f[m - 1] < p
    BY <2>3, <2>5, <2>7, <2>8, <2>9
  <2>11. PICK j \in 1 .. n : p = f[j]
    BY <2>10
  <2> HIDE DEF p
  <2>12. ~ (m < j) /\ m # j
    <3>1. m < j => f[m] < f[j]
      BY <2>3
    <3> QED BY <3>1, <2>8, <2>10, <2>11
  <2>13. ~ (j < m - 1) /\ j # m - 1
    <3>1. j < m - 1 => f[j] < f[m - 1]
      BY <2>5
    <3>2. f[m - 1] \in Nat
      BY <2>5
    <3> QED BY <3>1, <3>2, <2>10, <2>11
  <2> QED BY <2>3, <2>5, <2>12, <2>13
<1> QED BY <1>1

-----------------------------------------------------------------------------
(* The procedures of a file, by number.                                    *)

LEMMA ProcedureLines ==
  ASSUME NEW t \in Seq(LineType)
  PROVE  /\ DOMAIN t = 1 .. Len(t) /\ Len(t) \in Nat /\ IsFiniteSet(Procedures(t))
         /\ \A h \in Procedures(t) : h \in DOMAIN t /\ h \in Nat /\ Structural(t[h]) /\ ~InInterface(t, h)
                                      /\ t[h].k = "header"
<1>1. DOMAIN t = 1 .. Len(t) /\ Len(t) \in Nat
  OBVIOUS
<1>2. \A h \in Procedures(t) : h \in DOMAIN t /\ ~InInterface(t, h) /\ t[h].k = "header"
  BY DEF Procedures, Lines
<1>3. IsFiniteSet(1 .. Len(t))
  <2>1. 1 \in Int /\ Len(t) \in Int
    BY <1>1
  <2> QED BY <2>1, FS_Interval
<1>4. Procedures(t) \in SUBSET (1 .. Len(t))
  BY <1>1, <1>2
<1>5. IsFiniteSet(Procedures(t))
  BY <1>3, <1>4, FS_Subset
<1> QED BY <1>1, <1>2, <1>5 DEF Structural

LEMMA ScopeGrows ==
  ASSUME NEW t \in Seq(LineType), NEW h \in Procedures(t), NEW i \in Nat, i < h
  PROVE  Scope(t, i) < Scope(t, h)
<1> DEFINE A(k) == {p \in Procedures(t) : p <= k}
<1>1. IsFiniteSet(A(h)) /\ h \in Nat
  <2>1. IsFiniteSet(Procedures(t)) /\ A(h) \in SUBSET Procedures(t)
    BY ProcedureLines
  <2> HIDE DEF A
  <2> QED BY <2>1, ProcedureLines, FS_Subset
<1>2. A(i) \in SUBSET A(h)
  <2> SUFFICES ASSUME NEW p \in Procedures(t), p <= i PROVE p <= h
    OBVIOUS
  <2> QED BY <1>1, ProcedureLines
<1>3. h \in A(h) /\ h \notin A(i)
  BY <1>1
<1>4. Scope(t, h) = Cardinality(A(h)) /\ Scope(t, i) = Cardinality(A(i))
  BY DEF Scope
<1> HIDE DEF A
<1>5. Cardinality(A(i)) <= Cardinality(A(h)) /\ Cardinality(A(i)) # Cardinality(A(h))
  BY <1>1, <1>2, <1>3, FS_Subset
<1>6. Scope(t, i) \in Nat /\ Scope(t, h) \in Nat
  BY ScopeType
<1> QED BY <1>4, <1>5, <1>6

LEMMA ScopeUnique ==
  ASSUME NEW t \in Seq(LineType), NEW h \in Procedures(t), NEW p \in Procedures(t),
         Scope(t, h) = Scope(t, p)
  PROVE  h = p
<1>1. h \in Nat /\ p \in Nat
  BY ProcedureLines
<1>2. ~ (h < p) /\ ~ (p < h)
  <2>1. Scope(t, h) \in Nat
    BY ScopeType
  <2> QED BY <1>1, <2>1, ScopeGrows
<1> QED BY <1>1, <1>2

\* A line is in the scope of the last header above it.
LEMMA ScopeInside ==
  ASSUME NEW t \in Seq(LineType), NEW h \in Procedures(t), NEW i \in Nat, h <= i,
         \A p \in Procedures(t) : h < p => i < p
  PROVE  Scope(t, i) = Scope(t, h)
<1>1. h \in Nat /\ \A p \in Procedures(t) : p \in Nat
  BY ProcedureLines
<1>2. \A p \in Procedures(t) : p <= i <=> p <= h
  <2> SUFFICES ASSUME NEW p \in Procedures(t) PROVE p <= i <=> p <= h
    OBVIOUS
  <2>1. p \in Nat /\ (h < p => i < p)
    BY <1>1
  <2> QED BY <1>1, <2>1
<1>3. {p \in Procedures(t) : p <= i} = {p \in Procedures(t) : p <= h}
  BY <1>2
<1> QED BY <1>3 DEF Scope

LEMMA ScopeOnto ==
  ASSUME NEW t \in Seq(LineType), NEW s \in 1 .. Cardinality(Procedures(t))
  PROVE  \E h \in Procedures(t) : Scope(t, h) = s
<1> DEFINE N == Len(t)
           T == {n \in Nat : Scope(t, n) >= s}
           A(k) == {p \in Procedures(t) : p <= k}
<1>1. N \in Nat /\ \A p \in Procedures(t) : p \in 1 .. N
  BY ProcedureLines
<1>2. N \in T
  <2>1. A(N) = Procedures(t)
    BY <1>1
  <2>2. Scope(t, N) = Cardinality(Procedures(t))
    BY <2>1 DEF Scope
  <2> QED BY <1>1, <2>2
<1>3. PICK m \in T : \A n \in T : m <= n
  <2>1. T \in SUBSET Nat /\ T # {}
    BY <1>2
  <2> HIDE DEF T
  <2> QED BY <2>1, LeastOf
<1>4. m \in Nat /\ Scope(t, m) >= s
  OBVIOUS
<1>5. Scope(t, 0) = 0
  <2>1. A(0) = {}
    BY <1>1
  <2> QED BY <2>1, FS_EmptySet DEF Scope
<1>6. m # 0
  BY <1>4, <1>5
<1>7. m - 1 \in Nat /\ ~ (m <= m - 1)
  BY <1>4, <1>6
<1>8. m - 1 \notin T
  <2> HIDE DEF T
  <2> QED BY <1>3, <1>7
<1>9. Scope(t, m - 1) < s
  <2>1. Scope(t, m - 1) \in Nat
    BY ScopeType
  <2> QED BY <1>7, <1>8, <2>1
<1>10. m \in Procedures(t)
  <2> SUFFICES ASSUME m \notin Procedures(t) PROVE FALSE
    OBVIOUS
  <2>1. A(m) = A(m - 1)
    BY <1>1, <1>4
  <2>2. Scope(t, m) = Scope(t, m - 1)
    BY <2>1 DEF Scope
  <2> HIDE DEF T
  <2>3. Scope(t, m) \in Nat /\ s \in Nat
    BY ScopeType
  <2> QED BY <1>4, <1>9, <2>2, <2>3
<1>11. Scope(t, m) = Scope(t, m - 1) + 1
  <2>1. A(m) = A(m - 1) \cup {m} /\ m \notin A(m - 1)
    <3>1. \A p \in Procedures(t) : p <= m <=> p <= m - 1 \/ p = m
      <4> SUFFICES ASSUME NEW p \in Procedures(t) PROVE p <= m <=> p <= m - 1 \/ p = m
        OBVIOUS
      <4>1. p \in Nat
        BY <1>1
      <4> QED BY <1>4, <1>6, <4>1
    <3>2. A(m) = A(m - 1) \cup {m}
      BY <3>1, <1>10
    <3> QED BY <1>7, <3>2
  <2>2. IsFiniteSet(A(m - 1))
    <3>1. A(m - 1) \in SUBSET Procedures(t) /\ IsFiniteSet(Procedures(t))
      BY ProcedureLines
    <3> HIDE DEF A
    <3> QED BY <3>1, FS_Subset
  <2>3. Scope(t, m) = Cardinality(A(m)) /\ Scope(t, m - 1) = Cardinality(A(m - 1))
    BY DEF Scope
  <2> HIDE DEF A
  <2> QED BY <2>1, <2>2, <2>3, FS_AddElement
<1> HIDE DEF T
<1>12. Scope(t, m) \in Nat /\ Scope(t, m - 1) \in Nat /\ s \in Nat
  BY ScopeType
<1> QED BY <1>4, <1>9, <1>10, <1>11, <1>12

LEMMA ProcedureEnd ==
  ASSUME NEW t \in Seq(LineType), WellFormed(t), NEW h \in Procedures(t)
  PROVE  LET e == NextEnd(t, h)
         IN  /\ e \in Lines(t, "end") /\ e \in DOMAIN t /\ e \in Nat /\ h < e /\ ~InInterface(t, e)
             /\ \A j \in h + 1 .. e - 1 : t[j].k \in {"header", "end"} => InInterface(t, j)
<1>1. h \in DOMAIN t /\ h \in Nat /\ DOMAIN t = 1 .. Len(t) /\ t[h].k = "header"
  BY ProcedureLines
<1>2. PICK e \in Lines(t, "end") :
        /\ h < e /\ ~InInterface(t, e)
        /\ \A j \in h + 1 .. e - 1 : t[j].k \in {"header", "end"} => InInterface(t, j)
  BY DEF WellFormed
<1>3. e \in DOMAIN t /\ e \in Nat
  BY <1>1 DEF Lines
<1> DEFINE T == {f \in Lines(t, "end") : f >= h /\ ~InInterface(t, f)}
<1>4. e \in T /\ T \in SUBSET Nat
  BY <1>1, <1>2, <1>3 DEF Lines
<1>5. NextEnd(t, h) = IF T = {} THEN Len(t) ELSE FirstOf(T)
  BY DEF NextEnd
<1>6. \A f \in T : e <= f
  <2> SUFFICES ASSUME NEW f \in Lines(t, "end"), f >= h, ~InInterface(t, f), f < e PROVE FALSE
    BY <1>1, <1>3 DEF Lines
  <2>1. f \in DOMAIN t /\ t[f].k = "end" /\ f \in Nat
    BY <1>1 DEF Lines
  <2>2. f # h
    BY <1>1, <2>1
  <2>3. f \in h + 1 .. e - 1
    BY <1>1, <1>3, <2>1, <2>2
  <2> QED BY <1>2, <2>1, <2>3
<1> HIDE DEF T
<1>7. T # {} /\ FirstOf(T) \in T /\ FirstOf(T) <= e
  BY <1>4, FirstOfLeast
<1>8. FirstOf(T) = e
  <2>1. PICK f \in T : f = FirstOf(T)
    BY <1>7
  <2>2. f \in Nat /\ e <= f /\ f <= e
    BY <1>4, <1>6, <1>7, <2>1
  <2> QED BY <1>3, <2>1, <2>2
<1>9. NextEnd(t, h) = e
  BY <1>5, <1>7, <1>8
<1> QED BY <1>2, <1>3, <1>9

\* Procedures follow each other.
LEMMA ProceduresApart ==
  ASSUME NEW t \in Seq(LineType), WellFormed(t), NEW h \in Procedures(t), NEW p \in Procedures(t), h < p
  PROVE  NextEnd(t, h) < p
<1> DEFINE e == NextEnd(t, h)
<1>1. h \in Nat /\ p \in DOMAIN t /\ p \in Nat /\ t[p].k = "header" /\ ~InInterface(t, p)
  BY ProcedureLines
<1>2. e \in Nat /\ \A j \in h + 1 .. e - 1 : t[j].k \in {"header", "end"} => InInterface(t, j)
  BY ProcedureEnd
<1>3. t[e].k = "end"
  BY ProcedureEnd DEF Lines
<1> HIDE DEF e
<1>4. p # e
  BY <1>1, <1>3
<1>5. ~ (p < e)
  <2> SUFFICES ASSUME p < e PROVE FALSE
    OBVIOUS
  <2>1. p \in h + 1 .. e - 1
    BY <1>1, <1>2
  <2> QED BY <1>1, <1>2, <2>1
<1> QED BY <1>1, <1>2, <1>4, <1>5 DEF e

\* What a pass makes of a procedure's lines is a procedure with its number.
LEMMA ScopeFollows ==
  ASSUME NEW t \in Seq(LineType), NEW u \in Seq(LineType), NEW at, Follows(t, u, at),
         NEW p \in DOMAIN u, at[p] \in Procedures(t), Structural(u[p])
  PROVE  p \in Procedures(u) /\ Scope(u, p) = Scope(t, at[p])
<1> DEFINE A == {h \in Procedures(u) : h <= p}
           B == {h \in Procedures(t) : h <= at[p]}
<1>1. ASSUME NEW q \in DOMAIN u, Structural(u[q])
      PROVE  q \in Procedures(u) <=> at[q] \in Procedures(t)
  <2>1. at[q] \in DOMAIN t /\ u[q].k = t[at[q]].k
    BY <1>1 DEF Follows
  <2>2. InInterface(u, q) <=> InInterface(t, at[q])
    BY <1>1, SameInterface
  <2> QED BY <2>1, <2>2 DEF Procedures, Lines
<1>2. A \subseteq {q \in DOMAIN u : Structural(u[q])}
  BY ProcedureLines
<1>3. B \subseteq DOMAIN t
  BY ProcedureLines
<1>4. ASSUME NEW q \in A PROVE at[q] \in B
  <2>1. q \in Procedures(u) /\ q \in DOMAIN u /\ Structural(u[q]) /\ q <= p
    BY ProcedureLines
  <2>2. at[q] \in Procedures(t)
    BY <1>1, <2>1
  <2>3. ~ (at[p] < at[q])
    BY <2>1, StructureInOrder
  <2>4. at[p] \in Nat /\ at[q] \in Nat
    BY <2>1 DEF Follows
  <2> QED BY <2>2, <2>3, <2>4
<1>5. ASSUME NEW i \in B PROVE \E q \in A : at[q] = i
  <2>1. i \in Procedures(t) /\ i \in DOMAIN t /\ Structural(t[i]) /\ i <= at[p]
    BY ProcedureLines
  <2>2. PICK q \in DOMAIN u : at[q] = i /\ Structural(u[q])
    BY <2>1 DEF Follows
  <2>3. q \in Procedures(u)
    BY <1>1, <2>1, <2>2
  <2>4. q \in Nat /\ p \in Nat /\ at[p] \in Nat /\ at[q] \in Nat /\ (p < q => at[p] < at[q])
    BY <2>2, StructureInOrder
  <2>5. q <= p
    BY <2>1, <2>2, <2>4
  <2> QED BY <2>2, <2>3, <2>5
<1> HIDE DEF A, B
<1>6. Cardinality(B) = Cardinality(A)
  BY <1>2, <1>3, <1>4, <1>5, SameCount
<1> QED BY <1>1, <1>6 DEF A, B, Scope

LEMMA SameStructure ==
  ASSUME NEW t \in Seq(LineType), NEW u \in Seq(LineType), DOMAIN u = DOMAIN t,
         \A i \in DOMAIN t : u[i].k = t[i].k
  PROVE  /\ Procedures(u) = Procedures(t)
         /\ \A i : Scope(u, i) = Scope(t, i) /\ NextEnd(u, i) = NextEnd(t, i)
         /\ \A i : InInterface(u, i) <=> InInterface(t, i)
         /\ Len(u) = Len(t)
<1>1. Len(u) = Len(t)
  OBVIOUS
<1>2. \A k : Lines(u, k) = Lines(t, k)
  BY DEF Lines
<1>3. ASSUME NEW i PROVE InInterface(u, i) <=> InInterface(t, i)
  <2>1. Lines(u, "interface") = Lines(t, "interface") /\ Lines(u, "endinterface") = Lines(t, "endinterface")
    BY <1>2
  <2> QED BY <2>1, Zenon DEF InInterface
<1>4. Procedures(u) = Procedures(t)
  BY <1>2, <1>3 DEF Procedures
<1>5. ASSUME NEW i PROVE Scope(u, i) = Scope(t, i)
  BY <1>4 DEF Scope
<1>6. ASSUME NEW i PROVE NextEnd(u, i) = NextEnd(t, i)
  <2> DEFINE A == {e \in Lines(u, "end") : e >= i /\ ~InInterface(u, e)}
             B == {e \in Lines(t, "end") : e >= i /\ ~InInterface(t, e)}
  <2>1. A = B
    BY <1>2, <1>3
  <2>2. NextEnd(u, i) = IF A = {} THEN Len(u) ELSE FirstOf(A)
    BY DEF NextEnd
  <2>3. NextEnd(t, i) = IF B = {} THEN Len(t) ELSE FirstOf(B)
    BY DEF NextEnd
  <2> HIDE DEF A, B
  <2>4. FirstOf(A) = FirstOf(B)
    BY <2>1
  <2>5. CASE A = {}
    BY <1>1, <2>1, <2>2, <2>3, <2>5
  <2>6. CASE A # {}
    BY <2>1, <2>2, <2>3, <2>4, <2>6
  <2> QED BY <2>5, <2>6
<1> QED BY <1>1, <1>3, <1>4, <1>5, <1>6

-----------------------------------------------------------------------------
(* A procedure no pass has anything to do in.                              *)

\* A line that is no procedure's of the working precision.
Plain(l) ==
  /\ l \in LineType
  /\ Identifiers(l) \cap (PublicNames \cup Known \cup {"ROUNDUP_LWORK", "kept_dble"}) = {}
  /\ l.rf \cap (MpiTokens \cup {"MPI_DOUBLE_PRECISION"}) = {}
  /\ \A x \in ToSet(l.it) : ~IsFpValue(x.v)
  /\ Promoted(l.ty) = l.ty /\ l.ty # "module"
  /\ l.k \in {"decl", "param", "external"} => l.it # <<>>

PlainProcedure(t, h) == h \in Procedures(t) /\ \A i \in h .. NextEnd(t, h) : Plain(t[i])

\* The procedure at h of b is in t, its lines in order and unchanged, with
\* nothing but lines of U between them; f says where they are.
SpreadBy(b, t, h, U, f) ==
  LET e == NextEnd(b, h)
  IN  /\ f \in [h .. e -> Nat]
      /\ f[h] \in Procedures(t) /\ Scope(t, f[h]) = Scope(b, h) /\ f[e] = NextEnd(t, f[h])
      /\ \A i \in h .. e : f[i] \in DOMAIN t /\ t[f[i]] = b[i]
      /\ \A i, j \in h .. e : i < j => f[i] < f[j]
      /\ \A p \in f[h] .. f[e] : (\E i \in h .. e : p = f[i]) \/ t[p] \in U

Untouched(b, t, U) == \A h : PlainProcedure(b, h) => \E f : SpreadBy(b, t, h, U, f)

LEMMA UntouchedAtFirst ==
  ASSUME NEW t \in Seq(LineType), WellFormed(t), NEW U
  PROVE  Untouched(t, t, U)
<1> SUFFICES ASSUME NEW h, PlainProcedure(t, h) PROVE \E f : SpreadBy(t, t, h, U, f)
  BY DEF Untouched
<1> DEFINE e == NextEnd(t, h)
           f == [i \in h .. e |-> i]
<1>1. h \in Procedures(t) /\ h \in DOMAIN t /\ h \in Nat
  BY ProcedureLines DEF PlainProcedure
<1>2. e \in DOMAIN t /\ e \in Nat /\ h < e
  BY <1>1, ProcedureEnd
<1>3. e = NextEnd(t, h)
  OBVIOUS
<1> HIDE DEF e
<1>4. \A i \in h .. e : i \in DOMAIN t /\ i \in Nat /\ f[i] = i
  BY <1>1, <1>2
<1>5. h \in h .. e /\ e \in h .. e
  BY <1>1, <1>2
<1>6. f \in [h .. e -> Nat]
  BY <1>4
<1> HIDE DEF f
<1>7. \A p \in f[h] .. f[e] : \E i \in h .. e : p = f[i]
  BY <1>4, <1>5
<1> QED BY <1>1, <1>3, <1>4, <1>5, <1>6, <1>7 DEF SpreadBy

LEMMA UntouchedPointwise ==
  ASSUME NEW b \in Seq(LineType), WellFormed(b), NEW t \in Seq(LineType), WellFormed(t),
         Untouched(b, t, {}),
         NEW c \in Seq(LineType), DOMAIN c = DOMAIN b, \A i \in DOMAIN b : c[i].k = b[i].k,
         NEW u \in Seq(LineType), DOMAIN u = DOMAIN t, \A i \in DOMAIN t : u[i].k = t[i].k,
         \A i \in DOMAIN c : Plain(c[i]) => Plain(b[i]),
         \A i \in DOMAIN b, p \in DOMAIN t : t[p] = b[i] /\ Plain(c[i]) => u[p] = c[i]
  PROVE  Untouched(c, u, {})
<1> SUFFICES ASSUME NEW h, PlainProcedure(c, h) PROVE \E f : SpreadBy(c, u, h, {}, f)
  BY DEF Untouched
<1> DEFINE e == NextEnd(b, h)
<1>1. h \in Procedures(b) /\ NextEnd(c, h) = e /\ Scope(c, h) = Scope(b, h)
  BY SameStructure DEF PlainProcedure
<1>2. h \in DOMAIN b /\ h \in Nat /\ e \in DOMAIN b /\ e \in Nat /\ DOMAIN b = 1 .. Len(b)
  BY <1>1, ProcedureLines, ProcedureEnd
<1>3. e = NextEnd(b, h)
  OBVIOUS
<1> HIDE DEF e
<1>4. \A i \in h .. e : i \in DOMAIN b /\ Plain(c[i])
  BY <1>1, <1>2 DEF PlainProcedure
<1>5. PlainProcedure(b, h)
  BY <1>1, <1>3, <1>4 DEF PlainProcedure
<1>6. PICK f : SpreadBy(b, t, h, {}, f)
  BY <1>5 DEF Untouched
<1>7. Procedures(u) = Procedures(t) /\ Scope(u, f[h]) = Scope(t, f[h]) /\ NextEnd(u, f[h]) = NextEnd(t, f[h])
  BY SameStructure
<1>8. \A i \in h .. e : f[i] \in DOMAIN u /\ u[f[i]] = c[i]
  BY <1>3, <1>4, <1>6 DEF SpreadBy
<1> DEFINE d == NextEnd(c, h)
<1>9. d = e
  BY <1>1
<1>10. /\ f \in [h .. e -> Nat] /\ \A i, j \in h .. e : i < j => f[i] < f[j]
       /\ f[h] \in Procedures(t) /\ Scope(t, f[h]) = Scope(b, h) /\ f[e] = NextEnd(t, f[h])
       /\ \A p \in f[h] .. f[e] : \E i \in h .. e : p = f[i]
  BY <1>3, <1>6 DEF SpreadBy
<1> HIDE DEF d
<1>11. /\ f \in [h .. d -> Nat] /\ \A i, j \in h .. d : i < j => f[i] < f[j]
       /\ f[h] \in Procedures(u) /\ Scope(u, f[h]) = Scope(c, h) /\ f[d] = NextEnd(u, f[h])
       /\ \A i \in h .. d : f[i] \in DOMAIN u /\ u[f[i]] = c[i]
       /\ \A p \in f[h] .. f[d] : \E i \in h .. d : p = f[i]
  BY <1>1, <1>7, <1>8, <1>9, <1>10
<1> QED BY <1>11 DEF SpreadBy, d

\* A procedure of plain lines among which only lines of U have been put.
Quiet(t, g, U) == g \in Procedures(t) /\ \A i \in g .. NextEnd(t, g) : Plain(t[i]) \/ t[i] \in U

\* In such procedures with the number of a plain one of b a pass keeps every
\* line but those of U, and what it puts between them or makes of a line of U is in V.
LeavesQuiet(b, t, u, at, U, V) ==
  \A h, g : PlainProcedure(b, h) /\ Quiet(t, g, U) /\ Scope(t, g) = Scope(b, h) => \A i \in g .. NextEnd(t, g) :
    /\ t[i] \notin U => \E p \in DOMAIN u :
          /\ at[p] = i /\ u[p] = t[i]
          /\ g < i => \A q \in DOMAIN u : at[q] = i => q = p \/ u[q] \in V
    /\ t[i] \in U => \A q \in DOMAIN u : at[q] = i => u[q] \in V

LEMMA SpreadIsQuiet ==
  ASSUME NEW b \in Seq(LineType), WellFormed(b), NEW t \in Seq(LineType), NEW U,
         NEW h, PlainProcedure(b, h), NEW f, SpreadBy(b, t, h, U, f)
  PROVE  Quiet(t, f[h], U)
<1> DEFINE e == NextEnd(b, h)
<1>1. /\ f[h] \in Procedures(t) /\ f[e] = NextEnd(t, f[h])
      /\ \A i \in h .. e : f[i] \in DOMAIN t /\ t[f[i]] = b[i]
      /\ \A p \in f[h] .. f[e] : (\E i \in h .. e : p = f[i]) \/ t[p] \in U
  BY DEF SpreadBy
<1>2. \A i \in h .. e : Plain(b[i])
  BY DEF PlainProcedure
<1> HIDE DEF e
<1>3. ASSUME NEW p \in f[h] .. NextEnd(t, f[h]) PROVE Plain(t[p]) \/ t[p] \in U
  BY <1>1, <1>2
<1> QED BY <1>1, <1>3 DEF Quiet

LEMMA UntouchedStep ==
  ASSUME NEW b \in Seq(LineType), WellFormed(b), NEW t \in Seq(LineType), WellFormed(t),
         NEW u \in Seq(LineType), NEW at, Follows(t, u, at), NEW U, NEW V,
         \A l \in U : ~Plain(l), Untouched(b, t, U), LeavesQuiet(b, t, u, at, U, V)
  PROVE  Untouched(b, u, V)
<1> SUFFICES ASSUME NEW h, PlainProcedure(b, h) PROVE \E k : SpreadBy(b, u, h, V, k)
  BY DEF Untouched
<1>1. PICK f : SpreadBy(b, t, h, U, f)
  BY DEF Untouched
<1> DEFINE e == NextEnd(b, h)
           g == f[h]
<1>2. h \in DOMAIN b /\ h \in Nat /\ e \in DOMAIN b /\ e \in Nat /\ h < e /\ DOMAIN b = 1 .. Len(b)
  BY ProcedureLines, ProcedureEnd DEF PlainProcedure
<1>3. \A i \in h .. e : Plain(b[i])
  BY DEF PlainProcedure
<1>4. /\ f \in [h .. e -> Nat]
      /\ g \in Procedures(t) /\ Scope(t, g) = Scope(b, h) /\ f[e] = NextEnd(t, g)
      /\ \A i \in h .. e : f[i] \in DOMAIN t /\ t[f[i]] = b[i]
      /\ \A i, j \in h .. e : i < j => f[i] < f[j]
      /\ \A p \in g .. f[e] : (\E i \in h .. e : p = f[i]) \/ t[p] \in U
  BY <1>1 DEF SpreadBy
<1>5. Quiet(t, g, U)
  BY <1>1, SpreadIsQuiet
<1> DEFINE Own(i, p) == /\ at[p] = f[i] /\ u[p] = b[i]
                        /\ g < f[i] => \A q \in DOMAIN u : at[q] = f[i] => q = p \/ u[q] \in V
           k == [i \in h .. e |-> CHOOSE p \in DOMAIN u : Own(i, p)]
<1>6. e = NextEnd(b, h) /\ h \in h .. e /\ e \in h .. e /\ g = f[h]
  BY <1>2
<1> HIDE DEF e, g
<1>7. ASSUME NEW i \in h .. e PROVE f[i] \in g .. NextEnd(t, g) /\ f[i] \in Nat
  <2>1. i \in Nat /\ h <= i /\ i <= e
    BY <1>2
  <2>2. f[i] \in Nat /\ g \in Nat /\ f[e] \in Nat
    BY <1>4, <1>6
  <2>3. g <= f[i]
    <3>1. i = h \/ h < i
      BY <1>2, <2>1
    <3> QED BY <3>1, <2>2, <1>4, <1>6
  <2>4. f[i] <= f[e]
    <3>1. i = e \/ i < e
      BY <1>2, <2>1
    <3> QED BY <3>1, <2>2, <1>4, <1>6
  <2> QED BY <2>2, <2>3, <2>4, <1>4
<1>8. ASSUME NEW i \in h .. e PROVE k[i] \in DOMAIN u /\ Own(i, k[i])
  <2>1. t[f[i]] = b[i] /\ b[i] \notin U
    BY <1>3, <1>4
  <2>2. \E p \in DOMAIN u : Own(i, p)
    BY <1>4, <1>5, <1>7, <2>1 DEF LeavesQuiet
  <2>3. k[i] = CHOOSE p \in DOMAIN u : Own(i, p)
    OBVIOUS
  <2> HIDE DEF Own, k
  <2> QED BY <2>2, <2>3
<1>9. DOMAIN k = h .. e
  OBVIOUS
<1>10. DOMAIN u \subseteq Nat /\ DOMAIN t \subseteq Nat
  OBVIOUS
<1>11. k \in [h .. e -> Nat]
  <2>1. k = [i \in h .. e |-> k[i]]
    OBVIOUS
  <2> HIDE DEF k
  <2> QED BY <1>8, <1>10, <2>1
<1> HIDE DEF k
<1>12. \A i \in h .. e : k[i] \in DOMAIN u /\ at[k[i]] = f[i] /\ u[k[i]] = b[i] /\ k[i] \in Nat
  BY <1>8, <1>10
<1>13. ASSUME NEW i \in h .. e, NEW j \in h .. e, i < j PROVE k[i] < k[j]
  <2>1. f[i] < f[j] /\ f[i] \in Nat /\ f[j] \in Nat
    BY <1>4, <1>7, <1>13
  <2>2. k[j] < k[i] => at[k[j]] <= at[k[i]]
    BY <1>12 DEF Follows
  <2>3. k[i] # k[j]
    BY <1>12, <2>1
  <2> QED BY <1>12, <2>1, <2>2, <2>3
<1>14. Structural(u[k[h]]) /\ Structural(u[k[e]])
  <2>1. t[g].k = "header"
    BY <1>4, ProcedureLines
  <2>2. t[f[e]].k = "end"
    BY <1>4, ProcedureEnd DEF Lines
  <2> QED BY <1>4, <1>6, <1>12, <2>1, <2>2 DEF Structural
<1>15. k[h] \in Procedures(u) /\ Scope(u, k[h]) = Scope(b, h)
  <2>1. at[k[h]] = g
    BY <1>6, <1>12
  <2> QED BY <1>4, <1>6, <1>12, <1>14, <2>1, ScopeFollows
<1>16. k[e] = NextEnd(u, k[h])
  <2> DEFINE T == {z \in Lines(u, "end") : z >= k[h] /\ ~InInterface(u, z)}
  <2>1. f[e] \in Lines(t, "end") /\ ~InInterface(t, f[e])
    BY <1>4, ProcedureEnd
  <2>2. k[e] \in T
    <3>1. k[e] \in DOMAIN u /\ u[k[e]] = b[e] /\ b[e] = t[f[e]] /\ at[k[e]] = f[e]
      BY <1>4, <1>6, <1>12
    <3>2. u[k[e]].k = "end"
      BY <2>1, <3>1 DEF Lines
    <3>3. ~InInterface(u, k[e])
      BY <1>14, <2>1, <3>1, SameInterface
    <3>4. k[e] >= k[h]
      BY <1>2, <1>6, <1>12, <1>13
    <3> QED BY <3>1, <3>2, <3>3, <3>4 DEF Lines
  <2>3. ASSUME NEW z \in T PROVE k[e] <= z
    <3>1. z \in DOMAIN u /\ u[z].k = "end" /\ z >= k[h] /\ ~InInterface(u, z) /\ Structural(u[z]) /\ z \in Nat
      BY <1>10 DEF Lines, Structural
    <3>2. at[z] \in DOMAIN t /\ t[at[z]].k = "end" /\ ~InInterface(t, at[z])
      BY <3>1, SameInterface DEF Follows
    <3>3. at[k[h]] = g /\ at[k[e]] = f[e] /\ k[h] \in DOMAIN u /\ k[e] \in DOMAIN u /\ k[h] \in Nat /\ k[e] \in Nat
      BY <1>6, <1>12
    <3>4. g <= at[z]
      <4>1. z = k[h] \/ k[h] < z
        BY <3>1, <3>3
      <4>2. k[h] < z => at[k[h]] <= at[z]
        BY <3>1, <3>3 DEF Follows
      <4> QED BY <4>1, <4>2, <3>3, <1>6, <1>7
    <3>5. f[e] <= at[z]
      <4>1. at[z] \in Nat /\ f[e] \in Nat /\ g \in Nat
        BY <1>4, <1>6, <1>10, <3>2
      <4>2. at[z] # g
        <5>1. t[g].k = "header"
          BY <1>4, ProcedureLines
        <5> QED BY <5>1, <3>2
      <4>3. \A j \in g + 1 .. f[e] - 1 : t[j].k \in {"header", "end"} => InInterface(t, j)
        BY <1>4, ProcedureEnd
      <4> QED BY <3>2, <3>4, <4>1, <4>2, <4>3
    <3>6. ~ (z < k[e])
      <4>1. z < k[e] => at[z] < at[k[e]]
        BY <3>1, <3>3 DEF Follows
      <4>2. at[z] \in Nat /\ f[e] \in Nat
        BY <1>6, <1>7, <1>10, <3>2
      <4> QED BY <3>3, <3>5, <4>1, <4>2
    <3> QED BY <3>1, <3>3, <3>6
  <2>4. NextEnd(u, k[h]) = FirstOf(T)
    <3>1. NextEnd(u, k[h]) = IF T = {} THEN Len(u) ELSE FirstOf(T)
      BY DEF NextEnd
    <3> HIDE DEF T
    <3> QED BY <2>2, <3>1
  <2>5. T \in SUBSET Nat
    BY <1>10 DEF Lines
  <2> HIDE DEF T
  <2>6. FirstOf(T) \in T /\ \A j \in T : FirstOf(T) <= j
    BY <2>2, <2>5, FirstOfLeast
  <2>7. PICK m : m = FirstOf(T)
    OBVIOUS
  <2>8. m \in T /\ m \in Nat /\ k[e] \in Nat /\ m <= k[e] /\ k[e] <= m
    BY <2>2, <2>3, <2>5, <2>6, <2>7
  <2> QED BY <2>4, <2>7, <2>8
<1>17. ASSUME NEW p \in k[h] .. k[e] PROVE (\E i \in h .. e : p = k[i]) \/ u[p] \in V
  <2>1. k[h] \in DOMAIN u /\ k[e] \in DOMAIN u /\ at[k[h]] = g /\ at[k[e]] = f[e] /\ k[h] \in Nat /\ k[e] \in Nat
    BY <1>6, <1>12
  <2>2. p \in DOMAIN u /\ p \in Nat /\ k[h] <= p /\ p <= k[e]
    <3>1. DOMAIN u = 1 .. Len(u) /\ Len(u) \in Nat
      OBVIOUS
    <3> QED BY <2>1, <3>1
  <2>3. at[p] \in Nat /\ g \in Nat /\ f[e] \in Nat
    BY <1>6, <1>7, <2>2 DEF Follows
  <2>4. g <= at[p] /\ (p # k[h] => g < at[p])
    <3>1. k[h] < p => at[k[h]] < at[p]
      BY <1>14, <2>1, <2>2 DEF Follows
    <3> QED BY <2>1, <2>2, <2>3, <3>1
  <2>5. at[p] <= f[e]
    <3>1. p < k[e] => at[p] <= at[k[e]]
      BY <2>1, <2>2 DEF Follows
    <3> QED BY <2>1, <2>2, <2>3, <3>1
  <2>6. at[p] \in g .. f[e]
    BY <2>3, <2>4, <2>5
  <2>7. CASE t[at[p]] \in U
    <3>1. at[p] \in g .. NextEnd(t, g)
      BY <1>4, <2>6
    <3> QED BY <1>4, <1>5, <2>2, <2>7, <3>1 DEF LeavesQuiet
  <2>8. CASE t[at[p]] \notin U
    <3>1. PICK i \in h .. e : at[p] = f[i]
      BY <1>4, <2>6, <2>8
    <3>2. CASE p = k[h]
      BY <1>6, <3>2
    <3>3. CASE p # k[h]
      <4>1. g < f[i]
        BY <2>4, <3>1, <3>3
      <4>2. Own(i, k[i])
        BY <1>8
      <4> QED BY <2>2, <3>1, <4>1, <4>2
    <3> QED BY <3>2, <3>3
  <2> QED BY <2>7, <2>8
<1>18. SpreadBy(b, u, h, V, k)
  <2> HIDE DEF Own
  <2>1. \A i \in h .. e : k[i] \in DOMAIN u /\ u[k[i]] = b[i]
    BY <1>12
  <2> QED BY <1>6, <1>11, <1>13, <1>15, <1>16, <1>17, <2>1 DEF SpreadBy
<1> QED BY <1>18

LEMMA Section ==
  ASSUME NEW S, NEW r \in Seq(S), NEW i \in Int, NEW k \in Int, 1 <= i, i <= k, k <= Len(r)
  PROVE  /\ SubSeq(r, i, k) \in Seq(S) /\ Len(SubSeq(r, i, k)) = k - i + 1
         /\ \A j \in 1 .. k - i + 1 : SubSeq(r, i, k)[j] = r[i + j - 1]
<1>1. SubSeq(r, i, k) \in Seq(S)
  OBVIOUS
<1>2. Len(SubSeq(r, i, k)) = k - i + 1
  OBVIOUS
<1>3. \A j \in 1 .. k - i + 1 : SubSeq(r, i, k)[j] = r[i + j - 1]
  OBVIOUS
<1> QED BY <1>1, <1>2, <1>3

\* With nothing between its lines the procedure is the one it was.
LEMMA UntouchedText ==
  ASSUME NEW b \in Seq(LineType), WellFormed(b), NEW t \in Seq(LineType), Untouched(b, t, {}),
         NEW h, PlainProcedure(b, h)
  PROVE  ProcedureText(t, Scope(b, h)) = ProcedureText(b, Scope(b, h))
<1> DEFINE e == NextEnd(b, h)
           s == Scope(b, h)
<1>1. PICK f : SpreadBy(b, t, h, {}, f)
  BY DEF Untouched
<1>2. /\ f \in [h .. e -> Nat]
      /\ f[h] \in Procedures(t) /\ Scope(t, f[h]) = s /\ f[e] = NextEnd(t, f[h])
      /\ \A i \in h .. e : f[i] \in DOMAIN t /\ t[f[i]] = b[i]
      /\ \A i, j \in h .. e : i < j => f[i] < f[j]
      /\ \A p \in f[h] .. f[e] : \E i \in h .. e : p = f[i]
  BY <1>1 DEF SpreadBy
<1>3. h \in Procedures(b) /\ h \in Nat /\ e \in DOMAIN b /\ e \in Nat /\ h < e
  BY ProcedureLines, ProcedureEnd DEF PlainProcedure
<1>4. ProcedureText(b, s) = SubSeq(b, h, e)
  <2>1. \A p \in Procedures(b) : Scope(b, p) = s => p = h
    BY <1>3, ScopeUnique
  <2>2. h = CHOOSE p \in Procedures(b) : Scope(b, p) = s
    BY <1>3, <2>1
  <2> HIDE DEF s
  <2> QED BY <2>2 DEF ProcedureText
<1>5. ProcedureText(t, s) = SubSeq(t, f[h], f[e])
  <2>1. \A p \in Procedures(t) : Scope(t, p) = s => p = f[h]
    BY <1>2, ScopeUnique
  <2>2. PICK g : g = f[h]
    OBVIOUS
  <2> HIDE DEF s, e
  <2>3. g = CHOOSE p \in Procedures(t) : Scope(t, p) = s
    BY <1>2, <2>1, <2>2
  <2> QED BY <1>2, <2>2, <2>3 DEF ProcedureText
<1> DEFINE n == e - h + 1
           k == [j \in 1 .. n |-> f[h + (j - 1)]]
<1>6. n \in Nat /\ n >= 1 /\ \A j \in 1 .. n : h + (j - 1) \in h .. e /\ k[j] = f[h + (j - 1)]
  BY <1>3
<1>8. h + (1 - 1) = h /\ h + (n - 1) = e /\ 1 \in 1 .. n /\ n \in 1 .. n /\ h \in h .. e /\ e \in h .. e
  BY <1>3
<1> HIDE DEF e, s
<1>9. DOMAIN b = 1 .. Len(b) /\ Len(b) \in Nat /\ DOMAIN t = 1 .. Len(t) /\ Len(t) \in Nat /\ h \in DOMAIN b
  BY <1>3, ProcedureLines
<1>10. n = e - h + 1
  OBVIOUS
<1> HIDE DEF n, k
<1>11. k[1] = f[h] /\ k[n] = f[e]
  BY <1>6, <1>8
<1>12. \A j \in 1 .. n : k[j] \in Nat
  BY <1>2, <1>6
<1>13. ASSUME NEW i \in 1 .. n, NEW j \in 1 .. n, i < j PROVE k[i] < k[j]
  <2>1. h + (i - 1) < h + (j - 1)
    BY <1>3, <1>6, <1>13
  <2> QED BY <1>2, <1>6, <2>1
<1>14. ASSUME NEW p \in f[h] .. f[e] PROVE \E j \in 1 .. n : p = k[j]
  <2>1. PICK i \in h .. e : p = f[i]
    BY <1>2
  <2>2. PICK j : j = i - h + 1
    OBVIOUS
  <2>3. j \in 1 .. n /\ h + (j - 1) = i
    BY <1>3, <1>10, <2>2
  <2> QED BY <1>6, <2>1, <2>3
<1>15. f[h] \in Nat /\ f[e] \in Nat /\ f[h] \in DOMAIN t /\ f[e] \in DOMAIN t
  BY <1>2, <1>8
<1>16. \A j \in 1 .. n : k[j] = f[h] + (j - 1)
  <2>1. PICK a \in Nat, z \in Nat : a = f[h] /\ z = f[e]
    BY <1>15
  <2>2. Fills(k, n, a, z)
    BY <1>11, <1>12, <1>13, <1>14, <2>1 DEF Fills
  <2>3. n \in Nat /\ n >= 1
    BY <1>6
  <2>4. \A j \in 1 .. n : k[j] = a + (j - 1)
    BY <2>2, <2>3, Shift
  <2> QED BY <2>1, <2>4
<1>17. f[e] = f[h] + (n - 1)
  BY <1>8, <1>11, <1>16
<1>18. /\ SubSeq(b, h, e) \in Seq(LineType) /\ Len(SubSeq(b, h, e)) = n
       /\ \A j \in 1 .. n : SubSeq(b, h, e)[j] = b[h + j - 1]
  <2>1. h \in Int /\ e \in Int /\ 1 <= h /\ h <= e /\ e <= Len(b) /\ n = e - h + 1
    BY <1>3, <1>9, <1>10
  <2> QED BY <2>1, Section
<1>19. /\ SubSeq(t, f[h], f[e]) \in Seq(LineType) /\ Len(SubSeq(t, f[h], f[e])) = n
       /\ \A j \in 1 .. n : SubSeq(t, f[h], f[e])[j] = t[f[h] + j - 1]
  <2>1. PICK g \in Nat, k1 \in Nat : g = f[h] /\ k1 = f[e]
    BY <1>15
  <2>2. g \in DOMAIN t /\ k1 \in DOMAIN t /\ k1 = g + (n - 1)
    BY <1>15, <1>17, <2>1
  <2>3. g \in Int /\ k1 \in Int /\ 1 <= g /\ g <= k1 /\ k1 <= Len(t) /\ n = k1 - g + 1
    BY <1>6, <1>9, <2>1, <2>2
  <2>4. /\ SubSeq(t, g, k1) \in Seq(LineType) /\ Len(SubSeq(t, g, k1)) = n
        /\ \A j \in 1 .. n : SubSeq(t, g, k1)[j] = t[g + j - 1]
    BY <2>3, Section
  <2> QED BY <2>1, <2>4
<1>20. ASSUME NEW j \in 1 .. n PROVE t[f[h] + j - 1] = b[h + j - 1]
  <2>1. f[h] + j - 1 = f[h] + (j - 1) /\ h + j - 1 = h + (j - 1)
    BY <1>3, <1>6, <1>15
  <2>2. t[f[h + (j - 1)]] = b[h + (j - 1)]
    BY <1>2, <1>6
  <2> QED BY <1>6, <1>16, <2>1, <2>2
<1>21. SubSeq(t, f[h], f[e]) = SubSeq(b, h, e)
  <2>1. PICK r \in Seq(LineType), v \in Seq(LineType) : r = SubSeq(t, f[h], f[e]) /\ v = SubSeq(b, h, e)
    BY <1>18, <1>19
  <2>2. Len(r) = n /\ Len(v) = n /\ \A j \in 1 .. n : r[j] = v[j]
    BY <1>18, <1>19, <1>20, <2>1
  <2>3. r = v
    BY <1>6, <2>2, SeqEqual
  <2> QED BY <2>1, <2>3
<1> QED BY <1>4, <1>5, <1>21 DEF s

-----------------------------------------------------------------------------
(* The passes that make of each line one line or none.                     *)

\* What such a pass does in a quiet procedure.
Silent(t, x, U, V) ==
  \A g : Quiet(t, g, U) => \A i \in g .. NextEnd(t, g) :
    /\ Plain(t[i]) => x[i] = <<t[i]>>
    /\ t[i] \in U => x[i] = <<>> \/ x[i][1] \in V

LEMMA UntouchedPieces ==
  ASSUME NEW b \in Seq(LineType), WellFormed(b), NEW t \in Seq(LineType), WellFormed(t),
         NEW x, NEW u, NEW at, Becomes(t, x, u, at),
         NEW U, NEW V, \A l \in U : ~Plain(l),
         Untouched(b, t, U), Silent(t, x, U, V)
  PROVE  Untouched(b, u, V)
<1>4. /\ u \in Seq(LineType) /\ Follows(t, u, at)
      /\ \A p \in DOMAIN u : at[p] \in DOMAIN t /\ x[at[p]] = <<u[p]>>
      /\ \A i \in DOMAIN t : x[i] # <<>> => \E p \in DOMAIN u : at[p] = i
      /\ \A p, q \in DOMAIN u : p < q => at[p] < at[q]
  BY DEF Becomes
<1>5. \A l, m : <<l>> = <<m>> => l = m
  OBVIOUS
<1>6. ASSUME NEW g, Quiet(t, g, U), NEW i \in g .. NextEnd(t, g)
      PROVE  i \in DOMAIN t
  <2>1. g \in DOMAIN t /\ NextEnd(t, g) \in DOMAIN t /\ DOMAIN t = 1 .. Len(t) /\ Len(t) \in Nat
    BY <1>6, ProcedureLines, ProcedureEnd DEF Quiet
  <2> QED BY <2>1
<1>7. ASSUME NEW g, Quiet(t, g, U), NEW i \in g .. NextEnd(t, g), t[i] \notin U
      PROVE  \E p \in DOMAIN u : at[p] = i /\ u[p] = t[i] /\ \A q \in DOMAIN u : at[q] = i => q = p
  <2>1. x[i] = <<t[i]>> /\ i \in DOMAIN t
    BY <1>6, <1>7 DEF Quiet, Silent
  <2>2. x[i] # <<>>
    <3>1. PICK l : l = t[i]
      OBVIOUS
    <3>2. x[i] = <<l>>
      BY <2>1, <3>1
    <3> QED BY <3>2
  <2>3. PICK p \in DOMAIN u : at[p] = i
    BY <1>4, <2>1, <2>2
  <2>4. u[p] = t[i]
    BY <1>4, <1>5, <2>1, <2>3
  <2>5. ASSUME NEW q \in DOMAIN u, at[q] = i PROVE q = p
    <3>1. q \in Nat /\ p \in Nat /\ i \in Nat
      BY <1>4, <2>1
    <3>2. ~ (p < q) /\ ~ (q < p)
      BY <1>4, <2>3, <2>5, <3>1
    <3> QED BY <3>1, <3>2
  <2> QED BY <2>3, <2>4, <2>5
<1>8. ASSUME NEW g, Quiet(t, g, U), NEW i \in g .. NextEnd(t, g), t[i] \in U, NEW q \in DOMAIN u, at[q] = i
      PROVE  u[q] \in V
  <2>1. x[i] = <<>> \/ x[i][1] \in V
    BY <1>8 DEF Silent
  <2>2. PICK l : l = u[q]
    OBVIOUS
  <2>3. x[i] = <<l>>
    BY <1>4, <1>8, <2>2
  <2>4. x[i] # <<>> /\ x[i][1] = l
    BY <2>3
  <2> QED BY <2>1, <2>2, <2>4
<1>9. LeavesQuiet(b, t, u, at, U, V)
  BY <1>7, <1>8 DEF LeavesQuiet
<1> QED BY <1>4, <1>9, UntouchedStep

Pieces(t, x) == x = [i \in DOMAIN t |-> x[i]] /\ \A i \in DOMAIN t : OneFor(t[i], x[i])

LEMMA PiecesUntouched ==
  ASSUME NEW b \in Seq(LineType), WellFormed(b), NEW t \in Seq(LineType), WellFormed(t),
         NEW x, Pieces(t, x), NEW U, NEW V, \A l \in U : ~Plain(l),
         Untouched(b, t, U), Silent(t, x, U, V)
  PROVE  Untouched(b, FlattenSeq(x), V)
<1>1. \E at : Becomes(t, x, FlattenSeq(x), at)
  <2>1. x = [i \in DOMAIN t |-> x[i]] /\ DOMAIN x = DOMAIN t /\ \A i \in DOMAIN t : OneFor(t[i], x[i])
    BY DEF Pieces
  <2> QED BY <2>1, LinesBecome
<1>2. PICK at : Becomes(t, x, FlattenSeq(x), at)
  BY <1>1
<1> QED BY <1>2, UntouchedPieces

IsConstant(l) == l.k \in {"param", "data"}

LEMMA ConstantsStay ==
  ASSUME NEW t \in Seq(LineType), WellFormed(t), NEW x, Pieces(t, x), ConstantsInProcedures(t),
         \A i \in DOMAIN t : x[i] # <<>> /\ IsConstant(x[i][1]) => IsConstant(t[i])
  PROVE  ConstantsInProcedures(FlattenSeq(x))
<1>1. \E at : Becomes(t, x, FlattenSeq(x), at)
  <2>1. x = [i \in DOMAIN t |-> x[i]] /\ DOMAIN x = DOMAIN t /\ \A i \in DOMAIN t : OneFor(t[i], x[i])
    BY DEF Pieces
  <2> QED BY <2>1, LinesBecome
<1>2. PICK u, at : u = FlattenSeq(x) /\ Becomes(t, x, u, at)
  BY <1>1
<1>3. /\ u \in Seq(LineType) /\ Follows(t, u, at)
      /\ \A p \in DOMAIN u : at[p] \in DOMAIN t /\ x[at[p]] = <<u[p]>>
  BY <1>2 DEF Becomes
<1>4. WellFormed(u)
  BY <1>3, WellFormedStays
<1>5. ASSUME NEW p \in DOMAIN u, IsConstant(u[p])
      PROVE  \E g \in Procedures(u) : g < p /\ p < NextEnd(u, g)
  <2>1. at[p] \in DOMAIN t /\ IsConstant(t[at[p]])
    <3>1. PICK l : l = u[p]
      OBVIOUS
    <3>2. x[at[p]] = <<l>> /\ at[p] \in DOMAIN t
      BY <1>3, <3>1
    <3>3. x[at[p]] # <<>> /\ x[at[p]][1] = l
      BY <3>2
    <3> QED BY <1>5, <3>1, <3>2, <3>3
  <2>2. PICK h \in Procedures(t) : h < at[p] /\ at[p] < NextEnd(t, h)
    BY <2>1 DEF ConstantsInProcedures, IsConstant
  <2>3. h \in DOMAIN t /\ h \in Nat /\ Structural(t[h])
    BY ProcedureLines
  <2>4. PICK g \in DOMAIN u : at[g] = h /\ Structural(u[g])
    BY <1>3, <2>3 DEF Follows
  <2>5. g \in Procedures(u)
    BY <1>3, <2>4, ScopeFollows
  <2>6. g < p
    BY <1>3, <2>2, <2>4, StructureInOrder
  <2> DEFINE z == NextEnd(u, g)
  <2>7. z \in DOMAIN u /\ z \in Nat /\ g < z /\ ~InInterface(u, z) /\ u[z].k = "end" /\ Structural(u[z])
    BY <1>3, <1>4, <2>5, ProcedureEnd DEF Lines, Structural
  <2> HIDE DEF z
  <2>8. at[z] \in DOMAIN t /\ t[at[z]].k = "end" /\ ~InInterface(t, at[z])
    BY <1>3, <2>7, SameInterface DEF Follows
  <2>9. h < at[z]
    BY <1>3, <2>4, <2>7, StructureInOrder
  <2>10. NextEnd(t, h) <= at[z]
    <3>1. \A j \in h + 1 .. NextEnd(t, h) - 1 : t[j].k \in {"header", "end"} => InInterface(t, j)
      BY ProcedureEnd
    <3>2. NextEnd(t, h) \in Nat /\ at[z] \in Nat
      BY <2>8, ProcedureEnd
    <3> QED BY <2>3, <2>8, <2>9, <3>1, <3>2
  <2>11. at[p] < at[z]
    <3>1. NextEnd(t, h) \in Nat /\ at[z] \in Nat /\ at[p] \in Nat
      BY <2>1, <2>8, ProcedureEnd
    <3> QED BY <2>2, <2>10, <3>1
  <2>12. p < z
    <3>1. at[p] \in Nat /\ at[z] \in Nat /\ p \in Nat /\ z \in Nat /\ (z < p => at[z] < at[p])
      BY <1>3, <2>7, StructureInOrder
    <3>2. p # z
      BY <2>11, <3>1
    <3> QED BY <2>11, <3>1, <3>2
  <2> QED BY <2>5, <2>6, <2>12 DEF z
<1>6. ConstantsInProcedures(u)
  BY <1>5 DEF ConstantsInProcedures, IsConstant
<1> QED BY <1>2, <1>6

LEMMA SameLine ==
  ASSUME NEW l \in LineType, NEW m \in LineType,
         m.k = l.k, m.ty = l.ty, m.it = l.it, m.rf = l.rf, m.cond = l.cond
  PROVE  l = m
BY DEF LineType

\* A line that is protected is restored as it was.
LEMMA MaskedLine ==
  ASSUME NEW l \in LineType, l.ty # "kept", "kept_dble" \notin l.rf
  PROVE  Unmasked(Masked(l)) = l
<1> DEFINE rf == {IF n = "dble" THEN "kept_dble" ELSE n : n \in l.rf}
           m == Masked(l)
           ty == IF m.ty = "kept" THEN "real8" ELSE m.ty
           sf == {IF n = "kept_dble" THEN "dble" ELSE n : n \in m.rf}
<1>1. /\ m \in LineType /\ m.k = l.k /\ m.it = l.it /\ m.cond = l.cond
      /\ m.ty = (IF l.ty = "real8" THEN "kept" ELSE l.ty) /\ m.rf = rf
  BY MaskedIs
<1> HIDE DEF m
<1>2. ty = l.ty
  BY <1>1
<1>3. sf = l.rf
  <2>1. ASSUME NEW n \in sf PROVE n \in l.rf
    <3>1. PICK k \in rf : n = IF k = "kept_dble" THEN "dble" ELSE k
      BY <1>1
    <3>2. PICK j \in l.rf : k = IF j = "dble" THEN "kept_dble" ELSE j
      OBVIOUS
    <3> QED BY <3>1, <3>2
  <2>2. ASSUME NEW n \in l.rf PROVE n \in sf
    <3> DEFINE k == IF n = "dble" THEN "kept_dble" ELSE n
    <3>1. k \in rf
      OBVIOUS
    <3>2. n = IF k = "kept_dble" THEN "dble" ELSE k
      OBVIOUS
    <3> HIDE DEF k, rf
    <3> QED BY <1>1, <3>1, <3>2
  <2> HIDE DEF sf
  <2> QED BY <2>1, <2>2
<1> HIDE DEF sf
<1> DEFINE u == Unmasked(m)
<1>4. u \in LineType /\ u.k = m.k /\ u.ty = ty /\ u.it = m.it /\ u.rf = sf /\ u.cond = m.cond
  BY <1>1, UnmaskedIs DEF sf
<1> HIDE DEF ty, rf, u
<1>5. u = l
  BY <1>1, <1>2, <1>3, <1>4, SameLine
<1> QED BY <1>5 DEF u, m

LEMMA PlainMasked ==
  ASSUME NEW l, Plain(l)
  PROVE  Plain(Masked(l))
<1> DEFINE ty == IF l.ty = "real8" THEN "kept" ELSE l.ty
           rf == {IF n = "dble" THEN "kept_dble" ELSE n : n \in l.rf}
           m == Masked(l)
<1>1. Masked(l) = m
  OBVIOUS
<1>2. l \in LineType
  BY DEF Plain
<1>6. m \in LineType
  BY <1>2, MaskedIs
<1>7. m.k = l.k /\ m.it = l.it /\ m.ty = ty /\ m.rf = rf
  BY <1>2, MaskedIs
<1> HIDE DEF m
<1>8. "dble" \in PublicNames
  BY ModuleAssumption DEF PublicNames
<1>9. Identifiers(m) \subseteq Identifiers(l)
  <2>1. CASE IsComment(l) \/ IsDirective(l)
    <3>1. IsComment(m) \/ IsDirective(m)
      BY <1>7, <2>1 DEF IsComment, IsDirective
    <3> QED BY <3>1 DEF Identifiers
  <2>2. CASE ~(IsComment(l) \/ IsDirective(l))
    <3>1. ~(IsComment(m) \/ IsDirective(m))
      BY <1>7, <2>2 DEF IsComment, IsDirective
    <3>2. l.rf \subseteq Identifiers(l)
      BY <2>2 DEF Identifiers
    <3>3. "dble" \notin l.rf
      BY <1>8, <3>2 DEF Plain
    <3>4. rf = l.rf
      BY <3>3
    <3>5. ty # "real4" => l.ty # "real4"
      OBVIOUS
    <3>6. TypeName(ty) \subseteq TypeName(l.ty) /\ (ty = "real4" <=> l.ty = "real4")
      BY DEF TypeName
    <3>7. ItemNames(m) = ItemNames(l)
      BY <1>7 DEF ItemNames
    <3> DEFINE A(v) == IF v = "real4" THEN {"real"} ELSE TypeName(v)
               B == ItemNames(l)
               C == UNION {x.v.of : x \in ToSet(l.it)}
    <3>8. Identifiers(l) = l.rf \cup B \cup A(l.ty) \cup C
      BY <2>2 DEF Identifiers
    <3>9. Identifiers(m) = rf \cup B \cup A(ty) \cup C
      BY <1>7, <3>1, <3>7, Zenon DEF Identifiers
    <3>10. A(ty) \subseteq A(l.ty)
      BY <3>6
    <3> HIDE DEF A, B, C, rf, ty
    <3> QED BY <3>4, <3>8, <3>9, <3>10
  <2> QED BY <2>1, <2>2
<1>10. m.rf \cap (MpiTokens \cup {"MPI_DOUBLE_PRECISION"}) = {}
  <2>1. "kept_dble" \notin MpiTokens
    BY ModuleAssumption
  <2>2. rf \subseteq l.rf \cup {"kept_dble"}
    OBVIOUS
  <2>3. l.rf \cap (MpiTokens \cup {"MPI_DOUBLE_PRECISION"}) = {}
    BY DEF Plain
  <2> HIDE DEF rf, m
  <2> QED BY <1>7, <2>1, <2>2, <2>3
<1>11. Promoted(ty) = ty /\ ty # "module"
  <2>1. Promoted("kept") = "kept"
    BY DEF Promoted
  <2> QED BY <2>1 DEF Plain
<1> HIDE DEF ty
<1>12. Plain(m)
  BY <1>6, <1>7, <1>9, <1>10, <1>11 DEF Plain
<1> QED BY <1>12 DEF m

-----------------------------------------------------------------------------
(* The passes that rewrite each line where it stands.                      *)

LEMMA UnmaskedPlain ==
  ASSUME NEW l \in LineType, l.ty # "kept", "kept_dble" \notin l.rf
  PROVE  Unmasked(l) = l
<1> DEFINE ty == IF l.ty = "kept" THEN "real8" ELSE l.ty
           rf == {IF n = "kept_dble" THEN "dble" ELSE n : n \in l.rf}
           m == Retyped(l, ty, rf)
<1>1. Unmasked(l) = m
  BY DEF Unmasked, Retyped
<1>2. ty = l.ty /\ rf = l.rf
  OBVIOUS
<1>3. l.ty \in Types /\ l.rf \in SUBSET Refs
  BY LineFields
<1> HIDE DEF ty, rf
<1>4. m \in LineType /\ m.k = l.k /\ m.ty = ty /\ m.it = l.it /\ m.rf = rf /\ m.cond = l.cond
  BY <1>2, <1>3, TypeAndRefs
<1> HIDE DEF m
<1> QED BY <1>1, <1>2, <1>4, SameLine

\* A text as a source is: no line of it is protected yet.
Original(s) ==
  /\ s \in Seq(LineType) /\ WellFormed(s) /\ ConstantsInProcedures(s)
  /\ \A i \in DOMAIN s : s[i].ty # "kept" /\ "kept_dble" \notin s[i].rf

LEMMA SameConstants ==
  ASSUME NEW t \in Seq(LineType), NEW u \in Seq(LineType), DOMAIN u = DOMAIN t,
         \A i \in DOMAIN t : u[i].k = t[i].k, ConstantsInProcedures(t)
  PROVE  ConstantsInProcedures(u)
<1>1. Procedures(u) = Procedures(t) /\ \A i : NextEnd(u, i) = NextEnd(t, i)
  BY SameStructure
<1> QED BY <1>1 DEF ConstantsInProcedures

LEMMA ProtectedText ==
  ASSUME NEW s, Original(s), NEW lines
  PROVE  LET t == Protect(s, lines)
         IN  /\ t \in Seq(LineType) /\ DOMAIN t = DOMAIN s /\ WellFormed(t) /\ ConstantsInProcedures(t)
             /\ \A i \in DOMAIN s : t[i].k = s[i].k /\ (t[i] = s[i] \/ t[i] = Masked(s[i]))
<1> DEFINE t == Protect(s, lines)
<1>1. t = [i \in DOMAIN s |-> IF i \in lines THEN Masked(s[i]) ELSE s[i]]
  BY DEF Protect
<1>2. s \in Seq(LineType) /\ WellFormed(s) /\ ConstantsInProcedures(s) /\ DOMAIN s = 1 .. Len(s) /\ Len(s) \in Nat
  BY DEF Original
<1>3. DOMAIN t = DOMAIN s /\ \A i \in DOMAIN s : t[i] = s[i] \/ t[i] = Masked(s[i])
  BY <1>1
<1>4. \A i \in DOMAIN s : t[i] \in LineType /\ t[i].k = s[i].k
  <2> SUFFICES ASSUME NEW i \in DOMAIN s PROVE t[i] \in LineType /\ t[i].k = s[i].k
    OBVIOUS
  <2>1. s[i] \in LineType
    BY <1>2
  <2>2. Masked(s[i]) \in LineType /\ Masked(s[i]).k = s[i].k
    BY <2>1, MaskedIs
  <2> QED BY <1>3, <2>1, <2>2
<1>5. t \in Seq(LineType)
  <2>1. t = [i \in 1 .. Len(s) |-> t[i]]
    BY <1>1, <1>2
  <2> HIDE DEF t
  <2> QED BY <1>2, <1>4, <2>1
<1> HIDE DEF t
<1>6. WellFormed(t)
  <2>1. Follows(s, t, [i \in DOMAIN t |-> i])
    BY <1>2, <1>3, <1>4, <1>5, PointwiseFollows
  <2> QED BY <1>2, <1>5, <2>1, WellFormedStays
<1>7. ConstantsInProcedures(t)
  BY <1>2, <1>3, <1>4, <1>5, SameConstants
<1> QED BY <1>3, <1>4, <1>5, <1>6, <1>7 DEF t

LEMMA ProtectedPlain ==
  ASSUME NEW s, Original(s), NEW lines, NEW i \in DOMAIN s, Plain(s[i])
  PROVE  Plain(Protect(s, lines)[i]) /\ Unmasked(Protect(s, lines)[i]) = s[i]
<1>1. Protect(s, lines)[i] = s[i] \/ Protect(s, lines)[i] = Masked(s[i])
  BY ProtectedText
<1>2. s[i] \in LineType /\ s[i].ty # "kept" /\ "kept_dble" \notin s[i].rf
  BY DEF Original
<1>3. Unmasked(s[i]) = s[i] /\ Unmasked(Masked(s[i])) = s[i]
  BY <1>2, UnmaskedPlain, MaskedLine
<1>4. Plain(Masked(s[i]))
  BY PlainMasked
<1> QED BY <1>1, <1>3, <1>4

LEMMA RestoreUntouched ==
  ASSUME NEW s, Original(s), NEW lines, NEW t, Served(t), Untouched(Protect(s, lines), t, {})
  PROVE  Untouched(s, Restore(t), {})
<1> DEFINE b == Protect(s, lines)
           u == Restore(t)
<1>1. /\ b \in Seq(LineType) /\ DOMAIN b = DOMAIN s /\ WellFormed(b)
      /\ \A i \in DOMAIN s : b[i].k = s[i].k
  BY ProtectedText
<1>2. t \in Seq(LineType) /\ WellFormed(t)
  BY DEF Served
<1>3. u \in Seq(LineType)
  BY RestoreServed DEF Served
<1>4. DOMAIN u = DOMAIN t /\ \A i \in DOMAIN t : u[i] = Unmasked(t[i])
  BY DEF Restore
<1> HIDE DEF u
<1>5. \A i \in DOMAIN t : u[i].k = t[i].k
  BY <1>2, <1>4, UnmaskedIs
<1>6. \A i \in DOMAIN s : Plain(s[i]) => Plain(b[i]) /\ Unmasked(b[i]) = s[i]
  BY ProtectedPlain
<1>7. s \in Seq(LineType)
  BY DEF Original
<1> HIDE DEF b, u
<1>8. \A i \in DOMAIN b, p \in DOMAIN t : t[p] = b[i] /\ Plain(s[i]) => u[p] = s[i]
  BY <1>1, <1>4, <1>6
<1>9. Untouched(b, t, {})
  BY DEF b
<1>10. Untouched(s, u, {})
  BY <1>1, <1>2, <1>3, <1>4, <1>5, <1>6, <1>7, <1>8, <1>9, UntouchedPointwise
<1> QED BY <1>10 DEF u

LEMMA HandlesUntouched ==
  ASSUME NEW s \in Seq(LineType), WellFormed(s), NEW t, Served(t), Untouched(s, t, {})
  PROVE  Untouched(s, RewriteHandles(t), {})
<1> DEFINE u == RewriteHandles(t)
           R(l) == {TargetHandle(n) : n \in l.rf}
<1>1. t \in Seq(LineType) /\ WellFormed(t)
  BY DEF Served
<1>2. u \in Seq(LineType)
  BY HandlesServed DEF Served
<1>3. DOMAIN u = DOMAIN t /\ \A i \in DOMAIN t : u[i] = [t[i] EXCEPT !.rf = R(t[i])]
  BY DEF RewriteHandles
<1>4. \A i \in DOMAIN t : u[i].k = t[i].k
  BY <1>1, HandledIs
<1>5. ASSUME NEW l, Plain(l) PROVE [l EXCEPT !.rf = R(l)] = l
  <2>1. "MPI_DOUBLE_PRECISION" \notin l.rf /\ l \in LineType
    BY <1>5 DEF Plain
  <2>2. R(l) = l.rf
    BY <2>1 DEF TargetHandle
  <2> HIDE DEF R
  <2> QED BY <2>1, <2>2 DEF LineType
<1> HIDE DEF u, R
<1>6. \A i \in DOMAIN s, p \in DOMAIN t : t[p] = s[i] /\ Plain(s[i]) => u[p] = s[i]
  BY <1>3, <1>5
<1>7. Untouched(s, u, {})
  BY <1>1, <1>2, <1>3, <1>4, <1>6, UntouchedPointwise
<1> QED BY <1>7 DEF u

-----------------------------------------------------------------------------
(* The passes before the import is inserted.                               *)

LEMMA PlainLine ==
  ASSUME NEW l, Plain(l)
  PROVE  /\ l \in LineType /\ l.ty # "module" /\ Promoted(l.ty) = l.ty
         /\ \A x \in ToSet(l.it) : ~IsFpValue(x.v)
         /\ l.k \in {"decl", "param", "external"} => l.it # <<>>
         /\ ~IsComment(l) /\ ~IsDirective(l) =>
               /\ (l.rf \cup ItemNames(l) \cup UNION {x.v.of : x \in ToSet(l.it)})
                     \cap (PublicNames \cup Known \cup {"ROUNDUP_LWORK", "kept_dble"}) = {}
               /\ l.ty # "real4" /\ l.ty # "treal" /\ l.ty # "tcomplex"
<1>1. /\ l \in LineType /\ l.ty # "module" /\ Promoted(l.ty) = l.ty
      /\ \A x \in ToSet(l.it) : ~IsFpValue(x.v)
      /\ l.k \in {"decl", "param", "external"} => l.it # <<>>
  BY DEF Plain
<1>2. ASSUME ~IsComment(l), ~IsDirective(l)
      PROVE  /\ (l.rf \cup ItemNames(l) \cup UNION {x.v.of : x \in ToSet(l.it)})
                   \cap (PublicNames \cup Known \cup {"ROUNDUP_LWORK", "kept_dble"}) = {}
             /\ l.ty # "real4" /\ l.ty # "treal" /\ l.ty # "tcomplex"
  <2> DEFINE A == IF l.ty = "real4" THEN {"real"} ELSE TypeName(l.ty)
             B == l.rf \cup ItemNames(l)
             C == UNION {x.v.of : x \in ToSet(l.it)}
             P == PublicNames \cup Known \cup {"ROUNDUP_LWORK", "kept_dble"}
  <2>1. Identifiers(l) = B \cup A \cup C
    BY <1>2 DEF Identifiers
  <2>2. Identifiers(l) \cap P = {}
    BY DEF Plain
  <2>3. {"real", "real64x2", "cmplx64x2"} \subseteq P
    BY ModuleAssumption DEF PublicNames
  <2>4. l.ty = "real4" => "real" \in A
    OBVIOUS
  <2>5. (l.ty = "treal" => "real64x2" \in A) /\ (l.ty = "tcomplex" => "cmplx64x2" \in A)
    BY DEF TypeName
  <2> HIDE DEF A, B, C, P
  <2>6. (B \cup C) \cap P = {} /\ l.ty # "real4" /\ l.ty # "treal" /\ l.ty # "tcomplex"
    BY <2>1, <2>2, <2>3, <2>4, <2>5
  <2> QED BY <2>6 DEF B, C, P
<1> QED BY <1>1, <1>2

LEMMA WithoutNone ==
  ASSUME NEW l \in LineType, NEW ns, ItemNames(l) \cap ns = {}
  PROVE  WithoutItems(l, ns) = l
<1> DEFINE P == {x \in ToSet(l.it) : x.n \notin ns}
           it == ItemsIn(l.it, P)
           m == [l EXCEPT !.it = it]
<1>1. l.it \in Seq(ItemType)
  BY LineFields
<1>2. ToSet(l.it) \subseteq P
  BY DEF ItemNames
<1>3. it = l.it
  <2> HIDE DEF P
  <2> QED BY <1>1, <1>2, AllItems
<1>4. WithoutItems(l, ns) = m
  BY DEF WithoutItems
<1> HIDE DEF it
<1>5. m \in LineType /\ m.k = l.k /\ m.ty = l.ty /\ m.it = it /\ m.rf = l.rf /\ m.cond = l.cond
  BY <1>1, <1>3, LineExcept
<1> HIDE DEF m
<1> QED BY <1>3, <1>4, <1>5, SameLine

LEMMA QuietLines ==
  ASSUME NEW t \in Seq(LineType), WellFormed(t), NEW U, NEW g, Quiet(t, g, U), NEW i \in g .. NextEnd(t, g)
  PROVE  i \in DOMAIN t /\ (Plain(t[i]) \/ t[i] \in U)
<1>1. g \in DOMAIN t /\ NextEnd(t, g) \in DOMAIN t /\ DOMAIN t = 1 .. Len(t) /\ Len(t) \in Nat
  BY ProcedureLines, ProcedureEnd DEF Quiet
<1> QED BY <1>1 DEF Quiet

\* A pass that keeps every plain line keeps the procedures that have no other.
LEMMA SilentOnPlain ==
  ASSUME NEW t \in Seq(LineType), WellFormed(t), NEW x, \A i \in DOMAIN t : Plain(t[i]) => x[i] = <<t[i]>>
  PROVE  Silent(t, x, {}, {})
<1> SUFFICES ASSUME NEW g, Quiet(t, g, {}), NEW i \in g .. NextEnd(t, g)
             PROVE  Plain(t[i]) => x[i] = <<t[i]>>
  BY DEF Silent
<1>1. i \in DOMAIN t
  BY QuietLines
<1> QED BY <1>1

LEMMA StripKnownUntouched ==
  ASSUME NEW b \in Seq(LineType), WellFormed(b), NEW t, Sound(t), Untouched(b, t, {}), ConstantsInProcedures(t)
  PROVE  Untouched(b, StripKnown(t), {}) /\ ConstantsInProcedures(StripKnown(t))
<1> DEFINE x == [i \in DOMAIN t |-> Stripped(t[i], t)]
<1>1. t \in Seq(LineType) /\ WellFormed(t)
  BY DEF Sound
<1>2. StripKnown(t) = FlattenSeq(x)
  BY DEF StripKnown
<1>3. x = [i \in DOMAIN t |-> x[i]]
  OBVIOUS
<1>4. ASSUME NEW i \in DOMAIN t
      PROVE  OneFor(t[i], x[i]) /\ (x[i] # <<>> => x[i][1].k = t[i].k)
  BY SoundLine, StrippedPiece
<1>5. ASSUME NEW l, Plain(l) PROVE Stripped(l, t) = <<l>>
  <2>1. l \in LineType
    BY <1>5, PlainLine
  <2>2. ItemNames(l) \cap Strippable(l, t) = {}
    <3>1. CASE l.k # "decl"
      <4>1. Strippable(l, t) = {}
        BY <3>1 DEF Strippable
      <4> QED BY <4>1
    <3>2. CASE l.k = "decl"
      <4>1. ~IsComment(l) /\ ~IsDirective(l)
        BY <3>2 DEF IsComment, IsDirective
      <4>2. ItemNames(l) \cap Known = {}
        BY <1>5, <4>1, PlainLine
      <4>3. Strippable(l, t) \subseteq Known
        BY DEF Strippable
      <4> QED BY <4>2, <4>3
    <3> QED BY <3>1, <3>2
  <2>3. WithoutItems(l, Strippable(l, t)) = l
    BY <2>1, <2>2, WithoutNone
  <2>4. l.k = "decl" => l.it # <<>>
    BY <1>5, PlainLine
  <2> QED BY <2>3, <2>4 DEF Stripped
<1>6. \A i \in DOMAIN t : Plain(t[i]) => x[i] = <<t[i]>>
  BY <1>5
<1> HIDE DEF x
<1>7. Pieces(t, x)
  BY <1>3, <1>4 DEF Pieces
<1>8. Silent(t, x, {}, {})
  BY <1>1, <1>6, SilentOnPlain
<1>9. Untouched(b, FlattenSeq(x), {})
  BY <1>1, <1>7, <1>8, PiecesUntouched
<1>10. ConstantsInProcedures(FlattenSeq(x))
  BY <1>1, <1>4, <1>7, ConstantsStay DEF IsConstant
<1> QED BY <1>2, <1>9, <1>10

\* No assignment is to be put in a procedure of plain lines.
NoExtras(b, e) == \A h : PlainProcedure(b, h) => \A k \in DOMAIN e : e[k].scope # Scope(b, h)

\* A constant that has the number of such a procedure stands in it.
LEMMA ConstantInPlain ==
  ASSUME NEW b \in Seq(LineType), WellFormed(b), NEW t \in Seq(LineType), WellFormed(t),
         Untouched(b, t, {}), ConstantsInProcedures(t), NEW h, PlainProcedure(b, h),
         NEW i \in DOMAIN t, IsConstant(t[i]), Scope(t, i) = Scope(b, h)
  PROVE  Plain(t[i])
<1>1. PICK f : SpreadBy(b, t, h, {}, f)
  BY DEF Untouched
<1>2. Quiet(t, f[h], {})
  BY <1>1, SpreadIsQuiet
<1>3. f[h] \in Procedures(t) /\ Scope(t, f[h]) = Scope(b, h)
  BY <1>1 DEF SpreadBy
<1>4. PICK g \in Procedures(t) : g < i /\ i < NextEnd(t, g)
  BY DEF ConstantsInProcedures, IsConstant
<1>5. g \in Nat /\ i \in Nat /\ NextEnd(t, g) \in Nat
  BY ProcedureLines, ProcedureEnd
<1>6. Scope(t, i) = Scope(t, g)
  <2>1. ASSUME NEW p \in Procedures(t), g < p PROVE i < p
    <3>1. NextEnd(t, g) < p /\ p \in Nat
      BY <2>1, ProceduresApart, ProcedureLines
    <3> QED BY <1>4, <1>5, <3>1
  <2>2. g <= i
    BY <1>4, <1>5
  <2> QED BY <1>5, <2>1, <2>2, ScopeInside
<1>7. g = f[h]
  BY <1>3, <1>6, ScopeUnique
<1>8. i \in g .. NextEnd(t, g)
  BY <1>4, <1>5
<1> QED BY <1>2, <1>7, <1>8, QuietLines

\* The assignments made of the lines of t, by line.
FromConstants(t, e) ==
  /\ e \in Seq(Seq(ExtraType)) /\ DOMAIN e = DOMAIN t
  /\ \A i \in DOMAIN t : \A j \in DOMAIN e[i] :
        e[i][j].scope = Scope(t, i) /\ IsConstant(t[i]) /\ ~Plain(t[i])

LEMMA ExtrasElsewhere ==
  ASSUME NEW b \in Seq(LineType), WellFormed(b), NEW t \in Seq(LineType), WellFormed(t),
         Untouched(b, t, {}), ConstantsInProcedures(t), NEW e, FromConstants(t, e)
  PROVE  NoExtras(b, FlattenSeq(e))
<1>1. /\ e \in Seq(Seq(ExtraType)) /\ DOMAIN e = DOMAIN t
      /\ \A i \in DOMAIN t : \A j \in DOMAIN e[i] :
            e[i][j].scope = Scope(t, i) /\ IsConstant(t[i]) /\ ~Plain(t[i])
  BY DEF FromConstants
<1>2. PICK at, nth : Places(e, FlattenSeq(e), at, nth)
  BY <1>1, FlattenPlaces
<1> SUFFICES ASSUME NEW h, PlainProcedure(b, h), NEW k \in DOMAIN FlattenSeq(e),
                    FlattenSeq(e)[k].scope = Scope(b, h)
             PROVE  FALSE
  BY DEF NoExtras
<1>3. at[k] \in DOMAIN t /\ nth[k] \in DOMAIN e[at[k]] /\ FlattenSeq(e)[k] = e[at[k]][nth[k]]
  BY <1>1, <1>2 DEF Places
<1>4. Scope(t, at[k]) = Scope(b, h) /\ IsConstant(t[at[k]]) /\ ~Plain(t[at[k]])
  BY <1>1, <1>3
<1> QED BY <1>3, <1>4, ConstantInPlain

LEMMA PlainParameter ==
  ASSUME NEW l, Plain(l), l.k = "param", Convertible(l), NEW t
  PROVE  ParameterRest(l, t) = <<l>> /\ Assigned(l, t) = <<>>
<1> DEFINE A == {x \in ToSet(l.it) : BecomesAssignment(x, l, t)}
           O == {x \in ToSet(l.it) : ~IsFpValue(x.v)}
           others == ItemsIn(l.it, O)
<1>1. l \in LineType /\ l.it # <<>> /\ \A x \in ToSet(l.it) : ~IsFpValue(x.v)
  BY PlainLine
<1>2. l.it \in Seq(ItemType)
  BY <1>1, LineFields
<1>3. ToSet(l.it) \cap A = {} /\ ToSet(l.it) \subseteq O
  BY <1>1 DEF BecomesAssignment
<1>4. Assigned(l, t) = <<>>
  <2>1. Assigned(l, t) = ItemsIn(l.it, A)
    BY DEF Assigned
  <2> HIDE DEF A, O
  <2> QED BY <1>2, <1>3, <2>1, NoItems
<1>5. others = l.it
  <2> HIDE DEF A, O
  <2> QED BY <1>2, <1>3, AllItems
<1>6. l.ty = "none"
  <2>1. PICK x \in ToSet(l.it) : ~IsFpValue(x.v)
    <3>1. 1 \in DOMAIN l.it
      BY <1>1, <1>2
    <3> QED BY <1>1, <3>1 DEF ToSet
  <2> QED BY <2>1 DEF Convertible
<1>7. ParameterRest(l, t) = <<[l EXCEPT !.it = others]>>
  BY <1>1, <1>5, <1>6 DEF ParameterRest
<1> DEFINE m == [l EXCEPT !.it = others]
<1> HIDE DEF A, O, others
<1>8. m \in LineType /\ m.k = l.k /\ m.ty = l.ty /\ m.it = l.it /\ m.rf = l.rf /\ m.cond = l.cond
  BY <1>1, <1>2, <1>5, LineExcept
<1>9. ParameterRest(l, t) = <<m>>
  BY <1>7
<1> HIDE DEF m
<1>10. m = l
  BY <1>1, <1>8, SameLine
<1> QED BY <1>4, <1>9, <1>10

LEMMA ConvertParametersUntouched ==
  ASSUME NEW b \in Seq(LineType), WellFormed(b), NEW t, Sound(t), Untouched(b, t, {}), ConstantsInProcedures(t)
  PROVE  LET r == ConvertParameters(t)
         IN  Untouched(b, r.out, {}) /\ ConstantsInProcedures(r.out) /\ NoExtras(b, r.extra)
<1> DEFINE converts(l) == l.k = "param" /\ Convertible(l)
           x == [i \in DOMAIN t |-> IF converts(t[i]) THEN ParameterRest(t[i], t) ELSE <<t[i]>>]
           e == [i \in DOMAIN t |->
                   IF converts(t[i]) THEN NewAssignments(t[i], t, Scope(t, i), GuardStacks(t)[i]) ELSE <<>>]
           f == UNION {FoldedNames(l, t) : l \in {l \in ToSet(t) : converts(l)}}
<1>1. ConvertParameters(t) = [out |-> FlattenSeq(x), extra |-> FlattenSeq(e), folded |-> f]
  BY DEF ConvertParameters
<1>2. t \in Seq(LineType) /\ WellFormed(t) /\ DOMAIN t = 1 .. Len(t) /\ Len(t) \in Nat
  BY DEF Sound
<1>3. x = [i \in DOMAIN t |-> x[i]]
  OBVIOUS
<1>4. ASSUME NEW i \in DOMAIN t
      PROVE  OneFor(t[i], x[i]) /\ (x[i] # <<>> /\ IsConstant(x[i][1]) => IsConstant(t[i]))
  <2>1. Clean(t[i]) /\ t[i].ty # "module" /\ t[i] \in LineType
    BY SoundLine
  <2>2. CASE converts(t[i])
    <3>1. x[i] = ParameterRest(t[i], t) /\ t[i].k = "param"
      BY <2>2
    <3> HIDE DEF x
    <3> QED BY <2>1, <3>1, ParameterRestPiece DEF IsConstant
  <2>3. CASE ~converts(t[i])
    <3>1. x[i] = <<t[i]>>
      BY <2>3
    <3> HIDE DEF x
    <3> QED BY <2>1, <3>1, OneLine
  <2> QED BY <2>2, <2>3
<1>5. ASSUME NEW i \in DOMAIN t, Plain(t[i]) PROVE x[i] = <<t[i]>>
  BY <1>5, PlainParameter
<1>6. FromConstants(t, e)
  <2>1. ASSUME NEW i \in DOMAIN t
        PROVE  /\ e[i] \in Seq(ExtraType)
               /\ \A j \in DOMAIN e[i] : e[i][j].scope = Scope(t, i) /\ IsConstant(t[i]) /\ ~Plain(t[i])
    <3>1. CASE converts(t[i])
      <4> DEFINE n == NewAssignments(t[i], t, Scope(t, i), GuardStacks(t)[i])
      <4>1. Clean(t[i]) /\ GuardStacks(t)[i] \in Seq(GuardType) /\ Scope(t, i) \in Nat
        BY <1>2, SoundLine, GuardStacksType, ScopeType
      <4>2. n \in Seq(ExtraType)
        BY <4>1, NewAssignmentsType
      <4>3. DOMAIN n = DOMAIN Assigned(t[i], t) /\ \A j \in DOMAIN n : n[j].scope = Scope(t, i)
        BY DEF NewAssignments
      <4>4. Plain(t[i]) => DOMAIN n = {}
        BY <3>1, <4>3, PlainParameter
      <4>5. e[i] = n
        BY <3>1
      <4>6. IsConstant(t[i])
        BY <3>1 DEF IsConstant
      <4>7. PICK a : a = n
        OBVIOUS
      <4>8. PICK c : c = e[i]
        OBVIOUS
      <4> HIDE DEF n, e, converts
      <4>9. c = a
        BY <4>5, <4>7, <4>8
      <4>10. c \in Seq(ExtraType)
        BY <4>2, <4>7, <4>9
      <4>11. \A j \in DOMAIN c : c[j].scope = Scope(t, i)
        BY <4>3, <4>7, <4>9
      <4>12. Plain(t[i]) => DOMAIN c = {}
        BY <4>4, <4>7, <4>9
      <4> QED BY <4>6, <4>8, <4>10, <4>11, <4>12
    <3>2. CASE ~converts(t[i])
      <4>1. e[i] = <<>>
        BY <3>2
      <4>2. PICK c : c = e[i]
        OBVIOUS
      <4> HIDE DEF e
      <4>3. c \in Seq(ExtraType) /\ DOMAIN c = {}
        BY <4>1, <4>2
      <4> QED BY <4>2, <4>3
    <3> QED BY <3>1, <3>2
  <2>2. e = [i \in DOMAIN t |-> e[i]] /\ DOMAIN e = DOMAIN t
    OBVIOUS
  <2> HIDE DEF e
  <2>3. e \in Seq(Seq(ExtraType))
    BY <1>2, <2>1, <2>2
  <2> QED BY <2>1, <2>2, <2>3 DEF FromConstants
<1> HIDE DEF x, e, f
<1>7. Pieces(t, x)
  BY <1>3, <1>4 DEF Pieces
<1>8. Silent(t, x, {}, {})
  BY <1>2, <1>5, SilentOnPlain
<1>9. Untouched(b, FlattenSeq(x), {})
  BY <1>2, <1>7, <1>8, PiecesUntouched
<1>10. ConstantsInProcedures(FlattenSeq(x))
  BY <1>2, <1>4, <1>7, ConstantsStay
<1>11. NoExtras(b, FlattenSeq(e))
  BY <1>2, <1>6, ExtrasElsewhere
<1> QED BY <1>1, <1>9, <1>10, <1>11

LEMMA ConvertDataUntouched ==
  ASSUME NEW b \in Seq(LineType), WellFormed(b), NEW t, Sound(t), Untouched(b, t, {}), ConstantsInProcedures(t)
  PROVE  LET r == ConvertData(t)
         IN  Untouched(b, r.out, {}) /\ NoExtras(b, r.extra)
<1> DEFINE x == [i \in DOMAIN t |-> DataRest(t[i])]
           e == [i \in DOMAIN t |-> IF IsFpData(t[i]) THEN DataExtras(t, i) ELSE <<>>]
           f == Known \cap UNION {ItemNames(l) : l \in {l \in ToSet(t) : IsFpData(l)}}
<1>1. ConvertData(t) = [out |-> FlattenSeq(x), extra |-> FlattenSeq(e), folded |-> f]
  BY DEF ConvertData, DataRest, DataExtras
<1>2. t \in Seq(LineType) /\ WellFormed(t) /\ DOMAIN t = 1 .. Len(t) /\ Len(t) \in Nat
  BY DEF Sound
<1>3. x = [i \in DOMAIN t |-> x[i]]
  OBVIOUS
<1>4. \A i \in DOMAIN t : OneFor(t[i], x[i])
  BY SoundLine, DataPiece
<1>5. ASSUME NEW l, Plain(l) PROVE ~IsFpData(l) /\ DataRest(l) = <<l>>
  BY <1>5, PlainLine DEF IsFpData, DataRest
<1>6. \A i \in DOMAIN t : Plain(t[i]) => x[i] = <<t[i]>>
  BY <1>5
<1>7. FromConstants(t, e)
  <2>1. ASSUME NEW i \in DOMAIN t, NEW j \in DOMAIN e[i]
        PROVE  e[i][j].scope = Scope(t, i) /\ IsConstant(t[i]) /\ ~Plain(t[i])
    <3>1. IsFpData(t[i])
      BY <2>1
    <3>2. e[i] = DataExtras(t, i)
      BY <3>1
    <3>3. \A n \in DOMAIN DataExtras(t, i) : DataExtras(t, i)[n].scope = Scope(t, i)
      BY DEF DataExtras
    <3> HIDE DEF e
    <3> QED BY <1>5, <2>1, <3>1, <3>2, <3>3 DEF IsFpData, IsConstant
  <2>2. e \in Seq(Seq(ExtraType)) /\ DOMAIN e = DOMAIN t
    BY DataExtrasType
  <2> HIDE DEF e
  <2> QED BY <2>1, <2>2 DEF FromConstants
<1> HIDE DEF x, e, f
<1>8. Pieces(t, x)
  BY <1>3, <1>4 DEF Pieces
<1>9. Silent(t, x, {}, {})
  BY <1>2, <1>6, SilentOnPlain
<1>10. Untouched(b, FlattenSeq(x), {})
  BY <1>2, <1>8, <1>9, PiecesUntouched
<1>11. NoExtras(b, FlattenSeq(e))
  BY <1>2, <1>7, ExtrasElsewhere
<1> QED BY <1>1, <1>10, <1>11

LEMMA NoExtrasJoined ==
  ASSUME NEW b, NEW e \in Seq(ExtraType), NEW d \in Seq(ExtraType), NoExtras(b, e), NoExtras(b, d)
  PROVE  NoExtras(b, e \o d)
<1> SUFFICES ASSUME NEW h, PlainProcedure(b, h), NEW k \in DOMAIN (e \o d) PROVE (e \o d)[k].scope # Scope(b, h)
  BY DEF NoExtras
<1>1. (\E j \in DOMAIN e : (e \o d)[k] = e[j]) \/ (\E j \in DOMAIN d : (e \o d)[k] = d[j])
  <2>1. k \in 1 .. Len(e) \/ (k - Len(e) \in 1 .. Len(d) /\ k = Len(e) + (k - Len(e)))
    OBVIOUS
  <2> QED BY <2>1, ConcatPlaces
<1> QED BY <1>1 DEF NoExtras

-----------------------------------------------------------------------------
(* Assignments are put in the procedure whose number they have.            *)

\* The walk from the header to the first executable statement stops at the
\* latest at the END of the procedure.
LEMMA WalkStaysIn ==
  ASSUME NEW t \in Seq(LineType), WellFormed(t), NEW h \in Procedures(t)
  PROVE  WalkDeclBlock(t, AfterHeader(t, h)) \in h + 1 .. NextEnd(t, h)
<1> DEFINE e == NextEnd(t, h)
           a == AfterHeader(t, h)
           T == {k \in a .. Len(t) + 1 : k > Len(t) \/ ~InDeclBlock(t, k)}
<1>1. h \in DOMAIN t /\ h \in Nat /\ DOMAIN t = 1 .. Len(t) /\ Len(t) \in Nat
  BY ProcedureLines
<1>2. e \in DOMAIN t /\ e \in Nat /\ h < e /\ ~InInterface(t, e) /\ t[e].k = "end"
  BY ProcedureEnd DEF Lines
<1>3. a \in h + 1 .. Len(t) + 1 /\ \A k \in h + 1 .. a - 1 : IsDirective(t[k])
  BY <1>1, AfterHeaderIs
<1>4. WalkDeclBlock(t, a) = FirstOf(T)
  BY DEF WalkDeclBlock
<1> HIDE DEF e, a
<1>5. a <= e
  <2> SUFFICES ASSUME e < a PROVE FALSE
    BY <1>1, <1>2, <1>3
  <2>1. e \in h + 1 .. a - 1
    BY <1>1, <1>2, <1>3
  <2> QED BY <1>2, <1>3, <2>1 DEF IsDirective
<1>6. ~InDeclBlock(t, e)
  BY <1>2 DEF InDeclBlock, IsComment, IsDirective, IsStatementFunction
<1>7. e \in T /\ T \in SUBSET Nat /\ \A k \in T : a <= k
  BY <1>1, <1>2, <1>3, <1>5, <1>6
<1> HIDE DEF T
<1>8. FirstOf(T) \in T /\ FirstOf(T) <= e
  BY <1>7, FirstOfLeast
<1>9. FirstOf(T) \in Nat /\ a <= FirstOf(T)
  BY <1>7, <1>8
<1>10. FirstOf(T) \in h + 1 .. e
  BY <1>1, <1>2, <1>3, <1>8, <1>9
<1> QED BY <1>4, <1>10 DEF e, a

\* Two procedures with a line in common are one.
LEMMA OneProcedure ==
  ASSUME NEW t \in Seq(LineType), WellFormed(t), NEW g \in Procedures(t), NEW h \in Procedures(t),
         NEW i \in g .. NextEnd(t, g), i \in h .. NextEnd(t, h)
  PROVE  g = h
<1>1. g \in Nat /\ h \in Nat /\ NextEnd(t, g) \in Nat /\ NextEnd(t, h) \in Nat
  BY ProcedureLines, ProcedureEnd
<1>2. g < h => NextEnd(t, g) < h
  BY ProceduresApart
<1>3. h < g => NextEnd(t, h) < g
  BY ProceduresApart
<1> QED BY <1>1, <1>2, <1>3

LEMMA FlattenOfEmpty ==
  ASSUME NEW n \in Nat, NEW z, z = [i \in 1 .. n |-> <<>>]
  PROVE  FlattenSeq(z) = <<>>
<1>1. <<>> \in Seq(LineType)
  OBVIOUS
<1>2. z \in Seq(Seq(LineType)) /\ \A i \in DOMAIN z : z[i] = <<>>
  BY <1>1
<1> QED BY <1>2, FlattenOfNone

LEMMA NoAssignsIn ==
  ASSUME NEW t \in Seq(LineType), WellFormed(t), NEW e \in Seq(ExtraType), NEW g \in Procedures(t),
         \A k \in DOMAIN e : e[k].scope # Scope(t, g), NEW i \in g .. NextEnd(t, g)
  PROVE  AssignAt(t, e, i) = <<>>
<1> DEFINE z == [n \in 1 .. Cardinality(Procedures(t)) |-> AssignsOf(t, e, i, n)]
<1>1. ExtrasOf(e, Scope(t, g)) = <<>>
  <2> DEFINE y == [k \in DOMAIN e |-> IF e[k].scope = Scope(t, g) THEN e[k].ls ELSE <<>>]
  <2>1. y = [k \in 1 .. Len(e) |-> <<>>] /\ Len(e) \in Nat
    OBVIOUS
  <2>2. ExtrasOf(e, Scope(t, g)) = FlattenSeq(y)
    BY DEF ExtrasOf
  <2> HIDE DEF y
  <2> QED BY <2>1, <2>2, FlattenOfEmpty
<1>2. ASSUME NEW n \in 1 .. Cardinality(Procedures(t)) PROVE AssignsOf(t, e, i, n) = <<>>
  <2> SUFFICES ASSUME NEW h \in Procedures(t), Scope(t, h) = n, WalkDeclBlock(t, AfterHeader(t, h)) = i
               PROVE  ExtrasOf(e, n) = <<>>
    BY DEF AssignsOf
  <2>1. i \in h + 1 .. NextEnd(t, h) /\ h \in Nat /\ NextEnd(t, h) \in Nat
    BY WalkStaysIn, ProcedureLines, ProcedureEnd
  <2>2. i \in h .. NextEnd(t, h)
    BY <2>1
  <2>3. g = h
    BY <2>2, OneProcedure
  <2> QED BY <1>1, <2>3
<1>3. Cardinality(Procedures(t)) \in Nat
  BY ProcedureLines, FS_CardinalityType
<1>4. z = [n \in 1 .. Cardinality(Procedures(t)) |-> <<>>]
  BY <1>2
<1>5. AssignAt(t, e, i) = FlattenSeq(z)
  BY DEF AssignAt
<1> HIDE DEF z
<1> QED BY <1>3, <1>4, <1>5, FlattenOfEmpty

\* A source line has no import of the target's module.
LEMMA BareUseIsNoSource == ~Plain(BareUse)
BY InsertedLines DEF Plain

LEMMA InsertUseUntouched ==
  ASSUME NEW b \in Seq(LineType), WellFormed(b), NEW t, Sound(t), NEW e \in Seq(ExtraType),
         Untouched(b, t, {}), NoExtras(b, e)
  PROVE  Untouched(b, InsertUse(t, e), {BareUse})
<1> DEFINE s == InsertPieces(t, e)
           u == InsertUse(t, e)
<1>1. t \in Seq(LineType) /\ WellFormed(t) /\ DOMAIN t = 1 .. Len(t) /\ Len(t) \in Nat
  BY DEF Sound
<1>2. /\ s \in Seq(Seq(LineType)) /\ DOMAIN s = 1 .. Len(t) + 1 /\ u \in Seq(LineType)
      /\ \E at, nth : Places(s, u, at, nth) /\ Follows(t, u, at)
  BY <1>1, InsertPiecesFollow
<1>3. PICK at, nth : Places(s, u, at, nth) /\ Follows(t, u, at)
  BY <1>2
<1>4. ASSUME NEW i \in DOMAIN t
      PROVE  /\ i \in DOMAIN s /\ s[i] \in Seq(LineType) /\ s[i] # <<>> /\ s[i][Len(s[i])] = t[i]
             /\ AssignAt(t, e, i) = <<>> => \A j \in DOMAIN s[i] : s[i][j] = BareUse \/ j = Len(s[i])
  <2>1. i \in 1 .. Len(t) + 1
    BY <1>1
  <2> QED BY <1>1, <1>2, <2>1, InsertedPiece
<1> HIDE DEF s, u
<1>5. ASSUME NEW i \in DOMAIN t
      PROVE  \E p \in DOMAIN u : /\ at[p] = i /\ u[p] = t[i]
                                 /\ AssignAt(t, e, i) = <<>> =>
                                      \A q \in DOMAIN u : at[q] = i => q = p \/ u[q] = BareUse
  <2>1. Len(s[i]) \in DOMAIN s[i]
    BY <1>4
  <2>2. PICK p \in DOMAIN u : at[p] = i /\ nth[p] = Len(s[i])
    BY <1>3, <1>4, <2>1 DEF Places
  <2>3. u[p] = t[i]
    BY <1>3, <1>4, <2>2 DEF Places
  <2>4. ASSUME AssignAt(t, e, i) = <<>>, NEW q \in DOMAIN u, at[q] = i PROVE q = p \/ u[q] = BareUse
    <3>1. nth[q] \in DOMAIN s[i] /\ u[q] = s[i][nth[q]]
      BY <1>3, <2>4 DEF Places
    <3>2. u[q] = BareUse \/ nth[q] = nth[p]
      BY <1>4, <2>2, <2>4, <3>1
    <3>3. nth[q] = nth[p] => q = p
      <4>1. p \in Nat /\ q \in Nat /\ nth[p] \in Nat /\ at[p] \in Nat
        <5>1. DOMAIN u \subseteq Nat
          BY <1>2
        <5>2. nth \in [DOMAIN u -> Nat]
          BY <1>3 DEF Places
        <5> QED BY <1>1, <2>2, <5>1, <5>2
      <4>2. /\ p < q => at[p] < at[q] \/ (at[p] = at[q] /\ nth[p] < nth[q])
            /\ q < p => at[q] < at[p] \/ (at[q] = at[p] /\ nth[q] < nth[p])
        BY <1>3 DEF Places
      <4> QED BY <2>2, <2>4, <4>1, <4>2
    <3> QED BY <3>2, <3>3
  <2> QED BY <2>2, <2>3, <2>4
<1>6. ASSUME NEW h, NEW g, PlainProcedure(b, h), Quiet(t, g, {}), Scope(t, g) = Scope(b, h),
             NEW i \in g .. NextEnd(t, g)
      PROVE  \E p \in DOMAIN u : /\ at[p] = i /\ u[p] = t[i]
                                 /\ \A q \in DOMAIN u : at[q] = i => q = p \/ u[q] = BareUse
  <2>1. i \in DOMAIN t /\ g \in Procedures(t)
    BY <1>1, <1>6, QuietLines DEF Quiet
  <2>2. \A k \in DOMAIN e : e[k].scope # Scope(t, g)
    BY <1>6 DEF NoExtras
  <2>3. AssignAt(t, e, i) = <<>>
    BY <1>1, <2>1, <2>2, NoAssignsIn
  <2> QED BY <1>5, <2>1, <2>3
<1>7. LeavesQuiet(b, t, u, at, {}, {BareUse})
  BY <1>6 DEF LeavesQuiet
<1>8. Untouched(b, u, {BareUse})
  BY <1>1, <1>2, <1>3, <1>7, UntouchedStep
<1> QED BY <1>8 DEF u

-----------------------------------------------------------------------------
(* A plain line is neither promoted nor renamed.                           *)

LEMMA RenameNone ==
  ASSUME NEW ns, NEW rs, ns \cap rs = {}
  PROVE  RenameKnown(ns, rs) = ns
BY DEF RenameKnown

LEMMA SameItem ==
  ASSUME NEW x \in ItemType, NEW rs, x.v.of \cap rs = {}
  PROVE  RenamedItem(x, rs) = x
<1>1. RenameKnown(x.v.of, rs) = x.v.of
  BY RenameNone
<1>2. RenamedItem(x, rs) = [x EXCEPT !.v = [x.v EXCEPT !.of = RenameKnown(x.v.of, rs)]]
  BY DEF RenamedItem
<1>3. [x.v EXCEPT !.of = x.v.of] = x.v
  BY DEF ItemType
<1>4. [x EXCEPT !.v = x.v] = x
  BY DEF ItemType
<1> QED BY <1>1, <1>2, <1>3, <1>4

LEMMA PlainMigrated ==
  ASSUME NEW l, Plain(l), NEW rs, rs \subseteq Known, NEW complex
  PROVE  Migrated(l, rs, complex) = l
<1>1. /\ l \in LineType /\ Promoted(l.ty) = l.ty /\ \A x \in ToSet(l.it) : ~IsFpValue(x.v)
      /\ ~IsComment(l) /\ ~IsDirective(l) =>
            (l.rf \cup ItemNames(l) \cup UNION {x.v.of : x \in ToSet(l.it)}) \cap Known = {} /\ l.ty # "treal"
  BY PlainLine
<1>2. l.ty \in Types /\ l.it \in Seq(ItemType) /\ l.rf \in SUBSET Refs
  BY <1>1, LineFields
<1>3. ReplaceTypeDecls(l, complex) = l
  <2> DEFINE m == [l EXCEPT !.ty = l.ty]
             p == [l EXCEPT !.ty = Promoted(@)]
  <2>1. p = m
    BY <1>1
  <2>2. m \in LineType /\ m.k = l.k /\ m.ty = l.ty /\ m.it = l.it /\ m.rf = l.rf /\ m.cond = l.cond
    BY <1>1, <1>2, LineExcept
  <2> HIDE DEF m
  <2>3. m = l
    BY <1>1, <2>2, SameLine
  <2>4. p = l
    BY <2>1, <2>3
  <2>5. ~(l.k = "decl" /\ l.ty = "treal")
    BY <1>1 DEF IsComment, IsDirective
  <2>6. ReplaceTypeDecls(l, complex) =
          IF p.k = "decl" /\ p.ty = "treal" /\ \A x \in ToSet(p.it) : x.v = Bare
          THEN WithoutItems(p, Known \ complex) ELSE p
    BY DEF ReplaceTypeDecls
  <2> HIDE DEF p
  <2> QED BY <2>4, <2>5, <2>6
<1>4. ReplaceKnown(l, rs) = l
  <2>1. CASE l.k = "exec"
    <3> DEFINE rf == RenameKnown(l.rf, rs)
               m == [l EXCEPT !.rf = rf]
    <3>1. l.rf \cap Known = {}
      BY <1>1, <2>1 DEF IsComment, IsDirective
    <3>2. rf = l.rf
      BY <3>1, RenameNone
    <3>3. ReplaceKnown(l, rs) = m
      BY <2>1 DEF ReplaceKnown
    <3> HIDE DEF rf
    <3>4. m \in LineType /\ m.k = l.k /\ m.ty = l.ty /\ m.it = l.it /\ m.rf = rf /\ m.cond = l.cond
      BY <1>1, <1>2, <3>2, LineExcept
    <3> HIDE DEF m
    <3> QED BY <1>1, <3>2, <3>3, <3>4, SameLine
  <2>2. CASE l.k = "assign"
    <3> DEFINE it == [i \in DOMAIN l.it |-> RenamedItem(l.it[i], rs \ {l.it[i].n})]
               rf == l.rf \cup UNION {Constructors(x.v) : x \in ToSet(l.it)}
    <3>1. \A x \in ToSet(l.it) : x.v.of \cap Known = {}
      BY <1>1, <2>2 DEF IsComment, IsDirective
    <3>2. \A i \in DOMAIN l.it : RenamedItem(l.it[i], rs \ {l.it[i].n}) = l.it[i]
      <4> SUFFICES ASSUME NEW i \in DOMAIN l.it PROVE RenamedItem(l.it[i], rs \ {l.it[i].n}) = l.it[i]
        OBVIOUS
      <4>1. l.it[i] \in ToSet(l.it) /\ l.it[i] \in ItemType
        BY <1>2 DEF ToSet
      <4>2. l.it[i].v.of \cap (rs \ {l.it[i].n}) = {}
        BY <3>1, <4>1
      <4> QED BY <4>1, <4>2, SameItem
    <3>3. it = l.it
      <4>1. l.it = [i \in DOMAIN l.it |-> l.it[i]]
        BY <1>2
      <4> QED BY <3>2, <4>1
    <3>4. rf = l.rf
      <4>1. \A x \in ToSet(l.it) : Constructors(x.v) = {}
        BY <1>1 DEF Constructors, IsFpValue
      <4> QED BY <4>1
    <3>5. ReplaceKnown(l, rs) = [l EXCEPT !.it = it, !.rf = rf]
      BY <2>2 DEF ReplaceKnown
    <3> HIDE DEF it, rf
    <3>6. [l EXCEPT !.it = l.it, !.rf = l.rf] = l
      BY <1>1 DEF LineType
    <3> QED BY <3>3, <3>4, <3>5, <3>6
  <2>3. CASE l.k \notin {"exec", "assign"}
    BY <2>3 DEF ReplaceKnown
  <2> QED BY <2>1, <2>2, <2>3
<1> QED BY <1>3, <1>4 DEF Migrated

LEMMA MigrateLinesUntouched ==
  ASSUME NEW b \in Seq(LineType), WellFormed(b), NEW t, Placed(t), Untouched(b, t, {BareUse}),
         NEW rs, rs \subseteq Known, NEW complex
  PROVE  Untouched(b, MigrateLines(t, rs, complex), {BareUse})
<1> DEFINE M(l) == Migrated(l, rs, complex)
           x == [i \in DOMAIN t |-> IF t[i].k # "decl" \/ M(t[i]).it # <<>> THEN <<M(t[i])>> ELSE <<>>]
<1>1. MigrateLines(t, rs, complex) = FlattenSeq(x)
  BY DEF MigrateLines, Migrated
<1>2. t \in Seq(LineType) /\ WellFormed(t)
  BY DEF Placed
<1>3. ASSUME NEW i \in DOMAIN t
      PROVE  /\ OneFor(t[i], x[i])
             /\ Plain(t[i]) => x[i] = <<t[i]>>
             /\ t[i] = BareUse => x[i] = <<BareUse>>
  <2>1. Clean(t[i]) /\ (t[i].ty = "module" => t[i] = BareUse)
    BY DEF Placed
  <2> DEFINE m == M(t[i])
  <2>2. m \in LineType /\ m.k = t[i].k /\ (t[i] = BareUse => m = BareUse)
    BY <2>1, MigratedLine
  <2>3. Plain(t[i]) => m = t[i] /\ (t[i].k = "decl" => t[i].it # <<>>)
    BY PlainMigrated, PlainLine
  <2>4. x[i] = IF t[i].k # "decl" \/ m.it # <<>> THEN <<m>> ELSE <<>>
    OBVIOUS
  <2>5. t[i].k = "decl" => ~Structural(t[i])
    BY DEF Structural
  <2>6. t[i] = BareUse => t[i].k # "decl"
    BY InsertedLines
  <2> HIDE DEF m, x, M
  <2> QED BY <2>2, <2>3, <2>4, <2>5, <2>6, OneLine, NoLine
<1>4. x = [i \in DOMAIN t |-> x[i]]
  OBVIOUS
<1> HIDE DEF x
<1>5. Pieces(t, x)
  BY <1>3, <1>4 DEF Pieces
<1>6. Silent(t, x, {BareUse}, {BareUse})
  <2> SUFFICES ASSUME NEW g, Quiet(t, g, {BareUse}), NEW i \in g .. NextEnd(t, g)
               PROVE  /\ Plain(t[i]) => x[i] = <<t[i]>>
                      /\ t[i] = BareUse => x[i][1] = BareUse
    BY DEF Silent
  <2>1. i \in DOMAIN t
    BY <1>2, QuietLines
  <2>2. PICK l : l = BareUse
    OBVIOUS
  <2>3. t[i] = BareUse => x[i] = <<l>>
    BY <1>3, <2>1, <2>2
  <2> QED BY <1>3, <2>1, <2>2, <2>3
<1> QED BY <1>1, <1>2, <1>5, <1>6, BareUseIsNoSource, PiecesUntouched

-----------------------------------------------------------------------------
(* The import of a procedure that refers to nothing is taken out.          *)

LEMMA NothingToImport ==
  ASSUME NEW t \in Seq(LineType), WellFormed(t), NEW g, Quiet(t, g, {BareUse})
  PROVE  OnlyList(ProcLines(t, g)) = {}
<1> DEFINE ls == ProcLines(t, g)
           referenced == UNION {Identifiers(l) : l \in ls}
<1>1. \A l \in ls : Plain(l) \/ l = BareUse
  BY DEF Quiet, ProcLines
<1>2. Identifiers(BareUse) \cap (PublicNames \cup {"kept_dble"}) = {}
  <2>1. "use" \in Kinds /\ "module" \in Types
    BY DEF Kinds, Types
  <2>2. Line("use") \in LineType /\ Line("use").it = <<>> /\ Line("use").rf = {} /\ Line("use").k = "use"
    BY <2>1, NewLine
  <2>3. BareUse.it = <<>> /\ BareUse.rf = {} /\ BareUse.ty = "module" /\ BareUse.k = "use"
    BY <2>1, <2>2, LineExcept DEF BareUse
  <2>4. ToSet(BareUse.it) = {}
    BY <2>3 DEF ToSet
  <2>5. Identifiers(BareUse) = {}
    BY <2>3, <2>4 DEF Identifiers, ItemNames, TypeName, IsComment, IsDirective
  <2> QED BY <2>5
<1>3. \A l \in ls : Identifiers(l) \cap (PublicNames \cup {"kept_dble"}) = {}
  BY <1>1, <1>2 DEF Plain
<1>4. referenced \cap (PublicNames \cup {"kept_dble"}) = {}
  BY <1>3
<1>5. "int" \in PublicNames
  BY ModuleAssumption DEF PublicNames
<1> HIDE DEF referenced, ls
<1>6. Predicted(ls, referenced) = {}
  BY <1>4, <1>5 DEF Predicted
<1>7. OnlyList(ls) = ((referenced \cup Predicted(ls, referenced)) \cap PublicNames) \ DeclaredNames(ls)
  BY DEF OnlyList, referenced
<1>8. OnlyList(ls) = {}
  BY <1>4, <1>6, <1>7
<1> QED BY <1>8 DEF ls

LEMMA SpecializeUntouched ==
  ASSUME NEW b \in Seq(LineType), WellFormed(b), NEW t, Placed(t), Untouched(b, t, {BareUse})
  PROVE  Untouched(b, SpecializeUse(t), {})
<1> DEFINE x == [i \in DOMAIN t |-> IF t[i] = BareUse THEN Specialized(t, i) ELSE <<t[i]>>]
           hs(v) == {h \in Procedures(t) : h < v /\ v <= NextEnd(t, h)}
           only(v) == OnlyList(ProcLines(t, FirstOf(hs(v))))
<1>1. SpecializeUse(t) = FlattenSeq(x)
  BY DEF SpecializeUse
<1>2. t \in Seq(LineType) /\ WellFormed(t)
  BY DEF Placed
<1>3. ASSUME NEW i \in DOMAIN t, t[i] = BareUse
      PROVE  /\ OneFor(t[i], Specialized(t, i))
             /\ hs(i) # {} /\ only(i) = {} => Specialized(t, i) = <<>>
  <2>1. /\ hs(i) = {} => Specialized(t, i) = <<BareUse>>
        /\ hs(i) # {} /\ only(i) = {} => Specialized(t, i) = <<>>
        /\ hs(i) # {} /\ only(i) # {} => \E m \in LineType :
             Specialized(t, i) = <<m>> /\ m.k = "useonly" /\ m.ty = "module" /\ m.rf = only(i)
    BY <1>3, SpecializedLine
  <2> HIDE DEF hs, only
  <2>2. ~Structural(t[i]) /\ BareUse \in LineType /\ BareUse.k = "use"
    BY <1>3, InsertedLines DEF Inserted
  <2>3. OneFor(t[i], <<>>)
    BY <2>2, NoLine
  <2>4. \A m \in LineType : m.k = "useonly" \/ m.k = "use" => OneFor(t[i], <<m>>)
    BY <2>2 DEF OneFor, Structural
  <2> QED BY <2>1, <2>2, <2>3, <2>4
<1>4. ASSUME NEW i \in DOMAIN t PROVE OneFor(t[i], x[i]) /\ (t[i] # BareUse => x[i] = <<t[i]>>)
  <2>1. t[i] \in LineType
    BY <1>2
  <2>2. t[i] # BareUse => x[i] = <<t[i]>>
    OBVIOUS
  <2>3. t[i] = BareUse => x[i] = Specialized(t, i)
    OBVIOUS
  <2> HIDE DEF x
  <2> QED BY <1>3, <2>1, <2>2, <2>3, OneLine
<1>5. \A i \in DOMAIN t : t[i] = BareUse => x[i] = Specialized(t, i)
  OBVIOUS
<1>6. x = [i \in DOMAIN t |-> x[i]]
  OBVIOUS
<1> HIDE DEF x
<1>7. Pieces(t, x)
  BY <1>4, <1>6 DEF Pieces
<1>8. ASSUME NEW g, Quiet(t, g, {BareUse}), NEW i \in g .. NextEnd(t, g), t[i] = BareUse
      PROVE  x[i] = <<>>
  <2>1. g \in Procedures(t) /\ g \in Nat /\ t[g].k = "header" /\ NextEnd(t, g) \in Nat /\ i \in DOMAIN t
    BY <1>2, <1>8, ProcedureLines, ProcedureEnd, QuietLines DEF Quiet
  <2>2. g \in hs(i)
    <3>1. i # g
      BY <1>8, <2>1, InsertedLines
    <3> QED BY <1>8, <2>1, <3>1
  <2>3. ASSUME NEW h \in hs(i) PROVE h = g
    <3>1. h \in Procedures(t) /\ h < i /\ i <= NextEnd(t, h)
      OBVIOUS
    <3>2. h \in Nat /\ NextEnd(t, h) \in Nat
      BY <1>2, <3>1, ProcedureLines, ProcedureEnd
    <3>3. i \in h .. NextEnd(t, h)
      BY <2>1, <3>1, <3>2
    <3> QED BY <1>2, <1>8, <2>1, <3>1, <3>3, OneProcedure
  <2>4. hs(i) = {g}
    <3> HIDE DEF hs
    <3> QED BY <2>2, <2>3
  <2> HIDE DEF hs
  <2>5. FirstOf(hs(i)) = g
    <3>1. hs(i) \in SUBSET Nat
      BY <2>1, <2>4
    <3> QED BY <2>4, <3>1, FirstOfLeast
  <2>6. only(i) = {}
    BY <1>2, <1>8, <2>5, NothingToImport
  <2> QED BY <1>3, <1>5, <1>8, <2>1, <2>4, <2>6
<1> HIDE DEF hs, only
<1>9. Silent(t, x, {BareUse}, {})
  <2> SUFFICES ASSUME NEW g, Quiet(t, g, {BareUse}), NEW i \in g .. NextEnd(t, g)
               PROVE  /\ Plain(t[i]) => x[i] = <<t[i]>>
                      /\ t[i] = BareUse => x[i] = <<>>
    BY DEF Silent
  <2>1. i \in DOMAIN t
    BY <1>2, QuietLines
  <2> QED BY <1>4, <1>8, <2>1, BareUseIsNoSource
<1> QED BY <1>1, <1>2, <1>7, <1>9, BareUseIsNoSource, PiecesUntouched

-----------------------------------------------------------------------------
(* The MPI module is not imported where nothing of MPI is named.           *)

\* Two lines with nothing structural between them, neither of which opens or
\* closes an interface block, are both inside one or both outside.
LEMMA SameInterfaceBetween ==
  ASSUME NEW t \in Seq(LineType), NEW p \in DOMAIN t, NEW q \in DOMAIN t, p < q, NothingBetween(t, p, q),
         t[q].k \notin {"interface", "endinterface"}
  PROVE  InInterface(t, p) <=> InInterface(t, q)
<1>1. DOMAIN t = 1 .. Len(t) /\ Len(t) \in Nat /\ p \in Nat /\ q \in Nat
  OBVIOUS
<1>2. ASSUME NEW j \in DOMAIN t, t[j].k \in {"interface", "endinterface"} PROVE j <= p <=> j <= q
  <2>1. j \in Nat /\ j # q
    BY <1>1, <1>2
  <2>2. j \notin p + 1 .. q - 1
    BY <1>2 DEF NothingBetween, Structural
  <2> QED BY <1>1, <2>1, <2>2
<1>3. {j \in Lines(t, "interface") : j <= p} = {j \in Lines(t, "interface") : j <= q}
  BY <1>2 DEF Lines
<1>4. {j \in Lines(t, "endinterface") : j <= p} = {j \in Lines(t, "endinterface") : j <= q}
  BY <1>2 DEF Lines
<1> QED BY <1>3, <1>4, Zenon DEF InInterface

\* The END a prototype of a procedure has stands before the procedure's own.
LEMMA PrototypeEnds ==
  ASSUME NEW t \in Seq(LineType), WellFormed(t), NEW g \in Procedures(t),
         NEW p \in Lines(t, "header"), g < p, p <= NextEnd(t, g)
  PROVE  \E q \in Lines(t, "end") : p < q /\ q < NextEnd(t, g) /\ NothingBetween(t, p, q)
<1> DEFINE e == NextEnd(t, g)
<1>1. p \in DOMAIN t /\ t[p].k = "header" /\ p \in Nat /\ g \in Nat /\ DOMAIN t = 1 .. Len(t) /\ Len(t) \in Nat
  BY ProcedureLines DEF Lines
<1>2. /\ e \in DOMAIN t /\ e \in Nat /\ ~InInterface(t, e) /\ t[e].k = "end"
      /\ \A j \in g + 1 .. e - 1 : t[j].k \in {"header", "end"} => InInterface(t, j)
  BY ProcedureEnd DEF Lines
<1>3. p < e
  BY <1>1, <1>2
<1>4. InInterface(t, p)
  BY <1>1, <1>2, <1>3
<1>5. PICK q \in Lines(t, "end") : p < q /\ NothingBetween(t, p, q)
  BY <1>4 DEF WellFormed
<1>6. q \in DOMAIN t /\ q \in Nat
  BY <1>1 DEF Lines
<1> HIDE DEF e
<1>7. ~ (e < q)
  <2> SUFFICES ASSUME e < q PROVE FALSE
    OBVIOUS
  <2>1. e \in p + 1 .. q - 1
    BY <1>1, <1>2, <1>3, <1>6
  <2> QED BY <1>2, <1>5, <2>1 DEF NothingBetween, Structural
<1>8. q # e
  BY <1>1, <1>2, <1>3, <1>4, <1>5, SameInterfaceBetween
<1>9. q < e
  BY <1>2, <1>6, <1>7, <1>8
<1> QED BY <1>5, <1>9 DEF e

\* The prototype an END of a procedure's prototypes closes.
LEMMA PrototypeStarts ==
  ASSUME NEW t \in Seq(LineType), WellFormed(t), NEW g \in Procedures(t),
         NEW q \in Lines(t, "end"), g < q, q < NextEnd(t, g)
  PROVE  \E p \in Lines(t, "header") : g < p /\ p < q /\ NothingBetween(t, p, q)
<1> DEFINE e == NextEnd(t, g)
<1>1. /\ q \in DOMAIN t /\ t[q].k = "end" /\ q \in Nat /\ g \in Nat /\ g \in DOMAIN t
      /\ Structural(t[g]) /\ ~InInterface(t, g)
      /\ DOMAIN t = 1 .. Len(t) /\ Len(t) \in Nat
  BY ProcedureLines DEF Lines
<1>2. e \in Nat /\ \A j \in g + 1 .. e - 1 : t[j].k \in {"header", "end"} => InInterface(t, j)
  BY ProcedureEnd
<1>3. InInterface(t, q)
  BY <1>1, <1>2
<1>4. PICK p \in Lines(t, "header") : p < q /\ NothingBetween(t, p, q)
  BY <1>3 DEF WellFormed
<1>5. p \in DOMAIN t /\ p \in Nat
  BY <1>1 DEF Lines
<1>6. ~ (p < g)
  <2> SUFFICES ASSUME p < g PROVE FALSE
    OBVIOUS
  <2>1. g \in p + 1 .. q - 1
    BY <1>1, <1>5
  <2> QED BY <1>1, <1>4, <2>1 DEF NothingBetween
<1>7. p # g
  BY <1>1, <1>3, <1>4, SameInterfaceBetween
<1>8. g < p
  BY <1>1, <1>5, <1>6, <1>7
<1> QED BY <1>4, <1>8

\* A line of a kind with nothing between closes one header only.
LEMMA SameEnd ==
  ASSUME NEW t \in Seq(LineType), NEW p \in Lines(t, "header"), NEW q \in Lines(t, "end"), NEW r \in Lines(t, "end"),
         p < q, p < r, NothingBetween(t, p, q), NothingBetween(t, p, r)
  PROVE  q = r
<1>1. p \in Nat /\ q \in Nat /\ r \in Nat /\ Structural(t[q]) /\ Structural(t[r])
  BY DEF Lines, Structural
<1>2. q \notin p + 1 .. r - 1 /\ r \notin p + 1 .. q - 1
  BY <1>1 DEF NothingBetween
<1> QED BY <1>1, <1>2

\* Within a procedure headers and ENDs are as many, its own included.
LEMMA ProcedureBalanced ==
  ASSUME NEW t \in Seq(LineType), WellFormed(t), NEW g \in Procedures(t)
  PROVE  LET e == NextEnd(t, g)
         IN  Cardinality({i \in Lines(t, "header") : g <= i /\ i <= e})
               = Cardinality({i \in Lines(t, "end") : g <= i /\ i <= e})
<1> DEFINE e == NextEnd(t, g)
           H == {i \in Lines(t, "header") : g <= i /\ i <= e}
           E == {i \in Lines(t, "end") : g <= i /\ i <= e}
           mate(p) == CHOOSE q \in Lines(t, "end") : p < q /\ q < e /\ NothingBetween(t, p, q)
           f == [p \in H |-> IF p = g THEN e ELSE mate(p)]
<1>1. g \in DOMAIN t /\ g \in Nat /\ t[g].k = "header" /\ DOMAIN t = 1 .. Len(t) /\ Len(t) \in Nat
  BY ProcedureLines
<1>2. e \in DOMAIN t /\ e \in Nat /\ g < e /\ t[e].k = "end"
  BY ProcedureEnd DEF Lines
<1>3. g \in H /\ e \in E
  BY <1>1, <1>2 DEF Lines
<1>4. \A p \in H : p \in Nat /\ p \in DOMAIN t /\ t[p].k = "header" /\ (p # g => g < p) /\ p <= e
  BY <1>1 DEF Lines
<1>5. \A q \in E : q \in Nat /\ q \in DOMAIN t /\ t[q].k = "end" /\ g < q /\ (q # e => q < e)
  BY <1>1, <1>2 DEF Lines
<1>6. ASSUME NEW p \in H, p # g
      PROVE  /\ mate(p) \in Lines(t, "end") /\ p < mate(p) /\ mate(p) < e /\ NothingBetween(t, p, mate(p))
             /\ mate(p) \in E
  <2>1. \E q \in Lines(t, "end") : p < q /\ q < e /\ NothingBetween(t, p, q)
    BY <1>4, <1>6, PrototypeEnds
  <2>2. mate(p) \in Lines(t, "end") /\ p < mate(p) /\ mate(p) < e /\ NothingBetween(t, p, mate(p))
    BY <2>1
  <2> HIDE DEF mate
  <2>3. mate(p) \in Nat /\ p \in Nat /\ g < p
    BY <1>1, <1>4, <1>6, <2>2 DEF Lines
  <2> QED BY <1>1, <1>2, <2>2, <2>3
<1> HIDE DEF mate, e
<1>7. \A p \in H : f[p] = IF p = g THEN e ELSE mate(p)
  OBVIOUS
<1>8. f \in [H -> E]
  BY <1>3, <1>6
<1> HIDE DEF f, H, E
<1>9. ASSUME NEW p \in H, NEW r \in H, f[p] = f[r], p < r PROVE FALSE
  <2>1. p \in Nat /\ r \in Nat /\ r # g /\ t[r].k = "header"
    BY <1>1, <1>4, <1>9
  <2>2. f[r] = mate(r) /\ f[r] < e /\ r < f[r] /\ f[r] \in Nat
    BY <1>5, <1>6, <1>7, <1>9, <2>1
  <2>3. p # g
    BY <1>2, <1>7, <1>9, <2>2
  <2>4. NothingBetween(t, p, f[r])
    BY <1>6, <1>7, <1>9, <2>3
  <2>5. r \in p + 1 .. f[r] - 1
    BY <1>9, <2>1, <2>2
  <2> QED BY <2>1, <2>4, <2>5 DEF NothingBetween, Structural
<1>10. \A p, r \in H : f[p] = f[r] => p = r
  <2> SUFFICES ASSUME NEW p \in H, NEW r \in H, f[p] = f[r], p # r PROVE FALSE
    OBVIOUS
  <2>1. p < r \/ r < p
    BY <1>4
  <2> QED BY <1>9, <2>1
<1>11. \A q \in E : \E p \in H : f[p] = q
  <2> SUFFICES ASSUME NEW q \in E PROVE \E p \in H : f[p] = q
    OBVIOUS
  <2>1. CASE q = e
    BY <1>3, <1>7, <2>1
  <2>2. CASE q # e
    <3>1. q \in Lines(t, "end") /\ g < q /\ q < e
      BY <1>5, <2>2 DEF E
    <3>2. PICK p \in Lines(t, "header") : g < p /\ p < q /\ NothingBetween(t, p, q)
      BY <3>1, PrototypeStarts DEF e
    <3>3. p \in H /\ p # g
      <4>1. p \in Nat /\ q \in Nat
        BY <1>1, <1>5, <3>2 DEF Lines
      <4> QED BY <1>1, <1>2, <3>1, <3>2, <4>1 DEF H
    <3>4. f[p] = mate(p)
      BY <1>7, <3>3
    <3>5. mate(p) = q
      BY <1>6, <3>1, <3>2, <3>3, SameEnd
    <3> QED BY <3>3, <3>4, <3>5
  <2> QED BY <2>1, <2>2
<1>12. IsFiniteSet(H)
  <2>1. H \in SUBSET (1 .. Len(t)) /\ 1 \in Int /\ Len(t) \in Int
    BY <1>1, <1>4
  <2>2. IsFiniteSet(1 .. Len(t))
    BY <2>1, FS_Interval
  <2> QED BY <2>1, <2>2, FS_Subset
<1>13. ExistsBijection(H, E)
  <2>1. f \in Injection(H, E) /\ f \in Surjection(H, E)
    BY <1>8, <1>10, <1>11 DEF Injection, Surjection, IsInjective
  <2> QED BY <2>1 DEF ExistsBijection, Bijection
<1>14. Cardinality(H) = Cardinality(E)
  BY <1>12, <1>13, FS_Bijection
<1> QED BY <1>14 DEF H, E, e

\* So the lines from a header in a procedure to its END are all in it.
LEMMA MatchingEndInside ==
  ASSUME NEW t \in Seq(LineType), WellFormed(t), NEW g \in Procedures(t),
         NEW h \in Lines(t, "header"), g <= h, h <= NextEnd(t, g)
  PROVE  MatchingEnd(t, h) \in Nat /\ MatchingEnd(t, h) <= NextEnd(t, g)
<1> DEFINE e == NextEnd(t, g)
           open(k) == Cardinality({i \in Lines(t, "header") : h <= i /\ i <= k})
                        - Cardinality({i \in Lines(t, "end") : h <= i /\ i <= k})
           ends == {q \in Lines(t, "end") : q > h /\ open(q) = 0}
<1>1. h \in DOMAIN t /\ h \in Nat /\ g \in Nat /\ DOMAIN t = 1 .. Len(t) /\ Len(t) \in Nat
  BY ProcedureLines DEF Lines
<1>2. e \in Nat /\ e \in Lines(t, "end") /\ g < e
  BY ProcedureEnd
<1>3. CASE h = g
  <2>1. MatchingEnd(t, h) = IF ends = {} THEN Len(t) ELSE FirstOf(ends)
    BY DEF MatchingEnd
  <2>2. ends \in SUBSET Nat
    BY <1>1 DEF Lines
  <2>3. open(e) = 0
    <3> DEFINE H == {i \in Lines(t, "header") : h <= i /\ i <= e}
               E == {i \in Lines(t, "end") : h <= i /\ i <= e}
    <3>1. Cardinality(H) = Cardinality(E)
      BY <1>3, ProcedureBalanced
    <3>2. Cardinality(E) \in Nat
      <4>1. E \in SUBSET (1 .. Len(t)) /\ IsFiniteSet(1 .. Len(t))
        BY <1>1, FS_Interval DEF Lines
      <4> QED BY <4>1, FS_Subset, FS_CardinalityType
    <3>3. open(e) = Cardinality(H) - Cardinality(E)
      OBVIOUS
    <3> HIDE DEF H, E, open
    <3> QED BY <3>1, <3>2, <3>3
  <2> HIDE DEF open, e
  <2>4. e \in ends
    BY <1>2, <1>3, <2>3
  <2> HIDE DEF ends
  <2>5. FirstOf(ends) \in Nat /\ FirstOf(ends) <= e /\ ends # {}
    BY <2>2, <2>4, FirstOfLeast
  <2> QED BY <2>1, <2>5 DEF e
<1>4. CASE h # g
  <2>1. g < h
    BY <1>1, <1>4
  <2>2. PICK q \in Lines(t, "end") : h < q /\ q < e /\ NothingBetween(t, h, q)
    BY <2>1, PrototypeEnds
  <2>3. MatchingEnd(t, h) = q
    BY <2>2, MatchingEndIs
  <2>4. q \in Nat
    BY <1>1 DEF Lines
  <2> QED BY <1>2, <2>2, <2>3, <2>4
<1> QED BY <1>3, <1>4

LEMMA NoMpiUseIn ==
  ASSUME NEW t \in Seq(LineType), WellFormed(t), NEW g, Quiet(t, g, {}),
         NEW i \in g .. NextEnd(t, g), g < i
  PROVE  MpiUseAt(t, i) = <<>>
<1>1. g \in Procedures(t) /\ g \in Nat /\ g \in DOMAIN t /\ t[g].k = "header"
  BY ProcedureLines DEF Quiet
<1>2. DOMAIN t = 1 .. Len(t) /\ Len(t) \in Nat /\ NextEnd(t, g) \in Nat /\ i \in Nat
  BY <1>1, ProcedureEnd
<1> SUFFICES ASSUME NEW h \in Lines(t, "header"), AfterHeader(t, h) = i, NeedsMpi(t, h) PROVE FALSE
  BY DEF MpiUseAt
<1>3. h \in DOMAIN t /\ h \in Nat
  BY <1>2 DEF Lines
<1>4. h < i /\ \A k \in h + 1 .. i - 1 : IsDirective(t[k])
  <2>1. i \in h + 1 .. Len(t) + 1
    BY <1>3, AfterHeaderIs
  <2> QED BY <1>2, <1>3, <2>1, AfterHeaderIs
<1>5. ~ (h < g)
  <2> SUFFICES ASSUME h < g PROVE FALSE
    OBVIOUS
  <2>1. g \in h + 1 .. i - 1
    BY <1>1, <1>2, <1>3
  <2> QED BY <1>1, <1>4, <2>1 DEF IsDirective
<1>6. g <= h /\ h <= NextEnd(t, g)
  BY <1>1, <1>2, <1>3, <1>4, <1>5
<1>7. MatchingEnd(t, h) \in Nat /\ MatchingEnd(t, h) <= NextEnd(t, g)
  BY <1>1, <1>6, MatchingEndInside
<1>8. PICK k \in i .. MatchingEnd(t, h) : t[k].rf \cap MpiTokens # {}
  BY DEF NeedsMpi
<1>9. k \in g .. NextEnd(t, g)
  <2>1. PICK m : m = MatchingEnd(t, h)
    OBVIOUS
  <2>2. m \in Nat /\ k \in i .. m /\ m <= NextEnd(t, g)
    BY <1>7, <1>8, <2>1
  <2> QED BY <1>1, <1>2, <2>2
<1>10. Plain(t[k])
  BY <1>9 DEF Quiet
<1> QED BY <1>8, <1>10 DEF Plain

LEMMA InsertMpiUntouched ==
  ASSUME NEW b \in Seq(LineType), WellFormed(b), NEW t \in Seq(LineType), WellFormed(t), Untouched(b, t, {})
  PROVE  Untouched(b, InsertMpiUse(t), {})
<1> DEFINE u == InsertMpiUse(t)
<1>1. PICK at :
        /\ Follows(t, u, at)
        /\ \A i \in DOMAIN t : \E p \in DOMAIN u :
              /\ at[p] = i /\ u[p] = t[i]
              /\ MpiUseAt(t, i) = <<>> => \A q \in DOMAIN u : at[q] = i => q = p
  BY MpiUseFollows
<1>2. u \in Seq(LineType)
  BY MpiUseFollows
<1> HIDE DEF u
<1>3. ASSUME NEW g, Quiet(t, g, {}), NEW i \in g .. NextEnd(t, g)
      PROVE  \E p \in DOMAIN u : /\ at[p] = i /\ u[p] = t[i]
                                 /\ g < i => \A q \in DOMAIN u : at[q] = i => q = p
  <2>1. i \in DOMAIN t
    BY <1>3, QuietLines
  <2>2. g < i => MpiUseAt(t, i) = <<>>
    BY <1>3, NoMpiUseIn
  <2> QED BY <1>1, <2>1, <2>2
<1>4. LeavesQuiet(b, t, u, at, {}, {})
  BY <1>3 DEF LeavesQuiet
<1>5. Untouched(b, u, {})
  BY <1>1, <1>2, <1>4, UntouchedStep
<1> QED BY <1>5 DEF u

\* A plain line does not name the rounding of workspace lengths.
LEMMA StripRoundupUntouched ==
  ASSUME NEW b \in Seq(LineType), WellFormed(b), NEW t \in Seq(LineType), WellFormed(t), Untouched(b, t, {})
  PROVE  Untouched(b, StripRoundup(t), {})
<1> DEFINE x == [i \in DOMAIN t |-> UnroundedPiece(t[i])]
           u == FlattenSeq(x)
<1>1. StripRoundup(t) = t \/ StripRoundup(t) = u
  BY DEF StripRoundup, UnroundedPiece, Unrounded, RoundupOrphan, CallsRoundup, Roundup
<1>3. ASSUME NEW l, Plain(l) PROVE UnroundedPiece(l) = <<l>>
  <2>1. l \in LineType
    BY <1>3, PlainLine
  <2>2. ~CallsRoundup(l)
    <3>1. l.k = "exec" => ~IsComment(l) /\ ~IsDirective(l)
      BY DEF IsComment, IsDirective
    <3> QED BY <1>3, <3>1, PlainLine DEF CallsRoundup
  <2>3. RoundupOrphan(l) => l.it # <<>> /\ ItemNames(l) \cap Roundup = {}
    <3>1. RoundupOrphan(l) => ~IsComment(l) /\ ~IsDirective(l) /\ l.k \in {"decl", "external"}
      BY DEF IsComment, IsDirective, RoundupOrphan
    <3> QED BY <1>3, <3>1, PlainLine DEF Roundup
  <2>4. ItemNames(l) \cap Roundup = {} => WithoutItems(l, Roundup) = l
    BY <2>1, WithoutNone
  <2> QED BY <2>2, <2>3, <2>4 DEF UnroundedPiece, Unrounded
<1>4. ASSUME NEW i \in DOMAIN t
      PROVE  OneFor(t[i], x[i]) /\ (Plain(t[i]) => x[i] = <<t[i]>>)
  <2>1. RoundupOrphan(t[i]) => ~Structural(t[i])
    BY DEF RoundupOrphan, Structural
  <2>2. x[i] = UnroundedPiece(t[i]) /\ t[i] \in LineType
    OBVIOUS
  <2> HIDE DEF x
  <2> QED BY <1>3, <2>1, <2>2, UnroundedIs, OneLine, NoLine
<1>5. x = [i \in DOMAIN t |-> x[i]]
  OBVIOUS
<1> HIDE DEF x
<1>6. Pieces(t, x)
  BY <1>4, <1>5 DEF Pieces
<1>7. Silent(t, x, {}, {})
  BY <1>4, SilentOnPlain
<1>8. Untouched(b, u, {})
  BY <1>6, <1>7, PiecesUntouched
<1> QED BY <1>1, <1>8

-----------------------------------------------------------------------------
(* The procedures a migration does not concern, through all the passes.    *)

\* What a reader calls a line without a number of the working precision is
\* one no pass changes.
LEMMA NotInvolved ==
  ASSUME NEW f \in Sources, NEW l \in ToSet(f.text), ~Involved(l)
  PROVE  Plain(l)
<1>1. l \in LineType
  BY SourceAssumption DEF ToSet
<1>2. l.ty \in Types /\ l.it \in Seq(ItemType) /\ l.rf \subseteq Name \cup {"kept_dble"}
  BY <1>1 DEF LineType
<1>3. /\ l.ty # "module" /\ l.rf \cap ({"kept_dble"} \cup MpiTokens) = {}
      /\ l.k \in {"decl", "param", "external"} => l.it # <<>>
  BY SourceAssumption
<1> DEFINE ty == IF l.ty = "real8" /\ SourceKind # 4 THEN "treal"
                 ELSE IF l.ty = "complex8" /\ SourceKind # 4 THEN "tcomplex"
                 ELSE IF l.ty = "real4" /\ SourceKind # 8 THEN "treal"
                 ELSE IF l.ty = "integer" /\ \E x \in ToSet(l.it) : x.v.lit = "complex" THEN "tcomplex"
                 ELSE l.ty
           rf == {TargetHandle(n) : n \in l.rf \ {"ROUNDUP_LWORK"}}
           w == [l EXCEPT !.ty = ty, !.rf = rf]
<1>4. Wanted(l, FALSE) = w
  BY DEF Wanted
<1>5. w = l
  BY <1>4 DEF Involved
<1>6. w.ty = ty /\ w.rf = rf
  BY <1>1 DEF LineType
<1>7. l.ty = ty /\ l.rf = rf
  <2> HIDE DEF ty, rf
  <2> QED BY <1>5, <1>6
<1>8. Promoted(l.ty) = l.ty
  <2>1. SourceKind \in {0, 4, 8}
    BY FileAssumption
  <2> QED BY <1>7, <2>1 DEF Promoted
<1>9. "MPI_DOUBLE_PRECISION" \notin l.rf
  <2>1. \A n : TargetHandle(n) # "MPI_DOUBLE_PRECISION"
    BY DEF TargetHandle
  <2> HIDE DEF ty
  <2> QED BY <1>7, <2>1
<1> HIDE DEF ty, rf, w
<1>10. "kept_dble" \notin Identifiers(l)
  <2>1. "kept_dble" \notin Name /\ "real" \in Name /\ TargetTypes \subseteq Name
    BY ModuleAssumption DEF TargetTypes
  <2>2. \A x \in ToSet(l.it) : x \in ItemType
    BY <1>2 DEF ToSet
  <2>3. ItemNames(l) \subseteq Name
    BY <2>2 DEF ItemNames, ItemType
  <2>4. UNION {x.v.of : x \in ToSet(l.it)} \subseteq Name
    BY <2>2 DEF ItemType
  <2>5. TypeName(l.ty) \subseteq TargetTypes
    BY TypeNames
  <2> DEFINE A == UNION {x.v.of : x \in ToSet(l.it)}
             B == IF l.ty = "real4" THEN {"real"} ELSE TypeName(l.ty)
  <2>6. "kept_dble" \notin A /\ "kept_dble" \notin B /\ "kept_dble" \notin ItemNames(l) /\ "kept_dble" \notin l.rf
    BY <1>3, <2>1, <2>3, <2>4, <2>5
  <2>7. Identifiers(l) = {} \/ Identifiers(l) = l.rf \cup ItemNames(l) \cup B \cup A
    BY DEF Identifiers
  <2> HIDE DEF A, B
  <2> QED BY <2>6, <2>7
<1>11. /\ Identifiers(l) \cap (PublicNames \cup Known \cup {"ROUNDUP_LWORK"}) = {}
       /\ \A x \in ToSet(l.it) : ~IsFpValue(x.v)
  BY DEF Involved
<1>12. Identifiers(l) \cap (PublicNames \cup Known \cup {"ROUNDUP_LWORK", "kept_dble"}) = {}
  BY <1>10, <1>11
<1>13. l.rf \cap (MpiTokens \cup {"MPI_DOUBLE_PRECISION"}) = {}
  BY <1>3, <1>9
<1> QED BY <1>1, <1>3, <1>8, <1>11, <1>12, <1>13 DEF Plain

\* What is kept of such procedures from pass to pass: first against the
\* protected text, then against the source.
UInv ==
  /\ Original(source) /\ \E f \in Sources : source = f.text
  /\ stage = "read" => text = source
  /\ stage \in {"protected", "stripped", "parameters"} => ConstantsInProcedures(text)
  /\ stage \in {"parameters", "data"} => NoExtras(Protect(source, kept), extra)
  /\ stage \in {"protected", "stripped", "parameters", "data", "specialized"} =>
       Untouched(Protect(source, kept), text, {})
  /\ stage \in WithBareUse => Untouched(Protect(source, kept), text, {BareUse})
  /\ stage \in {"restored", "handles", "mpi", "done"} => Untouched(source, text, {})

LEMMA InitUntouched == Init => UInv
<1> SUFFICES ASSUME Init PROVE UInv
  OBVIOUS
<1>1. PICK f \in Sources : source = f.text
  BY DEF Init
<1>2. text = source /\ stage = "read"
  BY DEF Init
<1>3. f.text \in Seq(LineType) /\ WellFormed(f.text) /\ ConstantsInProcedures(f.text)
  BY SourceAssumption
<1>4. ASSUME NEW i \in DOMAIN f.text PROVE f.text[i].ty # "kept" /\ "kept_dble" \notin f.text[i].rf
  <2>1. f.text[i] \in ToSet(f.text)
    BY <1>3 DEF ToSet
  <2> QED BY <2>1, SourceAssumption
<1>5. Original(source)
  BY <1>1, <1>3, <1>4 DEF Original
<1> QED BY <1>1, <1>2, <1>5 DEF UInv, WithBareUse

LEMMA StepUntouched == IInv /\ UInv /\ [Next]_vars => UInv'
<1> SUFFICES ASSUME IInv, UInv, [Next]_vars PROVE UInv'
  OBVIOUS
<1> USE DEF WithBareUse, BeforeUse, WithOnlyList
<1> DEFINE b == Protect(source, kept)
<1>0. /\ Original(source) /\ \E f \in Sources : source = f.text
      /\ b \in Seq(LineType) /\ WellFormed(b) /\ ConstantsInProcedures(b)
      /\ source \in Seq(LineType) /\ WellFormed(source)
  BY ProtectedText DEF UInv, Original
<1> DEFINE Same == source' = source /\ kept' = kept /\ Original(source') /\ \E f \in Sources : source' = f.text
<1>13. UNCHANGED <<source, kept>> => Same /\ b' = b
  BY <1>0
<1>1. CASE ApplyKeepKind
  <2>1. stage = "read" /\ stage' = "protected" /\ Same /\ b' = b
    BY <1>1, <1>13 DEF ApplyKeepKind, Pass
  <2>2. text' = b
    BY <1>1, <2>1 DEF ApplyKeepKind, UInv
  <2> HIDE DEF b
  <2>3. Untouched(b, text', {}) /\ ConstantsInProcedures(text')
    BY <1>0, <2>2, UntouchedAtFirst
  <2> QED BY <2>1, <2>3 DEF UInv, b
<1>2. CASE StripKnownConstants
  <2>1. stage = "protected" /\ stage' = "stripped" /\ Same /\ b' = b
    BY <1>2, <1>13 DEF StripKnownConstants, Pass
  <2>2. Sound(text) /\ Untouched(b, text, {}) /\ ConstantsInProcedures(text) /\ text' = StripKnown(text)
    BY <1>2, <2>1 DEF StripKnownConstants, IInv, UInv
  <2> HIDE DEF b
  <2>3. Untouched(b, text', {}) /\ ConstantsInProcedures(text')
    BY <1>0, <2>2, StripKnownUntouched
  <2> QED BY <2>1, <2>3 DEF UInv, b
<1>3. CASE ConvertParameterStmts
  <2> DEFINE r == ConvertParameters(text)
  <2>1. stage = "stripped" /\ stage' = "parameters" /\ Same /\ b' = b
    BY <1>3, <1>13 DEF ConvertParameterStmts, Pass
  <2>2. /\ Sound(text) /\ Untouched(b, text, {}) /\ ConstantsInProcedures(text)
        /\ text' = r.out /\ extra' = r.extra
    BY <1>3, <2>1 DEF ConvertParameterStmts, IInv, UInv
  <2> HIDE DEF b
  <2>3. Untouched(b, r.out, {}) /\ ConstantsInProcedures(r.out) /\ NoExtras(b, r.extra)
    BY <1>0, <2>2, ConvertParametersUntouched
  <2> HIDE DEF r
  <2>4. Untouched(b, text', {}) /\ ConstantsInProcedures(text') /\ NoExtras(b, extra')
    BY <2>2, <2>3
  <2> QED BY <2>1, <2>4 DEF UInv, b
<1>4. CASE ConvertDataStmts
  <2> DEFINE r == ConvertData(text)
  <2>1. stage = "parameters" /\ stage' = "data" /\ Same /\ b' = b
    BY <1>4, <1>13 DEF ConvertDataStmts, Pass
  <2>2. /\ Sound(text) /\ Untouched(b, text, {}) /\ ConstantsInProcedures(text)
        /\ NoExtras(b, extra) /\ extra \in Seq(ExtraType)
        /\ text' = r.out /\ extra' = extra \o r.extra
    BY <1>4, <2>1 DEF ConvertDataStmts, IInv, UInv
  <2> HIDE DEF b
  <2>3. Untouched(b, r.out, {}) /\ NoExtras(b, r.extra)
    BY <1>0, <2>2, ConvertDataUntouched
  <2>4. r.extra \in Seq(ExtraType)
    BY <2>2, ConvertDataSound
  <2> HIDE DEF r
  <2>5. NoExtras(b, extra \o r.extra)
    BY <2>2, <2>3, <2>4, NoExtrasJoined
  <2>6. Untouched(b, text', {}) /\ NoExtras(b, extra')
    BY <2>2, <2>3, <2>5
  <2> QED BY <2>1, <2>6 DEF UInv, b
<1>5. CASE InsertUseModule
  <2>1. stage = "data" /\ stage' = "placed" /\ Same /\ b' = b
    BY <1>5, <1>13 DEF InsertUseModule, Pass
  <2>2. /\ Sound(text) /\ Untouched(b, text, {}) /\ NoExtras(b, extra) /\ extra \in Seq(ExtraType)
        /\ text' = InsertUse(text, extra)
    BY <1>5, <2>1 DEF InsertUseModule, IInv, UInv
  <2> HIDE DEF b
  <2>3. Untouched(b, text', {BareUse})
    BY <1>0, <2>2, InsertUseUntouched
  <2> QED BY <2>1, <2>3 DEF UInv, b
<1>6. CASE MigrateEachLine
  <2>1. stage = "placed" /\ stage' = "promoted" /\ Same /\ b' = b
    BY <1>6, <1>13 DEF MigrateEachLine, Pass
  <2>2. /\ Placed(text) /\ Untouched(b, text, {BareUse}) /\ removed \subseteq Known
        /\ text' = MigrateLines(text, removed, ComplexNames(b))
    BY <1>6, <2>1 DEF MigrateEachLine, IInv, UInv
  <2> HIDE DEF b
  <2>3. Untouched(b, text', {BareUse})
    BY <1>0, <2>2, MigrateLinesUntouched
  <2> QED BY <2>1, <2>3 DEF UInv, b
<1>7. CASE SpecializeUseModule
  <2>1. stage = "promoted" /\ stage' = "specialized" /\ Same /\ b' = b
    BY <1>7, <1>13 DEF SpecializeUseModule, Pass
  <2>2. Placed(text) /\ Untouched(b, text, {BareUse}) /\ text' = SpecializeUse(text)
    BY <1>7, <2>1 DEF SpecializeUseModule, IInv, UInv
  <2> HIDE DEF b
  <2>3. Untouched(b, text', {})
    BY <1>0, <2>2, SpecializeUntouched
  <2> QED BY <2>1, <2>3 DEF UInv, b
<1>8. CASE RestoreKeepKind
  <2>1. stage = "specialized" /\ stage' = "restored" /\ Same
    BY <1>8, <1>13 DEF RestoreKeepKind, Pass
  <2>2. Served(text) /\ Untouched(b, text, {}) /\ text' = Restore(text)
    BY <1>8, <2>1 DEF RestoreKeepKind, IInv, UInv
  <2>3. Untouched(source, text', {})
    BY <1>0, <2>2, RestoreUntouched
  <2> QED BY <2>1, <2>3 DEF UInv
<1>9. CASE RewriteMpiHandles
  <2>1. stage = "restored" /\ stage' = "handles" /\ Same
    BY <1>9, <1>13 DEF RewriteMpiHandles, Pass
  <2>2. Served(text) /\ Untouched(source, text, {}) /\ text' = RewriteHandles(text)
    BY <1>9, <2>1 DEF RewriteMpiHandles, IInv, UInv
  <2>3. Untouched(source, text', {})
    BY <1>0, <2>2, HandlesUntouched
  <2> QED BY <2>1, <2>3 DEF UInv
<1>10. CASE InsertMpiModule
  <2>1. stage = "handles" /\ stage' = "mpi" /\ Same
    BY <1>10, <1>13 DEF InsertMpiModule, Pass
  <2>2. /\ text \in Seq(LineType) /\ WellFormed(text) /\ Untouched(source, text, {})
        /\ text' = InsertMpiUse(text)
    BY <1>10, <2>1 DEF InsertMpiModule, IInv, UInv, Served
  <2>3. Untouched(source, text', {})
    BY <1>0, <2>2, InsertMpiUntouched
  <2> QED BY <2>1, <2>3 DEF UInv
<1>11. CASE StripRoundupLwork
  <2>1. stage = "mpi" /\ stage' = "done" /\ Same
    BY <1>11, <1>13 DEF StripRoundupLwork, Pass
  <2>2. /\ text \in Seq(LineType) /\ WellFormed(text) /\ Untouched(source, text, {})
        /\ text' = StripRoundup(text)
    BY <1>11, <2>1 DEF StripRoundupLwork, IInv, UInv, Served
  <2>3. Untouched(source, text', {})
    BY <1>0, <2>2, StripRoundupUntouched
  <2> QED BY <2>1, <2>3 DEF UInv
<1>12. CASE Finished \/ UNCHANGED vars
  <2>1. UNCHANGED vars
    BY <1>12 DEF Finished
  <2>2. source' = source /\ kept' = kept /\ text' = text /\ extra' = extra /\ stage' = stage
    BY <2>1 DEF vars
  <2> QED BY <2>2 DEF UInv
<1> QED BY <1>1, <1>2, <1>3, <1>4, <1>5, <1>6, <1>7, <1>8, <1>9, <1>10, <1>11, <1>12 DEF Next

LEMMA UntouchedAtLast == IInv /\ UInv => OtherProceduresAreUntouched
<1> SUFFICES ASSUME IInv, UInv, stage = "done",
                    NEW s \in 1 .. Cardinality(Procedures(source)),
                    \A l \in ToSet(ProcedureText(source, s)) : ~Involved(l)
             PROVE  ProcedureText(text, s) = ProcedureText(source, s)
  BY DEF OtherProceduresAreUntouched
<1>1. /\ source \in Seq(LineType) /\ WellFormed(source) /\ Untouched(source, text, {})
      /\ text \in Seq(LineType)
  BY DEF IInv, UInv, Original, Served, WithOnlyList
<1>2. PICK f \in Sources : source = f.text
  BY DEF UInv
<1>3. PICK h \in Procedures(source) : Scope(source, h) = s
  BY <1>1, ScopeOnto
<1> DEFINE e == NextEnd(source, h)
           part == SubSeq(source, h, e)
<1>4. h \in Nat /\ e \in Nat /\ 1 <= h /\ h < e /\ e <= Len(source) /\ DOMAIN source = 1 .. Len(source)
  BY <1>1, ProcedureLines, ProcedureEnd
<1>5. ProcedureText(source, s) = part
  <2>1. \A p \in Procedures(source) : Scope(source, p) = s => p = h
    BY <1>1, <1>3, ScopeUnique
  <2>2. (CHOOSE p \in Procedures(source) : Scope(source, p) = s) = h
    BY <1>3, <2>1
  <2> QED BY <2>2 DEF ProcedureText
<1> HIDE DEF e
<1>6. ASSUME NEW i \in h .. e PROVE Plain(source[i])
  <2>1. /\ part \in Seq(LineType) /\ Len(part) = e - h + 1
        /\ \A j \in 1 .. e - h + 1 : part[j] = source[h + j - 1]
    BY <1>1, <1>4, Section
  <2> HIDE DEF part
  <2>2. PICK j \in 1 .. e - h + 1 : i = h + j - 1
    <3>1. i - h + 1 \in 1 .. e - h + 1 /\ i = h + (i - h + 1) - 1
      BY <1>4, <1>6
    <3> QED BY <3>1
  <2>3. part[j] = source[i] /\ j \in DOMAIN part
    BY <2>1, <2>2
  <2>4. source[i] \in ToSet(part)
    BY <2>3 DEF ToSet
  <2>5. ~Involved(source[i])
    BY <1>5, <2>4
  <2>6. source[i] \in ToSet(f.text)
    <3>1. i \in DOMAIN source
      BY <1>4, <1>6
    <3> QED BY <1>2, <3>1 DEF ToSet
  <2> QED BY <2>5, <2>6, NotInvolved
<1>7. PlainProcedure(source, h)
  BY <1>6 DEF PlainProcedure, e
<1>8. ProcedureText(text, Scope(source, h)) = ProcedureText(source, Scope(source, h))
  BY <1>1, <1>7, UntouchedText
<1> QED BY <1>3, <1>8

\* Each pass keeps them, with the notes it leaves for the next one.
THEOREM EachPassKeepsTheRest == Spec => []UInv
<1>1. Init => IInv /\ UInv
  BY InitEstablishes, InitUntouched
<1>2. (IInv /\ UInv) /\ [Next]_vars => (IInv /\ UInv)'
  BY StepKeeps, StepUntouched
<1> QED BY <1>1, <1>2, PTL DEF Spec

\* OtherProceduresAreUntouched, for every file, every target module and both
\* halves: a procedure without a number of the working precision comes out of
\* migrate_file_to_string line for line as it went in, whatever its neighbours
\* are made to import and assign.
THEOREM OtherProceduresStay == Spec => []OtherProceduresAreUntouched
<1>1. IInv /\ UInv => OtherProceduresAreUntouched
  BY UntouchedAtLast
<1> QED BY <1>1, EachPassPreparesTheNext, EachPassKeepsTheRest, PTL

-----------------------------------------------------------------------------
(* What the preprocessor reads.                                            *)

BranchType == [on : BOOLEAN, done : BOOLEAN]

LEMMA DirectiveType ==
  ASSUME NEW st \in Seq(BranchType), NEW l \in LineType, NEW c
  PROVE  Directive(st, l, c) \in Seq(BranchType)
<1> DEFINE on == c \in l.cond
<1>1. \A x, y \in BOOLEAN : [on |-> x, done |-> y] \in BranchType
  BY DEF BranchType
<1>2. ASSUME NEW f \in BranchType PROVE SetTop(st, f) \in Seq(BranchType)
  <2>1. DOMAIN st = 1 .. Len(st) /\ Len(st) \in Nat /\ \A i \in DOMAIN st : st[i] \in BranchType
    OBVIOUS
  <2>2. /\ SetTop(st, f) = [i \in DOMAIN st |-> SetTop(st, f)[i]]
        /\ \A i \in DOMAIN st : SetTop(st, f)[i] = st[i] \/ SetTop(st, f)[i] = f
    BY <2>1 DEF SetTop
  <2> QED BY <2>1, <2>2
<1>3. SubSeq(st, 1, Len(st) - 1) \in Seq(BranchType)
  <2>1. CASE Len(st) = 0
    <3>1. SubSeq(st, 1, Len(st) - 1) = <<>>
      BY <2>1
    <3> QED BY <3>1
  <2>2. CASE Len(st) # 0
    <3>1. \A i \in 1 .. Len(st) - 1 : st[i] \in BranchType
      OBVIOUS
    <3>2. Len(st) - 1 \in Nat
      BY <2>2
    <3> QED BY <3>1, <3>2, SubSeqProperties
  <2> QED BY <2>1, <2>2
<1>4. CASE l.k = "if"
  <2>1. Directive(st, l, c) = Append(st, [on |-> on, done |-> on])
    BY <1>4 DEF Directive
  <2>2. [on |-> on, done |-> on] \in BranchType
    <3>1. on = TRUE \/ on = FALSE
      OBVIOUS
    <3> HIDE DEF on
    <3> QED BY <3>1, <1>1
  <2> QED BY <2>1, <2>2
<1>5. CASE l.k = "elif"
  <2>1. Directive(st, l, c) = SetTop(st, [on |-> ~Top(st).done /\ c \in l.cond, done |-> Top(st).done \/ c \in l.cond])
    BY <1>5 DEF Directive
  <2> QED BY <2>1, <1>1, <1>2
<1>6. CASE l.k = "else"
  <2>1. Directive(st, l, c) = SetTop(st, [on |-> ~Top(st).done, done |-> TRUE])
    BY <1>6 DEF Directive
  <2> QED BY <2>1, <1>1, <1>2
<1>7. CASE l.k = "endif"
  BY <1>3, <1>7 DEF Directive
<1>8. CASE l.k \notin {"if", "elif", "else", "endif"}
  BY <1>8 DEF Directive
<1> QED BY <1>4, <1>5, <1>6, <1>7, <1>8

LEMMA BranchesAre ==
  ASSUME NEW t \in Seq(LineType), NEW c
  PROVE  /\ \A i \in 0 .. Len(t) : Branches(t, c)[i] \in Seq(BranchType)
         /\ \A i \in 0 .. Len(t) :
               Branches(t, c)[i] = IF i = 0 THEN <<>> ELSE Directive(Branches(t, c)[i - 1], t[i], c)
<1> DEFINE N         == Len(t)
           Val(g, i) == IF i = 0 THEN <<>> ELSE Directive(g[i - 1], t[i], c)
           UpTo(g, n) == \A i \in 0 .. N : i <= n => g[i] \in Seq(BranchType) /\ g[i] = Val(g, i)
           T         == {n \in Nat : ~ \E g : UpTo(g, n)}
<1>1. N \in Nat /\ \A i \in 1 .. N : t[i] \in LineType
  OBVIOUS
<1>2. Branches(t, c) = CHOOSE g : g = [i \in 0 .. N |-> Val(g, i)]
  BY Zenon DEF Branches
<1> HIDE DEF N
<1>3. T = {}
  <2>1. SUFFICES ASSUME T # {} PROVE FALSE
    OBVIOUS
  <2>2. PICK m \in T : \A n \in T : m <= n
    <3>1. T \in SUBSET Nat
      OBVIOUS
    <3> HIDE DEF T
    <3> QED BY <2>1, <3>1, LeastOf
  <2>3. m \in Nat /\ ~ \E g : UpTo(g, m)
    OBVIOUS
  <2>4. CASE m = 0
    <3> DEFINE z == [i \in 0 .. N |-> <<>>]
    <3>1. UpTo(z, 0)
      <4>1. <<>> \in Seq(BranchType)
        OBVIOUS
      <4> QED BY <1>1, <4>1
    <3> HIDE DEF z
    <3> QED BY <3>1, <2>3, <2>4
  <2>5. CASE m # 0
    <3>1. m - 1 \in Nat /\ m - 1 \notin T
      <4>1. m - 1 \in Nat /\ ~ (m <= m - 1)
        BY <2>3, <2>5
      <4> HIDE DEF T
      <4> QED BY <2>2, <4>1
    <3>2. PICK g : UpTo(g, m - 1)
      BY <3>1
    <3> DEFINE h == [i \in 0 .. N |-> IF i < m THEN g[i] ELSE Val(g, i)]
    <3>3. ASSUME NEW i \in 0 .. N, i <= m PROVE h[i] \in Seq(BranchType) /\ h[i] = Val(h, i)
      <4>1. CASE i = 0
        <5>1. h[i] = g[i] /\ g[i] = <<>>
          BY <3>2, <4>1, <2>3, <2>5, <3>1
        <5>2. <<>> \in Seq(BranchType)
          OBVIOUS
        <5> HIDE DEF h
        <5> QED BY <5>1, <5>2, <4>1
      <4>2. CASE i # 0
        <5>1. i - 1 \in 0 .. N /\ i - 1 < m /\ i - 1 <= m - 1 /\ i \in 1 .. N
          BY <4>2, <3>3, <2>3, <1>1
        <5>2. h[i - 1] = g[i - 1] /\ g[i - 1] \in Seq(BranchType)
          BY <5>1, <3>2
        <5>3. h[i] = Directive(g[i - 1], t[i], c)
          <6>1. CASE i < m
            <7>1. i <= m - 1
              BY <6>1, <2>3, <1>1
            <7>2. g[i] = Val(g, i)
              BY <7>1, <3>2
            <7> QED BY <7>2, <6>1, <4>2
          <6>2. CASE ~(i < m)
            BY <6>2, <4>2
          <6> QED BY <6>1, <6>2
        <5>4. t[i] \in LineType
          BY <5>1, <1>1
        <5>5. Directive(g[i - 1], t[i], c) \in Seq(BranchType)
          BY <5>2, <5>4, DirectiveType
        <5> HIDE DEF h
        <5> QED BY <5>2, <5>3, <5>5, <4>2
      <4> QED BY <4>1, <4>2
    <3>4. UpTo(h, m)
      <4> HIDE DEF h
      <4> QED BY <3>3
    <3> QED BY <2>3, <3>4
  <2> QED BY <2>4, <2>5
<1>4. PICK g : UpTo(g, N)
  BY <1>3, <1>1
<1> DEFINE h == [i \in 0 .. N |-> Val(g, i)]
<1>5. \A i \in 0 .. N : h[i] = g[i]
  BY <1>4, <1>1
<1>6. h = [i \in 0 .. N |-> Val(h, i)]
  <2>1. ASSUME NEW i \in 0 .. N PROVE Val(g, i) = Val(h, i)
    <3>1. i # 0 => i - 1 \in 0 .. N
      BY <1>1
    <3> HIDE DEF h
    <3> QED BY <3>1, <1>5
  <2> QED BY <2>1
<1>7. Branches(t, c) = [i \in 0 .. N |-> Val(Branches(t, c), i)]
  <2> HIDE DEF h
  <2> QED BY <1>6, <1>2, Zenon
<1> DEFINE G == Branches(t, c)
<1>8. \A i \in 0 .. N : G[i] = Val(G, i)
  BY <1>7
<1> HIDE DEF G
<1> DEFINE Q == {n \in Nat : n \in 0 .. N /\ G[n] \notin Seq(BranchType)}
<1>9. Q = {}
  <2>1. SUFFICES ASSUME Q # {} PROVE FALSE
    OBVIOUS
  <2>2. PICK m \in Q : \A n \in Q : m <= n
    <3>1. Q \in SUBSET Nat
      OBVIOUS
    <3> HIDE DEF Q
    <3> QED BY <2>1, <3>1, LeastOf
  <2>3. m \in 0 .. N /\ G[m] \notin Seq(BranchType)
    OBVIOUS
  <2>4. CASE m = 0
    <3>1. G[m] = <<>>
      BY <2>3, <2>4, <1>8
    <3>2. <<>> \in Seq(BranchType)
      OBVIOUS
    <3> HIDE DEF Q
    <3> QED BY <2>3, <3>1, <3>2
  <2>5. CASE m # 0
    <3>1. m - 1 \in 0 .. N /\ m - 1 \notin Q /\ m \in 1 .. N
      <4>1. m - 1 \in 0 .. N /\ ~ (m <= m - 1) /\ m \in 1 .. N
        BY <2>3, <2>5, <1>1
      <4> HIDE DEF Q
      <4> QED BY <2>2, <4>1
    <3>2. G[m - 1] \in Seq(BranchType)
      BY <3>1
    <3>3. G[m] = Directive(G[m - 1], t[m], c) /\ t[m] \in LineType
      BY <2>3, <2>5, <3>1, <1>8, <1>1
    <3> QED BY <3>2, <3>3, <2>3, DirectiveType
  <2> QED BY <2>4, <2>5
<1>10. \A i \in 0 .. N : G[i] \in Seq(BranchType)
  BY <1>9, <1>1
<1> QED BY <1>8, <1>10 DEF G, N

\* Between directives nothing opens or closes.
LEMMA BranchesRest ==
  ASSUME NEW t \in Seq(LineType), NEW c, NEW a \in 0 .. Len(t), NEW b \in a .. Len(t),
         \A i \in a + 1 .. b : ~IsDirective(t[i])
  PROVE  Branches(t, c)[b] = Branches(t, c)[a]
<1> DEFINE st == Branches(t, c)
           T  == {n \in Nat : n \in a .. b /\ st[n] # st[a]}
<1>1. Len(t) \in Nat /\ a \in Nat /\ b \in Nat
  OBVIOUS
<1>2. \A i \in 0 .. Len(t) : st[i] = IF i = 0 THEN <<>> ELSE Directive(st[i - 1], t[i], c)
  BY BranchesAre
<1> HIDE DEF st
<1>3. SUFFICES ASSUME st[b] # st[a] PROVE FALSE
  BY DEF st
<1>4. b \in T /\ T \subseteq Nat
  BY <1>1, <1>3
<1>5. PICK m \in T : \A n \in T : m <= n
  <2> HIDE DEF T
  <2> QED BY <1>4, LeastOf
<1>6. m \in Nat /\ m \in a .. b /\ st[m] # st[a] /\ m # a
  BY <1>5
<1>7. m - 1 \in a .. b /\ m - 1 \in Nat /\ m \in a + 1 .. b /\ m \in 1 .. Len(t)
  BY <1>1, <1>6
<1>8. m - 1 \notin T
  <2>1. ~ (m <= m - 1)
    BY <1>6
  <2> HIDE DEF T
  <2> QED BY <1>5, <2>1
<1>9. st[m - 1] = st[a]
  BY <1>7, <1>8
<1>10. st[m] = Directive(st[m - 1], t[m], c)
  BY <1>1, <1>2, <1>7
<1>11. Directive(st[m - 1], t[m], c) = st[m - 1]
  BY <1>7 DEF Directive, IsDirective
<1> QED BY <1>6, <1>9, <1>10, <1>11

\* Text v is what configuration c compiles of t; line x of it is line pt[x].
Compiled(t, c, v, pt) ==
  /\ t \in Seq(LineType) /\ v \in Seq(LineType) /\ pt \in [DOMAIN v -> Active(t, c)]
  /\ \A x \in DOMAIN v : v[x] = t[pt[x]]
  /\ \A i \in Active(t, c) : \E x \in DOMAIN v : pt[x] = i
  /\ \A x, y \in DOMAIN v : x < y => pt[x] < pt[y]

LEMMA PreprocessIs ==
  ASSUME NEW t \in Seq(LineType), NEW c
  PROVE  \E pt : Compiled(t, c, Preprocess(t, c), pt)
<1> DEFINE on == Active(t, c)
           z  == [i \in DOMAIN t |-> IF i \in on THEN <<t[i]>> ELSE <<>>]
           v  == FlattenSeq(z)
<1>1. DOMAIN t = 1 .. Len(t) /\ Len(t) \in Nat /\ \A i \in DOMAIN t : t[i] \in LineType
  OBVIOUS
<1>2. on \subseteq DOMAIN t
  BY DEF Active
<1>3. Preprocess(t, c) = v
  BY DEF Preprocess
<1> HIDE DEF on
<1>4. \A i \in DOMAIN t : z[i] \in Seq(LineType)
  BY <1>1
<1>5. z \in Seq(Seq(LineType))
  BY <1>1, <1>4
<1>6. \A i \in DOMAIN z : /\ i \in DOMAIN t
                          /\ i \in on => DOMAIN z[i] = {1} /\ z[i][1] = t[i]
                          /\ i \notin on => DOMAIN z[i] = {}
  <2> SUFFICES ASSUME NEW i \in DOMAIN t
               PROVE  /\ i \in on => DOMAIN z[i] = {1} /\ z[i][1] = t[i]
                      /\ i \notin on => DOMAIN z[i] = {}
    OBVIOUS
  <2>1. PICK l : l = t[i]
    OBVIOUS
  <2>2. DOMAIN <<l>> = {1} /\ <<l>>[1] = l /\ DOMAIN <<>> = {}
    OBVIOUS
  <2>3. z[i] = IF i \in on THEN <<l>> ELSE <<>>
    BY <2>1
  <2> HIDE DEF z
  <2> QED BY <2>1, <2>2, <2>3
<1>7. DOMAIN z = DOMAIN t
  OBVIOUS
<1> HIDE DEF z
<1>8. v \in Seq(LineType) /\ \E at, nth : Places(z, v, at, nth)
  BY <1>5, FlattenPlaces
<1>9. PICK at, nth : Places(z, v, at, nth)
  BY <1>8
<1> HIDE DEF v
<1>10. \A x \in DOMAIN v : at[x] \in on /\ nth[x] = 1 /\ v[x] = t[at[x]]
  BY <1>6, <1>9 DEF Places
<1>11. \A i \in on : \E x \in DOMAIN v : at[x] = i
  <2> SUFFICES ASSUME NEW i \in on PROVE \E x \in DOMAIN v : at[x] = i
    OBVIOUS
  <2>1. i \in DOMAIN z /\ 1 \in DOMAIN z[i]
    BY <1>2, <1>6, <1>7
  <2> QED BY <2>1, <1>9 DEF Places
<1>12. \A x, y \in DOMAIN v : x < y => at[x] < at[y]
  <2> SUFFICES ASSUME NEW x \in DOMAIN v, NEW y \in DOMAIN v, x < y PROVE at[x] < at[y]
    OBVIOUS
  <2>1. at[x] < at[y] \/ (at[x] = at[y] /\ nth[x] < nth[y])
    BY <1>9 DEF Places
  <2>2. nth[x] = 1 /\ nth[y] = 1
    BY <1>10
  <2> QED BY <2>1, <2>2
<1>13. at \in [DOMAIN v -> on]
  <2>1. at \in [DOMAIN v -> DOMAIN z]
    BY <1>9 DEF Places
  <2> QED BY <2>1, <1>10
<1>14. Compiled(t, c, v, at)
  BY <1>8, <1>10, <1>11, <1>12, <1>13 DEF Compiled, on
<1> QED BY <1>3, <1>14

LEMMA CompiledOrder ==
  ASSUME NEW t, NEW c, NEW v, NEW pt, Compiled(t, c, v, pt),
         NEW x \in DOMAIN v, NEW y \in DOMAIN v
  PROVE  /\ x \in Nat /\ y \in Nat /\ pt[x] \in Nat /\ pt[y] \in Nat
         /\ pt[x] \in DOMAIN t /\ pt[x] \in Active(t, c) /\ ~IsDirective(t[pt[x]])
         /\ x < y <=> pt[x] < pt[y]
         /\ x = y <=> pt[x] = pt[y]
<1>1. /\ t \in Seq(LineType) /\ v \in Seq(LineType)
      /\ pt \in [DOMAIN v -> Active(t, c)] /\ Active(t, c) \subseteq DOMAIN t
  BY DEF Compiled, Active
<1>2. x \in Nat /\ y \in Nat /\ pt[x] \in Nat /\ pt[y] \in Nat
  BY <1>1
<1>3. ~IsDirective(t[pt[x]])
  BY <1>1 DEF Active
<1>4. (x < y => pt[x] < pt[y]) /\ (y < x => pt[y] < pt[x])
  BY DEF Compiled
<1> QED BY <1>1, <1>2, <1>3, <1>4

LEMMA CompiledLines ==
  ASSUME NEW t, NEW c, NEW v, NEW pt, Compiled(t, c, v, pt)
  PROVE  /\ \A x \in DOMAIN v : /\ x \in Nat /\ pt[x] \in Nat /\ pt[x] \in DOMAIN t
                                /\ pt[x] \in Active(t, c) /\ ~IsDirective(t[pt[x]]) /\ v[x] = t[pt[x]]
         /\ \A x, y \in DOMAIN v : (x < y <=> pt[x] < pt[y]) /\ (x = y <=> pt[x] = pt[y])
<1>1. \A x, y \in DOMAIN v : (x < y <=> pt[x] < pt[y]) /\ (x = y <=> pt[x] = pt[y])
  BY CompiledOrder
<1>2. ASSUME NEW x \in DOMAIN v
      PROVE  /\ x \in Nat /\ pt[x] \in Nat /\ pt[x] \in DOMAIN t
             /\ pt[x] \in Active(t, c) /\ ~IsDirective(t[pt[x]]) /\ v[x] = t[pt[x]]
  <2>1. v[x] = t[pt[x]]
    BY DEF Compiled
  <2> QED BY <2>1, CompiledOrder
<1> QED BY <1>1, <1>2

\* A line is as far down as there are compiled lines down to it.
LEMMA PlaceIs ==
  ASSUME NEW t, NEW c, NEW v, NEW pt, Compiled(t, c, v, pt), NEW x \in DOMAIN v
  PROVE  Cardinality({j \in Active(t, c) : j <= pt[x]}) = x
<1> DEFINE A == 1 .. x
           B == {j \in Active(t, c) : j <= pt[x]}
           f == [y \in A |-> pt[y]]
<1>1. v \in Seq(LineType) /\ x \in Nat /\ A \subseteq DOMAIN v /\ pt[x] \in Nat
  <2>1. v \in Seq(LineType)
    BY DEF Compiled
  <2> QED BY <2>1, CompiledOrder
<1>2. ASSUME NEW y \in A PROVE f[y] \in B
  <2>1. y \in DOMAIN v /\ (y = x \/ y < x)
    BY <1>1
  <2>2. pt[y] \in Active(t, c) /\ pt[y] <= pt[x]
    BY <2>1, <1>1, CompiledOrder
  <2> QED BY <2>2
<1>3. f \in [A -> B]
  BY <1>2
<1>4. \A y, w \in A : f[y] = f[w] => y = w
  BY <1>1, CompiledOrder
<1>5. ASSUME NEW j \in B PROVE \E y \in A : f[y] = j
  <2>1. PICK y \in DOMAIN v : pt[y] = j
    BY DEF Compiled
  <2>2. y \in Nat /\ y >= 1
    BY <1>1
  <2>3. ~(x < y)
    <3>1. pt[y] <= pt[x] /\ pt[y] \in Nat
      BY <2>1, <1>1, CompiledOrder
    <3> QED BY <3>1, <1>1, CompiledOrder
  <2> QED BY <1>1, <2>1, <2>2, <2>3
<1>6. f \in Injection(A, B) /\ f \in Surjection(A, B)
  <2> HIDE DEF f
  <2> QED BY <1>3, <1>4, <1>5 DEF Injection, Surjection, IsInjective
<1>7. ExistsBijection(A, B)
  <2> HIDE DEF f
  <2> QED BY <1>6 DEF ExistsBijection, Bijection
<1>8. IsFiniteSet(A) /\ Cardinality(A) = x
  BY <1>1, FS_Interval
<1> QED BY <1>7, <1>8, FS_Bijection

-----------------------------------------------------------------------------
(* What a pass puts in opens and closes its own #if blocks.                *)

\* How deep line l leads inside a run of lines.
StepDepth(l, m, n) ==
  /\ l.k \notin {"elif", "else"}
  /\ l.k = "if" => n = m + 1
  /\ l.k = "endif" => m = n + 1
  /\ l.k \notin {"if", "endif"} => n = m
Depths(s, d) ==
  /\ d \in [0 .. Len(s) -> Nat] /\ d[0] = 0 /\ d[Len(s)] = 0
  /\ \A j \in 1 .. Len(s) : StepDepth(s[j], d[j - 1], d[j])
Block(s) == \E d : Depths(s, d)

\* Stack x is stack y with n more blocks open.
Extends(x, y, n) ==
  /\ x \in Seq(BranchType) /\ y \in Seq(BranchType) /\ n \in Nat /\ Len(x) = Len(y) + n
  /\ \A j \in 1 .. Len(y) : x[j] = y[j]

LEMMA ExtendsByNone ==
  ASSUME NEW x, NEW y, Extends(x, y, 0)
  PROVE  x = y
BY DEF Extends

LEMMA ExtendStep ==
  ASSUME NEW x, NEW y, NEW m \in Nat, NEW n \in Nat, Extends(x, y, m),
         NEW l \in LineType, StepDepth(l, m, n), NEW c
  PROVE  Extends(Directive(x, l, c), y, n)
<1>1. /\ x \in Seq(BranchType) /\ y \in Seq(BranchType) /\ Len(x) = Len(y) + m
      /\ \A j \in 1 .. Len(y) : x[j] = y[j]
  BY DEF Extends
<1>2. Directive(x, l, c) \in Seq(BranchType)
  BY <1>1, DirectiveType
<1>3. CASE l.k = "if"
  <2> DEFINE b == [on |-> c \in l.cond, done |-> c \in l.cond]
  <2>1. Directive(x, l, c) = Append(x, b)
    BY <1>3 DEF Directive
  <2>2. n = m + 1
    BY <1>3 DEF StepDepth
  <2> HIDE DEF b
  <2>3. Len(Append(x, b)) = Len(y) + n /\ \A j \in 1 .. Len(y) : Append(x, b)[j] = y[j]
    BY <1>1, <2>2
  <2> QED BY <1>1, <1>2, <2>1, <2>3 DEF Extends
<1>4. CASE l.k = "endif"
  <2>1. Directive(x, l, c) = SubSeq(x, 1, Len(x) - 1)
    BY <1>4 DEF Directive
  <2>2. m = n + 1
    BY <1>4 DEF StepDepth
  <2>3. Len(SubSeq(x, 1, Len(x) - 1)) = Len(y) + n /\ \A j \in 1 .. Len(y) : SubSeq(x, 1, Len(x) - 1)[j] = y[j]
    BY <1>1, <2>2
  <2> QED BY <1>1, <1>2, <2>1, <2>3 DEF Extends
<1>5. CASE l.k \notin {"if", "endif"}
  <2>1. n = m /\ l.k \notin {"elif", "else"}
    BY <1>5 DEF StepDepth
  <2>2. Directive(x, l, c) = x
    BY <1>5, <2>1 DEF Directive
  <2> QED BY <1>1, <2>1, <2>2 DEF Extends
<1> QED BY <1>3, <1>4, <1>5

\* Line q of u stems from line at[q] of t and stands under D[q] more blocks;
\* the directives of t are those of u that stand alone at their places.
KeepsBranches(t, u, at, D) ==
  /\ t \in Seq(LineType) /\ u \in Seq(LineType)
  /\ at \in [DOMAIN u -> DOMAIN t] /\ D \in [0 .. Len(u) -> Nat] /\ D[0] = 0
  /\ \A p, q \in DOMAIN u : p < q => at[p] <= at[q]
  /\ \A i \in DOMAIN t : IsDirective(t[i]) => \E q \in DOMAIN u : at[q] = i
  /\ \A q \in DOMAIN u : IsDirective(t[at[q]]) =>
        /\ u[q].k = t[at[q]].k /\ u[q].cond = t[at[q]].cond /\ D[q - 1] = 0 /\ D[q] = 0
        /\ \A p \in DOMAIN u : at[p] = at[q] => p = q
  /\ \A q \in DOMAIN u : ~IsDirective(t[at[q]]) => StepDepth(u[q], D[q - 1], D[q])

LEMMA BranchesFollow ==
  ASSUME NEW t, NEW u, NEW at, NEW D, KeepsBranches(t, u, at, D), NEW c
  PROVE  \A q \in DOMAIN u : Extends(Branches(u, c)[q], Branches(t, c)[at[q]], D[q])
<1> DEFINE st == Branches(t, c)
           su == Branches(u, c)
           a(q) == IF q = 0 THEN 0 ELSE at[q]
           T == {q \in Nat : q \in 0 .. Len(u) /\ ~Extends(su[q], st[a(q)], D[q])}
<1>1. /\ t \in Seq(LineType) /\ u \in Seq(LineType) /\ at \in [DOMAIN u -> DOMAIN t]
      /\ D \in [0 .. Len(u) -> Nat] /\ D[0] = 0 /\ DOMAIN u = 1 .. Len(u) /\ DOMAIN t = 1 .. Len(t)
      /\ Len(u) \in Nat /\ Len(t) \in Nat
  <2>1. /\ t \in Seq(LineType) /\ u \in Seq(LineType) /\ at \in [DOMAIN u -> DOMAIN t]
        /\ D \in [0 .. Len(u) -> Nat] /\ D[0] = 0
    BY DEF KeepsBranches
  <2> QED BY <2>1
<1>2. /\ \A i \in 0 .. Len(t) : st[i] = IF i = 0 THEN <<>> ELSE Directive(st[i - 1], t[i], c)
      /\ \A i \in 0 .. Len(t) : st[i] \in Seq(BranchType)
  BY <1>1, BranchesAre
<1>3. /\ \A q \in 0 .. Len(u) : su[q] = IF q = 0 THEN <<>> ELSE Directive(su[q - 1], u[q], c)
      /\ \A q \in 0 .. Len(u) : su[q] \in Seq(BranchType)
  BY <1>1, BranchesAre
<1>4. \A x \in 0 .. Len(t) : \A y \in x .. Len(t) :
        (\A i \in x + 1 .. y : ~IsDirective(t[i])) => st[y] = st[x]
  BY <1>1, BranchesRest
<1> HIDE DEF st, su
<1>5. T = {}
  <2>1. SUFFICES ASSUME T # {} PROVE FALSE
    OBVIOUS
  <2>2. PICK q \in T : \A n \in T : q <= n
    <3>1. T \in SUBSET Nat
      OBVIOUS
    <3> HIDE DEF T
    <3> QED BY <2>1, <3>1, LeastOf
  <2>3. q \in 0 .. Len(u) /\ q \in Nat /\ ~Extends(su[q], st[a(q)], D[q])
    OBVIOUS
  <2>4. q # 0
    <3>1. st[0] = <<>> /\ su[0] = <<>> /\ <<>> \in Seq(BranchType) /\ Len(<<>>) = 0
      BY <1>1, <1>2, <1>3
    <3>2. Extends(<<>>, <<>>, 0)
      BY <3>1 DEF Extends
    <3> QED BY <1>1, <2>3, <3>1, <3>2
  <2>5. q \in DOMAIN u /\ q - 1 \in 0 .. Len(u) /\ q - 1 \in Nat /\ at[q] \in DOMAIN t /\ at[q] \in Nat
    BY <1>1, <2>3, <2>4
  <2>6. Extends(su[q - 1], st[a(q - 1)], D[q - 1])
    <3>1. q - 1 \notin T
      <4>1. ~(q <= q - 1)
        BY <2>3
      <4> HIDE DEF T
      <4> QED BY <2>2, <4>1
    <3> QED BY <2>5, <3>1
  <2>7. a(q - 1) \in 0 .. Len(t) /\ a(q - 1) <= at[q] /\ D[q - 1] \in Nat /\ D[q] \in Nat
    <3>1. CASE q = 1
      BY <1>1, <2>5, <3>1
    <3>2. CASE q # 1
      <4>1. q - 1 \in DOMAIN u /\ q - 1 < q /\ q - 1 # 0
        BY <1>1, <2>5, <3>2
      <4>2. at[q - 1] <= at[q] /\ at[q - 1] \in DOMAIN t
        BY <2>5, <4>1 DEF KeepsBranches
      <4> QED BY <1>1, <2>5, <4>1, <4>2
    <3> QED BY <3>1, <3>2
  <2> DEFINE b == a(q - 1)
  <2>8. b \in Nat /\ b <= at[q] /\ b \in 0 .. Len(t)
    BY <1>1, <2>7
  <2>9. \A i \in DOMAIN t : b < i /\ i < at[q] => ~IsDirective(t[i])
    <3> SUFFICES ASSUME NEW i \in DOMAIN t, b < i, i < at[q], IsDirective(t[i]) PROVE FALSE
      OBVIOUS
    <3>1. PICK p \in DOMAIN u : at[p] = i
      BY DEF KeepsBranches
    <3>2. p < q
      <4>1. q < p => at[q] <= at[p]
        BY <2>5 DEF KeepsBranches
      <4> QED BY <1>1, <2>5, <3>1, <4>1
    <3>3. q - 1 # 0 /\ q - 1 \in DOMAIN u /\ (p = q - 1 \/ p < q - 1)
      BY <1>1, <2>5, <3>2
    <3>4. at[p] <= at[q - 1]
      <4>1. p < q - 1 => at[p] <= at[q - 1]
        BY <3>3 DEF KeepsBranches
      <4> QED BY <1>1, <3>3, <4>1
    <3> QED BY <1>1, <3>1, <3>3, <3>4
  <2> HIDE DEF b
  <2>10. u[q] \in LineType
    BY <1>1, <2>5
  <2>11. su[q] = Directive(su[q - 1], u[q], c)
    BY <1>3, <2>3, <2>4
  <2>12. a(q) = at[q]
    BY <2>4
  <2>13. CASE IsDirective(t[at[q]])
    <3>1. /\ u[q].k = t[at[q]].k /\ u[q].cond = t[at[q]].cond /\ D[q - 1] = 0 /\ D[q] = 0
          /\ \A p \in DOMAIN u : at[p] = at[q] => p = q
      BY <2>5, <2>13 DEF KeepsBranches
    <3>2. b # at[q]
      <4>1. b = at[q] => q - 1 # 0 /\ q - 1 \in DOMAIN u /\ at[q - 1] = at[q]
        BY <1>1, <2>5 DEF b
      <4> QED BY <2>5, <3>1, <4>1
    <3>3. st[at[q] - 1] = st[b]
      <4>1. at[q] - 1 \in b .. Len(t) /\ at[q] - 1 \in Nat
        BY <1>1, <2>5, <2>8, <3>2
      <4>2. \A i \in b + 1 .. at[q] - 1 : ~IsDirective(t[i])
        BY <1>1, <2>5, <2>8, <2>9
      <4> QED BY <1>4, <2>8, <4>1, <4>2
    <3>4. su[q - 1] = st[at[q] - 1]
      BY <2>6, <3>1, <3>3, ExtendsByNone DEF b
    <3>5. st[at[q]] = Directive(st[at[q] - 1], t[at[q]], c)
      BY <1>1, <1>2, <2>5
    <3>6. Directive(su[q - 1], u[q], c) = Directive(st[at[q] - 1], t[at[q]], c)
      BY <3>1, <3>4 DEF Directive
    <3>7. st[at[q]] \in Seq(BranchType)
      BY <1>1, <1>2, <2>5
    <3>8. Extends(st[at[q]], st[at[q]], 0)
      BY <3>7 DEF Extends
    <3> QED BY <2>3, <2>11, <2>12, <3>1, <3>5, <3>6, <3>8
  <2>14. CASE ~IsDirective(t[at[q]])
    <3>1. StepDepth(u[q], D[q - 1], D[q])
      BY <2>5, <2>14 DEF KeepsBranches
    <3>2. st[at[q]] = st[b]
      <4>1. \A i \in b + 1 .. at[q] : ~IsDirective(t[i])
        BY <1>1, <2>5, <2>8, <2>9, <2>14
      <4>2. at[q] \in b .. Len(t)
        BY <1>1, <2>5, <2>8
      <4> QED BY <1>4, <2>8, <4>1, <4>2
    <3>3. Extends(su[q - 1], st[at[q]], D[q - 1])
      BY <2>6, <3>2 DEF b
    <3>4. Extends(Directive(su[q - 1], u[q], c), st[at[q]], D[q])
      BY <2>7, <2>10, <3>1, <3>3, ExtendStep
    <3> QED BY <2>3, <2>11, <2>12, <3>4
  <2> QED BY <2>13, <2>14
<1>6. ASSUME NEW q \in DOMAIN u PROVE Extends(su[q], st[at[q]], D[q])
  <2>1. q \in Nat /\ q \in 0 .. Len(u) /\ a(q) = at[q]
    BY <1>1
  <2> QED BY <1>5, <2>1
<1> QED BY <1>6 DEF st, su

\* So a line is compiled only where the line it stems from is, and one that
\* stands under no block of its own is compiled wherever that is.
LEMMA ActiveFollows ==
  ASSUME NEW t, NEW u, NEW at, NEW D, KeepsBranches(t, u, at, D), NEW c, NEW q \in DOMAIN u
  PROVE  /\ q \in Active(u, c) => at[q] \in Active(t, c) /\ ~IsDirective(u[q])
         /\ D[q] = 0 /\ ~IsDirective(u[q]) /\ at[q] \in Active(t, c) => q \in Active(u, c)
<1> DEFINE x == Branches(u, c)[q]
           y == Branches(t, c)[at[q]]
<1>1. Extends(x, y, D[q])
  BY BranchesFollow
<1>2. at[q] \in DOMAIN t /\ D[q] \in Nat
  <2>1. u \in Seq(LineType) /\ at \in [DOMAIN u -> DOMAIN t] /\ D \in [0 .. Len(u) -> Nat]
    BY DEF KeepsBranches
  <2> QED BY <2>1
<1>3. IsDirective(t[at[q]]) => IsDirective(u[q])
  BY DEF KeepsBranches, IsDirective
<1>4. q \in Active(u, c) <=> ~IsDirective(u[q]) /\ \A b \in DOMAIN x : x[b].on
  BY DEF Active
<1>5. at[q] \in Active(t, c) <=> ~IsDirective(t[at[q]]) /\ \A b \in DOMAIN y : y[b].on
  BY <1>2 DEF Active
<1> HIDE DEF x, y
<1>6. DOMAIN y \subseteq DOMAIN x /\ \A b \in DOMAIN y : x[b] = y[b]
  <2>1. /\ x \in Seq(BranchType) /\ y \in Seq(BranchType) /\ Len(x) = Len(y) + D[q]
        /\ \A j \in 1 .. Len(y) : x[j] = y[j]
    BY <1>1 DEF Extends
  <2>2. DOMAIN x = 1 .. Len(x) /\ DOMAIN y = 1 .. Len(y) /\ Len(y) <= Len(x)
    BY <1>2, <2>1
  <2> QED BY <2>1, <2>2
<1>7. D[q] = 0 => x = y
  BY <1>1, ExtendsByNone
<1>8. ~IsDirective(u[q]) => ~IsDirective(t[at[q]])
  BY <1>3
<1> QED BY <1>3, <1>4, <1>5, <1>6, <1>7

\* What stands in front of a line of a concatenation.
LEMMA PlacesStep ==
  ASSUME NEW S, NEW s \in Seq(Seq(S)), NEW u \in Seq(S), NEW at, NEW nth, Places(s, u, at, nth),
         NEW q \in DOMAIN u
  PROVE  /\ q \in Nat /\ q >= 1 /\ at[q] \in DOMAIN s /\ at[q] \in Nat
         /\ nth[q] \in 1 .. Len(s[at[q]]) /\ Len(s[at[q]]) \in Nat
         /\ nth[q] # 1 => q - 1 \in DOMAIN u /\ at[q - 1] = at[q] /\ nth[q - 1] = nth[q] - 1
         /\ nth[q] = 1 /\ q # 1 =>
              q - 1 \in DOMAIN u /\ at[q - 1] < at[q] /\ nth[q - 1] = Len(s[at[q - 1]])
<1>1. /\ DOMAIN u = 1 .. Len(u) /\ Len(u) \in Nat /\ DOMAIN s = 1 .. Len(s) /\ Len(s) \in Nat
      /\ \A i \in DOMAIN s : Len(s[i]) \in Nat /\ DOMAIN s[i] = 1 .. Len(s[i])
  OBVIOUS
<1>2. \A p \in DOMAIN u : at[p] \in DOMAIN s /\ at[p] \in Nat /\ nth[p] \in 1 .. Len(s[at[p]]) /\ nth[p] \in Nat
  BY <1>1 DEF Places
<1>3. ASSUME NEW p \in DOMAIN u, NEW r \in DOMAIN u, p < r
      PROVE  at[p] <= at[r] /\ (at[p] = at[r] => nth[p] < nth[r])
  <2>1. at[p] < at[r] \/ (at[p] = at[r] /\ nth[p] < nth[r])
    BY <1>3 DEF Places
  <2>2. at[p] \in Nat /\ at[r] \in Nat
    BY <1>2
  <2> QED BY <2>1, <2>2
<1>4. ASSUME NEW i \in DOMAIN s, NEW j \in 1 .. Len(s[i]) PROVE \E p \in DOMAIN u : at[p] = i /\ nth[p] = j
  <2>1. j \in DOMAIN s[i]
    BY <1>1
  <2> QED BY <2>1 DEF Places
<1>5. ASSUME nth[q] # 1 PROVE q - 1 \in DOMAIN u /\ at[q - 1] = at[q] /\ nth[q - 1] = nth[q] - 1
  <2>1. at[q] \in DOMAIN s /\ nth[q] - 1 \in 1 .. Len(s[at[q]])
    BY <1>1, <1>2, <1>5
  <2>2. PICK p \in DOMAIN u : at[p] = at[q] /\ nth[p] = nth[q] - 1
    BY <1>4, <2>1
  <2>3. p < q
    <3>1. nth[p] \in Nat /\ nth[q] \in Nat /\ nth[p] < nth[q]
      BY <1>2, <2>2
    <3>2. q < p => nth[q] < nth[p]
      BY <1>3, <2>2
    <3> QED BY <1>1, <3>1, <3>2
  <2>4. q - 1 \in DOMAIN u /\ (p = q - 1 \/ p < q - 1) /\ q - 1 < q
    BY <1>1, <2>3
  <2>5. ASSUME p < q - 1 PROVE FALSE
    <3>1. at[p] <= at[q - 1] /\ at[q - 1] <= at[q] /\ at[p] \in Nat /\ at[q - 1] \in Nat
      BY <1>2, <1>3, <2>4, <2>5
    <3>2. at[q - 1] = at[p] /\ at[q - 1] = at[q]
      BY <2>2, <3>1
    <3>3. nth[p] < nth[q - 1] /\ nth[q - 1] < nth[q]
      BY <1>3, <2>4, <2>5, <3>2
    <3>4. nth[p] \in Nat /\ nth[q - 1] \in Nat /\ nth[q] \in Nat
      BY <1>2, <2>4
    <3> QED BY <2>2, <3>3, <3>4
  <2> QED BY <2>2, <2>4, <2>5
<1>6. ASSUME nth[q] = 1, q # 1
      PROVE  q - 1 \in DOMAIN u /\ at[q - 1] < at[q] /\ nth[q - 1] = Len(s[at[q - 1]])
  <2>1. q - 1 \in DOMAIN u /\ q - 1 < q
    BY <1>1, <1>6
  <2>2. at[q - 1] < at[q]
    <3>1. at[q - 1] <= at[q] /\ (at[q - 1] = at[q] => nth[q - 1] < nth[q])
      BY <1>3, <2>1
    <3>2. nth[q - 1] >= 1 /\ nth[q - 1] \in Nat /\ at[q - 1] \in Nat /\ at[q] \in Nat
      BY <1>2, <2>1
    <3> QED BY <1>6, <3>1, <3>2
  <2>3. SUFFICES ASSUME nth[q - 1] # Len(s[at[q - 1]]) PROVE FALSE
    BY <2>1, <2>2
  <2>4. at[q - 1] \in DOMAIN s /\ nth[q - 1] + 1 \in 1 .. Len(s[at[q - 1]])
    BY <1>1, <1>2, <2>1, <2>3
  <2>5. PICK p \in DOMAIN u : at[p] = at[q - 1] /\ nth[p] = nth[q - 1] + 1
    BY <1>4, <2>4
  <2>6. p # q
    BY <1>2, <2>2, <2>5
  <2>7. ~(q < p)
    <3>1. q < p => at[q] <= at[p]
      BY <1>3
    <3>2. at[q] \in Nat /\ at[p] \in Nat
      BY <1>2
    <3> QED BY <2>2, <2>5, <3>1, <3>2
  <2>8. p = q - 1 \/ p < q - 1
    BY <1>1, <2>6, <2>7
  <2>9. nth[p] \in Nat /\ nth[q - 1] \in Nat
    BY <1>2, <2>1
  <2>10. p < q - 1 => nth[p] < nth[q - 1]
    BY <1>3, <2>1, <2>5
  <2> QED BY <2>5, <2>8, <2>9, <2>10
<1> QED BY <1>1, <1>2, <1>5, <1>6

\* A pass that puts in whole blocks, and none at a directive.
LEMMA PiecesKeepBranches ==
  ASSUME NEW t \in Seq(LineType), NEW s \in Seq(Seq(LineType)), NEW u \in Seq(LineType),
         NEW at, NEW nth, Places(s, u, at, nth),
         DOMAIN t \subseteq DOMAIN s, \A i \in DOMAIN s \ DOMAIN t : s[i] = <<>>,
         \A i \in DOMAIN t :
            IF IsDirective(t[i]) THEN Len(s[i]) = 1 /\ s[i][1].k = t[i].k /\ s[i][1].cond = t[i].cond
                                 ELSE Block(s[i])
  PROVE  \E D : /\ KeepsBranches(t, u, at, D)
                /\ \A q \in DOMAIN u : nth[q] = Len(s[at[q]]) => D[q] = 0
<1> DEFINE dd == [i \in DOMAIN t |-> CHOOSE d : Depths(s[i], d)]
           D  == [q \in 0 .. Len(u) |->
                    IF q = 0 \/ IsDirective(t[at[q]]) THEN 0 ELSE dd[at[q]][nth[q]]]
<1>1. /\ DOMAIN u = 1 .. Len(u) /\ Len(u) \in Nat /\ DOMAIN t = 1 .. Len(t) /\ Len(t) \in Nat
      /\ DOMAIN s = 1 .. Len(s) /\ Len(s) \in Nat
  OBVIOUS
<1>2. \A q \in DOMAIN u : at[q] \in DOMAIN t /\ at[q] \in Nat /\ nth[q] \in 1 .. Len(s[at[q]])
                          /\ nth[q] \in Nat /\ Len(s[at[q]]) \in Nat /\ u[q] = s[at[q]][nth[q]]
  <2> SUFFICES ASSUME NEW q \in DOMAIN u
               PROVE  /\ at[q] \in DOMAIN t /\ at[q] \in Nat /\ nth[q] \in 1 .. Len(s[at[q]])
                      /\ nth[q] \in Nat /\ Len(s[at[q]]) \in Nat /\ u[q] = s[at[q]][nth[q]]
    OBVIOUS
  <2>1. at[q] \in DOMAIN s /\ at[q] \in Nat /\ nth[q] \in 1 .. Len(s[at[q]]) /\ Len(s[at[q]]) \in Nat
    BY PlacesStep
  <2>2. at[q] \in DOMAIN t
    <3>1. Len(<<>>) = 0
      OBVIOUS
    <3> QED BY <2>1, <3>1
  <2> QED BY <2>1, <2>2 DEF Places
<1>3. \A i \in DOMAIN t : ~IsDirective(t[i]) => Depths(s[i], dd[i])
  BY DEF Block
<1> HIDE DEF dd
<1>4. ASSUME NEW q \in DOMAIN u, ~IsDirective(t[at[q]])
      PROVE  /\ dd[at[q]][0] = 0 /\ dd[at[q]][Len(s[at[q]])] = 0
             /\ dd[at[q]][nth[q]] \in Nat
             /\ StepDepth(u[q], dd[at[q]][nth[q] - 1], dd[at[q]][nth[q]])
  <2>1. at[q] \in DOMAIN t /\ nth[q] \in 1 .. Len(s[at[q]]) /\ nth[q] \in 0 .. Len(s[at[q]])
        /\ u[q] = s[at[q]][nth[q]]
    BY <1>2
  <2>2. Depths(s[at[q]], dd[at[q]])
    BY <1>3, <1>4, <2>1
  <2> QED BY <2>1, <2>2 DEF Depths
<1>5. D \in [0 .. Len(u) -> Nat] /\ D[0] = 0
  <2>1. ASSUME NEW q \in 0 .. Len(u) PROVE D[q] \in Nat
    <3>1. CASE q = 0 \/ IsDirective(t[at[q]])
      BY <3>1
    <3>2. CASE ~(q = 0 \/ IsDirective(t[at[q]]))
      <4>1. q \in DOMAIN u
        BY <1>1, <3>2
      <4> QED BY <1>4, <3>2, <4>1
    <3> QED BY <3>1, <3>2
  <2>2. D[0] = 0 /\ D = [q \in 0 .. Len(u) |-> D[q]]
    BY <1>1
  <2> HIDE DEF D
  <2> QED BY <2>1, <2>2
<1>6. \A q \in DOMAIN u : D[q] = IF IsDirective(t[at[q]]) THEN 0 ELSE dd[at[q]][nth[q]]
  BY <1>1
<1> HIDE DEF D
<1>7. \A q \in DOMAIN u : nth[q] = Len(s[at[q]]) => D[q] = 0
  BY <1>4, <1>6
<1>8. ASSUME NEW q \in DOMAIN u, nth[q] = 1 PROVE D[q - 1] = 0
  <2>1. CASE q = 1
    BY <1>5, <2>1
  <2>2. CASE q # 1
    <3>1. q - 1 \in DOMAIN u /\ nth[q - 1] = Len(s[at[q - 1]])
      BY <1>8, <2>2, PlacesStep
    <3> QED BY <1>7, <3>1
  <2> QED BY <2>1, <2>2
<1>9. ASSUME NEW q \in DOMAIN u, IsDirective(t[at[q]])
      PROVE  /\ u[q].k = t[at[q]].k /\ u[q].cond = t[at[q]].cond /\ D[q - 1] = 0 /\ D[q] = 0
             /\ \A p \in DOMAIN u : at[p] = at[q] => p = q
  <2>1. Len(s[at[q]]) = 1 /\ s[at[q]][1].k = t[at[q]].k /\ s[at[q]][1].cond = t[at[q]].cond
    BY <1>2, <1>9
  <2>2. nth[q] = 1 /\ u[q] = s[at[q]][1]
    BY <1>2, <2>1
  <2>3. D[q - 1] = 0 /\ D[q] = 0
    BY <1>6, <1>8, <1>9, <2>2
  <2>4. ASSUME NEW p \in DOMAIN u, at[p] = at[q] PROVE p = q
    <3>1. nth[p] = 1
      BY <1>2, <2>1, <2>4
    <3>2. /\ p < q => at[p] < at[q] \/ nth[p] < nth[q]
          /\ q < p => at[q] < at[p] \/ nth[q] < nth[p]
      BY DEF Places
    <3>3. at[p] \in Nat
      BY <1>2
    <3> QED BY <1>1, <2>2, <2>4, <3>1, <3>2, <3>3
  <2> QED BY <2>1, <2>2, <2>3, <2>4
<1>10. ASSUME NEW q \in DOMAIN u, ~IsDirective(t[at[q]]) PROVE StepDepth(u[q], D[q - 1], D[q])
  <2>1. D[q] = dd[at[q]][nth[q]] /\ StepDepth(u[q], dd[at[q]][nth[q] - 1], dd[at[q]][nth[q]])
    BY <1>4, <1>6, <1>10
  <2>2. D[q - 1] = dd[at[q]][nth[q] - 1]
    <3>1. CASE nth[q] = 1
      BY <1>4, <1>8, <1>10, <3>1
    <3>2. CASE nth[q] # 1
      <4>1. q - 1 \in DOMAIN u /\ at[q - 1] = at[q] /\ nth[q - 1] = nth[q] - 1
        BY <3>2, PlacesStep
      <4> QED BY <1>6, <1>10, <4>1
    <3> QED BY <3>1, <3>2
  <2> QED BY <2>1, <2>2
<1>11. at \in [DOMAIN u -> DOMAIN t]
  <2>1. at \in [DOMAIN u -> DOMAIN s]
    BY DEF Places
  <2> QED BY <1>2, <2>1
<1>12. ASSUME NEW p \in DOMAIN u, NEW q \in DOMAIN u, p < q PROVE at[p] <= at[q]
  <2>1. at[p] < at[q] \/ at[p] = at[q]
    BY <1>12 DEF Places
  <2>2. at[p] \in Nat /\ at[q] \in Nat
    BY <1>2
  <2> QED BY <2>1, <2>2
<1>13. \A i \in DOMAIN t : IsDirective(t[i]) => \E q \in DOMAIN u : at[q] = i
  <2> SUFFICES ASSUME NEW i \in DOMAIN t, IsDirective(t[i]) PROVE \E q \in DOMAIN u : at[q] = i
    OBVIOUS
  <2>1. i \in DOMAIN s /\ Len(s[i]) = 1 /\ s[i] \in Seq(LineType)
    OBVIOUS
  <2>2. 1 \in DOMAIN s[i]
    BY <2>1
  <2> QED BY <2>1, <2>2 DEF Places
<1>14. KeepsBranches(t, u, at, D)
  BY <1>5, <1>9, <1>10, <1>11, <1>12, <1>13 DEF KeepsBranches
<1> QED BY <1>7, <1>14

-----------------------------------------------------------------------------
(* The statements of a procedure or prototype, and their order.            *)

\* A line that is none of the structural ones of its text is inside or
\* outside interface blocks as the line it stems from.
LEMMA InterfaceFollows ==
  ASSUME NEW S, NEW t \in Seq(S), NEW u \in Seq(S), NEW at, Follows(t, u, at),
         NEW q \in DOMAIN u, Structural(u[q]) \/ (at[q] \in DOMAIN t => ~Structural(t[at[q]]))
  PROVE  InInterface(u, q) <=> InInterface(t, at[q])
<1>1. CASE Structural(u[q])
  BY <1>1, SameInterface
<1>2. CASE at[q] \in DOMAIN t => ~Structural(t[at[q]])
  <2> DEFINE A(v, k, i) == {j \in Lines(v, k) : j <= i}
  <2>1. at[q] \in Nat /\ q \in Nat
    BY DEF Follows
  <2>2. ASSUME NEW p \in DOMAIN u, Structural(u[p]) PROVE p <= q <=> at[p] <= at[q]
    <3>1. at[p] \in DOMAIN t /\ Structural(t[at[p]])
      BY <2>2 DEF Follows, Structural
    <3>2. at[p] # at[q] /\ p # q
      BY <1>2, <3>1
    <3>3. at[p] \in Nat /\ p \in Nat /\ (p < q <=> at[p] < at[q])
      BY <2>2, StructureInOrder
    <3> QED BY <2>1, <3>2, <3>3
  <2>3. ASSUME NEW k \in {"interface", "endinterface"}
        PROVE  Cardinality(A(t, k, at[q])) = Cardinality(A(u, k, q))
    <3>1. A(u, k, q) \subseteq {j \in DOMAIN u : Structural(u[j])} /\ A(t, k, at[q]) \subseteq DOMAIN t
      BY DEF Lines, Structural
    <3>2. ASSUME NEW j \in A(u, k, q) PROVE at[j] \in A(t, k, at[q])
      <4>1. j \in DOMAIN u /\ u[j].k = k /\ Structural(u[j]) /\ j <= q
        BY DEF Lines, Structural
      <4>2. at[j] \in DOMAIN t /\ t[at[j]].k = k
        BY <4>1 DEF Follows
      <4> QED BY <2>2, <4>1, <4>2 DEF Lines
    <3>3. ASSUME NEW i \in A(t, k, at[q]) PROVE \E j \in A(u, k, q) : at[j] = i
      <4>1. i \in DOMAIN t /\ t[i].k = k /\ i <= at[q] /\ Structural(t[i])
        BY DEF Lines, Structural
      <4>2. PICK j \in DOMAIN u : at[j] = i /\ Structural(u[j])
        BY <4>1 DEF Follows
      <4>3. u[j].k = k
        BY <4>1, <4>2 DEF Follows
      <4> QED BY <2>2, <4>1, <4>2, <4>3 DEF Lines
    <3> HIDE DEF A
    <3> QED BY <3>1, <3>2, <3>3, SameCount
  <2> QED BY <2>3 DEF InInterface
<1> QED BY <1>1, <1>2

\* Line e is the END of header h.
Closes(t, h, e) ==
  /\ h \in Lines(t, "header") /\ e \in Lines(t, "end") /\ h < e
  /\ InInterface(t, h) <=> InInterface(t, e)
  /\ InInterface(t, h) => NothingBetween(t, h, e)
  /\ ~InInterface(t, h) => \A j \in h + 1 .. e - 1 : t[j].k \in {"header", "end"} => InInterface(t, j)

Body(t, h, e) ==
  {i \in h + 1 .. e - 1 : t[i].k # "endinterface" /\ (InInterface(t, i) <=> InInterface(t, h))}

BodyInOrder(t, h, e) ==
  /\ \A i, j \in Body(t, h, e) :
        i < j /\ ~IsComment(t[i]) /\ ~IsComment(t[j]) => Phase(t[i]) <= Phase(t[j])
  /\ InInterface(t, h) => \A i \in Body(t, h, e) : Phase(t[i]) < 3

BodiesInOrder(t) == \A h, e \in DOMAIN t : Closes(t, h, e) => BodyInOrder(t, h, e)

\* No header and no END is a statement of a body.
LEMMA InBody ==
  ASSUME NEW t \in Seq(LineType), NEW h, NEW e, Closes(t, h, e), NEW i \in Body(t, h, e)
  PROVE  /\ h \in DOMAIN t /\ e \in DOMAIN t /\ i \in DOMAIN t /\ h < i /\ i < e
         /\ h \in Nat /\ e \in Nat /\ i \in Nat
         /\ t[h].k = "header" /\ t[e].k = "end" /\ t[i].k \notin {"header", "end", "endinterface"}
         /\ InInterface(t, i) <=> InInterface(t, h)
<1>1. h \in DOMAIN t /\ e \in DOMAIN t /\ t[h].k = "header" /\ t[e].k = "end" /\ DOMAIN t = 1 .. Len(t) /\ Len(t) \in Nat
  BY DEF Closes, Lines
<1>2. i \in h + 1 .. e - 1 /\ t[i].k # "endinterface" /\ (InInterface(t, i) <=> InInterface(t, h))
  BY DEF Body
<1>3. h \in Nat /\ e \in Nat /\ i \in Nat /\ h < i /\ i < e /\ i \in DOMAIN t
  BY <1>1, <1>2
<1>4. t[i].k \notin {"header", "end"}
  <2>1. SUFFICES ASSUME t[i].k \in {"header", "end"} PROVE FALSE
    OBVIOUS
  <2>2. CASE InInterface(t, h)
    <3>1. ~Structural(t[i])
      BY <1>2, <2>2 DEF Closes, NothingBetween
    <3> QED BY <2>1, <3>1 DEF Structural
  <2>3. CASE ~InInterface(t, h)
    <3>1. InInterface(t, i)
      BY <1>2, <2>1, <2>3 DEF Closes
    <3> QED BY <1>2, <2>3, <3>1
  <2> QED BY <2>2, <2>3
<1> QED BY <1>1, <1>2, <1>3, <1>4

LEMMA ClosesFollows ==
  ASSUME NEW t \in Seq(LineType), NEW u \in Seq(LineType), NEW at, Follows(t, u, at),
         NEW h \in DOMAIN u, NEW e \in DOMAIN u, Closes(u, h, e)
  PROVE  Closes(t, at[h], at[e])
<1>1. /\ u[h].k = "header" /\ u[e].k = "end" /\ Structural(u[h]) /\ Structural(u[e]) /\ h < e
      /\ h \in Nat /\ e \in Nat
  BY DEF Closes, Lines, Structural
<1>2. /\ at[h] \in DOMAIN t /\ at[e] \in DOMAIN t /\ t[at[h]].k = "header" /\ t[at[e]].k = "end"
      /\ at[h] < at[e] /\ at[h] \in Nat /\ at[e] \in Nat
  BY <1>1, StructureInOrder DEF Follows
<1>3. (InInterface(u, h) <=> InInterface(t, at[h])) /\ (InInterface(u, e) <=> InInterface(t, at[e]))
  BY <1>1, SameInterface
<1>4. ASSUME NEW j \in at[h] + 1 .. at[e] - 1, Structural(t[j])
      PROVE  \E p \in h + 1 .. e - 1 : /\ p \in DOMAIN u /\ Structural(u[p]) /\ u[p].k = t[j].k
                                       /\ InInterface(u, p) <=> InInterface(t, j)
  <2>1. j \in DOMAIN t /\ j \in Nat /\ at[h] < j /\ j < at[e]
    BY <1>2
  <2>2. PICK p \in DOMAIN u : at[p] = j /\ Structural(u[p])
    BY <1>4, <2>1 DEF Follows
  <2>3. p \in Nat /\ h < p /\ p < e
    BY <1>1, <2>1, <2>2, StructureInOrder
  <2>4. u[p].k = t[j].k /\ (InInterface(u, p) <=> InInterface(t, j))
    BY <2>2, SameInterface DEF Follows
  <2> QED BY <1>1, <2>2, <2>3, <2>4
<1>5. InInterface(t, at[h]) => NothingBetween(t, at[h], at[e])
  <2> SUFFICES ASSUME InInterface(t, at[h]), NEW j \in at[h] + 1 .. at[e] - 1, Structural(t[j]) PROVE FALSE
    BY DEF NothingBetween
  <2>1. PICK p \in h + 1 .. e - 1 : Structural(u[p])
    BY <1>4
  <2> QED BY <1>3, <2>1 DEF Closes, NothingBetween
<1>6. ~InInterface(t, at[h]) =>
        \A j \in at[h] + 1 .. at[e] - 1 : t[j].k \in {"header", "end"} => InInterface(t, j)
  <2> SUFFICES ASSUME ~InInterface(t, at[h]), NEW j \in at[h] + 1 .. at[e] - 1, t[j].k \in {"header", "end"}
               PROVE  InInterface(t, j)
    OBVIOUS
  <2>1. Structural(t[j])
    BY DEF Structural
  <2>2. PICK p \in h + 1 .. e - 1 : u[p].k = t[j].k /\ (InInterface(u, p) <=> InInterface(t, j))
    BY <1>4, <2>1
  <2> QED BY <1>3, <2>2 DEF Closes
<1>7. InInterface(t, at[h]) <=> InInterface(t, at[e])
  BY <1>3 DEF Closes
<1>8. at[h] \in Lines(t, "header") /\ at[e] \in Lines(t, "end")
  BY <1>2 DEF Lines
<1> QED BY <1>2, <1>5, <1>6, <1>7, <1>8 DEF Closes

\* Text w is v with some lines rewritten and others put in.  A line of own is
\* what became of one of v, and the last at its place.  The others are a USE
\* right behind a header or stand in front of a statement that is executed,
\* or of the END of a procedure.
Rewritten(v, w, at, q) ==
  /\ at[q] \in DOMAIN v /\ (Structural(w[q]) <=> Structural(v[at[q]]))
  /\ \A p \in DOMAIN w : q < p => at[q] < at[p]
  /\ IsComment(w[q]) \/ (~IsComment(v[at[q]]) /\ Phase(w[q]) = Phase(v[at[q]]))

FirstUse(v, w, at, q) ==
  /\ Phase(w[q]) = 1 /\ at[q] - 1 \in Lines(v, "header")
  /\ \A p \in DOMAIN w : p < q => at[p] < at[q]

BeforeExecuted(v, w, at, q) ==
  /\ Phase(w[q]) = 3 /\ at[q] \in DOMAIN v
  /\ v[at[q]].k \in {"exec", "assign"} \/ (v[at[q]].k = "end" /\ ~InInterface(v, at[q]))

Carried(v, w, at, own) ==
  /\ Follows(v, w, at)
  /\ \A q \in own : Rewritten(v, w, at, q)
  /\ \A q \in DOMAIN w \ own : ~Structural(w[q]) /\ (FirstUse(v, w, at, q) \/ BeforeExecuted(v, w, at, q))

\* A statement of a body stems from a statement of the body.
LEMMA BodyStems ==
  ASSUME NEW v \in Seq(LineType), NEW w \in Seq(LineType), NEW at, Follows(v, w, at),
         NEW h \in DOMAIN w, NEW e \in DOMAIN w, Closes(w, h, e), NEW i \in Body(w, h, e),
         at[i] \in DOMAIN v, Structural(w[i]) <=> Structural(v[at[i]]), at[i] # at[e]
  PROVE  at[i] \in Body(v, at[h], at[e])
<1>1. /\ i \in DOMAIN w /\ h < i /\ i < e /\ Structural(w[h]) /\ Structural(w[e])
      /\ w[i].k \notin {"header", "end", "endinterface"} /\ (InInterface(w, i) <=> InInterface(w, h))
  BY InBody DEF Structural
<1>2. /\ at[h] \in Nat /\ at[i] \in Nat /\ at[e] \in Nat /\ at[h] < at[i] /\ at[i] <= at[e]
  BY <1>1, StructureInOrder
<1>3. at[i] \in at[h] + 1 .. at[e] - 1
  BY <1>2
<1>4. (InInterface(w, h) <=> InInterface(v, at[h])) /\ (InInterface(w, i) <=> InInterface(v, at[i]))
  BY <1>1, SameInterface, InterfaceFollows
<1>5. v[at[i]].k # "endinterface"
  <2>1. SUFFICES ASSUME v[at[i]].k = "endinterface" PROVE FALSE
    OBVIOUS
  <2>2. Structural(w[i])
    BY <2>1 DEF Structural
  <2>3. w[i].k = v[at[i]].k
    BY <1>1, <2>2 DEF Follows
  <2> QED BY <1>1, <2>1, <2>3
<1> QED BY <1>1, <1>3, <1>4, <1>5 DEF Body

\* What stands in front of the END of a header is in its body only if the
\* header is a procedure's; no other END is near.
LEMMA ExecutedStems ==
  ASSUME NEW v \in Seq(LineType), NEW w \in Seq(LineType), NEW at, Follows(v, w, at),
         NEW h \in DOMAIN w, NEW e \in DOMAIN w, Closes(w, h, e), NEW i \in Body(w, h, e),
         ~Structural(w[i]), BeforeExecuted(v, w, at, i)
  PROVE  \/ at[i] \in Body(v, at[h], at[e]) /\ Phase(v[at[i]]) = 3 /\ ~IsComment(v[at[i]])
         \/ at[i] = at[e] /\ ~InInterface(w, h)
<1>1. /\ i \in DOMAIN w /\ h < i /\ i < e /\ Structural(w[h]) /\ Structural(w[e]) /\ w[e].k = "end"
      /\ InInterface(w, i) <=> InInterface(w, h)
  BY InBody DEF Structural
<1>2. /\ at[h] \in Nat /\ at[i] \in Nat /\ at[e] \in Nat /\ at[h] < at[i] /\ at[i] <= at[e]
  BY <1>1, StructureInOrder
<1>3. Closes(v, at[h], at[e]) /\ at[e] \in DOMAIN v /\ v[at[e]].k = "end"
  BY <1>1, ClosesFollows DEF Follows
<1>4. CASE v[at[i]].k \in {"exec", "assign"}
  <2>1. at[i] # at[e] /\ ~Structural(v[at[i]]) /\ at[i] \in DOMAIN v
    BY <1>3, <1>4 DEF Structural, BeforeExecuted
  <2>2. at[i] \in Body(v, at[h], at[e])
    BY <2>1, BodyStems
  <2>3. Phase(v[at[i]]) = 3 /\ ~IsComment(v[at[i]])
    BY <1>4 DEF Phase, IsComment
  <2> QED BY <2>2, <2>3
<1>5. CASE v[at[i]].k = "end" /\ ~InInterface(v, at[i])
  <2>1. at[i] = at[e]
    <3>1. SUFFICES ASSUME at[i] # at[e] PROVE FALSE
      OBVIOUS
    <3>2. at[i] \in at[h] + 1 .. at[e] - 1 /\ Structural(v[at[i]])
      BY <1>2, <1>5, <3>1 DEF Structural
    <3> QED BY <1>3, <1>5, <3>2 DEF Closes, NothingBetween
  <2>2. ~InInterface(w, h)
    <3>1. InInterface(w, e) <=> InInterface(v, at[e])
      BY <1>1, SameInterface
    <3>2. InInterface(w, h) <=> InInterface(w, e)
      BY DEF Closes
    <3> QED BY <1>5, <2>1, <3>1, <3>2
  <2> QED BY <2>1, <2>2
<1> QED BY <1>4, <1>5 DEF BeforeExecuted

LEMMA PhaseIs ==
  ASSUME NEW l
  PROVE  /\ Phase(l) \in {1, 2, 3} /\ (IsComment(l) => Phase(l) = 2)
         /\ Structural(l) => Phase(l) = 2 /\ ~IsComment(l)
BY DEF Phase, IsComment, Structural

\* No statement of a body stands above a USE that is first behind its header.
LEMMA NoneAboveUse ==
  ASSUME NEW v \in Seq(LineType), NEW w \in Seq(LineType), NEW at, Follows(v, w, at),
         NEW h \in DOMAIN w, NEW e \in DOMAIN w, Closes(w, h, e),
         NEW i \in Body(w, h, e), NEW j \in Body(w, h, e), i < j,
         ~Structural(w[j]), FirstUse(v, w, at, j)
  PROVE  FALSE
<1>1. /\ i \in DOMAIN w /\ j \in DOMAIN w /\ h < i /\ j < e /\ Structural(w[h]) /\ Structural(w[e])
      /\ h \in Nat /\ i \in Nat /\ j \in Nat /\ e \in Nat
      /\ w[i].k # "header" /\ (InInterface(w, j) <=> InInterface(w, h)) /\ at[i] < at[j]
  BY InBody DEF Structural, FirstUse
<1>2. at[j] - 1 \in DOMAIN v /\ v[at[j] - 1].k = "header" /\ Structural(v[at[j] - 1]) /\ at[j] \in Nat /\ at[i] \in Nat
  BY <1>1 DEF FirstUse, Lines, Structural, Follows
<1>3. PICK p \in DOMAIN w : at[p] = at[j] - 1 /\ Structural(w[p])
  BY <1>2 DEF Follows
<1>4. w[p].k = "header" /\ p \in Nat
  BY <1>2, <1>3 DEF Follows
<1>5. p < j /\ ~(p < i)
  <2>1. p < j <=> at[p] < at[j]
    BY <1>1, <1>3, StructureInOrder
  <2>2. p < i <=> at[p] < at[i]
    BY <1>1, <1>3, StructureInOrder
  <2> QED BY <1>1, <1>2, <1>3, <2>1, <2>2
<1>6. p # i /\ h < p /\ p < e /\ p \in h + 1 .. e - 1
  BY <1>1, <1>4, <1>5
<1>7. ~InInterface(w, h) /\ InInterface(w, p)
  BY <1>3, <1>4, <1>6 DEF Closes, NothingBetween
<1>8. NothingBetween(w, p, j)
  <2> SUFFICES ASSUME NEW x \in p + 1 .. j - 1, Structural(w[x]) PROVE FALSE
    BY DEF NothingBetween
  <2>1. x \in DOMAIN w /\ p < x /\ x < j /\ x \in Nat
    BY <1>1, <1>4
  <2>2. at[p] < at[x] /\ at[x] < at[j] /\ at[x] \in Nat
    BY <1>3, <2>1 DEF Follows, FirstUse
  <2> QED BY <1>2, <1>3, <2>2
<1>9. w[j].k \notin {"interface", "endinterface"}
  BY DEF Structural
<1>10. InInterface(w, p) <=> InInterface(w, j)
  BY <1>1, <1>5, <1>8, <1>9, SameInterfaceBetween
<1> QED BY <1>1, <1>7, <1>10

LEMMA OrderCarried ==
  ASSUME NEW v \in Seq(LineType), NEW w \in Seq(LineType), NEW at, NEW own, Carried(v, w, at, own),
         BodiesInOrder(v)
  PROVE  BodiesInOrder(w)
<1> SUFFICES ASSUME NEW h \in DOMAIN w, NEW e \in DOMAIN w, Closes(w, h, e) PROVE BodyInOrder(w, h, e)
  BY DEF BodiesInOrder
<1>1. Follows(v, w, at)
  BY DEF Carried
<1>2. /\ Structural(w[h]) /\ Structural(w[e]) /\ w[e].k = "end" /\ at[h] \in DOMAIN v /\ at[e] \in DOMAIN v
  BY <1>1 DEF Closes, Lines, Structural, Follows
<1>3. BodyInOrder(v, at[h], at[e])
  BY <1>1, <1>2, ClosesFollows DEF BodiesInOrder
<1>4. InInterface(w, h) <=> InInterface(v, at[h])
  BY <1>1, <1>2, SameInterface
<1>5. ASSUME NEW i \in Body(w, h, e)
      PROVE  i \in DOMAIN w /\ i < e /\ i \in Nat /\ e \in Nat /\ w[i].k \notin {"header", "end", "endinterface"}
  BY InBody
<1>6. ASSUME NEW i \in Body(w, h, e), i \in own
      PROVE  /\ at[i] \in Body(v, at[h], at[e]) /\ at[i] < at[e]
             /\ IsComment(w[i]) \/ (~IsComment(v[at[i]]) /\ Phase(w[i]) = Phase(v[at[i]]))
  <2>1. Rewritten(v, w, at, i)
    BY <1>6 DEF Carried
  <2>2. at[i] < at[e] /\ at[i] \in Nat /\ at[e] \in Nat
    BY <1>1, <1>5, <2>1 DEF Rewritten, Follows
  <2>3. at[i] \in Body(v, at[h], at[e])
    BY <1>1, <2>1, <2>2, BodyStems DEF Rewritten
  <2> QED BY <2>1, <2>2, <2>3 DEF Rewritten
<1>7. ASSUME NEW i \in Body(w, h, e), NEW j \in Body(w, h, e), i < j, ~IsComment(w[i]), ~IsComment(w[j])
      PROVE  Phase(w[i]) <= Phase(w[j])
  <2>1. CASE j \notin own
    <3>1. ~Structural(w[j]) /\ (FirstUse(v, w, at, j) \/ BeforeExecuted(v, w, at, j))
      BY <1>5, <2>1 DEF Carried
    <3>2. ~FirstUse(v, w, at, j)
      BY <1>1, <1>7, <3>1, NoneAboveUse
    <3>3. Phase(w[j]) = 3
      BY <3>1, <3>2 DEF BeforeExecuted
    <3> QED BY <3>3, PhaseIs
  <2>2. CASE j \in own /\ i \in own
    <3>1. Phase(w[i]) = Phase(v[at[i]]) /\ Phase(w[j]) = Phase(v[at[j]]) /\ ~IsComment(v[at[i]]) /\ ~IsComment(v[at[j]])
      BY <1>6, <1>7, <2>2
    <3>2. at[i] \in Body(v, at[h], at[e]) /\ at[j] \in Body(v, at[h], at[e])
      BY <1>6, <2>2
    <3>3. at[i] < at[j]
      BY <1>5, <1>7, <2>2 DEF Carried, Rewritten
    <3> QED BY <1>3, <3>1, <3>2, <3>3 DEF BodyInOrder
  <2>3. CASE j \in own /\ i \notin own
    <3>1. ~Structural(w[i]) /\ (FirstUse(v, w, at, i) \/ BeforeExecuted(v, w, at, i))
      BY <1>5, <2>3 DEF Carried
    <3>2. CASE FirstUse(v, w, at, i)
      <4>1. Phase(w[i]) = 1 /\ Phase(w[j]) \in {1, 2, 3}
        BY <3>2, PhaseIs DEF FirstUse
      <4> QED BY <4>1
    <3>3. CASE BeforeExecuted(v, w, at, i)
      <4>1. at[i] <= at[j] /\ at[j] < at[e] /\ at[i] \in Nat /\ at[j] \in Nat /\ at[e] \in Nat
        BY <1>1, <1>2, <1>5, <1>6, <1>7, <2>3 DEF Follows
      <4>2. at[i] \in Body(v, at[h], at[e]) /\ Phase(v[at[i]]) = 3 /\ ~IsComment(v[at[i]])
        <5>1. at[i] # at[e]
          BY <4>1
        <5> QED BY <1>1, <3>1, <3>3, <5>1, ExecutedStems
      <4>3. at[j] \in Body(v, at[h], at[e]) /\ ~IsComment(v[at[j]]) /\ Phase(w[j]) = Phase(v[at[j]])
        BY <1>6, <1>7, <2>3
      <4>4. CASE at[i] = at[j]
        <5>1. Phase(w[j]) = 3
          BY <4>2, <4>3, <4>4
        <5> QED BY <5>1, PhaseIs
      <4>5. CASE at[i] # at[j]
        <5>1. at[i] < at[j]
          BY <4>1, <4>5
        <5>2. Phase(v[at[i]]) <= Phase(v[at[j]])
          BY <1>3, <4>2, <4>3, <5>1 DEF BodyInOrder
        <5>3. Phase(w[i]) = 3
          BY <3>3 DEF BeforeExecuted
        <5> QED BY <4>2, <4>3, <5>2, <5>3
      <4> QED BY <4>4, <4>5
    <3> QED BY <3>1, <3>2, <3>3
  <2> QED BY <2>1, <2>2, <2>3
<1>8. ASSUME InInterface(w, h), NEW i \in Body(w, h, e) PROVE Phase(w[i]) < 3
  <2>1. CASE i \in own
    <3>1. at[i] \in Body(v, at[h], at[e]) /\ (IsComment(w[i]) \/ Phase(w[i]) = Phase(v[at[i]]))
      BY <1>6, <2>1
    <3>2. Phase(v[at[i]]) < 3
      BY <1>3, <1>4, <1>8, <3>1 DEF BodyInOrder
    <3> QED BY <3>1, <3>2, PhaseIs
  <2>2. CASE i \notin own
    <3>1. ~Structural(w[i]) /\ (FirstUse(v, w, at, i) \/ BeforeExecuted(v, w, at, i))
      BY <1>5, <2>2 DEF Carried
    <3>2. ~BeforeExecuted(v, w, at, i)
      <4>1. SUFFICES ASSUME BeforeExecuted(v, w, at, i) PROVE FALSE
        OBVIOUS
      <4>2. at[i] \in Body(v, at[h], at[e]) /\ Phase(v[at[i]]) = 3
        BY <1>1, <1>8, <3>1, <4>1, ExecutedStems
      <4>3. Phase(v[at[i]]) < 3
        BY <1>3, <1>4, <1>8, <4>2 DEF BodyInOrder
      <4> QED BY <4>2, <4>3
    <3> QED BY <3>1, <3>2 DEF FirstUse
  <2> QED BY <2>1, <2>2
<1> QED BY <1>7, <1>8 DEF BodyInOrder

\* Sequence r lists a body's statements in order.
Lists(t, h, e, r, f) ==
  /\ r \in Seq(LineType) /\ f \in [DOMAIN r -> Body(t, h, e)]
  /\ \A p \in DOMAIN r : r[p] = t[f[p]]
  /\ \A i \in Body(t, h, e) : \E p \in DOMAIN r : f[p] = i
  /\ \A p, q \in DOMAIN r : p < q => f[p] < f[q]

LEMMA ListsInOrder ==
  ASSUME NEW t, NEW h, NEW e, NEW r, NEW f, Lists(t, h, e, r, f)
  PROVE  /\ InOrder(r) <=> \A i, j \in Body(t, h, e) :
               i < j /\ ~IsComment(t[i]) /\ ~IsComment(t[j]) => Phase(t[i]) <= Phase(t[j])
         /\ (\A l \in ToSet(r) : Phase(l) < 3) <=> (\A i \in Body(t, h, e) : Phase(t[i]) < 3)
<1> DEFINE B == Body(t, h, e)
<1>1. /\ f \in [DOMAIN r -> B] /\ \A p \in DOMAIN r : r[p] = t[f[p]] /\ p \in Nat
      /\ \A i \in B : i \in Int
      /\ \A i \in B : \E p \in DOMAIN r : f[p] = i
      /\ \A p, q \in DOMAIN r : p < q => f[p] < f[q]
  <2>1. \A i \in B : i \in Int
    BY DEF Body
  <2>2. r \in Seq(LineType)
    BY DEF Lists
  <2> QED BY <2>1, <2>2 DEF Lists
<1> HIDE DEF B
<1>2. \A p, q \in DOMAIN r : f[p] < f[q] => p < q
  <2> SUFFICES ASSUME NEW p \in DOMAIN r, NEW q \in DOMAIN r, f[p] < f[q], ~(p < q) PROVE FALSE
    OBVIOUS
  <2>1. f[p] \in Int /\ f[q] \in Int /\ p \in Nat /\ q \in Nat
    BY <1>1
  <2>2. p = q \/ q < p
    BY <2>1
  <2>3. q < p => f[q] < f[p]
    BY <1>1
  <2> QED BY <2>1, <2>2, <2>3
<1>3. ASSUME InOrder(r), NEW i \in B, NEW j \in B, i < j, ~IsComment(t[i]), ~IsComment(t[j])
      PROVE  Phase(t[i]) <= Phase(t[j])
  <2>1. PICK p \in DOMAIN r : f[p] = i
    BY <1>1
  <2>2. PICK q \in DOMAIN r : f[q] = j
    BY <1>1
  <2>3. p < q /\ r[p] = t[i] /\ r[q] = t[j]
    BY <1>1, <1>2, <1>3, <2>1, <2>2
  <2> QED BY <1>3, <2>3 DEF InOrder
<1>4. ASSUME \A i, j \in B : i < j /\ ~IsComment(t[i]) /\ ~IsComment(t[j]) => Phase(t[i]) <= Phase(t[j])
      PROVE  InOrder(r)
  <2> SUFFICES ASSUME NEW p \in DOMAIN r, NEW q \in DOMAIN r, p < q, ~IsComment(r[p]), ~IsComment(r[q])
               PROVE  Phase(r[p]) <= Phase(r[q])
    BY DEF InOrder
  <2>1. f[p] \in B /\ f[q] \in B /\ f[p] < f[q] /\ r[p] = t[f[p]] /\ r[q] = t[f[q]]
    BY <1>1
  <2> QED BY <1>4, <2>1
<1>5. (\A l \in ToSet(r) : Phase(l) < 3) <=> (\A i \in B : Phase(t[i]) < 3)
  <2>1. ToSet(r) = {r[p] : p \in DOMAIN r}
    BY DEF ToSet
  <2> QED BY <1>1, <2>1
<1> QED BY <1>3, <1>4, <1>5 DEF B

LEMMA ProcedureLists ==
  ASSUME NEW t \in Seq(LineType), WellFormed(t), NEW h \in Procedures(t)
  PROVE  LET e == NextEnd(t, h)
             r == SubSeq(Statements(t, h), 1, Len(Statements(t, h)) - 1)
         IN  Closes(t, h, e) /\ \E f : Lists(t, h, e, r, f)
<1> DEFINE e == NextEnd(t, h)
           keeps(i) == ~InInterface(t, i) /\ t[i].k # "endinterface"
           n == e - h
           z == [j \in 1 .. n |-> IF keeps(h + j) THEN <<t[h + j]>> ELSE <<>>]
           r == FlattenSeq(z)
           m == Len(r) - 1
           s == SubSeq(r, 1, m)
<1>1. h \in DOMAIN t /\ h \in Nat /\ ~InInterface(t, h) /\ t[h].k = "header" /\ DOMAIN t = 1 .. Len(t) /\ Len(t) \in Nat
  BY ProcedureLines
<1>2. /\ e \in Lines(t, "end") /\ e \in DOMAIN t /\ e \in Nat /\ h < e /\ ~InInterface(t, e)
      /\ \A j \in h + 1 .. e - 1 : t[j].k \in {"header", "end"} => InInterface(t, j)
  BY ProcedureEnd
<1>3. Closes(t, h, e)
  <2>1. h \in Lines(t, "header")
    BY <1>1 DEF Lines
  <2> HIDE DEF e
  <2> QED BY <1>1, <1>2, <2>1 DEF Closes
<1>4. Statements(t, h) = r
  BY DEF Statements
<1> HIDE DEF e
<1>5. n \in Nat /\ n >= 1 /\ \A j \in 1 .. n : h + j \in DOMAIN t /\ t[h + j] \in LineType
  BY <1>1, <1>2
<1>6. e \in Nat /\ t[e].k = "end" /\ keeps(h + n) /\ h + n = e
  BY <1>1, <1>2 DEF Lines
<1>7. \A j \in DOMAIN z : /\ keeps(h + j) => DOMAIN z[j] = {1} /\ z[j][1] = t[h + j]
                          /\ ~keeps(h + j) => DOMAIN z[j] = {}
                          /\ z[j] \in Seq(LineType)
  <2> SUFFICES ASSUME NEW j \in 1 .. n
               PROVE  /\ keeps(h + j) => DOMAIN z[j] = {1} /\ z[j][1] = t[h + j]
                      /\ ~keeps(h + j) => DOMAIN z[j] = {}
                      /\ z[j] \in Seq(LineType)
    OBVIOUS
  <2>1. PICK l : l = t[h + j]
    OBVIOUS
  <2>2. z[j] = IF keeps(h + j) THEN <<l>> ELSE <<>>
    BY <2>1
  <2>3. l \in LineType
    BY <1>5, <2>1
  <2>4. DOMAIN <<l>> = {1} /\ <<l>>[1] = l /\ DOMAIN <<>> = {} /\ <<l>> \in Seq(LineType) /\ <<>> \in Seq(LineType)
    BY <2>3
  <2> HIDE DEF z, keeps
  <2> QED BY <2>1, <2>2, <2>4
<1>8. DOMAIN z = 1 .. n
  OBVIOUS
<1>9. z \in Seq(Seq(LineType))
  <2>1. \A j \in 1 .. n : z[j] \in Seq(LineType)
    BY <1>7, <1>8
  <2>2. z = [j \in 1 .. n |-> z[j]]
    OBVIOUS
  <2> HIDE DEF z, n
  <2> QED BY <1>5, <2>1, <2>2
<1> HIDE DEF z, n
<1>10. r \in Seq(LineType) /\ \E at, nth : Places(z, r, at, nth)
  BY <1>9, FlattenPlaces
<1>11. PICK at, nth : Places(z, r, at, nth)
  BY <1>10
<1> HIDE DEF r
<1>12. \A p \in DOMAIN r : at[p] \in 1 .. n /\ keeps(h + at[p]) /\ nth[p] = 1 /\ r[p] = t[h + at[p]] /\ p \in Nat
  <2> SUFFICES ASSUME NEW p \in DOMAIN r
               PROVE at[p] \in 1 .. n /\ keeps(h + at[p]) /\ nth[p] = 1 /\ r[p] = t[h + at[p]] /\ p \in Nat
    OBVIOUS
  <2>1. at[p] \in DOMAIN z /\ nth[p] \in DOMAIN z[at[p]] /\ r[p] = z[at[p]][nth[p]]
    BY <1>11 DEF Places
  <2>2. p \in Nat
    BY <1>10
  <2> HIDE DEF keeps
  <2> QED BY <1>7, <1>8, <2>1, <2>2
<1>13. \A j \in 1 .. n : keeps(h + j) => \E p \in DOMAIN r : at[p] = j
  <2> SUFFICES ASSUME NEW j \in 1 .. n, keeps(h + j) PROVE \E p \in DOMAIN r : at[p] = j
    OBVIOUS
  <2>1. 1 \in DOMAIN z[j] /\ j \in DOMAIN z
    BY <1>7, <1>8
  <2> QED BY <2>1, <1>11 DEF Places
<1>14. \A p, q \in DOMAIN r : p < q => at[p] < at[q]
  <2> SUFFICES ASSUME NEW p \in DOMAIN r, NEW q \in DOMAIN r, p < q PROVE at[p] < at[q]
    OBVIOUS
  <2>1. at[p] < at[q] \/ (at[p] = at[q] /\ nth[p] < nth[q])
    BY <1>11 DEF Places
  <2>2. nth[p] = 1 /\ nth[q] = 1
    BY <1>12
  <2> QED BY <2>1, <2>2
<1>15. PICK pe \in DOMAIN r : at[pe] = n
  BY <1>5, <1>6, <1>13
<1>16. Len(r) \in Nat /\ DOMAIN r = 1 .. Len(r) /\ pe = Len(r) /\ m \in Nat
  <2>1. Len(r) \in Nat /\ DOMAIN r = 1 .. Len(r) /\ pe \in 1 .. Len(r)
    BY <1>10
  <2>2. ~(pe < Len(r))
    <3>1. SUFFICES ASSUME pe < Len(r) PROVE FALSE
      OBVIOUS
    <3>2. Len(r) \in DOMAIN r
      BY <2>1
    <3>3. at[pe] < at[Len(r)] /\ at[Len(r)] \in 1 .. n
      BY <1>12, <1>14, <3>1, <3>2
    <3> QED BY <1>5, <1>15, <3>3
  <2> QED BY <2>1, <2>2
<1>17. s \in Seq(LineType) /\ DOMAIN s = 1 .. m /\ \A p \in 1 .. m : s[p] = r[p] /\ p \in DOMAIN r /\ p < pe
  <2>1. CASE m = 0
    <3>1. SubSeq(r, 1, 0) = <<>>
      BY <1>10
    <3>2. s = <<>>
      BY <2>1, <3>1
    <3>3. <<>> \in Seq(LineType) /\ DOMAIN <<>> = {} /\ 1 .. 0 = {}
      OBVIOUS
    <3> HIDE DEF s, m
    <3> QED BY <2>1, <3>2, <3>3
  <2>2. CASE m # 0
    <3>1. 1 <= m /\ m <= Len(r) /\ m \in Int
      BY <1>16, <2>2
    <3>2. s \in Seq(LineType) /\ Len(s) = m - 1 + 1 /\ \A p \in 1 .. m - 1 + 1 : s[p] = r[1 + p - 1]
      BY <1>10, <3>1, Section
    <3>3. DOMAIN s = 1 .. m /\ \A p \in 1 .. m : s[p] = r[p]
      BY <1>16, <3>2
    <3> QED BY <1>16, <3>2, <3>3
  <2> QED BY <2>1, <2>2
<1> HIDE DEF s
<1> DEFINE f == [p \in DOMAIN s |-> h + at[p]]
<1>18. \A i : i \in Body(t, h, e) <=> i \in h + 1 .. e - 1 /\ keeps(i)
  BY <1>1 DEF Body
<1>19. \A p \in DOMAIN s : f[p] \in Body(t, h, e) /\ s[p] = t[f[p]]
  <2> SUFFICES ASSUME NEW p \in DOMAIN s PROVE f[p] \in Body(t, h, e) /\ s[p] = t[f[p]]
    OBVIOUS
  <2>1. s[p] = r[p] /\ p \in DOMAIN r /\ p < pe /\ f[p] = h + at[p]
    BY <1>17
  <2>2. at[p] < n /\ at[p] \in 1 .. n /\ keeps(h + at[p]) /\ r[p] = t[h + at[p]]
    BY <1>12, <1>14, <1>15, <2>1
  <2>3. h + at[p] \in h + 1 .. e - 1
    BY <1>1, <1>5, <1>6, <2>2
  <2> HIDE DEF keeps
  <2> QED BY <1>18, <2>1, <2>2, <2>3
<1>20. ASSUME NEW i \in Body(t, h, e) PROVE \E p \in DOMAIN s : f[p] = i
  <2>1. i \in h + 1 .. e - 1 /\ keeps(i)
    BY <1>18
  <2>2. i - h \in 1 .. n /\ h + (i - h) = i /\ i - h < n
    BY <1>1, <1>5, <1>6, <2>1
  <2>3. PICK p \in DOMAIN r : at[p] = i - h
    <3> HIDE DEF keeps
    <3> QED BY <1>13, <2>1, <2>2
  <2>4. p \in 1 .. m
    <3>1. p \in 1 .. Len(r) /\ p # pe
      BY <1>15, <1>16, <2>2, <2>3
    <3> QED BY <1>16, <3>1
  <2> QED BY <1>17, <2>2, <2>3, <2>4
<1>21. \A p, q \in DOMAIN s : p < q => f[p] < f[q]
  <2> SUFFICES ASSUME NEW p \in DOMAIN s, NEW q \in DOMAIN s, p < q PROVE f[p] < f[q]
    OBVIOUS
  <2>1. p \in DOMAIN r /\ q \in DOMAIN r
    BY <1>17
  <2>2. at[p] < at[q] /\ at[p] \in 1 .. n /\ at[q] \in 1 .. n
    BY <1>12, <1>14, <2>1
  <2> QED BY <1>1, <1>5, <2>2
<1>22. Lists(t, h, e, s, f)
  <2>1. f \in [DOMAIN s -> Body(t, h, e)]
    BY <1>19
  <2> HIDE DEF f
  <2> QED BY <1>17, <1>19, <1>20, <1>21, <2>1 DEF Lists
<1> QED BY <1>3, <1>4, <1>22 DEF s, e

LEMMA PrototypeLists ==
  ASSUME NEW t \in Seq(LineType), NEW h, NEW e, Closes(t, h, e), InInterface(t, h)
  PROVE  MatchingEnd(t, h) = e /\ \E f : Lists(t, h, e, PrototypeLines(t, h), f)
<1>1. /\ h \in Lines(t, "header") /\ e \in Lines(t, "end") /\ h < e /\ NothingBetween(t, h, e)
      /\ h \in DOMAIN t /\ e \in DOMAIN t /\ h \in Nat /\ e \in Nat /\ DOMAIN t = 1 .. Len(t) /\ Len(t) \in Nat
  BY DEF Closes, Lines
<1>2. MatchingEnd(t, h) = e
  BY <1>1, MatchingEndIs
<1> DEFINE r == SubSeq(t, h + 1, e - 1)
           n == e - 1 - h
           f == [p \in DOMAIN r |-> h + p]
<1>3. PrototypeLines(t, h) = r
  BY <1>2 DEF PrototypeLines
<1>4. n \in Nat /\ r \in Seq(LineType) /\ DOMAIN r = 1 .. n /\ \A p \in 1 .. n : r[p] = t[h + p]
  <2>1. n \in Nat
    BY <1>1
  <2>2. CASE n = 0
    <3>1. r = <<>>
      BY <1>1, <2>2
    <3>2. <<>> \in Seq(LineType) /\ DOMAIN <<>> = {} /\ 1 .. 0 = {} /\ 0 \in Nat
      OBVIOUS
    <3> HIDE DEF r, n
    <3> QED BY <2>2, <3>1, <3>2
  <2>3. CASE n # 0
    <3>1. h + 1 \in Int /\ e - 1 \in Int /\ 1 <= h + 1 /\ h + 1 <= e - 1 /\ e - 1 <= Len(t)
      BY <1>1, <2>3
    <3>2. /\ r \in Seq(LineType) /\ Len(r) = (e - 1) - (h + 1) + 1
          /\ \A p \in 1 .. (e - 1) - (h + 1) + 1 : r[p] = t[(h + 1) + p - 1]
      BY <3>1, Section
    <3>3. (e - 1) - (h + 1) + 1 = n /\ \A p \in 1 .. n : (h + 1) + p - 1 = h + p
      BY <1>1
    <3> HIDE DEF r, n
    <3> QED BY <2>1, <3>2, <3>3
  <2> QED BY <2>1, <2>2, <2>3
<1> HIDE DEF r
<1>5. Body(t, h, e) = h + 1 .. e - 1
  <2> SUFFICES ASSUME NEW i \in h + 1 .. e - 1
               PROVE  t[i].k # "endinterface" /\ (InInterface(t, i) <=> InInterface(t, h))
    BY DEF Body
  <2>1. ~Structural(t[i]) /\ i \in DOMAIN t /\ h < i
    BY <1>1 DEF NothingBetween
  <2>2. NothingBetween(t, h, i)
    BY <1>1 DEF NothingBetween
  <2>3. t[i].k \notin {"interface", "endinterface"}
    BY <2>1 DEF Structural
  <2> QED BY <1>1, <2>1, <2>2, <2>3, SameInterfaceBetween
<1>6. Lists(t, h, e, r, f)
  <2>1. \A p \in DOMAIN r : f[p] = h + p /\ p \in 1 .. n
    BY <1>4
  <2>2. \A p \in 1 .. n : h + p \in h + 1 .. e - 1
    BY <1>1, <1>4
  <2>3. f \in [DOMAIN r -> Body(t, h, e)]
    BY <1>4, <1>5, <2>2
  <2>4. \A i \in Body(t, h, e) : i - h \in DOMAIN r /\ h + (i - h) = i
    BY <1>1, <1>4, <1>5
  <2>5. \A p, q \in DOMAIN r : p < q => f[p] < f[q]
    BY <1>1, <1>4, <2>1
  <2>6. \A i \in Body(t, h, e) : \E p \in DOMAIN r : f[p] = i
    BY <2>1, <2>4
  <2>7. \A p \in DOMAIN r : r[p] = t[f[p]]
    BY <1>4, <2>1
  <2> HIDE DEF f
  <2> QED BY <1>4, <2>3, <2>5, <2>6, <2>7 DEF Lists
<1> QED BY <1>2, <1>3, <1>6

\* The compiler's order is that of every body.
LEMMA OrderedBodies ==
  ASSUME NEW t \in Seq(LineType), WellFormed(t)
  PROVE  Ordered(t) <=> BodiesInOrder(t)
<1>1. ASSUME Ordered(t), NEW h \in DOMAIN t, NEW e \in DOMAIN t, Closes(t, h, e)
      PROVE  BodyInOrder(t, h, e)
  <2>1. h \in Lines(t, "header") /\ h \in Nat /\ e \in Nat /\ h < e /\ e \in Lines(t, "end")
    BY <1>1 DEF Closes
  <2>2. CASE InInterface(t, h)
    <3>1. h \in Prototypes(t)
      BY <2>1, <2>2 DEF Prototypes
    <3>2. InOrder(PrototypeLines(t, h)) /\ \A l \in ToSet(PrototypeLines(t, h)) : Phase(l) < 3
      BY <1>1, <3>1 DEF Ordered
    <3>3. PICK f : Lists(t, h, e, PrototypeLines(t, h), f)
      BY <1>1, <2>2, PrototypeLists
    <3> QED BY <3>2, <3>3, ListsInOrder DEF BodyInOrder
  <2>3. CASE ~InInterface(t, h)
    <3>1. h \in Procedures(t)
      BY <2>1, <2>3 DEF Procedures
    <3> DEFINE d == NextEnd(t, h)
               r == SubSeq(Statements(t, h), 1, Len(Statements(t, h)) - 1)
    <3>2. Closes(t, h, d) /\ \E f : Lists(t, h, d, r, f)
      BY <3>1, ProcedureLists
    <3>3. InOrder(r)
      BY <1>1, <3>1 DEF Ordered
    <3> HIDE DEF r, d
    <3>4. d = e
      <4>1. d \in Lines(t, "end") /\ h < d /\ d \in Nat /\ (InInterface(t, d) <=> InInterface(t, h))
        BY <3>2 DEF Closes, Lines
      <4>2. d < e => FALSE
        <5>1. SUFFICES ASSUME d < e PROVE FALSE
          OBVIOUS
        <5>2. d \in h + 1 .. e - 1 /\ t[d].k = "end"
          BY <2>1, <4>1, <5>1 DEF Lines
        <5>3. InInterface(t, d)
          BY <1>1, <2>3, <5>2 DEF Closes
        <5> QED BY <2>3, <4>1, <5>3
      <4>3. e < d => FALSE
        <5>1. SUFFICES ASSUME e < d PROVE FALSE
          OBVIOUS
        <5>2. e \in h + 1 .. d - 1 /\ t[e].k = "end"
          BY <2>1, <4>1, <5>1 DEF Lines
        <5>3. InInterface(t, e)
          BY <2>3, <3>2, <5>2 DEF Closes
        <5> QED BY <1>1, <2>3, <5>3 DEF Closes
      <4> QED BY <2>1, <4>1, <4>2, <4>3
    <3>5. PICK f : Lists(t, h, e, r, f)
      BY <3>2, <3>4
    <3> QED BY <2>3, <3>3, <3>5, ListsInOrder DEF BodyInOrder
  <2> QED BY <2>2, <2>3
<1>2. ASSUME BodiesInOrder(t) PROVE Ordered(t)
  <2>1. ASSUME NEW h \in Procedures(t)
        PROVE  InOrder(SubSeq(Statements(t, h), 1, Len(Statements(t, h)) - 1))
    <3> DEFINE d == NextEnd(t, h)
               r == SubSeq(Statements(t, h), 1, Len(Statements(t, h)) - 1)
    <3>1. Closes(t, h, d) /\ \E f : Lists(t, h, d, r, f)
      BY ProcedureLists
    <3> HIDE DEF d, r
    <3>2. PICK f : Lists(t, h, d, r, f)
      BY <3>1
    <3>3. h \in DOMAIN t /\ d \in DOMAIN t
      BY <3>1 DEF Closes, Lines
    <3>4. BodyInOrder(t, h, d)
      BY <1>2, <3>1, <3>3 DEF BodiesInOrder
    <3>5. InOrder(r)
      BY <3>2, <3>4, ListsInOrder DEF BodyInOrder
    <3> QED BY <3>5 DEF r
  <2>2. ASSUME NEW h \in Prototypes(t)
        PROVE  InOrder(PrototypeLines(t, h)) /\ \A l \in ToSet(PrototypeLines(t, h)) : Phase(l) < 3
    <3>1. h \in Lines(t, "header") /\ InInterface(t, h) /\ h \in DOMAIN t
      BY DEF Prototypes, Lines
    <3>2. PICK e \in Lines(t, "end") : h < e /\ NothingBetween(t, h, e)
      BY <3>1 DEF WellFormed
    <3>3. e \in DOMAIN t /\ t[e].k = "end"
      BY DEF Lines
    <3>4. InInterface(t, e)
      BY <3>1, <3>2, <3>3, SameInterfaceBetween
    <3>5. Closes(t, h, e)
      BY <3>1, <3>2, <3>4 DEF Closes
    <3>6. BodyInOrder(t, h, e)
      BY <1>2, <3>1, <3>3, <3>5 DEF BodiesInOrder
    <3>7. PICK f : Lists(t, h, e, PrototypeLines(t, h), f)
      BY <3>1, <3>5, PrototypeLists
    <3> QED BY <3>1, <3>6, <3>7, ListsInOrder DEF BodyInOrder
  <2> QED BY <2>1, <2>2 DEF Ordered
<1> QED BY <1>1, <1>2 DEF BodiesInOrder

-----------------------------------------------------------------------------
(* What a pass does to a file it does to what each configuration compiles. *)

\* A USE put in front of the first line behind a header that is no directive.
AfterDirectives(t, u, at, q) ==
  /\ Phase(u[q]) = 1 /\ ~IsDirective(t[at[q]])
  /\ \E h \in Lines(t, "header") : h < at[q] /\ \A j \in h + 1 .. at[q] - 1 : IsDirective(t[j])
  /\ \A p \in DOMAIN u : p < q => at[p] < at[q]

Passed(t, u, at, D, own) ==
  /\ KeepsBranches(t, u, at, D) /\ Follows(t, u, at)
  /\ own \subseteq DOMAIN u
  /\ \A q \in own : Rewritten(t, u, at, q) /\ (~IsDirective(u[q]) => D[q] = 0)
  /\ \A q \in DOMAIN u \ own :
        \/ IsDirective(u[q])
        \/ ~Structural(u[q]) /\ (AfterDirectives(t, u, at, q) \/ BeforeExecuted(t, u, at, q))

HeadersCompiled(t, c) ==
  \A h \in Lines(t, "header"), i \in Active(t, c) : h < i /\ NothingBetween(t, h, i) => h \in Active(t, c)

EndsAgree(t, c) ==
  \A e \in Lines(t, "end") \cap Active(t, c) :
     InInterface(Preprocess(t, c), Cardinality({j \in Active(t, c) : j <= e})) => InInterface(t, e)

LEMMA PassedTypes ==
  ASSUME NEW t, NEW u, NEW at, NEW D, NEW own, Passed(t, u, at, D, own)
  PROVE  /\ t \in Seq(LineType) /\ u \in Seq(LineType) /\ Follows(t, u, at) /\ KeepsBranches(t, u, at, D)
         /\ \A p \in DOMAIN u : at[p] \in DOMAIN t /\ at[p] \in Nat /\ p \in Nat
         /\ \A p \in DOMAIN u : Structural(u[p]) => p \in own /\ D[p] = 0 /\ ~IsDirective(u[p])
<1>1. t \in Seq(LineType) /\ u \in Seq(LineType) /\ Follows(t, u, at) /\ KeepsBranches(t, u, at, D)
  BY DEF Passed, KeepsBranches
<1>2. at \in [DOMAIN u -> DOMAIN t]
  BY DEF Passed, KeepsBranches
<1>3. \A p \in DOMAIN u : at[p] \in DOMAIN t /\ at[p] \in Nat /\ p \in Nat
  BY <1>1, <1>2
<1>4. ASSUME NEW p \in DOMAIN u, Structural(u[p]) PROVE p \in own /\ D[p] = 0 /\ ~IsDirective(u[p])
  <2>1. ~IsDirective(u[p])
    BY <1>4 DEF IsDirective, Structural
  <2>2. p \in own
    BY <1>4, <2>1 DEF Passed
  <2> QED BY <2>1, <2>2 DEF Passed
<1> QED BY <1>1, <1>3, <1>4

\* Line p of w stems from the line of v that its line of u stems from in t.
Lifted(t, u, at, v, pv, w, pw, ct) ==
  /\ ct \in [DOMAIN w -> DOMAIN v]
  /\ \A p \in DOMAIN w : pv[ct[p]] = at[pw[p]]

LEMMA LiftedIs ==
  ASSUME NEW t, NEW u, NEW at, NEW D, NEW own, Passed(t, u, at, D, own), NEW c,
         NEW v, NEW pv, Compiled(t, c, v, pv), NEW w, NEW pw, Compiled(u, c, w, pw)
  PROVE  \E ct : Lifted(t, u, at, v, pv, w, pw, ct)
<1> DEFINE ct == [p \in DOMAIN w |-> CHOOSE x \in DOMAIN v : pv[x] = at[pw[p]]]
<1>1. ASSUME NEW p \in DOMAIN w PROVE \E x \in DOMAIN v : pv[x] = at[pw[p]]
  <2>1. pw[p] \in DOMAIN u /\ pw[p] \in Active(u, c)
    BY DEF Compiled, Active
  <2>2. at[pw[p]] \in Active(t, c)
    BY <2>1, PassedTypes, ActiveFollows
  <2> QED BY <2>2 DEF Compiled
<1>2. \A p \in DOMAIN w : ct[p] \in DOMAIN v /\ pv[ct[p]] = at[pw[p]]
  BY <1>1
<1>3. ct \in [DOMAIN w -> DOMAIN v]
  BY <1>2
<1> HIDE DEF ct
<1> QED BY <1>2, <1>3 DEF Lifted

LEMMA LiftedOrder ==
  ASSUME NEW t, NEW u, NEW at, NEW D, NEW own, Passed(t, u, at, D, own), NEW c,
         NEW v, NEW pv, Compiled(t, c, v, pv), NEW w, NEW pw, Compiled(u, c, w, pw),
         NEW ct, Lifted(t, u, at, v, pv, w, pw, ct), NEW p \in DOMAIN w, NEW q \in DOMAIN w
  PROVE  /\ ct[p] \in DOMAIN v /\ ct[p] \in Nat /\ ct[q] \in DOMAIN v /\ ct[q] \in Nat
         /\ pw[p] \in DOMAIN u /\ pw[q] \in DOMAIN u /\ pw[p] \in Active(u, c)
         /\ v[ct[p]] = t[at[pw[p]]] /\ w[p] = u[pw[p]]
         /\ ct[p] < ct[q] <=> at[pw[p]] < at[pw[q]]
         /\ p < q <=> pw[p] < pw[q]
<1>1. ct[p] \in DOMAIN v /\ ct[q] \in DOMAIN v /\ pv[ct[p]] = at[pw[p]] /\ pv[ct[q]] = at[pw[q]]
  BY DEF Lifted
<1>2. pw[p] \in DOMAIN u /\ pw[q] \in DOMAIN u /\ pw[p] \in Active(u, c) /\ (p < q <=> pw[p] < pw[q])
  BY CompiledLines
<1>3. v[ct[p]] = t[at[pw[p]]] /\ w[p] = u[pw[p]]
  BY <1>1 DEF Compiled
<1>4. ct[p] \in Nat /\ ct[q] \in Nat /\ (ct[p] < ct[q] <=> pv[ct[p]] < pv[ct[q]])
  BY <1>1, CompiledLines
<1> QED BY <1>1, <1>2, <1>3, <1>4

LEMMA LiftedFollows ==
  ASSUME NEW t, NEW u, NEW at, NEW D, NEW own, Passed(t, u, at, D, own), NEW c,
         NEW v, NEW pv, Compiled(t, c, v, pv), NEW w, NEW pw, Compiled(u, c, w, pw),
         NEW ct, Lifted(t, u, at, v, pv, w, pw, ct)
  PROVE  Follows(v, w, ct)
<1>1. Follows(t, u, at)
  BY PassedTypes
<1>2. ct \in [DOMAIN w -> Nat]
  <2>1. v \in Seq(LineType) /\ ct \in [DOMAIN w -> DOMAIN v]
    BY DEF Compiled, Lifted
  <2> QED BY <2>1
<1>3. ASSUME NEW p \in DOMAIN w, NEW q \in DOMAIN w, p < q PROVE ct[p] <= ct[q]
  <2>1. pw[p] < pw[q] /\ pw[p] \in DOMAIN u /\ pw[q] \in DOMAIN u /\ ct[p] \in Nat /\ ct[q] \in Nat
    BY <1>3, LiftedOrder
  <2>2. at[pw[p]] <= at[pw[q]] /\ at[pw[p]] \in Nat /\ at[pw[q]] \in Nat
    BY <1>1, <2>1, PassedTypes DEF Follows
  <2>3. ct[q] < ct[p] <=> at[pw[q]] < at[pw[p]]
    BY LiftedOrder
  <2> QED BY <2>1, <2>2, <2>3
<1>4. ASSUME NEW p \in DOMAIN w, Structural(w[p])
      PROVE  /\ ct[p] \in DOMAIN v /\ w[p].k = v[ct[p]].k
             /\ \A q \in DOMAIN w : p < q => ct[p] < ct[q]
  <2>1. pw[p] \in DOMAIN u /\ w[p] = u[pw[p]] /\ v[ct[p]] = t[at[pw[p]]] /\ ct[p] \in DOMAIN v
    BY LiftedOrder
  <2>2. u[pw[p]].k = t[at[pw[p]]].k /\ \A q \in DOMAIN u : pw[p] < q => at[pw[p]] < at[q]
    BY <1>1, <1>4, <2>1 DEF Follows
  <2>3. ASSUME NEW q \in DOMAIN w, p < q PROVE ct[p] < ct[q]
    BY <2>2, <2>3, LiftedOrder
  <2> QED BY <2>1, <2>2, <2>3
<1>5. ASSUME NEW x \in DOMAIN v, Structural(v[x]) PROVE \E p \in DOMAIN w : ct[p] = x /\ Structural(w[p])
  <2>1. pv[x] \in Active(t, c) /\ pv[x] \in DOMAIN t /\ v[x] = t[pv[x]]
    BY DEF Compiled, Active
  <2>2. PICK q \in DOMAIN u : at[q] = pv[x] /\ Structural(u[q])
    BY <1>1, <1>5, <2>1 DEF Follows
  <2>3. q \in Active(u, c)
    BY <2>1, <2>2, PassedTypes, ActiveFollows
  <2>4. PICK p \in DOMAIN w : pw[p] = q
    BY <2>3 DEF Compiled
  <2>5. ct[p] \in DOMAIN v /\ pv[ct[p]] = pv[x] /\ w[p] = u[q]
    BY <2>2, <2>4 DEF Lifted, Compiled
  <2>6. ct[p] = x
    BY <2>5, CompiledLines
  <2> QED BY <2>2, <2>5, <2>6
<1> QED BY <1>2, <1>3, <1>4, <1>5 DEF Follows

LEMMA LiftedCarried ==
  ASSUME NEW t, NEW u, NEW at, NEW D, NEW own, Passed(t, u, at, D, own), NEW c,
         HeadersCompiled(t, c), EndsAgree(t, c),
         NEW pv, Compiled(t, c, Preprocess(t, c), pv), NEW w, NEW pw, Compiled(u, c, w, pw),
         NEW ct, Lifted(t, u, at, Preprocess(t, c), pv, w, pw, ct)
  PROVE  Carried(Preprocess(t, c), w, ct, {p \in DOMAIN w : pw[p] \in own})
<1> DEFINE v == Preprocess(t, c)
<1>1. Compiled(t, c, v, pv) /\ Lifted(t, u, at, v, pv, w, pw, ct)
  OBVIOUS
<1>2. \A x \in DOMAIN v : InInterface(v, x) /\ t[pv[x]].k = "end" => InInterface(t, pv[x])
  <2> SUFFICES ASSUME NEW x \in DOMAIN v, InInterface(v, x), t[pv[x]].k = "end" PROVE InInterface(t, pv[x])
    OBVIOUS
  <2>1. pv[x] \in Active(t, c) /\ pv[x] \in DOMAIN t /\ Cardinality({j \in Active(t, c) : j <= pv[x]}) = x
    BY <1>1, PlaceIs, CompiledLines
  <2>2. pv[x] \in Lines(t, "end") \cap Active(t, c)
    BY <2>1 DEF Lines
  <2> QED BY <2>1, <2>2 DEF EndsAgree
<1> HIDE DEF v
<1>3. Follows(v, w, ct)
  BY <1>1, LiftedFollows
<1>4. v \in Seq(LineType) /\ DOMAIN v = 1 .. Len(v) /\ Len(v) \in Nat
  <2>1. v \in Seq(LineType)
    BY <1>1 DEF Compiled
  <2> QED BY <2>1
<1>5. ASSUME NEW p \in DOMAIN w, pw[p] \in own PROVE Rewritten(v, w, ct, p)
  <2>1. /\ pw[p] \in DOMAIN u /\ w[p] = u[pw[p]] /\ v[ct[p]] = t[at[pw[p]]] /\ ct[p] \in DOMAIN v
    BY <1>1, LiftedOrder
  <2>2. Rewritten(t, u, at, pw[p])
    BY <1>5 DEF Passed
  <2>3. ASSUME NEW q \in DOMAIN w, p < q PROVE ct[p] < ct[q]
    <3>1. pw[q] \in DOMAIN u /\ pw[p] < pw[q] /\ (ct[p] < ct[q] <=> at[pw[p]] < at[pw[q]])
      BY <1>1, <2>3, LiftedOrder
    <3> QED BY <2>2, <3>1 DEF Rewritten
  <2> QED BY <2>1, <2>2, <2>3 DEF Rewritten
<1>6. ASSUME NEW p \in DOMAIN w, pw[p] \notin own
      PROVE  ~Structural(w[p]) /\ (FirstUse(v, w, ct, p) \/ BeforeExecuted(v, w, ct, p))
  <2>1. /\ pw[p] \in DOMAIN u /\ w[p] = u[pw[p]] /\ v[ct[p]] = t[at[pw[p]]] /\ ct[p] \in DOMAIN v /\ ct[p] \in Nat
        /\ pw[p] \in Active(u, c)
    BY <1>1, LiftedOrder
  <2>2. ~IsDirective(u[pw[p]]) /\ at[pw[p]] \in Active(t, c)
    BY <2>1, PassedTypes, ActiveFollows
  <2>3. ~Structural(u[pw[p]]) /\ (AfterDirectives(t, u, at, pw[p]) \/ BeforeExecuted(t, u, at, pw[p]))
    BY <1>6, <2>1, <2>2 DEF Passed
  <2>4. pv[ct[p]] = at[pw[p]]
    BY DEF Lifted
  <2>5. CASE AfterDirectives(t, u, at, pw[p])
    <3>1. PICK h \in Lines(t, "header") : h < at[pw[p]] /\ \A j \in h + 1 .. at[pw[p]] - 1 : IsDirective(t[j])
      BY <2>5 DEF AfterDirectives
    <3>2. NothingBetween(t, h, at[pw[p]])
      BY <3>1 DEF NothingBetween, IsDirective, Structural
    <3>3. h \in Active(t, c)
      BY <2>2, <3>1, <3>2 DEF HeadersCompiled
    <3>4. PICK y \in DOMAIN v : pv[y] = h
      BY <1>1, <3>3 DEF Compiled
    <3>5. y < ct[p] /\ y \in Nat /\ h \in Nat /\ at[pw[p]] \in Nat
      BY <1>1, <2>1, <2>4, <3>1, <3>4, CompiledLines
    <3>6. y = ct[p] - 1
      <4>1. SUFFICES ASSUME y # ct[p] - 1 PROVE FALSE
        OBVIOUS
      <4> DEFINE z == ct[p] - 1
      <4>2. z \in DOMAIN v /\ y < z /\ z < ct[p]
        BY <1>4, <2>1, <3>5, <4>1
      <4>3. /\ pv[y] < pv[z] /\ pv[z] < pv[ct[p]] /\ pv[z] \in Nat /\ ~IsDirective(t[pv[z]])
        BY <1>1, <2>1, <4>2, CompiledLines
      <4>4. pv[z] \in h + 1 .. at[pw[p]] - 1
        BY <2>4, <3>4, <3>5, <4>3
      <4> QED BY <3>1, <4>3, <4>4
    <3>7. v[y].k = "header"
      BY <1>1, <3>1, <3>4 DEF Compiled, Lines
    <3>8. ASSUME NEW q \in DOMAIN w, q < p PROVE ct[q] < ct[p]
      <4>1. pw[q] \in DOMAIN u /\ pw[q] < pw[p] /\ (ct[q] < ct[p] <=> at[pw[q]] < at[pw[p]])
        BY <1>1, <3>8, LiftedOrder
      <4> QED BY <2>5, <4>1 DEF AfterDirectives
    <3>9. ct[p] - 1 \in Lines(v, "header")
      BY <3>4, <3>6, <3>7 DEF Lines
    <3>10. Phase(w[p]) = 1
      BY <2>1, <2>5 DEF AfterDirectives
    <3> QED BY <2>1, <2>3, <3>8, <3>9, <3>10 DEF FirstUse
  <2>6. CASE BeforeExecuted(t, u, at, pw[p])
    <3>1. v[ct[p]].k = "end" => (InInterface(v, ct[p]) => InInterface(t, at[pw[p]]))
      BY <1>2, <2>1, <2>4
    <3> QED BY <2>1, <2>3, <2>6, <3>1 DEF BeforeExecuted
  <2> QED BY <2>3, <2>5, <2>6
<1> QED BY <1>3, <1>5, <1>6 DEF Carried, v

\* So what a configuration compiles of a file stays a file in order.
LEMMA CompilesStays ==
  ASSUME NEW t, NEW u, NEW at, NEW D, NEW own, Passed(t, u, at, D, own), NEW c, Compiles(t, c)
  PROVE  Compiles(u, c)
<1> DEFINE v == Preprocess(t, c)
           w == Preprocess(u, c)
<1>1. t \in Seq(LineType) /\ u \in Seq(LineType) /\ Follows(t, u, at)
  BY PassedTypes
<1>2. WellFormed(v) /\ Ordered(v) /\ HeadersCompiled(t, c) /\ EndsAgree(t, c)
  BY DEF Compiles, HeadersCompiled, EndsAgree
<1>3. PICK pv : Compiled(t, c, v, pv)
  BY <1>1, PreprocessIs
<1>4. PICK pw : Compiled(u, c, w, pw)
  BY <1>1, PreprocessIs
<1> HIDE DEF v, w
<1>5. PICK ct : Lifted(t, u, at, v, pv, w, pw, ct)
  BY <1>3, <1>4, LiftedIs
<1>6. Follows(v, w, ct) /\ v \in Seq(LineType) /\ w \in Seq(LineType)
  BY <1>3, <1>4, <1>5, LiftedFollows DEF Compiled
<1>7. Carried(v, w, ct, {p \in DOMAIN w : pw[p] \in own})
  BY <1>2, <1>3, <1>4, <1>5, LiftedCarried DEF v
<1>8. WellFormed(w)
  BY <1>2, <1>6, WellFormedStays
<1>9. Ordered(w)
  <2>1. BodiesInOrder(v)
    BY <1>2, <1>6, OrderedBodies
  <2>2. BodiesInOrder(w)
    BY <1>6, <1>7, <2>1, OrderCarried
  <2> QED BY <1>6, <1>8, <2>2, OrderedBodies
<1>10. ASSUME NEW h \in Lines(u, "header"), NEW i \in Active(u, c), h < i, NothingBetween(u, h, i)
       PROVE  h \in Active(u, c)
  <2>1. h \in DOMAIN u /\ i \in DOMAIN u /\ Structural(u[h]) /\ h \in Nat /\ i \in Nat
    BY <1>1 DEF Lines, Structural, Active
  <2>2. /\ at[h] < at[i] /\ at[h] \in Nat /\ at[i] \in Nat /\ at[h] \in DOMAIN t /\ t[at[h]].k = "header"
        /\ at[i] \in DOMAIN t
    BY <1>1, <1>10, <2>1, StructureInOrder, PassedTypes DEF Follows, Lines
  <2>3. NothingBetween(t, at[h], at[i])
    <3> SUFFICES ASSUME NEW j \in at[h] + 1 .. at[i] - 1, Structural(t[j]) PROVE FALSE
      BY DEF NothingBetween
    <3>1. j \in DOMAIN t /\ at[h] < j /\ j < at[i] /\ j \in Nat
      BY <1>1, <2>2
    <3>2. PICK p \in DOMAIN u : at[p] = j /\ Structural(u[p])
      BY <1>1, <3>1 DEF Follows
    <3>3. p \in Nat /\ h < p /\ p < i
      BY <1>1, <2>1, <3>1, <3>2, StructureInOrder
    <3> QED BY <1>10, <2>1, <3>2, <3>3 DEF NothingBetween
  <2>4. at[i] \in Active(t, c)
    BY <2>1, PassedTypes, ActiveFollows
  <2>5. at[h] \in Active(t, c)
    BY <1>2, <2>2, <2>3, <2>4 DEF HeadersCompiled, Lines
  <2> QED BY <2>1, <2>5, PassedTypes, ActiveFollows
<1>11. ASSUME NEW e \in Lines(u, "end") \cap Active(u, c),
              InInterface(w, Cardinality({j \in Active(u, c) : j <= e}))
       PROVE  InInterface(u, e)
  <2>1. e \in DOMAIN u /\ u[e].k = "end" /\ Structural(u[e])
    BY DEF Lines, Structural
  <2>2. PICK p \in DOMAIN w : pw[p] = e
    BY <1>4 DEF Compiled
  <2>3. InInterface(w, p) /\ w[p] = u[e]
    <3>1. Cardinality({j \in Active(u, c) : j <= pw[p]}) = p
      BY <1>4, PlaceIs
    <3> QED BY <1>4, <1>11, <2>2, <3>1 DEF Compiled
  <2>4. InInterface(v, ct[p])
    BY <1>6, <2>1, <2>3, SameInterface
  <2>5. ct[p] \in DOMAIN v /\ pv[ct[p]] = at[e]
    BY <1>5, <2>2 DEF Lifted
  <2>6. at[e] \in Active(t, c) /\ Cardinality({j \in Active(t, c) : j <= at[e]}) = ct[p]
    BY <1>3, <2>5, PlaceIs, CompiledLines
  <2>7. at[e] \in DOMAIN t /\ t[at[e]].k = "end"
    BY <1>1, <2>1 DEF Follows
  <2>8. at[e] \in Lines(t, "end") \cap Active(t, c)
    BY <2>6, <2>7 DEF Lines
  <2>9. InInterface(t, at[e])
    BY <1>2, <2>4, <2>6, <2>8 DEF EndsAgree, v
  <2> QED BY <1>1, <2>1, <2>9, SameInterface
<1> QED BY <1>8, <1>9, <1>10, <1>11 DEF Compiles, w

-----------------------------------------------------------------------------
(* The passes that make of a line one line or none.                        *)

\* A directive stays what it is, a comment a comment; what is no comment
\* becomes one or keeps its place in the order.
Neat(l, x) ==
  /\ OneFor(l, x)
  /\ IsDirective(l) => x # <<>> /\ x[1].k = l.k /\ x[1].cond = l.cond
  /\ x # <<>> => /\ IsDirective(x[1]) => IsDirective(l)
                 /\ IsComment(x[1]) \/ (~IsComment(l) /\ Phase(x[1]) = Phase(l))

LEMMA KindDecides ==
  ASSUME NEW l, NEW m, m.k = l.k
  PROVE  /\ Structural(m) <=> Structural(l)
         /\ IsDirective(m) <=> IsDirective(l)
         /\ IsComment(m) <=> IsComment(l)
         /\ Phase(m) = Phase(l)
BY DEF Structural, IsDirective, IsComment, Phase

LEMMA NeatLine ==
  ASSUME NEW l, NEW m \in LineType, m.k = l.k, IsDirective(l) => m.cond = l.cond
  PROVE  Neat(l, <<m>>)
<1>1. OneFor(l, <<m>>) /\ <<m>> # <<>> /\ <<m>>[1] = m
  BY OneLine
<1>2. (IsDirective(m) <=> IsDirective(l)) /\ (IsComment(m) <=> IsComment(l)) /\ Phase(m) = Phase(l)
  BY KindDecides
<1> QED BY <1>1, <1>2 DEF Neat

LEMMA NeatNone ==
  ASSUME NEW l, ~Structural(l), ~IsDirective(l)
  PROVE  Neat(l, <<>>)
BY NoLine DEF Neat

LEMMA NeatPasses ==
  ASSUME NEW t \in Seq(LineType), NEW x, x = [i \in DOMAIN t |-> x[i]],
         \A i \in DOMAIN t : Neat(t[i], x[i])
  PROVE  \E at, D : Passed(t, FlattenSeq(x), at, D, DOMAIN FlattenSeq(x))
<1> DEFINE u == FlattenSeq(x)
           D == [q \in 0 .. Len(u) |-> 0]
<1>1. DOMAIN x = DOMAIN t /\ \A i \in DOMAIN t : OneFor(t[i], x[i])
  BY DEF Neat
<1>2. PICK at : Becomes(t, x, u, at)
  BY <1>1, LinesBecome
<1> HIDE DEF u
<1>3. u \in Seq(LineType) /\ Follows(t, u, at) /\ DOMAIN u = 1 .. Len(u) /\ Len(u) \in Nat /\ DOMAIN t = 1 .. Len(t)
      /\ \A i \in DOMAIN t : x[i] # <<>> => \E p \in DOMAIN u : at[p] = i
  BY <1>2 DEF Becomes
<1>4. ASSUME NEW p \in DOMAIN u
      PROVE  at[p] \in DOMAIN t /\ at[p] \in Nat /\ p \in Nat /\ x[at[p]] # <<>> /\ x[at[p]][1] = u[p]
  <2>1. at[p] \in DOMAIN t /\ x[at[p]] = <<u[p]>>
    BY <1>2 DEF Becomes
  <2>2. PICK y : y = u[p]
    OBVIOUS
  <2>3. <<y>> # <<>> /\ <<y>>[1] = y
    OBVIOUS
  <2>4. at[p] \in Nat /\ p \in Nat
    BY <1>3, <2>1
  <2> QED BY <2>1, <2>2, <2>3, <2>4
<1>5. \A p, q \in DOMAIN u : p < q => at[p] < at[q]
  BY <1>2 DEF Becomes
<1>6. ASSUME NEW p \in DOMAIN u
      PROVE  /\ Structural(u[p]) <=> Structural(t[at[p]])
             /\ IsDirective(u[p]) <=> IsDirective(t[at[p]])
             /\ IsDirective(t[at[p]]) => u[p].k = t[at[p]].k /\ u[p].cond = t[at[p]].cond
             /\ IsComment(u[p]) \/ (~IsComment(t[at[p]]) /\ Phase(u[p]) = Phase(t[at[p]]))
  <2>1. Neat(t[at[p]], x[at[p]]) /\ x[at[p]] # <<>> /\ x[at[p]][1] = u[p]
    BY <1>4
  <2>2. Structural(t[at[p]]) \/ Structural(u[p]) => u[p].k = t[at[p]].k
    BY <2>1 DEF Neat, OneFor
  <2>3. Structural(u[p]) <=> Structural(t[at[p]])
    BY <2>2, KindDecides
  <2>4. IsDirective(t[at[p]]) => u[p].k = t[at[p]].k /\ u[p].cond = t[at[p]].cond
    BY <2>1 DEF Neat
  <2>5. IsDirective(u[p]) <=> IsDirective(t[at[p]])
    BY <2>1, <2>4, KindDecides DEF Neat
  <2>6. IsComment(u[p]) \/ (~IsComment(t[at[p]]) /\ Phase(u[p]) = Phase(t[at[p]]))
    BY <2>1 DEF Neat
  <2> QED BY <2>3, <2>4, <2>5, <2>6
<1>7. \A q \in 0 .. Len(u) : D[q] = 0
  OBVIOUS
<1>8. D \in [0 .. Len(u) -> Nat] /\ D[0] = 0
  BY <1>3
<1> HIDE DEF D
<1>9. KeepsBranches(t, u, at, D)
  <2>1. at \in [DOMAIN u -> DOMAIN t]
    <3>1. at \in [DOMAIN u -> Nat]
      BY <1>3 DEF Follows
    <3> QED BY <1>4, <3>1
  <2>2. ASSUME NEW p \in DOMAIN u, NEW q \in DOMAIN u, p < q PROVE at[p] <= at[q]
    <3>1. at[p] < at[q] /\ at[p] \in Nat /\ at[q] \in Nat
      BY <1>4, <1>5, <2>2
    <3> QED BY <3>1
  <2>3. ASSUME NEW i \in DOMAIN t, IsDirective(t[i]) PROVE \E q \in DOMAIN u : at[q] = i
    BY <1>3, <2>3 DEF Neat
  <2>4. ASSUME NEW q \in DOMAIN u PROVE D[q] = 0 /\ D[q - 1] = 0
    <3>1. q \in 0 .. Len(u) /\ q - 1 \in 0 .. Len(u)
      BY <1>3
    <3> QED BY <1>7, <3>1
  <2>5. ASSUME NEW q \in DOMAIN u, NEW p \in DOMAIN u, at[p] = at[q] PROVE p = q
    <3>1. p \in Nat /\ q \in Nat /\ at[p] \in Nat
      BY <1>4
    <3>2. ~(p < q) /\ ~(q < p)
      BY <1>5, <2>5, <3>1
    <3> QED BY <3>1, <3>2
  <2>6. ASSUME NEW q \in DOMAIN u, ~IsDirective(t[at[q]]) PROVE StepDepth(u[q], D[q - 1], D[q])
    <3>1. ~IsDirective(u[q])
      BY <1>6, <2>6
    <3> QED BY <2>4, <3>1 DEF StepDepth, IsDirective
  <2> QED BY <1>3, <1>6, <1>8, <2>1, <2>2, <2>3, <2>4, <2>5, <2>6 DEF KeepsBranches
<1>10. ASSUME NEW q \in DOMAIN u PROVE Rewritten(t, u, at, q) /\ D[q] = 0
  <2>1. D[q] = 0
    <3>1. q \in 0 .. Len(u)
      BY <1>3
    <3> QED BY <1>7, <3>1
  <2> QED BY <1>4, <1>5, <1>6, <2>1 DEF Rewritten
<1>11. Passed(t, u, at, D, DOMAIN u)
  BY <1>3, <1>9, <1>10 DEF Passed
<1> QED BY <1>11 DEF u

LEMMA NeatCompiles ==
  ASSUME NEW t \in Seq(LineType), NEW x, x = [i \in DOMAIN t |-> x[i]],
         \A i \in DOMAIN t : Neat(t[i], x[i]), NEW c, Compiles(t, c)
  PROVE  Compiles(FlattenSeq(x), c)
<1>1. PICK at, D : Passed(t, FlattenSeq(x), at, D, DOMAIN FlattenSeq(x))
  BY NeatPasses
<1> QED BY <1>1, CompilesStays

LEMMA PointwiseCompiles ==
  ASSUME NEW t \in Seq(LineType), NEW u, u = [i \in DOMAIN t |-> u[i]],
         \A i \in DOMAIN t : u[i] \in LineType /\ u[i].k = t[i].k /\ (IsDirective(t[i]) => u[i].cond = t[i].cond),
         NEW c, Compiles(t, c)
  PROVE  Compiles(u, c)
<1> DEFINE x == [i \in DOMAIN t |-> <<u[i]>>]
<1>1. DOMAIN t = 1 .. Len(t) /\ Len(t) \in Nat /\ DOMAIN u = DOMAIN t
  OBVIOUS
<1>2. u \in Seq(LineType) /\ Len(u) = Len(t)
  BY <1>1
<1>3. \A i \in DOMAIN t : x[i] = <<u[i]>>
  OBVIOUS
<1>4. \A i \in DOMAIN t : Neat(t[i], x[i])
  BY <1>3, NeatLine
<1>5. x = [i \in DOMAIN t |-> x[i]]
  OBVIOUS
<1>6. \A m \in LineType : <<m>> \in Seq(LineType) /\ Len(<<m>>) = 1 /\ <<m>>[1] = m
  OBVIOUS
<1> HIDE DEF x
<1>7. \A i \in DOMAIN t : x[i] \in Seq(LineType) /\ Len(x[i]) = 1 /\ x[i][1] = u[i]
  BY <1>3, <1>6
<1>8. x \in Seq(Seq(LineType)) /\ Len(x) = Len(u)
  BY <1>1, <1>2, <1>5, <1>7
<1>9. FlattenSeq(x) = u
  BY <1>1, <1>2, <1>7, <1>8, FlattenOfSingletons
<1>10. Compiles(FlattenSeq(x), c)
  BY <1>4, <1>5, NeatCompiles
<1> QED BY <1>9, <1>10

-----------------------------------------------------------------------------
(* A procedure with a statement function the walk would stop at has no     *)
(* constant that is assigned.                                              *)

LEMMA ScopeStays ==
  ASSUME NEW t \in Seq(LineType), NEW u \in Seq(LineType), NEW at, Follows(t, u, at),
         NEW q \in DOMAIN u, Structural(u[q]) \/ (at[q] \in DOMAIN t => ~Structural(t[at[q]]))
  PROVE  Scope(u, q) = Scope(t, at[q])
<1> DEFINE A == {p \in Procedures(u) : p <= q}
           B == {h \in Procedures(t) : h <= at[q]}
<1>1. at[q] \in Nat /\ q \in Nat
  BY DEF Follows
<1>2. ASSUME NEW p \in DOMAIN u, Structural(u[p])
      PROVE  /\ p <= q <=> at[p] <= at[q]
             /\ p \in Procedures(u) <=> at[p] \in Procedures(t)
  <2>1. at[p] \in DOMAIN t /\ t[at[p]].k = u[p].k /\ Structural(t[at[p]])
    BY <1>2 DEF Follows, Structural
  <2>2. at[p] \in Nat /\ p \in Nat /\ (p < q <=> at[p] < at[q])
    BY <1>2, StructureInOrder
  <2>3. p <= q <=> at[p] <= at[q]
    <3>1. CASE Structural(u[q])
      <4>1. p = q <=> at[p] = at[q]
        BY <1>2, <3>1, StructureInOrder
      <4> QED BY <1>1, <2>2, <4>1
    <3>2. CASE at[q] \in DOMAIN t => ~Structural(t[at[q]])
      <4>1. at[p] # at[q] /\ p # q
        BY <2>1, <3>2
      <4> QED BY <1>1, <2>2, <4>1
    <3> QED BY <3>1, <3>2
  <2>4. InInterface(u, p) <=> InInterface(t, at[p])
    BY <1>2, SameInterface
  <2>5. p \in Procedures(u) <=> at[p] \in Procedures(t)
    BY <2>1, <2>4 DEF Procedures, Lines
  <2> QED BY <2>3, <2>5
<1>3. ASSUME NEW p \in A PROVE at[p] \in B
  <2>1. p \in DOMAIN u /\ Structural(u[p]) /\ p <= q /\ p \in Procedures(u)
    BY ProcedureLines
  <2> QED BY <1>2, <2>1
<1>4. ASSUME NEW h \in B PROVE \E p \in A : at[p] = h
  <2>1. h \in DOMAIN t /\ Structural(t[h]) /\ h <= at[q] /\ h \in Procedures(t)
    BY ProcedureLines
  <2>2. PICK p \in DOMAIN u : at[p] = h /\ Structural(u[p])
    BY <2>1 DEF Follows
  <2> QED BY <1>2, <2>1, <2>2
<1>5. A \subseteq {p \in DOMAIN u : Structural(u[p])} /\ B \subseteq DOMAIN t
  BY ProcedureLines
<1> HIDE DEF A, B
<1>6. Cardinality(B) = Cardinality(A)
  BY <1>3, <1>4, <1>5, SameCount
<1> QED BY <1>6 DEF Scope, A, B

\* What is to be assigned is in no procedure with such a statement function.
AssignsNone(t, e, sc) == /\ \A i \in DOMAIN t : AssignsSome(t[i], t) => Scope(t, i) # sc
                         /\ \A j \in DOMAIN e : e[j].scope # sc
FunctionsApart(t, e) ==
  \A k \in DOMAIN t : t[k].k \in FunctionKinds => IsStatementFunction(t, k) \/ AssignsNone(t, e, Scope(t, k))

Spares(l, x) ==
  /\ IsComment(l) \/ l.k \in FunctionKinds => x # <<>> /\ x[1].k = l.k
  /\ x # <<>> /\ x[1].k \in FunctionKinds => l.k = x[1].k

\* Lines that keep their order are no nearer to each other than they were.
LEMMA NoNearer ==
  ASSUME NEW at, NEW p \in Nat, NEW k \in Nat, p <= k, \A j \in p .. k : at[j] \in Nat,
         \A i, j \in p .. k : i < j => at[i] < at[j]
  PROVE  k - p <= at[k] - at[p]
<1> DEFINE f == [j \in p .. k |-> at[j]]
<1>1. p \in p .. k /\ k \in p .. k /\ at[p] \in Nat /\ at[k] \in Nat /\ at[p] <= at[k]
  OBVIOUS
<1>2. f \in Injection(p .. k, at[p] .. at[k])
  <2>1. ASSUME NEW j \in p .. k PROVE at[j] \in at[p] .. at[k]
    BY <1>1, <2>1
  <2>2. \A i, j \in p .. k : at[i] = at[j] => i = j
    OBVIOUS
  <2> QED BY <2>1, <2>2 DEF Injection, IsInjective
<1> HIDE DEF f
<1>3. PICK a, b \in Nat : a = at[p] /\ b = at[k] /\ a <= b
  BY <1>1
<1>4. \A i, j \in Nat : i <= j => IsFiniteSet(i .. j) /\ Cardinality(i .. j) = j - i + 1
  <2> TAKE i, j \in Nat
  <2>1. i \in Int /\ j \in Int /\ (i <= j => ~(i > j))
    OBVIOUS
  <2>2. IsFiniteSet(i .. j) /\ Cardinality(i .. j) = IF i > j THEN 0 ELSE j - i + 1
    BY <2>1, FS_Interval
  <2> QED BY <2>1, <2>2
<1>5. Cardinality(p .. k) <= Cardinality(a .. b)
  BY <1>2, <1>3, <1>4, FS_Injection
<1>6. Cardinality(p .. k) = k - p + 1 /\ Cardinality(a .. b) = b - a + 1
  BY <1>3, <1>4
<1> QED BY <1>3, <1>5, <1>6

LEMMA FunctionsStay ==
  ASSUME NEW t \in Seq(LineType), NEW x, x = [i \in DOMAIN t |-> x[i]], NEW u, u = FlattenSeq(x),
         \A i \in DOMAIN t : OneFor(t[i], x[i]) /\ Spares(t[i], x[i]),
         \A i \in DOMAIN t : x[i] # <<>> /\ AssignsSome(x[i][1], u) => AssignsSome(t[i], t),
         NEW e, FunctionsApart(t, e)
  PROVE  FunctionsApart(u, e)
<1>1. DOMAIN x = DOMAIN t
  OBVIOUS
<1>2. PICK at : Becomes(t, x, u, at)
  BY <1>1, LinesBecome
<1>3. u \in Seq(LineType) /\ Follows(t, u, at)
      /\ \A i \in DOMAIN t : x[i] # <<>> => \E p \in DOMAIN u : at[p] = i
  BY <1>2 DEF Becomes
<1>4. ASSUME NEW p \in DOMAIN u
      PROVE  at[p] \in DOMAIN t /\ at[p] \in Nat /\ p \in Nat /\ x[at[p]] # <<>> /\ x[at[p]][1] = u[p]
  <2>1. at[p] \in DOMAIN t /\ x[at[p]] = <<u[p]>>
    BY <1>2 DEF Becomes
  <2>2. PICK y : y = u[p]
    OBVIOUS
  <2>3. <<y>> # <<>> /\ <<y>>[1] = y
    OBVIOUS
  <2>4. at[p] \in Nat /\ p \in Nat
    BY <1>3, <2>1
  <2> QED BY <2>1, <2>2, <2>3, <2>4
<1>5. \A p, q \in DOMAIN u : p < q => at[p] < at[q]
  BY <1>2 DEF Becomes
<1>6. ASSUME NEW p \in DOMAIN u PROVE Scope(u, p) = Scope(t, at[p])
  <2>1. OneFor(t[at[p]], x[at[p]]) /\ x[at[p]] # <<>> /\ x[at[p]][1] = u[p]
    BY <1>4
  <2>2. Structural(t[at[p]]) => Structural(u[p])
    BY <2>1, KindDecides DEF OneFor
  <2> QED BY <1>3, <2>2, ScopeStays
<1>7. ASSUME NEW k \in DOMAIN u, u[k].k \in FunctionKinds PROVE at[k] \in DOMAIN t /\ t[at[k]].k = u[k].k
  BY <1>4, <1>7 DEF Spares
<1>8. ASSUME NEW k \in DOMAIN u, u[k].k \in FunctionKinds, IsStatementFunction(t, at[k]) PROVE IsStatementFunction(u, k)
  <2>1. u[k].k = "stmtfn" /\ at[k] \in Nat /\ k \in Nat /\ at[k] \in DOMAIN t
    BY <1>4, <1>7, <1>8 DEF IsStatementFunction
  <2>2. PICK m \in Lines(t, "marker") :
          m < at[k] /\ at[k] <= m + MarkerWindow /\ \A j \in m .. at[k] : IsComment(t[j]) \/ t[j].k = "stmtfn"
    BY <1>8 DEF IsStatementFunction
  <2>3. m \in DOMAIN t /\ t[m].k = "marker" /\ m \in Nat /\ IsComment(t[m])
    BY DEF Lines, IsComment
  <2>4. x[m] # <<>> /\ x[m][1].k = "marker"
    BY <2>3 DEF Spares
  <2>5. PICK p \in DOMAIN u : at[p] = m
    BY <1>3, <2>3, <2>4
  <2>6. u[p].k = "marker" /\ p \in Nat
    BY <1>4, <2>4, <2>5
  <2>7. p < k
    <3>1. k < p => at[k] < at[p]
      BY <1>5, <2>1
    <3>2. p # k
      BY <2>1, <2>6
    <3> QED BY <2>1, <2>2, <2>3, <2>5, <2>6, <3>1, <3>2
  <2>8. ASSUME NEW j \in p .. k PROVE IsComment(u[j]) \/ u[j].k = "stmtfn"
    <3>1. j \in DOMAIN u
      BY <1>3, <2>1, <2>6
    <3>2. at[j] \in m .. at[k]
      <4>1. (p < j => at[p] < at[j]) /\ (j < k => at[j] < at[k])
        BY <1>5, <2>1, <3>1
      <4>2. at[j] \in Nat /\ j \in Nat /\ p <= j /\ j <= k
        BY <1>4, <2>1, <2>6, <3>1
      <4>3. m <= at[j]
        BY <2>3, <2>5, <2>6, <4>1, <4>2
      <4>4. at[j] <= at[k]
        BY <2>1, <4>1, <4>2
      <4> QED BY <2>1, <2>3, <4>2, <4>3, <4>4
    <3>3. IsComment(t[at[j]]) \/ t[at[j]].k = "stmtfn"
      BY <2>2, <3>2
    <3>4. u[j].k = t[at[j]].k
      BY <1>4, <3>1, <3>3 DEF Spares, FunctionKinds
    <3> QED BY <3>3, <3>4, KindDecides
  <2>9. p \in Lines(u, "marker")
    BY <2>6 DEF Lines
  <2>10. k <= p + MarkerWindow
    <3>1. \A j \in p .. k : at[j] \in Nat /\ j \in DOMAIN u
      BY <1>3, <1>4, <2>1, <2>6
    <3>2. \A i, j \in p .. k : i < j => at[i] < at[j]
      BY <1>5, <3>1
    <3>3. p <= k /\ k - p <= at[k] - at[p]
      <4>1. p <= k
        BY <2>1, <2>6, <2>7
      <4> QED BY <2>1, <2>6, <3>1, <3>2, <4>1, NoNearer
    <3> QED BY <2>1, <2>2, <2>3, <2>5, <2>6, <3>3, FileAssumption
  <2> QED BY <2>1, <2>7, <2>8, <2>9, <2>10 DEF IsStatementFunction
<1>9. ASSUME NEW k \in DOMAIN u, AssignsNone(t, e, Scope(t, at[k])) PROVE AssignsNone(u, e, Scope(u, k))
  <2>1. ASSUME NEW i \in DOMAIN u, AssignsSome(u[i], u) PROVE Scope(u, i) # Scope(u, k)
    <3>1. AssignsSome(t[at[i]], t) /\ at[i] \in DOMAIN t
      BY <1>4, <2>1
    <3> QED BY <1>6, <1>9, <3>1 DEF AssignsNone
  <2> QED BY <1>6, <1>9, <2>1 DEF AssignsNone
<1> QED BY <1>7, <1>8, <1>9 DEF FunctionsApart

\* The assignments a pass makes of constants keep apart too.
LEMMA MoreApart ==
  ASSUME NEW t, NEW e \in Seq(ExtraType), FunctionsApart(t, e), NEW d \in Seq(ExtraType),
         \A j \in DOMAIN d : \E i \in DOMAIN t : AssignsSome(t[i], t) /\ d[j].scope = Scope(t, i)
  PROVE  FunctionsApart(t, e \o d)
<1> SUFFICES ASSUME NEW sc, AssignsNone(t, e, sc), NEW j \in DOMAIN (e \o d) PROVE (e \o d)[j].scope # sc
  BY DEF FunctionsApart, AssignsNone
<1>1. CASE j \in DOMAIN e
  <2>1. (e \o d)[j] = e[j]
    BY <1>1
  <2> QED BY <1>1, <2>1 DEF AssignsNone
<1>2. CASE j \notin DOMAIN e
  <2>1. j - Len(e) \in DOMAIN d /\ (e \o d)[j] = d[j - Len(e)]
    BY <1>2
  <2> QED BY <2>1 DEF AssignsNone
<1> QED BY <1>1, <1>2

-----------------------------------------------------------------------------
(* Every pass leaves a file in every configuration.                        *)

LEMMA ProtectCompiles ==
  ASSUME NEW t \in Seq(LineType), NEW lines, NEW c, Compiles(t, c)
  PROVE  Compiles(Protect(t, lines), c)
<1> DEFINE u == Protect(t, lines)
<1>1. u = [i \in DOMAIN t |-> u[i]]
  BY DEF Protect
<1>2. ASSUME NEW i \in DOMAIN t
      PROVE  u[i] \in LineType /\ u[i].k = t[i].k /\ u[i].cond = t[i].cond
  <2>1. t[i] \in LineType
    OBVIOUS
  <2>2. u[i] = IF i \in lines THEN Masked(t[i]) ELSE t[i]
    BY DEF Protect
  <2> HIDE DEF u
  <2> QED BY <2>1, <2>2, MaskedIs
<1> HIDE DEF u
<1>3. Compiles(u, c)
  BY <1>1, <1>2, PointwiseCompiles
<1> QED BY <1>3 DEF u

LEMMA RestoreCompiles ==
  ASSUME NEW t \in Seq(LineType), NEW c, Compiles(t, c)
  PROVE  Compiles(Restore(t), c)
<1>1. PICK u : u = Restore(t)
  OBVIOUS
<1>2. u = [i \in DOMAIN t |-> u[i]] /\ \A i \in DOMAIN t : u[i] = Unmasked(t[i])
  BY <1>1 DEF Restore
<1>3. \A i \in DOMAIN t : u[i] \in LineType /\ u[i].k = t[i].k /\ u[i].cond = t[i].cond
  BY <1>2, UnmaskedIs
<1> QED BY <1>1, <1>2, <1>3, PointwiseCompiles

LEMMA HandlesCompiles ==
  ASSUME NEW t \in Seq(LineType), NEW c, Compiles(t, c)
  PROVE  Compiles(RewriteHandles(t), c)
<1>1. PICK u : u = RewriteHandles(t)
  OBVIOUS
<1>2. u = [i \in DOMAIN t |-> u[i]]
  BY <1>1 DEF RewriteHandles
<1>3. \A i \in DOMAIN t : u[i] \in LineType /\ u[i].k = t[i].k /\ u[i].cond = t[i].cond
  BY <1>1, HandledIs
<1> QED BY <1>1, <1>2, <1>3, PointwiseCompiles

\* What a pass makes of a line is one of its kind or nothing.
LEMMA NeatOrNone ==
  ASSUME NEW l, NEW x, NEW m \in LineType, m.k = l.k, IsDirective(l) => m.cond = l.cond,
         x = <<m>> \/ (x = <<>> /\ ~Structural(l) /\ ~IsDirective(l))
  PROVE  Neat(l, x)
BY NeatLine, NeatNone

LEMMA StripKnownCompiles ==
  ASSUME NEW t \in Seq(LineType), NEW c, Compiles(t, c)
  PROVE  Compiles(StripKnown(t), c)
<1> DEFINE x == [i \in DOMAIN t |-> Stripped(t[i], t)]
<1>1. ASSUME NEW i \in DOMAIN t PROVE Neat(t[i], x[i])
  <2> DEFINE l == t[i]
             m == WithoutItems(l, Strippable(l, t))
  <2>1. l \in LineType
    OBVIOUS
  <2>2. m \in LineType /\ m.k = l.k /\ m.cond = l.cond
    BY <2>1, FewerItems
  <2>3. x[i] = IF l.k = "decl" /\ m.it = <<>> THEN <<>> ELSE <<m>>
    BY DEF Stripped
  <2>4. l.k = "decl" => ~Structural(l) /\ ~IsDirective(l)
    BY DEF Structural, IsDirective
  <2> HIDE DEF m, x, l
  <2>5. x[i] = <<m>> \/ (x[i] = <<>> /\ ~Structural(l) /\ ~IsDirective(l))
    BY <2>3, <2>4
  <2>6. Neat(l, x[i])
    BY <2>2, <2>5, NeatOrNone
  <2> QED BY <2>6 DEF l
<1>2. StripKnown(t) = FlattenSeq(x) /\ x = [i \in DOMAIN t |-> x[i]]
  BY DEF StripKnown
<1> HIDE DEF x
<1> QED BY <1>1, <1>2, NeatCompiles

\* A constant of a procedure may become a declaration, a comment or nothing.
LEMMA NeatConstant ==
  ASSUME NEW l, l.k \in {"param", "data"}, NEW m \in LineType, m.k \in {"param", "data", "decl", "comment"}
  PROVE  Neat(l, <<m>>) /\ Neat(l, <<>>)
<1>1. ~Structural(l) /\ ~IsDirective(l) /\ ~IsComment(l) /\ Phase(l) = 2
  BY DEF Structural, IsDirective, IsComment, Phase
<1>2. ~Structural(m) /\ ~IsDirective(m) /\ Phase(m) = 2
  BY DEF Structural, IsDirective, Phase
<1>3. <<m>> # <<>> /\ <<m>>[1] = m /\ OneFor(l, <<m>>)
  BY <1>1, <1>2 DEF OneFor
<1> QED BY <1>1, <1>2, <1>3, NeatNone DEF Neat

LEMMA ConvertParametersCompiles ==
  ASSUME NEW t, Sound(t), NEW c, Compiles(t, c)
  PROVE  Compiles(ConvertParameters(t).out, c)
<1> DEFINE converts(l) == l.k = "param" /\ Convertible(l)
           x == [i \in DOMAIN t |-> IF converts(t[i]) THEN ParameterRest(t[i], t) ELSE <<t[i]>>]
<1>1. ConvertParameters(t).out = FlattenSeq(x) /\ x = [i \in DOMAIN t |-> x[i]]
  BY DEF ConvertParameters
<1>2. t \in Seq(LineType)
  BY DEF Sound
<1>3. ASSUME NEW i \in DOMAIN t PROVE Neat(t[i], x[i])
  <2> DEFINE l == t[i]
             a == Assigned(l, t)
             o == ItemsIn(l.it, {y \in ToSet(l.it) : ~IsFpValue(y.v)})
             d == [Line("decl") EXCEPT !.ty = CombinedType(l), !.it = BareItems(a)]
             m == [l EXCEPT !.it = o]
             cm == Line("comment")
  <2>1. l \in LineType /\ l.it \in Seq(ItemType)
    BY <1>2, LineFields
  <2>2. CASE ~converts(l)
    <3>1. x[i] = <<l>>
      BY <2>2
    <3> HIDE DEF x
    <3> QED BY <2>1, <3>1, NeatLine
  <2>3. CASE converts(l)
    <3>1. x[i] = ParameterRest(l, t)
      BY <2>3
    <3>2. ParameterRest(l, t) = IF l.ty # "none" THEN IF a = <<>> THEN <<>> ELSE <<d>>
                                ELSE IF o # <<>> THEN <<m>> ELSE IF a # <<>> THEN <<cm>> ELSE <<>>
      BY DEF ParameterRest
    <3>3. a \in Seq(ItemType) /\ o \in Seq(ItemType)
      BY <2>1, PickedItems DEF Assigned
    <3>4. "decl" \in Kinds /\ "comment" \in Kinds /\ CombinedType(l) \in Types
      BY <2>1, LineFields DEF Kinds, CombinedType, Types
    <3>5. d \in LineType /\ d.k = "decl"
      <4>1. BareItems(a) \in Seq(ItemType)
        BY <3>3, BareItemsType
      <4>2. Line("decl") \in LineType /\ Line("decl").k = "decl"
        BY <3>4, NewLine
      <4> HIDE DEF a
      <4> QED BY <3>4, <4>1, <4>2 DEF LineType
    <3>6. m \in LineType /\ m.k = l.k
      BY <2>1, <3>3, LineExcept
    <3>7. cm \in LineType /\ cm.k = "comment"
      BY <3>4, NewLine
    <3>8. l.k = "param"
      BY <2>3
    <3> HIDE DEF x, a, o, d, m, cm, l, converts
    <3>9. Neat(l, <<d>>) /\ Neat(l, <<m>>) /\ Neat(l, <<cm>>) /\ Neat(l, <<>>)
      BY <3>5, <3>6, <3>7, <3>8, NeatConstant
    <3>10. Neat(l, x[i])
      BY <3>1, <3>2, <3>9
    <3> QED BY <3>10 DEF l
  <2> QED BY <2>2, <2>3
<1> HIDE DEF x
<1> QED BY <1>1, <1>2, <1>3, NeatCompiles

LEMMA ConvertDataCompiles ==
  ASSUME NEW t \in Seq(LineType), NEW c, Compiles(t, c)
  PROVE  Compiles(ConvertData(t).out, c)
<1> DEFINE x == [i \in DOMAIN t |-> DataRest(t[i])]
<1>1. ConvertData(t).out = FlattenSeq(x) /\ x = [i \in DOMAIN t |-> x[i]]
  BY DEF ConvertData, DataRest
<1>3. ASSUME NEW i \in DOMAIN t PROVE Neat(t[i], x[i])
  <2>1. t[i] \in LineType
    OBVIOUS
  <2>2. CASE ~IsFpData(t[i])
    <3>1. x[i] = <<t[i]>>
      BY <2>2 DEF DataRest
    <3> HIDE DEF x
    <3> QED BY <2>1, <3>1, NeatLine
  <2>3. CASE IsFpData(t[i])
    <3>1. PICK m : m = Line("comment")
      OBVIOUS
    <3>2. x[i] = <<>> \/ x[i] = <<m>>
      BY <2>3, <3>1 DEF DataRest
    <3>3. t[i].k = "data" /\ "comment" \in Kinds
      BY <2>3 DEF IsFpData, Kinds
    <3>4. m \in LineType /\ m.k = "comment"
      BY <3>1, <3>3, NewLine
    <3> HIDE DEF x
    <3>5. Neat(t[i], <<m>>) /\ Neat(t[i], <<>>)
      BY <3>3, <3>4, NeatConstant
    <3> QED BY <3>2, <3>5
  <2> QED BY <2>2, <2>3
<1> HIDE DEF x
<1> QED BY <1>1, <1>3, NeatCompiles

LEMMA MigrateLinesCompiles ==
  ASSUME NEW t \in Seq(LineType), NEW rs, rs \subseteq Known, NEW complex, NEW c, Compiles(t, c)
  PROVE  Compiles(MigrateLines(t, rs, complex), c)
<1> DEFINE M(l) == Migrated(l, rs, complex)
           x == [i \in DOMAIN t |-> IF t[i].k # "decl" \/ M(t[i]).it # <<>> THEN <<M(t[i])>> ELSE <<>>]
<1>1. MigrateLines(t, rs, complex) = FlattenSeq(x) /\ x = [i \in DOMAIN t |-> x[i]]
  BY DEF MigrateLines, Migrated
<1>2. ASSUME NEW i \in DOMAIN t PROVE Neat(t[i], x[i])
  <2> DEFINE l == t[i]
             r == ReplaceTypeDecls(l, complex)
             m == M(l)
  <2>1. l \in LineType
    OBVIOUS
  <2>2. /\ r \in LineType /\ r.k = l.k
        /\ l.k # "decl" => r = [l EXCEPT !.ty = Promoted(l.ty)]
    BY <2>1, ReplacedTypes
  <2>3. m \in LineType /\ m.k = r.k /\ (r.k \notin {"exec", "assign"} => m = r)
    <3> HIDE DEF r
    <3> QED BY <2>2, ReplacedKnown DEF Migrated, r
  <2>4. x[i] = IF l.k # "decl" \/ m.it # <<>> THEN <<m>> ELSE <<>>
    OBVIOUS
  <2>5. l.k = "decl" => ~Structural(l) /\ ~IsDirective(l)
    BY DEF Structural, IsDirective
  <2>6. l.k # "decl" => r.cond = l.cond
    <3>1. Promoted(l.ty) \in Types
      BY <2>1, LineFields DEF Promoted, Types
    <3>2. PICK ty \in Types : ty = Promoted(l.ty)
      BY <3>1
    <3>3. l.k # "decl" => r = [l EXCEPT !.ty = ty]
      BY <2>2, <3>2
    <3>4. [l EXCEPT !.ty = ty].cond = l.cond
      BY <2>1, LineExcept
    <3> HIDE DEF r, l
    <3> QED BY <3>3, <3>4
  <2>7. IsDirective(l) => l.k \notin {"decl", "exec", "assign"}
    BY DEF IsDirective
  <2> HIDE DEF m, x, l, r, M
  <2>8. m.k = l.k /\ (IsDirective(l) => m.cond = l.cond)
    BY <2>2, <2>3, <2>6, <2>7
  <2>9. x[i] = <<m>> \/ (x[i] = <<>> /\ ~Structural(l) /\ ~IsDirective(l))
    BY <2>4, <2>5
  <2>10. Neat(l, x[i])
    BY <2>3, <2>8, <2>9, NeatOrNone
  <2> QED BY <2>10 DEF l
<1> HIDE DEF x
<1> QED BY <1>1, <1>2, NeatCompiles

LEMMA SpecializeCompiles ==
  ASSUME NEW t, Placed(t), NEW c, Compiles(t, c)
  PROVE  Compiles(SpecializeUse(t), c)
<1> DEFINE x == [i \in DOMAIN t |-> IF t[i] = BareUse THEN Specialized(t, i) ELSE <<t[i]>>]
<1>1. SpecializeUse(t) = FlattenSeq(x) /\ x = [i \in DOMAIN t |-> x[i]]
  BY DEF SpecializeUse
<1>2. t \in Seq(LineType)
  BY DEF Placed
<1>3. ASSUME NEW i \in DOMAIN t PROVE Neat(t[i], x[i])
  <2>1. t[i] \in LineType
    BY <1>2
  <2>2. CASE t[i] # BareUse
    <3>1. x[i] = <<t[i]>>
      BY <2>2
    <3> HIDE DEF x
    <3> QED BY <2>1, <3>1, NeatLine
  <2>3. CASE t[i] = BareUse
    <3>1. x[i] = Specialized(t, i)
      BY <2>3
    <3>2. BareUse \in LineType /\ BareUse.k = "use"
      BY InsertedLines
    <3>3. \/ Specialized(t, i) = <<BareUse>> \/ Specialized(t, i) = <<>>
          \/ \E m \in LineType : Specialized(t, i) = <<m>> /\ m.k = "useonly"
      BY <2>3, SpecializedLine
    <3> HIDE DEF x
    <3>4. \E m \in LineType : m.k \in {"use", "useonly"} /\ (x[i] = <<m>> \/ x[i] = <<>>)
      BY <3>1, <3>2, <3>3
    <3>5. PICK m \in LineType : m.k \in {"use", "useonly"} /\ (x[i] = <<m>> \/ x[i] = <<>>)
      BY <3>4
    <3>6. ~Structural(t[i]) /\ ~IsDirective(t[i]) /\ ~IsComment(t[i]) /\ Phase(t[i]) = 1
      BY <2>3, <3>2 DEF Structural, IsDirective, IsComment, Phase
    <3>7. ~Structural(m) /\ ~IsDirective(m) /\ Phase(m) = 1
      BY <3>5 DEF Structural, IsDirective, Phase
    <3>8. OneFor(t[i], <<m>>) /\ <<m>> # <<>> /\ <<m>>[1] = m
      BY <3>6, <3>7 DEF OneFor
    <3>9. Neat(t[i], <<m>>) /\ Neat(t[i], <<>>)
      BY <3>6, <3>7, <3>8, NeatNone DEF Neat
    <3> QED BY <3>5, <3>9
  <2> QED BY <2>2, <2>3
<1> HIDE DEF x
<1> QED BY <1>1, <1>2, <1>3, NeatCompiles

LEMMA StripRoundupCompiles ==
  ASSUME NEW t \in Seq(LineType), NEW c, Compiles(t, c)
  PROVE  Compiles(StripRoundup(t), c)
<1> DEFINE x == [i \in DOMAIN t |-> UnroundedPiece(t[i])]
<1>2. StripRoundup(t) = t \/ StripRoundup(t) = FlattenSeq(x)
  BY DEF StripRoundup, UnroundedPiece, Unrounded, RoundupOrphan, CallsRoundup, Roundup
<1>3. ASSUME NEW i \in DOMAIN t PROVE Neat(t[i], x[i])
  <2>1. RoundupOrphan(t[i]) => ~Structural(t[i]) /\ ~IsDirective(t[i])
    BY DEF RoundupOrphan, Structural, IsDirective
  <2>2. x[i] = UnroundedPiece(t[i]) /\ t[i] \in LineType
    OBVIOUS
  <2> HIDE DEF x
  <2> QED BY <2>1, <2>2, UnroundedIs, NeatOrNone
<1>4. x = [i \in DOMAIN t |-> x[i]]
  OBVIOUS
<1> HIDE DEF x
<1>5. Compiles(FlattenSeq(x), c)
  BY <1>3, <1>4, NeatCompiles
<1> QED BY <1>2, <1>5

-----------------------------------------------------------------------------
(* What is assigned stays away from the statement functions that stand     *)
(* behind a declaration.                                                   *)

LEMMA SparesKind ==
  ASSUME NEW l, NEW m
  PROVE  /\ m.k = l.k => Spares(l, <<m>>)
         /\ ~IsComment(l) /\ l.k \notin FunctionKinds => Spares(l, <<>>) /\ (m.k \notin FunctionKinds => Spares(l, <<m>>))
<1>1. <<m>> # <<>> /\ <<m>>[1] = m
  OBVIOUS
<1> QED BY <1>1 DEF Spares

LEMMA FewerComplex ==
  ASSUME NEW t \in Seq(LineType), NEW x, Pieces(t, x), NEW u, u = FlattenSeq(x),
         \A i \in DOMAIN t : x[i] # <<>> /\ DeclaresComplex(x[i][1]) =>
            DeclaresComplex(t[i]) /\ ItemNames(x[i][1]) \subseteq ItemNames(t[i])
  PROVE  ComplexNames(u) \subseteq ComplexNames(t)
<1>1. x = [i \in DOMAIN t |-> x[i]] /\ \A i \in DOMAIN t : OneFor(t[i], x[i])
  BY DEF Pieces
<1>2. DOMAIN x = DOMAIN t
  BY <1>1
<1>3. PICK at : Becomes(t, x, u, at)
  BY <1>1, <1>2, LinesBecome
<1>4. ASSUME NEW m \in ToSet(u), DeclaresComplex(m)
      PROVE  \E l \in ToSet(t) : DeclaresComplex(l) /\ ItemNames(m) \subseteq ItemNames(l)
  <2>1. PICK p \in DOMAIN u : u[p] = m
    BY DEF ToSet
  <2>2. at[p] \in DOMAIN t /\ x[at[p]] = <<m>>
    BY <1>3, <2>1 DEF Becomes
  <2>3. x[at[p]] # <<>> /\ x[at[p]][1] = m /\ t[at[p]] \in ToSet(t)
    BY <2>2 DEF ToSet
  <2> QED BY <1>4, <2>2, <2>3
<1> QED BY <1>4 DEF ComplexNames

\* A line that has no more of a constant than l has no more to assign.
LEMMA AssignsLess ==
  ASSUME NEW l, NEW m, NEW t, NEW u, m.k = l.k, m.it = l.it,
         m.ty = "none" <=> l.ty = "none", m.ty = "integer" <=> l.ty = "integer", l.ty = "kept" => m.ty = "kept",
         IsComplex(m.ty) <=> IsComplex(l.ty), ComplexNames(u) \subseteq ComplexNames(t),
         AssignsSome(m, u)
  PROVE  AssignsSome(l, t)
<1>1. /\ CombinedType(m) = "integer" <=> CombinedType(l) = "integer"
      /\ CombinedType(l) = "kept" => CombinedType(m) = "kept"
  BY DEF CombinedType
<1>2. IsComplex(CombinedType(m)) <=> IsComplex(CombinedType(l))
  <2>1. ~IsComplex("integer") /\ IsComplex("tcomplex")
    BY DEF IsComplex
  <2> QED BY <2>1 DEF CombinedType
<1>3. Convertible(m) => Convertible(l)
  BY <1>1 DEF Convertible
<1>4. IsFpData(m) <=> IsFpData(l)
  BY DEF IsFpData
<1>5. \A x : BecomesAssignment(x, m, u) => BecomesAssignment(x, l, t)
  BY <1>2 DEF BecomesAssignment, FoldsAway, CarriesComplex
<1> QED BY <1>3, <1>4, <1>5 DEF AssignsSome

LEMMA PointwiseApart ==
  ASSUME NEW t \in Seq(LineType), NEW u \in Seq(LineType), DOMAIN u = DOMAIN t,
         \A i \in DOMAIN t : /\ u[i].k = t[i].k /\ u[i].it = t[i].it
                             /\ u[i].ty = "none" <=> t[i].ty = "none"
                             /\ u[i].ty = "integer" <=> t[i].ty = "integer"
                             /\ t[i].ty = "kept" => u[i].ty = "kept"
                             /\ IsComplex(u[i].ty) <=> IsComplex(t[i].ty),
         NEW e, FunctionsApart(t, e)
  PROVE  FunctionsApart(u, e)
<1> DEFINE x == [i \in DOMAIN t |-> <<u[i]>>]
<1>1. DOMAIN t = 1 .. Len(t) /\ Len(t) \in Nat /\ Len(u) = Len(t) /\ \A i \in DOMAIN t : u[i] \in LineType
  OBVIOUS
<1>2. \A i \in DOMAIN t : x[i] = <<u[i]>> /\ x[i] # <<>> /\ x[i][1] = u[i] /\ x[i] \in Seq(LineType) /\ Len(x[i]) = 1
  BY <1>1
<1>3. x = [i \in DOMAIN t |-> x[i]] /\ x \in Seq(Seq(LineType)) /\ Len(x) = Len(u)
  BY <1>1
<1> HIDE DEF x
<1>4. u = FlattenSeq(x)
  BY <1>1, <1>2, <1>3, FlattenOfSingletons
<1>5. \A i \in DOMAIN t : OneFor(t[i], x[i]) /\ Spares(t[i], x[i])
  BY <1>1, <1>2, OneLine, SparesKind
<1>6. ComplexNames(u) \subseteq ComplexNames(t)
  <2>1. Pieces(t, x)
    BY <1>3, <1>5 DEF Pieces
  <2>2. \A i \in DOMAIN t : ItemNames(u[i]) = ItemNames(t[i])
    BY DEF ItemNames
  <2> QED BY <1>2, <1>4, <2>1, <2>2, FewerComplex DEF DeclaresComplex
<1>7. ASSUME NEW i \in DOMAIN t, AssignsSome(x[i][1], u) PROVE AssignsSome(t[i], t)
  <2>1. AssignsSome(u[i], u)
    BY <1>2, <1>7
  <2> QED BY <1>6, <2>1, AssignsLess
<1> QED BY <1>3, <1>4, <1>5, <1>7, FunctionsStay

LEMMA ProtectApart ==
  ASSUME NEW t \in Seq(LineType), NEW lines, NEW e, FunctionsApart(t, e)
  PROVE  FunctionsApart(Protect(t, lines), e)
<1> DEFINE u == Protect(t, lines)
<1>1. ASSUME NEW i \in DOMAIN t
      PROVE  /\ u[i] \in LineType /\ u[i].k = t[i].k /\ u[i].it = t[i].it
             /\ u[i].ty = "none" <=> t[i].ty = "none"
             /\ u[i].ty = "integer" <=> t[i].ty = "integer"
             /\ t[i].ty = "kept" => u[i].ty = "kept"
             /\ IsComplex(u[i].ty) <=> IsComplex(t[i].ty)
  <2>1. t[i] \in LineType
    OBVIOUS
  <2>2. u[i] = IF i \in lines THEN Masked(t[i]) ELSE t[i]
    BY DEF Protect
  <2>3. /\ Masked(t[i]) \in LineType /\ Masked(t[i]).k = t[i].k /\ Masked(t[i]).it = t[i].it
        /\ Masked(t[i]).ty = IF t[i].ty = "real8" THEN "kept" ELSE t[i].ty
    BY <2>1, MaskedIs
  <2> HIDE DEF u
  <2> QED BY <2>1, <2>2, <2>3 DEF IsComplex
<1>2. u \in Seq(LineType) /\ DOMAIN u = DOMAIN t
  <2>1. u = [i \in DOMAIN t |-> u[i]]
    BY DEF Protect
  <2> HIDE DEF u
  <2> QED BY <1>1, <2>1
<1> HIDE DEF u
<1>3. FunctionsApart(u, e)
  BY <1>1, <1>2, PointwiseApart
<1> QED BY <1>3 DEF u

LEMMA StripKnownApart ==
  ASSUME NEW t \in Seq(LineType), NEW e, FunctionsApart(t, e)
  PROVE  FunctionsApart(StripKnown(t), e)
<1> DEFINE x == [i \in DOMAIN t |-> Stripped(t[i], t)]
           u == FlattenSeq(x)
<1>1. ASSUME NEW i \in DOMAIN t
      PROVE  /\ OneFor(t[i], x[i]) /\ Spares(t[i], x[i])
             /\ t[i].k # "decl" => x[i] = <<t[i]>>
             /\ x[i] # <<>> => x[i][1].k = t[i].k /\ x[i][1].ty = t[i].ty
                               /\ ItemNames(x[i][1]) \subseteq ItemNames(t[i])
  <2> DEFINE l == t[i]
             m == WithoutItems(l, Strippable(l, t))
  <2>1. l \in LineType
    OBVIOUS
  <2>2. m \in LineType /\ m.k = l.k /\ m.ty = l.ty /\ ItemNames(m) \subseteq ItemNames(l)
    BY <2>1, FewerItems
  <2>3. x[i] = IF l.k = "decl" /\ m.it = <<>> THEN <<>> ELSE <<m>>
    BY DEF Stripped
  <2>4. l.k = "decl" => ~Structural(l) /\ ~IsComment(l) /\ l.k \notin FunctionKinds
    BY DEF Structural, IsComment, FunctionKinds
  <2>5. l.k # "decl" => m = l
    <3>1. l.k # "decl" => ItemNames(l) \cap Strippable(l, t) = {}
      BY DEF Strippable
    <3> QED BY <2>1, <3>1, WithoutNone
  <2> HIDE DEF m, x, l
  <2>6. OneFor(l, x[i]) /\ Spares(l, x[i])
    BY <2>2, <2>3, <2>4, OneLine, NoLine, SparesKind
  <2>7. /\ l.k # "decl" => x[i] = <<l>>
        /\ x[i] # <<>> => x[i][1].k = l.k /\ x[i][1].ty = l.ty /\ ItemNames(x[i][1]) \subseteq ItemNames(l)
    BY <2>2, <2>3, <2>5
  <2> QED BY <2>6, <2>7 DEF l
<1>2. StripKnown(t) = u /\ x = [i \in DOMAIN t |-> x[i]]
  BY DEF StripKnown
<1> HIDE DEF x
<1>3. ComplexNames(u) \subseteq ComplexNames(t)
  <2>1. Pieces(t, x)
    BY <1>1, <1>2 DEF Pieces
  <2> QED BY <1>1, <2>1, FewerComplex DEF DeclaresComplex
<1>4. ASSUME NEW i \in DOMAIN t, x[i] # <<>>, AssignsSome(x[i][1], u) PROVE AssignsSome(t[i], t)
  <2>1. t[i].k # "decl"
    BY <1>1, <1>4 DEF AssignsSome, IsFpData
  <2>2. x[i] = <<t[i]>>
    BY <1>1, <2>1
  <2>3. x[i][1] = t[i]
    BY <2>2
  <2>4. AssignsSome(t[i], u)
    BY <1>4, <2>3
  <2> QED BY <1>3, <2>4, AssignsLess
<1> HIDE DEF u
<1>5. FunctionsApart(u, e)
  BY <1>1, <1>2, <1>4, FunctionsStay DEF u
<1> QED BY <1>2, <1>5

\* The assignments made of line i of t, by line, all of lines that have some.
FromAssigned(t, e) ==
  /\ e \in Seq(Seq(ExtraType)) /\ DOMAIN e = DOMAIN t
  /\ \A i \in DOMAIN t : \A j \in DOMAIN e[i] : e[i][j].scope = Scope(t, i) /\ AssignsSome(t[i], t)

LEMMA FromAssignedScopes ==
  ASSUME NEW t \in Seq(LineType), NEW e, FromAssigned(t, e)
  PROVE  /\ FlattenSeq(e) \in Seq(ExtraType)
         /\ \A k \in DOMAIN FlattenSeq(e) : \E i \in DOMAIN t :
               AssignsSome(t[i], t) /\ FlattenSeq(e)[k].scope = Scope(t, i)
<1>1. /\ e \in Seq(Seq(ExtraType)) /\ DOMAIN e = DOMAIN t
      /\ \A i \in DOMAIN t : \A j \in DOMAIN e[i] : e[i][j].scope = Scope(t, i) /\ AssignsSome(t[i], t)
  BY DEF FromAssigned
<1>2. FlattenSeq(e) \in Seq(ExtraType) /\ \E at, nth : Places(e, FlattenSeq(e), at, nth)
  BY <1>1, FlattenPlaces
<1>3. PICK at, nth : Places(e, FlattenSeq(e), at, nth)
  BY <1>2
<1>4. ASSUME NEW k \in DOMAIN FlattenSeq(e)
      PROVE  at[k] \in DOMAIN t /\ nth[k] \in DOMAIN e[at[k]] /\ FlattenSeq(e)[k] = e[at[k]][nth[k]]
  BY <1>1, <1>3 DEF Places
<1> QED BY <1>1, <1>2, <1>4

LEMMA ConvertParametersApart ==
  ASSUME NEW t, Sound(t), NEW e, FunctionsApart(t, e)
  PROVE  LET r == ConvertParameters(t) IN FunctionsApart(r.out, r.extra)
<1> DEFINE converts(l) == l.k = "param" /\ Convertible(l)
           x == [i \in DOMAIN t |-> IF converts(t[i]) THEN ParameterRest(t[i], t) ELSE <<t[i]>>]
           d == [i \in DOMAIN t |->
                   IF converts(t[i]) THEN NewAssignments(t[i], t, Scope(t, i), GuardStacks(t)[i]) ELSE <<>>]
           u == FlattenSeq(x)
<1>1. ConvertParameters(t).out = u /\ ConvertParameters(t).extra = FlattenSeq(d) /\ x = [i \in DOMAIN t |-> x[i]]
  BY DEF ConvertParameters
<1>2. t \in Seq(LineType) /\ DOMAIN t = 1 .. Len(t) /\ Len(t) \in Nat
  BY DEF Sound
<1>3. ASSUME NEW i \in DOMAIN t
      PROVE  /\ OneFor(t[i], x[i]) /\ Spares(t[i], x[i])
             /\ x[i] # <<>> /\ AssignsSome(x[i][1], u) => AssignsSome(t[i], t)
  <2> HIDE DEF u
  <2>1. t[i] \in LineType /\ Clean(t[i]) /\ t[i].ty # "module"
    BY SoundLine
  <2>2. CASE ~converts(t[i])
    <3>1. x[i] = <<t[i]>>
      BY <2>2
    <3>2. AssignsSome(t[i], u) => AssignsSome(t[i], t)
      BY <2>2 DEF AssignsSome
    <3>3. x[i][1] = t[i]
      BY <3>1
    <3> HIDE DEF x
    <3> QED BY <2>1, <3>1, <3>2, <3>3, OneLine, SparesKind
  <2>3. CASE converts(t[i])
    <3> DEFINE l == t[i]
               a == Assigned(l, t)
               o == ItemsIn(l.it, {y \in ToSet(l.it) : ~IsFpValue(y.v)})
               dl == [Line("decl") EXCEPT !.ty = CombinedType(l), !.it = BareItems(a)]
               m == [l EXCEPT !.it = o]
               cm == Line("comment")
    <3>0. x[i] = ParameterRest(l, t)
      BY <2>3
    <3>1. OneFor(l, x[i])
      <4> HIDE DEF x
      <4> QED BY <2>1, <2>3, <3>0, ParameterRestPiece
    <3>2. ParameterRest(l, t) = IF l.ty # "none" THEN IF a = <<>> THEN <<>> ELSE <<dl>>
                                ELSE IF o # <<>> THEN <<m>> ELSE IF a # <<>> THEN <<cm>> ELSE <<>>
      BY DEF ParameterRest
    <3>3. dl.k = "decl" /\ cm.k = "comment"
      BY DEF Line
    <3>4. m.k = "param" /\ m.it = o
      BY <2>1, <2>3 DEF LineType
    <3>5. l.k = "param" /\ ~IsComment(l) /\ l.k \notin FunctionKinds
      BY <2>3 DEF IsComment, FunctionKinds
    <3>6. ~AssignsSome(m, u)
      <4>1. ToSet(o) = ToSet(l.it) \cap {y \in ToSet(l.it) : ~IsFpValue(y.v)}
        BY <2>1, LineFields, PickedItems
      <4>2. \A y \in ToSet(m.it) : ~IsFpValue(y.v)
        <5> HIDE DEF o, m
        <5> QED BY <3>4, <4>1
      <4> HIDE DEF o, m
      <4> QED BY <3>4, <4>2 DEF AssignsSome, BecomesAssignment, IsFpData
    <3>7. ~AssignsSome(dl, u) /\ ~AssignsSome(cm, u)
      <4> HIDE DEF dl, cm
      <4> QED BY <3>3 DEF AssignsSome, IsFpData
    <3> HIDE DEF x, a, o, dl, m, cm, l, converts
    <3>8. \A y \in {dl, m, cm} : y.k \notin FunctionKinds /\ ~AssignsSome(y, u)
      BY <3>3, <3>4, <3>6, <3>7 DEF FunctionKinds
    <3>9. x[i] = <<>> \/ \E y \in {dl, m, cm} : x[i] = <<y>>
      BY <3>0, <3>2
    <3>10. Spares(l, x[i]) /\ (x[i] # <<>> => ~AssignsSome(x[i][1], u))
      <4>1. CASE x[i] = <<>>
        BY <3>5, <4>1, SparesKind
      <4>2. CASE x[i] # <<>>
        <5>1. PICK y \in {dl, m, cm} : x[i] = <<y>>
          BY <3>9, <4>2
        <5>2. x[i][1] = y
          BY <5>1
        <5>3. Spares(l, <<y>>)
          BY <3>5, <3>8, SparesKind
        <5> QED BY <3>8, <5>1, <5>2, <5>3
      <4> QED BY <4>1, <4>2
    <3> QED BY <3>1, <3>10 DEF l
  <2> QED BY <2>2, <2>3
<1>4. FromAssigned(t, d)
  <2>1. ASSUME NEW i \in DOMAIN t PROVE d[i] \in Seq(ExtraType)
    <3>1. Clean(t[i])
      BY SoundLine
    <3>2. GuardStacks(t)[i] \in Seq(GuardType) /\ Scope(t, i) \in Nat
      BY <1>2, GuardStacksType, ScopeType
    <3>3. NewAssignments(t[i], t, Scope(t, i), GuardStacks(t)[i]) \in Seq(ExtraType)
      BY <3>1, <3>2, NewAssignmentsType
    <3> QED BY <3>3
  <2>2. ASSUME NEW i \in DOMAIN t, NEW j \in DOMAIN d[i]
        PROVE  d[i][j].scope = Scope(t, i) /\ AssignsSome(t[i], t)
    <3>1. CASE ~converts(t[i])
      BY <3>1, <2>2
    <3>2. CASE converts(t[i])
      <4> DEFINE a == Assigned(t[i], t)
      <4>1. d[i] = [k \in DOMAIN a |-> [scope |-> Scope(t, i), ls |-> Guarded(a[k], GuardStacks(t)[i])]]
        BY <3>2 DEF NewAssignments
      <4>2. a \in Seq(ItemType) /\ ToSet(a) = ToSet(t[i].it) \cap {y \in ToSet(t[i].it) : BecomesAssignment(y, t[i], t)}
        BY <1>2, LineFields, PickedItems DEF Assigned
      <4> HIDE DEF a, d
      <4>3. j \in DOMAIN a /\ d[i][j].scope = Scope(t, i)
        BY <2>2, <4>1
      <4>4. a[j] \in ToSet(a)
        BY <4>3 DEF ToSet
      <4>5. a[j] \in ToSet(t[i].it) /\ BecomesAssignment(a[j], t[i], t)
        BY <4>2, <4>4
      <4> QED BY <3>2, <4>3, <4>5 DEF AssignsSome
    <3> QED BY <3>1, <3>2
  <2>3. d \in Seq(Seq(ExtraType)) /\ DOMAIN d = DOMAIN t
    BY <1>2, <2>1
  <2> HIDE DEF d
  <2> QED BY <2>2, <2>3 DEF FromAssigned
<1> DEFINE f == FlattenSeq(d)
<1>5. f \in Seq(ExtraType) /\ \A k \in DOMAIN f : \E i \in DOMAIN t : AssignsSome(t[i], t) /\ f[k].scope = Scope(t, i)
  <2> HIDE DEF d
  <2> QED BY <1>2, <1>4, FromAssignedScopes
<1> HIDE DEF x, d, converts
<1>6. FunctionsApart(t, <<>>)
  BY DEF FunctionsApart, AssignsNone
<1>7. FunctionsApart(t, f)
  <2>1. <<>> \in Seq(ExtraType)
    OBVIOUS
  <2> HIDE DEF f
  <2>2. FunctionsApart(t, <<>> \o f)
    BY <1>5, <1>6, <2>1, MoreApart
  <2>3. <<>> \o f = f
    BY <1>5
  <2> QED BY <2>2, <2>3
<1> HIDE DEF f
<1>8. FunctionsApart(u, f)
  BY <1>1, <1>2, <1>3, <1>7, FunctionsStay
<1> QED BY <1>1, <1>8 DEF f, u

LEMMA ConvertDataApart ==
  ASSUME NEW t, Sound(t), NEW e \in Seq(ExtraType), FunctionsApart(t, e)
  PROVE  LET r == ConvertData(t) IN FunctionsApart(r.out, e \o r.extra)
<1> DEFINE x == [i \in DOMAIN t |-> DataRest(t[i])]
           d == [i \in DOMAIN t |-> IF IsFpData(t[i]) THEN DataExtras(t, i) ELSE <<>>]
           u == FlattenSeq(x)
           f == FlattenSeq(d)
<1>1. ConvertData(t).out = u /\ ConvertData(t).extra = f /\ x = [i \in DOMAIN t |-> x[i]]
  BY DEF ConvertData, DataRest, DataExtras
<1>2. t \in Seq(LineType) /\ DOMAIN t = 1 .. Len(t) /\ Len(t) \in Nat
  BY DEF Sound
<1>3. ASSUME NEW i \in DOMAIN t
      PROVE  /\ OneFor(t[i], x[i]) /\ Spares(t[i], x[i])
             /\ x[i] # <<>> => x[i][1] = t[i] \/ x[i][1].k = "comment"
             /\ x[i] # <<>> /\ IsFpData(x[i][1]) => FALSE
  <2>1. t[i] \in LineType /\ Clean(t[i]) /\ t[i].ty # "module"
    BY SoundLine
  <2>2. OneFor(t[i], x[i])
    BY <2>1, DataPiece
  <2>3. CASE ~IsFpData(t[i])
    <3>1. x[i] = <<t[i]>>
      BY <2>3 DEF DataRest
    <3>2. x[i][1] = t[i]
      BY <3>1
    <3> HIDE DEF x
    <3> QED BY <2>2, <2>3, <3>1, <3>2, SparesKind
  <2>4. CASE IsFpData(t[i])
    <3>1. PICK m : m = Line("comment")
      OBVIOUS
    <3>2. x[i] = <<>> \/ x[i] = <<m>>
      BY <2>4, <3>1 DEF DataRest
    <3>3. ~IsComment(t[i]) /\ t[i].k \notin FunctionKinds
      BY <2>4 DEF IsFpData, IsComment, FunctionKinds
    <3>4. m.k = "comment" /\ m.k \notin FunctionKinds /\ ~IsFpData(m)
      BY <3>1 DEF Line, IsFpData, FunctionKinds
    <3>5. <<m>>[1] = m
      OBVIOUS
    <3> HIDE DEF x
    <3>6. Spares(t[i], <<m>>) /\ Spares(t[i], <<>>)
      BY <3>3, <3>4, SparesKind
    <3> QED BY <2>2, <3>2, <3>4, <3>5, <3>6
  <2> QED BY <2>3, <2>4
<1>4. FromAssigned(t, d)
  <2>1. ASSUME NEW i \in DOMAIN t, NEW j \in DOMAIN d[i]
        PROVE  d[i][j].scope = Scope(t, i) /\ AssignsSome(t[i], t)
    <3>1. CASE ~IsFpData(t[i])
      BY <3>1, <2>1
    <3>2. CASE IsFpData(t[i])
      <4> DEFINE s == WithoutItems(t[i], Known).it
                 P == {y \in ToSet(t[i].it) : y.n \notin Known}
      <4>1. d[i] = [k \in DOMAIN s |-> [scope |-> Scope(t, i), ls |-> <<Assign(s[k])>>]]
        BY <3>2 DEF DataExtras
      <4>2. t[i] \in LineType /\ t[i].it \in Seq(ItemType)
        BY <1>2, LineFields
      <4>3. s = ItemsIn(t[i].it, P)
        <5>1. ItemsIn(t[i].it, P) \in Seq(ItemType)
          BY <4>2, PickedItems
        <5>2. WithoutItems(t[i], Known) = [t[i] EXCEPT !.it = ItemsIn(t[i].it, P)]
          BY DEF WithoutItems
        <5> HIDE DEF P
        <5> QED BY <4>2, <5>1, <5>2, LineExcept
      <4>4. ToSet(s) = ToSet(t[i].it) \cap P
        <5> HIDE DEF s, P
        <5> QED BY <4>2, <4>3, PickedItems
      <4> HIDE DEF s, d
      <4>5. j \in DOMAIN s /\ d[i][j].scope = Scope(t, i)
        BY <2>1, <4>1
      <4>6. s[j] \in ToSet(s)
        BY <4>5 DEF ToSet
      <4>7. s[j] \in ToSet(t[i].it) /\ s[j].n \notin Known
        BY <4>4, <4>6
      <4> QED BY <3>2, <4>5, <4>7 DEF AssignsSome
    <3> QED BY <3>1, <3>2
  <2>2. d \in Seq(Seq(ExtraType)) /\ DOMAIN d = DOMAIN t
    BY DataExtrasType
  <2> HIDE DEF d
  <2> QED BY <2>1, <2>2 DEF FromAssigned
<1>5. f \in Seq(ExtraType) /\ \A k \in DOMAIN f : \E i \in DOMAIN t : AssignsSome(t[i], t) /\ f[k].scope = Scope(t, i)
  <2> HIDE DEF d
  <2> QED BY <1>2, <1>4, FromAssignedScopes
<1> HIDE DEF x, d, f
<1>6. FunctionsApart(t, e \o f)
  BY <1>5, MoreApart
<1>7. ComplexNames(u) \subseteq ComplexNames(t)
  <2>1. Pieces(t, x)
    BY <1>1, <1>3 DEF Pieces
  <2>2. ASSUME NEW i \in DOMAIN t, x[i] # <<>>, DeclaresComplex(x[i][1]) PROVE x[i][1] = t[i]
    BY <1>3, <2>2 DEF DeclaresComplex
  <2> QED BY <1>2, <2>1, <2>2, FewerComplex
<1> HIDE DEF u
<1>8. ASSUME NEW i \in DOMAIN t, x[i] # <<>>, AssignsSome(x[i][1], u) PROVE AssignsSome(t[i], t)
  <2>1. x[i][1] = t[i]
    BY <1>3, <1>8 DEF AssignsSome, IsFpData
  <2>2. AssignsSome(t[i], u)
    BY <1>8, <2>1
  <2> QED BY <1>7, <2>2, AssignsLess
<1>9. FunctionsApart(u, e \o f)
  BY <1>1, <1>2, <1>3, <1>6, <1>8, FunctionsStay DEF u
<1> QED BY <1>1, <1>9

-----------------------------------------------------------------------------
(* Blocks.                                                                 *)

LEMMA BlockOfNone == Block(<<>>)
<1>1. Depths(<<>>, [j \in 0 .. 0 |-> 0])
  BY DEF Depths
<1> QED BY <1>1 DEF Block

LEMMA BlockOfOne ==
  ASSUME NEW l, ~IsDirective(l)
  PROVE  Block(<<l>>)
<1>1. Depths(<<l>>, [j \in 0 .. 1 |-> 0])
  BY DEF Depths, StepDepth, IsDirective
<1> QED BY <1>1 DEF Block

LEMMA BlockConcat ==
  ASSUME NEW S, NEW a \in Seq(S), NEW b \in Seq(S), Block(a), Block(b)
  PROVE  Block(a \o b)
<1>1. PICK da : Depths(a, da)
  BY DEF Block
<1>2. PICK db : Depths(b, db)
  BY DEF Block
<1> DEFINE n == Len(a)
           m == Len(b)
           s == a \o b
           d == [j \in 0 .. n + m |-> IF j <= n THEN da[j] ELSE db[j - n]]
<1>3. n \in Nat /\ m \in Nat /\ Len(s) = n + m
  BY ConcatPlaces
<1>4. /\ da \in [0 .. n -> Nat] /\ da[0] = 0 /\ da[n] = 0
      /\ \A j \in 1 .. n : StepDepth(a[j], da[j - 1], da[j])
  BY <1>1 DEF Depths
<1>5. /\ db \in [0 .. m -> Nat] /\ db[0] = 0 /\ db[m] = 0
      /\ \A j \in 1 .. m : StepDepth(b[j], db[j - 1], db[j])
  BY <1>2 DEF Depths
<1>6. /\ \A j \in 1 .. n : s[j] = a[j]
      /\ \A j \in 1 .. m : s[n + j] = b[j]
  BY ConcatPlaces
<1> HIDE DEF n, m, s
<1>7. d \in [0 .. n + m -> Nat]
  <2>1. ASSUME NEW j \in 0 .. n + m PROVE d[j] \in Nat
    <3>1. CASE j <= n
      BY <3>1, <1>3, <1>4
    <3>2. CASE ~(j <= n)
      <4>1. j - n \in 0 .. m
        BY <3>2, <1>3
      <4> QED BY <3>2, <4>1, <1>5
    <3> QED BY <3>1, <3>2
  <2> QED BY <2>1
<1>8. d[0] = 0 /\ d[n + m] = 0
  <2>1. d[0] = da[0]
    BY <1>3
  <2>2. CASE m = 0
    BY <2>1, <2>2, <1>3, <1>4
  <2>3. CASE m # 0
    <3>1. d[n + m] = db[m]
      BY <2>3, <1>3
    <3> QED BY <2>1, <3>1, <1>4, <1>5
  <2> QED BY <2>2, <2>3
<1>9. ASSUME NEW j \in 1 .. n + m PROVE StepDepth(s[j], d[j - 1], d[j])
  <2>1. CASE j <= n
    <3>1. d[j] = da[j] /\ d[j - 1] = da[j - 1] /\ j \in 1 .. n
      BY <2>1, <1>3
    <3> HIDE DEF d
    <3> QED BY <3>1, <1>4, <1>6
  <2>2. CASE ~(j <= n)
    <3>1. PICK k \in 1 .. m : k = j - n
      BY <2>2, <1>3
    <3>2. j = n + k /\ d[j] = db[k]
      BY <2>2, <3>1, <1>3
    <3>3. d[j - 1] = db[k - 1]
      <4>1. CASE k = 1
        <5>1. j - 1 = n
          BY <3>1, <3>2, <4>1, <1>3
        <5>2. d[j - 1] = da[n]
          BY <5>1, <1>3
        <5> QED BY <5>2, <4>1, <1>4, <1>5
      <4>2. CASE k # 1
        <5>1. ~(j - 1 <= n) /\ j - 1 \in 0 .. n + m /\ j - 1 - n = k - 1
          BY <3>1, <3>2, <4>2, <1>3
        <5> QED BY <5>1
      <4> QED BY <4>1, <4>2
    <3> HIDE DEF d
    <3> QED BY <3>1, <3>2, <3>3, <1>5, <1>6
  <2> QED BY <2>1, <2>2
<1> HIDE DEF d
<1>10. Depths(s, d)
  BY <1>3, <1>7, <1>8, <1>9 DEF Depths
<1>11. Block(s)
  BY <1>10 DEF Block
<1> QED BY <1>11 DEF s

LEMMA FlattenBlock ==
  ASSUME NEW s \in Seq(Seq(LineType)), \A i \in DOMAIN s : Block(s[i])
  PROVE  FlattenSeq(s) \in Seq(LineType) /\ Block(FlattenSeq(s))
<1> DEFINE t == [i \in DOMAIN s |-> Line("comment")]
           u == FlattenSeq(s)
<1>1. DOMAIN s = 1 .. Len(s) /\ Len(s) \in Nat
  OBVIOUS
<1>2. "comment" \in Kinds
  BY DEF Kinds
<1>3. Line("comment") \in LineType /\ Line("comment").k = "comment"
  BY <1>2, NewLine
<1>4. t \in Seq(LineType) /\ DOMAIN t = DOMAIN s /\ \A i \in DOMAIN t : ~IsDirective(t[i])
  BY <1>1, <1>3 DEF IsDirective
<1>5. u \in Seq(LineType) /\ \E at, nth : Places(s, u, at, nth)
  BY FlattenPlaces
<1>6. PICK at, nth : Places(s, u, at, nth)
  BY <1>5
<1> HIDE DEF t, u
<1>7. PICK D : /\ KeepsBranches(t, u, at, D)
               /\ \A q \in DOMAIN u : nth[q] = Len(s[at[q]]) => D[q] = 0
  <2>1. \A i \in DOMAIN s \ DOMAIN t : s[i] = <<>>
    BY <1>4
  <2> QED BY <1>4, <1>5, <1>6, <2>1, PiecesKeepBranches
<1>8. /\ D \in [0 .. Len(u) -> Nat] /\ D[0] = 0 /\ at \in [DOMAIN u -> DOMAIN t]
      /\ \A q \in DOMAIN u : StepDepth(u[q], D[q - 1], D[q])
  BY <1>4, <1>7 DEF KeepsBranches
<1>9. DOMAIN u = 1 .. Len(u) /\ Len(u) \in Nat
  BY <1>5
<1>10. D[Len(u)] = 0
  <2>1. CASE Len(u) = 0
    BY <2>1, <1>8
  <2>2. CASE Len(u) # 0
    <3>1. PICK q \in DOMAIN u : q = Len(u)
      BY <2>2, <1>9
    <3>2. at[q] \in DOMAIN s /\ nth[q] \in DOMAIN s[at[q]] /\ s[at[q]] \in Seq(LineType)
      BY <3>1, <1>6 DEF Places
    <3>3. DOMAIN s[at[q]] = 1 .. Len(s[at[q]]) /\ Len(s[at[q]]) \in Nat
      BY <3>2
    <3>4. Len(s[at[q]]) \in DOMAIN s[at[q]]
      BY <3>2, <3>3
    <3>5. PICK p \in DOMAIN u : at[p] = at[q] /\ nth[p] = Len(s[at[q]])
      BY <3>2, <3>4, <1>6 DEF Places
    <3>6. p = q
      <4>1. CASE p < q
        <5>1. at[p] < at[q] \/ (at[p] = at[q] /\ nth[p] < nth[q])
          BY <4>1, <1>6 DEF Places
        <5> QED BY <3>2, <3>3, <3>5, <5>1, <1>1
      <4>2. p < q \/ p = q
        BY <3>1, <1>9
      <4> QED BY <4>1, <4>2
    <3> QED BY <1>7, <3>1, <3>5, <3>6
  <2> QED BY <2>1, <2>2
<1>11. Depths(u, D)
  BY <1>8, <1>9, <1>10 DEF Depths
<1>12. Block(u)
  BY <1>11 DEF Block
<1> QED BY <1>5, <1>12 DEF u

LEMMA ConcatThree ==
  ASSUME NEW S, NEW a \in Seq(S), NEW b \in Seq(S), NEW c \in Seq(S)
  PROVE  LET s == a \o b \o c
         IN  /\ s \in Seq(S) /\ Len(s) = Len(a) + Len(b) + Len(c)
             /\ \A j \in 1 .. Len(a) : s[j] = a[j]
             /\ \A j \in 1 .. Len(b) : s[Len(a) + j] = b[j]
             /\ \A j \in 1 .. Len(c) : s[Len(a) + Len(b) + j] = c[j]
<1>1. PICK ab \in Seq(S) : ab = a \o b
  BY ConcatPlaces
<1>2. /\ Len(ab) = Len(a) + Len(b)
      /\ \A j \in 1 .. Len(a) : ab[j] = a[j]
      /\ \A j \in 1 .. Len(b) : ab[Len(a) + j] = b[j]
  BY <1>1, ConcatPlaces
<1>3. /\ ab \o c \in Seq(S) /\ Len(ab \o c) = Len(ab) + Len(c)
      /\ \A j \in 1 .. Len(ab) : (ab \o c)[j] = ab[j]
      /\ \A j \in 1 .. Len(c) : (ab \o c)[Len(ab) + j] = c[j]
  BY ConcatPlaces
<1>4. Len(a) \in Nat /\ Len(b) \in Nat
  OBVIOUS
<1>5. a \o b \o c = ab \o c
  BY <1>1
<1>6. PICK s : s = ab \o c
  OBVIOUS
<1>7. /\ s \in Seq(S) /\ Len(s) = Len(a) + Len(b) + Len(c)
      /\ \A j \in 1 .. Len(a) : s[j] = a[j]
      /\ \A j \in 1 .. Len(b) : s[Len(a) + j] = b[j]
      /\ \A j \in 1 .. Len(c) : s[Len(a) + Len(b) + j] = c[j]
  <2>1. \A j \in 1 .. Len(a) : j \in 1 .. Len(ab)
    BY <1>2, <1>4
  <2>2. \A j \in 1 .. Len(b) : Len(a) + j \in 1 .. Len(ab)
    BY <1>2, <1>4
  <2> QED BY <1>2, <1>3, <1>6, <2>1, <2>2
<1> QED BY <1>5, <1>6, <1>7

\* An assignment with its guards is a block.
LEMMA GuardedBlock ==
  ASSUME NEW st \in Seq(GuardType), NEW x
  PROVE  Block(Guarded(x, st))
<1> DEFINE n == Len(st)
           a == [i \in DOMAIN st |-> Guard(st[i].wrap)]
           b == <<Assign(x)>>
           c == [i \in DOMAIN st |-> Line("endif")]
           s == a \o b \o c
           d == [j \in 0 .. 2 * n + 1 |-> IF j <= n THEN j ELSE 2 * n + 1 - j]
<1>1. n \in Nat /\ DOMAIN st = 1 .. n
  OBVIOUS
<1>2. \A l : Guard(l).k = "if"
  BY DEF Guard, Line
<1>3. Line("endif").k = "endif" /\ Assign(x).k = "assign"
  BY DEF Assign, Line
<1>4. a \in Seq({l : l \in {Guard(st[i].wrap) : i \in DOMAIN st}}) /\ Len(a) = n /\ \A j \in 1 .. n : a[j].k = "if"
  BY <1>1, <1>2
<1>5. Len(c) = n /\ \A j \in 1 .. n : c[j].k = "endif"
  BY <1>1, <1>3
<1>6. Len(b) = 1 /\ b[1].k = "assign"
  BY <1>3
<1> DEFINE T == {Guard(st[i].wrap) : i \in DOMAIN st} \cup {Assign(x), Line("endif")}
<1>7. a \in Seq(T) /\ b \in Seq(T) /\ c \in Seq(T)
  BY <1>1
<1>8. Guarded(x, st) = s
  BY DEF Guarded
<1> HIDE DEF a, b, c, T, n
<1>9. /\ Len(s) = 2 * n + 1
      /\ \A j \in 1 .. n : s[j] = a[j] /\ s[n + 1 + j] = c[j]
      /\ s[n + 1] = b[1]
  <2>1. /\ Len(s) = Len(a) + Len(b) + Len(c)
        /\ \A j \in 1 .. Len(a) : s[j] = a[j]
        /\ \A j \in 1 .. Len(b) : s[Len(a) + j] = b[j]
        /\ \A j \in 1 .. Len(c) : s[Len(a) + Len(b) + j] = c[j]
    BY <1>7, ConcatThree
  <2> HIDE DEF s
  <2>2. 1 \in 1 .. Len(b)
    BY <1>6
  <2>3. s[Len(a) + 1] = b[1]
    BY <2>1, <2>2
  <2> QED BY <1>1, <1>4, <1>5, <1>6, <2>1, <2>3
<1> HIDE DEF s
<1>10. ASSUME NEW j \in 1 .. 2 * n + 1 PROVE StepDepth(s[j], d[j - 1], d[j])
  <2>1. CASE j <= n
    <3>1. s[j].k = "if" /\ d[j] = j /\ d[j - 1] = j - 1
      BY <2>1, <1>1, <1>4, <1>9
    <3> QED BY <3>1, <1>1 DEF StepDepth
  <2>2. CASE j = n + 1
    <3>0. n + 1 - 1 = n /\ 2 * n + 1 - (n + 1) = n /\ ~(n + 1 <= n) /\ n + 1 \in 0 .. 2 * n + 1 /\ n \in 0 .. 2 * n + 1
      BY <1>1
    <3>2. d[n + 1] = n /\ d[n] = n
      BY <3>0, <1>1
    <3>3. s[j].k = "assign"
      BY <2>2, <1>6, <1>9
    <3> HIDE DEF d
    <3>4. j - 1 = n
      BY <2>2, <3>0
    <3>1. s[j].k = "assign" /\ d[j] = n /\ d[j - 1] = n
      BY <2>2, <3>2, <3>3, <3>4, Zenon
    <3> QED BY <3>1, <1>1 DEF StepDepth
  <2>3. CASE j > n + 1
    <3>1. PICK k \in 1 .. n : j = n + 1 + k
      BY <2>3, <1>1
    <3>2. s[j].k = "endif"
      BY <3>1, <1>5, <1>9
    <3>3. d[j] = 2 * n + 1 - j /\ d[j - 1] = 2 * n + 1 - (j - 1)
      BY <2>3, <1>1
    <3> HIDE DEF d
    <3> QED BY <3>2, <3>3, <1>1 DEF StepDepth
  <2> QED BY <2>1, <2>2, <2>3, <1>1
<1>11. d \in [0 .. Len(s) -> Nat] /\ d[0] = 0 /\ d[Len(s)] = 0
  BY <1>1, <1>9
<1> HIDE DEF d
<1>12. Block(s)
  BY <1>9, <1>10, <1>11 DEF Depths, Block
<1> QED BY <1>8, <1>12

\* The assignments yet to be placed are whole blocks.
Whole(e) == \A j \in DOMAIN e : Block(e[j].ls)

LEMMA FlattenWhole ==
  ASSUME NEW d \in Seq(Seq(ExtraType)), \A i \in DOMAIN d : Whole(d[i])
  PROVE  Whole(FlattenSeq(d))
<1>1. FlattenSeq(d) \in Seq(ExtraType) /\ \E at, nth : Places(d, FlattenSeq(d), at, nth)
  BY FlattenPlaces
<1>2. PICK at, nth : Places(d, FlattenSeq(d), at, nth)
  BY <1>1
<1>3. ASSUME NEW k \in DOMAIN FlattenSeq(d)
      PROVE  at[k] \in DOMAIN d /\ nth[k] \in DOMAIN d[at[k]] /\ FlattenSeq(d)[k] = d[at[k]][nth[k]]
  BY <1>2 DEF Places
<1> QED BY <1>3 DEF Whole

LEMMA WholeJoined ==
  ASSUME NEW e \in Seq(ExtraType), NEW d \in Seq(ExtraType), Whole(e), Whole(d)
  PROVE  Whole(e \o d)
<1> SUFFICES ASSUME NEW k \in DOMAIN (e \o d) PROVE Block((e \o d)[k].ls)
  BY DEF Whole
<1>1. (\E j \in DOMAIN e : (e \o d)[k] = e[j]) \/ (\E j \in DOMAIN d : (e \o d)[k] = d[j])
  <2>1. k \in 1 .. Len(e) \/ (k - Len(e) \in 1 .. Len(d) /\ k = Len(e) + (k - Len(e)))
    OBVIOUS
  <2> QED BY <2>1, ConcatPlaces
<1> QED BY <1>1 DEF Whole

LEMMA ParametersWhole ==
  ASSUME NEW t, Sound(t)
  PROVE  Whole(ConvertParameters(t).extra)
<1> DEFINE converts(l) == l.k = "param" /\ Convertible(l)
           d == [i \in DOMAIN t |->
                   IF converts(t[i]) THEN NewAssignments(t[i], t, Scope(t, i), GuardStacks(t)[i]) ELSE <<>>]
<1>1. ConvertParameters(t).extra = FlattenSeq(d)
  BY DEF ConvertParameters
<1>2. t \in Seq(LineType) /\ DOMAIN t = 1 .. Len(t) /\ Len(t) \in Nat
  BY DEF Sound
<1>3. ASSUME NEW i \in DOMAIN t PROVE d[i] \in Seq(ExtraType) /\ Whole(d[i])
  <2>1. Clean(t[i])
    BY SoundLine
  <2>2. GuardStacks(t)[i] \in Seq(GuardType) /\ Scope(t, i) \in Nat
    BY <1>2, GuardStacksType, ScopeType
  <2>3. PICK y : y = NewAssignments(t[i], t, Scope(t, i), GuardStacks(t)[i])
    OBVIOUS
  <2>4. y \in Seq(ExtraType)
    BY <2>1, <2>2, <2>3, NewAssignmentsType
  <2>5. Whole(y)
    <3>1. \A j \in DOMAIN y : y[j].ls = Guarded(Assigned(t[i], t)[j], GuardStacks(t)[i])
      BY <2>3 DEF NewAssignments
    <3> QED BY <2>2, <3>1, GuardedBlock DEF Whole
  <2>6. <<>> \in Seq(ExtraType) /\ Whole(<<>>)
    BY DEF Whole
  <2> QED BY <2>3, <2>4, <2>5, <2>6
<1>4. d \in Seq(Seq(ExtraType)) /\ DOMAIN d = DOMAIN t
  BY <1>2, <1>3
<1> HIDE DEF d
<1> QED BY <1>1, <1>3, <1>4, FlattenWhole

LEMMA DataWhole ==
  ASSUME NEW t, Sound(t)
  PROVE  Whole(ConvertData(t).extra)
<1> DEFINE d == [i \in DOMAIN t |-> IF IsFpData(t[i]) THEN DataExtras(t, i) ELSE <<>>]
<1>1. ConvertData(t).extra = FlattenSeq(d)
  BY DEF ConvertData, DataExtras
<1>2. ASSUME NEW i \in DOMAIN t PROVE Whole(d[i])
  <2>1. ASSUME NEW j \in DOMAIN DataExtras(t, i) PROVE Block(DataExtras(t, i)[j].ls)
    <3>1. PICK a : a = Assign(WithoutItems(t[i], Known).it[j])
      OBVIOUS
    <3>2. DataExtras(t, i)[j].ls = <<a>>
      BY <3>1 DEF DataExtras
    <3>3. a.k = "assign"
      BY <3>1 DEF Assign, Line
    <3> QED BY <3>2, <3>3, BlockOfOne DEF IsDirective
  <2>2. Whole(DataExtras(t, i)) /\ Whole(<<>>)
    BY <2>1 DEF Whole
  <2> QED BY <2>2
<1>3. d \in Seq(Seq(ExtraType)) /\ DOMAIN d = DOMAIN t
  BY DataExtrasType
<1> HIDE DEF d
<1> QED BY <1>1, <1>2, <1>3, FlattenWhole

LEMMA AddedSequences ==
  ASSUME NEW s \in Seq(AddedLines)
  PROVE  s \in Seq(LineType)
BY DEF AddedLines

LEMMA ExtrasBlock ==
  ASSUME NEW e \in Seq(ExtraType), Whole(e), NEW sc
  PROVE  ExtrasOf(e, sc) \in Seq(AddedLines) /\ Block(ExtrasOf(e, sc))
<1> DEFINE z == [i \in DOMAIN e |-> IF e[i].scope = sc THEN e[i].ls ELSE <<>>]
<1>1. DOMAIN e = 1 .. Len(e) /\ Len(e) \in Nat /\ \A i \in DOMAIN e : e[i] \in ExtraType
  OBVIOUS
<1>2. \A x \in ExtraType : x.ls \in Seq(LineType)
  BY AddedSequences DEF ExtraType
<1>3. <<>> \in Seq(LineType)
  OBVIOUS
<1>4. z \in Seq(Seq(LineType)) /\ DOMAIN z = DOMAIN e
  BY <1>1, <1>2, <1>3
<1>5. \A i \in DOMAIN z : Block(z[i])
  BY BlockOfNone DEF Whole
<1>6. ExtrasOf(e, sc) = FlattenSeq(z)
  BY DEF ExtrasOf
<1> HIDE DEF z
<1> QED BY <1>4, <1>5, <1>6, FlattenBlock, ExtrasType

LEMMA AssignAtBlock ==
  ASSUME NEW t \in Seq(LineType), NEW e \in Seq(ExtraType), Whole(e), NEW i
  PROVE  AssignAt(t, e, i) \in Seq(AddedLines) /\ Block(AssignAt(t, e, i))
<1> DEFINE C == Cardinality(Procedures(t))
           z == [n \in 1 .. C |-> AssignsOf(t, e, i, n)]
<1>1. C \in Nat
  BY ProcedureLines, FS_CardinalityType
<1>2. \A n \in 1 .. C : AssignsOf(t, e, i, n) \in Seq(AddedLines) /\ Block(AssignsOf(t, e, i, n))
  <2>1. <<>> \in Seq(AddedLines)
    OBVIOUS
  <2> QED BY <2>1, BlockOfNone, ExtrasBlock DEF AssignsOf
<1>3. AssignAt(t, e, i) = FlattenSeq(z)
  BY DEF AssignAt
<1> HIDE DEF C
<1>4. z \in Seq(Seq(AddedLines)) /\ z \in Seq(Seq(LineType)) /\ \A n \in DOMAIN z : Block(z[n])
  <2>1. \A n \in 1 .. C : z[n] \in Seq(AddedLines) /\ z[n] \in Seq(LineType) /\ Block(z[n])
    BY <1>2, AddedSequences
  <2>2. z = [n \in 1 .. C |-> z[n]] /\ DOMAIN z = 1 .. C
    OBVIOUS
  <2> HIDE DEF z
  <2>3. z \in Seq(Seq(AddedLines))
    BY <1>1, <2>1, <2>2
  <2>4. z \in Seq(Seq(LineType))
    BY <1>1, <2>1, <2>2
  <2>5. \A n \in DOMAIN z : Block(z[n])
    BY <2>1, <2>2
  <2> QED BY <2>3, <2>4, <2>5
<1> HIDE DEF z
<1>5. FlattenSeq(z) \in Seq(AddedLines)
  BY <1>4, FlattenPlaces
<1> QED BY <1>3, <1>4, <1>5, FlattenBlock

-----------------------------------------------------------------------------
(* The passes that put lines in.                                           *)

\* Line l, first of the piece for line i, stands right behind a header.
BehindHeader(t, i, l) ==
  /\ Phase(l) = 1 /\ ~IsDirective(t[i])
  /\ \E h \in Lines(t, "header") : h < i /\ \A j \in h + 1 .. i - 1 : IsDirective(t[j])

BeforeStatement(t, i, l) ==
  Phase(l) = 3 /\ (t[i].k \in {"exec", "assign"} \/ (t[i].k = "end" /\ ~InInterface(t, i)))

LEMMA PiecesPassed ==
  ASSUME NEW t \in Seq(LineType), NEW s \in Seq(Seq(LineType)), NEW u \in Seq(LineType),
         NEW at, NEW nth, Places(s, u, at, nth), Follows(t, u, at),
         DOMAIN t \subseteq DOMAIN s, \A i \in DOMAIN s \ DOMAIN t : s[i] = <<>>,
         \A i \in DOMAIN t :
            /\ s[i] # <<>> /\ s[i][Len(s[i])] = t[i]
            /\ IF IsDirective(t[i]) THEN Len(s[i]) = 1 ELSE Block(s[i])
            /\ \A j \in DOMAIN s[i] :
                  \/ j = Len(s[i]) \/ IsDirective(s[i][j])
                  \/ /\ ~Structural(s[i][j])
                     /\ (j = 1 /\ BehindHeader(t, i, s[i][j])) \/ BeforeStatement(t, i, s[i][j])
  PROVE  \E D, own : Passed(t, u, at, D, own)
<1>1. ASSUME NEW i \in DOMAIN t
      PROVE  IF IsDirective(t[i]) THEN Len(s[i]) = 1 /\ s[i][1].k = t[i].k /\ s[i][1].cond = t[i].cond
                                  ELSE Block(s[i])
  <2>1. CASE IsDirective(t[i])
    <3>1. Len(s[i]) = 1 /\ s[i][Len(s[i])] = t[i]
      BY <2>1
    <3> QED BY <2>1, <3>1
  <2> QED BY <2>1
<1>2. PICK D : KeepsBranches(t, u, at, D) /\ \A q \in DOMAIN u : nth[q] = Len(s[at[q]]) => D[q] = 0
  BY <1>1, PiecesKeepBranches
<1> DEFINE own == {q \in DOMAIN u : nth[q] = Len(s[at[q]])}
<1>3. ASSUME NEW q \in DOMAIN u
      PROVE  /\ at[q] \in DOMAIN t /\ nth[q] \in DOMAIN s[at[q]] /\ u[q] = s[at[q]][nth[q]]
             /\ q \in Nat /\ at[q] \in Nat /\ nth[q] \in Nat /\ nth[q] >= 1 /\ Len(s[at[q]]) \in Nat
             /\ nth[q] <= Len(s[at[q]])
  <2>1. at[q] \in DOMAIN s /\ nth[q] \in DOMAIN s[at[q]] /\ u[q] = s[at[q]][nth[q]]
    BY DEF Places
  <2>2. s[at[q]] \in Seq(LineType)
    BY <2>1
  <2>3. at[q] \in DOMAIN t
    <3>1. s[at[q]] # <<>>
      BY <2>1, <2>2
    <3> QED BY <2>1, <3>1
  <2> QED BY <2>1, <2>2, <2>3
<1>4. \A p, q \in DOMAIN u : p < q => at[p] < at[q] \/ (at[p] = at[q] /\ nth[p] < nth[q])
  BY DEF Places
<1>5. ASSUME NEW q \in own PROVE Rewritten(t, u, at, q) /\ D[q] = 0
  <2>1. u[q] = t[at[q]]
    BY <1>3, <1>5
  <2>2. ASSUME NEW p \in DOMAIN u, q < p PROVE at[q] < at[p]
    <3>1. at[q] = at[p] /\ nth[q] < nth[p] => FALSE
      BY <1>3, <1>5
    <3> QED BY <1>4, <1>5, <2>2, <3>1
  <2> QED BY <1>2, <1>3, <1>5, <2>1, <2>2 DEF Rewritten
<1>6. ASSUME NEW q \in DOMAIN u \ own, ~IsDirective(u[q])
      PROVE  ~Structural(u[q]) /\ (AfterDirectives(t, u, at, q) \/ BeforeExecuted(t, u, at, q))
  <2>1. at[q] \in DOMAIN t /\ nth[q] \in DOMAIN s[at[q]] /\ u[q] = s[at[q]][nth[q]] /\ nth[q] # Len(s[at[q]])
    BY <1>3, <1>6
  <2>2. /\ ~Structural(u[q])
        /\ (nth[q] = 1 /\ BehindHeader(t, at[q], u[q])) \/ BeforeStatement(t, at[q], u[q])
    BY <1>6, <2>1
  <2>3. ASSUME nth[q] = 1, NEW p \in DOMAIN u, p < q PROVE at[p] < at[q]
    <3>1. nth[p] < nth[q] => FALSE
      BY <1>3, <2>3
    <3> QED BY <1>4, <2>3, <3>1
  <2>4. nth[q] = 1 /\ BehindHeader(t, at[q], u[q]) => AfterDirectives(t, u, at, q)
    BY <2>3 DEF BehindHeader, AfterDirectives
  <2>5. BeforeStatement(t, at[q], u[q]) => BeforeExecuted(t, u, at, q)
    BY <2>1 DEF BeforeStatement, BeforeExecuted
  <2> QED BY <2>2, <2>4, <2>5
<1>7. own \subseteq DOMAIN u
  OBVIOUS
<1> HIDE DEF own
<1>8. Passed(t, u, at, D, own)
  BY <1>2, <1>5, <1>6, <1>7 DEF Passed
<1> QED BY <1>8

\* The scan past the directives behind a header ends at a line of the file.
LEMMA AfterHeaderStays ==
  ASSUME NEW t \in Seq(LineType), WellFormed(t), NEW h \in Lines(t, "header")
  PROVE  LET a == AfterHeader(t, h)
         IN  /\ a \in DOMAIN t /\ a \in Nat /\ h \in Nat /\ h < a /\ ~IsDirective(t[a])
             /\ \A j \in h + 1 .. a - 1 : IsDirective(t[j])
<1> DEFINE T == {k \in h + 1 .. Len(t) + 1 : k > Len(t) \/ ~IsDirective(t[k])}
<1>1. h \in DOMAIN t /\ DOMAIN t = 1 .. Len(t) /\ Len(t) \in Nat /\ h \in Nat
  BY DEF Lines
<1>2. PICK e \in DOMAIN t : h < e /\ t[e].k = "end"
  <2>1. CASE InInterface(t, h)
    BY <2>1 DEF WellFormed, Lines
  <2>2. CASE ~InInterface(t, h)
    <3>1. h \in Procedures(t)
      BY <2>2 DEF Procedures
    <3> QED BY <3>1 DEF WellFormed, Lines
  <2> QED BY <2>1, <2>2
<1>3. e \in T /\ T \in SUBSET Nat
  BY <1>1, <1>2 DEF IsDirective
<1>4. AfterHeader(t, h) = FirstOf(T)
  BY DEF AfterHeader
<1> HIDE DEF T
<1>5. FirstOf(T) \in T /\ FirstOf(T) <= e
  BY <1>3, FirstOfLeast
<1>6. FirstOf(T) \in h + 1 .. Len(t) + 1 /\ (FirstOf(T) > Len(t) \/ ~IsDirective(t[FirstOf(T)]))
  BY <1>5 DEF T
<1>7. FirstOf(T) \in DOMAIN t /\ FirstOf(T) \in Nat /\ h < FirstOf(T) /\ ~IsDirective(t[FirstOf(T)])
  BY <1>1, <1>2, <1>5, <1>6
<1>8. PICK a : a = AfterHeader(t, h)
  OBVIOUS
<1>9. \A j \in h + 1 .. a - 1 : IsDirective(t[j])
  BY <1>1, <1>8, AfterHeaderIs
<1>10. a \in DOMAIN t /\ a \in Nat /\ h < a /\ ~IsDirective(t[a])
  BY <1>4, <1>7, <1>8
<1> QED BY <1>1, <1>8, <1>9, <1>10

\* Where the assignments of a procedure go stands a statement that is
\* executed, or its END.
LEMMA WalkEnds ==
  ASSUME NEW t \in Seq(LineType), WellFormed(t), InterfacesOpen(t), NEW h \in Procedures(t)
  PROVE  LET w == WalkDeclBlock(t, AfterHeader(t, h))
         IN  /\ w \in DOMAIN t /\ w \in Nat /\ h < w /\ w <= NextEnd(t, h)
             /\ ~InInterface(t, w) /\ ~IsStatementFunction(t, w)
             /\ t[w].k \in {"exec", "assign", "end"} \cup FunctionKinds
<1> DEFINE a == AfterHeader(t, h)
           T == {k \in a .. Len(t) + 1 : k > Len(t) \/ ~InDeclBlock(t, k)}
           w == WalkDeclBlock(t, a)
           e == NextEnd(t, h)
<1>1. h \in DOMAIN t /\ h \in Nat /\ DOMAIN t = 1 .. Len(t) /\ Len(t) \in Nat
  BY ProcedureLines
<1>2. /\ e \in DOMAIN t /\ e \in Nat /\ h < e /\ ~InInterface(t, e) /\ t[e].k = "end"
      /\ \A j \in h + 1 .. e - 1 : t[j].k \in {"header", "end"} => InInterface(t, j)
  BY ProcedureEnd DEF Lines
<1>3. w \in h + 1 .. e
  BY WalkStaysIn
<1>4. a \in Nat /\ a \in DOMAIN t
  <2>1. h \in Lines(t, "header")
    BY DEF Procedures
  <2> QED BY <2>1, AfterHeaderStays
<1>5. w = FirstOf(T)
  BY DEF WalkDeclBlock
<1>6. e \in T
  <2>1. a <= e
    <3>1. ASSUME e < a PROVE FALSE
      <4>1. h \in Lines(t, "header")
        BY DEF Procedures
      <4>2. IsDirective(t[e])
        BY <1>1, <1>2, <1>4, <3>1, <4>1, AfterHeaderStays
      <4> QED BY <1>2, <4>2 DEF IsDirective
    <3> QED BY <1>2, <1>4, <3>1
  <2>2. ~InDeclBlock(t, e)
    BY <1>2 DEF InDeclBlock, IsComment, IsDirective, IsStatementFunction
  <2> QED BY <1>1, <1>2, <1>4, <2>1, <2>2
<1>7. T \in SUBSET Nat
  BY <1>4
<1> HIDE DEF T, a, w, e
<1>8. w \in T
  BY <1>5, <1>6, <1>7, FirstOfLeast
<1>9. w \in DOMAIN t /\ w \in Nat /\ h < w /\ w <= e
  BY <1>1, <1>2, <1>3
<1>10. ~InDeclBlock(t, w)
  BY <1>1, <1>8, <1>9 DEF T
<1>11. /\ t[w].k \notin {"comment", "marker", "if", "elif", "else", "endif", "decl", "use", "useonly",
                         "param", "data", "external", "continued", "endinterface"}
       /\ ~InInterface(t, w) /\ ~IsStatementFunction(t, w)
  BY <1>10 DEF InDeclBlock, IsComment, IsDirective
<1>12. t[w].k # "interface"
  BY <1>9, <1>11 DEF InterfacesOpen, Lines
<1>13. t[w].k # "header"
  <2>1. CASE w = e
    BY <2>1, <1>2
  <2>2. CASE w # e
    <3>1. w \in h + 1 .. e - 1
      BY <2>2, <1>1, <1>2, <1>9
    <3> QED BY <3>1, <1>2, <1>11
  <2> QED BY <2>1, <2>2
<1>14. t[w].k \in Kinds
  BY <1>9, LineFields
<1>15. t[w].k \in {"exec", "assign", "end"} \cup FunctionKinds
  BY <1>11, <1>12, <1>13, <1>14 DEF Kinds, FunctionKinds
<1> QED BY <1>9, <1>11, <1>15 DEF a, w, e

LEMMA AssignedBefore ==
  ASSUME NEW t \in Seq(LineType), WellFormed(t), InterfacesOpen(t),
         NEW e \in Seq(ExtraType), FunctionsApart(t, e), NEW i, AssignAt(t, e, i) # <<>>
  PROVE  i \in DOMAIN t /\ (t[i].k \in {"exec", "assign"} \/ (t[i].k = "end" /\ ~InInterface(t, i)))
<1> DEFINE C == Cardinality(Procedures(t))
           z == [n \in 1 .. C |-> AssignsOf(t, e, i, n)]
<1>1. C \in Nat
  BY ProcedureLines, FS_CardinalityType
<1>2. \E n \in 1 .. C : AssignsOf(t, e, i, n) # <<>>
  <2> SUFFICES ASSUME \A n \in 1 .. C : AssignsOf(t, e, i, n) = <<>> PROVE FALSE
    OBVIOUS
  <2>1. z = [n \in 1 .. C |-> <<>>]
    OBVIOUS
  <2>2. AssignAt(t, e, i) = FlattenSeq(z)
    BY DEF AssignAt
  <2> HIDE DEF z, C
  <2> QED BY <1>1, <2>1, <2>2, FlattenOfEmpty
<1>3. PICK n \in 1 .. C : AssignsOf(t, e, i, n) # <<>>
  BY <1>2
<1>4. PICK h \in Procedures(t) : Scope(t, h) = n /\ WalkDeclBlock(t, AfterHeader(t, h)) = i
  BY <1>3 DEF AssignsOf
<1>5. ExtrasOf(e, n) # <<>>
  BY <1>3 DEF AssignsOf
<1>6. PICK j \in DOMAIN e : e[j].scope = n
  <2> SUFFICES ASSUME \A j \in DOMAIN e : e[j].scope # n PROVE FALSE
    OBVIOUS
  <2> DEFINE y == [k \in DOMAIN e |-> IF e[k].scope = n THEN e[k].ls ELSE <<>>]
  <2>1. y = [k \in 1 .. Len(e) |-> <<>>] /\ Len(e) \in Nat
    OBVIOUS
  <2>2. ExtrasOf(e, n) = FlattenSeq(y)
    BY DEF ExtrasOf
  <2> HIDE DEF y
  <2> QED BY <1>5, <2>1, <2>2, FlattenOfEmpty
<1>7. /\ i \in DOMAIN t /\ i \in Nat /\ h < i /\ i <= NextEnd(t, h)
      /\ ~InInterface(t, i) /\ ~IsStatementFunction(t, i)
      /\ t[i].k \in {"exec", "assign", "end"} \cup FunctionKinds
  BY <1>4, WalkEnds
<1>8. Scope(t, i) = Scope(t, h)
  <2>1. h \in Nat /\ h <= i /\ NextEnd(t, h) \in Nat
    BY <1>7, ProcedureLines, ProcedureEnd
  <2>2. ASSUME NEW p \in Procedures(t), h < p PROVE i < p
    <3>1. NextEnd(t, h) < p /\ p \in Nat
      BY <2>2, ProceduresApart, ProcedureLines
    <3> QED BY <1>7, <2>1, <3>1
  <2> QED BY <1>7, <2>1, <2>2, ScopeInside
<1>9. t[i].k \notin FunctionKinds
  <2>1. t[i].k \in FunctionKinds => e[j].scope # Scope(t, i)
    BY <1>7 DEF FunctionsApart, AssignsNone
  <2> QED BY <1>4, <1>6, <1>8, <2>1
<1> QED BY <1>7, <1>9 DEF FunctionKinds

LEMMA UseAtBehind ==
  ASSUME NEW t \in Seq(LineType), WellFormed(t), NEW i, UseAt(t, i) # <<>>
  PROVE  i \in DOMAIN t /\ BehindHeader(t, i, BareUse)
<1>1. PICK h \in Lines(t, "header") : AfterHeader(t, h) = i
  BY DEF UseAt
<1>2. Phase(BareUse) = 1
  BY InsertedLines DEF Phase
<1> QED BY <1>1, <1>2, AfterHeaderStays DEF BehindHeader

LEMMA AddedIs ==
  ASSUME NEW l \in AddedLines
  PROVE  ~Structural(l) /\ (IsDirective(l) \/ Phase(l) = 3)
BY DEF AddedLines, Structural, IsDirective, Phase

\* What two pieces in front of a line make, and two lines.
LEMMA PiecesBefore ==
  ASSUME NEW S, NEW a \in Seq(S), NEW b \in Seq(S), NEW l \in S
  PROVE  \E r \in Seq(S) :
            /\ r = a \o b \o <<l>>
            /\ r # <<>> /\ Len(r) = Len(a) + Len(b) + 1 /\ DOMAIN r = 1 .. Len(r) /\ r[Len(r)] = l
            /\ \A j \in 1 .. Len(a) : r[j] = a[j]
            /\ \A j \in 1 .. Len(b) : r[Len(a) + j] = b[j]
            /\ \A j \in DOMAIN r : j <= Len(a) \/ (Len(a) < j /\ j <= Len(a) + Len(b)) \/ j = Len(r)
<1>1. PICK o \in Seq(S) : o = <<l>>
  <2>1. <<l>> \in Seq(S)
    OBVIOUS
  <2> QED BY <2>1
<1>2. Len(o) = 1 /\ o[1] = l /\ 1 \in 1 .. Len(o)
  BY <1>1
<1>3. /\ a \o b \o o \in Seq(S) /\ Len(a \o b \o o) = Len(a) + Len(b) + Len(o)
      /\ \A j \in 1 .. Len(a) : (a \o b \o o)[j] = a[j]
      /\ \A j \in 1 .. Len(b) : (a \o b \o o)[Len(a) + j] = b[j]
      /\ \A j \in 1 .. Len(o) : (a \o b \o o)[Len(a) + Len(b) + j] = o[j]
  BY ConcatThree
<1>4. PICK r : r = a \o b \o o
  OBVIOUS
<1>5. PICK m, n : m = Len(a) /\ n = Len(b)
  OBVIOUS
<1>6. m \in Nat /\ n \in Nat
  BY <1>5
<1>7. r \in Seq(S) /\ Len(r) = m + n + 1 /\ r[m + n + 1] = l
  BY <1>2, <1>3, <1>4, <1>5
<1>8. DOMAIN r = 1 .. Len(r) /\ r # <<>>
  <2>1. Len(r) # 0
    BY <1>6, <1>7
  <2> QED BY <1>7, <2>1
<1>9. \A j \in DOMAIN r : j <= m \/ (m < j /\ j <= m + n) \/ j = Len(r)
  <2>1. DOMAIN r = 1 .. m + n + 1
    BY <1>7, <1>8
  <2> QED BY <1>6, <1>7, <2>1
<1>10. /\ \A j \in 1 .. Len(a) : r[j] = a[j]
       /\ \A j \in 1 .. Len(b) : r[Len(a) + j] = b[j]
  BY <1>3, <1>4
<1> QED BY <1>1, <1>4, <1>5, <1>7, <1>8, <1>9, <1>10

LEMMA TwoLines ==
  ASSUME NEW m \in LineType, NEW l \in LineType
  PROVE  \E r \in Seq(LineType) :
            /\ r = <<m>> \o <<l>> /\ r # <<>> /\ Len(r) = 2 /\ r[1] = m /\ r[2] = l
            /\ DOMAIN r = 1 .. 2
            /\ ~IsDirective(m) /\ ~IsDirective(l) => Block(r)
<1>1. PICK a, b : a = <<m>> /\ b = <<l>>
  OBVIOUS
<1>2. /\ a \in Seq(LineType) /\ b \in Seq(LineType)
      /\ Len(a) = 1 /\ Len(b) = 1 /\ a[1] = m /\ b[1] = l
  BY <1>1
<1>3. /\ \A j \in 1 .. Len(a) : (a \o b)[j] = a[j]
      /\ \A j \in 1 .. Len(b) : (a \o b)[Len(a) + j] = b[j]
      /\ a \o b \in Seq(LineType) /\ Len(a \o b) = Len(a) + Len(b)
  BY <1>2, ConcatPlaces
<1>4. PICK r : r = a \o b
  OBVIOUS
<1>5. r \in Seq(LineType) /\ Len(r) = 2 /\ r[1] = m /\ r[2] = l
  <2>1. 1 \in 1 .. 1 /\ 1 + 1 = 2
    OBVIOUS
  <2> QED BY <1>2, <1>3, <1>4, <2>1
<1>6. DOMAIN r = 1 .. 2 /\ r # <<>>
  <2>1. DOMAIN r = 1 .. Len(r)
    BY <1>5
  <2>2. Len(r) # 0 /\ Len(<<>>) = 0
    BY <1>5
  <2> QED BY <1>5, <2>1, <2>2
<1>7. ASSUME ~IsDirective(m), ~IsDirective(l) PROVE Block(r)
  <2>1. Block(a) /\ Block(b)
    BY <1>1, <1>7, BlockOfOne
  <2> QED BY <1>2, <1>4, <2>1, BlockConcat
<1> QED BY <1>1, <1>4, <1>5, <1>6, <1>7

LEMMA InsertUseCompiles ==
  ASSUME NEW t \in Seq(LineType), WellFormed(t), InterfacesOpen(t),
         NEW e \in Seq(ExtraType), FunctionsApart(t, e), Whole(e), NEW c, Compiles(t, c)
  PROVE  Compiles(InsertUse(t, e), c)
<1> DEFINE s == InsertPieces(t, e)
           u == InsertUse(t, e)
<1>1. /\ s \in Seq(Seq(LineType)) /\ DOMAIN s = 1 .. Len(t) + 1 /\ u \in Seq(LineType)
      /\ \E at, nth : Places(s, u, at, nth) /\ Follows(t, u, at)
  BY InsertPiecesFollow
<1>2. PICK at, nth : Places(s, u, at, nth) /\ Follows(t, u, at)
  BY <1>1
<1>3. DOMAIN t = 1 .. Len(t) /\ Len(t) \in Nat
  OBVIOUS
<1>4. ASSUME NEW i \in DOMAIN s \ DOMAIN t PROVE s[i] = <<>>
  <2>1. UseAt(t, i) = <<>>
    BY UseAtBehind
  <2>2. AssignAt(t, e, i) = <<>>
    BY AssignedBefore
  <2>3. s[i] = UseAt(t, i) \o AssignAt(t, e, i) \o OwnLine(t, i) /\ OwnLine(t, i) = <<>>
    BY <1>1 DEF InsertPieces, OwnLine
  <2>4. <<>> \o <<>> \o <<>> = <<>>
    OBVIOUS
  <2> HIDE DEF s
  <2> QED BY <2>1, <2>2, <2>3, <2>4
<1>5. ASSUME NEW i \in DOMAIN t
      PROVE  /\ s[i] # <<>> /\ s[i][Len(s[i])] = t[i]
             /\ IF IsDirective(t[i]) THEN Len(s[i]) = 1 ELSE Block(s[i])
             /\ \A j \in DOMAIN s[i] :
                   \/ j = Len(s[i]) \/ IsDirective(s[i][j])
                   \/ /\ ~Structural(s[i][j])
                      /\ (j = 1 /\ BehindHeader(t, i, s[i][j])) \/ BeforeStatement(t, i, s[i][j])
  <2>1. PICK a, b, l : a = UseAt(t, i) /\ b = AssignAt(t, e, i) /\ l = t[i]
    OBVIOUS
  <2>2. /\ a \in Seq(LineType) /\ \A j \in DOMAIN a : a[j] = BareUse
        /\ Len(a) \in Nat /\ (a # <<>> => Len(a) = 1) /\ (a = <<>> => Len(a) = 0) /\ DOMAIN a = 1 .. Len(a)
        /\ a # <<>> => BehindHeader(t, i, BareUse)
    <3>1. Inserted \subseteq LineType
      BY InsertedLines
    <3>2. a \in Seq(Inserted)
      BY <2>1, UseAtIs
    <3> QED BY <2>1, <3>1, <3>2, UseAtIs, UseAtBehind
  <2>3. /\ b \in Seq(AddedLines) /\ b \in Seq(LineType) /\ Block(b) /\ DOMAIN b = 1 .. Len(b) /\ Len(b) \in Nat
        /\ b # <<>> => t[i].k \in {"exec", "assign"} \/ (t[i].k = "end" /\ ~InInterface(t, i))
    <3>1. b \in Seq(AddedLines) /\ Block(b)
      BY <2>1, AssignAtBlock
    <3> QED BY <2>1, <3>1, AddedSequences, AssignedBefore
  <2>4. l \in LineType
    BY <2>1
  <2>5. PICK o : o = <<l>>
    OBVIOUS
  <2>6. o \in Seq(LineType) /\ Len(o) = 1 /\ o[1] = l
    BY <2>4, <2>5
  <2>7. PICK r : r = a \o b \o o
    OBVIOUS
  <2>8. s[i] = r
    <3>1. s[i] = UseAt(t, i) \o AssignAt(t, e, i) \o OwnLine(t, i) /\ OwnLine(t, i) = <<t[i]>>
      BY <1>1, <1>3 DEF InsertPieces, OwnLine
    <3> HIDE DEF s
    <3> QED BY <2>1, <2>5, <2>7, <3>1
  <2>9. /\ r \in Seq(LineType)
        /\ \A j \in 1 .. Len(a) : r[j] = a[j]
        /\ \A j \in 1 .. Len(b) : r[Len(a) + j] = b[j]
        /\ \A j \in DOMAIN r : j <= Len(a) \/ (Len(a) < j /\ j <= Len(a) + Len(b)) \/ j = Len(r)
        /\ r # <<>> /\ r[Len(r)] = l /\ Len(r) = Len(a) + Len(b) + 1 /\ DOMAIN r = 1 .. Len(r)
    <3>1. a \in Seq(LineType) /\ b \in Seq(LineType)
      BY <2>2, <2>3
    <3> HIDE DEF s
    <3>2. PICK q \in Seq(LineType) :
            /\ q = a \o b \o <<l>>
            /\ q # <<>> /\ Len(q) = Len(a) + Len(b) + 1 /\ DOMAIN q = 1 .. Len(q) /\ q[Len(q)] = l
            /\ \A j \in 1 .. Len(a) : q[j] = a[j]
            /\ \A j \in 1 .. Len(b) : q[Len(a) + j] = b[j]
            /\ \A j \in DOMAIN q : j <= Len(a) \/ (Len(a) < j /\ j <= Len(a) + Len(b)) \/ j = Len(q)
      BY <2>4, <3>1, PiecesBefore
    <3>3. r = q
      BY <2>5, <2>7, <3>2
    <3> QED BY <3>2, <3>3
  <2>10. r # <<>> /\ r[Len(r)] = l /\ Len(r) = Len(a) + Len(b) + 1 /\ DOMAIN r = 1 .. Len(r)
    BY <2>9
  <2>11. IF IsDirective(l) THEN Len(r) = 1 ELSE Block(r)
    <3>1. CASE IsDirective(l)
      <4>1. a = <<>>
        BY <2>1, <2>2, <3>1 DEF BehindHeader
      <4>2. b = <<>>
        <5>1. l.k \notin {"exec", "assign", "end"}
          BY <3>1 DEF IsDirective
        <5> QED BY <2>1, <2>3, <5>1
      <4>3. Len(b) = 0
        BY <4>2
      <4> QED BY <2>2, <2>10, <3>1, <4>1, <4>3
    <3>2. CASE ~IsDirective(l)
      <4>1. Block(a)
        <5>1. CASE a = <<>>
          BY <5>1, BlockOfNone
        <5>2. CASE a # <<>>
          <6>1. PICK y : y = BareUse
            OBVIOUS
          <6>2. ~IsDirective(y)
            BY <6>1, InsertedLines DEF IsDirective
          <6>3. a = <<y>>
            BY <2>2, <5>2, <6>1
          <6> QED BY <6>2, <6>3, BlockOfOne
        <5> QED BY <5>1, <5>2
      <4>2. Block(o)
        BY <2>5, <3>2, BlockOfOne
      <4>3. Block(a \o b) /\ a \o b \in Seq(LineType)
        BY <2>2, <2>3, <4>1, BlockConcat, ConcatPlaces
      <4>4. Block((a \o b) \o o)
        BY <2>6, <4>2, <4>3, BlockConcat
      <4> QED BY <2>7, <3>2, <4>4
    <3> QED BY <3>1, <3>2
  <2>12. ASSUME NEW j \in DOMAIN r
         PROVE  \/ j = Len(r) \/ IsDirective(r[j])
                \/ /\ ~Structural(r[j])
                   /\ (j = 1 /\ BehindHeader(t, i, r[j])) \/ BeforeStatement(t, i, r[j])
    <3>1. CASE j <= Len(a)
      <4>1. j \in 1 .. Len(a) /\ a # <<>> /\ j = 1
        <5>1. j \in 1 .. Len(a)
          BY <2>10, <3>1
        <5>2. a # <<>>
          BY <2>2, <5>1
        <5> QED BY <2>2, <5>1, <5>2
      <4>2. r[j] = BareUse
        BY <2>2, <2>9, <4>1
      <4>3. ~Structural(BareUse)
        BY InsertedLines DEF Structural
      <4> QED BY <2>2, <4>1, <4>2, <4>3
    <3>2. CASE Len(a) < j /\ j <= Len(a) + Len(b)
      <4>1. PICK k \in 1 .. Len(b) : j = Len(a) + k
        <5>1. j - Len(a) \in 1 .. Len(b) /\ j = Len(a) + (j - Len(a))
          BY <2>2, <2>3, <2>10, <3>2
        <5> QED BY <5>1
      <4>2. r[j] = b[k] /\ b[k] \in AddedLines /\ b # <<>>
        BY <2>3, <2>9, <4>1
      <4>3. ~Structural(r[j]) /\ (IsDirective(r[j]) \/ Phase(r[j]) = 3)
        BY <4>2, AddedIs
      <4> QED BY <2>3, <4>2, <4>3 DEF BeforeStatement
    <3>3. j <= Len(a) \/ (Len(a) < j /\ j <= Len(a) + Len(b)) \/ j = Len(r)
      BY <2>9
    <3> QED BY <3>1, <3>2, <3>3
  <2> HIDE DEF s
  <2> QED BY <2>1, <2>8, <2>10, <2>11, <2>12
<1>6. DOMAIN t \subseteq DOMAIN s
  BY <1>1, <1>3
<1> HIDE DEF s, u
<1>7. PICK D, own : Passed(t, u, at, D, own)
  BY <1>1, <1>2, <1>4, <1>5, <1>6, PiecesPassed
<1>8. Compiles(u, c)
  BY <1>7, CompilesStays
<1> QED BY <1>8 DEF u

LEMMA InsertMpiCompiles ==
  ASSUME NEW t \in Seq(LineType), WellFormed(t), NEW c, Compiles(t, c)
  PROVE  Compiles(InsertMpiUse(t), c)
<1> DEFINE s == [i \in DOMAIN t |-> MpiUseAt(t, i) \o <<t[i]>>]
           u == FlattenSeq(s)
<1>1. DOMAIN t = 1 .. Len(t) /\ Len(t) \in Nat
  OBVIOUS
<1>2. InsertMpiUse(t) = u
  BY DEF InsertMpiUse, MpiUseAt, NeedsMpi
<1>3. MpiUse \in LineType /\ MpiUse.k = "use"
  <2>1. "use" \in Kinds /\ "mpi" \in Types
    BY DEF Kinds, Types
  <2> QED BY <2>1, NewLine, LineExcept DEF MpiUse
<1>4. ~Structural(MpiUse) /\ ~IsDirective(MpiUse) /\ Phase(MpiUse) = 1
  BY <1>3 DEF Structural, IsDirective, Phase
<1>5. ASSUME NEW i \in DOMAIN t
      PROVE  /\ s[i] \in Seq(LineType) /\ s[i] # <<>> /\ s[i][Len(s[i])] = t[i]
             /\ \A j \in DOMAIN s[i] : j = Len(s[i]) \/ (~Structural(s[i][j]) /\ j = 1 /\ BehindHeader(t, i, s[i][j]))
             /\ IF IsDirective(t[i]) THEN Len(s[i]) = 1 ELSE Block(s[i])
  <2>1. PICK l \in LineType, m \in LineType : l = t[i] /\ m = MpiUse
    BY <1>1, <1>3
  <2>2. \/ s[i] = <<>> \o <<l>>
        \/ s[i] = <<m>> \o <<l>> /\ BehindHeader(t, i, m)
    <3>1. CASE \E h \in Lines(t, "header") : AfterHeader(t, h) = i
      <4>1. BehindHeader(t, i, m)
        BY <3>1, <1>4, <2>1, AfterHeaderStays DEF BehindHeader
      <4> QED BY <2>1, <4>1 DEF MpiUseAt
    <3>2. CASE ~\E h \in Lines(t, "header") : AfterHeader(t, h) = i
      BY <2>1, <3>2 DEF MpiUseAt
    <3> QED BY <3>1, <3>2
  <2>3. CASE s[i] = <<>> \o <<l>>
    <3>1. s[i] = <<l>>
      BY <2>3
    <3> HIDE DEF s
    <3>2. s[i] \in Seq(LineType) /\ Len(s[i]) = 1 /\ s[i][1] = l /\ s[i] # <<>> /\ DOMAIN s[i] = 1 .. 1
      BY <3>1
    <3>3. ~IsDirective(l) => Block(s[i])
      BY <3>1, BlockOfOne
    <3> QED BY <2>1, <3>2, <3>3
  <2>4. CASE s[i] = <<m>> \o <<l>> /\ BehindHeader(t, i, m)
    <3>1. ~IsDirective(l) /\ ~IsDirective(m) /\ ~Structural(m)
      BY <1>4, <2>1, <2>4 DEF BehindHeader
    <3>2. PICK r \in Seq(LineType) :
            /\ r = <<m>> \o <<l>> /\ r # <<>> /\ Len(r) = 2 /\ r[1] = m /\ r[2] = l
            /\ DOMAIN r = 1 .. 2
            /\ ~IsDirective(m) /\ ~IsDirective(l) => Block(r)
      BY TwoLines
    <3>3. s[i] = r
      BY <2>4, <3>2
    <3> HIDE DEF s
    <3>4. \A j \in DOMAIN r : j = 1 \/ j = 2
      BY <3>2
    <3> QED BY <2>1, <2>4, <3>1, <3>2, <3>3, <3>4
  <2> QED BY <2>2, <2>3, <2>4
<1>6. s \in Seq(Seq(LineType)) /\ DOMAIN s = DOMAIN t
  <2>1. s = [i \in DOMAIN t |-> s[i]] /\ DOMAIN s = DOMAIN t
    OBVIOUS
  <2> HIDE DEF s
  <2> QED BY <1>1, <1>5, <2>1
<1> HIDE DEF s
<1>7. KeepsStructure(t, s)
  <2>1. \A i \in DOMAIN t : \A j \in DOMAIN s[i] : Structural(s[i][j]) => j = Len(s[i]) /\ s[i][j] = t[i]
    BY <1>5
  <2> QED BY <1>5, <1>6, <2>1 DEF KeepsStructure
<1>8. u \in Seq(LineType) /\ \E at, nth : Places(s, u, at, nth)
  BY <1>6, FlattenPlaces
<1>9. PICK at, nth : Places(s, u, at, nth)
  BY <1>8
<1> HIDE DEF u
<1>10. Follows(t, u, at)
  BY <1>6, <1>7, <1>8, <1>9, PiecesFollow
<1>11. DOMAIN t \subseteq DOMAIN s /\ \A i \in DOMAIN s \ DOMAIN t : s[i] = <<>>
  BY <1>6
<1>12. PICK D, own : Passed(t, u, at, D, own)
  BY <1>5, <1>6, <1>8, <1>9, <1>10, <1>11, PiecesPassed
<1> QED BY <1>2, <1>12, CompilesStays

-----------------------------------------------------------------------------
(* SpecificationsComeFirst at every stage.                                 *)

\* A compiler goes on accepting the text.  Until the assignments are placed,
\* none is due in a procedure the walk would leave before its declarations.
OInv ==
  /\ \A c \in Config : Compiles(text, c)
  /\ stage \in BeforeUse => FunctionsApart(text, extra) /\ Whole(extra)

LEMMA InitOrdered == Init => OInv
<1> SUFFICES ASSUME Init PROVE OInv
  OBVIOUS
<1>1. PICK f \in Sources : text = f.text
  BY DEF Init
<1>2. \A c \in Config : Compiles(text, c)
  BY <1>1, CompilerAssumption
<1>3. extra = <<>>
  BY DEF Init
<1>4. FunctionsApart(text, extra) /\ Whole(extra)
  BY <1>1, <1>3, CompilerAssumption DEF FunctionsApart, AssignsNone, Whole
<1> QED BY <1>2, <1>4 DEF OInv

LEMMA StepOrdered == IInv /\ OInv /\ [Next]_vars => OInv'
<1> SUFFICES ASSUME IInv, OInv, [Next]_vars PROVE OInv'
  OBVIOUS
<1> USE DEF BeforeUse, WithBareUse, WithOnlyList
<1>1. CASE ApplyKeepKind
  <2>1. stage = "read" /\ stage' = "protected" /\ text' = Protect(text, kept) /\ extra' = extra
    BY <1>1 DEF ApplyKeepKind, Pass
  <2>2. /\ text \in Seq(LineType) /\ FunctionsApart(text, extra) /\ Whole(extra)
        /\ \A c \in Config : Compiles(text, c)
    BY <2>1 DEF IInv, OInv, Sound
  <2>3. FunctionsApart(text', extra') /\ \A c \in Config : Compiles(text', c)
    BY <2>1, <2>2, ProtectApart, ProtectCompiles
  <2> QED BY <2>1, <2>2, <2>3 DEF OInv
<1>2. CASE StripKnownConstants
  <2>1. stage = "protected" /\ stage' = "stripped" /\ text' = StripKnown(text) /\ extra' = extra
    BY <1>2 DEF StripKnownConstants, Pass
  <2>2. /\ Sound(text) /\ text \in Seq(LineType)
        /\ FunctionsApart(text, extra) /\ Whole(extra)
        /\ \A c \in Config : Compiles(text, c)
    BY <2>1 DEF IInv, OInv, Sound
  <2>3. FunctionsApart(text', extra') /\ \A c \in Config : Compiles(text', c)
    BY <2>1, <2>2, StripKnownApart, StripKnownCompiles
  <2> QED BY <2>1, <2>2, <2>3 DEF OInv
<1>3. CASE ConvertParameterStmts
  <2> DEFINE r == ConvertParameters(text)
  <2>1. stage = "stripped" /\ stage' = "parameters" /\ text' = r.out /\ extra' = r.extra
    BY <1>3 DEF ConvertParameterStmts, Pass
  <2>2. /\ Sound(text) /\ FunctionsApart(text, extra)
        /\ \A c \in Config : Compiles(text, c)
    BY <2>1 DEF IInv, OInv
  <2>3. /\ FunctionsApart(r.out, r.extra) /\ Whole(r.extra)
        /\ \A c \in Config : Compiles(r.out, c)
    BY <2>2, ConvertParametersApart, ParametersWhole, ConvertParametersCompiles
  <2> HIDE DEF r
  <2> QED BY <2>1, <2>3 DEF OInv
<1>4. CASE ConvertDataStmts
  <2> DEFINE r == ConvertData(text)
  <2>1. stage = "parameters" /\ stage' = "data" /\ text' = r.out /\ extra' = extra \o r.extra
    BY <1>4 DEF ConvertDataStmts, Pass
  <2>2. /\ Sound(text) /\ text \in Seq(LineType) /\ extra \in Seq(ExtraType)
        /\ FunctionsApart(text, extra) /\ Whole(extra)
        /\ \A c \in Config : Compiles(text, c)
    BY <2>1 DEF IInv, OInv, Sound
  <2>3. /\ FunctionsApart(r.out, extra \o r.extra) /\ Whole(r.extra)
        /\ r.extra \in Seq(ExtraType) /\ \A c \in Config : Compiles(r.out, c)
    BY <2>2, ConvertDataApart, DataWhole, ConvertDataSound, ConvertDataCompiles
  <2> HIDE DEF r
  <2>4. Whole(extra \o r.extra)
    BY <2>2, <2>3, WholeJoined
  <2> QED BY <2>1, <2>3, <2>4 DEF OInv
<1>5. CASE InsertUseModule
  <2>1. stage = "data" /\ stage' = "placed" /\ text' = InsertUse(text, extra)
    BY <1>5 DEF InsertUseModule, Pass
  <2>2. /\ text \in Seq(LineType) /\ WellFormed(text) /\ InterfacesOpen(text)
        /\ extra \in Seq(ExtraType) /\ FunctionsApart(text, extra) /\ Whole(extra)
        /\ \A c \in Config : Compiles(text, c)
    BY <2>1 DEF IInv, OInv, Sound
  <2>3. \A c \in Config : Compiles(text', c)
    BY <2>1, <2>2, InsertUseCompiles
  <2> QED BY <2>1, <2>3 DEF OInv
<1>6. CASE MigrateEachLine
  <2>1. /\ stage = "placed" /\ stage' = "promoted"
        /\ text' = MigrateLines(text, removed, ComplexNames(Protect(source, kept)))
    BY <1>6 DEF MigrateEachLine, Pass
  <2>2. text \in Seq(LineType) /\ removed \subseteq Known /\ \A c \in Config : Compiles(text, c)
    BY <2>1 DEF IInv, OInv, Placed
  <2>3. \A c \in Config : Compiles(text', c)
    BY <2>1, <2>2, MigrateLinesCompiles
  <2> QED BY <2>1, <2>3 DEF OInv
<1>7. CASE SpecializeUseModule
  <2>1. stage = "promoted" /\ stage' = "specialized" /\ text' = SpecializeUse(text)
    BY <1>7 DEF SpecializeUseModule, Pass
  <2>2. Placed(text) /\ \A c \in Config : Compiles(text, c)
    BY <2>1 DEF IInv, OInv
  <2>3. \A c \in Config : Compiles(text', c)
    BY <2>1, <2>2, SpecializeCompiles
  <2> QED BY <2>1, <2>3 DEF OInv
<1>8. CASE RestoreKeepKind
  <2>1. stage = "specialized" /\ stage' = "restored" /\ text' = Restore(text)
    BY <1>8 DEF RestoreKeepKind, Pass
  <2>2. text \in Seq(LineType) /\ \A c \in Config : Compiles(text, c)
    BY <2>1 DEF IInv, OInv, Served
  <2>3. \A c \in Config : Compiles(text', c)
    BY <2>1, <2>2, RestoreCompiles
  <2> QED BY <2>1, <2>3 DEF OInv
<1>9. CASE RewriteMpiHandles
  <2>1. stage = "restored" /\ stage' = "handles" /\ text' = RewriteHandles(text)
    BY <1>9 DEF RewriteMpiHandles, Pass
  <2>2. text \in Seq(LineType) /\ \A c \in Config : Compiles(text, c)
    BY <2>1 DEF IInv, OInv, Served
  <2>3. \A c \in Config : Compiles(text', c)
    BY <2>1, <2>2, HandlesCompiles
  <2> QED BY <2>1, <2>3 DEF OInv
<1>10. CASE InsertMpiModule
  <2>1. stage = "handles" /\ stage' = "mpi" /\ text' = InsertMpiUse(text)
    BY <1>10 DEF InsertMpiModule, Pass
  <2>2. text \in Seq(LineType) /\ WellFormed(text) /\ \A c \in Config : Compiles(text, c)
    BY <2>1 DEF IInv, OInv, Served
  <2>3. \A c \in Config : Compiles(text', c)
    BY <2>1, <2>2, InsertMpiCompiles
  <2> QED BY <2>1, <2>3 DEF OInv
<1>11. CASE StripRoundupLwork
  <2>1. stage = "mpi" /\ stage' = "done" /\ text' = StripRoundup(text)
    BY <1>11 DEF StripRoundupLwork, Pass
  <2>2. text \in Seq(LineType) /\ \A c \in Config : Compiles(text, c)
    BY <2>1 DEF IInv, OInv, Served
  <2>3. \A c \in Config : Compiles(text', c)
    BY <2>1, <2>2, StripRoundupCompiles
  <2> QED BY <2>1, <2>3 DEF OInv
<1>12. CASE Finished \/ UNCHANGED vars
  <2>1. text' = text /\ extra' = extra /\ stage' = stage
    BY <1>12 DEF Finished, vars
  <2> QED BY <2>1 DEF OInv
<1> QED BY <1>1, <1>2, <1>3, <1>4, <1>5, <1>6, <1>7, <1>8, <1>9, <1>10, <1>11, <1>12 DEF Next

\* A file a compiler accepts in every configuration stays one through every
\* pass of migrate_file_to_string: what a configuration compiles of the text
\* has its headers, interface blocks and ENDs in pairs and its statements in
\* the order a compiler asks for.
THEOREM EveryPassCompiles == Spec => []OInv
<1>1. Init => IInv /\ OInv
  BY InitEstablishes, InitOrdered
<1>2. (IInv /\ OInv) /\ [Next]_vars => (IInv /\ OInv)'
  BY StepKeeps, StepOrdered
<1> QED BY <1>1, <1>2, PTL DEF Spec

\* SpecificationsComeFirst, for every file, every target module and both
\* halves: the USE lines, the assignments of former constants and their
\* guards come where a compiler looks for them in every configuration, inside
\* conditional blocks, prototypes and procedures with statement functions too.
THEOREM SpecificationsFirst == Spec => []SpecificationsComeFirst
<1>1. OInv => SpecificationsComeFirst
  BY DEF OInv, Compiles, SpecificationsComeFirst
<1> QED BY <1>1, EveryPassCompiles, PTL
=============================================================================
