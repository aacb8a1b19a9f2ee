-------------------------- MODULE MpiProgramProofs --------------------------
(***************************************************************************)
(* What the migrated calls carry, what a reduction returns or fails with,  *)
(* for any source file, any number of processes, any buffers, and any      *)
(* order and bracketing the library may choose.                            *)
(***************************************************************************)
EXTENDS MpiProgram, FiniteSetTheorems, WellFoundedInduction, TLAPS

(* Calls end where the compiler ends them.                                 *)

LEMMA LeastOf ==
  ASSUME NEW T \in SUBSET Nat, T # {}
  PROVE  \E m \in T : \A n \in T : m <= n
<1> DEFINE R == {ss \in Nat \X Nat : ss[1] < ss[2]}
<1>1. IsWellFoundedOn(R, Nat)
  BY NatLessThanWellFounded, Zenon DEF OpToRel
<1>2. \E m \in T : \A n \in T : ~ (<<n, m>> \in R)
  <2> HIDE DEF R
  <2> QED BY <1>1, WFMin, Zenon
<1>3. PICK m \in T : \A n \in T : ~ (<<n, m>> \in R)
  BY <1>2
<1>4. \A n \in T : ~ (n < m)
  BY <1>3
<1> QED BY <1>3, <1>4

\* How often the token t stands in i..j of src.
Count(src, t, i, j) == Cardinality({k \in i .. j : src[k] = t})

\* The tokens t of a stretch are finitely many, and one more token of the
\* stretch is one more of them or none.
LEMMA OneMore ==
  ASSUME NEW src, NEW t, NEW i \in Int, NEW j \in Int, i <= j + 1
  PROVE  /\ Count(src, t, i, j) \in Nat
         /\ Count(src, t, i, j + 1) = Count(src, t, i, j) + (IF src[j + 1] = t THEN 1 ELSE 0)
<1> DEFINE S == {k \in i .. j : src[k] = t}
<1>1. IsFiniteSet(S) /\ Cardinality(S) \in Nat
  <2>1. IsFiniteSet(i .. j)
    BY FS_Interval
  <2> QED BY <2>1, FS_Subset, FS_CardinalityType
<1>2. j + 1 \notin S
  OBVIOUS
<1>3. {k \in i .. j + 1 : src[k] = t} = IF src[j + 1] = t THEN S \cup {j + 1} ELSE S
  OBVIOUS
<1> HIDE DEF S
<1>4. Cardinality(S \cup {j + 1}) = Cardinality(S) + 1
  BY <1>1, <1>2, FS_AddElement
<1>5. Count(src, t, i, j) = Cardinality(S)
  BY DEF Count, S
<1>6. Count(src, t, i, j + 1) = Cardinality(IF src[j + 1] = t THEN S \cup {j + 1} ELSE S)
  BY <1>3 DEF Count
<1> QED BY <1>1, <1>4, <1>5, <1>6

LEMMA DepthSteps ==
  ASSUME NEW src, NEW i \in Int, NEW j \in Int, i <= j + 1
  PROVE  /\ Depth(src, i, j) \in Int
         /\ Depth(src, i, j + 1) \in {Depth(src, i, j) - 1, Depth(src, i, j), Depth(src, i, j) + 1}
         /\ Balanced(src, i, j) <=> Depth(src, i, j) = 0
<1> DEFINE O(n) == Count(src, "(", i, n)
           C(n) == Count(src, ")", i, n)
<1>1. O(j) \in Nat /\ O(j + 1) = O(j) + (IF src[j + 1] = "(" THEN 1 ELSE 0)
  BY OneMore
<1>2. C(j) \in Nat /\ C(j + 1) = C(j) + (IF src[j + 1] = ")" THEN 1 ELSE 0)
  BY OneMore
<1>3. /\ Depth(src, i, j) = O(j) - C(j) /\ Depth(src, i, j + 1) = O(j + 1) - C(j + 1)
      /\ Balanced(src, i, j) <=> O(j) = C(j)
  BY DEF Depth, Balanced, Count
<1> HIDE DEF O, C
<1> QED BY <1>1, <1>2, <1>3

LEMMA DepthOpens ==
  ASSUME NEW src, NEW i \in Int, src[i] = "("
  PROVE  Depth(src, i, i) = 1
<1>1. {k \in i .. i : src[k] = "("} = {i} /\ {k \in i .. i : src[k] = ")"} = {}
  OBVIOUS
<1>2. Cardinality({i}) = 1 /\ Cardinality({}) = 0
  BY FS_Singleton, FS_EmptySet
<1>3. Depth(src, i, i) = 1 - 0
  BY <1>1, <1>2 DEF Depth
<1> QED BY <1>3

\* The scan and the compiler agree: a depth that moves by one at most comes
\* to 0 before it falls below.
LEMMA SameEnd ==
  ASSUME NEW src, NEW i \in Nat, NEW j \in Int, src[i + 1] = "("
  PROVE  EndsAt(src, i, j) <=>
           /\ Balanced(src, i + 1, j)
           /\ \A k \in i + 1 .. j - 1 : ~ Balanced(src, i + 1, k)
<1>1. \A k \in Int : i + 1 <= k + 1 =>
        /\ Depth(src, i + 1, k) \in Int
        /\ Balanced(src, i + 1, k) <=> Depth(src, i + 1, k) = 0
  BY DepthSteps
<1>2. CASE j <= i
  <2>1. i + 1 .. j = {} /\ i + 1 .. j - 1 = {}
    BY <1>2
  <2>2. {k \in i + 1 .. j : src[k] = "("} = {} /\ {k \in i + 1 .. j : src[k] = ")"} = {}
    BY <2>1
  <2>3. Depth(src, i + 1, j) = 0 - 0 /\ Balanced(src, i + 1, j)
    BY <2>2, FS_EmptySet DEF Depth, Balanced
  <2> QED BY <2>1, <2>3 DEF EndsAt
<1>3. CASE j > i
  <2>1. ASSUME \A k \in i + 1 .. j - 1 : Depth(src, i + 1, k) # 0
        PROVE  \A k \in i + 1 .. j - 1 : Depth(src, i + 1, k) > 0
    <3> DEFINE T == {k \in i + 1 .. j - 1 : ~ (Depth(src, i + 1, k) > 0)}
    <3>1. SUFFICES ASSUME T # {} PROVE FALSE
      OBVIOUS
    <3>2. T \in SUBSET Nat
      OBVIOUS
    <3>3. PICK m \in T : \A n \in T : m <= n
      <4> HIDE DEF T
      <4> QED BY <3>1, <3>2, LeastOf
    <3>4. m \in i + 1 .. j - 1 /\ Depth(src, i + 1, m) < 0
      BY <2>1, <3>3, <1>1
    <3>5. m # i + 1
      BY <3>4, DepthOpens
    <3>6. m - 1 \in i + 1 .. j - 1 /\ m - 1 \notin T
      BY <3>3, <3>4, <3>5
    <3>7. Depth(src, i + 1, m - 1) > 0
      BY <3>6
    <3>8. Depth(src, i + 1, (m - 1) + 1) \in
            {Depth(src, i + 1, m - 1) - 1, Depth(src, i + 1, m - 1), Depth(src, i + 1, m - 1) + 1}
      BY <3>6, DepthSteps
    <3>9. (m - 1) + 1 = m /\ Depth(src, i + 1, m - 1) \in Int
      BY <3>4, <3>6, <1>1
    <3> QED BY <3>4, <3>7, <3>8, <3>9
  <2> QED BY <2>1, <1>1, <1>3 DEF EndsAt
<1> QED BY <1>2, <1>3

-----------------------------------------------------------------------------
(* The renaming of the datatypes moves no call.                            *)

LEMMA Renaming ==
  ASSUME NEW f \in Families, NEW src, NEW i \in DOMAIN src
  PROVE  LET mid == RewriteDatatypes(f, src)
         IN  /\ DOMAIN mid = DOMAIN src
             /\ mid[i] = "(" <=> src[i] = "("
             /\ mid[i] = ")" <=> src[i] = ")"
             /\ mid[i] \in ReduceHeads <=> src[i] \in ReduceHeads
             /\ mid[i] = IF src[i] \in SourceComplexes THEN c_mpi_complex[f]
                         ELSE IF src[i] \in SourceReals THEN c_mpi_real[f] ELSE src[i]
<1>1. c_mpi_complex[f] \notin {"(", ")"} \cup ReduceHeads
  BY DEF Families, c_mpi_complex, ReduceHeads
<1>2. c_mpi_real[f] \notin {"(", ")"} \cup ReduceHeads
  BY DEF Families, c_mpi_real, ReduceHeads
<1>3. (SourceComplexes \cup SourceReals) \cap ({"(", ")"} \cup ReduceHeads) = {}
  BY DEF SourceComplexes, SourceReals, ReduceHeads
<1> QED BY <1>1, <1>2, <1>3 DEF RewriteDatatypes

LEMMA SameCalls ==
  ASSUME NEW f \in Families, NEW src \in Sources
  PROVE  Complete(RewriteDatatypes(f, src)) = Compiled(src)
<1> DEFINE mid == RewriteDatatypes(f, src)
<1>1. src \in Seq(STRING) /\ DOMAIN src = 1 .. Len(src) /\ Len(src) \in Nat
  BY SourcesAssumption
<1>2. DOMAIN mid = DOMAIN src
  BY DEF RewriteDatatypes
<1>3. \A i \in DOMAIN src : /\ mid[i] = "(" <=> src[i] = "("
                            /\ mid[i] = ")" <=> src[i] = ")"
                            /\ mid[i] \in ReduceHeads <=> src[i] \in ReduceHeads
  BY Renaming
<1> HIDE DEF mid
<1>4. ASSUME NEW i \in DOMAIN src, NEW j \in DOMAIN src
      PROVE  Balanced(mid, i, j) <=> Balanced(src, i, j)
  <2>1. i .. j \subseteq DOMAIN src
    BY <1>1
  <2>2. /\ {k \in i .. j : mid[k] = "("} = {k \in i .. j : src[k] = "("}
        /\ {k \in i .. j : mid[k] = ")"} = {k \in i .. j : src[k] = ")"}
    BY <2>1, <1>3
  <2> QED BY <2>2 DEF Balanced
<1>5. ASSUME NEW i \in DOMAIN src, NEW j \in DOMAIN src, i + 1 < j
      PROVE  /\ src[i] \in ReduceHeads <=> mid[i] \in ReduceHeads
             /\ src[i + 1] = "(" <=> mid[i + 1] = "("
             /\ mid[i + 1] = "(" =>
                  (EndsAt(mid, i, j) <=>
                     /\ Balanced(src, i + 1, j)
                     /\ \A k \in i + 1 .. j - 1 : ~ Balanced(src, i + 1, k))
  <2>1. i \in Nat /\ j \in Int /\ i + 1 \in DOMAIN src /\ i + 1 .. j - 1 \subseteq DOMAIN src
    BY <1>1, <1>5
  <2>2. mid[i + 1] = "(" =>
          (EndsAt(mid, i, j) <=>
             /\ Balanced(mid, i + 1, j)
             /\ \A k \in i + 1 .. j - 1 : ~ Balanced(mid, i + 1, k))
    BY <2>1, SameEnd
  <2> QED BY <2>1, <2>2, <1>3, <1>4
<1>6. ASSUME NEW c \in (DOMAIN src) \X (DOMAIN src)
      PROVE  c \in Complete(mid) <=> c \in Compiled(src)
  <2>1. c[1] \in DOMAIN src /\ c[2] \in DOMAIN src
    OBVIOUS
  <2>2. CASE c[1] + 1 < c[2]
    BY <2>1, <2>2, <1>2, <1>5 DEF Complete, Compiled
  <2>3. CASE ~ (c[1] + 1 < c[2])
    BY <2>3 DEF Complete, Compiled
  <2> QED BY <2>2, <2>3
<1>7. /\ Complete(mid) \subseteq (DOMAIN src) \X (DOMAIN src)
      /\ Compiled(src) \subseteq (DOMAIN src) \X (DOMAIN src)
  BY <1>2 DEF Complete, Compiled
<1>8. Complete(mid) = Compiled(src)
  BY <1>6, <1>7
<1> QED BY <1>8 DEF mid

\* A call that is complete is the only one around each of its places, and
\* its name tells it.
LEMMA CallsApart ==
  ASSUME NEW src \in Sources, NEW c \in Compiled(src), NEW d \in Compiled(src),
         \E p \in c[1] .. c[2] : p \in d[1] .. d[2]
  PROVE  c = d
<1>1. PICK p \in c[1] .. c[2] : p \in d[1] .. d[2]
  OBVIOUS
<1>2. src \in Seq(STRING) /\ DOMAIN src \subseteq Nat
  BY SourcesAssumption
<1>3. /\ c[1] \in Nat /\ c[2] \in Nat /\ d[1] \in Nat /\ d[2] \in Nat
      /\ c = <<c[1], c[2]>> /\ d = <<d[1], d[2]>>
      /\ src[c[1]] \in ReduceHeads /\ src[d[1]] \in ReduceHeads
  BY <1>2 DEF Compiled
<1>4. /\ \A i \in c[1] + 1 .. c[2] : src[i] \notin ReduceHeads
      /\ \A i \in d[1] + 1 .. d[2] : src[i] \notin ReduceHeads
  BY SourcesAssumption
<1>5. c[1] = d[1]
  <2>1. ~ (c[1] < d[1])
    BY <1>1, <1>3, <1>4
  <2>2. ~ (d[1] < c[1])
    BY <1>1, <1>3, <1>4
  <2> QED BY <2>1, <2>2, <1>3
<1>6. /\ c[1] + 1 < c[2] /\ Balanced(src, c[1] + 1, c[2])
      /\ \A k \in c[1] + 1 .. c[2] - 1 : ~ Balanced(src, c[1] + 1, k)
  BY DEF Compiled
<1>7. /\ d[1] + 1 < d[2] /\ Balanced(src, d[1] + 1, d[2])
      /\ \A k \in d[1] + 1 .. d[2] - 1 : ~ Balanced(src, d[1] + 1, k)
  BY DEF Compiled
<1>8. c[2] = d[2]
  <2>1. ~ (c[2] < d[2])
    BY <1>3, <1>5, <1>6, <1>7
  <2>2. ~ (d[2] < c[2])
    BY <1>3, <1>5, <1>6, <1>7
  <2> QED BY <2>1, <2>2, <1>3
<1> QED BY <1>3, <1>5, <1>8

LEMMA OwnCall ==
  ASSUME NEW f \in Families, NEW src \in Sources, NEW c \in Compiled(src),
         NEW p \in c[1] .. c[2]
  PROVE  {d \in ReduceCalls(RewriteDatatypes(f, src)) : p \in d[1] .. d[2]} = {c}
<1> DEFINE mid == RewriteDatatypes(f, src)
<1>1. Complete(mid) = Compiled(src)
  BY SameCalls
<1>2. src \in Seq(STRING) /\ DOMAIN src \subseteq Nat
  BY SourcesAssumption
<1>3. \A d \in Compiled(src) : d[1] \in Nat /\ d[2] \in Nat /\ d[1] + 1 < d[2]
  BY <1>2 DEF Compiled
<1> HIDE DEF mid
<1>4. ASSUME NEW d \in Compiled(src) PROVE ~ (d[1] < c[1] /\ c[1] <= d[2])
  <2>1. SUFFICES ASSUME d[1] < c[1], c[1] <= d[2] PROVE FALSE
    OBVIOUS
  <2>2. c[1] \in c[1] .. c[2] /\ c[1] \in d[1] .. d[2]
    BY <2>1, <1>3
  <2>3. c = d
    BY <2>2, CallsApart
  <2> QED BY <2>1, <2>3, <1>3
<1>5. c \in ReduceCalls(mid)
  BY <1>1, <1>4 DEF ReduceCalls
<1>6. ASSUME NEW d \in ReduceCalls(mid), p \in d[1] .. d[2] PROVE d = c
  <2>1. d \in Compiled(src)
    BY <1>1 DEF ReduceCalls
  <2> QED BY <2>1, <1>6, CallsApart
<1>7. {d \in ReduceCalls(mid) : p \in d[1] .. d[2]} = {c}
  BY <1>5, <1>6
<1> QED BY <1>7 DEF mid

(* What a call becomes.                                                    *)

Migrated(f, w) ==
  IF w.dt \in SourceComplexes
    THEN [dt |-> c_mpi_complex[f], op |-> c_mpi_op_complex[f][w.op]]
  ELSE IF w.dt \in SourceReals
    THEN [dt |-> c_mpi_real[f], op |-> c_mpi_op_real[f][w.op]]
  ELSE [dt |-> "MPI_INTEGER", op |-> w.op]

LEMMA SourceCall ==
  ASSUME NEW src \in Sources, NEW c \in Compiled(src)
  PROVE  LET w == WasCall(src, c)
         IN  /\ w.dt \in SourceDatatypes /\ w.op \in StockOps
             /\ TokensOf(src, c) \cap SourceDatatypes = {w.dt}
             /\ TokensOf(src, c) \cap StockOps = {w.op}
<1>1. PICK t \in SourceDatatypes : TokensOf(src, c) \cap SourceDatatypes = {t}
  BY SourcesAssumption
<1>2. PICK o \in StockOps : TokensOf(src, c) \cap StockOps = {o}
  BY SourcesAssumption
<1>3. (CHOOSE x \in TokensOf(src, c) : x \in SourceDatatypes) = t
  BY <1>1
<1>4. (CHOOSE x \in TokensOf(src, c) : x \in StockOps) = o
  BY <1>2
<1> QED BY <1>1, <1>2, <1>3, <1>4 DEF WasCall

\* The names a target gives are apart from each other and from the source's.
LEMMA NamesApart ==
  ASSUME NEW f \in Families
  PROVE  /\ c_mpi_real[f] # c_mpi_complex[f]
         /\ {c_mpi_real[f], c_mpi_complex[f]} \cap (SourceDatatypes \cup OpNames(f)) = {}
         /\ SourceDatatypes \cap OpNames(f) = {}
         /\ SourceReals \cap SourceComplexes = {}
         /\ "MPI_INTEGER" \notin SourceReals \cup SourceComplexes
         /\ \A o \in StockOps : {c_mpi_op_real[f][o], c_mpi_op_complex[f][o]} \subseteq OpNames(f)
<1>1. CASE f = "kind10"
  BY <1>1 DEF c_mpi_real, c_mpi_complex, SourceDatatypes, SourceReals, SourceComplexes,
              OpNames, StockOps, c_mpi_op_real, c_mpi_op_complex
<1>2. CASE f = "kind16"
  BY <1>2 DEF c_mpi_real, c_mpi_complex, SourceDatatypes, SourceReals, SourceComplexes,
              OpNames, StockOps, c_mpi_op_real, c_mpi_op_complex
<1>3. CASE f = "multifloats"
  BY <1>3 DEF c_mpi_real, c_mpi_complex, SourceDatatypes, SourceReals, SourceComplexes,
              OpNames, StockOps, c_mpi_op_real, c_mpi_op_complex
<1> QED BY <1>1, <1>2, <1>3 DEF Families

\* The renamed call names the target's datatype for the one of the source.
LEMMA RenamedTokens ==
  ASSUME NEW f \in Families, NEW src \in Sources, NEW c \in Compiled(src)
  PROVE  LET w   == WasCall(src, c)
             mid == TokensOf(RewriteDatatypes(f, src), c)
         IN  /\ c_mpi_complex[f] \in mid <=> w.dt \in SourceComplexes
             /\ c_mpi_real[f] \in mid <=> w.dt \in SourceReals
             /\ "MPI_INTEGER" \in mid <=> w.dt = "MPI_INTEGER"
             /\ mid \cap OpNames(f) = {w.op}
<1> DEFINE w   == WasCall(src, c)
           mid == RewriteDatatypes(f, src)
<1>1. /\ w.dt \in SourceDatatypes /\ w.op \in StockOps
      /\ TokensOf(src, c) \cap SourceDatatypes = {w.dt}
      /\ TokensOf(src, c) \cap StockOps = {w.op}
  BY SourceCall
<1>2. c[1] .. c[2] \subseteq DOMAIN src
  BY SourcesAssumption DEF Compiled
<1>3. \A p \in c[1] .. c[2] :
        mid[p] = IF src[p] \in SourceComplexes THEN c_mpi_complex[f]
                 ELSE IF src[p] \in SourceReals THEN c_mpi_real[f] ELSE src[p]
  BY <1>2, Renaming
<1>4. \A p \in c[1] .. c[2] :
        /\ src[p] \notin {c_mpi_real[f], c_mpi_complex[f]} \cup (OpNames(f) \ StockOps)
        /\ src[p] \in SourceDatatypes => src[p] = w.dt
        /\ src[p] \in StockOps => src[p] = w.op
  BY <1>1, <1>2, SourcesAssumption DEF TokensOf
<1>5. PICK p \in c[1] .. c[2] : src[p] = w.dt
  BY <1>1 DEF TokensOf
<1>6. PICK q \in c[1] .. c[2] : src[q] = w.op
  BY <1>1 DEF TokensOf
<1> HIDE DEF w, mid
<1>7. c_mpi_complex[f] \in TokensOf(mid, c) <=> w.dt \in SourceComplexes
  BY <1>3, <1>4, <1>5, NamesApart DEF TokensOf, SourceDatatypes
<1>8. c_mpi_real[f] \in TokensOf(mid, c) <=> w.dt \in SourceReals
  BY <1>3, <1>4, <1>5, NamesApart DEF TokensOf, SourceDatatypes
<1>9. "MPI_INTEGER" \in TokensOf(mid, c) <=> w.dt = "MPI_INTEGER"
  BY <1>3, <1>4, <1>5, NamesApart DEF TokensOf, SourceDatatypes
<1>10. TokensOf(mid, c) \cap OpNames(f) = {w.op}
  <2>1. StockOps \subseteq OpNames(f)
    BY DEF OpNames
  <2>2. mid[q] = w.op
    BY <2>1, <1>1, <1>3, <1>6, NamesApart DEF SourceDatatypes
  <2>3. \A r \in c[1] .. c[2] : mid[r] \in OpNames(f) => mid[r] = w.op
    BY <1>3, <1>4, NamesApart
  <2> QED BY <2>1, <2>2, <2>3, <1>1 DEF TokensOf
<1> QED BY <1>7, <1>8, <1>9, <1>10 DEF w, mid

LEMMA MigratedCall ==
  ASSUME NEW f \in Families, NEW src \in Sources, NEW c \in Compiled(src)
  PROVE  CallOf(f, MigrateMpi(f, src), c) = Migrated(f, WasCall(src, c))
<1> DEFINE w   == WasCall(src, c)
           mid == RewriteDatatypes(f, src)
           fin == MigrateMpi(f, src)
           T   == TokensOf(mid, c)
           new == Migrated(f, w).op
<1>1. w.dt \in SourceDatatypes /\ w.op \in StockOps
  BY SourceCall
<1>2. /\ c_mpi_complex[f] \in T <=> w.dt \in SourceComplexes
      /\ c_mpi_real[f] \in T <=> w.dt \in SourceReals
      /\ "MPI_INTEGER" \in T <=> w.dt = "MPI_INTEGER"
      /\ T \cap OpNames(f) = {w.op}
  BY RenamedTokens
<1>3. c[1] .. c[2] \subseteq DOMAIN mid
  BY SourcesAssumption DEF Compiled, RewriteDatatypes
<1>4. ASSUME NEW p \in c[1] .. c[2]
      PROVE  fin[p] = IF mid[p] \in StockOps THEN RewriteOp(f, T, mid[p]) ELSE mid[p]
  <2>1. {d \in ReduceCalls(mid) : p \in d[1] .. d[2]} = {c}
    BY OwnCall
  <2>2. (CHOOSE d \in {d \in ReduceCalls(mid) : p \in d[1] .. d[2]} : TRUE) = c
    BY <2>1
  <2> HIDE DEF mid, T
  <2>3. fin = RewriteReduceOps(f, mid)
    BY DEF MigrateMpi, mid
  <2>4. fin[p] = IF mid[p] \in StockOps THEN RewriteOp(f, TokensOf(mid, c), mid[p]) ELSE mid[p]
    BY <2>1, <2>2, <2>3, <1>3 DEF RewriteReduceOps
  <2> QED BY <2>4 DEF T
<1>5. RewriteOp(f, T, w.op) = new
  <2> HIDE DEF T, w
  <2> QED BY <1>2, NamesApart DEF RewriteOp, Migrated
<1>6. new \in OpNames(f)
  <2> HIDE DEF w
  <2>1. w.op \in OpNames(f)
    BY <1>1 DEF OpNames
  <2> QED BY <2>1, <1>1, NamesApart DEF Migrated
<1>7. StockOps \subseteq OpNames(f)
  BY DEF OpNames
<1>8. \A p \in c[1] .. c[2] :
        fin[p] = IF mid[p] \in StockOps THEN new ELSE mid[p]
  <2>1. \A p \in c[1] .. c[2] : mid[p] \in StockOps => mid[p] = w.op
    BY <1>2, <1>7 DEF TokensOf
  <2> HIDE DEF mid, fin, T, new, w
  <2> QED BY <2>1, <1>4, <1>5
<1>9. \A t : t \in TokensOf(fin, c) <=>
              \/ t \in T /\ t \notin StockOps
              \/ t = new
  <2>1. PICK q \in c[1] .. c[2] : mid[q] = w.op
    BY <1>2 DEF TokensOf
  <2> HIDE DEF mid, fin, new, w
  <2> QED BY <2>1, <1>1, <1>8 DEF TokensOf
<1> HIDE DEF mid, fin, T, new, w
<1>10. (CHOOSE t \in TokensOf(fin, c) : t \in OpNames(f)) = new
  <2>1. \A t \in TokensOf(fin, c) : t \in OpNames(f) => t = new
    BY <1>1, <1>2, <1>9
  <2> QED BY <2>1, <1>6, <1>9
<1>11. (CHOOSE t \in TokensOf(fin, c) : t \in Datatypes(f)) = Migrated(f, w).dt
  <2>1. Datatypes(f) \cap OpNames(f) = {}
    BY NamesApart DEF Datatypes, SourceDatatypes
  <2>2. Migrated(f, w).dt \in Datatypes(f) /\ Migrated(f, w).dt \in T
    BY <1>1, <1>2 DEF Migrated, Datatypes, SourceDatatypes
  <2>3. \A t \in T : t \in Datatypes(f) => t = Migrated(f, w).dt
    BY <1>1, <1>2, NamesApart DEF Migrated, Datatypes, SourceDatatypes
  <2> QED BY <2>1, <2>2, <2>3, <1>6, <1>7, <1>9
<1>12. CallOf(f, fin, c) = [dt |-> Migrated(f, w).dt, op |-> new]
  BY <1>10, <1>11 DEF CallOf
<1> QED BY <1>12 DEF Migrated, w, fin, new

CallsInv ==
  /\ fam \in Families
  /\ \A k \in DOMAIN program : /\ k \in Nat \ {0}
                               /\ program[k].was.dt \in SourceDatatypes
                               /\ program[k].was.op \in StockOps
                               /\ program[k].now = Migrated(fam, program[k].was)

LEMMA CallsInit == Init => CallsInv
<1> SUFFICES ASSUME Init PROVE CallsInv
  OBVIOUS
<1>1. PICK src \in Sources : program = Program(fam, src)
  BY DEF Init
<1>2. fam \in Families
  BY DEF Init
<1>3. ASSUME NEW k \in DOMAIN program
      PROVE  /\ k \in Nat \ {0}
             /\ program[k].was.dt \in SourceDatatypes
             /\ program[k].was.op \in StockOps
             /\ program[k].now = Migrated(fam, program[k].was)
  <2>1. \E c \in Compiled(src) : c[1] = k
    BY <1>1 DEF Program
  <2>2. PICK c \in Compiled(src) : c[1] = k /\ c = CHOOSE d \in Compiled(src) : d[1] = k
    BY <2>1
  <2>3. /\ program[k].was = WasCall(src, c)
        /\ program[k].now = CallOf(fam, MigrateMpi(fam, src), c)
    BY <1>1, <2>1, <2>2 DEF Program
  <2>4. k \in DOMAIN src /\ DOMAIN src \subseteq Nat \ {0}
    BY <2>2, SourcesAssumption DEF Compiled
  <2> QED BY <1>2, <2>3, <2>4, MigratedCall, SourceCall
<1> QED BY <1>2, <1>3 DEF CallsInv

LEMMA CallsStep == CallsInv /\ [Next]_vars => CallsInv'
<1> SUFFICES ASSUME CallsInv, [Next]_vars PROVE CallsInv'
  OBVIOUS
<1>1. fam' = fam /\ program' = program
  BY DEF Next, vars, MpiInit, BlacsPinfo, BridgeInit, Enter, CombineParts, SeqCall, NextCall,
         AddType, DeriveContiguous, DeriveVector, DeriveIndexed, DeriveStruct
<1> QED BY <1>1 DEF CallsInv

LEMMA CallsFit == CallsInv => OperationsFitDatatypes
<1> SUFFICES ASSUME CallsInv, NEW k \in DOMAIN program
             PROVE  LET c == program[k]
                    IN  /\ c.was.op \in StockOps
                        /\ IF Data(c.was) = "integer" \/ ~ HasBridge(fam)
                             THEN c.now.op = c.was.op
                             ELSE \E o \in RegisteredOps(fam) :
                                    /\ o.name = c.now.op
                                    /\ o.data = Data(c.was) /\ o.kind = KindOf[c.was.op]
  BY DEF OperationsFitDatatypes
<1> DEFINE w == program[k].was
<1>1. /\ fam \in Families /\ w.op \in StockOps /\ w.dt \in SourceDatatypes
      /\ program[k].now = Migrated(fam, w)
  BY DEF CallsInv
<1> HIDE DEF w
<1>2. CASE Data(w) = "complex"
  <2>1. w.dt \in SourceComplexes
    BY <1>2 DEF Data
  <2>2. program[k].now.op = c_mpi_op_complex[fam][w.op]
    BY <1>1, <2>1 DEF Migrated
  <2>3. CASE HasBridge(fam)
    <3> DEFINE o == [name |-> c_mpi_op_complex[fam][w.op], data |-> "complex", kind |-> KindOf[w.op]]
    <3>1. o \in RegisteredOps(fam)
      BY <1>1 DEF RegisteredOps
    <3>2. o.name = c_mpi_op_complex[fam][w.op] /\ o.data = "complex" /\ o.kind = KindOf[w.op]
      OBVIOUS
    <3> HIDE DEF o
    <3> QED BY <1>1, <1>2, <2>2, <2>3, <3>1, <3>2 DEF w
  <2>4. CASE ~ HasBridge(fam)
    BY <1>1, <2>2, <2>4 DEF HasBridge, Families, c_mpi_op_complex, w
  <2> QED BY <2>3, <2>4
<1>3. CASE Data(w) = "real"
  <2>1. w.dt \in SourceReals /\ w.dt \notin SourceComplexes
    BY <1>3 DEF Data
  <2>2. program[k].now.op = c_mpi_op_real[fam][w.op]
    BY <1>1, <2>1 DEF Migrated
  <2>3. CASE HasBridge(fam)
    <3> DEFINE o == [name |-> c_mpi_op_real[fam][w.op], data |-> "real", kind |-> KindOf[w.op]]
    <3>1. o \in RegisteredOps(fam)
      BY <1>1 DEF RegisteredOps
    <3>2. o.name = c_mpi_op_real[fam][w.op] /\ o.data = "real" /\ o.kind = KindOf[w.op]
      OBVIOUS
    <3> HIDE DEF o
    <3> QED BY <1>1, <1>3, <2>2, <2>3, <3>1, <3>2 DEF w
  <2>4. CASE ~ HasBridge(fam)
    BY <1>1, <2>2, <2>4 DEF HasBridge, Families, c_mpi_op_real, w
  <2> QED BY <2>3, <2>4
<1>4. CASE Data(w) = "integer"
  <2>1. w.dt \notin SourceComplexes /\ w.dt \notin SourceReals
    BY <1>4 DEF Data
  <2>2. program[k].now.op = w.op
    BY <1>1, <2>1 DEF Migrated
  <2> QED BY <1>1, <1>4, <2>2 DEF w
<1> QED BY <1>2, <1>3, <1>4 DEF Data

\* However deep the arguments nest and whatever stands between the calls, a
\* reduction on extended data is left with the operation that was made for
\* its datatype and for what the source asked, and any other with its own:
\* for every source file and every target.
THEOREM AlwaysFits == Spec => []OperationsFitDatatypes
<1>1. Spec => []CallsInv
  BY CallsInit, CallsStep, PTL DEF Spec
<1> QED BY <1>1, CallsFit, PTL
-----------------------------------------------------------------------------
(* The reductions of a parallel program.                                   *)

Kinds == {"real", "complex", "integer"}

\* The reduction at hand is an extreme by the bridge's own operation.
Extreme == /\ lib # "seq"
           /\ IsCustomOp(Call.op)
           /\ program[pc].was.op # "MPI_SUM"

Clean(i) == \A r \in Ranks : ~ HasNaN(contrib[r][i])

\* z is the extreme of the i-th elements of some processes; where the library
\* follows the rank order, the last of those that reach a maximum gave it.
Wins(ranks, z, i) == \E r \in ranks :
  /\ z = contrib[r][i]
  /\ \A q \in ranks :
       IF program[pc].was.op = "MPI_MAX"
         THEN /\ Cabs1(contrib[q][i]) <= Cabs1(z)
              /\ lib = "intel" /\ q > r => Cabs1(contrib[q][i]) < Cabs1(z)
         ELSE Cabs1(contrib[q][i]) >= Cabs1(z)

Holds(ranks, val) ==
  /\ \A r \in Ranks : DOMAIN val = DOMAIN contrib[r]
  /\ Extreme => \A i \in DOMAIN val : Clean(i) => Wins(ranks, val[i], i)

EnteredInv ==
  lib # "seq" =>
    /\ DOMAIN contrib \subseteq Ranks
    /\ \A r \in DOMAIN contrib : contrib[r] \in Buffers[Data(program[pc].was)]

PartInv == \A p \in parts : p.ranks \subseteq Ranks /\ Holds(p.ranks, p.val)

\* Once all have entered nobody is forgotten.
CoverInv == parts # {} => /\ lib # "seq"
                          /\ DOMAIN contrib = Ranks
                          /\ pc \in DOMAIN program
                          /\ \A r \in Ranks : \E p \in parts : r \in p.ranks

DoneInv == outcome = "done" /\ lib # "seq" => Holds(Ranks, result)

IInv == /\ fam \in Families /\ up \subseteq Ranks
        /\ EnteredInv /\ PartInv /\ CoverInv /\ DoneInv
-----------------------------------------------------------------------------
(* Elements and operations.                                                *)

LEMMA Magnitudes ==
  ASSUME NEW d \in Kinds, NEW b \in Buffers[d], NEW i \in DOMAIN b, ~ HasNaN(b[i])
  PROVE  Cabs1(b[i]) \in Int
<1>1. {b[i].re, b[i].im} \ {NaN} \subseteq Int
  BY BuffersAssumption DEF Kinds
<1>2. b[i].re \in Int /\ b[i].im \in Int
  BY <1>1 DEF HasNaN
<1>3. Abs(b[i].re) \in Int /\ Abs(b[i].im) \in Int
  BY <1>2, NaNAssumption DEF Abs, Greater
<1> QED BY <1>3, NaNAssumption DEF Cabs1, Plus

\* A callback compares magnitudes as numbers; the second operand wins ties.
LEMMA Picks ==
  ASSUME NEW x, NEW y, Cabs1(x) \in Int, Cabs1(y) \in Int
  PROVE  /\ AmxFn(x, y) = IF Cabs1(x) > Cabs1(y) THEN x ELSE y
         /\ AmnFn(x, y) = IF Cabs1(y) > Cabs1(x) THEN x ELSE y
BY NaNAssumption DEF AmxFn, AmnFn, Greater

LEMMA DataKinds == \A w : Data(w) \in Kinds
BY DEF Data, Kinds

\* The name of a registered operation tells its kind and is never stock.
LEMMA Names ==
  ASSUME NEW f \in Families, HasBridge(f)
  PROVE  /\ \A c, d \in RegisteredOps(f) : c.name = d.name => c.kind = d.kind
         /\ \A c \in RegisteredOps(f) : c.name \notin StockOps
<1>1. CASE f = "kind16"
  BY <1>1 DEF RegisteredOps, c_mpi_op_real, c_mpi_op_complex, StockOps, KindOf
<1>2. CASE f = "multifloats"
  BY <1>2 DEF RegisteredOps, c_mpi_op_real, c_mpi_op_complex, StockOps, KindOf
<1> QED BY <1>1, <1>2 DEF HasBridge

\* A custom operation in a migrated call is what the source asked for.
LEMMA KindOfCall ==
  ASSUME fam \in Families, OperationsFitDatatypes, pc \in DOMAIN program,
         IsCustomOp(Call.op)
  PROVE  /\ program[pc].was.op \in StockOps
         /\ (CHOOSE c \in CustomOps : c.name = Call.op).kind = KindOf[program[pc].was.op]
<1> DEFINE w == program[pc].was
<1>1. HasBridge(fam) /\ CustomOps = RegisteredOps(fam)
  BY DEF IsCustomOp, CustomOps
<1>2. PICK c \in RegisteredOps(fam) : c.name = Call.op
  BY <1>1 DEF IsCustomOp
<1>3. w.op \in StockOps /\ Call.op \notin StockOps
  BY <1>1, <1>2, Names DEF OperationsFitDatatypes
<1>4. Data(w) # "integer"
  BY <1>3 DEF OperationsFitDatatypes, Call
<1>5. PICK o \in RegisteredOps(fam) : o.name = Call.op /\ o.kind = KindOf[w.op]
  BY <1>1, <1>4 DEF OperationsFitDatatypes, Call
<1>6. (CHOOSE d \in CustomOps : d.name = Call.op).kind = KindOf[w.op]
  BY <1>1, <1>5, Names
<1> QED BY <1>3, <1>6
-----------------------------------------------------------------------------
(* The combination of two partial results.                                 *)

\* The winner of two groups, when each has one and, where the library
\* follows the rank order, the first group stands before the second.
LEMMA WinnerOfBoth ==
  ASSUME EnteredInv, lib # "seq", DOMAIN contrib = Ranks,
         NEW P \in SUBSET Ranks, NEW Q \in SUBSET Ranks, NEW x, NEW y, NEW i,
         \A r \in Ranks : i \in DOMAIN contrib[r],
         Clean(i), Wins(P, x, i), Wins(Q, y, i),
         lib = "intel" => \A j \in P, k \in Q : j < k
  PROVE  Wins(P \cup Q, IF program[pc].was.op = "MPI_MAX" THEN AmxFn(x, y)
                                                          ELSE AmnFn(x, y), i)
<1> DEFINE m(r) == Cabs1(contrib[r][i])
<1>1. \A r \in Ranks : m(r) \in Int
  BY Magnitudes, DataKinds DEF EnteredInv, Clean
<1>2. Ranks \subseteq Int
  BY NAssumption DEF Ranks
<1>3. PICK r \in P : /\ x = contrib[r][i]
                     /\ \A q \in P : IF program[pc].was.op = "MPI_MAX"
                          THEN /\ m(q) <= m(r)
                               /\ lib = "intel" /\ q > r => m(q) < m(r)
                          ELSE m(q) >= m(r)
  BY DEF Wins
<1>4. PICK s \in Q : /\ y = contrib[s][i]
                     /\ \A q \in Q : IF program[pc].was.op = "MPI_MAX"
                          THEN /\ m(q) <= m(s)
                               /\ lib = "intel" /\ q > s => m(q) < m(s)
                          ELSE m(q) >= m(s)
  BY DEF Wins
<1>5. /\ AmxFn(x, y) = IF m(r) > m(s) THEN x ELSE y
      /\ AmnFn(x, y) = IF m(s) > m(r) THEN x ELSE y
  <2>1. Cabs1(x) \in Int /\ Cabs1(y) \in Int
    BY <1>1, <1>3, <1>4
  <2> QED BY <2>1, <1>3, <1>4, Picks
<1>6. CASE program[pc].was.op = "MPI_MAX"
  <2>1. CASE m(r) > m(s)
    <3>1. \A q \in P \cup Q : m(q) <= m(r) /\ (lib = "intel" /\ q > r => m(q) < m(r))
      BY <2>1, <1>1, <1>3, <1>4, <1>6
    <3> QED BY <3>1, <2>1, <1>3, <1>5, <1>6 DEF Wins
  <2>2. CASE ~ (m(r) > m(s))
    <3>1. \A q \in P : m(q) <= m(s)
      BY <2>2, <1>1, <1>3, <1>6
    <3>3. ASSUME lib = "intel", NEW q \in P PROVE ~ (q > s)
      <4>1. q < s /\ q \in Int /\ s \in Int
        BY <3>3, <1>2
      <4> QED BY <4>1
    <3>2. \A q \in P \cup Q : m(q) <= m(s) /\ (lib = "intel" /\ q > s => m(q) < m(s))
      BY <3>1, <3>3, <1>4, <1>6
    <3> QED BY <3>2, <2>2, <1>4, <1>5, <1>6 DEF Wins
  <2> QED BY <2>1, <2>2
<1>7. CASE program[pc].was.op # "MPI_MAX"
  <2>1. CASE m(s) > m(r)
    <3>1. \A q \in P \cup Q : m(q) >= m(r)
      BY <2>1, <1>1, <1>3, <1>4, <1>7
    <3> QED BY <3>1, <2>1, <1>3, <1>5, <1>7 DEF Wins
  <2>2. CASE ~ (m(s) > m(r))
    <3>1. \A q \in P \cup Q : m(q) >= m(s)
      BY <2>2, <1>1, <1>3, <1>4, <1>7
    <3> QED BY <3>1, <2>2, <1>4, <1>5, <1>7 DEF Wins
  <2> QED BY <2>1, <2>2
<1> QED BY <1>6, <1>7

LEMMA BothHold ==
  ASSUME IInv, OperationsFitDatatypes, NEW p \in parts, NEW q \in parts,
         \/ ~ IsCustomOp(Call.op) \/ Commute(lib)
         \/ \A i \in p.ranks, j \in q.ranks, k \in 1 .. N :
              i < j /\ (i < k /\ k < j => k \in p.ranks \cup q.ranks)
  PROVE  Holds(p.ranks \cup q.ranks, Apply(p.val, q.val))
<1> DEFINE v == Apply(p.val, q.val)
<1>1. /\ lib # "seq" /\ DOMAIN contrib = Ranks /\ pc \in DOMAIN program
      /\ p.ranks \subseteq Ranks /\ q.ranks \subseteq Ranks
      /\ Holds(p.ranks, p.val) /\ Holds(q.ranks, q.val)
  BY DEF IInv, PartInv, CoverInv
<1>2. DOMAIN v = DOMAIN q.val
  BY DEF Apply, Callback
<1>3. \A r \in Ranks : DOMAIN v = DOMAIN contrib[r]
  BY <1>1, <1>2 DEF Holds
<1>4. ASSUME Extreme, NEW i \in DOMAIN v, Clean(i)
      PROVE  Wins(p.ranks \cup q.ranks, v[i], i)
  <2>1. v = Callback(IF program[pc].was.op = "MPI_MAX" THEN "AMX" ELSE "AMN", p.val, q.val)
    <3>1. /\ program[pc].was.op \in StockOps
          /\ (CHOOSE c \in CustomOps : c.name = Call.op).kind = KindOf[program[pc].was.op]
      BY <1>1, <1>4, KindOfCall DEF Extreme, IInv
    <3>2. KindOf[program[pc].was.op] = IF program[pc].was.op = "MPI_MAX" THEN "AMX" ELSE "AMN"
      BY <3>1, <1>4 DEF KindOf, StockOps, Extreme
    <3> QED BY <3>1, <3>2, <1>4 DEF Apply, Extreme
  <2>2. v[i] = IF program[pc].was.op = "MPI_MAX" THEN AmxFn(p.val[i], q.val[i])
                                                  ELSE AmnFn(p.val[i], q.val[i])
    BY <2>1, <1>2, <1>4 DEF Callback, Combine
  <2>3. i \in DOMAIN p.val /\ i \in DOMAIN q.val /\ \A r \in Ranks : i \in DOMAIN contrib[r]
    <3>1. 1 \in Ranks
      BY <1>1, NAssumption DEF Ranks
    <3> QED BY <3>1, <1>1, <1>3, <1>4 DEF Holds
  <2>4. Wins(p.ranks, p.val[i], i) /\ Wins(q.ranks, q.val[i], i)
    BY <2>3, <1>1, <1>4 DEF Holds
  <2>5. lib = "intel" => \A j \in p.ranks, k \in q.ranks : j < k
    <3>1. SUFFICES ASSUME lib = "intel", NEW j \in p.ranks, NEW k \in q.ranks
                   PROVE  j < k
      OBVIOUS
    <3>2. 1 \in 1 .. N
      BY NAssumption
    <3> QED BY <3>1, <3>2, <1>4 DEF Extreme, Commute
  <2>6. EnteredInv /\ p.ranks \in SUBSET Ranks /\ q.ranks \in SUBSET Ranks
    BY <1>1 DEF IInv
  <2>7. Wins(p.ranks \cup q.ranks,
             IF program[pc].was.op = "MPI_MAX" THEN AmxFn(p.val[i], q.val[i])
                                                ELSE AmnFn(p.val[i], q.val[i]), i)
    BY <2>3, <2>4, <2>5, <2>6, <1>1, <1>4, WinnerOfBoth
  <2> HIDE DEF v
  <2> QED BY <2>2, <2>7
<1> QED BY <1>3, <1>4 DEF Holds
-----------------------------------------------------------------------------
(* The invariant.                                                          *)

LEMMA IInvInit == Init => IInv
BY DEF Init, IInv, EnteredInv, PartInv, CoverInv, DoneInv, Ranks

\* Steps that touch neither the calls nor the reduction at hand.
LEMMA Aside ==
  ASSUME IInv, up' \subseteq Ranks,
         UNCHANGED <<fam, lib, program, pc, contrib, parts, outcome, result>>
  PROVE  IInv'
BY DEF IInv, EnteredInv, PartInv, CoverInv, DoneInv, Holds, Extreme, Clean, Wins,
       IsCustomOp, CustomOps, Call, Ranks

\* The last process to enter leaves one partial result for every process.
LEMMA EnterKeeps ==
  ASSUME IInv, NEW r \in Ranks, Enter(r)
  PROVE  IInv'
<1>1. /\ lib # "seq" /\ outcome = "none" /\ pc \in DOMAIN program
      /\ r \notin DOMAIN contrib
      /\ UNCHANGED <<fam, lib, program, up, pc, result>>
  BY DEF Enter
<1>2. PICK b \in Buffers[Data(program[pc].was)] :
         contrib' = [q \in DOMAIN contrib \cup {r} |-> IF q = r THEN b ELSE contrib[q]]
  BY DEF Enter
<1>3. /\ DOMAIN contrib' = DOMAIN contrib \cup {r}
      /\ \A q \in DOMAIN contrib' : contrib'[q] \in Buffers[Data(program[pc].was)]
  BY <1>1, <1>2 DEF IInv, EnteredInv
<1>4. Ranks' = Ranks /\ 1 \in Ranks
  BY <1>1, NAssumption DEF Ranks
<1>5. EnteredInv'
  BY <1>1, <1>3, <1>4 DEF IInv, EnteredInv
<1>6. parts = {}
  BY <1>1 DEF IInv, CoverInv
<1>7. outcome' # "done"
  BY DEF Enter, Accepts
<1>8. CASE DOMAIN contrib' = Ranks
  <2>1. parts' = {[ranks |-> {q}, val |-> contrib'[q]] : q \in Ranks}
    BY <1>8 DEF Enter
  <2>2. CoverInv'
    <3>1. ASSUME NEW q \in Ranks
          PROVE  \E p \in parts' : q \in p.ranks
      <4>1. [ranks |-> {q}, val |-> contrib'[q]] \in parts'
        BY <2>1
      <4> QED BY <4>1
    <3> QED BY <3>1, <1>1, <1>4, <1>8 DEF CoverInv
  <2>3. ASSUME NEW q \in Ranks
        PROVE  Holds({q}, contrib[q])'
    <3>1. \A s \in Ranks : DOMAIN contrib'[q] = DOMAIN contrib'[s]
      BY <1>3, <1>8, DataKinds, BuffersAssumption DEF Kinds
    <3>2. ASSUME NEW i \in DOMAIN contrib'[q], Clean(i)'
          PROVE  Wins({q}, contrib[q][i], i)'
      <4>1. Cabs1(contrib'[q][i]) \in Int
        BY <1>3, <1>4, <1>8, <3>2, DataKinds, Magnitudes DEF Clean
      <4>2. q \in Int
        BY NAssumption DEF Ranks
      <4> QED BY <4>1, <4>2 DEF Wins
    <3> QED BY <3>1, <3>2, <1>4 DEF Holds
  <2>4. PartInv'
    BY <2>1, <2>3, <1>4 DEF PartInv
  <2> QED BY <1>1, <1>4, <1>5, <1>7, <2>2, <2>4 DEF IInv, DoneInv
<1>9. CASE DOMAIN contrib' # Ranks
  <2>1. parts' = {}
    BY <1>6, <1>9 DEF Enter
  <2> QED BY <1>1, <1>4, <1>5, <1>7, <2>1 DEF IInv, PartInv, CoverInv, DoneInv
<1> QED BY <1>8, <1>9

LEMMA CombineKeeps ==
  ASSUME IInv, OperationsFitDatatypes, NEW p \in parts, NEW q \in parts,
         CombineParts(p, q)
  PROVE  IInv'
<1> DEFINE both == [ranks |-> p.ranks \cup q.ranks, val |-> Apply(p.val, q.val)]
           rest == parts \ {p, q}
<1>1. /\ UNCHANGED <<fam, lib, program, up, pc, contrib>>
      /\ parts' = rest \cup {both}
      /\ outcome' = "done" => rest = {} /\ result' = both.val
  BY DEF CombineParts
<1>2. Holds(both.ranks, both.val) /\ both.ranks \subseteq Ranks
  <2>1. Holds(p.ranks \cup q.ranks, Apply(p.val, q.val))
    BY BothHold DEF CombineParts
  <2> QED BY <2>1 DEF IInv, PartInv
<1> HIDE DEF both
<1>3. /\ lib # "seq" /\ DOMAIN contrib = Ranks /\ pc \in DOMAIN program
      /\ \A r \in Ranks : \E x \in parts : r \in x.ranks
  BY DEF IInv, CoverInv
<1>4. \A r \in Ranks : \E x \in parts' : r \in x.ranks
  <2>1. both.ranks = p.ranks \cup q.ranks
    BY DEF both
  <2> QED BY <2>1, <1>1, <1>3
<1>5. Ranks' = Ranks
  BY <1>1 DEF Ranks
<1>6. ASSUME NEW R, NEW v, Holds(R, v)
      PROVE  Holds(R, v)'
  BY <1>1, <1>5, <1>6 DEF Holds, Extreme, Clean, Wins, IsCustomOp, CustomOps, Call
<1>7. EnteredInv' /\ CoverInv'
  BY <1>1, <1>3, <1>4, <1>5 DEF IInv, EnteredInv, CoverInv
<1>8. PartInv'
  BY <1>1, <1>2, <1>5, <1>6 DEF IInv, PartInv
<1>9. DoneInv'
  <2>1. SUFFICES ASSUME outcome' = "done" PROVE Holds(Ranks, result)'
    BY DEF DoneInv
  <2>2. both.ranks = Ranks
    BY <2>1, <1>1, <1>2, <1>4
  <2>3. PICK R, v : R = Ranks /\ v = both.val
    OBVIOUS
  <2>4. Holds(R, v)'
    BY <2>2, <2>3, <1>2, <1>6
  <2>5. R = Ranks' /\ v = result'
    BY <2>1, <2>3, <1>1, <1>5
  <2> QED BY <2>4, <2>5 DEF Holds, Wins
<1> QED BY <1>1, <1>5, <1>7, <1>8, <1>9 DEF IInv

LEMMA IInvStep == IInv /\ OperationsFitDatatypes /\ [Next]_vars => IInv'
<1> SUFFICES ASSUME IInv, OperationsFitDatatypes, [Next]_vars PROVE IInv'
  OBVIOUS
<1>1. ASSUME NEW r \in Ranks, MpiInit(r) PROVE IInv'
  BY <1>1, Aside DEF MpiInit, IInv
<1>2. ASSUME NEW r \in Ranks, BlacsPinfo(r) PROVE IInv'
  BY <1>2, Aside DEF BlacsPinfo, IInv
<1>3. ASSUME NEW r \in Ranks, BridgeInit(r) PROVE IInv'
  BY <1>3, Aside DEF BridgeInit, IInv
<1>4. ASSUME NEW r \in Ranks, Enter(r) PROVE IInv'
  BY <1>4, EnterKeeps
<1>5. ASSUME NEW p \in parts, NEW q \in parts, CombineParts(p, q) PROVE IInv'
  BY <1>5, CombineKeeps
<1>6. ASSUME NEW inPlace \in BOOLEAN, SeqCall(inPlace) PROVE IInv'
  <2>1. lib = "seq" /\ UNCHANGED <<fam, lib, program, up, pc, parts>>
    BY <1>6 DEF SeqCall
  <2>2. parts = {}
    BY <2>1 DEF IInv, CoverInv
  <2> QED BY <2>1, <2>2 DEF IInv, EnteredInv, PartInv, CoverInv, DoneInv, Ranks
<1>7. CASE NextCall
  BY <1>7 DEF NextCall, IInv, EnteredInv, PartInv, CoverInv, DoneInv, Ranks
<1>8. ASSUME NEW t, NEW bytes, AddType(t, bytes) PROVE IInv'
  BY <1>8, Aside DEF AddType, IInv
<1>9. CASE UNCHANGED vars
  BY <1>9, Aside DEF vars, IInv
<1> QED BY <1>1, <1>2, <1>3, <1>4, <1>5, <1>6, <1>7, <1>8, <1>9
        DEF Next, DeriveContiguous, DeriveVector, DeriveIndexed, DeriveStruct

THEOREM IInvAlways == Spec => []IInv
BY IInvInit, IInvStep, AlwaysFits, PTL DEF Spec
-----------------------------------------------------------------------------
LEMMA Extremes == IInv => ExtremesAreExtreme
<1> SUFFICES ASSUME IInv, outcome = "done", Extreme, NEW i \in DOMAIN result,
                    \A z \in {contrib[r][i] : r \in Ranks} : ~ HasNaN(z)
             PROVE  LET given == {contrib[r][i] : r \in Ranks}
                    IN  /\ result[i] \in given
                        /\ \A z \in given : IF program[pc].was.op = "MPI_MAX"
                                              THEN Cabs1(z) <= Cabs1(result[i])
                                              ELSE Cabs1(z) >= Cabs1(result[i])
  BY DEF ExtremesAreExtreme, Extreme
<1>1. Clean(i)
  BY DEF Clean
<1>2. Wins(Ranks, result[i], i)
  BY <1>1 DEF IInv, DoneInv, Holds, Extreme
<1> QED BY <1>2 DEF Wins

LEMMA Ties == IInv => RankOrderDecidesTies
<1> SUFFICES ASSUME IInv, outcome = "done", lib = "intel", IsCustomOp(Call.op),
                    program[pc].was.op = "MPI_MAX", NEW i \in DOMAIN result,
                    \A r \in Ranks : ~ HasNaN(contrib[r][i])
             PROVE  \E r \in Ranks :
                      /\ result[i] = contrib[r][i]
                      /\ \A q \in Ranks : q > r => Cabs1(contrib[q][i]) < Cabs1(result[i])
  BY DEF RankOrderDecidesTies
<1>1. Clean(i) /\ Extreme
  BY DEF Clean, Extreme
<1>2. Wins(Ranks, result[i], i)
  BY <1>1 DEF IInv, DoneInv, Holds
<1> QED BY <1>2 DEF Wins

\* A reduction to a maximum or minimum that ends returns one of the
\* contributions and none is more extreme: for any number of processes,
\* buffers, and order of combination.
THEOREM AlwaysExtreme == Spec => []ExtremesAreExtreme
BY IInvAlways, Extremes, PTL

\* Under Intel MPI, which is told that the operations do not commute, the
\* last process that reaches the maximum decides its sign, whatever the
\* bracketing.
THEOREM TiesAreDecided == Spec => []RankOrderDecidesTies
BY IInvAlways, Ties, PTL
-----------------------------------------------------------------------------
(* Which calls fail.                                                       *)

LEMMA MigratedTypes ==
  ASSUME NEW f \in Families, NEW w, w.dt \in SourceDatatypes, w.op \in StockOps
  PROVE  LET now == Migrated(f, w)
         IN  /\ f = "kind10" =>
                  now.dt \in {"MPI_LONG_DOUBLE", "MPI_C_LONG_DOUBLE_COMPLEX", "MPI_INTEGER"}
             /\ f = "kind16" =>
                  now.dt \in {"MPI_REAL16", "MPI_COMPLEX32", "MPI_INTEGER"}
             /\ f = "multifloats" =>
                  now.dt \in {"MPI_FLOAT64X2", "MPI_COMPLEX64X2", "MPI_INTEGER"}
             /\ HasBridge(f) =>
                  (now.dt = "MPI_INTEGER" <=> \A o \in RegisteredOps(f) : o.name # now.op)
<1> DEFINE now == Migrated(f, w)
<1>1. now.dt = IF w.dt \in SourceComplexes THEN c_mpi_complex[f]
               ELSE IF w.dt \in SourceReals THEN c_mpi_real[f] ELSE "MPI_INTEGER"
  BY DEF Migrated
<1>2. now.op = IF w.dt \in SourceComplexes THEN c_mpi_op_complex[f][w.op]
               ELSE IF w.dt \in SourceReals THEN c_mpi_op_real[f][w.op] ELSE w.op
  BY DEF Migrated
<1> HIDE DEF now
<1>3. ASSUME HasBridge(f), now.dt = "MPI_INTEGER", NEW o \in RegisteredOps(f)
      PROVE  o.name # now.op
  <2>1. now.op = w.op
    BY <1>1, <1>2, <1>3 DEF c_mpi_complex, c_mpi_real, Families
  <2> QED BY <2>1, <1>3, Names
<1>4. ASSUME HasBridge(f), now.dt # "MPI_INTEGER"
      PROVE  \E o \in RegisteredOps(f) : o.name = now.op
  <2>1. CASE w.dt \in SourceComplexes
    <3> DEFINE o == [name |-> c_mpi_op_complex[f][w.op], data |-> "complex", kind |-> KindOf[w.op]]
    <3>1. o \in RegisteredOps(f) /\ o.name = now.op
      BY <2>1, <1>2 DEF RegisteredOps
    <3> QED BY <3>1
  <2>2. CASE w.dt \notin SourceComplexes /\ w.dt \in SourceReals
    <3> DEFINE o == [name |-> c_mpi_op_real[f][w.op], data |-> "real", kind |-> KindOf[w.op]]
    <3>1. o \in RegisteredOps(f) /\ o.name = now.op
      BY <2>2, <1>2 DEF RegisteredOps
    <3> QED BY <3>1
  <2> QED BY <2>1, <2>2, <1>1, <1>4
<1>5. /\ f = "kind10" =>
           now.dt \in {"MPI_LONG_DOUBLE", "MPI_C_LONG_DOUBLE_COMPLEX", "MPI_INTEGER"}
      /\ f = "kind16" => now.dt \in {"MPI_REAL16", "MPI_COMPLEX32", "MPI_INTEGER"}
      /\ f = "multifloats" =>
           now.dt \in {"MPI_FLOAT64X2", "MPI_COMPLEX64X2", "MPI_INTEGER"}
  BY <1>1 DEF c_mpi_complex, c_mpi_real
<1> QED BY <1>3, <1>4, <1>5 DEF now

LEMMA RealCalls ==
  ASSUME CallsInv, pc \in DOMAIN program, NEW r
  PROVE  Accepts(r) = "none" \/ (Accepts(r) = "error" /\ r \notin registered)
<1> DEFINE w == program[pc].was
<1>1. /\ fam \in Families /\ w.dt \in SourceDatatypes /\ w.op \in StockOps
      /\ Call = Migrated(fam, w)
  BY DEF CallsInv, Call
<1>2. /\ fam = "kind10" =>
           Call.dt \in {"MPI_LONG_DOUBLE", "MPI_C_LONG_DOUBLE_COMPLEX", "MPI_INTEGER"}
      /\ fam = "kind16" => Call.dt \in {"MPI_REAL16", "MPI_COMPLEX32", "MPI_INTEGER"}
      /\ fam = "multifloats" =>
           Call.dt \in {"MPI_FLOAT64X2", "MPI_COMPLEX64X2", "MPI_INTEGER"}
      /\ HasBridge(fam) =>
           (Call.dt = "MPI_INTEGER" <=> \A o \in RegisteredOps(fam) : o.name # Call.op)
  BY <1>1, MigratedTypes
<1>3. IsCustomOp(Call.op) <=> HasBridge(fam) /\ Call.dt # "MPI_INTEGER"
  BY <1>2 DEF IsCustomOp, CustomOps
<1> QED BY <1>1, <1>2, <1>3 DEF Accepts, Families, HasBridge

LEMMA LibseqCases == libseq.cases = UpstreamCases \cup PatchCases
<1>1. PatchDispatch(Upstream).cases = UpstreamCases \cup PatchCases
  BY DEF PatchDispatch, Upstream, UpstreamCases
<1>2. \A file : PatchHelpers(file).cases = file.cases /\ PatchPchk(file).cases = file.cases
  BY DEF PatchHelpers, PatchPchk, AddDefinitions
<1> QED BY <1>1, <1>2 DEF libseq, PatchLibseq

LEMMA SequentialTypes ==
  ASSUME NEW dt \in {"MPI_INTEGER", "MPI_LONG_DOUBLE", "MPI_C_LONG_DOUBLE_COMPLEX",
                     "MPI_REAL16", "MPI_COMPLEX32", "MPI_FLOAT64X2", "MPI_COMPLEX64X2"}
  PROVE  CaseOf(libseq, SeqHandle(dt)) # "none"
<1>1. CASE dt = "MPI_FLOAT64X2"
  <2>1. TypeContiguous(2, Named("MPI_DOUBLE")) = Derived(MPISEQ_DTYPE_SENTINEL(16))
    BY DEF TypeContiguous, BaseTypeBytes, Named, PredefinedBytes
  <2>2. MPISEQ_DTYPE_SENTINEL(16) = 268435472
    BY DEF MPISEQ_DTYPE_SENTINEL, MPISEQ_DTYPE_TAG
  <2>3. SeqHandle(dt) = [name |-> "derived", handle |-> 268435472]
    BY <1>1, <2>1, <2>2 DEF SeqHandle, Derived
  <2> QED BY <2>3, LibseqCases DEF CaseOf, PatchCases
<1>2. CASE dt = "MPI_COMPLEX64X2"
  <2>1. TypeContiguous(4, Named("MPI_DOUBLE")) = Derived(MPISEQ_DTYPE_SENTINEL(32))
    BY DEF TypeContiguous, BaseTypeBytes, Named, PredefinedBytes
  <2>2. MPISEQ_DTYPE_SENTINEL(32) = 268435488
    BY DEF MPISEQ_DTYPE_SENTINEL, MPISEQ_DTYPE_TAG
  <2>3. SeqHandle(dt) = [name |-> "derived", handle |-> 268435488]
    BY <1>2, <2>1, <2>2 DEF SeqHandle, Derived
  <2> QED BY <2>3, LibseqCases DEF CaseOf, PatchCases
<1>3. CASE dt \notin {"MPI_FLOAT64X2", "MPI_COMPLEX64X2"}
  <2>1. SeqHandle(dt) = [name |-> dt, handle |-> 0]
    BY <1>3 DEF SeqHandle, Named
  <2>2. dt \in UpstreamCases \cup PatchCases
    BY <1>3 DEF UpstreamCases, PatchCases
  <2> QED BY <2>1, <2>2, LibseqCases DEF CaseOf
<1> QED BY <1>1, <1>2, <1>3

LEMMA Aligned ==
  ASSUME NEW al \in Alignments
  PROVE  al % NeedsAlignment(fam) = 0
<1>1. al \in Nat /\ al % 8 = 0
  BY AlignmentsAssumption
<1>2. al % 1 = 0
  BY <1>1
<1> QED BY <1>1, <1>2 DEF NeedsAlignment

LEMMA FailsStep ==
  CallsInv /\ OnlyEarlyCallsFail /\ [Next]_vars => OnlyEarlyCallsFail'
<1> SUFFICES ASSUME CallsInv, OnlyEarlyCallsFail, [Next]_vars PROVE OnlyEarlyCallsFail'
  OBVIOUS
<1>1. ASSUME NEW r \in Ranks, MpiInit(r) PROVE OnlyEarlyCallsFail'
  BY <1>1 DEF MpiInit, OnlyEarlyCallsFail
<1>2. ASSUME NEW r \in Ranks, BlacsPinfo(r) PROVE OnlyEarlyCallsFail'
  BY <1>2 DEF BlacsPinfo, Running, OnlyEarlyCallsFail
<1>3. ASSUME NEW r \in Ranks, BridgeInit(r) PROVE OnlyEarlyCallsFail'
  BY <1>3 DEF BridgeInit, Running, OnlyEarlyCallsFail
<1>4. ASSUME NEW r \in Ranks, Enter(r) PROVE OnlyEarlyCallsFail'
  <2>1. /\ lib # "seq" /\ UNCHANGED <<lib, registered>> /\ outcome' = Accepts(r)
        /\ pc \in DOMAIN program /\ r \in DOMAIN contrib'
    BY <1>4 DEF Enter
  <2> QED BY <2>1, RealCalls DEF OnlyEarlyCallsFail
<1>5. ASSUME NEW p \in parts, NEW q \in parts, CombineParts(p, q) PROVE OnlyEarlyCallsFail'
  <2>1. outcome' \in {"done", "none"}
    BY <1>5, Aligned DEF CombineParts
  <2> QED BY <2>1 DEF OnlyEarlyCallsFail
<1>6. ASSUME NEW inPlace \in BOOLEAN, SeqCall(inPlace) PROVE OnlyEarlyCallsFail'
  <2>1. Call.dt \in {"MPI_INTEGER", "MPI_LONG_DOUBLE", "MPI_C_LONG_DOUBLE_COMPLEX",
                     "MPI_REAL16", "MPI_COMPLEX32", "MPI_FLOAT64X2", "MPI_COMPLEX64X2"}
    BY <1>6, MigratedTypes DEF SeqCall, CallsInv, Call, Families
  <2>2. CaseOf(libseq, SeqHandle(Call.dt)) # "none"
    BY <2>1, SequentialTypes
  <2>3. outcome' = "done"
    BY <1>6, <2>2 DEF SeqCall, SeqReduce
  <2> QED BY <2>3 DEF OnlyEarlyCallsFail
<1>7. CASE NextCall
  BY <1>7 DEF NextCall, OnlyEarlyCallsFail
<1>8. ASSUME NEW t, NEW bytes, AddType(t, bytes) PROVE OnlyEarlyCallsFail'
  BY <1>8 DEF AddType, OnlyEarlyCallsFail
<1>9. CASE UNCHANGED vars
  BY <1>9 DEF vars, OnlyEarlyCallsFail
<1> QED BY <1>1, <1>2, <1>3, <1>4, <1>5, <1>6, <1>7, <1>8, <1>9
        DEF Next, DeriveContiguous, DeriveVector, DeriveIndexed, DeriveStruct

\* Only a parallel program that reduces before any init of the bridge ran in
\* the process fails: no alignment, datatype or operation makes a call fault
\* or the sequential library stop, for every source file and target.
THEOREM OnlyEarlyCallsEverFail == Spec => []OnlyEarlyCallsFail
<1>1. Init => OnlyEarlyCallsFail
  BY DEF Init, OnlyEarlyCallsFail
<1>2. Spec => []CallsInv
  BY CallsInit, CallsStep, PTL DEF Spec
<1> QED BY <1>1, <1>2, FailsStep, PTL DEF Spec
-----------------------------------------------------------------------------
(* Sums over finite sets.                                                  *)

\* What FoldFunction chooses: the sums over all the subsets of a domain.
Sums(f) ==
  CHOOSE g : g = [s \in SUBSET DOMAIN f |->
                    IF s = {} THEN 0
                    ELSE LET x == CHOOSE y \in s : TRUE IN f[x] + g[s \ {x}]]

LEMMA FoldIsSums == \A f : FoldFunction(+, 0, f) = Sums(f)[DOMAIN f]
BY DEF FoldFunction, FoldFunctionOnSet, MapThenFoldSet, Sums

Summing(f, g) ==
  g = [s \in SUBSET DOMAIN f |->
         IF s = {} THEN 0
         ELSE LET x == CHOOSE y \in s : TRUE IN f[x] + g[s \ {x}]]

\* The equation that defines a sum over the finite subsets has a solution:
\* one that holds up to n elements gives one that holds up to n + 1.
LEMMA SumsExist ==
  ASSUME NEW f, IsFiniteSet(DOMAIN f)
  PROVE  Summing(f, Sums(f))
<1> DEFINE D       == DOMAIN f
           Val(g, s) == IF s = {} THEN 0
                        ELSE LET x == CHOOSE y \in s : TRUE IN f[x] + g[s \ {x}]
           UpTo(g, n) == \A s \in SUBSET D : Cardinality(s) <= n => g[s] = Val(g, s)
           T       == {n \in Nat : ~ \E g : UpTo(g, n)}
<1>1. \A s \in SUBSET D : /\ Cardinality(s) \in Nat
                          /\ Cardinality(s) = 0 => s = {}
                          /\ Cardinality(s) <= Cardinality(D)
                          /\ \A x \in s : Cardinality(s \ {x}) = Cardinality(s) - 1
  <2>1. ASSUME NEW s \in SUBSET D PROVE IsFiniteSet(s) /\ Cardinality(s) <= Cardinality(D)
    BY FS_Subset
  <2>2. ASSUME NEW s \in SUBSET D PROVE Cardinality(s) \in Nat /\ (Cardinality(s) = 0 => s = {})
    BY <2>1, FS_CardinalityType, FS_EmptySet
  <2>3. ASSUME NEW s \in SUBSET D, NEW x \in s PROVE Cardinality(s \ {x}) = Cardinality(s) - 1
    BY <2>1, FS_RemoveElement
  <2> QED BY <2>1, <2>2, <2>3
<1>2. T = {}
  <2>1. SUFFICES ASSUME T # {} PROVE FALSE
    OBVIOUS
  <2>2. PICK m \in T : \A n \in T : m <= n
    <3>1. T \in SUBSET Nat
      OBVIOUS
    <3> HIDE DEF T
    <3> QED BY <2>1, <3>1, LeastOf
  <2>3. m \in Nat /\ ~ \E g : UpTo(g, m)
    OBVIOUS
  <2>4. CASE m = 0
    <3> DEFINE h == [s \in SUBSET D |-> 0]
    <3>1. UpTo(h, 0)
      BY <1>1
    <3> QED BY <3>1, <2>3, <2>4
  <2>5. CASE m # 0
    <3>1. m - 1 \in Nat /\ m - 1 \notin T
      <4>1. m - 1 \in Nat /\ ~ (m <= m - 1)
        BY <2>3, <2>5
      <4> HIDE DEF T
      <4> QED BY <2>2, <4>1
    <3>2. PICK g : UpTo(g, m - 1)
      BY <3>1
    <3> DEFINE h == [s \in SUBSET D |-> Val(g, s)]
    <3>3. \A s \in SUBSET D : h[s] = Val(g, s)
      OBVIOUS
    <3>4. ASSUME NEW s \in SUBSET D, Cardinality(s) <= m PROVE h[s] = Val(h, s)
      <4>1. CASE s = {}
        BY <4>1
      <4>2. CASE s # {}
        <5>1. PICK x \in s : x = CHOOSE y \in s : TRUE
          BY <4>2
        <5>2. s \ {x} \in SUBSET D /\ Cardinality(s \ {x}) <= m - 1
          BY <1>1, <2>3, <3>4
        <5>3. g[s \ {x}] = Val(g, s \ {x})
          BY <3>2, <5>2
        <5>4. h[s \ {x}] = g[s \ {x}]
          BY <3>3, <5>2, <5>3
        <5>5. Val(h, s) = f[x] + h[s \ {x}] /\ Val(g, s) = f[x] + g[s \ {x}]
          BY <4>2, <5>1
        <5> QED BY <3>3, <5>4, <5>5
      <4> QED BY <4>1, <4>2
    <3>5. UpTo(h, m)
      <4> HIDE DEF Val, h
      <4> QED BY <3>4
    <3> QED BY <2>3, <3>5
  <2> QED BY <2>4, <2>5
<1>3. Cardinality(D) \in Nat
  BY FS_CardinalityType
<1>4. PICK g : UpTo(g, Cardinality(D))
  BY <1>2, <1>3
<1> DEFINE h == [s \in SUBSET D |-> Val(g, s)]
<1>5. \A s \in SUBSET D : h[s] = Val(g, s) /\ h[s] = g[s]
  <2> HIDE DEF Val
  <2> QED BY <1>1, <1>4
<1>6. ASSUME NEW s \in SUBSET D PROVE Val(g, s) = Val(h, s)
  <2>1. CASE s = {}
    BY <2>1
  <2>2. CASE s # {}
    <3>1. PICK x \in s : x = CHOOSE y \in s : TRUE
      BY <2>2
    <3>2. h[s \ {x}] = g[s \ {x}]
      BY <1>5
    <3>3. Val(h, s) = f[x] + h[s \ {x}] /\ Val(g, s) = f[x] + g[s \ {x}]
      BY <2>2, <3>1
    <3> QED BY <3>2, <3>3
  <2> QED BY <2>1, <2>2
<1>7. h = [s \in SUBSET D |-> Val(h, s)]
  <2>1. PICK k : k = h
    OBVIOUS
  <2>2. k = [s \in SUBSET D |-> Val(g, s)] /\ \A s \in SUBSET D : Val(g, s) = Val(k, s)
    BY <2>1, <1>6
  <2>3. k = [s \in SUBSET D |-> Val(k, s)]
    <3> HIDE DEF Val
    <3> QED BY <2>2
  <2> QED BY <2>1, <2>3
<1>8. Summing(f, h)
  BY <1>7 DEF Summing
<1>9. Sums(f) = CHOOSE k : Summing(f, k)
  BY DEF Sums, Summing
<1> HIDE DEF h
<1> QED BY <1>8, <1>9

\* A sum is that of the rest and any one element.
LEMMA SumPicks ==
  ASSUME NEW f, IsFiniteSet(DOMAIN f), NEW s \in SUBSET DOMAIN f,
         \A x \in s : f[x] \in Int
  PROVE  /\ s = {} => Sums(f)[s] = 0
         /\ Sums(f)[s] \in Int
         /\ \A x \in s : Sums(f)[s] = f[x] + Sums(f)[s \ {x}]
<1> DEFINE D == DOMAIN f
           Good(u) == /\ Sums(f)[u] \in Int
                      /\ \A x \in u : Sums(f)[u] = f[x] + Sums(f)[u \ {x}]
           T == {n \in Nat : \E u \in SUBSET s : Cardinality(u) = n /\ ~ Good(u)}
<1>1. \A u \in SUBSET s : /\ Cardinality(u) \in Nat
                          /\ \A x \in u : Cardinality(u \ {x}) = Cardinality(u) - 1
  <2>1. ASSUME NEW u \in SUBSET s PROVE IsFiniteSet(u)
    <3>1. u \in SUBSET DOMAIN f
      OBVIOUS
    <3> QED BY <3>1, FS_Subset
  <2> QED BY <2>1, FS_CardinalityType, FS_RemoveElement
<1>2. /\ Sums(f)[{}] = 0
      /\ \A u \in SUBSET D : u # {} =>
           \E x \in u : Sums(f)[u] = f[x] + Sums(f)[u \ {x}]
  <2>1. PICK g : g = Sums(f)
    OBVIOUS
  <2>2. Summing(f, g)
    BY <2>1, SumsExist
  <2>3. g[{}] = 0
    BY <2>2 DEF Summing
  <2>4. ASSUME NEW u \in SUBSET D, u # {}
        PROVE  \E x \in u : g[u] = f[x] + g[u \ {x}]
    <3>1. PICK x \in u : x = CHOOSE y \in u : TRUE
      BY <2>4
    <3> QED BY <3>1, <2>2, <2>4 DEF Summing
  <2> QED BY <2>1, <2>3, <2>4
<1>3. T = {}
  <2>1. SUFFICES ASSUME T # {} PROVE FALSE
    OBVIOUS
  <2>2. PICK m \in T : \A n \in T : m <= n
    <3>1. T \in SUBSET Nat
      OBVIOUS
    <3> HIDE DEF T
    <3> QED BY <2>1, <3>1, LeastOf
  <2>3. PICK u \in SUBSET s : Cardinality(u) = m /\ ~ Good(u)
    OBVIOUS
  <2>4. \A v \in SUBSET s : Cardinality(v) < m => Good(v)
    <3> HIDE DEF Good
    <3>1. ASSUME NEW v \in SUBSET s, Cardinality(v) < m, ~ Good(v) PROVE FALSE
      <4>1. Cardinality(v) \in T
        BY <3>1, <1>1
      <4>2. m <= Cardinality(v)
        BY <4>1, <2>2
      <4> QED BY <4>2, <3>1, <1>1
    <3> QED BY <3>1
  <2>5. CASE u = {}
    <3>1. Sums(f)[u] \in Int
      BY <2>5, <1>2
    <3> QED BY <2>3, <2>5, <3>1
  <2>6. CASE u # {}
    <3>1. PICK y \in u : Sums(f)[u] = f[y] + Sums(f)[u \ {y}]
      BY <1>2, <2>6
    <3>2. ASSUME NEW x \in u PROVE Cardinality(u \ {x}) < m /\ u \ {x} \in SUBSET s
      BY <1>1, <2>3
    <3>3. ASSUME NEW x \in u PROVE Good(u \ {x})
      <4> HIDE DEF Good
      <4> QED BY <3>2, <2>4
    <3>4. Sums(f)[u] \in Int
      <4>1. Sums(f)[u \ {y}] \in Int /\ f[y] \in Int
        BY <3>3
      <4> QED BY <3>1, <4>1
    <3>5. ASSUME NEW x \in u, x # y PROVE Sums(f)[u] = f[x] + Sums(f)[u \ {x}]
      <4>1. x \in u \ {y} /\ y \in u \ {x} /\ (u \ {y}) \ {x} = (u \ {x}) \ {y}
        BY <3>5
      <4>2. Sums(f)[u \ {y}] = f[x] + Sums(f)[(u \ {y}) \ {x}]
        BY <4>1, <3>3
      <4>3. Sums(f)[u \ {x}] = f[y] + Sums(f)[(u \ {y}) \ {x}]
        BY <4>1, <3>3
      <4>4. Good((u \ {y}) \ {x})
        <5>1. u \ {y} \in SUBSET s
          OBVIOUS
        <5>2. Cardinality((u \ {y}) \ {x}) = Cardinality(u \ {y}) - 1
          BY <4>1, <5>1, <1>1
        <5>3. Cardinality((u \ {y}) \ {x}) < m
          BY <3>2, <5>1, <5>2, <1>1, <2>3
        <5>4. (u \ {y}) \ {x} \in SUBSET s
          OBVIOUS
        <5> HIDE DEF Good
        <5> QED BY <5>3, <5>4, <2>4
      <4>5. Sums(f)[(u \ {y}) \ {x}] \in Int /\ f[x] \in Int /\ f[y] \in Int
        BY <4>4
      <4> QED BY <3>1, <4>2, <4>3, <4>5
    <3>6. Good(u)
      BY <3>1, <3>4, <3>5
    <3> QED BY <2>3, <3>6
  <2> QED BY <2>5, <2>6
<1>4. Good(s)
  <2>1. Cardinality(s) \notin T /\ Cardinality(s) \in Nat
    BY <1>1, <1>3
  <2> HIDE DEF Good
  <2> QED BY <2>1
<1> QED BY <1>2, <1>4

\* The sum over two disjoint sets is the sum of their sums.
LEMMA SumJoins ==
  ASSUME NEW f, IsFiniteSet(DOMAIN f), NEW s \in SUBSET DOMAIN f, NEW t \in SUBSET DOMAIN f,
         s \cap t = {}, \A x \in s \cup t : f[x] \in Int
  PROVE  Sums(f)[s \cup t] = Sums(f)[s] + Sums(f)[t]
<1> DEFINE Good(u) == Sums(f)[u \cup t] = Sums(f)[u] + Sums(f)[t]
           T == {n \in Nat : \E u \in SUBSET s : Cardinality(u) = n /\ ~ Good(u)}
<1>1. \A u \in SUBSET s : /\ Cardinality(u) \in Nat
                          /\ \A x \in u : Cardinality(u \ {x}) = Cardinality(u) - 1
  <2>1. ASSUME NEW u \in SUBSET s PROVE IsFiniteSet(u)
    <3>1. u \in SUBSET DOMAIN f
      OBVIOUS
    <3> QED BY <3>1, FS_Subset
  <2> QED BY <2>1, FS_CardinalityType, FS_RemoveElement
<1>2. ASSUME NEW u \in SUBSET DOMAIN f, \A x \in u : f[x] \in Int
      PROVE  /\ u = {} => Sums(f)[u] = 0
             /\ Sums(f)[u] \in Int
             /\ \A x \in u : Sums(f)[u] = f[x] + Sums(f)[u \ {x}]
  BY <1>2, SumPicks
<1>3. T = {}
  <2>1. SUFFICES ASSUME T # {} PROVE FALSE
    OBVIOUS
  <2>2. PICK m \in T : \A n \in T : m <= n
    <3>1. T \in SUBSET Nat
      OBVIOUS
    <3> HIDE DEF T
    <3> QED BY <2>1, <3>1, LeastOf
  <2>3. PICK u \in SUBSET s : Cardinality(u) = m /\ ~ Good(u)
    OBVIOUS
  <2>4. CASE u = {}
    <3>1. u \cup t = t /\ u = {} /\ Sums(f)[{}] = 0 /\ Sums(f)[t] \in Int
      BY <2>4, <1>2
    <3>2. Sums(f)[u \cup t] = Sums(f)[t] /\ Sums(f)[u] = 0
      BY <3>1
    <3>3. Good(u)
      BY <3>1, <3>2
    <3> QED BY <3>3, <2>3
  <2>5. CASE u # {}
    <3>1. PICK x \in u : TRUE
      BY <2>5
    <3> DEFINE v == u \ {x}
    <3>2. v \in SUBSET s /\ Cardinality(v) < m
      BY <1>1, <2>3
    <3>3. Good(v)
      <4>1. Cardinality(v) \notin T
        <5>1. Cardinality(v) \in Nat /\ ~ (m <= Cardinality(v))
          BY <3>2, <1>1
        <5> HIDE DEF T, v
        <5> QED BY <5>1, <2>2
      <4> HIDE DEF Good, v
      <4> QED BY <3>2, <4>1, <1>1
    <3>4. /\ u \cup t \in SUBSET DOMAIN f /\ x \in u \cup t
          /\ (u \cup t) \ {x} = v \cup t
      OBVIOUS
    <3>5. Sums(f)[u \cup t] = f[x] + Sums(f)[v \cup t]
      BY <3>4, <1>2
    <3>6. Sums(f)[u] = f[x] + Sums(f)[v]
      BY <1>2
    <3>7. f[x] \in Int /\ Sums(f)[v] \in Int /\ Sums(f)[t] \in Int
      BY <3>2, <1>2
    <3> HIDE DEF v
    <3> QED BY <2>3, <3>3, <3>5, <3>6, <3>7
  <2> QED BY <2>4, <2>5
<1>4. Good(s)
  <2>1. Cardinality(s) \notin T /\ Cardinality(s) \in Nat
    BY <1>1, <1>3
  <2> HIDE DEF Good
  <2> QED BY <2>1
<1> QED BY <1>4

LEMMA SumOfTwo ==
  ASSUME NEW a \in Int, NEW b \in Int
  PROVE  FoldFunction(+, 0, <<a, b>>) = a + b
<1>1. FoldFunction(+, 0, <<a, b>>) = Sums(<<a, b>>)[DOMAIN <<a, b>>]
  BY FoldIsSums
<1>2. PICK f : f = <<a, b>>
  OBVIOUS
<1>3. DOMAIN f = {1, 2} /\ f[1] = a /\ f[2] = b
  BY <1>2
<1>4. IsFiniteSet(DOMAIN f)
  <2>1. IsFiniteSet({1}) /\ DOMAIN f = {1} \cup {2}
    BY <1>3, FS_Singleton
  <2> QED BY <2>1, FS_AddElement
<1>5. ASSUME NEW u \in SUBSET DOMAIN f
      PROVE  /\ u = {} => Sums(f)[u] = 0
             /\ \A x \in u : Sums(f)[u] = f[x] + Sums(f)[u \ {x}]
  <2>1. \A x \in u : f[x] \in Int
    BY <1>3
  <2> QED BY <2>1, <1>4, SumPicks
<1>6. /\ {} \in SUBSET DOMAIN f /\ {2} \in SUBSET DOMAIN f /\ {1, 2} \in SUBSET DOMAIN f
      /\ {2} \ {2} = {} /\ {1, 2} \ {1} = {2}
  BY <1>3
<1>7. Sums(f)[{}] = 0
  BY <1>5, <1>6
<1>8. Sums(f)[{2}] = b + 0
  BY <1>3, <1>5, <1>6, <1>7
<1>9. Sums(f)[{1, 2}] = a + (b + 0)
  BY <1>3, <1>5, <1>6, <1>8
<1>10. Sums(<<a, b>>)[DOMAIN <<a, b>>] = a + (b + 0)
  BY <1>2, <1>3, <1>9
<1>11. Sums(<<a, b>>)[DOMAIN <<a, b>>] = a + b
  BY <1>10
<1> QED BY <1>1, <1>11, Zenon

-----------------------------------------------------------------------------
(* The sizes of the derived datatypes.                                     *)

\* A sentinel of less than 2^24 bytes is read back as it was made.
LEMMA Sentinels ==
  ASSUME NEW n \in Nat
  PROVE  LET t == Derived(MPISEQ_DTYPE_SENTINEL(n))
         IN  /\ t.name = "derived" /\ t.handle \in Nat
             /\ BaseTypeBytes(t) \in Nat
             /\ n < SizeField => BaseTypeBytes(t) = n /\ t.handle = n + 268435456
<1> DEFINE h == MPISEQ_DTYPE_SENTINEL(n)
           t == Derived(h)
<1>1. h \in Nat /\ (n < SizeField => h = n + 268435456)
  BY DEF MPISEQ_DTYPE_SENTINEL, MPISEQ_DTYPE_TAG, SizeField
<1> HIDE DEF h
<1>2. t.name = "derived" /\ t.handle = h
  BY DEF Derived
<1>3. BaseTypeBytes(t) = IF h \div 16777216 = 16 THEN h % 16777216 ELSE 0
  BY <1>1, <1>2 DEF BaseTypeBytes, PredefinedBytes, SizeField, MPISEQ_DTYPE_TAG
<1>4. BaseTypeBytes(t) \in Nat /\ (n < SizeField => BaseTypeBytes(t) = n)
  BY <1>1, <1>3 DEF SizeField
<1> QED BY <1>1, <1>2, <1>4 DEF h
LEMMA Products ==
  ASSUME NEW c \in Nat, NEW n \in Nat
  PROVE  c * n \in Nat /\ (c = 0 => c * n = 0) /\ (c # 0 => c * n >= n)
<1>1. c * n \in Nat
  OBVIOUS
<1>2. ASSUME c # 0 PROVE c * n >= n
  <2>1. c - 1 \in Nat
    BY <1>2
  <2>2. (c - 1) * n \in Nat
    BY <2>1
  <2>3. c * n = (c - 1) * n + n
    OBVIOUS
  <2> QED BY <2>2, <2>3
<1> QED BY <1>1, <1>2

Sized(d) ==
  /\ d.bytes \in Nat /\ BaseTypeBytes(d.t) \in Nat
  /\ d.bytes < SizeField => BaseTypeBytes(d.t) = d.bytes

DerivedTypes == [t : [name : {"derived"}, handle : Nat], bytes : Nat]

\* Every derived datatype is a sentinel of its size, where that fits.
TypesInv ==
  /\ types \in Seq(DerivedTypes)
  /\ \A i \in DOMAIN types :
       /\ Sized(types[i])
       /\ types[i].bytes < SizeField => types[i].t.handle = types[i].bytes + 268435456

\* c elements of a datatype whose size is known have a known size.
LEMMA SizedTimes ==
  ASSUME NEW c \in Nat, NEW b, Sized(b)
  PROVE  /\ c * b.bytes \in Nat /\ c * BaseTypeBytes(b.t) \in Nat
         /\ c * b.bytes < SizeField => c * BaseTypeBytes(b.t) = c * b.bytes
<1> DEFINE n == b.bytes
           m == BaseTypeBytes(b.t)
<1>1. n \in Nat /\ m \in Nat /\ (n < SizeField => m = n)
  BY DEF Sized
<1> HIDE DEF n, m
<1>2. c * n \in Nat /\ c * m \in Nat /\ (c = 0 => c * n = 0 /\ c * m = 0) /\ (c # 0 => c * n >= n)
  BY <1>1, Products
<1>3. ASSUME c * n < SizeField PROVE c * m = c * n
  <2>1. CASE c = 0
    BY <2>1, <1>2
  <2>2. CASE c # 0
    <3>1. n < SizeField
      BY <2>2, <1>1, <1>2, <1>3 DEF SizeField
    <3> QED BY <3>1, <1>1
  <2> QED BY <2>1, <2>2
<1> QED BY <1>2, <1>3 DEF n, m

LEMMA PredefinedSized == \A b \in Predefined : Sized(b)
<1>1. ASSUME NEW n \in Leaves PROVE Sized([t |-> Named(n), bytes |-> PredefinedBytes[n]])
  <2>1. n \in DOMAIN PredefinedBytes
    BY TypesAssumption
  <2>2. PredefinedBytes[n] \in Nat
    BY <2>1 DEF PredefinedBytes
  <2>3. BaseTypeBytes(Named(n)) = PredefinedBytes[n]
    BY <2>1 DEF BaseTypeBytes, Named
  <2> QED BY <2>2, <2>3 DEF Sized
<1>2. ASSUME NEW m \in Matches PROVE Sized([t |-> Named(m.type), bytes |-> m.size])
  <2>1. m.type \in DOMAIN PredefinedBytes /\ m.size = PredefinedBytes[m.type] /\ m.size \in Nat
    BY DEF Matches, PredefinedBytes
  <2>2. BaseTypeBytes(Named(m.type)) = m.size
    BY <2>1 DEF BaseTypeBytes, Named
  <2> QED BY <2>1, <2>2 DEF Sized
<1> QED BY <1>1, <1>2 DEF Predefined

LEMMA BasesSized == TypesInv => \A b \in Bases : Sized(b)
<1> SUFFICES ASSUME TypesInv, types # <<>> PROVE Sized(Last(types))
  BY PredefinedSized DEF Bases
<1>1. Len(types) \in DOMAIN types
  BY DEF TypesInv
<1> QED BY <1>1 DEF TypesInv, Last

\* A datatype whose handle is the sentinel of n bytes, of which it holds
\* bytes, is a good last one.
LEMMA AddKeeps ==
  ASSUME TypesInv, NEW n \in Nat, NEW bytes \in Nat, bytes < SizeField => n = bytes,
         AddType(Derived(MPISEQ_DTYPE_SENTINEL(n)), bytes)
  PROVE  TypesInv'
<1> DEFINE d == [t |-> Derived(MPISEQ_DTYPE_SENTINEL(n)), bytes |-> bytes]
<1>1. types' = Append(types, d)
  BY DEF AddType
<1>2. /\ d.t \in [name : {"derived"}, handle : Nat] /\ d.bytes = bytes
      /\ Sized(d) /\ (d.bytes < SizeField => d.t.handle = d.bytes + 268435456)
  <2>1. LET t == Derived(MPISEQ_DTYPE_SENTINEL(n))
        IN  /\ t.name = "derived" /\ t.handle \in Nat
            /\ BaseTypeBytes(t) \in Nat
            /\ n < SizeField => BaseTypeBytes(t) = n /\ t.handle = n + 268435456
    BY Sentinels
  <2>2. d.t \in [name : {"derived"}, handle : Nat]
    BY <2>1 DEF Derived
  <2> QED BY <2>1, <2>2 DEF Sized
<1>3. d \in DerivedTypes
  BY <1>2 DEF DerivedTypes
<1> HIDE DEF d
<1>4. types' \in Seq(DerivedTypes)
  BY <1>1, <1>3 DEF TypesInv
<1>5. ASSUME NEW i \in DOMAIN types' PROVE types'[i] = d \/ (i \in DOMAIN types /\ types'[i] = types[i])
  BY <1>1, <1>3 DEF TypesInv
<1>6. ASSUME NEW i \in DOMAIN types'
      PROVE  /\ Sized(types'[i])
             /\ types'[i].bytes < SizeField => types'[i].t.handle = types'[i].bytes + 268435456
  <2>1. CASE types'[i] = d
    BY <2>1, <1>2, SMT
  <2>2. CASE i \in DOMAIN types /\ types'[i] = types[i]
    BY <2>2, SMT DEF TypesInv
  <2> QED BY <2>1, <2>2, <1>5
<1> QED BY <1>4, <1>6, SMT DEF TypesInv, Sized

LEMMA TypesStep == TypesInv /\ [Next]_vars => TypesInv'
<1> SUFFICES ASSUME TypesInv, [Next]_vars PROVE TypesInv'
  OBVIOUS
<1>1. ASSUME UNCHANGED types PROVE TypesInv'
  BY <1>1 DEF TypesInv, Sized
<1>2. CASE DeriveContiguous
  <2>1. PICK b \in Bases, c \in Counts : AddType(TypeContiguous(c, b.t), c * b.bytes)
    BY <1>2 DEF DeriveContiguous
  <2>2. c \in Nat /\ Sized(b)
    BY TypesAssumption, BasesSized
  <2> QED BY <2>1, <2>2, SizedTimes, AddKeeps DEF TypeContiguous
<1>3. CASE DeriveVector
  <2>1. PICK b \in Bases, c \in Counts : AddType(TypeVector(c, 2, b.t), c * 2 * b.bytes)
    BY <1>3 DEF DeriveVector
  <2>2. c \in Nat /\ c * 2 \in Nat /\ Sized(b)
    BY TypesAssumption, BasesSized
  <2> QED BY <2>1, <2>2, SizedTimes, AddKeeps DEF TypeVector
<1>4. CASE DeriveIndexed
  <2>1. PICK b \in Bases, c \in Counts : AddType(TypeIndexed(<<c, 1>>, b.t), (c + 1) * b.bytes)
    BY <1>4 DEF DeriveIndexed
  <2>2. c \in Nat /\ c + 1 \in Nat /\ Sized(b)
    BY TypesAssumption, BasesSized
  <2>3. FoldFunction(+, 0, <<c, 1>>) = c + 1
    <3>1. c \in Int /\ 1 \in Int
      BY <2>2
    <3> QED BY <3>1, SumOfTwo, Zenon
  <2>4. TypeIndexed(<<c, 1>>, b.t) = Derived(MPISEQ_DTYPE_SENTINEL((c + 1) * BaseTypeBytes(b.t)))
    BY <2>3, Zenon DEF TypeIndexed
  <2> QED BY <2>1, <2>2, <2>4, SizedTimes, AddKeeps
<1>5. CASE DeriveStruct
  <2>1. PICK a \in Bases, b \in Predefined, c \in Counts :
          AddType(TypeCreateStruct(<<c, 1>>, <<a.t, b.t>>), c * a.bytes + b.bytes)
    BY <1>5 DEF DeriveStruct
  <2>2. c \in Nat /\ Sized(a) /\ Sized(b)
    BY TypesAssumption, BasesSized, PredefinedSized
  <2> DEFINE n == c * BaseTypeBytes(a.t)
             m == BaseTypeBytes(b.t)
  <2>3. /\ n \in Nat /\ c * a.bytes \in Nat /\ m \in Nat /\ b.bytes \in Nat
        /\ c * a.bytes < SizeField => n = c * a.bytes
        /\ b.bytes < SizeField => m = b.bytes
    BY <2>2, SizedTimes DEF Sized
  <2>4. [i \in DOMAIN <<c, 1>> |-> <<c, 1>>[i] * BaseTypeBytes(<<a.t, b.t>>[i])] = <<n, m>>
    <3>1. m = 1 * m
      BY <2>3
    <3> QED BY <3>1
  <2>5. FoldFunction(+, 0, <<n, m>>) = n + m
    <3>1. n \in Int /\ m \in Int
      BY <2>3
    <3> HIDE DEF n, m
    <3> QED BY <3>1, SumOfTwo, Zenon
  <2>6. TypeCreateStruct(<<c, 1>>, <<a.t, b.t>>) = Derived(MPISEQ_DTYPE_SENTINEL(n + m))
    BY <2>4, <2>5, Zenon DEF TypeCreateStruct
  <2>7. /\ c * a.bytes + b.bytes \in Nat /\ n + m \in Nat
        /\ c * a.bytes + b.bytes < SizeField => n + m = c * a.bytes + b.bytes
    <3> HIDE DEF n, m
    <3> QED BY <2>3 DEF SizeField
  <2> QED BY <2>1, <2>6, <2>7, AddKeeps
<1>6. CASE UNCHANGED vars
  BY <1>1, <1>6 DEF vars
<1> QED BY <1>1, <1>2, <1>3, <1>4, <1>5, <1>6
        DEF Next, MpiInit, BlacsPinfo, BridgeInit, Enter, CombineParts, SeqCall, NextCall

LEMMA SizesTrue == TypesInv => DerivedSizesAreTrue
<1> SUFFICES ASSUME TypesInv, NEW i \in DOMAIN types, types[i].bytes < SizeField
             PROVE  LET d == types[i]
                    IN  /\ BaseTypeBytes(d.t) = d.bytes
                        /\ CaseOf(libseq, d.t) # "none" => CopiedBytes[CaseOf(libseq, d.t)] = d.bytes
  BY DEF DerivedSizesAreTrue, Range
<1> DEFINE d == types[i]
<1>1. /\ BaseTypeBytes(d.t) = d.bytes /\ d.bytes \in Nat
      /\ d.t.name = "derived" /\ d.t.handle = d.bytes + 268435456
  <2>1. types[i] \in DerivedTypes
    BY SMT DEF TypesInv
  <2>2. Sized(types[i]) /\ types[i].t.handle = types[i].bytes + 268435456
    BY SMT DEF TypesInv
  <2> QED BY <2>1, <2>2, SMT DEF Sized, DerivedTypes
<1> HIDE DEF d
<1>2. CopiedBytes["268435472"] = 16 /\ CopiedBytes["268435488"] = 32
  BY DEF CopiedBytes, PatchCases
<1>3. CaseOf(libseq, d.t) # "none" =>
        \/ CaseOf(libseq, d.t) = "268435472" /\ d.bytes = 16
        \/ CaseOf(libseq, d.t) = "268435488" /\ d.bytes = 32
  BY <1>1, SMT DEF CaseOf
<1> QED BY <1>1, <1>2, <1>3, SMT DEF d

\* Below 2^24 bytes every handle the sequential library derives says what the
\* datatype holds, whatever it was derived from and in whatever way.
THEOREM SizesAlwaysTrue == Spec => []DerivedSizesAreTrue
<1>1. Init => TypesInv
  BY DEF Init, TypesInv
<1> QED BY <1>1, TypesStep, SizesTrue, PTL DEF Spec
-----------------------------------------------------------------------------
(* What a parallel sum returns.                                            *)

\* The sum over R, when every number is one.
Total(f, R) == IF \E r \in R : f[r] = NaN THEN NaN ELSE Sums(f)[R]

LEMMA TotalOfOne ==
  ASSUME NEW f, IsFiniteSet(DOMAIN f), NEW q \in DOMAIN f, f[q] \in Int \cup {NaN}
  PROVE  Total(f, {q}) = f[q]
<1>1. CASE f[q] = NaN
  BY <1>1 DEF Total
<1>2. CASE f[q] \in Int
  <2>1. /\ {} \in SUBSET DOMAIN f /\ {q} \in SUBSET DOMAIN f /\ {q} \ {q} = {}
        /\ \A x \in {q} : f[x] \in Int
    BY <1>2
  <2>2. Sums(f)[{}] = 0
    BY <2>1, SumPicks
  <2>3. Sums(f)[{q}] = f[q] + Sums(f)[{q} \ {q}]
    BY <2>1, SumPicks
  <2>4. Sums(f)[{q}] = f[q]
    BY <2>1, <2>2, <2>3, <1>2
  <2>5. f[q] # NaN
    BY <1>2, NaNAssumption
  <2> QED BY <2>4, <2>5 DEF Total
<1> QED BY <1>1, <1>2

LEMMA TotalOfBoth ==
  ASSUME NEW f, IsFiniteSet(DOMAIN f), \A r \in DOMAIN f : f[r] \in Int \cup {NaN},
         NEW P \in SUBSET DOMAIN f, NEW Q \in SUBSET DOMAIN f, P \cap Q = {}
  PROVE  Plus(Total(f, Q), Total(f, P)) = Total(f, P \cup Q)
<1>1. CASE \E r \in P \cup Q : f[r] = NaN
  BY <1>1 DEF Total, Plus
<1>2. CASE ~ \E r \in P \cup Q : f[r] = NaN
  <2>1. \A x \in P \cup Q : f[x] \in Int
    BY <1>2
  <2>2. Sums(f)[P] \in Int /\ Sums(f)[Q] \in Int
    BY <2>1, SumPicks
  <2>3. Sums(f)[P \cup Q] = Sums(f)[P] + Sums(f)[Q]
    BY <2>1, SumJoins
  <2>4. Total(f, P) = Sums(f)[P] /\ Total(f, Q) = Sums(f)[Q]
        /\ Total(f, P \cup Q) = Sums(f)[P \cup Q]
    BY <1>2 DEF Total
  <2>5. Plus(Total(f, Q), Total(f, P)) = Sums(f)[Q] + Sums(f)[P]
    BY <2>2, <2>4, NaNAssumption DEF Plus
  <2> QED BY <2>2, <2>3, <2>4, <2>5
<1> QED BY <1>1, <1>2

\* The i-th numbers of the processes.
Given(i) == [r \in Ranks |-> contrib[r][i].re]

Summed(ranks, val) ==
  program[pc].was.op = "MPI_SUM" => \A i \in DOMAIN val : val[i].re = Total(Given(i), ranks)

\* No process counts twice, and each partial result is the sum of its own.
SumInv == /\ \A p, q \in parts : p # q => p.ranks \cap q.ranks = {}
          /\ \A p \in parts : Summed(p.ranks, p.val)
          /\ outcome = "done" /\ lib # "seq" => Summed(Ranks, result)

LEMMA GivenNumbers ==
  ASSUME EnteredInv, lib # "seq", DOMAIN contrib = Ranks, NEW i,
         \A r \in Ranks : i \in DOMAIN contrib[r]
  PROVE  /\ DOMAIN Given(i) = Ranks /\ IsFiniteSet(Ranks)
         /\ \A r \in Ranks : Given(i)[r] = contrib[r][i].re /\ Given(i)[r] \in Int \cup {NaN}
<1>1. IsFiniteSet(Ranks)
  <2>1. Ranks = 1 .. N /\ 1 \in Int /\ N \in Int
    BY NAssumption DEF Ranks
  <2> QED BY <2>1, FS_Interval
<1>2. ASSUME NEW r \in Ranks PROVE contrib[r][i].re \in Int \cup {NaN}
  <2>1. contrib[r] \in Buffers[Data(program[pc].was)] /\ i \in DOMAIN contrib[r]
    BY DEF EnteredInv
  <2>2. {contrib[r][i].re, contrib[r][i].im} \ {NaN} \subseteq Int
    BY <2>1, DataKinds, BuffersAssumption DEF Kinds
  <2> QED BY <2>2
<1> QED BY <1>1, <1>2 DEF Given

\* A sum in the source is one in the library, by its own kernel or by the
\* bridge's.
LEMMA AppliesSum ==
  ASSUME fam \in Families, OperationsFitDatatypes, pc \in DOMAIN program,
         program[pc].was.op = "MPI_SUM", NEW a, NEW b, NEW i \in DOMAIN b
  PROVE  Apply(a, b)[i].re = Plus(b[i].re, a[i].re)
<1>1. CASE IsCustomOp(Call.op)
  <2>1. (CHOOSE c \in CustomOps : c.name = Call.op).kind = KindOf["MPI_SUM"]
    BY <1>1, KindOfCall
  <2>2. KindOf["MPI_SUM"] = "SUM"
    BY DEF KindOf
  <2>3. Apply(a, b) = Callback("SUM", a, b)
    BY <1>1, <2>1, <2>2 DEF Apply
  <2>4. Apply(a, b)[i] = SumFn(a[i], b[i])
    BY <2>3 DEF Callback, Combine
  <2> QED BY <2>4 DEF SumFn
<1>2. CASE ~ IsCustomOp(Call.op)
  <2>1. Call.op = "MPI_SUM"
    <3>1. CASE Data(program[pc].was) = "integer" \/ ~ HasBridge(fam)
      BY <3>1 DEF OperationsFitDatatypes, Call
    <3>2. CASE ~ (Data(program[pc].was) = "integer" \/ ~ HasBridge(fam))
      BY <3>2, <1>2 DEF OperationsFitDatatypes, Call, IsCustomOp, CustomOps
    <3> QED BY <3>1, <3>2
  <2>2. Apply(a, b)[i] = StockCombine(Call.op, a[i], b[i])
    BY <1>2 DEF Apply
  <2>3. Apply(a, b)[i] = SumFn(a[i], b[i])
    BY <2>1, <2>2 DEF StockCombine
  <2> QED BY <2>3 DEF SumFn
<1> QED BY <1>1, <1>2

LEMMA BothSummed ==
  ASSUME IInv, SumInv, OperationsFitDatatypes, NEW p \in parts, NEW q \in parts, p # q
  PROVE  Summed(p.ranks \cup q.ranks, Apply(p.val, q.val))
<1> DEFINE v == Apply(p.val, q.val)
<1>1. /\ fam \in Families /\ EnteredInv
      /\ lib # "seq" /\ DOMAIN contrib = Ranks /\ pc \in DOMAIN program
      /\ p.ranks \subseteq Ranks /\ q.ranks \subseteq Ranks
      /\ Holds(p.ranks, p.val) /\ Holds(q.ranks, q.val)
      /\ p.ranks \cap q.ranks = {}
      /\ Summed(p.ranks, p.val) /\ Summed(q.ranks, q.val)
  BY DEF IInv, PartInv, CoverInv, SumInv
<1>2. DOMAIN v = DOMAIN q.val
  BY DEF Apply, Callback
<1>3. ASSUME program[pc].was.op = "MPI_SUM", NEW i \in DOMAIN v
      PROVE  v[i].re = Total(Given(i), p.ranks \cup q.ranks)
  <2>1. i \in DOMAIN p.val /\ i \in DOMAIN q.val /\ \A r \in Ranks : i \in DOMAIN contrib[r]
    <3>1. 1 \in Ranks
      BY <1>1, NAssumption DEF Ranks
    <3> QED BY <3>1, <1>1, <1>2, <1>3 DEF Holds
  <2>2. v[i].re = Plus(q.val[i].re, p.val[i].re)
    BY <2>1, <1>1, <1>3, AppliesSum
  <2>3. q.val[i].re = Total(Given(i), q.ranks) /\ p.val[i].re = Total(Given(i), p.ranks)
    BY <2>1, <1>1, <1>3 DEF Summed
  <2>4. /\ DOMAIN Given(i) = Ranks /\ IsFiniteSet(Ranks)
        /\ \A r \in Ranks : Given(i)[r] \in Int \cup {NaN}
    BY <2>1, <1>1, GivenNumbers
  <2>5. Plus(Total(Given(i), q.ranks), Total(Given(i), p.ranks)) = Total(Given(i), p.ranks \cup q.ranks)
    BY <2>4, <1>1, TotalOfBoth
  <2> QED BY <2>2, <2>3, <2>5
<1> HIDE DEF v
<1>4. Summed(p.ranks \cup q.ranks, v)
  BY <1>3 DEF Summed
<1> QED BY <1>4 DEF v

LEMMA SumAside ==
  ASSUME SumInv, UNCHANGED <<lib, program, pc, contrib, parts, outcome, result>>
  PROVE  SumInv'
BY DEF SumInv, Summed, Given, Ranks

LEMMA EnterSums ==
  ASSUME IInv, SumInv, NEW r \in Ranks, Enter(r), IInv'
  PROVE  SumInv'
<1>1. /\ lib # "seq" /\ outcome = "none" /\ pc \in DOMAIN program
      /\ r \notin DOMAIN contrib
      /\ UNCHANGED <<fam, lib, program, up, pc, result>>
  BY DEF Enter
<1>2. parts = {} /\ outcome' # "done"
  <2>1. parts = {}
    BY <1>1 DEF IInv, CoverInv
  <2>2. outcome' # "done"
    BY DEF Enter, Accepts
  <2> QED BY <2>1, <2>2
<1>3. CASE parts' = {}
  BY <1>2, <1>3 DEF SumInv
<1>4. CASE parts' # {}
  <2>1. parts' = {[ranks |-> {q}, val |-> contrib'[q]] : q \in Ranks}
    BY <1>2, <1>4 DEF Enter
  <2>2. DOMAIN contrib' = Ranks' /\ Ranks' = Ranks /\ lib' # "seq" /\ EnteredInv'
    BY <1>1, <1>4 DEF IInv, CoverInv, Ranks
  <2>3. ASSUME NEW q \in Ranks PROVE Summed({q}, contrib[q])'
    <3>1. ASSUME NEW i \in DOMAIN contrib'[q]
          PROVE  contrib'[q][i].re = Total(Given(i)', {q})
      <4>1. [ranks |-> {q}, val |-> contrib'[q]] \in parts'
        BY <2>1
      <4>2. \A s \in Ranks : i \in DOMAIN contrib'[s]
        BY <4>1, <2>2, <3>1 DEF IInv, PartInv, Holds
      <4>3. /\ DOMAIN Given(i)' = Ranks /\ IsFiniteSet(Ranks)
            /\ \A s \in Ranks : Given(i)'[s] = contrib'[s][i].re /\ Given(i)'[s] \in Int \cup {NaN}
        <5>1. IsFiniteSet(Ranks)
          <6>1. Ranks = 1 .. N /\ 1 \in Int /\ N \in Int
            BY <1>1, NAssumption DEF Ranks
          <6> QED BY <6>1, FS_Interval
        <5>2. ASSUME NEW s \in Ranks PROVE contrib'[s][i].re \in Int \cup {NaN}
          <6>1. contrib'[s] \in Buffers[Data(program'[pc'].was)] /\ i \in DOMAIN contrib'[s]
            BY <4>2, <2>2 DEF EnteredInv
          <6>2. {contrib'[s][i].re, contrib'[s][i].im} \ {NaN} \subseteq Int
            BY <6>1, DataKinds, BuffersAssumption DEF Kinds
          <6> QED BY <6>2
        <5> QED BY <5>1, <5>2, <2>2 DEF Given
      <4>4. Total(Given(i)', {q}) = Given(i)'[q]
        BY <4>3, TotalOfOne
      <4> QED BY <4>3, <4>4
    <3> QED BY <3>1 DEF Summed
  <2>4. ASSUME NEW x \in parts', NEW y \in parts', x # y PROVE x.ranks \cap y.ranks = {}
    <3>1. PICK q \in Ranks : x = [ranks |-> {q}, val |-> contrib'[q]]
      BY <2>1
    <3>2. PICK s \in Ranks : y = [ranks |-> {s}, val |-> contrib'[s]]
      BY <2>1
    <3>3. q # s
      BY <2>4, <3>1, <3>2
    <3> QED BY <3>1, <3>2, <3>3
  <2>5. ASSUME NEW x \in parts' PROVE Summed(x.ranks, x.val)'
    <3>1. PICK q \in Ranks : x = [ranks |-> {q}, val |-> contrib'[q]]
      BY <2>1
    <3>2. x.ranks = {q} /\ x.val = contrib'[q]
      BY <3>1
    <3>3. Summed({q}, contrib[q])'
      BY <2>3
    <3> QED BY <3>2, <3>3 DEF Summed
  <2> QED BY <1>2, <2>4, <2>5 DEF SumInv
<1> QED BY <1>3, <1>4

LEMMA CombineSums ==
  ASSUME IInv, SumInv, OperationsFitDatatypes, NEW p \in parts, NEW q \in parts,
         CombineParts(p, q), IInv'
  PROVE  SumInv'
<1> DEFINE both == [ranks |-> p.ranks \cup q.ranks, val |-> Apply(p.val, q.val)]
           rest == parts \ {p, q}
<1>1. /\ UNCHANGED <<fam, lib, program, up, pc, contrib>> /\ p # q
      /\ parts' = rest \cup {both}
      /\ outcome' = "done" => rest = {} /\ result' = both.val
  BY DEF CombineParts
<1>2. both.ranks = p.ranks \cup q.ranks
  OBVIOUS
<1>3. Summed(both.ranks, both.val)
  <2>1. Summed(p.ranks \cup q.ranks, Apply(p.val, q.val))
    BY <1>1, BothSummed
  <2> QED BY <2>1
<1> HIDE DEF both
<1>4. Ranks' = Ranks
  BY <1>1 DEF Ranks
<1>5. ASSUME NEW R, NEW v, Summed(R, v)
      PROVE  Summed(R, v)'
  BY <1>1, <1>4, <1>5 DEF Summed, Given
<1>6. \A x, y \in parts' : x # y => x.ranks \cap y.ranks = {}
  <2>1. ASSUME NEW x \in rest PROVE x.ranks \cap both.ranks = {}
    BY <1>2, <2>1 DEF SumInv
  <2>2. \A x, y \in rest : x # y => x.ranks \cap y.ranks = {}
    BY DEF SumInv
  <2> QED BY <2>1, <2>2, <1>1
<1>7. \A x \in parts' : Summed(x.ranks, x.val)'
  <2>1. ASSUME NEW x \in parts' PROVE Summed(x.ranks, x.val)
    BY <2>1, <1>1, <1>3 DEF SumInv
  <2> QED BY <2>1, <1>5
<1>8. ASSUME outcome' = "done" PROVE Summed(Ranks, result)'
  <2>1. both.ranks = Ranks
    BY <1>1, <1>4, <1>8 DEF IInv, PartInv, CoverInv
  <2>2. PICK R, v : R = Ranks /\ v = both.val
    OBVIOUS
  <2>3. Summed(R, v)'
    BY <2>1, <2>2, <1>3, <1>5
  <2>4. R = Ranks' /\ v = result'
    BY <2>2, <1>1, <1>4, <1>8
  <2> QED BY <2>3, <2>4 DEF Summed
<1> QED BY <1>6, <1>7, <1>8 DEF SumInv

LEMMA SumStep ==
  SumInv /\ IInv /\ OperationsFitDatatypes /\ [Next]_vars => SumInv'
<1> SUFFICES ASSUME SumInv, IInv, OperationsFitDatatypes, [Next]_vars PROVE SumInv'
  OBVIOUS
<1>0. IInv'
  BY IInvStep
<1>1. ASSUME NEW r \in Ranks, MpiInit(r) \/ BlacsPinfo(r) \/ BridgeInit(r) PROVE SumInv'
  BY <1>1, SumAside DEF MpiInit, BlacsPinfo, BridgeInit
<1>2. ASSUME NEW r \in Ranks, Enter(r) PROVE SumInv'
  BY <1>0, <1>2, EnterSums
<1>3. ASSUME NEW p \in parts, NEW q \in parts, CombineParts(p, q) PROVE SumInv'
  BY <1>0, <1>3, CombineSums
<1>4. ASSUME NEW inPlace \in BOOLEAN, SeqCall(inPlace) PROVE SumInv'
  <2>1. lib' = "seq" /\ parts' = {}
    BY <1>4 DEF SeqCall, IInv, CoverInv
  <2> QED BY <2>1 DEF SumInv
<1>5. CASE NextCall
  BY <1>5 DEF NextCall, SumInv
<1>6. ASSUME NEW t, NEW bytes, AddType(t, bytes) PROVE SumInv'
  BY <1>6, SumAside DEF AddType
<1>7. CASE UNCHANGED vars
  BY <1>7, SumAside DEF vars
<1> QED BY <1>1, <1>2, <1>3, <1>4, <1>5, <1>6, <1>7
        DEF Next, DeriveContiguous, DeriveVector, DeriveIndexed, DeriveStruct

LEMMA Totals == SumInv => SumsAreSums
<1> SUFFICES ASSUME SumInv, outcome = "done", lib # "seq", program[pc].was.op = "MPI_SUM",
                    NEW i \in DOMAIN result
             PROVE  LET re == [r \in Ranks |-> contrib[r][i].re]
                    IN  result[i].re = IF \E r \in Ranks : re[r] = NaN THEN NaN
                                       ELSE FoldFunction(+, 0, re)
  BY DEF SumsAreSums
<1> DEFINE re == [r \in Ranks |-> contrib[r][i].re]
<1>1. result[i].re = Total(re, Ranks)
  BY DEF SumInv, Summed, Given
<1>2. FoldFunction(+, 0, re) = Sums(re)[DOMAIN re] /\ DOMAIN re = Ranks
  BY FoldIsSums
<1> HIDE DEF re
<1>3. result[i].re = IF \E r \in Ranks : re[r] = NaN THEN NaN ELSE Sums(re)[DOMAIN re]
  BY <1>1, <1>2 DEF Total
<1>4. result[i].re = IF \E r \in Ranks : re[r] = NaN THEN NaN ELSE FoldFunction(+, 0, re)
  BY <1>2, <1>3, Zenon
<1> QED BY <1>4 DEF re

\* A sum that ends counts the contribution of every process once, in any
\* order of combination, and is NaN when one of them is.
THEOREM AlwaysSums == Spec => []SumsAreSums
<1>1. Init => SumInv
  BY DEF Init, SumInv
<1> QED BY <1>1, SumStep, Totals, IInvAlways, AlwaysFits, PTL DEF Spec
=============================================================================
