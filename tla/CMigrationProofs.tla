------------------------- MODULE CMigrationProofs -------------------------
(* What a C migration leaves in its output directory after any sequence of *)
(* runs, kills and upstream changes, for any set of files: the types, one  *)
(* prefix at most, the pristine public headers, the private names, the     *)
(* linkage guards, the siblings every compiled file sees, and that the     *)
(* leftovers of earlier runs change nothing.                               *)
EXTENDS CMigration, WellFoundedInduction, TLAPS

\* A directory, or what a pass writes into one: typed, one prefix at most.
Good(d) == /\ DOMAIN d \subseteq (0..1) \X Bases
           /\ \A n \in DOMAIN d : d[n] \in Texts

GoodSources(s) == s \in [Upstream -> [here : BOOLEAN, ver : Nat, named : BOOLEAN]]

\* A split set of the directory d: unprefixed headers.
GoodSplit(S, d) == S \subseteq DOMAIN d \cap ({0} \X (Headers \cup {Shim}))

LEMMA LeastExists ==
  ASSUME NEW T \in SUBSET Members, T # {}
  PROVE  \E f \in T : \A g \in T \ {f} : Pos[f] < Pos[g]
<1> DEFINE P == {Pos[f] : f \in T}
           R == {ss \in Nat \X Nat : ss[1] < ss[2]}
<1>1. IsWellFoundedOn(R, Nat)
  BY NatLessThanWellFounded, Zenon DEF OpToRel
<1>2. P \subseteq Nat /\ P # {}
  BY CMigrationAssumption
<1>3. \E x \in P : \A y \in P : ~ (<<y, x>> \in R)
  <2> HIDE DEF P, R
  <2> QED BY <1>1, <1>2, WFMin, Zenon
<1>4. PICK f \in T : \A g \in T : ~ (<<Pos[g], Pos[f]>> \in R)
  BY <1>3
<1>5. \A g \in T : ~(Pos[g] < Pos[f])
  BY <1>4, CMigrationAssumption
<1> QED BY <1>5, CMigrationAssumption

\* Some source of a target comes first: CHOOSE finds it.
LEMMA CanonicalIsASource ==
  ASSUME NEW s, NEW t \in Cloned(s)
  PROVE  Canonical(s, t) \in Sourced(s, t)
<1> DEFINE First(f) == \A g \in Sourced(s, t) \ {f} : Before(f, g)
<1>1. Sourced(s, t) \subseteq Members /\ Sourced(s, t) # {}
  BY DEF Cloned, Sourced
<1>2. \E f \in Sourced(s, t) : First(f)
  <2>1. CASE Sourced(s, t) \cap Doubles = {}
    <3>1. PICK f \in Sourced(s, t) : \A g \in Sourced(s, t) \ {f} : Pos[f] < Pos[g]
      BY <1>1, LeastExists
    <3> QED BY <2>1, <3>1 DEF Before
  <2>2. CASE Sourced(s, t) \cap Doubles # {}
    <3>1. PICK f \in Sourced(s, t) \cap Doubles :
            \A g \in (Sourced(s, t) \cap Doubles) \ {f} : Pos[f] < Pos[g]
      BY <1>1, <2>2, LeastExists
    <3> QED BY <3>1 DEF Before
  <2> QED BY <2>1, <2>2
<1> QED BY <1>2 DEF Canonical
-----------------------------------------------------------------------------
(* What each pass writes is good.                                          *)

LEMMA OverGood ==
  ASSUME NEW w, NEW d, Good(w), Good(d)
  PROVE  Good(Over(w, d)) /\ DOMAIN Over(w, d) = DOMAIN w \cup DOMAIN d
BY DEF Good, Over

LEMMA OnlyGood ==
  ASSUME NEW d, NEW S, Good(d)
  PROVE  Good(Only(d, S)) /\ DOMAIN Only(d, S) = DOMAIN d \cap S
BY DEF Good, Only

LEMMA IncTyped ==
  ASSUME NEW H \in SUBSET (Headers \cup {Shim})
  PROVE  {<<0, h>> : h \in H} \subseteq HeaderNames
BY DEF HeaderNames, Names, Bases

LEMMA TextTyped ==
  ASSUME NEW f \in Texted \cup {Shim}, NEW v \in Nat, NEW b \in BOOLEAN,
         NEW H \in SUBSET (Headers \cup {Shim})
  PROVE  Text(f, v, b, H) \in Texts
<1>1. {<<0, h>> : h \in H} \in SUBSET HeaderNames
  BY IncTyped
<1> QED BY <1>1 DEF Text, Texts

LEMMA StageGood ==
  ASSUME NEW s, GoodSources(s) PROVE Good(StageWrites(s))
<1> DEFINE D == {<<0, f>> : f \in {g \in Headers \cup Plain : s[g].here}}
<1>1. D \subseteq (0..1) \X Bases
  BY DEF Bases
<1>2. ASSUME NEW f \in Headers \cup Plain PROVE Copied(s, f) \in Texts
  <2>1. f \in Upstream /\ f \in Texted
    BY DEF Upstream, Texted
  <2>2. s[f].ver \in Nat /\ s[f].named \in BOOLEAN
    BY <2>1 DEF GoodSources
  <2>3. Incs[f] \in SUBSET (Headers \cup {Shim})
    BY <2>1, CMigrationAssumption
  <2> QED BY <2>1, <2>2, <2>3, TextTyped DEF Copied
<1>3. \A n \in D : n[2] \in Headers \cup Plain
  OBVIOUS
<1> QED BY <1>1, <1>2, <1>3 DEF StageWrites, Good

LEMMA PatchGood == ASSUME NEW d, Good(d) PROVE Good(PatchWrites(d))
BY DEF Good, PatchWrites, Texts

LEMMA TwinGood == ASSUME NEW d, Good(d) PROVE Good(TwinWrites(d))
BY DEF Good, TwinWrites, Texts

LEMMA CloneGood ==
  ASSUME NEW s, GoodSources(s) PROVE Good(CloneWrites(s))
<1> DEFINE D == {<<0, t>> : t \in Cloned(s)}
                \cup (IF Cloned(s) \cap Typesets = {} THEN {} ELSE {<<0, Shim>>})
<1>1. D \subseteq (0..1) \X Bases
  BY DEF Bases, Cloned
<1>2. Text(Shim, 0, FALSE, {}) \in Texts
  BY TextTyped
<1>3. ASSUME NEW t \in Cloned(s) PROVE Clone(s, Canonical(s, t)) \in Texts
  <2> DEFINE f == Canonical(s, t)
  <2>1. f \in Members
    BY CanonicalIsASource DEF Sourced
  <2> HIDE DEF f
  <2>2. f \in Upstream /\ f \in Texted
    BY <2>1 DEF Upstream, Texted
  <2>3. s[f].ver \in Nat
    BY <2>2 DEF GoodSources
  <2>4. Incs[f] \cup (IF TargetOf[f] \in Typesets THEN {Shim} ELSE {})
          \in SUBSET (Headers \cup {Shim})
    BY <2>2, CMigrationAssumption
  <2>5. Clone(s, f) \in Texts
    BY <2>2, <2>3, <2>4, TextTyped DEF Clone
  <2> QED BY <2>5 DEF f
<1>4. \A n \in D : n[2] = Shim \/ n[2] \in Cloned(s)
  OBVIOUS
<1> QED BY <1>1, <1>2, <1>3, <1>4 DEF CloneWrites, Good

LEMMA SplitSetGood ==
  ASSUME NEW d, NEW p, Good(p), DOMAIN p \subseteq DOMAIN d \cap HeaderNames
  PROVE  GoodSplit(SplitSet(d, p), d) /\ SplitSet(d, p) \subseteq DOMAIN p
BY DEF GoodSplit, SplitSet, Splittable, HeaderNames, Names, Bases

\* The siblings of a split set and the set itself never meet.
LEMMA SiblingsApart ==
  ASSUME NEW S, NEW d, GoodSplit(S, d)
  PROVE  /\ \A n \in S : /\ Sibling(n) = <<1, n[2]>>
                         /\ Sibling(n) \in (0..1) \X Bases
                         /\ Sibling(n) \in HeaderNames
                         /\ Sibling(n) \notin S
BY DEF GoodSplit, Sibling, Bases, HeaderNames, Names

LEMMA SplitGood ==
  ASSUME NEW d, NEW p, NEW S, Good(d), Good(p), GoodSplit(S, d), S \subseteq DOMAIN p
  PROVE  Good(SplitWrites(d, p, S))
<1>1. S \cup {Sibling(m) : m \in S} \subseteq (0..1) \X Bases
  BY SiblingsApart DEF Good
<1>2. \A n \in S : p[n] \in Texts
  BY DEF Good
<1>3. ASSUME NEW m \in S
      PROVE  d[<<Sibling(m)[1] - 1, Sibling(m)[2]>>] \in Texts
  <2>1. m = <<0, m[2]>> /\ m \in DOMAIN d /\ Sibling(m) = <<1, m[2]>>
    BY SiblingsApart DEF GoodSplit
  <2>2. <<Sibling(m)[1] - 1, Sibling(m)[2]>> = m
    BY <2>1
  <2> QED BY <2>1, <2>2 DEF Good
<1>4. \A n \in {Sibling(m) : m \in S} : d[<<n[1] - 1, n[2]>>] \in Texts
  BY <1>3
<1> QED BY <1>1, <1>2, <1>4 DEF SplitWrites, Good

LEMMA OverrideGood == Good(OverrideWrites)
<1> DEFINE D == {<<0, t>> : t \in Overridden}
<1>1. D \subseteq (0..1) \X Bases
  BY CMigrationAssumption DEF Bases
<1>2. ASSUME NEW t \in Overridden PROVE Text(t, 0, FALSE, Incs[t]) \in Texts
  BY TextTyped, CMigrationAssumption DEF Texted
<1>3. \A n \in D : n[2] \in Overridden
  OBVIOUS
<1> QED BY <1>1, <1>2, <1>3 DEF OverrideWrites, Good

\* The files a run migrates are in the directory, and no restored original
\* is one of them.
LEMMA MigratedFiles ==
  ASSUME NEW d, NEW S, Good(d), GoodSplit(S, d), \A n \in S : Sibling(n) \in DOMAIN d
  PROVE  Migrated(d, S) \subseteq DOMAIN d
         /\ \A n \in Migrated(d, S) : n[2] \in Headers \cup {Shim} => n[1] = 1
<1>1. Migrated(d, S) \subseteq DOMAIN d
  BY DEF Migrated, Units
<1>2. ASSUME NEW n \in Units(d) PROVE n[2] \notin Headers \cup {Shim}
  <2>1. n \in Names
    BY DEF Units, Good, Names
  <2> QED BY <2>1 DEF Units, HeaderNames
<1>3. \A n \in S : Sibling(n)[1] = 1
  BY SiblingsApart
<1> QED BY <1>1, <1>2, <1>3 DEF Migrated

LEMMA WrapGood ==
  ASSUME NEW d, NEW S, Good(d), GoodSplit(S, d), \A n \in S : Sibling(n) \in DOMAIN d
  PROVE  Good(WrapWrites(d, S))
<1>1. Migrated(d, S) \subseteq DOMAIN d
  BY MigratedFiles
<1> QED BY <1>1 DEF WrapWrites, Good, Texts

LEMMA IncludeGood ==
  ASSUME NEW d, NEW S, Good(d), GoodSplit(S, d), \A n \in S : Sibling(n) \in DOMAIN d
  PROVE  Good(IncludeWrites(d, S))
<1>1. Migrated(d, S) \subseteq DOMAIN d
  BY MigratedFiles
<1>2. ASSUME NEW n \in Migrated(d, S)
      PROVE  {IF m \in S THEN Sibling(m) ELSE m : m \in d[n].inc} \in SUBSET HeaderNames
  BY <1>1, SiblingsApart DEF Good, Texts
<1>3. ASSUME NEW n \in Migrated(d, S)
      PROVE  [d[n] EXCEPT !.inc = {IF m \in S THEN Sibling(m) ELSE m : m \in @}] \in Texts
  BY <1>1, <1>2 DEF Good, Texts
<1> QED BY <1>1, <1>3 DEF IncludeWrites, Good

LEMMA PrivateGood ==
  ASSUME NEW d, NEW S, Good(d) PROVE Good(PrivateWrites(d, S))
BY DEF PrivateWrites, Good, Texts

LEMMA TornGood ==
  ASSUME NEW t \in Texts PROVE Torn(t) \in Texts
BY DEF Torn, Texts
-----------------------------------------------------------------------------
(* Types, and one prefix at most.                                          *)

After == {"override", "wrap", "include", "privatize", "done"}
Passes == {"stage", "patch", "twin", "clone", "split"} \cup After

TypeInv ==
  /\ GoodSources(src)
  /\ Good(disk) /\ Good(pristine)
  /\ DOMAIN pristine \subseteq DOMAIN disk \cap HeaderNames
  /\ GoodSplit(split, disk)
  /\ pc \in Passes \cup {"idle"}
  /\ pc \in After => \A n \in split : Sibling(n) \in DOMAIN disk
  /\ count \in [runs : Nat, kills : Nat, edits : Nat]

LEMMA Steps ==
  ASSUME [Next]_vars
  PROVE  \/ Start \/ Stage \/ PatchHeaders \/ TwinHeaders \/ CloneFiles \/ SplitHeaders
         \/ CopyOverrides \/ WrapFiles \/ RewriteIncludes \/ Privatize
         \/ Kill
         \/ \E f \in Upstream : EditSource(f)
         \/ UNCHANGED vars
BY DEF Next

\* What the pass at hand writes is good: for the pass and for a kill in it.
LEMMA WritesGood ==
  ASSUME TypeInv, ~Resting PROVE Good(Writes)
<1> USE DEF TypeInv
<1>1. CASE pc = "stage" BY <1>1, StageGood DEF Writes
<1>2. CASE pc = "patch" BY <1>2, PatchGood DEF Writes
<1>3. CASE pc = "twin" BY <1>3, TwinGood DEF Writes
<1>4. CASE pc = "clone" BY <1>4, CloneGood DEF Writes
<1>5. CASE pc = "split"
  <2>1. GoodSplit(SplitSet(disk, pristine), disk) /\ SplitSet(disk, pristine) \subseteq DOMAIN pristine
    BY SplitSetGood
  <2>2. Good(SplitWrites(disk, pristine, SplitSet(disk, pristine)))
    BY <2>1, SplitGood
  <2> QED BY <1>5, <2>2 DEF Writes
<1>6. CASE pc = "override" BY <1>6, OverrideGood DEF Writes
<1>7. CASE pc = "wrap" BY <1>7, WrapGood DEF Writes, After
<1>8. CASE pc = "include" BY <1>8, IncludeGood DEF Writes, After
<1>9. CASE pc = "privatize" BY <1>9, PrivateGood DEF Writes
<1> QED BY <1>1, <1>2, <1>3, <1>4, <1>5, <1>6, <1>7, <1>8, <1>9
        DEF Resting, Passes, After

\* A pass adds files to a good directory and removes none.
LEMMA PassGood ==
  ASSUME NEW this, NEW next, NEW w, Pass(this, w, next), Good(w), TypeInv
  PROVE  Good(disk') /\ DOMAIN disk' = DOMAIN w \cup DOMAIN disk
BY OverGood DEF Pass, TypeInv

LEMMA KillGood ==
  ASSUME TypeInv, Kill PROVE Good(disk') /\ DOMAIN disk \subseteq DOMAIN disk'
<1> DEFINE new == {n \in DOMAIN Writes : n \in DOMAIN disk => Writes[n] # disk[n]}
<1>1. PICK part \in SUBSET new, cut \in {{}} \cup {{n} : n \in new} :
        disk' = Over([n \in part \cup cut |->
                        IF n \in cut THEN Torn(Writes[n]) ELSE Writes[n]], disk)
  BY DEF Kill
<1> DEFINE w == [n \in part \cup cut |-> IF n \in cut THEN Torn(Writes[n]) ELSE Writes[n]]
<1>2. Good(Writes)
  BY WritesGood DEF Kill
<1>3. part \cup cut \subseteq DOMAIN Writes
  OBVIOUS
<1>4. Good(w)
  BY <1>2, <1>3, TornGood DEF Good
<1> HIDE DEF w
<1> QED BY <1>1, <1>4, OverGood DEF w, TypeInv

LEMMA TypeStep == TypeInv /\ [Next]_vars => TypeInv'
<1> SUFFICES ASSUME TypeInv, [Next]_vars PROVE TypeInv'
  OBVIOUS
<1> USE DEF TypeInv, Passes, After
<1>1. CASE Start
  BY <1>1 DEF Start
<1>2. CASE Stage
  <2>1. Good(disk') /\ DOMAIN disk \subseteq DOMAIN disk'
    BY <1>2, StageGood, PassGood DEF Stage
  <2>2. Good(pristine') /\ DOMAIN pristine' = DOMAIN disk' \cap HeaderNames
    BY <1>2, <2>1, OnlyGood DEF Stage
  <2> QED BY <1>2, <2>1, <2>2 DEF Stage, Pass, GoodSplit
<1>3. CASE PatchHeaders
  <2>1. Good(disk') /\ DOMAIN disk \subseteq DOMAIN disk'
    BY <1>3, PatchGood, PassGood DEF PatchHeaders
  <2> QED BY <1>3, <2>1 DEF PatchHeaders, Pass, GoodSplit
<1>4. CASE TwinHeaders
  <2>1. Good(disk') /\ DOMAIN disk \subseteq DOMAIN disk'
    BY <1>4, TwinGood, PassGood DEF TwinHeaders
  <2> QED BY <1>4, <2>1 DEF TwinHeaders, Pass, GoodSplit
<1>5. CASE CloneFiles
  <2>1. Good(disk') /\ DOMAIN disk \subseteq DOMAIN disk'
    BY <1>5, CloneGood, PassGood DEF CloneFiles
  <2> QED BY <1>5, <2>1 DEF CloneFiles, Pass, GoodSplit
<1>6. CASE SplitHeaders
  <2> DEFINE S == SplitSet(disk, pristine)
  <2>1. GoodSplit(S, disk) /\ S \subseteq DOMAIN pristine
    BY SplitSetGood
  <2>2. Pass("split", SplitWrites(disk, pristine, S), "override")
        /\ split' = S /\ pristine' = pristine
    BY <1>6 DEF SplitHeaders, Split
  <2> HIDE DEF S
  <2>3. Good(SplitWrites(disk, pristine, S))
    BY <2>1, SplitGood
  <2> DEFINE w == SplitWrites(disk, pristine, S)
  <2>4. DOMAIN w = S \cup {Sibling(m) : m \in S}
    BY DEF SplitWrites
  <2> HIDE DEF w
  <2>5. Good(disk') /\ DOMAIN disk' = DOMAIN w \cup DOMAIN disk
    BY <2>2, <2>3, PassGood, Zenon DEF w
  <2> QED BY <2>1, <2>2, <2>4, <2>5 DEF Pass, GoodSplit
<1>7. CASE CopyOverrides
  <2>1. Good(disk') /\ DOMAIN disk \subseteq DOMAIN disk'
    BY <1>7, OverrideGood, PassGood DEF CopyOverrides
  <2> QED BY <1>7, <2>1 DEF CopyOverrides, Pass, GoodSplit
<1>8. CASE WrapFiles
  <2>1. Good(WrapWrites(disk, split))
    BY <1>8, WrapGood DEF WrapFiles, Pass
  <2>2. Good(disk') /\ DOMAIN disk \subseteq DOMAIN disk'
    BY <1>8, <2>1, PassGood DEF WrapFiles
  <2> QED BY <1>8, <2>2 DEF WrapFiles, Pass, GoodSplit
<1>9. CASE RewriteIncludes
  <2>1. Good(IncludeWrites(disk, split))
    BY <1>9, IncludeGood DEF RewriteIncludes, Pass
  <2>2. Good(disk') /\ DOMAIN disk \subseteq DOMAIN disk'
    BY <1>9, <2>1, PassGood DEF RewriteIncludes
  <2> QED BY <1>9, <2>2 DEF RewriteIncludes, Pass, GoodSplit
<1>10. CASE Privatize
  <2>1. Good(disk') /\ DOMAIN disk \subseteq DOMAIN disk'
    BY <1>10, PrivateGood, PassGood DEF Privatize
  <2> QED BY <1>10, <2>1 DEF Privatize, Pass, GoodSplit
<1>11. CASE Kill
  <2>1. Good(disk') /\ DOMAIN disk \subseteq DOMAIN disk'
    BY <1>11, KillGood
  <2>2. UNCHANGED <<src, pristine, split>> /\ pc' = "idle"
        /\ count' = [count EXCEPT !.kills = @ + 1]
    BY <1>11, Zenon DEF Kill
  <2> QED BY <2>1, <2>2 DEF GoodSplit
<1>12. ASSUME NEW f \in Upstream, EditSource(f) PROVE TypeInv'
  <2>1. GoodSources(src')
    BY <1>12 DEF EditSource, GoodSources
  <2> QED BY <1>12, <2>1 DEF EditSource, GoodSplit
<1>13. CASE UNCHANGED vars
  BY <1>13 DEF vars, GoodSplit
<1> QED BY Steps, <1>1, <1>2, <1>3, <1>4, <1>5, <1>6, <1>7, <1>8, <1>9, <1>10, <1>11,
           <1>12, <1>13

LEMMA InitTyped == Init => TypeInv
BY CMigrationAssumption
   DEF Init, TypeInv, GoodSources, Good, GoodSplit, Nothing, HeaderNames, Passes, After

LEMMA TypeInvTypes == TypeInv => TypeOK /\ NoDoubledPrefix
<1> SUFFICES ASSUME TypeInv PROVE TypeOK /\ NoDoubledPrefix
  OBVIOUS
<1>1. DOMAIN disk \subseteq Names
  BY DEF TypeInv, Good, Names
<1>2. split \subseteq HeaderNames
  BY DEF TypeInv, GoodSplit, HeaderNames, Names, Bases
<1>3. TypeOK
  BY <1>1, <1>2 DEF TypeInv, TypeOK, Good, GoodSources, Passes, After
<1>4. NoDoubledPrefix
  BY DEF TypeInv, NoDoubledPrefix, Good
<1> QED BY <1>3, <1>4

\* Every variable of a C migration keeps its type.
THEOREM TypeCorrect == Spec => []TypeOK
BY InitTyped, TypeStep, TypeInvTypes, PTL DEF Spec

\* However often a directory is restaged, no file name carries two prefixes.
THEOREM NeverDoubled == Spec => []NoDoubledPrefix
BY InitTyped, TypeStep, TypeInvTypes, PTL DEF Spec
-----------------------------------------------------------------------------
(* The public headers: the snapshot holds them as they were copied, the    *)
(* split restores them, and nothing after it touches what it restored.     *)

Upstreamed(d) == \A h \in Headers :
  src[h].here => <<0, h>> \in DOMAIN d /\ d[<<0, h>>] = Copied(src, h)

SnapshotInv == pc \in Passes \ {"stage"} => Upstreamed(pristine)
RestoredInv == pc \in After \ {"done"} => Upstreamed(disk)

HeaderInv == TypeInv /\ SnapshotInv /\ RestoredInv /\ PublicHeadersArePristine

\* Staging puts the upstream text under every public name.
LEMMA StagedUpstream ==
  ASSUME Stage PROVE Upstreamed(pristine)'
<1> DEFINE w == StageWrites(src)
<1>1. ASSUME NEW h \in Headers, src[h].here
      PROVE  /\ <<0, h>> \in DOMAIN pristine'
             /\ pristine'[<<0, h>>] = Copied(src, h)
  <2>1. <<0, h>> \in DOMAIN w /\ w[<<0, h>>] = Copied(src, h)
    BY <1>1 DEF StageWrites
  <2>2. <<0, h>> \in HeaderNames
    BY DEF HeaderNames, Names, Bases
  <2>3. disk' = Over(w, disk) /\ pristine' = Only(disk', HeaderNames)
    BY DEF Stage, Pass
  <2> HIDE DEF w
  <2>4. <<0, h>> \in DOMAIN disk' /\ disk'[<<0, h>>] = Copied(src, h)
    BY <2>1, <2>3 DEF Over
  <2> QED BY <2>2, <2>3, <2>4 DEF Only
<1>2. src' = src
  BY DEF Stage, Pass
<1> QED BY <1>1, <1>2 DEF Upstreamed, Copied

\* A pass that writes no public header leaves them as they were.
LEMMA KeepsUpstream ==
  ASSUME NEW this, NEW next, NEW w, Pass(this, w, next), Upstreamed(disk),
         \A h \in Headers : <<0, h>> \notin DOMAIN w
  PROVE  Upstreamed(disk)'
BY DEF Pass, Over, Upstreamed, Copied

\* The split restores what it split; what it did not split is unchanged.
LEMMA SplitRestores ==
  ASSUME TypeInv, Upstreamed(pristine), SplitHeaders PROVE Upstreamed(disk)'
<1> DEFINE S == SplitSet(disk, pristine)
           w == SplitWrites(disk, pristine, S)
<1>1. disk' = Over(w, disk) /\ src' = src
  BY DEF SplitHeaders, Split, Pass
<1>2. ASSUME NEW h \in Headers, src[h].here
      PROVE  <<0, h>> \in DOMAIN disk' /\ disk'[<<0, h>>] = Copied(src, h)
  <2> DEFINE n == <<0, h>>
  <2>1. n \in DOMAIN pristine /\ pristine[n] = Copied(src, h) /\ n \in Splittable(pristine)
    BY <1>2 DEF Upstreamed, Splittable
  <2>2. n \in DOMAIN disk
    BY <2>1 DEF TypeInv
  <2>3. GoodSplit(S, disk)
    BY SplitSetGood DEF TypeInv
  <2>4. CASE n \in S
    <3>1. n \in DOMAIN w /\ w[n] = pristine[n]
      BY <2>4 DEF SplitWrites
    <3> HIDE DEF w, S
    <3> QED BY <1>1, <2>1, <3>1 DEF Over
  <2>5. CASE n \notin S
    <3>1. n \notin Changed(disk, pristine)
      BY <2>5 DEF SplitSet, Changed
    <3>2. disk[n] = pristine[n]
      BY <2>1, <3>1 DEF Changed
    <3>3. n \notin DOMAIN w
      BY <2>3, <2>5, SiblingsApart DEF SplitWrites
    <3> HIDE DEF w, S
    <3> QED BY <1>1, <2>1, <2>2, <3>2, <3>3 DEF Over
  <2> QED BY <2>4, <2>5
<1> QED BY <1>1, <1>2 DEF Upstreamed, Copied

\* The renaming pass leaves the split originals alone.
LEMMA PrivatizeKeeps ==
  ASSUME Upstreamed(disk), Privatize PROVE PublicHeadersArePristine'
<1> DEFINE w == PrivateWrites(disk, split)
<1>1. disk' = Over(w, disk) /\ src' = src /\ split' = split
  BY DEF Privatize, Pass
<1>2. ASSUME NEW h \in Headers, src[h].here
      PROVE  \/ disk'[<<0, h>>] = Copied(src, h)
             \/ <<0, h>> \notin split /\ h \in Manifest
  <2>1. <<0, h>> \in DOMAIN disk /\ disk[<<0, h>>] = Copied(src, h)
    BY <1>2 DEF Upstreamed
  <2>2. CASE <<0, h>> \in DOMAIN w
    <3>1. <<0, h>> \notin split /\ disk[<<0, h>>].of \in Manifest
      BY <2>2 DEF PrivateWrites
    <3>2. Copied(src, h).of = h
      BY DEF Copied, Text
    <3> QED BY <2>1, <3>1, <3>2
  <2>3. CASE <<0, h>> \notin DOMAIN w
    <3> HIDE DEF w
    <3> QED BY <1>1, <2>1, <2>3 DEF Over
  <2> QED BY <2>2, <2>3
<1> QED BY <1>1, <1>2 DEF PublicHeadersArePristine, Copied

LEMMA HeaderStep == HeaderInv /\ [Next]_vars => HeaderInv'
<1> SUFFICES ASSUME HeaderInv, [Next]_vars PROVE (SnapshotInv /\ RestoredInv /\ PublicHeadersArePristine)'
  BY TypeStep DEF HeaderInv
<1> USE DEF HeaderInv, SnapshotInv, RestoredInv, Passes, After
<1>1. CASE Start
  BY <1>1 DEF Start, PublicHeadersArePristine
<1>2. CASE Stage
  BY <1>2, StagedUpstream DEF Stage, Pass, PublicHeadersArePristine
<1>3. CASE PatchHeaders
  BY <1>3 DEF PatchHeaders, Pass, PublicHeadersArePristine, Upstreamed, Copied
<1>4. CASE TwinHeaders
  BY <1>4 DEF TwinHeaders, Pass, PublicHeadersArePristine, Upstreamed, Copied
<1>5. CASE CloneFiles
  BY <1>5 DEF CloneFiles, Pass, PublicHeadersArePristine, Upstreamed, Copied
<1>6. CASE SplitHeaders
  <2>1. pc = "split" /\ pc' = "override" /\ UNCHANGED <<src, pristine>>
    BY <1>6 DEF SplitHeaders, Split, Pass
  <2>2. Upstreamed(disk)'
    BY <1>6, <2>1, SplitRestores
  <2>3. Upstreamed(pristine)'
    BY <2>1 DEF Upstreamed, Copied
  <2> QED BY <2>1, <2>2, <2>3 DEF PublicHeadersArePristine
<1>7. CASE CopyOverrides
  <2>1. Pass("override", OverrideWrites, "wrap") /\ pristine' = pristine
    BY <1>7 DEF CopyOverrides
  <2>2. \A h \in Headers : <<0, h>> \notin DOMAIN OverrideWrites
    BY CMigrationAssumption DEF OverrideWrites
  <2> QED BY <2>1, <2>2, KeepsUpstream DEF Pass, PublicHeadersArePristine, Upstreamed, Copied
<1>8. CASE WrapFiles
  <2>1. Pass("wrap", WrapWrites(disk, split), "include") /\ pristine' = pristine
    BY <1>8 DEF WrapFiles
  <2>2. \A h \in Headers : <<0, h>> \notin DOMAIN WrapWrites(disk, split)
    BY <2>1, MigratedFiles DEF WrapWrites, TypeInv, Pass
  <2> QED BY <2>1, <2>2, KeepsUpstream DEF Pass, PublicHeadersArePristine, Upstreamed, Copied
<1>9. CASE RewriteIncludes
  <2>1. Pass("include", IncludeWrites(disk, split), "privatize") /\ pristine' = pristine
    BY <1>9 DEF RewriteIncludes
  <2>2. \A h \in Headers : <<0, h>> \notin DOMAIN IncludeWrites(disk, split)
    BY <2>1, MigratedFiles DEF IncludeWrites, TypeInv, Pass
  <2> QED BY <2>1, <2>2, KeepsUpstream DEF Pass, PublicHeadersArePristine, Upstreamed, Copied
<1>10. CASE Privatize
  <2>1. pc = "privatize" /\ pc' = "done" /\ UNCHANGED <<src, pristine>>
    BY <1>10 DEF Privatize, Pass
  <2> QED BY <1>10, <2>1, PrivatizeKeeps DEF Upstreamed, Copied
<1>11. CASE Kill
  <2>1. pc' = "idle"
    BY <1>11, Zenon DEF Kill
  <2> QED BY <2>1 DEF PublicHeadersArePristine
<1>12. ASSUME NEW f \in Upstream, EditSource(f)
       PROVE  (SnapshotInv /\ RestoredInv /\ PublicHeadersArePristine)'
  BY <1>12 DEF EditSource, PublicHeadersArePristine
<1>13. CASE UNCHANGED vars
  BY <1>13 DEF vars, PublicHeadersArePristine, Upstreamed, Copied
<1> QED BY Steps, <1>1, <1>2, <1>3, <1>4, <1>5, <1>6, <1>7, <1>8, <1>9, <1>10, <1>11,
           <1>12, <1>13

LEMMA HeaderInit == Init => HeaderInv
BY InitTyped DEF Init, HeaderInv, SnapshotInv, RestoredInv, PublicHeadersArePristine,
                 Passes, After

\* A completed run leaves every public header as upstream has it, but for the
\* renaming of one that no transform touched.
THEOREM AlwaysPristine == Spec => []PublicHeadersArePristine
<1>1. HeaderInv => PublicHeadersArePristine
  BY DEF HeaderInv
<1> QED BY <1>1, HeaderInit, HeaderStep, PTL DEF Spec
-----------------------------------------------------------------------------
(* The private names: the last pass reaches every file but the originals.  *)

LEMMA PrivatizeReaches ==
  ASSUME TypeInv, Privatize PROVE NoPristineNameLinks'
<1> DEFINE w == PrivateWrites(disk, split)
<1>1. disk' = Over(w, disk) /\ split' = split
  BY DEF Privatize, Pass
<1>2. ASSUME NEW n \in DOMAIN disk', n \notin split, disk'[n].of \in Manifest
      PROVE  disk'[n].priv
  <2>1. n \in DOMAIN disk
    BY <1>1 DEF Over, PrivateWrites
  <2>2. CASE n \in DOMAIN w
    <3>1. w[n] = [disk[n] EXCEPT !.priv = TRUE] /\ disk[n] \in Texts
      BY <2>1, <2>2 DEF PrivateWrites, TypeInv, Good
    <3>2. w[n].priv
      BY <3>1 DEF Texts
    <3> HIDE DEF w
    <3> QED BY <1>1, <2>2, <3>2 DEF Over
  <2>3. CASE n \notin DOMAIN w
    <3>1. disk'[n] = disk[n]
      <4> HIDE DEF w
      <4> QED BY <1>1, <2>1, <2>3 DEF Over
    <3> QED BY <1>2, <2>1, <2>3, <3>1 DEF PrivateWrites
  <2> QED BY <2>2, <2>3
<1> QED BY <1>1, <1>2 DEF NoPristineNameLinks

LEMMA PrivateStep ==
  TypeInv /\ NoPristineNameLinks /\ [Next]_vars => NoPristineNameLinks'
<1> SUFFICES ASSUME TypeInv, NoPristineNameLinks, [Next]_vars, pc' = "done"
             PROVE  NoPristineNameLinks'
  BY DEF NoPristineNameLinks
<1>1. CASE Privatize
  BY <1>1, PrivatizeReaches
<1>2. CASE UNCHANGED vars
  BY <1>2 DEF vars, NoPristineNameLinks
<1>3. CASE Kill
  BY <1>3, Zenon DEF Kill
<1>4. CASE Start \/ Stage \/ PatchHeaders \/ TwinHeaders \/ CloneFiles \/ SplitHeaders
           \/ CopyOverrides \/ WrapFiles \/ RewriteIncludes
  BY <1>4 DEF Start, Stage, PatchHeaders, TwinHeaders, CloneFiles, SplitHeaders, Split,
              CopyOverrides, WrapFiles, RewriteIncludes, Pass
<1>5. ASSUME NEW f \in Upstream, EditSource(f) PROVE FALSE
  BY <1>5 DEF EditSource
<1> QED BY Steps, <1>1, <1>2, <1>3, <1>4, <1>5

\* After a completed run nothing but the restored originals has a manifest
\* name, whatever earlier runs left in the directory.
THEOREM NeverLinksPristine == Spec => []NoPristineNameLinks
<1>1. Init => NoPristineNameLinks
  BY DEF Init, NoPristineNameLinks
<1> QED BY <1>1, InitTyped, TypeStep, PrivateStep, PTL DEF Spec
-----------------------------------------------------------------------------
(* The linkage guards: after the wrap every migrated file that is whole    *)
(* has one, and no later pass adds such a file or takes a guard away.      *)

Guarded(d, S) == \A n \in Migrated(d, S) : d[n].whole => "guard" \in d[n].marks

GuardInv == pc \in {"include", "privatize", "done"} /\ Wraps => Guarded(disk, split)

\* A pass that writes migrated files only where they are, and keeps whether
\* they are whole and what marks they have, keeps the guards.
LEMMA GuardsKept ==
  ASSUME NEW d, NEW S, NEW w, DOMAIN w \subseteq DOMAIN d, Guarded(d, S),
         Migrated(d, S) \subseteq DOMAIN d,
         \A n \in DOMAIN w : w[n].whole = d[n].whole /\ d[n].marks \subseteq w[n].marks
  PROVE  Guarded(Over(w, d), S)
<1>1. DOMAIN Over(w, d) = DOMAIN d
  BY DEF Over
<1>2. Migrated(Over(w, d), S) = Migrated(d, S)
  BY <1>1 DEF Migrated, Units
<1>3. ASSUME NEW n \in Migrated(d, S), Over(w, d)[n].whole
      PROVE  "guard" \in Over(w, d)[n].marks
  <2>1. CASE n \in DOMAIN w
    BY <1>3, <2>1 DEF Over, Guarded
  <2>2. CASE n \notin DOMAIN w
    BY <1>3, <2>2 DEF Over, Guarded
  <2> QED BY <2>1, <2>2
<1> QED BY <1>2, <1>3 DEF Guarded

LEMMA WrapGuards ==
  ASSUME TypeInv, WrapFiles, Wraps PROVE Guarded(disk, split)'
<1> DEFINE w == WrapWrites(disk, split)
<1>1. disk' = Over(w, disk) /\ split' = split /\ pc = "wrap"
  BY DEF WrapFiles, Pass
<1>2. Migrated(disk, split) \subseteq DOMAIN disk
  BY <1>1, MigratedFiles DEF TypeInv, After
<1>3. DOMAIN w \subseteq DOMAIN disk
  BY <1>2 DEF WrapWrites
<1>4. Migrated(disk', split) = Migrated(disk, split)
  BY <1>1, <1>3 DEF Migrated, Units, Over
<1>5. ASSUME NEW n \in Migrated(disk, split), disk'[n].whole
      PROVE  "guard" \in disk'[n].marks
  <2>1. CASE n \in DOMAIN w
    <3>1. disk[n] \in Texts /\ w[n] = [disk[n] EXCEPT !.marks = @ \cup {"guard"}]
      BY <1>2, <2>1 DEF WrapWrites, TypeInv, Good
    <3>2. "guard" \in w[n].marks
      BY <3>1 DEF Texts
    <3> HIDE DEF w
    <3> QED BY <1>1, <2>1, <3>2 DEF Over
  <2>2. CASE n \notin DOMAIN w
    <3>1. disk'[n] = disk[n]
      <4> HIDE DEF w
      <4> QED BY <1>1, <1>2, <2>2 DEF Over
    <3> QED BY <1>5, <2>2, <3>1 DEF WrapWrites
  <2> QED BY <2>1, <2>2
<1> QED BY <1>1, <1>4, <1>5 DEF Guarded

LEMMA GuardStep == TypeInv /\ GuardInv /\ [Next]_vars => GuardInv'
<1> SUFFICES ASSUME TypeInv, GuardInv, [Next]_vars,
                    pc' \in {"include", "privatize", "done"}, Wraps
             PROVE  Guarded(disk, split)'
  BY DEF GuardInv
<1> USE DEF GuardInv
<1>1. CASE WrapFiles
  BY <1>1, WrapGuards
<1>2. CASE RewriteIncludes
  <2> DEFINE w == IncludeWrites(disk, split)
  <2>1. disk' = Over(w, disk) /\ split' = split /\ pc = "include"
    BY <1>2 DEF RewriteIncludes, Pass
  <2>2. Migrated(disk, split) \subseteq DOMAIN disk
    BY <2>1, MigratedFiles DEF TypeInv, After
  <2>3. \A n \in DOMAIN w : w[n].whole = disk[n].whole /\ disk[n].marks \subseteq w[n].marks
    BY <2>2 DEF IncludeWrites, TypeInv, Good, Texts
  <2>4. DOMAIN w \subseteq DOMAIN disk
    BY <2>2 DEF IncludeWrites
  <2> HIDE DEF w
  <2> QED BY <2>1, <2>2, <2>3, <2>4, GuardsKept
<1>3. CASE Privatize
  <2> DEFINE w == PrivateWrites(disk, split)
  <2>1. disk' = Over(w, disk) /\ split' = split /\ pc = "privatize"
    BY <1>3 DEF Privatize, Pass
  <2>2. Migrated(disk, split) \subseteq DOMAIN disk
    BY <2>1, MigratedFiles DEF TypeInv, After
  <2>3. \A n \in DOMAIN w : w[n].whole = disk[n].whole /\ disk[n].marks \subseteq w[n].marks
    BY DEF PrivateWrites, TypeInv, Good, Texts
  <2>4. DOMAIN w \subseteq DOMAIN disk
    BY DEF PrivateWrites
  <2> HIDE DEF w
  <2> QED BY <2>1, <2>2, <2>3, <2>4, GuardsKept
<1>4. CASE Start \/ Stage \/ PatchHeaders \/ TwinHeaders \/ CloneFiles \/ SplitHeaders
           \/ CopyOverrides
  BY <1>4 DEF Start, Stage, PatchHeaders, TwinHeaders, CloneFiles, SplitHeaders, Split,
              CopyOverrides, Pass
<1>5. CASE Kill
  BY <1>5, Zenon DEF Kill
<1>6. ASSUME NEW f \in Upstream, EditSource(f) PROVE FALSE
  BY <1>6 DEF EditSource
<1>7. CASE UNCHANGED vars
  BY <1>7 DEF vars, Guarded, Migrated, Units
<1> QED BY Steps, <1>1, <1>2, <1>3, <1>4, <1>5, <1>6, <1>7

\* Every file of a completed run that is compiled as C++ has C linkage: the
\* clones, the hand-written files, the siblings, leftovers of earlier runs.
THEOREM AlwaysGuarded == Spec => []UnitsAreGuarded
<1>1. Init => GuardInv
  BY DEF Init, GuardInv
<1>2. GuardInv => UnitsAreGuarded
  BY DEF GuardInv, UnitsAreGuarded, Guarded, Migrated, Current
<1> QED BY <1>1, <1>2, InitTyped, TypeStep, GuardStep, PTL DEF Spec
-----------------------------------------------------------------------------
(* What holds of every header under its public name, at any time: its      *)
(* includes carry no prefix, and the shim is whole or cut short but never  *)
(* changed.                                                                *)

Unprefixed(t) == \A m \in t.inc : m[1] = 0

TheShim == <<0, Shim>>
ShimText == Text(Shim, 0, FALSE, {})
ShimOrTorn == {ShimText, Torn(ShimText)}

Plainly(d) ==
  /\ \A n \in DOMAIN d \cap HeaderNames : n[1] = 0 => Unprefixed(d[n])
  /\ TheShim \in DOMAIN d => d[TheShim] \in ShimOrTorn

PlainInv == TypeInv /\ Plainly(disk) /\ Plainly(pristine)

LEMMA TornPlain ==
  ASSUME NEW t PROVE Unprefixed(Torn(t)) /\ (t \in ShimOrTorn => Torn(t) \in ShimOrTorn)
<1>1. Torn(Torn(ShimText)) = Torn(ShimText)
  BY DEF Torn, ShimText, Text
<1>2. t \in ShimOrTorn => Torn(t) \in ShimOrTorn
  BY <1>1 DEF ShimOrTorn
<1> QED BY <1>2 DEF Torn, Unprefixed

LEMMA ShimTexts == \A t \in ShimOrTorn : t \in Texts /\ t.inc = {} /\ ~t.named /\ t.of = Shim
<1>1. ShimText \in Texts
  BY TextTyped DEF ShimText
<1>2. Torn(ShimText) \in Texts
  BY <1>1, TornGood
<1>3. ShimText.inc = {} /\ ~ShimText.named /\ ShimText.of = Shim
  BY DEF ShimText, Text
<1>4. Torn(ShimText).inc = {} /\ ~Torn(ShimText).named /\ Torn(ShimText).of = Shim
  <2>1. ShimText.of = Shim
    BY <1>3
  <2> QED BY <1>1, <2>1 DEF Torn, Texts
<1> QED BY <1>1, <1>2, <1>3, <1>4 DEF ShimOrTorn

LEMMA OverPlain ==
  ASSUME NEW w, NEW d, Plainly(w), Plainly(d)
  PROVE  Plainly(Over(w, d))
BY DEF Plainly, Over

LEMMA StagePlain == ASSUME NEW s PROVE Plainly(StageWrites(s))
<1> DEFINE w == StageWrites(s)
<1>1. ASSUME NEW n \in DOMAIN w PROVE Unprefixed(w[n]) /\ n # TheShim
  <2>1. w[n] = Copied(s, n[2]) /\ n[2] \in Headers \cup Plain
    BY DEF StageWrites
  <2>2. n[2] # Shim
    BY <2>1, CMigrationAssumption
  <2>3. \A m \in Copied(s, n[2]).inc : m[1] = 0
    BY DEF Copied, Text
  <2> QED BY <2>1, <2>2, <2>3 DEF Unprefixed, TheShim
<1> HIDE DEF w
<1> QED BY <1>1 DEF Plainly, w

LEMMA PatchPlain == ASSUME NEW d, Good(d), Plainly(d) PROVE Plainly(PatchWrites(d))
<1> DEFINE w == PatchWrites(d)
<1>1. ASSUME NEW n \in DOMAIN w PROVE n \in DOMAIN d /\ w[n].inc = d[n].inc /\ n # TheShim
  <2>1. n \in DOMAIN d /\ n[2] \in Patched /\ w[n] = [d[n] EXCEPT !.marks = @ \cup {"patch"}]
    BY DEF PatchWrites
  <2>2. d[n] \in Texts
    BY <2>1 DEF Good
  <2>3. n # TheShim
    BY <2>1, CMigrationAssumption DEF TheShim
  <2> QED BY <2>1, <2>2, <2>3 DEF Texts
<1> HIDE DEF w
<1> QED BY <1>1 DEF Plainly, Unprefixed, w

LEMMA TwinPlain == ASSUME NEW d, Good(d), Plainly(d) PROVE Plainly(TwinWrites(d))
<1> DEFINE w == TwinWrites(d)
<1>1. ASSUME NEW n \in DOMAIN w PROVE n \in DOMAIN d /\ w[n].inc = d[n].inc /\ n # TheShim
  <2>1. n \in DOMAIN d /\ d[n].named
        /\ w[n] = [d[n] EXCEPT !.twins = IF @ = 2 THEN 2 ELSE @ + 1]
    BY DEF TwinWrites
  <2>2. d[n] \in Texts
    BY <2>1 DEF Good
  <2>3. n # TheShim
    BY <2>1, ShimTexts DEF Plainly
  <2> QED BY <2>1, <2>2, <2>3 DEF Texts
<1> HIDE DEF w
<1> QED BY <1>1 DEF Plainly, Unprefixed, w

LEMMA ClonePlain == ASSUME NEW s PROVE Plainly(CloneWrites(s))
<1> DEFINE w == CloneWrites(s)
<1>1. ASSUME NEW n \in DOMAIN w
      PROVE  (n = TheShim /\ w[n] = ShimText) \/ (n \notin HeaderNames /\ n # TheShim)
  <2>1. n = TheShim \/ \E t \in Cloned(s) : n = <<0, t>>
    BY DEF CloneWrites, TheShim
  <2>2. CASE n = TheShim
    BY <2>2 DEF CloneWrites, TheShim, ShimText
  <2>3. CASE \E t \in Cloned(s) : n = <<0, t>>
    BY <2>3, CMigrationAssumption DEF Cloned, HeaderNames, TheShim
  <2> QED BY <2>1, <2>2, <2>3
<1>2. Unprefixed(ShimText) /\ ShimText \in ShimOrTorn
  BY DEF ShimText, Text, Unprefixed, ShimOrTorn
<1> HIDE DEF w
<1> QED BY <1>1, <1>2 DEF Plainly, w

LEMMA SplitPlain ==
  ASSUME NEW d, NEW p, NEW S, Plainly(p), GoodSplit(S, d), S \subseteq DOMAIN p
  PROVE  Plainly(SplitWrites(d, p, S))
<1> DEFINE w == SplitWrites(d, p, S)
<1>1. ASSUME NEW n \in DOMAIN w, n[1] = 0 PROVE n \in S /\ w[n] = p[n]
  BY <1>1, SiblingsApart DEF SplitWrites
<1>2. TheShim[1] = 0
  BY DEF TheShim
<1> HIDE DEF w
<1> QED BY <1>1, <1>2 DEF Plainly, w

\* The other passes write no header under its public name.
LEMMA NoHeadersPlain ==
  ASSUME NEW w, \A n \in DOMAIN w : n \in HeaderNames => n[1] = 1
  PROVE  Plainly(w)
<1>1. TheShim \in HeaderNames /\ TheShim[1] = 0
  BY DEF TheShim, HeaderNames, Names, Bases
<1> QED BY <1>1 DEF Plainly

LEMMA OverridePlain == Plainly(OverrideWrites)
<1>1. \A n \in DOMAIN OverrideWrites : n \notin HeaderNames
  BY CMigrationAssumption DEF OverrideWrites, HeaderNames
<1> QED BY <1>1, NoHeadersPlain

LEMMA MigratedPlain ==
  ASSUME NEW d, NEW S, Good(d), GoodSplit(S, d), \A n \in S : Sibling(n) \in DOMAIN d
  PROVE  Plainly(WrapWrites(d, S)) /\ Plainly(IncludeWrites(d, S))
<1>1. \A n \in Migrated(d, S) : n \in HeaderNames => n[1] = 1
  BY MigratedFiles DEF HeaderNames
<1>2. DOMAIN WrapWrites(d, S) \subseteq Migrated(d, S)
      /\ DOMAIN IncludeWrites(d, S) = Migrated(d, S)
  BY DEF WrapWrites, IncludeWrites
<1> QED BY <1>1, <1>2, NoHeadersPlain

LEMMA PrivatePlain == ASSUME NEW d, NEW S, Good(d), Plainly(d) PROVE Plainly(PrivateWrites(d, S))
<1> DEFINE w == PrivateWrites(d, S)
<1>1. ASSUME NEW n \in DOMAIN w PROVE n \in DOMAIN d /\ w[n].inc = d[n].inc /\ n # TheShim
  <2>1. n \in DOMAIN d /\ d[n].of \in Manifest /\ w[n] = [d[n] EXCEPT !.priv = TRUE]
    BY DEF PrivateWrites
  <2>2. d[n] \in Texts
    BY <2>1 DEF Good
  <2>3. Shim \notin Manifest
    BY CMigrationAssumption DEF Texted, Upstream
  <2>4. n # TheShim
    BY <2>1, <2>3, ShimTexts DEF Plainly
  <2> QED BY <2>1, <2>2, <2>4 DEF Texts
<1> HIDE DEF w
<1> QED BY <1>1 DEF Plainly, Unprefixed, w

LEMMA WritesPlain ==
  ASSUME PlainInv, ~Resting PROVE Plainly(Writes)
<1> USE DEF PlainInv, TypeInv
<1>1. CASE pc = "stage" BY <1>1, StagePlain DEF Writes
<1>2. CASE pc = "patch" BY <1>2, PatchPlain DEF Writes
<1>3. CASE pc = "twin" BY <1>3, TwinPlain DEF Writes
<1>4. CASE pc = "clone" BY <1>4, ClonePlain DEF Writes
<1>5. CASE pc = "split"
  <2>1. GoodSplit(SplitSet(disk, pristine), disk) /\ SplitSet(disk, pristine) \subseteq DOMAIN pristine
    BY SplitSetGood
  <2>2. Plainly(SplitWrites(disk, pristine, SplitSet(disk, pristine)))
    BY <2>1, SplitPlain
  <2> QED BY <1>5, <2>2 DEF Writes
<1>6. CASE pc = "override" BY <1>6, OverridePlain DEF Writes
<1>7. CASE pc = "wrap" BY <1>7, MigratedPlain DEF Writes, After
<1>8. CASE pc = "include" BY <1>8, MigratedPlain DEF Writes, After
<1>9. CASE pc = "privatize" BY <1>9, PrivatePlain DEF Writes
<1> QED BY <1>1, <1>2, <1>3, <1>4, <1>5, <1>6, <1>7, <1>8, <1>9
        DEF Resting, Passes, After

LEMMA KillPlain == ASSUME PlainInv, Kill PROVE Plainly(disk')
<1> DEFINE new == {n \in DOMAIN Writes : n \in DOMAIN disk => Writes[n] # disk[n]}
<1>1. PICK part \in SUBSET new, cut \in {{}} \cup {{n} : n \in new} :
        disk' = Over([n \in part \cup cut |->
                        IF n \in cut THEN Torn(Writes[n]) ELSE Writes[n]], disk)
  BY DEF Kill
<1> DEFINE w == [n \in part \cup cut |-> IF n \in cut THEN Torn(Writes[n]) ELSE Writes[n]]
<1>2. Plainly(Writes)
  BY WritesPlain DEF Kill
<1>3. part \cup cut \subseteq DOMAIN Writes
  OBVIOUS
<1>4. Plainly(w)
  BY <1>2, <1>3, TornPlain DEF Plainly
<1> HIDE DEF w
<1> QED BY <1>1, <1>4, OverPlain DEF w, PlainInv

\* A pass writes what Writes says it does.
LEMMA PassWrites ==
  ASSUME [Next]_vars
  PROVE  \/ ~Resting /\ disk' = Over(Writes, disk) /\ pristine' \in {pristine, Only(disk', HeaderNames)}
         \/ Kill
         \/ UNCHANGED <<disk, pristine>>
<1> USE DEF Resting, Writes, Pass
<1>1. CASE Stage BY <1>1 DEF Stage
<1>2. CASE PatchHeaders BY <1>2 DEF PatchHeaders
<1>3. CASE TwinHeaders BY <1>3 DEF TwinHeaders
<1>4. CASE CloneFiles BY <1>4 DEF CloneFiles
<1>5. CASE SplitHeaders BY <1>5 DEF SplitHeaders, Split
<1>6. CASE CopyOverrides BY <1>6 DEF CopyOverrides
<1>7. CASE WrapFiles BY <1>7 DEF WrapFiles
<1>8. CASE RewriteIncludes BY <1>8 DEF RewriteIncludes
<1>9. CASE Privatize BY <1>9 DEF Privatize
<1>10. CASE Start BY <1>10 DEF Start
<1>11. ASSUME NEW f \in Upstream, EditSource(f) PROVE UNCHANGED <<disk, pristine>>
  BY <1>11 DEF EditSource
<1>12. CASE UNCHANGED vars BY <1>12 DEF vars
<1> QED BY Steps, <1>1, <1>2, <1>3, <1>4, <1>5, <1>6, <1>7, <1>8, <1>9, <1>10, <1>11, <1>12

LEMMA PlainStep == PlainInv /\ [Next]_vars => PlainInv'
<1> SUFFICES ASSUME PlainInv, [Next]_vars PROVE (Plainly(disk) /\ Plainly(pristine))'
  BY TypeStep DEF PlainInv
<1>1. CASE ~Resting /\ disk' = Over(Writes, disk) /\ pristine' \in {pristine, Only(disk', HeaderNames)}
  <2>1. Plainly(disk')
    BY <1>1, WritesPlain, OverPlain DEF PlainInv
  <2>2. Plainly(Only(disk', HeaderNames))
    BY <2>1 DEF Only, Plainly
  <2> QED BY <1>1, <2>1, <2>2 DEF PlainInv
<1>2. CASE Kill
  <2>1. pristine' = pristine
    BY <1>2, Zenon DEF Kill
  <2> QED BY <1>2, <2>1, KillPlain DEF PlainInv
<1>3. CASE UNCHANGED <<disk, pristine>>
  BY <1>3 DEF PlainInv
<1> QED BY <1>1, <1>2, <1>3, PassWrites

LEMMA PlainInit == Init => PlainInv
BY InitTyped DEF Init, PlainInv, Plainly, Nothing
-----------------------------------------------------------------------------
(* The directory of a run into an empty one, after each of its passes.     *)

Staged(s)     == StageWrites(s)
Heads(s)      == Only(Staged(s), HeaderNames)
Amended(s)    == Over(PatchWrites(Staged(s)), Staged(s))
Twinned(s)    == Over(TwinWrites(Amended(s)), Amended(s))
WithClones(s) == Over(CloneWrites(s), Twinned(s))
SplitOf(s)    == SplitSet(WithClones(s), Heads(s))
Parted(s)     == Over(SplitWrites(WithClones(s), Heads(s), SplitOf(s)), WithClones(s))
Replaced(s)   == Over(OverrideWrites, Parted(s))
Wrapped(s)    == Over(WrapWrites(Replaced(s), SplitOf(s)), Replaced(s))
Bound(s)      == Over(IncludeWrites(Wrapped(s), SplitOf(s)), Wrapped(s))

LEMMA FreshPhases ==
  ASSUME NEW s
  PROVE  Fresh(s) = Over(PrivateWrites(Bound(s), SplitOf(s)), Bound(s))
BY DEF Fresh, Bound, Wrapped, Replaced, Parted, SplitOf, WithClones, Twinned, Amended,
       Heads, Staged

\* Writing files that are there adds none.
LEMMA OverSame ==
  ASSUME NEW w, NEW d, DOMAIN w \subseteq DOMAIN d
  PROVE  DOMAIN Over(w, d) = DOMAIN d
BY DEF Over

LEMMA FreshEarly ==
  ASSUME NEW s, GoodSources(s)
  PROVE  /\ Good(Staged(s)) /\ Good(Heads(s)) /\ Good(Amended(s)) /\ Good(Twinned(s))
         /\ Good(WithClones(s))
         /\ DOMAIN Heads(s) = DOMAIN Staged(s) \cap HeaderNames
         /\ DOMAIN Amended(s) = DOMAIN Staged(s)
         /\ DOMAIN Twinned(s) = DOMAIN Staged(s)
         /\ DOMAIN WithClones(s) = DOMAIN CloneWrites(s) \cup DOMAIN Staged(s)
<1>1. Good(Staged(s))
  BY StageGood DEF Staged
<1>2. Good(Heads(s)) /\ DOMAIN Heads(s) = DOMAIN Staged(s) \cap HeaderNames
  BY <1>1, OnlyGood DEF Heads
<1>3. Good(Amended(s)) /\ DOMAIN Amended(s) = DOMAIN Staged(s)
  <2>1. DOMAIN PatchWrites(Staged(s)) \subseteq DOMAIN Staged(s)
    BY DEF PatchWrites
  <2> QED BY <1>1, <2>1, PatchGood, OverGood DEF Amended
<1>4. Good(Twinned(s)) /\ DOMAIN Twinned(s) = DOMAIN Staged(s)
  <2>1. DOMAIN TwinWrites(Amended(s)) \subseteq DOMAIN Amended(s)
    BY DEF TwinWrites
  <2> QED BY <1>3, <2>1, TwinGood, OverGood DEF Twinned
<1>5. Good(WithClones(s)) /\ DOMAIN WithClones(s) = DOMAIN CloneWrites(s) \cup DOMAIN Staged(s)
  BY <1>4, CloneGood, OverGood DEF WithClones
<1> QED BY <1>1, <1>2, <1>3, <1>4, <1>5

LEMMA FreshLate ==
  ASSUME NEW s, GoodSources(s)
  PROVE  /\ GoodSplit(SplitOf(s), WithClones(s)) /\ SplitOf(s) \subseteq DOMAIN Heads(s)
         /\ Good(Parted(s)) /\ Good(Replaced(s)) /\ Good(Wrapped(s)) /\ Good(Bound(s))
         /\ DOMAIN Parted(s) = DOMAIN WithClones(s) \cup {Sibling(n) : n \in SplitOf(s)}
         /\ DOMAIN Replaced(s) = DOMAIN OverrideWrites \cup DOMAIN Parted(s)
         /\ DOMAIN Wrapped(s) = DOMAIN Replaced(s)
         /\ DOMAIN Bound(s) = DOMAIN Replaced(s)
         /\ DOMAIN Fresh(s) = DOMAIN Replaced(s)
<1> DEFINE S == SplitOf(s)
<1>1. GoodSplit(S, WithClones(s)) /\ S \subseteq DOMAIN Heads(s) /\ S \subseteq DOMAIN WithClones(s)
  BY FreshEarly, SplitSetGood DEF SplitOf, GoodSplit
<1>2. Good(Parted(s)) /\ DOMAIN Parted(s) = DOMAIN WithClones(s) \cup {Sibling(n) : n \in S}
  <2>1. Good(SplitWrites(WithClones(s), Heads(s), S))
    BY <1>1, FreshEarly, SplitGood
  <2>2. DOMAIN SplitWrites(WithClones(s), Heads(s), S) = S \cup {Sibling(n) : n \in S}
    BY DEF SplitWrites
  <2>3. Good(WithClones(s))
    BY FreshEarly
  <2> DEFINE w == SplitWrites(WithClones(s), Heads(s), S)
  <2>4. Parted(s) = Over(w, WithClones(s))
    BY DEF Parted
  <2> HIDE DEF w, S
  <2>5. Good(Over(w, WithClones(s))) /\ DOMAIN Over(w, WithClones(s)) = DOMAIN w \cup DOMAIN WithClones(s)
    BY <2>1, <2>3, OverGood DEF w
  <2> QED BY <1>1, <2>2, <2>4, <2>5 DEF w
<1>3. Good(Replaced(s)) /\ DOMAIN Replaced(s) = DOMAIN OverrideWrites \cup DOMAIN Parted(s)
  BY <1>2, OverrideGood, OverGood DEF Replaced
<1>4. GoodSplit(S, Replaced(s)) /\ \A n \in S : Sibling(n) \in DOMAIN Replaced(s)
  BY <1>1, <1>2, <1>3 DEF GoodSplit
<1>5. Good(Wrapped(s)) /\ DOMAIN Wrapped(s) = DOMAIN Replaced(s)
  <2>1. DOMAIN WrapWrites(Replaced(s), S) \subseteq DOMAIN Replaced(s)
    BY <1>3, <1>4, MigratedFiles DEF WrapWrites
  <2> DEFINE w == WrapWrites(Replaced(s), S)
  <2>2. Good(w)
    BY <1>3, <1>4, WrapGood
  <2> HIDE DEF w
  <2>3. Good(Over(w, Replaced(s)))
    BY <1>3, <2>2, OverGood
  <2>4. DOMAIN Over(w, Replaced(s)) = DOMAIN Replaced(s)
    BY <2>1, OverSame DEF w
  <2> QED BY <2>3, <2>4 DEF w, Wrapped
<1>6. Good(Bound(s)) /\ DOMAIN Bound(s) = DOMAIN Replaced(s)
  <2>1. GoodSplit(S, Wrapped(s)) /\ \A n \in S : Sibling(n) \in DOMAIN Wrapped(s)
    BY <1>4, <1>5 DEF GoodSplit
  <2>2. DOMAIN IncludeWrites(Wrapped(s), S) \subseteq DOMAIN Wrapped(s)
    BY <1>5, <2>1, MigratedFiles DEF IncludeWrites
  <2> DEFINE w == IncludeWrites(Wrapped(s), S)
  <2>3. Good(w)
    BY <1>5, <2>1, IncludeGood
  <2> HIDE DEF w
  <2>4. Good(Over(w, Wrapped(s))) /\ DOMAIN Over(w, Wrapped(s)) = DOMAIN Wrapped(s)
    BY <1>5, <2>2, <2>3, OverGood DEF w
  <2> QED BY <1>5, <2>4 DEF w, Bound
<1>7. DOMAIN Fresh(s) = DOMAIN Replaced(s)
  <2>1. DOMAIN PrivateWrites(Bound(s), S) \subseteq DOMAIN Bound(s)
    BY DEF PrivateWrites
  <2> QED BY <1>6, <2>1, FreshPhases, OverSame
<1> QED BY <1>1, <1>2, <1>3, <1>5, <1>6, <1>7
-----------------------------------------------------------------------------
(* Which header a compiled file sees: the split set is closed under        *)
(* inclusion, what this run wrote includes public names until the include  *)
(* pass, and the sibling of each of them that was split after it.          *)

\* The units this run writes: copied, cloned, or taken from the overrides.
CopiedUnits(s) == {<<0, f>> : f \in {g \in Plain : s[g].here}}
ClonedUnits(s) == {<<0, t>> : t \in Cloned(s)}
OverriddenUnits == {<<0, t>> : t \in Overridden}

LEMMA FreshUnits ==
  ASSUME NEW s, GoodSources(s)
  PROVE  DOMAIN Fresh(s) \ HeaderNames \subseteq CopiedUnits(s) \cup ClonedUnits(s) \cup OverriddenUnits
<1> SUFFICES ASSUME NEW n \in DOMAIN Fresh(s), n \notin HeaderNames
             PROVE  n \in CopiedUnits(s) \cup ClonedUnits(s) \cup OverriddenUnits
  OBVIOUS
<1>1. \A m \in SplitOf(s) : Sibling(m) \in HeaderNames
  BY FreshLate, SiblingsApart
<1>2. n \in DOMAIN OverrideWrites \cup DOMAIN CloneWrites(s) \cup DOMAIN Staged(s)
  <2>1. DOMAIN Fresh(s) = DOMAIN OverrideWrites \cup DOMAIN Parted(s)
        /\ DOMAIN Parted(s) = DOMAIN WithClones(s) \cup {Sibling(m) : m \in SplitOf(s)}
    BY FreshLate
  <2>2. DOMAIN WithClones(s) = DOMAIN CloneWrites(s) \cup DOMAIN Staged(s)
    BY FreshEarly
  <2>3. n \notin {Sibling(m) : m \in SplitOf(s)}
    BY <1>1
  <2> QED BY <2>1, <2>2, <2>3
<1>3. CASE n \in DOMAIN OverrideWrites
  BY <1>3 DEF OverrideWrites, OverriddenUnits
<1>4. CASE n \in DOMAIN CloneWrites(s)
  <2>1. <<0, Shim>> \in HeaderNames
    BY DEF HeaderNames, Names, Bases
  <2> QED BY <1>4, <2>1 DEF CloneWrites, ClonedUnits
<1>5. CASE n \in DOMAIN Staged(s)
  <2>1. PICK f \in Headers \cup Plain : s[f].here /\ n = <<0, f>>
    BY <1>5 DEF Staged, StageWrites
  <2>2. f \notin Headers
    BY <2>1 DEF HeaderNames, Names, Bases
  <2> QED BY <2>1, <2>2 DEF CopiedUnits
<1> QED BY <1>2, <1>3, <1>4, <1>5

\* The files of a directory that include public names only.
PlainFiles(d) == {n \in DOMAIN d : Unprefixed(d[n])}

\* A pass that writes public names, or leaves the includes alone.
Mild(w, d) ==
  \A n \in DOMAIN w : Unprefixed(w[n]) \/ (n \in DOMAIN d /\ w[n].inc = d[n].inc)

LEMMA MildKeeps ==
  ASSUME NEW w, NEW d, Mild(w, d)
  PROVE  PlainFiles(d) \subseteq PlainFiles(Over(w, d))
BY DEF PlainFiles, Mild, Over, Unprefixed

LEMMA WritesMild ==
  ASSUME PlainInv, pc \in Passes \ {"include", "done"}
  PROVE  Mild(Writes, disk)
<1> USE DEF PlainInv, TypeInv, Good, Mild, Unprefixed
<1>1. CASE pc = "stage"
  <2>1. \A n \in DOMAIN StageWrites(src) : Unprefixed(StageWrites(src)[n])
    BY DEF StageWrites, Copied, Text
  <2> QED BY <1>1, <2>1 DEF Writes
<1>2. CASE pc = "patch"
  BY <1>2 DEF Writes, PatchWrites, Texts
<1>3. CASE pc = "twin"
  BY <1>3 DEF Writes, TwinWrites, Texts
<1>4. CASE pc = "clone"
  <2>1. \A f : Unprefixed(Clone(src, f)) /\ Unprefixed(Text(Shim, 0, FALSE, {}))
    BY DEF Clone, Text
  <2>2. \A n \in DOMAIN CloneWrites(src) :
          CloneWrites(src)[n] \in {Text(Shim, 0, FALSE, {}), Clone(src, Canonical(src, n[2]))}
    BY DEF CloneWrites
  <2>3. \A n \in DOMAIN CloneWrites(src) : Unprefixed(CloneWrites(src)[n])
    BY <2>1, <2>2, Zenon
  <2> QED BY <1>4, <2>3 DEF Writes
<1>5. CASE pc = "split"
  <2> DEFINE S == SplitSet(disk, pristine)
             w == SplitWrites(disk, pristine, S)
  <2>1. GoodSplit(S, disk) /\ S \subseteq DOMAIN pristine
    BY SplitSetGood
  <2>2. \A m \in S : m \in DOMAIN disk \cap HeaderNames /\ m[1] = 0 /\ m = <<0, m[2]>>
    BY <2>1 DEF GoodSplit
  <2>3. ASSUME NEW n \in DOMAIN w PROVE Unprefixed(w[n])
    <3>1. CASE n \in S
      BY <2>1, <2>2, <3>1 DEF SplitWrites, Plainly
    <3>2. CASE n \notin S
      <4>1. PICK m \in S : n = Sibling(m)
        BY <3>2 DEF SplitWrites
      <4>2. <<n[1] - 1, n[2]>> = m
        BY <2>2, <4>1 DEF Sibling
      <4>3. w[n] = disk[m]
        BY <3>2, <4>2 DEF SplitWrites
      <4> QED BY <2>2, <4>3 DEF Plainly
    <3> QED BY <3>1, <3>2
  <2>4. Writes = w
    BY <1>5 DEF Writes
  <2> HIDE DEF w
  <2> QED BY <2>3, <2>4
<1>6. CASE pc = "override"
  BY <1>6 DEF Writes, OverrideWrites, Text
<1>7. CASE pc = "wrap"
  <2>1. Migrated(disk, split) \subseteq DOMAIN disk
    BY <1>7, MigratedFiles DEF After
  <2> QED BY <1>7, <2>1 DEF Writes, WrapWrites, Texts
<1>8. CASE pc = "privatize"
  BY <1>8 DEF Writes, PrivateWrites, Texts
<1> HIDE DEF PlainInv, TypeInv, Good, Mild, Unprefixed
<1>9. pc \in {"stage", "patch", "twin", "clone", "split", "override", "wrap", "privatize"}
  BY DEF Passes, After
<1> QED BY <1>1, <1>2, <1>3, <1>4, <1>5, <1>6, <1>7, <1>8, <1>9

Early == {"patch", "twin", "clone", "split"}
Middle == {"override", "wrap", "include"}

\* What the run has written so far includes public names until the last but
\* one pass.
WrittenInv ==
  /\ pc \in Early \cup Middle => CopiedUnits(src) \subseteq PlainFiles(disk)
  /\ pc \in {"split"} \cup Middle => ClonedUnits(src) \subseteq PlainFiles(disk)
  /\ pc \in {"wrap", "include"} => OverriddenUnits \subseteq PlainFiles(disk)
  /\ pc \in Middle => {Sibling(m) : m \in split} \subseteq PlainFiles(disk)

\* Between the snapshot and the split only the shim can be new.
KnownInv == pc \in Early => DOMAIN disk \cap HeaderNames \subseteq DOMAIN pristine \cup {TheShim}

\* No public header that stays leads to one that was split.
ClosedInv ==
  pc \in After => \A n \in (DOMAIN disk \cap HeaderNames) \ split :
                    n[1] = 0 => disk[n].inc \cap split = {}

\* What a migrated file may include: a sibling, or a header that stayed.
Rewritten(t, S) == \A m \in t.inc : (m[1] = 0 /\ m \notin S) \/ \E k \in S : m = Sibling(k)

SeenInv ==
  pc \in {"privatize", "done"} =>
    \A n \in CopiedUnits(src) \cup ClonedUnits(src) \cup OverriddenUnits
             \cup {Sibling(m) : m \in split} :
      n \in DOMAIN disk /\ Rewritten(disk[n], split)

SeeInv == PlainInv /\ WrittenInv /\ KnownInv /\ ClosedInv /\ SeenInv

\* A pass before the include pass keeps what the run has written, and adds it.
LEMMA PassMild ==
  ASSUME PlainInv, pc \in Passes \ {"include", "done"}, disk' = Over(Writes, disk)
  PROVE  PlainFiles(disk) \subseteq PlainFiles(disk')
BY WritesMild, MildKeeps

LEMMA PassAdds ==
  ASSUME NEW w, NEW d, NEW N, N \subseteq DOMAIN w, \A n \in N : Unprefixed(w[n])
  PROVE  N \subseteq PlainFiles(Over(w, d))
BY DEF PlainFiles, Over, Unprefixed

LEMMA CopiedFresh ==
  ASSUME NEW s
  PROVE  /\ CopiedUnits(s) \subseteq DOMAIN StageWrites(s)
         /\ \A n \in DOMAIN StageWrites(s) : Unprefixed(StageWrites(s)[n])
<1>1. CopiedUnits(s) \subseteq DOMAIN StageWrites(s)
  BY DEF CopiedUnits, StageWrites
<1>2. \A f : Unprefixed(Copied(s, f))
  BY DEF Copied, Text, Unprefixed
<1>3. \A n \in DOMAIN StageWrites(s) : StageWrites(s)[n] = Copied(s, n[2])
  BY DEF StageWrites
<1> QED BY <1>1, <1>2, <1>3

LEMMA ClonedFresh ==
  ASSUME NEW s
  PROVE  /\ ClonedUnits(s) \subseteq DOMAIN CloneWrites(s)
         /\ \A n \in ClonedUnits(s) : Unprefixed(CloneWrites(s)[n])
<1>1. ASSUME NEW t \in Cloned(s) PROVE CloneWrites(s)[<<0, t>>] = Clone(s, Canonical(s, t))
  <2>1. t # Shim
    BY CMigrationAssumption DEF Cloned
  <2> QED BY <2>1 DEF CloneWrites
<1>2. \A f : Unprefixed(Clone(s, f))
  BY DEF Clone, Text, Unprefixed
<1> QED BY <1>1, <1>2 DEF CloneWrites, ClonedUnits

LEMMA OverriddenFresh ==
  /\ OverriddenUnits = DOMAIN OverrideWrites
  /\ \A n \in OverriddenUnits : Unprefixed(OverrideWrites[n])
BY DEF OverriddenUnits, OverrideWrites, Text, Unprefixed

\* The siblings are what the split headers were before it.
LEMMA SplitWritten ==
  ASSUME NEW d, NEW p, NEW S, GoodSplit(S, d)
  PROVE  \A m \in S : /\ SplitWrites(d, p, S)[m] = p[m]
                       /\ SplitWrites(d, p, S)[Sibling(m)] = d[m]
<1>1. ASSUME NEW m \in S PROVE SplitWrites(d, p, S)[Sibling(m)] = d[m]
  <2>1. Sibling(m) \notin S
    BY SiblingsApart
  <2>2. m = <<0, m[2]>>
    BY DEF GoodSplit
  <2>3. <<Sibling(m)[1] - 1, Sibling(m)[2]>> = m
    BY <2>2 DEF Sibling
  <2> QED BY <2>1, <2>3 DEF SplitWrites
<1> QED BY <1>1 DEF SplitWrites

LEMMA SplitSetClosed ==
  ASSUME NEW d, NEW p
  PROVE  Changed(d, p) \subseteq SplitSet(d, p) /\ ClosedIn(d, p, SplitSet(d, p))
<1>1. Changed(d, p) \subseteq SplitSet(d, p)
  BY DEF SplitSet, Changed
<1>2. ASSUME NEW n \in Splittable(p), d[n].inc \cap SplitSet(d, p) # {}
      PROVE  n \in SplitSet(d, p)
  <2> SUFFICES ASSUME NEW S \in SUBSET Splittable(p), Changed(d, p) \subseteq S, ClosedIn(d, p, S)
               PROVE  n \in S
    BY DEF SplitSet
  <2>1. SplitSet(d, p) \subseteq S
    BY DEF SplitSet
  <2> QED BY <1>2, <2>1 DEF ClosedIn
<1> QED BY <1>1, <1>2 DEF ClosedIn

LEMMA SplitSetLeast ==
  ASSUME NEW d, NEW p, NEW S \in SUBSET Splittable(p), Changed(d, p) \subseteq S, ClosedIn(d, p, S)
  PROVE  SplitSet(d, p) \subseteq S
BY DEF SplitSet

\* A pass that writes no public header keeps the split set closed.
LEMMA KeepsClosed ==
  ASSUME NEW w, NEW d, NEW S,
         \A n \in (DOMAIN d \cap HeaderNames) \ S : n[1] = 0 => d[n].inc \cap S = {},
         \A n \in DOMAIN w \cap HeaderNames :
           n[1] = 0 => (n \in DOMAIN d /\ w[n].inc = d[n].inc)
  PROVE  \A n \in (DOMAIN Over(w, d) \cap HeaderNames) \ S :
           n[1] = 0 => Over(w, d)[n].inc \cap S = {}
BY DEF Over

\* The include pass sends what a migrated file includes to the siblings.
LEMMA IncludeRewrites ==
  ASSUME NEW d, NEW S, NEW n \in Migrated(d, S), d[n] \in Texts, Unprefixed(d[n])
  PROVE  Rewritten(IncludeWrites(d, S)[n], S)
<1>1. IncludeWrites(d, S)[n].inc = {IF m \in S THEN Sibling(m) ELSE m : m \in d[n].inc}
  BY DEF IncludeWrites, Texts
<1> QED BY <1>1 DEF Rewritten, Unprefixed

LEMMA SplitSees ==
  ASSUME SeeInv, SplitHeaders PROVE (WrittenInv /\ ClosedInv)'
<1> DEFINE S == SplitSet(disk, pristine)
           w == SplitWrites(disk, pristine, S)
<1>1. /\ pc = "split" /\ pc' = "override" /\ src' = src /\ split' = S
      /\ disk' = Over(w, disk)
  BY DEF SplitHeaders, Split, Pass
<1>2. GoodSplit(S, disk) /\ S \subseteq Splittable(pristine)
  BY SplitSetGood DEF SeeInv, PlainInv, TypeInv, SplitSet
<1>3. Writes = w
  BY <1>1 DEF Writes
<1>4. PlainFiles(disk) \subseteq PlainFiles(disk')
  BY <1>1, <1>3, PassMild DEF SeeInv, Passes
<1>5. DOMAIN w = S \cup {Sibling(m) : m \in S}
      /\ \A m \in S : w[m] = pristine[m] /\ w[Sibling(m)] = disk[m]
  <2>1. DOMAIN w = S \cup {Sibling(m) : m \in S}
    BY DEF SplitWrites
  <2>2. \A m \in S : w[m] = pristine[m] /\ w[Sibling(m)] = disk[m]
    <3> HIDE DEF S
    <3> QED BY <1>2, SplitWritten
  <2> QED BY <2>1, <2>2
<1>6. Changed(disk, pristine) \subseteq S /\ ClosedIn(disk, pristine, S)
  BY SplitSetClosed
<1> HIDE DEF S, w
<1>7. \A m \in S : m \in DOMAIN disk \cap HeaderNames /\ m[1] = 0
  BY <1>2 DEF GoodSplit, HeaderNames, Names, Bases
<1>8. {Sibling(m) : m \in S} \subseteq PlainFiles(disk')
  <2>1. \A n \in {Sibling(m) : m \in S} : Unprefixed(w[n])
    BY <1>5, <1>7 DEF SeeInv, PlainInv, Plainly
  <2>2. {Sibling(m) : m \in S} \subseteq PlainFiles(Over(w, disk))
    BY <1>5, <2>1, PassAdds
  <2> QED BY <1>1, <2>2
<1>9. ASSUME NEW n \in (DOMAIN disk' \cap HeaderNames) \ S, n[1] = 0
      PROVE  disk'[n].inc \cap S = {}
  <2>1. n \notin DOMAIN w
    BY <1>2, <1>5, <1>9, SiblingsApart
  <2>2. n \in DOMAIN disk /\ disk'[n] = disk[n]
    BY <1>1, <1>9, <2>1 DEF Over
  <2>3. CASE n = TheShim
    <3>1. disk[n].inc = {}
      BY <2>2, <2>3, ShimTexts DEF SeeInv, PlainInv, Plainly
    <3> QED BY <2>2, <3>1
  <2>4. CASE n # TheShim
    <3>1. n \in Splittable(pristine)
      BY <1>1, <1>9, <2>2, <2>4 DEF SeeInv, KnownInv, Early, Splittable
    <3> QED BY <1>6, <1>9, <2>2, <3>1 DEF ClosedIn
  <2> QED BY <2>3, <2>4
<1>10. WrittenInv'
  BY <1>1, <1>4, <1>8 DEF SeeInv, WrittenInv, Early, Middle, CopiedUnits, ClonedUnits, Cloned, Sourced
<1>11. ClosedInv'
  BY <1>1, <1>9 DEF ClosedInv
<1> QED BY <1>10, <1>11

LEMMA IncludeSees ==
  ASSUME SeeInv, RewriteIncludes PROVE (ClosedInv /\ SeenInv)'
<1> DEFINE w == IncludeWrites(disk, split)
           N == CopiedUnits(src) \cup ClonedUnits(src) \cup OverriddenUnits
                \cup {Sibling(m) : m \in split}
<1>1. /\ pc = "include" /\ pc' = "privatize" /\ src' = src /\ split' = split
      /\ disk' = Over(w, disk)
  BY DEF RewriteIncludes, Pass
<1>2. N \subseteq PlainFiles(disk)
  BY <1>1 DEF SeeInv, WrittenInv, Middle
<1>3. CopiedUnits(src) \cup ClonedUnits(src) \cup OverriddenUnits \subseteq Units(disk)
  <2>1. \A n \in CopiedUnits(src) \cup ClonedUnits(src) \cup OverriddenUnits : n \notin HeaderNames
    BY CMigrationAssumption DEF CopiedUnits, ClonedUnits, Cloned, OverriddenUnits, HeaderNames
  <2> QED BY <1>2, <2>1 DEF Units, PlainFiles
<1>4. N \subseteq Migrated(disk, split)
  BY <1>3 DEF Migrated
<1>5. Good(disk)
  BY DEF SeeInv, PlainInv, TypeInv
<1>6. \A n \in N : n \in DOMAIN w /\ Rewritten(w[n], split)
  <2>1. DOMAIN w = Migrated(disk, split)
    BY DEF IncludeWrites
  <2> HIDE DEF w
  <2>2. \A n \in N : disk[n] \in Texts /\ Unprefixed(disk[n]) /\ n \in Migrated(disk, split)
    BY <1>2, <1>4, <1>5 DEF PlainFiles, Good
  <2> HIDE DEF N
  <2> QED BY <2>1, <2>2, IncludeRewrites DEF w
<1>7. \A n \in DOMAIN w : n \in HeaderNames => n[1] # 0
  <2>1. \A n \in Migrated(disk, split) : n[2] \in Headers \cup {Shim} => n[1] = 1
    BY <1>1, MigratedFiles DEF SeeInv, PlainInv, TypeInv, After
  <2> QED BY <2>1 DEF IncludeWrites, HeaderNames
<1> HIDE DEF w
<1>8. SeenInv'
  <2>1. \A n \in N : n \in DOMAIN disk' /\ Rewritten(disk'[n], split)
    BY <1>1, <1>6 DEF Over
  <2>2. CopiedUnits(src') = CopiedUnits(src) /\ ClonedUnits(src') = ClonedUnits(src)
    BY <1>1
  <2> QED BY <1>1, <2>1, <2>2 DEF SeenInv, Rewritten
<1>9. ClosedInv'
  <2>1. \A n \in (DOMAIN disk \cap HeaderNames) \ split : n[1] = 0 => disk[n].inc \cap split = {}
    BY <1>1 DEF SeeInv, ClosedInv, After
  <2>2. \A n \in (DOMAIN Over(w, disk) \cap HeaderNames) \ split :
          n[1] = 0 => Over(w, disk)[n].inc \cap split = {}
    BY <1>7, <2>1, KeepsClosed
  <2> QED BY <1>1, <2>2 DEF ClosedInv
<1> QED BY <1>8, <1>9

LEMMA SeeStep == SeeInv /\ [Next]_vars => SeeInv'
<1> SUFFICES ASSUME SeeInv, [Next]_vars PROVE (WrittenInv /\ KnownInv /\ ClosedInv /\ SeenInv)'
  BY PlainStep DEF SeeInv
<1>0. PlainInv /\ TypeInv
  BY DEF SeeInv, PlainInv
<1> USE DEF Passes, After, Early, Middle
<1>1. CASE Start \/ Kill \/ \E f \in Upstream : EditSource(f)
  <2>1. pc' \in {"stage", "idle"}
    <3>1. CASE Kill
      BY <3>1, Zenon DEF Kill
    <3> QED BY <1>1, <3>1 DEF Start, EditSource
  <2> QED BY <2>1 DEF WrittenInv, KnownInv, ClosedInv, SeenInv
<1>2. CASE Stage
  <2>1. pc' = "patch" /\ src' = src /\ disk' = Over(StageWrites(src), disk)
        /\ pristine' = Only(disk', HeaderNames)
    BY <1>2 DEF Stage, Pass
  <2>2. CopiedUnits(src) \subseteq PlainFiles(disk')
    BY <2>1, CopiedFresh, PassAdds
  <2>3. KnownInv'
    BY <2>1 DEF KnownInv, Only
  <2> QED BY <2>1, <2>2, <2>3 DEF WrittenInv, ClosedInv, SeenInv, CopiedUnits
<1>3. CASE PatchHeaders \/ TwinHeaders
  <2>1. /\ pc \in {"patch", "twin"} /\ pc' \in {"twin", "clone"}
        /\ src' = src /\ pristine' = pristine /\ disk' = Over(Writes, disk)
    BY <1>3 DEF PatchHeaders, TwinHeaders, Pass, Writes
  <2>2. DOMAIN Writes \subseteq DOMAIN disk
    BY <2>1 DEF Writes, PatchWrites, TwinWrites
  <2>3. PlainFiles(disk) \subseteq PlainFiles(disk')
    BY <1>0, <2>1, PassMild
  <2>4. DOMAIN disk' = DOMAIN disk
    BY <2>1, <2>2, OverSame
  <2> QED BY <2>1, <2>3, <2>4 DEF SeeInv, WrittenInv, KnownInv, ClosedInv, SeenInv, CopiedUnits
<1>4. CASE CloneFiles
  <2>1. /\ pc = "clone" /\ pc' = "split" /\ src' = src /\ pristine' = pristine
        /\ disk' = Over(CloneWrites(src), disk) /\ Writes = CloneWrites(src)
    BY <1>4 DEF CloneFiles, Pass, Writes
  <2>2. PlainFiles(disk) \subseteq PlainFiles(disk')
    BY <1>0, <2>1, PassMild
  <2>3. ClonedUnits(src) \subseteq PlainFiles(disk')
    BY <2>1, ClonedFresh, PassAdds
  <2>4. DOMAIN CloneWrites(src) \cap HeaderNames \subseteq {TheShim}
    BY CMigrationAssumption DEF CloneWrites, Cloned, HeaderNames, TheShim
  <2>5. KnownInv'
    BY <2>1, <2>4 DEF SeeInv, KnownInv, Over
  <2>6. WrittenInv'
    <3>1. CopiedUnits(src) \subseteq PlainFiles(disk')
      BY <2>1, <2>2 DEF SeeInv, WrittenInv
    <3> QED BY <2>1, <2>3, <3>1 DEF WrittenInv
  <2> QED BY <2>1, <2>5, <2>6 DEF ClosedInv, SeenInv
<1>5. CASE SplitHeaders
  <2>1. pc' = "override"
    BY <1>5 DEF SplitHeaders, Split, Pass
  <2> QED BY <1>5, <2>1, SplitSees DEF KnownInv, SeenInv
<1>6. CASE CopyOverrides
  <2>1. /\ pc = "override" /\ pc' = "wrap" /\ src' = src /\ split' = split
        /\ disk' = Over(OverrideWrites, disk) /\ Writes = OverrideWrites
    BY <1>6 DEF CopyOverrides, Pass, Writes
  <2>2. PlainFiles(disk) \subseteq PlainFiles(disk')
    BY <1>0, <2>1, PassMild
  <2>3. OverriddenUnits \subseteq PlainFiles(disk')
    BY <2>1, OverriddenFresh, PassAdds
  <2>4. WrittenInv'
    <3>1. /\ CopiedUnits(src) \subseteq PlainFiles(disk')
          /\ ClonedUnits(src) \subseteq PlainFiles(disk')
          /\ {Sibling(m) : m \in split} \subseteq PlainFiles(disk')
      BY <2>1, <2>2 DEF SeeInv, WrittenInv
    <3> QED BY <2>1, <2>3, <3>1 DEF WrittenInv
  <2>5. \A n \in DOMAIN OverrideWrites : n \notin HeaderNames
    BY CMigrationAssumption DEF OverrideWrites, HeaderNames
  <2>6. ClosedInv'
    <3>1. \A n \in (DOMAIN disk \cap HeaderNames) \ split : n[1] = 0 => disk[n].inc \cap split = {}
      BY <2>1 DEF SeeInv, ClosedInv
    <3>2. \A n \in (DOMAIN Over(OverrideWrites, disk) \cap HeaderNames) \ split :
            n[1] = 0 => Over(OverrideWrites, disk)[n].inc \cap split = {}
      BY <2>5, <3>1, KeepsClosed
    <3> QED BY <2>1, <3>2 DEF ClosedInv
  <2> QED BY <2>1, <2>4, <2>6 DEF KnownInv, SeenInv
<1>7. CASE WrapFiles
  <2>1. /\ pc = "wrap" /\ pc' = "include" /\ src' = src /\ split' = split
        /\ disk' = Over(WrapWrites(disk, split), disk) /\ Writes = WrapWrites(disk, split)
    BY <1>7 DEF WrapFiles, Pass, Writes
  <2>2. PlainFiles(disk) \subseteq PlainFiles(disk')
    BY <1>0, <2>1, PassMild
  <2>3. WrittenInv'
    <3>1. /\ CopiedUnits(src) \subseteq PlainFiles(disk')
          /\ ClonedUnits(src) \subseteq PlainFiles(disk')
          /\ OverriddenUnits \subseteq PlainFiles(disk')
          /\ {Sibling(m) : m \in split} \subseteq PlainFiles(disk')
      BY <2>1, <2>2 DEF SeeInv, WrittenInv
    <3> QED BY <2>1, <3>1 DEF WrittenInv
  <2>4. \A n \in DOMAIN WrapWrites(disk, split) : n \in HeaderNames => n[1] # 0
    <3>1. \A n \in Migrated(disk, split) : n[2] \in Headers \cup {Shim} => n[1] = 1
      BY <1>0, <2>1, MigratedFiles DEF TypeInv
    <3> QED BY <3>1 DEF WrapWrites, HeaderNames
  <2>5. ClosedInv'
    <3> DEFINE w == WrapWrites(disk, split)
    <3>1. \A n \in (DOMAIN disk \cap HeaderNames) \ split : n[1] = 0 => disk[n].inc \cap split = {}
      BY <2>1 DEF SeeInv, ClosedInv
    <3> HIDE DEF w
    <3>2. \A n \in (DOMAIN Over(w, disk) \cap HeaderNames) \ split :
            n[1] = 0 => Over(w, disk)[n].inc \cap split = {}
      BY <2>4, <3>1, KeepsClosed DEF w
    <3> QED BY <2>1, <3>2 DEF ClosedInv, w
  <2> QED BY <2>1, <2>3, <2>5 DEF KnownInv, SeenInv
<1>8. CASE RewriteIncludes
  <2>1. pc' = "privatize"
    BY <1>8 DEF RewriteIncludes, Pass
  <2> QED BY <1>8, <2>1, IncludeSees DEF WrittenInv, KnownInv
<1>9. CASE Privatize
  <2> DEFINE w == PrivateWrites(disk, split)
  <2>1. /\ pc = "privatize" /\ pc' = "done" /\ src' = src /\ split' = split
        /\ disk' = Over(w, disk)
    BY <1>9 DEF Privatize, Pass
  <2>2. \A n \in DOMAIN w : n \in DOMAIN disk /\ w[n].inc = disk[n].inc
    BY <1>0 DEF PrivateWrites, TypeInv, Good, Texts
  <2> HIDE DEF w
  <2>3. DOMAIN disk' = DOMAIN disk /\ \A n \in DOMAIN disk : disk'[n].inc = disk[n].inc
    BY <2>1, <2>2 DEF Over
  <2>4. ClosedInv'
    BY <2>1, <2>3 DEF SeeInv, ClosedInv
  <2>5. SeenInv'
    BY <2>1, <2>3 DEF SeeInv, SeenInv, Rewritten, CopiedUnits, ClonedUnits, Cloned, Sourced
  <2> QED BY <2>1, <2>4, <2>5 DEF WrittenInv, KnownInv
<1>10. CASE UNCHANGED vars
  <2>1. UNCHANGED <<src, disk, pc, pristine, split>>
    BY <1>10 DEF vars
  <2> QED BY <2>1 DEF SeeInv, WrittenInv, KnownInv, ClosedInv, SeenInv, Rewritten,
                      CopiedUnits, ClonedUnits, Cloned, Sourced, PlainFiles, Unprefixed
<1> QED BY Steps, <1>1, <1>2, <1>3, <1>4, <1>5, <1>6, <1>7, <1>8, <1>9, <1>10

LEMMA SeeInit == Init => SeeInv
BY PlainInit DEF Init, SeeInv, WrittenInv, KnownInv, ClosedInv, SeenInv, After, Early, Middle

LEMMA SeesSiblings == SeeInv => UnitsSeeSiblings
<1> SUFFICES ASSUME SeeInv, pc = "done", NEW n \in Current PROVE Avoids(n, split, FALSE)
  BY DEF UnitsSeeSiblings
<1>1. TypeInv
  BY DEF SeeInv, PlainInv
<1>2. n \in CopiedUnits(src) \cup ClonedUnits(src) \cup OverriddenUnits
  <2>1. n \in DOMAIN Fresh(src) \ HeaderNames
    BY DEF Current, Units
  <2> QED BY <1>1, <2>1, FreshUnits DEF TypeInv
<1> DEFINE known == DOMAIN disk \cap HeaderNames
           public == {m \in known \ split : m[1] = 0}
           siblings == {Sibling(m) : m \in split}
           R == public \cup siblings
<1>3. \A m \in {n} \cup siblings : Rewritten(disk[m], split)
  BY <1>2 DEF SeeInv, SeenInv
<1>4. siblings \subseteq known \ split
  BY <1>1, SiblingsApart DEF TypeInv, After
<1>5. \A m \in {n} \cup siblings : known \cap disk[m].inc \subseteq R
  BY <1>3 DEF Rewritten
<1>6. \A m \in public : known \cap disk[m].inc \subseteq public
  <2>1. ASSUME NEW m \in public, NEW k \in known \cap disk[m].inc PROVE k \in public
    <3>1. k \notin split
      BY <2>1 DEF SeeInv, ClosedInv, After
    <3>2. k[1] = 0
      BY <2>1 DEF SeeInv, PlainInv, Plainly, Unprefixed
    <3> QED BY <2>1, <3>1, <3>2
  <2> QED BY <2>1
<1>7. \A m \in {n} \cup R : known \cap disk[m].inc \subseteq R
  BY <1>5, <1>6
<1>8. \A m : Includes(m, FALSE) = known \cap disk[m].inc
  BY DEF Includes
<1>9. R \in SUBSET (known \ split)
  BY <1>4
<1> HIDE DEF R
<1>10. \A m \in {n} \cup R : Includes(m, FALSE) \subseteq R
  BY <1>7, <1>8
<1> HIDE DEF known
<1> QED BY <1>9, <1>10 DEF Avoids, known

\* What a completed run compiles sees the sibling of every header that was
\* split, through any chain of includes and whatever an earlier run left.
THEOREM AlwaysSeeSiblings == Spec => []UnitsSeeSiblings
BY SeeInit, SeeStep, SeesSiblings, PTL DEF Spec
-----------------------------------------------------------------------------
(* Whatever else the directory holds, each pass leaves what it would have  *)
(* left in an empty one.                                                   *)

Agrees(d, f) == \A n \in DOMAIN f : n \in DOMAIN d /\ d[n] = f[n]

\* The same writes, over directories that agree.
LEMMA OverAgrees ==
  ASSUME NEW w, NEW d, NEW f, Agrees(d, f)
  PROVE  Agrees(Over(w, d), Over(w, f))
BY DEF Agrees, Over

\* Writes that depend on each file alone.
LEMMA PointwiseAgrees ==
  ASSUME NEW w, NEW d, NEW v, NEW f, Agrees(d, f),
         DOMAIN v \subseteq DOMAIN f,
         \A n \in DOMAIN f : (n \in DOMAIN w <=> n \in DOMAIN v)
                             /\ (n \in DOMAIN v => w[n] = v[n])
  PROVE  Agrees(Over(w, d), Over(v, f))
BY DEF Agrees, Over

LEMMA PatchAgrees ==
  ASSUME NEW d, NEW f, Agrees(d, f)
  PROVE  Agrees(Over(PatchWrites(d), d), Over(PatchWrites(f), f))
<1> DEFINE w == PatchWrites(d)
           v == PatchWrites(f)
<1>1. DOMAIN v \subseteq DOMAIN f
  BY DEF PatchWrites
<1>2. \A n \in DOMAIN f : (n \in DOMAIN w <=> n \in DOMAIN v) /\ (n \in DOMAIN v => w[n] = v[n])
  BY DEF PatchWrites, Agrees
<1> HIDE DEF w, v
<1> QED BY <1>1, <1>2, PointwiseAgrees DEF w, v

LEMMA TwinAgrees ==
  ASSUME NEW d, NEW f, Agrees(d, f)
  PROVE  Agrees(Over(TwinWrites(d), d), Over(TwinWrites(f), f))
<1> DEFINE w == TwinWrites(d)
           v == TwinWrites(f)
<1>1. DOMAIN v \subseteq DOMAIN f
  BY DEF TwinWrites
<1>2. \A n \in DOMAIN f : (n \in DOMAIN w <=> n \in DOMAIN v) /\ (n \in DOMAIN v => w[n] = v[n])
  BY DEF TwinWrites, Agrees
<1> HIDE DEF w, v
<1> QED BY <1>1, <1>2, PointwiseAgrees DEF w, v

\* Names of the fresh directory: no prefix but for the siblings; the shim is
\* not a copied header.
LEMMA FreshNames ==
  ASSUME NEW s, GoodSources(s)
  PROVE  /\ \A n \in DOMAIN WithClones(s) : n[1] = 0
         /\ \A n \in DOMAIN WithClones(s) \cap HeaderNames :
              n \in DOMAIN Heads(s) \/ n = TheShim
         /\ TheShim \notin DOMAIN Heads(s)
         /\ DOMAIN Heads(s) \subseteq DOMAIN WithClones(s) \cap HeaderNames
         /\ SplitOf(s) \subseteq DOMAIN Heads(s)
         /\ \A n \in DOMAIN Replaced(s) : n[1] = 0 \/ n \in {Sibling(m) : m \in SplitOf(s)}
         /\ \A n \in DOMAIN Replaced(s) \cap HeaderNames :
              n[1] = 0 => (n \in DOMAIN Heads(s) \/ n = TheShim)
<1>1. \A n \in DOMAIN Staged(s) : n[1] = 0 /\ n # TheShim
  BY CMigrationAssumption DEF Staged, StageWrites, TheShim
<1>2. \A n \in DOMAIN CloneWrites(s) : n[1] = 0 /\ (n = TheShim \/ n \notin HeaderNames)
  BY CMigrationAssumption DEF CloneWrites, Cloned, HeaderNames, TheShim
<1>3. \A n \in DOMAIN OverrideWrites : n[1] = 0 /\ n \notin HeaderNames
  BY CMigrationAssumption DEF OverrideWrites, HeaderNames
<1>4. /\ DOMAIN Heads(s) = DOMAIN Staged(s) \cap HeaderNames
      /\ DOMAIN WithClones(s) = DOMAIN CloneWrites(s) \cup DOMAIN Staged(s)
  BY FreshEarly
<1>5. /\ DOMAIN Replaced(s) = DOMAIN OverrideWrites \cup DOMAIN Parted(s)
      /\ DOMAIN Parted(s) = DOMAIN WithClones(s) \cup {Sibling(n) : n \in SplitOf(s)}
      /\ SplitOf(s) \subseteq DOMAIN Heads(s)
      /\ GoodSplit(SplitOf(s), WithClones(s))
  BY FreshLate
<1>6. \A n \in {Sibling(m) : m \in SplitOf(s)} : n[1] # 0
  BY <1>5, SiblingsApart
<1>7. /\ \A n \in DOMAIN WithClones(s) : n[1] = 0
      /\ \A n \in DOMAIN WithClones(s) \cap HeaderNames :
              n \in DOMAIN Heads(s) \/ n = TheShim
      /\ TheShim \notin DOMAIN Heads(s)
      /\ DOMAIN Heads(s) \subseteq DOMAIN WithClones(s) \cap HeaderNames
  BY <1>1, <1>2, <1>4
<1> DEFINE sib == {Sibling(m) : m \in SplitOf(s)}
<1>8. \A n \in DOMAIN Replaced(s) : n \in DOMAIN OverrideWrites \/ n \in DOMAIN WithClones(s) \/ n \in sib
  BY <1>5
<1> HIDE DEF sib
<1>9. \A n \in DOMAIN Replaced(s) : n[1] = 0 \/ n \in sib
  BY <1>3, <1>7, <1>8
<1>10. \A n \in DOMAIN Replaced(s) \cap HeaderNames :
              n[1] = 0 => (n \in DOMAIN Heads(s) \/ n = TheShim)
  BY <1>3, <1>6, <1>7, <1>8 DEF sib
<1> QED BY <1>5, <1>7, <1>9, <1>10 DEF sib
-----------------------------------------------------------------------------
(* What the files of a fresh directory include: headers that are there, or *)
(* the shim; and a header never includes the shim.                         *)

Within(d, N, H) == \A n \in N : n \in DOMAIN d /\ d[n].inc \subseteq H

LEMMA WithinOver ==
  ASSUME NEW w, NEW d, NEW N, NEW H, Within(d, N, H),
         \A n \in DOMAIN w \cap N : w[n].inc \subseteq H
  PROVE  Within(Over(w, d), N, H)
BY DEF Within, Over

LEMMA HeadNames ==
  ASSUME NEW s, GoodSources(s), NEW h \in Headers, s[h].here
  PROVE  <<0, h>> \in DOMAIN Heads(s)
<1>1. <<0, h>> \in DOMAIN Staged(s) /\ <<0, h>> \in HeaderNames
  BY DEF Staged, StageWrites, HeaderNames, Names, Bases
<1> QED BY <1>1, FreshEarly

LEMMA IncludedHeads ==
  ASSUME NEW s, GoodSources(s), Complete(s), NEW f, f \in Overridden \/ (f \in Upstream /\ s[f].here)
  PROVE  {<<0, h>> : h \in Incs[f]} \subseteq DOMAIN Heads(s)
<1>1. f \in Texted
  BY CMigrationAssumption DEF Texted
<1>2. \A h \in Incs[f] : h \in Headers /\ s[h].here
  BY <1>1, CMigrationAssumption DEF Complete
<1> QED BY <1>2, HeadNames

LEMMA StagedWithin ==
  ASSUME NEW s, GoodSources(s), Complete(s)
  PROVE  Within(Twinned(s), DOMAIN Staged(s), DOMAIN Heads(s))
<1> DEFINE H == DOMAIN Heads(s)
<1>1. Within(Staged(s), DOMAIN Staged(s), H)
  <2>1. ASSUME NEW n \in DOMAIN Staged(s) PROVE Staged(s)[n].inc \subseteq H
    <3>1. n[2] \in Upstream /\ s[n[2]].here /\ Staged(s)[n] = Copied(s, n[2])
      BY DEF Staged, StageWrites, Upstream
    <3>2. {<<0, h>> : h \in Incs[n[2]]} \subseteq H
      BY <3>1, IncludedHeads
    <3> QED BY <3>1, <3>2 DEF Copied, Text
  <2> QED BY <2>1 DEF Within
<1> HIDE DEF H
<1>2. Within(Amended(s), DOMAIN Staged(s), H)
  <2>1. \A n \in DOMAIN PatchWrites(Staged(s)) :
          n \in DOMAIN Staged(s) /\ PatchWrites(Staged(s))[n].inc = Staged(s)[n].inc
    BY FreshEarly DEF PatchWrites, Good, Texts
  <2> QED BY <1>1, <2>1, WithinOver DEF Amended, Within
<1>3. Within(Twinned(s), DOMAIN Staged(s), H)
  <2>1. \A n \in DOMAIN TwinWrites(Amended(s)) :
          n \in DOMAIN Staged(s) /\ TwinWrites(Amended(s))[n].inc = Amended(s)[n].inc
    BY FreshEarly DEF TwinWrites, Good, Texts
  <2> QED BY <1>2, <2>1, WithinOver DEF Twinned, Within
<1> QED BY <1>3 DEF H

LEMMA ClonedWithin ==
  ASSUME NEW s, GoodSources(s), Complete(s)
  PROVE  /\ Within(WithClones(s), DOMAIN WithClones(s), DOMAIN Heads(s) \cup {TheShim})
         /\ Within(WithClones(s), DOMAIN Heads(s), DOMAIN Heads(s))
<1> DEFINE H == DOMAIN Heads(s)
           w == CloneWrites(s)
<1>1. ASSUME NEW n \in DOMAIN w PROVE w[n].inc \subseteq H \cup {TheShim}
  <2>1. CASE n[2] = Shim
    BY <2>1 DEF CloneWrites, Text
  <2>2. CASE n[2] # Shim
    <3>1. n[2] \in Cloned(s) /\ w[n] = Clone(s, Canonical(s, n[2]))
      BY <2>2 DEF CloneWrites
    <3> DEFINE f == Canonical(s, n[2])
    <3>2. f \in Members /\ s[f].here
      BY <3>1, CanonicalIsASource DEF Sourced
    <3> HIDE DEF f
    <3>3. {<<0, h>> : h \in Incs[f]} \subseteq H
      BY <3>2, IncludedHeads DEF Upstream
    <3>4. Clone(s, f).inc \subseteq {<<0, h>> : h \in Incs[f]} \cup {TheShim}
      BY DEF Clone, Text, TheShim
    <3> QED BY <3>1, <3>3, <3>4 DEF f
  <2> QED BY <2>1, <2>2
<1>2. Within(Twinned(s), DOMAIN Staged(s), H)
  BY StagedWithin
<1>3. \A n \in H : n \in DOMAIN Staged(s) /\ n \notin DOMAIN w
  <2>1. \A n \in DOMAIN w : n = TheShim \/ n \notin HeaderNames
    BY CMigrationAssumption DEF CloneWrites, Cloned, HeaderNames, TheShim
  <2> HIDE DEF w
  <2> QED BY <2>1, FreshEarly, FreshNames
<1>4. WithClones(s) = Over(w, Twinned(s)) /\ DOMAIN Twinned(s) = DOMAIN Staged(s)
  BY FreshEarly DEF WithClones
<1> HIDE DEF w, H
<1>5. Within(WithClones(s), H, H)
  BY <1>2, <1>3, <1>4 DEF Within, Over
<1>6. Within(WithClones(s), DOMAIN WithClones(s), H \cup {TheShim})
  BY <1>1, <1>2, <1>4 DEF Within, Over
<1> QED BY <1>5, <1>6 DEF H

LEMMA OverrideTexts ==
  \A n \in DOMAIN OverrideWrites :
    n[2] \in Overridden /\ OverrideWrites[n] = Text(n[2], 0, FALSE, Incs[n[2]])
<1>1. DOMAIN OverrideWrites = {<<0, t>> : t \in Overridden}
  BY DEF OverrideWrites
<1>2. \A n \in {<<0, t>> : t \in Overridden} :
        OverrideWrites[n] = Text(n[2], 0, FALSE, Incs[n[2]])
  BY Zenon DEF OverrideWrites
<1>3. \A n \in {<<0, t>> : t \in Overridden} : n[2] \in Overridden
  OBVIOUS
<1> QED BY <1>1, <1>2, <1>3, Zenon

LEMMA WrappedWithin ==
  ASSUME NEW s, GoodSources(s), Complete(s)
  PROVE  Within(Wrapped(s), DOMAIN Wrapped(s) \ DOMAIN Heads(s), DOMAIN Heads(s) \cup {TheShim})
<1> DEFINE H == DOMAIN Heads(s)
           G == H \cup {TheShim}
           S == SplitOf(s)
           c == WithClones(s)
           w == SplitWrites(c, Heads(s), S)
<1>1. GoodSplit(S, c) /\ S \subseteq H
  BY FreshLate
<1>2. Within(c, DOMAIN c, G) /\ Within(c, H, H)
  BY ClonedWithin
<1>3. Parted(s) = Over(w, c) /\ DOMAIN w = S \cup {Sibling(m) : m \in S}
  BY DEF Parted, SplitWrites
<1>4. \A m \in S : w[Sibling(m)] = c[m]
  <2> HIDE DEF S, c
  <2> QED BY <1>1, SplitWritten
<1> HIDE DEF w, c, S, H
<1>5. Within(Parted(s), DOMAIN Parted(s) \ H, G)
  <2>1. \A n \in DOMAIN w \ H : w[n].inc \subseteq G
    BY <1>1, <1>2, <1>3, <1>4 DEF Within
  <2> QED BY <1>2, <1>3, <2>1 DEF Within, Over
<1>6. Within(Replaced(s), DOMAIN Replaced(s) \ H, G)
  <2>1. ASSUME NEW n \in DOMAIN OverrideWrites PROVE OverrideWrites[n].inc \subseteq G
    <3>1. n[2] \in Overridden /\ OverrideWrites[n] = Text(n[2], 0, FALSE, Incs[n[2]])
      BY OverrideTexts
    <3>2. {<<0, h>> : h \in Incs[n[2]]} \subseteq H
      BY <3>1, IncludedHeads DEF H
    <3> QED BY <3>1, <3>2 DEF Text
  <2>2. Replaced(s) = Over(OverrideWrites, Parted(s))
    BY DEF Replaced
  <2> QED BY <1>5, <2>1, <2>2 DEF Within, Over
<1>7. Within(Wrapped(s), DOMAIN Wrapped(s) \ H, G)
  <2> DEFINE r == Replaced(s)
             x == WrapWrites(r, SplitOf(s))
  <2>1. Good(r) /\ DOMAIN Wrapped(s) = DOMAIN r /\ Wrapped(s) = Over(x, r)
    BY FreshLate DEF Wrapped
  <2>2. \A n \in DOMAIN x : n \in DOMAIN r => x[n].inc = r[n].inc
    BY <2>1 DEF WrapWrites, Good, Texts
  <2> HIDE DEF x, r
  <2>3. Within(r, DOMAIN r \ H, G)
    BY <1>6 DEF r
  <2> QED BY <2>1, <2>2, <2>3 DEF Within, Over
<1> QED BY <1>7 DEF H
-----------------------------------------------------------------------------
(* The split set: among the headers of the fresh directory it is the fresh *)
(* one, whatever the leftovers include.                                    *)

SameSplit(S, s) == S \cap DOMAIN Heads(s) = SplitOf(s)

LEMMA SplitAgrees ==
  ASSUME NEW s, GoodSources(s), Complete(s), NEW d, NEW p,
         Agrees(d, WithClones(s)), Agrees(p, Heads(s))
  PROVE  SameSplit(SplitSet(d, p), s)
<1> DEFINE c == WithClones(s)
           h == Heads(s)
           H == DOMAIN h
           S == SplitSet(d, p)
           Z == SplitSet(c, h)
<1>1. /\ H \subseteq DOMAIN c \cap HeaderNames /\ \A n \in H : n[1] = 0
  BY FreshNames
<1>2. \A n \in H : c[n].inc \subseteq H
  BY ClonedWithin DEF Within
<1>3. Splittable(h) = H /\ H \subseteq Splittable(p)
  BY <1>1 DEF Splittable, Agrees
<1>4. \A n \in H : d[n] = c[n] /\ p[n] = h[n]
  BY <1>1 DEF Agrees
<1>5. Changed(d, p) \cap H = Changed(c, h)
  BY <1>3, <1>4 DEF Changed
<1>6. /\ Changed(d, p) \subseteq S /\ ClosedIn(d, p, S) /\ S \subseteq Splittable(p)
      /\ Changed(c, h) \subseteq Z /\ ClosedIn(c, h, Z) /\ Z \subseteq H
  BY <1>3, SplitSetClosed DEF SplitSet
<1>7. SplitOf(s) = Z
  BY DEF SplitOf
<1>8. S \subseteq Z \cup (Splittable(p) \ H)
  <2> DEFINE T == Z \cup (Splittable(p) \ H)
  <2>1. T \in SUBSET Splittable(p)
    BY <1>3, <1>6
  <2>2. Changed(d, p) \subseteq T
    BY <1>5, <1>6 DEF Changed
  <2>3. ClosedIn(d, p, T)
    <3> SUFFICES ASSUME NEW n \in H, d[n].inc \cap T # {} PROVE n \in Z
      BY DEF ClosedIn
    <3>1. d[n].inc \cap Z # {}
      BY <1>2, <1>4
    <3> QED BY <1>3, <1>4, <1>6, <3>1 DEF ClosedIn
  <2> HIDE DEF T
  <2> QED BY <2>1, <2>2, <2>3, SplitSetLeast DEF T
<1>9. Z \subseteq S
  <2> DEFINE T == S \cap H
  <2>1. T \in SUBSET Splittable(h)
    BY <1>3
  <2>2. Changed(c, h) \subseteq T
    BY <1>3, <1>5, <1>6 DEF Changed
  <2>3. ClosedIn(c, h, T)
    <3> SUFFICES ASSUME NEW n \in H, c[n].inc \cap T # {} PROVE n \in S
      BY <1>3 DEF ClosedIn
    <3>1. d[n].inc \cap S # {}
      BY <1>4
    <3> QED BY <1>3, <1>6, <3>1 DEF ClosedIn
  <2> HIDE DEF T, c, h
  <2>4. Z \subseteq T
    BY <2>1, <2>2, <2>3, SplitSetLeast
  <2> QED BY <2>4 DEF T
<1> HIDE DEF S, Z, H
<1>10. S \cap H = Z
  BY <1>6, <1>8, <1>9
<1> QED BY <1>7, <1>10 DEF SameSplit, S, H

\* The shim includes nothing: it is split only if it changed.
LEMMA ShimSplit ==
  ASSUME NEW d, NEW p, TheShim \in SplitSet(d, p), d[TheShim].inc = {}
  PROVE  TheShim \in Changed(d, p)
<1> SUFFICES ASSUME TheShim \notin Changed(d, p) PROVE FALSE
  OBVIOUS
<1> DEFINE S == SplitSet(d, p)
           T == S \ {TheShim}
<1>1. Changed(d, p) \subseteq S /\ ClosedIn(d, p, S) /\ S \subseteq Splittable(p)
  BY SplitSetClosed DEF SplitSet
<1> HIDE DEF S
<1>2. ClosedIn(d, p, T)
  BY <1>1 DEF ClosedIn
<1>3. T \in SUBSET Splittable(p) /\ Changed(d, p) \subseteq T
  BY <1>1
<1> HIDE DEF T
<1>4. S \subseteq T
  BY <1>2, <1>3, SplitSetLeast DEF S
<1> QED BY <1>4 DEF T, S

LEMMA PartAgrees ==
  ASSUME NEW s, GoodSources(s), Complete(s), NEW d, NEW p, Good(d), Good(p),
         DOMAIN p \subseteq DOMAIN d \cap HeaderNames, Plainly(d), Plainly(p),
         Agrees(d, WithClones(s)), Agrees(p, Heads(s)),
         TheShim \in DOMAIN p /\ p[TheShim].whole => d[TheShim].whole,
         NEW e, e = Over(SplitWrites(d, p, SplitSet(d, p)), d)
  PROVE  IF TheShim \in SplitSet(d, p) THEN ~e[TheShim].whole ELSE Agrees(e, Parted(s))
<1> DEFINE c == WithClones(s)
           H == DOMAIN Heads(s)
           S == SplitSet(d, p)
           Z == SplitOf(s)
           w == SplitWrites(d, p, S)
           v == SplitWrites(c, Heads(s), Z)
<1>1. GoodSplit(S, d) /\ S \subseteq DOMAIN p /\ GoodSplit(Z, c)
  BY SplitSetGood, FreshLate
<1>2. S \cap H = Z
  BY SplitAgrees DEF SameSplit
<1>3. /\ DOMAIN w = S \cup {Sibling(m) : m \in S}
      /\ DOMAIN v = Z \cup {Sibling(m) : m \in Z}
  BY DEF SplitWrites
<1>4. \A m \in S : w[m] = p[m] /\ w[Sibling(m)] = d[m]
  <2> HIDE DEF S
  <2> QED BY <1>1, SplitWritten
<1>5. \A m \in Z : v[m] = Heads(s)[m] /\ v[Sibling(m)] = c[m]
  <2> HIDE DEF Z, c
  <2> QED BY <1>1, SplitWritten
<1>6. Parted(s) = Over(v, c)
  BY DEF Parted
<1>7. ASSUME TheShim \in S PROVE ~p[TheShim].whole
  <2>1. TheShim \in DOMAIN p /\ TheShim \in DOMAIN d
    BY <1>1, <1>7
  <2>2. p[TheShim] \in ShimOrTorn /\ d[TheShim] \in ShimOrTorn
    BY <2>1 DEF Plainly
  <2>3. TheShim \in Changed(d, p)
    BY <1>7, <2>2, ShimTexts, ShimSplit
  <2>4. d[TheShim] # p[TheShim]
    BY <2>3 DEF Changed
  <2>5. ShimText.whole /\ ~Torn(ShimText).whole
    <3>1. ShimText \in Texts /\ ShimText.whole
      BY ShimTexts DEF ShimOrTorn, ShimText, Text
    <3> QED BY <3>1 DEF Torn, Texts
  <2> QED BY <2>1, <2>2, <2>4, <2>5 DEF ShimOrTorn
<1>8. CASE TheShim \in S
  <2> HIDE DEF S, w
  <2>1. e[TheShim] = p[TheShim]
    BY <1>3, <1>4, <1>8 DEF Over, w, S
  <2> QED BY <1>7, <1>8, <2>1 DEF S
<1>9. ASSUME TheShim \notin S, NEW n \in DOMAIN Parted(s)
      PROVE  n \in DOMAIN e /\ e[n] = Parted(s)[n]
  <2> HIDE DEF S, Z, v, w, c
  <2>0. e = Over(w, d)
    BY DEF w, S
  <2>1. CASE n \in Z
    <3>1. n \in S /\ p[n] = Heads(s)[n]
      BY <1>2, <2>1 DEF Agrees
    <3> QED BY <1>3, <1>4, <1>5, <1>6, <2>0, <2>1, <3>1 DEF Over
  <2>2. ASSUME NEW m \in Z, n = Sibling(m) PROVE n \in DOMAIN e /\ e[n] = Parted(s)[n]
    <3>1. m \in S /\ m \in DOMAIN c /\ d[m] = c[m]
      BY <1>1, <1>2, <2>2 DEF Agrees, GoodSplit, c
    <3>2. n \in DOMAIN w /\ n \in DOMAIN v /\ w[n] = d[m] /\ v[n] = c[m]
      BY <1>3, <1>4, <1>5, <2>2, <3>1
    <3>3. n \in DOMAIN e /\ e[n] = w[n] /\ Parted(s)[n] = v[n]
      BY <1>6, <2>0, <3>2 DEF Over
    <3> QED BY <3>1, <3>2, <3>3
  <2>3. CASE n \notin DOMAIN v
    <3>1. n \in DOMAIN c /\ Parted(s)[n] = c[n] /\ n \in DOMAIN d /\ d[n] = c[n]
      BY <1>6, <1>9, <2>3 DEF Over, Agrees, c
    <3>2. n[1] = 0 /\ (n \in HeaderNames => n \in H \/ n = TheShim)
      BY <3>1, FreshNames DEF c
    <3>3. n \notin S
      BY <1>1, <1>2, <1>3, <1>9, <2>3, <3>2
    <3>4. n \notin DOMAIN w
      BY <1>1, <1>3, <3>2, <3>3, SiblingsApart
    <3> QED BY <2>0, <3>1, <3>4 DEF Over
  <2> QED BY <1>3, <2>1, <2>2, <2>3
<1> QED BY <1>8, <1>9 DEF Agrees
-----------------------------------------------------------------------------
(* The passes after the split.                                             *)

LEMMA MigratedSame ==
  ASSUME NEW s, GoodSources(s), NEW S, SameSplit(S, s), NEW d, GoodSplit(S, d),
         NEW f, DOMAIN f = DOMAIN Replaced(s), DOMAIN f \subseteq DOMAIN d
  PROVE  \A n \in DOMAIN f : n \in Migrated(d, S) <=> n \in Migrated(f, SplitOf(s))
<1> DEFINE Z == SplitOf(s)
<1>1. Z \subseteq S
  BY DEF SameSplit
<1>2. ASSUME NEW n \in DOMAIN f, n \in {Sibling(m) : m \in S} PROVE n \in {Sibling(m) : m \in Z}
  <2>1. n[1] = 1
    BY <1>2, SiblingsApart
  <2> QED BY <2>1, FreshNames
<1> HIDE DEF Z
<1> QED BY <1>1, <1>2 DEF Migrated, Units, Z

\* The siblings and units of a fresh directory are in it.
LEMMA FreshMigrated ==
  ASSUME NEW s, GoodSources(s), NEW f, Good(f), DOMAIN f = DOMAIN Replaced(s)
  PROVE  /\ Migrated(f, SplitOf(s)) \subseteq DOMAIN f \ DOMAIN Heads(s)
         /\ GoodSplit(SplitOf(s), f)
<1>1. GoodSplit(SplitOf(s), WithClones(s)) /\ SplitOf(s) \subseteq DOMAIN Heads(s)
      /\ DOMAIN Parted(s) = DOMAIN WithClones(s) \cup {Sibling(n) : n \in SplitOf(s)}
      /\ DOMAIN Replaced(s) = DOMAIN OverrideWrites \cup DOMAIN Parted(s)
  BY FreshLate
<1>2. GoodSplit(SplitOf(s), f)
  BY <1>1 DEF GoodSplit
<1>3. \A n \in SplitOf(s) : Sibling(n) \in DOMAIN f
  BY <1>1
<1>4. /\ Migrated(f, SplitOf(s)) \subseteq DOMAIN f
      /\ \A n \in Migrated(f, SplitOf(s)) : n[2] \in Headers \cup {Shim} => n[1] = 1
  BY <1>2, <1>3, MigratedFiles
<1>5. \A n \in DOMAIN Heads(s) : n[2] \in Headers \cup {Shim} /\ n[1] = 0
  <2>1. DOMAIN Heads(s) \subseteq DOMAIN WithClones(s) \cap HeaderNames
        /\ \A n \in DOMAIN WithClones(s) : n[1] = 0
    BY FreshNames
  <2> QED BY <2>1 DEF HeaderNames
<1> QED BY <1>2, <1>4, <1>5

LEMMA WrapAgrees ==
  ASSUME NEW s, GoodSources(s), NEW S, SameSplit(S, s), NEW d, GoodSplit(S, d),
         Agrees(d, Replaced(s))
  PROVE  Agrees(Over(WrapWrites(d, S), d), Wrapped(s))
<1> DEFINE f == Replaced(s)
           w == WrapWrites(d, S)
           v == WrapWrites(f, SplitOf(s))
<1>1. Good(f)
  BY FreshLate
<1>2. Migrated(f, SplitOf(s)) \subseteq DOMAIN f
  BY <1>1, FreshMigrated
<1>3. DOMAIN f \subseteq DOMAIN d
  BY DEF Agrees
<1>4. \A n \in DOMAIN f : n \in Migrated(d, S) <=> n \in Migrated(f, SplitOf(s))
  BY <1>3, MigratedSame
<1>5. DOMAIN v \subseteq DOMAIN f
  BY <1>2 DEF WrapWrites
<1>6. \A n \in DOMAIN f : (n \in DOMAIN w <=> n \in DOMAIN v) /\ (n \in DOMAIN v => w[n] = v[n])
  BY <1>4 DEF WrapWrites, Agrees
<1> HIDE DEF w, v
<1> QED BY <1>5, <1>6, PointwiseAgrees DEF w, v, Wrapped

LEMMA IncludeAgrees ==
  ASSUME NEW s, GoodSources(s), Complete(s), NEW S, SameSplit(S, s), TheShim \notin S,
         NEW d, GoodSplit(S, d), Agrees(d, Wrapped(s))
  PROVE  Agrees(Over(IncludeWrites(d, S), d), Bound(s))
<1> DEFINE f == Wrapped(s)
           Z == SplitOf(s)
           w == IncludeWrites(d, S)
           v == IncludeWrites(f, Z)
<1>1. Good(f) /\ DOMAIN f = DOMAIN Replaced(s)
  BY FreshLate
<1>2. Migrated(f, Z) \subseteq DOMAIN f \ DOMAIN Heads(s)
  BY <1>1, FreshMigrated
<1>3. DOMAIN f \subseteq DOMAIN d
  BY DEF Agrees
<1>4. \A n \in DOMAIN f : n \in Migrated(d, S) <=> n \in Migrated(f, Z)
  BY <1>1, <1>3, MigratedSame
<1>5. \A n \in Migrated(f, Z) : f[n].inc \subseteq DOMAIN Heads(s) \cup {TheShim}
  BY <1>2, WrappedWithin DEF Within
<1>6. \A m \in DOMAIN Heads(s) \cup {TheShim} : m \in S <=> m \in Z
  BY FreshNames DEF SameSplit
<1>7. DOMAIN v = Migrated(f, Z) /\ DOMAIN w = Migrated(d, S)
  BY DEF IncludeWrites
<1>8. ASSUME NEW n \in Migrated(f, Z) PROVE w[n] = v[n]
  <2>1. d[n] = f[n] /\ n \in Migrated(d, S)
    BY <1>2, <1>4, <1>8 DEF Agrees
  <2>2. {IF m \in S THEN Sibling(m) ELSE m : m \in f[n].inc}
          = {IF m \in Z THEN Sibling(m) ELSE m : m \in f[n].inc}
    BY <1>5, <1>6
  <2>3. w[n] = [f[n] EXCEPT !.inc = {IF m \in S THEN Sibling(m) ELSE m : m \in f[n].inc}]
    BY <2>1 DEF IncludeWrites
  <2>4. v[n] = [f[n] EXCEPT !.inc = {IF m \in Z THEN Sibling(m) ELSE m : m \in f[n].inc}]
    BY DEF IncludeWrites
  <2> QED BY <2>2, <2>3, <2>4
<1> HIDE DEF w, v, Z
<1>9. \A n \in DOMAIN f : (n \in DOMAIN w <=> n \in DOMAIN v) /\ (n \in DOMAIN v => w[n] = v[n])
  BY <1>4, <1>7, <1>8
<1> QED BY <1>2, <1>7, <1>9, PointwiseAgrees DEF w, v, Z, Bound

LEMMA PrivateAgrees ==
  ASSUME NEW s, GoodSources(s), NEW S, SameSplit(S, s), TheShim \notin S,
         NEW d, GoodSplit(S, d), Agrees(d, Bound(s))
  PROVE  Agrees(Over(PrivateWrites(d, S), d), Fresh(s))
<1> DEFINE f == Bound(s)
           Z == SplitOf(s)
           w == PrivateWrites(d, S)
           v == PrivateWrites(f, Z)
<1>1. DOMAIN f = DOMAIN Replaced(s)
  BY FreshLate
<1>2. \A n \in S : n \in HeaderNames /\ n[1] = 0
  BY DEF GoodSplit, HeaderNames, Names, Bases
<1>3. \A n \in DOMAIN f : n \in S <=> n \in Z
  BY <1>1, <1>2, FreshNames DEF SameSplit
<1>4. DOMAIN v \subseteq DOMAIN f
  BY DEF PrivateWrites
<1>5. \A n \in DOMAIN f : (n \in DOMAIN w <=> n \in DOMAIN v) /\ (n \in DOMAIN v => w[n] = v[n])
  BY <1>3 DEF PrivateWrites, Agrees
<1> HIDE DEF w, v, Z
<1> QED BY <1>4, <1>5, PointwiseAgrees, FreshPhases DEF w, v, Z
-----------------------------------------------------------------------------
(* The phases of a run.                                                    *)

SnapInv ==
  pc \in Early =>
    /\ Agrees(pristine, Heads(src))
    /\ TheShim \in DOMAIN pristine /\ pristine[TheShim].whole => disk[TheShim].whole

PartInv == pc \in After => SameSplit(split, src) /\ (TheShim \in split => ShimIsTorn)

AgreeInv ==
  /\ pc = "patch" => Agrees(disk, Staged(src))
  /\ pc = "twin"  => Agrees(disk, Amended(src))
  /\ pc = "clone" => Agrees(disk, Twinned(src))
  /\ pc = "split" => Agrees(disk, WithClones(src))
  /\ ~ShimIsTorn => /\ pc = "override"  => Agrees(disk, Parted(src))
                    /\ pc = "wrap"      => Agrees(disk, Replaced(src))
                    /\ pc = "include"   => Agrees(disk, Wrapped(src))
                    /\ pc = "privatize" => Agrees(disk, Bound(src))
                    /\ pc = "done"      => Agrees(disk, Fresh(src))

FreshInv == PlainInv /\ Complete(src) /\ SnapInv /\ PartInv /\ AgreeInv

\* After the split no pass writes the shim.
LEMMA ShimStays ==
  ASSUME TypeInv, Plainly(disk), pc \in After \ {"done"}, disk' = Over(Writes, disk)
  PROVE  ShimIsTorn' <=> ShimIsTorn
<1>1. TheShim \in HeaderNames /\ TheShim[1] = 0 /\ TheShim[2] = Shim
  BY DEF TheShim, HeaderNames, Names, Bases
<1>2. TheShim \notin DOMAIN Writes
  <2>1. CASE pc = "override"
    BY <2>1, CMigrationAssumption DEF Writes, OverrideWrites, TheShim
  <2>2. CASE pc \in {"wrap", "include"}
    <3>1. TheShim \notin Migrated(disk, split)
      BY <1>1, <2>2, MigratedFiles DEF TypeInv, After
    <3> QED BY <2>2, <3>1 DEF Writes, WrapWrites, IncludeWrites
  <2>3. CASE pc = "privatize"
    <3>1. Shim \notin Manifest
      BY CMigrationAssumption DEF Texted, Upstream
    <3>2. TheShim \in DOMAIN disk => disk[TheShim].of = Shim
      BY ShimTexts DEF Plainly
    <3> QED BY <2>3, <3>1, <3>2 DEF Writes, PrivateWrites
  <2> QED BY <2>1, <2>2, <2>3 DEF After
<1> QED BY <1>2 DEF ShimIsTorn, TheShim, Over

LEMMA EditsComplete ==
  ASSUME Complete(src), [Next]_vars PROVE Complete(src)'
<1>1. CASE UNCHANGED src
  BY <1>1 DEF Complete
<1>2. ASSUME NEW f \in Upstream, EditSource(f) PROVE Complete(src)'
  BY <1>2 DEF EditSource, Complete
<1>3. CASE Kill
  <2>1. src' = src
    BY <1>3, Zenon DEF Kill
  <2> QED BY <1>1, <2>1
<1> QED BY Steps, <1>1, <1>2, <1>3
        DEF Start, Stage, PatchHeaders, TwinHeaders, CloneFiles, SplitHeaders, Split,
            CopyOverrides, WrapFiles, RewriteIncludes, Privatize, Pass, vars

LEMMA SplitFresh ==
  ASSUME FreshInv, SplitHeaders PROVE (SnapInv /\ PartInv /\ AgreeInv)'
<1> DEFINE S == SplitSet(disk, pristine)
<1>1. /\ pc = "split" /\ pc' = "override" /\ src' = src /\ split' = S
      /\ disk' = Over(SplitWrites(disk, pristine, S), disk)
  BY DEF SplitHeaders, Split, Pass
<1>2. /\ GoodSources(src) /\ Complete(src) /\ Good(disk) /\ Good(pristine)
      /\ DOMAIN pristine \subseteq DOMAIN disk \cap HeaderNames
      /\ Plainly(disk) /\ Plainly(pristine)
      /\ Agrees(disk, WithClones(src)) /\ Agrees(pristine, Heads(src))
      /\ TheShim \in DOMAIN pristine /\ pristine[TheShim].whole => disk[TheShim].whole
  BY <1>1 DEF FreshInv, PlainInv, TypeInv, SnapInv, AgreeInv, Early
<1>3. SameSplit(S, src)
  BY <1>2, SplitAgrees
<1>4. IF TheShim \in S THEN ~disk'[TheShim].whole ELSE Agrees(disk', Parted(src))
  BY <1>1, <1>2, PartAgrees
<1>5. GoodSplit(S, disk) /\ DOMAIN disk \subseteq DOMAIN disk'
  BY <1>1, <1>2, SplitSetGood DEF Over
<1> HIDE DEF S
<1>6. TheShim \in S => ShimIsTorn'
  BY <1>4, <1>5 DEF GoodSplit, ShimIsTorn, TheShim
<1>7. PartInv'
  BY <1>1, <1>3, <1>6 DEF PartInv, SameSplit
<1>8. AgreeInv'
  BY <1>1, <1>4, <1>6 DEF AgreeInv, Agrees
<1> QED BY <1>1, <1>7, <1>8 DEF SnapInv, Early

LEMMA EarlyFresh ==
  ASSUME FreshInv, Stage \/ PatchHeaders \/ TwinHeaders \/ CloneFiles
  PROVE  (SnapInv /\ PartInv /\ AgreeInv)'
<1>1. /\ src' = src /\ pc' \in Early /\ disk' = Over(Writes, disk)
      /\ pc = "stage" <=> Stage
  BY DEF Stage, PatchHeaders, TwinHeaders, CloneFiles, Pass, Writes, Early
<1>2. GoodSources(src)
  BY DEF FreshInv, PlainInv, TypeInv
<1>3. CASE Stage
  <2>1. disk' = Over(Staged(src), disk) /\ pristine' = Only(disk', HeaderNames) /\ pc' = "patch"
    BY <1>3 DEF Stage, Pass, Staged
  <2>2. Agrees(disk', Staged(src))
    BY <2>1 DEF Agrees, Over
  <2>3. Agrees(pristine', Heads(src))
    BY <2>1, <2>2 DEF Agrees, Heads, Only
  <2>4. TheShim \in DOMAIN pristine' => pristine'[TheShim] = disk'[TheShim]
    BY <2>1 DEF Only
  <2> QED BY <1>1, <2>1, <2>2, <2>3, <2>4 DEF SnapInv, PartInv, AgreeInv, After, Agrees
<1>4. CASE PatchHeaders \/ TwinHeaders \/ CloneFiles
  <2>1. pristine' = pristine /\ pc \in Early
    BY <1>4 DEF PatchHeaders, TwinHeaders, CloneFiles, Pass, Early
  <2>2. ASSUME TheShim \in DOMAIN pristine, pristine[TheShim].whole PROVE disk'[TheShim].whole
    <3>1. TheShim \in DOMAIN disk /\ disk[TheShim].whole
      BY <2>1, <2>2 DEF FreshInv, PlainInv, TypeInv, SnapInv
    <3>2. disk[TheShim] \in ShimOrTorn
      BY <3>1 DEF FreshInv, PlainInv, Plainly
    <3>3. TheShim \in DOMAIN Writes => Writes[TheShim].whole
      <4>1. CASE PatchHeaders
        <5>1. Writes = PatchWrites(disk)
          BY <4>1 DEF PatchHeaders, Pass, Writes
        <5>2. TheShim \notin DOMAIN PatchWrites(disk)
          BY CMigrationAssumption DEF PatchWrites, TheShim
        <5> QED BY <5>1, <5>2
      <4>2. CASE TwinHeaders
        <5>1. Writes = TwinWrites(disk)
          BY <4>2 DEF TwinHeaders, Pass, Writes
        <5>2. TheShim \notin DOMAIN TwinWrites(disk)
          BY <3>2, ShimTexts DEF TwinWrites
        <5> QED BY <5>1, <5>2
      <4>3. CASE CloneFiles
        <5>1. Writes = CloneWrites(src)
          BY <4>3 DEF CloneFiles, Pass, Writes
        <5>2. TheShim \in DOMAIN CloneWrites(src) => CloneWrites(src)[TheShim].whole
          BY DEF CloneWrites, TheShim, Text
        <5> QED BY <5>1, <5>2
      <4> QED BY <1>4, <4>1, <4>2, <4>3
    <3> QED BY <1>1, <3>1, <3>3 DEF Over
  <2>3. SnapInv'
    BY <1>1, <2>1, <2>2 DEF FreshInv, SnapInv, Agrees
  <2>4. AgreeInv'
    <3>1. CASE PatchHeaders
      <4>1. pc = "patch" /\ pc' = "twin" /\ disk' = Over(PatchWrites(disk), disk)
        BY <3>1 DEF PatchHeaders, Pass
      <4>2. Agrees(disk, Staged(src))
        BY <4>1 DEF FreshInv, AgreeInv
      <4>3. Agrees(disk', Amended(src))
        BY <4>1, <4>2, PatchAgrees DEF Amended
      <4> QED BY <1>1, <4>1, <4>3 DEF AgreeInv, Agrees
    <3>2. CASE TwinHeaders
      <4>1. pc = "twin" /\ pc' = "clone" /\ disk' = Over(TwinWrites(disk), disk)
        BY <3>2 DEF TwinHeaders, Pass
      <4>2. Agrees(disk, Amended(src))
        BY <4>1 DEF FreshInv, AgreeInv
      <4>3. Agrees(disk', Twinned(src))
        BY <4>1, <4>2, TwinAgrees DEF Twinned
      <4> QED BY <1>1, <4>1, <4>3 DEF AgreeInv, Agrees
    <3>3. CASE CloneFiles
      <4>1. pc = "clone" /\ pc' = "split" /\ disk' = Over(CloneWrites(src), disk)
        BY <3>3 DEF CloneFiles, Pass
      <4>2. Agrees(disk, Twinned(src))
        BY <4>1 DEF FreshInv, AgreeInv
      <4>3. Agrees(disk', WithClones(src))
        BY <4>1, <4>2, OverAgrees DEF WithClones
      <4> QED BY <1>1, <4>1, <4>3 DEF AgreeInv, Agrees
    <3> QED BY <1>4, <3>1, <3>2, <3>3
  <2> QED BY <1>1, <2>3, <2>4 DEF PartInv, Early, After
<1> QED BY <1>3, <1>4

LEMMA LateFresh ==
  ASSUME FreshInv, CopyOverrides \/ WrapFiles \/ RewriteIncludes \/ Privatize
  PROVE  (SnapInv /\ PartInv /\ AgreeInv)'
<1>1. /\ src' = src /\ split' = split /\ pc' \in After /\ pc \in After \ {"done"}
      /\ disk' = Over(Writes, disk)
  BY DEF CopyOverrides, WrapFiles, RewriteIncludes, Privatize, Pass, Writes, After
<1>2. TypeInv /\ Plainly(disk) /\ Complete(src) /\ GoodSources(src) /\ GoodSplit(split, disk)
  BY DEF FreshInv, PlainInv, TypeInv
<1>3. ShimIsTorn' <=> ShimIsTorn
  BY <1>1, <1>2, ShimStays
<1>4. SameSplit(split, src) /\ (TheShim \in split => ShimIsTorn)
  BY <1>1 DEF FreshInv, PartInv
<1>5. PartInv'
  BY <1>1, <1>3, <1>4 DEF PartInv, SameSplit
<1>6. AgreeInv'
  <2> SUFFICES ASSUME ~ShimIsTorn PROVE AgreeInv'
    BY <1>1, <1>3 DEF AgreeInv, After
  <2>0. TheShim \notin split
    BY <1>4
  <2>1. CASE CopyOverrides
    <3>1. pc = "override" /\ pc' = "wrap" /\ disk' = Over(OverrideWrites, disk)
      BY <2>1 DEF CopyOverrides, Pass
    <3>2. Agrees(disk, Parted(src))
      BY <3>1 DEF FreshInv, AgreeInv
    <3>3. Agrees(disk', Replaced(src))
      BY <3>1, <3>2, OverAgrees DEF Replaced
    <3> QED BY <1>1, <3>1, <3>3 DEF AgreeInv, Agrees
  <2>2. CASE WrapFiles
    <3>1. pc = "wrap" /\ pc' = "include" /\ disk' = Over(WrapWrites(disk, split), disk)
      BY <2>2 DEF WrapFiles, Pass
    <3>2. Agrees(disk, Replaced(src))
      BY <3>1 DEF FreshInv, AgreeInv
    <3>3. Agrees(disk', Wrapped(src))
      BY <1>2, <1>4, <3>1, <3>2, WrapAgrees
    <3> QED BY <1>1, <3>1, <3>3 DEF AgreeInv, Agrees
  <2>3. CASE RewriteIncludes
    <3>1. pc = "include" /\ pc' = "privatize" /\ disk' = Over(IncludeWrites(disk, split), disk)
      BY <2>3 DEF RewriteIncludes, Pass
    <3>2. Agrees(disk, Wrapped(src))
      BY <3>1 DEF FreshInv, AgreeInv
    <3>3. Agrees(disk', Bound(src))
      BY <1>2, <1>4, <2>0, <3>1, <3>2, IncludeAgrees
    <3> QED BY <1>1, <3>1, <3>3 DEF AgreeInv, Agrees
  <2>4. CASE Privatize
    <3>1. pc = "privatize" /\ pc' = "done" /\ disk' = Over(PrivateWrites(disk, split), disk)
      BY <2>4 DEF Privatize, Pass
    <3>2. Agrees(disk, Bound(src))
      BY <3>1 DEF FreshInv, AgreeInv
    <3>3. Agrees(disk', Fresh(src))
      BY <1>2, <1>4, <2>0, <3>1, <3>2, PrivateAgrees
    <3> QED BY <1>1, <3>1, <3>3 DEF AgreeInv, Agrees
  <2> QED BY <2>1, <2>2, <2>3, <2>4
<1>7. SnapInv'
  BY <1>1 DEF SnapInv, After, Early
<1> QED BY <1>5, <1>6, <1>7

LEMMA FreshStep == FreshInv /\ [Next]_vars => FreshInv'
<1> SUFFICES ASSUME FreshInv, [Next]_vars PROVE (SnapInv /\ PartInv /\ AgreeInv)'
  BY PlainStep, EditsComplete DEF FreshInv
<1>1. CASE Start \/ Kill \/ \E f \in Upstream : EditSource(f)
  <2>1. pc' \in {"stage", "idle"}
    <3>1. CASE Kill
      BY <3>1, Zenon DEF Kill
    <3> QED BY <1>1, <3>1 DEF Start, EditSource
  <2> QED BY <2>1 DEF SnapInv, PartInv, AgreeInv, Early, After
<1>2. CASE UNCHANGED vars
  <2>1. UNCHANGED <<src, disk, pc, pristine, split>>
    BY <1>2 DEF vars
  <2> QED BY <2>1 DEF FreshInv, SnapInv, PartInv, AgreeInv, Agrees, SameSplit, ShimIsTorn
<1> QED BY Steps, <1>1, <1>2, EarlyFresh, SplitFresh, LateFresh

LEMMA FreshInit == Init => FreshInv
<1> SUFFICES ASSUME Init PROVE FreshInv
  OBVIOUS
<1>1. Complete(src)
  <2>1. \A f \in Overridden \cup Upstream : f \in Texted
    BY DEF Texted
  <2>2. \A f \in Overridden \cup Upstream : Incs[f] \cup Dots[f] \subseteq Headers
    BY <2>1, CMigrationAssumption
  <2>3. \A h \in Headers : src[h].here
    BY DEF Init, Upstream
  <2> QED BY <2>2, <2>3 DEF Complete
<1> QED BY <1>1, PlainInit DEF Init, FreshInv, SnapInv, PartInv, AgreeInv, Early, After

\* A completed run leaves what a run into an empty directory leaves, whatever
\* earlier runs, kills and upstream changes left there; but for a shim that
\* was cut short and that no pass of this run wrote again.
THEOREM AlwaysFresh == Spec => []LikeAFreshTree
<1>1. FreshInv => LikeAFreshTree
  BY DEF FreshInv, AgreeInv, Agrees, LikeAFreshTree
<1> QED BY <1>1, FreshInit, FreshStep, PTL DEF Spec
=============================================================================
