----------------------- MODULE PrefixClassifierProofs -----------------------
(* The greedy loop's outcome is the stable one, prefix pairs always win,   *)
(* and a rename map that is built keeps families apart: for every set of   *)
(* names and every prefix map.                                             *)
EXTENDS PrefixClassifier, TLAPS

\* A set of candidates visited so far.
Visited == Candidates(symbols) \ todo

LoopInv == /\ todo \subseteq Candidates(symbols)
           /\ families \subseteq Visited
           /\ phase # "pick" => todo = {}

\* What has been visited comes before what has not.
OrderInv == \A c \in Visited, e \in todo : Before(c, e)

\* A visited group that is not a family lost a member to an earlier one.
BlockInv == \A c \in Visited \ families :
              \E f \in families : Before(f, c) /\ Members(f) \cap Members(c) # {}

\* A map that was built had no collision.
MapInv == phase \in {"extra", "done"} => ~Collision(MapOf(families, pmap), families)

IInv == /\ symbols \in SymbolSets
        /\ pmap \in PrefixMaps
        /\ LoopInv
        /\ OrderInv
        /\ BlockInv
        /\ FamiliesAreDisjoint
        /\ MapInv

LEMMA IInvInit == Init => IInv
BY DEF Init, IInv, LoopInv, OrderInv, BlockInv, FamiliesAreDisjoint, MapInv, Visited

\* The loop's turn: the invariant but for MapInv, which says nothing of it.
LEMMA PickKeeps ==
  ASSUME IInv, NEW c \in todo, Pick(c)
  PROVE  IInv'
<1>1. /\ phase = "pick" /\ phase' = "pick" /\ todo' = todo \ {c}
      /\ symbols' = symbols /\ pmap' = pmap
      /\ \A e \in todo \ {c} : Before(c, e)
  BY DEF Pick
<1>2. c \in Candidates(symbols) BY DEF IInv, LoopInv
<1>3. Visited' = Visited \cup {c} BY <1>1, <1>2 DEF Visited
<1>4. c \notin Visited BY DEF Visited
<1>5. OrderInv' BY <1>1, <1>3 DEF IInv, OrderInv
<1>6. MapInv' BY <1>1 DEF MapInv
<1>7. CASE Members(c) \cap Assigned = {}
  <2>1. families' = families \cup {c} BY <1>7 DEF Pick
  <2>2. LoopInv' BY <2>1, <1>1, <1>3 DEF IInv, LoopInv
  <2>3. BlockInv' BY <2>1, <1>3 DEF IInv, BlockInv
  <2>4. FamiliesAreDisjoint'
    BY <2>1, <1>7 DEF IInv, FamiliesAreDisjoint, Assigned, AssignedIn
  <2> QED BY <1>1, <1>5, <1>6, <2>2, <2>3, <2>4 DEF IInv
<1>8. CASE Members(c) \cap Assigned # {}
  <2>1. families' = families BY <1>8 DEF Pick
  <2>2. LoopInv' BY <2>1, <1>1, <1>3 DEF IInv, LoopInv
  <2>3. PICK x \in Members(c) : x \in Assigned BY <1>8
  <2>4. PICK f \in families : x \in Members(f) BY <2>3 DEF Assigned, AssignedIn
  <2>5. Before(f, c) BY DEF IInv, LoopInv, OrderInv
  <2>6. BlockInv' BY <2>1, <2>3, <2>4, <2>5, <1>3 DEF IInv, BlockInv
  <2>7. FamiliesAreDisjoint' BY <2>1 DEF IInv, FamiliesAreDisjoint
  <2> QED BY <1>1, <1>5, <1>6, <2>2, <2>6, <2>7 DEF IInv
<1> QED BY <1>7, <1>8

\* A step that leaves the families alone.
LEMMA OtherKeeps ==
  ASSUME IInv, UNCHANGED <<symbols, pmap, todo, families>>, todo = {}, MapInv'
  PROVE  IInv'
BY DEF IInv, LoopInv, OrderInv, BlockInv, FamiliesAreDisjoint, Visited

LEMMA IInvStep == IInv /\ [Next]_vars => IInv'
<1> SUFFICES ASSUME IInv, [Next]_vars PROVE IInv'
  OBVIOUS
<1>1. ASSUME NEW c \in todo, Pick(c) PROVE IInv'
  BY <1>1, PickKeeps
<1>2. CASE BuildRenameMap
  <2>1. /\ phase = "pick" /\ todo = {}
        /\ UNCHANGED <<symbols, pmap, todo, families>>
        /\ phase' \in {"raised", "extra"}
        /\ phase' = "extra" => ~Collision(MapOf(families, pmap), families)
    BY <1>2 DEF BuildRenameMap
  <2>2. MapInv'
    BY <2>1 DEF MapInv
  <2> QED BY <2>1, <2>2, OtherKeeps
<1>3. CASE ApplyExtra
  <2>1. /\ phase = "extra" /\ todo = {}
        /\ UNCHANGED <<symbols, pmap, todo, families>>
    BY <1>3 DEF ApplyExtra, IInv, LoopInv
  <2>2. MapInv'
    BY <2>1 DEF IInv, MapInv
  <2> QED BY <2>1, <2>2, OtherKeeps
<1>4. CASE UNCHANGED vars
  BY <1>4 DEF vars, IInv, LoopInv, OrderInv, BlockInv, FamiliesAreDisjoint, MapInv, Visited
<1> QED BY <1>1, <1>2, <1>3, <1>4 DEF Next

THEOREM IInvAlways == Spec => []IInv
BY IInvInit, IInvStep, PTL DEF Spec
-----------------------------------------------------------------------------
LEMMA Stable == IInv => NoBlockingPair
BY DEF IInv, LoopInv, BlockInv, NoBlockingPair, Visited

LEMMA Disjoint == IInv => FamiliesAreDisjoint
BY DEF IInv

\* Which pairs become families is determined by the names alone.
THEOREM AlwaysStable == Spec => []NoBlockingPair
BY IInvAlways, Stable, PTL

\* No name is in two families.
THEOREM AlwaysDisjoint == Spec => []FamiliesAreDisjoint
BY IInvAlways, Disjoint, PTL
-----------------------------------------------------------------------------
(* Names and their twins.                                                  *)

LEMMA NamesAreFunctions ==
  ASSUME NEW n \in Names
  PROVE  /\ n = [i \in DOMAIN n |-> n[i]]
         /\ DOMAIN n \subseteq Nat \ {0}
BY ClassifierAssumption

\* Names with one domain and the same letters are the same name.
LEMMA SameLetters ==
  ASSUME NEW m \in Names, NEW n \in Names, DOMAIN m = DOMAIN n,
         \A i \in DOMAIN m : m[i] = n[i]
  PROVE  m = n
BY NamesAreFunctions

LEMMA CandidateFacts ==
  ASSUME symbols \in SymbolSets, NEW c \in Candidates(symbols)
  PROVE  /\ c.single \in Names /\ c.double \in Names
         /\ c.lo \in Nat \ {0} /\ c.hi \in Nat \ {0}
         /\ Twins(c.single, c.double, Slots(c))
         /\ c = [single |-> c.single, double |-> c.double, lo |-> c.lo, hi |-> c.hi]
<1>1. symbols \subseteq Names BY DEF Names
<1>2. Places(symbols) \subseteq Nat \ {0}
  BY <1>1, NamesAreFunctions DEF Places
<1> QED BY <1>1, <1>2 DEF Candidates

\* No letter is of both precisions, and a type and a precision fix a letter.
LEMMA Letters ==
  /\ SingleChars \cap DoubleChars = {}
  /\ \A x, y \in SingleChars : CharType[x] = CharType[y] => x = y
  /\ \A x, y \in DoubleChars : CharType[x] = CharType[y] => x = y
BY DEF SingleChars, DoubleChars, CharType

\* A name has one twin for given slots.
LEMMA OneTwin ==
  ASSUME NEW m \in Names, NEW n \in Names, NEW d, NEW slots,
         \/ Twins(m, d, slots) /\ Twins(n, d, slots)
         \/ Twins(d, m, slots) /\ Twins(d, n, slots)
  PROVE  m = n
<1>1. DOMAIN m = DOMAIN n BY DEF Twins
<1>2. ASSUME NEW i \in DOMAIN m PROVE m[i] = n[i]
  <2>1. CASE i \in slots BY <1>1, <2>1, Letters DEF Twins
  <2>2. CASE i \notin slots BY <1>1, <2>2 DEF Twins
  <2> QED BY <2>1, <2>2
<1> QED BY <1>1, <1>2, SameLetters

\* The halves of a pair differ in its slots.
LEMMA TwinsDiffer ==
  ASSUME NEW s, NEW d, NEW i, NEW slots, i \in slots, Twins(s, d, slots)
  PROVE  s[i] # d[i] /\ s[i] \in SingleChars /\ d[i] \in DoubleChars
BY Letters DEF Twins

\* Two groups with the same slots that share a name are one group.
LEMMA SharedSlots ==
  ASSUME symbols \in SymbolSets,
         NEW c \in Candidates(symbols), NEW f \in Candidates(symbols),
         c.lo = f.lo, c.hi = f.hi, Members(f) \cap Members(c) # {}
  PROVE  c = f
<1>1. Twins(c.single, c.double, Slots(c)) /\ Twins(f.single, f.double, Slots(c))
  BY CandidateFacts DEF Slots
<1>2. c.lo \in Slots(c) BY DEF Slots
<1>3. c.single[c.lo] \in SingleChars /\ f.single[c.lo] \in SingleChars
      /\ c.double[c.lo] \in DoubleChars /\ f.double[c.lo] \in DoubleChars
  BY <1>1, <1>2, TwinsDiffer
<1>4. c.single # f.double /\ c.double # f.single
  BY <1>3, Letters
<1>5. c.single = f.single \/ c.double = f.double
  BY <1>4 DEF Members
<1>6. c.single = f.single /\ c.double = f.double
  BY <1>1, <1>5, OneTwin, CandidateFacts
<1> QED BY <1>6, CandidateFacts
-----------------------------------------------------------------------------
LEMMA PrefixWins == IInv => PrefixPairsWin
<1> SUFFICES ASSUME IInv, phase # "pick", NEW c \in Candidates(symbols),
                    Slots(c) = {1}, c \notin families
             PROVE  FALSE
  BY DEF PrefixPairsWin
<1>1. c.lo = 1 /\ c.hi = 1 BY DEF Slots
<1>2. PICK f \in families : Before(f, c) /\ Members(f) \cap Members(c) # {}
  BY Stable DEF NoBlockingPair
<1>3. f \in Candidates(symbols) /\ symbols \in SymbolSets
  BY DEF IInv, LoopInv, Visited
<1>4. f.lo \in Nat \ {0} /\ f.hi \in Nat \ {0} BY <1>3, CandidateFacts
<1>5. f.lo = 1 /\ f.hi = 1 BY <1>1, <1>2, <1>4 DEF Before
<1>6. f = c BY <1>1, <1>2, <1>3, <1>5, SharedSlots
<1> QED BY <1>6

\* Two names that differ in their precision prefix alone are always a family.
THEOREM PrefixAlwaysWins == Spec => []PrefixPairsWin
BY IInvAlways, PrefixWins, PTL
-----------------------------------------------------------------------------
(* Targets.                                                                *)

\* A classified name has its target from its one family.
LEMMA TargetOfMember ==
  ASSUME IInv, NEW f \in families, NEW x \in Members(f)
  PROVE  Target(x) = TargetBy(x, f, pmap)
<1>1. (CHOOSE g \in families : x \in Members(g)) = f
  BY DEF IInv, FamiliesAreDisjoint
<1> QED BY <1>1 DEF Target, TargetIn

\* Both halves of a family have one target.
LEMMA HalvesMeet ==
  ASSUME IInv, NEW f \in families
  PROVE  Target(f.single) = Target(f.double)
<1>1. f \in Candidates(symbols) /\ symbols \in SymbolSets
  BY DEF IInv, LoopInv, Visited
<1>2. Twins(f.single, f.double, Slots(f)) BY <1>1, CandidateFacts
<1>3. TargetBy(f.single, f, pmap) = TargetBy(f.double, f, pmap)
  BY <1>2 DEF TargetBy, Twins
<1> QED BY <1>3, TargetOfMember DEF Members

\* One of the two halves is renamed, even if the other keeps its spelling.
LEMMA OneIsRenamed ==
  ASSUME IInv, NEW f \in families
  PROVE  \E x \in Members(f) : x \in Renamed(families, pmap)
<1>1. f \in Candidates(symbols) /\ symbols \in SymbolSets
  BY DEF IInv, LoopInv, Visited
<1>2. f.single # f.double
  <2>1. Twins(f.single, f.double, Slots(f)) BY <1>1, CandidateFacts
  <2>2. f.lo \in Slots(f) BY DEF Slots
  <2>3. f.single[f.lo] # f.double[f.lo] BY <2>1, <2>2, TwinsDiffer
  <2> QED BY <2>3
<1>3. Target(f.single) # f.single \/ Target(f.double) # f.double
  BY <1>2, HalvesMeet
<1> QED BY <1>3 DEF Members, Renamed, AssignedIn, Target

LEMMA Apart == IInv => FamiliesStayApart
<1> SUFFICES ASSUME IInv, phase \in {"extra", "done"},
                    NEW f \in families, NEW a \in Members(f),
                    NEW g \in families, NEW b \in Members(g)
             PROVE  Target(a) = Target(b) <=> SameFamily(a, b)
  BY DEF FamiliesStayApart, Assigned, AssignedIn
<1>1. \A h \in families : \A x, y \in Members(h) : Target(x) = Target(y)
  BY HalvesMeet DEF Members
<1>2. SameFamily(a, b) => Target(a) = Target(b)
  BY <1>1 DEF SameFamily, SameFamilyIn
<1>3. ASSUME Target(a) = Target(b) PROVE SameFamily(a, b)
  <2>1. PICK x \in Members(f) : x \in Renamed(families, pmap) BY OneIsRenamed
  <2>2. PICK y \in Members(g) : y \in Renamed(families, pmap) BY OneIsRenamed
  <2>3. Target(x) = Target(y) BY <1>1, <1>3
  <2>4. ~Collision(MapOf(families, pmap), families) BY DEF IInv, MapInv
  <2>5. x = y \/ SameFamilyIn(x, y, families)
    BY <2>1, <2>2, <2>3, <2>4 DEF Collision, MapOf, Target
  <2>6. f = g
    BY <2>5 DEF SameFamilyIn, IInv, FamiliesAreDisjoint
  <2> QED BY <2>6 DEF SameFamily, SameFamilyIn
<1> QED BY <1>2, <1>3

\* A map that is built merges no two families, spelled alike or not.
THEOREM AlwaysApart == Spec => []FamiliesStayApart
BY IInvAlways, Apart, PTL
=============================================================================
