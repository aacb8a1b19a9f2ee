-------------------------- MODULE PrefixClassifier --------------------------
(* classify_symbols and build_rename_map: which routine names are the      *)
(* single- and double-precision halves of one family, and the name both    *)
(* get in the target precision.                                            *)
(*                                                                         *)
(* A name is a sequence of letters.  A group of the code's dictionaries is *)
(* keyed by (tagged pattern, slot positions); within one pass a key spells *)
(* out its only member, so a group both passes found is one S/C name, one  *)
(* D/Z name and the one or two positions where they differ.                *)
EXTENDS Integers, Sequences, TLC

CONSTANTS
  SymbolSets,  \* the symbol sets considered
  PrefixMaps,  \* the prefix maps considered: the target letter of R and of C
  Alpha,       \* the alphabetical position of each name
  Extra        \* the recipe's extra_renames: a function from names to names

Names == UNION SymbolSets
SingleChars == {"S", "C"}
DoubleChars == {"D", "Z"}
CharType == [ch \in SingleChars \cup DoubleChars |->
               IF ch \in {"S", "D"} THEN "R" ELSE "C"]

ASSUME ClassifierAssumption ==
  /\ Alpha \in [Names -> Nat]
  /\ \A a, b \in Names : Alpha[a] = Alpha[b] => a = b
  /\ Names \subseteq Seq(STRING)
  /\ PrefixMaps \subseteq [{"R", "C"} -> STRING]

VARIABLES
  symbols,   \* the upper-cased symbols of the recipe and its dependencies
  pmap,      \* target_mode.prefix_map
  todo,      \* candidate groups the greedy loop has still to visit
  families,  \* groups it has made families of
  phase,     \* "pick", "raised", "extra", "done"
  rename     \* the rename map

vars == <<symbols, pmap, todo, families, phase, rename>>

\* The slots of a group: one position, or two of different types, or the
\* doubled prefix of ZZDOTC.
SlotsAllowed(s, lo, hi) ==
  \/ lo = hi
  \/ lo < hi /\ CharType[s[lo]] # CharType[s[hi]]
  \/ lo = 1 /\ hi = 2

\* Same letters outside the slots; in them S faces D and C faces Z.
Twins(s, d, slots) ==
  /\ DOMAIN s = DOMAIN d
  /\ slots \subseteq DOMAIN s
  /\ \A i \in slots : /\ s[i] \in SingleChars
                      /\ d[i] \in DoubleChars
                      /\ CharType[s[i]] = CharType[d[i]]
  /\ \A i \in DOMAIN s \ slots : s[i] = d[i]

Slots(c) == {c.lo, c.hi}
Members(c) == {c.single, c.double}

Places(S) == UNION {DOMAIN x : x \in S}

Candidates(S) ==
  {c \in [single : S, double : S, lo : Places(S), hi : Places(S)] :
     /\ Twins(c.single, c.double, Slots(c))
     /\ SlotsAllowed(c.single, c.lo, c.hi)}

\* Mutant: the first slot's position does not count.
BeforeByLength(c, e) ==
  \/ c.lo = c.hi /\ e.lo # e.hi
  \/ /\ (c.lo = c.hi) = (e.lo = e.hi)
     /\ \/ Alpha[c.single] < Alpha[e.single]
        \/ Alpha[c.single] = Alpha[e.single] /\ Alpha[c.double] < Alpha[e.double]

\* The sort key: every group has two members, so fewer positions first, then
\* the lower ones, then the pattern.  Patterns with the same slots compare as
\* their single-precision names do.
Before(c, e) ==
  \/ c.lo = c.hi /\ e.lo # e.hi
  \/ /\ c.lo = c.hi <=> e.lo = e.hi
     /\ \/ c.lo < e.lo
        \/ c.lo = e.lo /\ c.hi < e.hi
        \/ /\ c.lo = e.lo /\ c.hi = e.hi
           /\ Alpha[c.single] < Alpha[e.single]

AssignedIn(F) == UNION {Members(f) : f \in F}
Assigned == AssignedIn(families)

SameFamilyIn(a, b, F) == \E f \in F : {a, b} \subseteq Members(f)
SameFamily(a, b) == SameFamilyIn(a, b, families)

\* target_name: every slot takes the target's letter for its type.
TargetBy(x, f, pm) ==
  [i \in DOMAIN x |-> IF i \in Slots(f) THEN pm[CharType[x[i]]] ELSE x[i]]
TargetIn(x, F, pm) == TargetBy(x, CHOOSE f \in F : x \in Members(f), pm)
Target(x) == TargetIn(x, families, pmap)

\* The map of a set of families; names that keep their spelling are left out.
Renamed(F, pm) == {x \in AssignedIn(F) : TargetIn(x, F, pm) # x}
MapOf(F, pm) == [x \in Renamed(F, pm) |-> TargetIn(x, F, pm)]

\* Mutant: no collision is looked for.
CollisionIgnored(map, F) == FALSE

\* Two sources of different families with one target.
Collision(map, F) ==
  \E a, b \in DOMAIN map : a # b /\ map[a] = map[b] /\ ~SameFamilyIn(a, b, F)
-----------------------------------------------------------------------------
Init == /\ symbols \in SymbolSets
        /\ pmap \in PrefixMaps
        /\ todo = Candidates(symbols)
        /\ families = {}
        /\ phase = "pick"
        /\ rename = << >>

\* Mutant: groups are visited in no particular order.
PickAny(c) ==
  /\ phase = "pick"
  /\ c \in todo
  /\ todo' = todo \ {c}
  /\ families' = IF Members(c) \cap Assigned = {} THEN families \cup {c} ELSE families
  /\ UNCHANGED <<symbols, pmap, phase, rename>>

\* Mutant: only the single-precision member has to be free.
PickOverlap(c) ==
  /\ phase = "pick"
  /\ c \in todo
  /\ \A e \in todo \ {c} : Before(c, e)
  /\ todo' = todo \ {c}
  /\ families' = IF c.single \notin Assigned THEN families \cup {c} ELSE families
  /\ UNCHANGED <<symbols, pmap, phase, rename>>

\* One turn of the greedy loop: a group with a member already taken by an
\* earlier family loses the pair and is dropped.
Pick(c) ==
  /\ phase = "pick"
  /\ c \in todo
  /\ \A e \in todo \ {c} : Before(c, e)
  /\ todo' = todo \ {c}
  /\ families' = IF Members(c) \cap Assigned = {} THEN families \cup {c} ELSE families
  /\ UNCHANGED <<symbols, pmap, phase, rename>>

\* build_rename_map: a cross-family collision is a RuntimeError.
BuildRenameMap ==
  /\ phase = "pick"
  /\ todo = {}
  /\ IF Collision(MapOf(families, pmap), families)
     THEN phase' = "raised" /\ UNCHANGED rename
     ELSE phase' = "extra" /\ rename' = MapOf(families, pmap)
  /\ UNCHANGED <<symbols, pmap, todo, families>>

\* _apply_extra_renames overwrites the map; nothing checks it again.
ApplyExtra == /\ phase = "extra"
              /\ rename' = Extra @@ rename
              /\ phase' = "done"
              /\ UNCHANGED <<symbols, pmap, todo, families>>

Next == \/ \E c \in todo : Pick(c)
        \/ BuildRenameMap
        \/ ApplyExtra

Spec == Init /\ [][Next]_vars
-----------------------------------------------------------------------------
\* The outcome is the stable one, and with it the only one: a pair of names
\* that could have been a family and is not lost one of its members to a
\* family earlier in the order.
NoBlockingPair ==
  phase # "pick" => \A c \in Candidates(symbols) \ families :
     \E f \in families : Before(f, c) /\ Members(f) \cap Members(c) # {}

\* A name belongs to one family at most.
FamiliesAreDisjoint ==
  \A f, g \in families : f # g => Members(f) \cap Members(g) = {}

\* The comment on the sort key: the min-position tiebreaker "is what keeps
\* DSYTRS/DSYTRD from being grouped as a sibling pair via their trailing
\* S/D".  Two names that differ in their precision prefix alone are always a
\* family, whatever other pairs the rest of their letters suggest.
PrefixPairsWin ==
  phase # "pick" => \A c \in Candidates(symbols) : Slots(c) = {1} => c \in families

\* A map that is built merges no two families: two classified names get the
\* same target exactly when they are the halves of one, the names the map
\* leaves out because they keep their spelling included.
FamiliesStayApart ==
  phase \in {"extra", "done"} => \A a, b \in Assigned :
     Target(a) = Target(b) <=> SameFamily(a, b)
=============================================================================
