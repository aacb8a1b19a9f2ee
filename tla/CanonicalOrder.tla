--------------------------- MODULE CanonicalOrder ---------------------------
(* The order in which the sources of one library compete for an output     *)
(* file, and the relation "is the first of".  pipeline.py sorts by         *)
(* (_canonical_rank(stem, prefer_source), name); the smallest source that  *)
(* migrates becomes the canonical text of its target.                      *)
EXTENDS Integers

CONSTANTS
  Sources,   \* the source files of the recipe, extra directories included
  Pinned,    \* those the recipe lists under prefer_source
  Letter,    \* the first letter of each file's upper-cased stem
  Pos        \* each file's place in the alphabetical order of names

ASSUME OrderAssumption ==
  /\ Pinned \subseteq Sources
  /\ Pos \in [Sources -> Nat]
  /\ \A a, b \in Sources : Pos[a] = Pos[b] => a = b

\* _canonical_rank: pinned by the recipe, D/Z by its first letter, the rest.
Rank(s) == IF s \in Pinned THEN 0
           ELSE IF Letter[s] \in {"D", "Z"} THEN 1 ELSE 2

Before(a, b) == \/ Rank(a) < Rank(b)
                \/ Rank(a) = Rank(b) /\ Pos[a] < Pos[b]

IsFirst(s, S) == s \in S /\ \A x \in S \ {s} : Before(s, x)
=============================================================================
