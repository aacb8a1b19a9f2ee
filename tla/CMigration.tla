---------------------------- MODULE CMigration ----------------------------
(* The C half of run_migration for a library of the PBLAS kind: the staged *)
(* headers and precision-free sources are copied, the headers transformed, *)
(* the precision sources cloned, every transformed header split into a     *)
(* prefixed sibling and its pristine original, and the manifest names      *)
(* privatized, in an output directory that is never cleaned.               *)
(*                                                                         *)
(* A file name is <<k, base>>: k counts the target prefixes put in front,  *)
(* so <<0, pblas>> is pblas.h and <<1, pblas>> its sibling qxpblas.h.  Of  *)
(* a text the model keeps what it is made of and what was done to it.  A   *)
(* pass is one action when it completes; Kill stops it after any of its    *)
(* writes, or inside one.                                                  *)
EXTENDS Integers

CONSTANTS
  Headers,    \* the upstream headers
  Shim,       \* PBcharshim.h, which the migrator writes itself
  Members,    \* upstream sources of a precision family
  Doubles,    \* those of the D or Z half
  Plain,      \* upstream sources without a precision
  Pos,        \* the alphabetical order of the members
  Targets,    \* the clones' names
  TargetOf,
  Typesets,   \* the clones that assign BLAS callbacks
  Overridden, \* the clones a hand-written file replaces
  Incs,       \* #include "name.h"
  Dots,       \* #include "./name.h"
  Patched,    \* headers the recipe, or patch_pblas_header, inserts lines in
  Named,      \* headers that declare a renamed routine, at first
  Manifest,   \* whatever mentions a name of the privatization manifest
  Wraps,      \* the target compiles C as C++
  MaxRuns, MaxKills, MaxEdits

Bases == Headers \cup {Shim} \cup Members \cup Plain \cup Targets
Upstream == Headers \cup Members \cup Plain
Texted == Upstream \cup Overridden
Names == (0..2) \X Bases

ASSUME CMigrationAssumption ==
  /\ (Headers \cup {Shim}) \cap (Members \cup Plain \cup Targets) = {}
  /\ Shim \notin Headers
  /\ Doubles \subseteq Members
  /\ Pos \in [Members -> Nat]
  /\ \A a, b \in Members : Pos[a] = Pos[b] => a = b
  /\ TargetOf \in [Members -> Targets]
  /\ Typesets \subseteq Targets /\ Overridden \subseteq Targets
  /\ Incs \in [Texted -> SUBSET Headers] /\ Dots \in [Texted -> SUBSET Headers]
  /\ Patched \subseteq Headers /\ Named \subseteq Headers
  /\ Manifest \subseteq Texted
  /\ Wraps \in BOOLEAN
  /\ MaxRuns \in Nat /\ MaxKills \in Nat /\ MaxEdits \in Nat

VARIABLES
  src,      \* the staged sources
  disk,     \* the output directory
  pc,
  pristine, \* _pristine_headers: the headers as they were copied
  split,    \* the keys of split_headers
  count     \* runs, kills and edits so far

vars == <<src, disk, pc, pristine, split, count>>

Over(w, d) == [n \in DOMAIN w \cup DOMAIN d |-> IF n \in DOMAIN w THEN w[n] ELSE d[n]]
Only(d, S) == [n \in DOMAIN d \cap S |-> d[n]]
HeaderNames == {n \in Names : n[2] \in Headers \cup {Shim}}
Sibling(n) == <<n[1] + 1, n[2]>>
Nothing == [n \in {} |-> 0]

\* A text nothing has been done to yet.
Text(f, version, named, incs) ==
  [of |-> f, ver |-> version, whole |-> TRUE, named |-> named, marks |-> {},
   twins |-> 0, inc |-> {<<0, h>> : h \in incs}, priv |-> FALSE]

Copied(s, f) == Text(f, s[f].ver, s[f].named, Incs[f])
Clone(s, f) == Text(f, s[f].ver, FALSE,
                    Incs[f] \cup (IF TargetOf[f] \in Typesets THEN {Shim} ELSE {}))
Torn(t) == [t EXCEPT !.whole = FALSE, !.named = FALSE, !.inc = {}]
-----------------------------------------------------------------------------
(* What each pass writes, given the sources s, the directory d, the        *)
(* snapshot p and the split set S.                                         *)

\* _stage_passthrough_files: headers and precision-free sources, always.
StageWrites(s) == [n \in {<<0, f>> : f \in {g \in Headers \cup Plain : s[g].here}}
                     |-> Copied(s, n[2])]

\* _apply_header_patches, idempotent; a header cut short has lost the anchor.
PatchWrites(d) ==
  [n \in {m \in DOMAIN d : m[1] = 0 /\ m[2] \in Patched /\ d[m].whole}
     |-> [d[n] EXCEPT !.marks = @ \cup {"patch"}]]

\* _duplicate_header_prototypes, over every header the directory holds.
TwinWrites(d) ==
  [n \in {m \in DOMAIN d : m \in HeaderNames /\ d[m].named}
     |-> [d[n] EXCEPT !.twins = IF @ = 2 THEN 2 ELSE @ + 1]]

\* The sort key of _clone_precision_files.
Before(a, b) == \/ a \in Doubles /\ b \notin Doubles
                \/ (a \in Doubles <=> b \in Doubles) /\ Pos[a] < Pos[b]
Sourced(s, t) == {f \in Members : s[f].here /\ TargetOf[f] = t}
Canonical(s, t) == CHOOSE f \in Sourced(s, t) :
                     \A g \in Sourced(s, t) \ {f} : Before(f, g)
Cloned(s) == {t \in Targets : Sourced(s, t) # {}}

CloneWrites(s) ==
  [n \in {<<0, t>> : t \in Cloned(s)}
         \cup (IF Cloned(s) \cap Typesets = {} THEN {} ELSE {<<0, Shim>>})
     |-> IF n[2] = Shim THEN Text(Shim, 0, FALSE, {})
         ELSE Clone(s, Canonical(s, n[2]))]

\* _split_transformed_headers: what was transformed, closed under inclusion.
\* A name that carries the prefix is never split again.
Splittable(p) == {n \in DOMAIN p : n[1] = 0}
Changed(d, p) == {n \in Splittable(p) : d[n] # p[n]}
ClosedIn(d, p, S) == \A n \in Splittable(p) : d[n].inc \cap S # {} => n \in S
SplitSet(d, p) ==
  {n \in Splittable(p) : \A S \in SUBSET Splittable(p) :
                            Changed(d, p) \subseteq S /\ ClosedIn(d, p, S) => n \in S}

SplitWrites(d, p, S) ==
  [n \in S \cup {Sibling(m) : m \in S}
     |-> IF n \in S THEN p[n] ELSE d[<<n[1] - 1, n[2]>>]]

\* _apply_overrides.
OverrideWrites == [n \in {<<0, t>> : t \in Overridden} |-> Text(n[2], 0, FALSE, Incs[n[2]])]

\* Every .c file of the directory, and the siblings of this run.
Units(d) == {n \in DOMAIN d : n \notin HeaderNames}
Migrated(d, S) == Units(d) \cup {Sibling(n) : n \in S}

\* _wrap_extern_c_after_last_include, idempotent.
WrapWrites(d, S) ==
  [n \in {m \in Migrated(d, S) : Wraps /\ d[m].whole}
     |-> [d[n] EXCEPT !.marks = @ \cup {"guard"}]]

\* _rewrite_split_includes.
IncludeWrites(d, S) ==
  [n \in Migrated(d, S)
     |-> [d[n] EXCEPT !.inc = {IF m \in S THEN Sibling(m) ELSE m : m \in @}]]

\* privatize_tree: everything but the restored originals.
PrivateWrites(d, S) ==
  [n \in {m \in DOMAIN d \ S : d[m].of \in Manifest} |-> [d[n] EXCEPT !.priv = TRUE]]
-----------------------------------------------------------------------------
Init == /\ src = [f \in Upstream |-> [here |-> TRUE, ver |-> 0, named |-> f \in Named]]
        /\ disk = Nothing /\ pristine = Nothing /\ split = {}
        /\ pc = "idle"
        /\ count = [runs |-> 0, kills |-> 0, edits |-> 0]

Resting == pc \in {"idle", "done"}

Start == /\ Resting
         /\ count.runs < MaxRuns
         /\ pc' = "stage"
         /\ count' = [count EXCEPT !.runs = @ + 1]
         /\ UNCHANGED <<src, disk, pristine, split>>

Pass(this, writes, next) == /\ pc = this
                            /\ disk' = Over(writes, disk)
                            /\ pc' = next
                            /\ UNCHANGED <<src, count>>

\* Mutant: a file that is already there is not copied again.
StageOnce == /\ Pass("stage", Only(StageWrites(src), Names \ DOMAIN disk), "patch")
             /\ pristine' = Only(disk', HeaderNames)
             /\ split' = {}

Stage == /\ Pass("stage", StageWrites(src), "patch")
         /\ pristine' = Only(disk', HeaderNames)
         /\ split' = {}

PatchHeaders == /\ Pass("patch", PatchWrites(disk), "twin")
                /\ UNCHANGED <<pristine, split>>
TwinHeaders  == /\ Pass("twin", TwinWrites(disk), "clone")
                /\ UNCHANGED <<pristine, split>>
CloneFiles   == /\ Pass("clone", CloneWrites(src), "split")
                /\ UNCHANGED <<pristine, split>>

Split(S) == /\ Pass("split", SplitWrites(disk, pristine, S), "override")
            /\ split' = S
            /\ UNCHANGED pristine

\* Mutant: an intermediate header is left as it is.
SplitChanged == Split(Changed(disk, pristine))

SplitHeaders == Split(SplitSet(disk, pristine))

CopyOverrides == /\ Pass("override", OverrideWrites, "wrap")
                 /\ UNCHANGED <<pristine, split>>

\* Mutant: only the siblings of the split are wrapped.
WrapSiblings ==
  /\ Pass("wrap", Only(WrapWrites(disk, split), {Sibling(n) : n \in split}), "include")
  /\ UNCHANGED <<pristine, split>>

WrapFiles == /\ Pass("wrap", WrapWrites(disk, split), "include")
             /\ UNCHANGED <<pristine, split>>
RewriteIncludes == /\ Pass("include", IncludeWrites(disk, split), "privatize")
                   /\ UNCHANGED <<pristine, split>>

\* Mutant: the values of split_headers are skipped, not its keys.
PrivatizeKeys == /\ Pass("privatize", PrivateWrites(disk, {Sibling(n) : n \in split}), "done")
                 /\ UNCHANGED <<pristine, split>>

Privatize == /\ Pass("privatize", PrivateWrites(disk, split), "done")
             /\ UNCHANGED <<pristine, split>>

Writes == CASE pc = "stage"     -> StageWrites(src)
            [] pc = "patch"     -> PatchWrites(disk)
            [] pc = "twin"      -> TwinWrites(disk)
            [] pc = "clone"     -> CloneWrites(src)
            [] pc = "split"     -> SplitWrites(disk, pristine, SplitSet(disk, pristine))
            [] pc = "override"  -> OverrideWrites
            [] pc = "wrap"      -> WrapWrites(disk, split)
            [] pc = "include"   -> IncludeWrites(disk, split)
            [] pc = "privatize" -> PrivateWrites(disk, split)

\* A sibling is written before its original is restored.
InOrder(part) == pc = "split" => \A n \in part : Sibling(n) \in DOMAIN Writes
                                                  => Sibling(n) \in part

\* The migrator is killed between two writes of a pass, or inside one.
Kill == /\ ~Resting
        /\ count.kills < MaxKills
        /\ LET new == {n \in DOMAIN Writes : n \in DOMAIN disk => Writes[n] # disk[n]}
           IN  \E part \in SUBSET new, cut \in {{}} \cup {{n} : n \in new} :
                 /\ InOrder(part)
                 /\ disk' = Over([n \in part \cup cut |->
                                    IF n \in cut THEN Torn(Writes[n]) ELSE Writes[n]], disk)
        /\ pc' = "idle"
        /\ count' = [count EXCEPT !.kills = @ + 1]
        /\ UNCHANGED <<src, pristine, split>>

\* A new upstream release or another recipe: what is there still compiles,
\* the hand-written files included.
Complete(s) == \A f \in Overridden \cup {g \in Upstream : s[g].here} :
                 \A h \in Incs[f] \cup Dots[f] : s[h].here

EditSource(f) ==
  /\ Resting
  /\ count.edits < MaxEdits
  /\ \E here, named \in BOOLEAN :
       src' = [src EXCEPT ![f] = [here |-> here, ver |-> @.ver + 1,
                                  named |-> named /\ f \in Headers]]
  /\ Complete(src')
  /\ pc' = "idle"
  /\ count' = [count EXCEPT !.edits = @ + 1]
  /\ UNCHANGED <<disk, pristine, split>>

Next == \/ Start \/ Stage \/ PatchHeaders \/ TwinHeaders \/ CloneFiles \/ SplitHeaders
        \/ CopyOverrides \/ WrapFiles \/ RewriteIncludes \/ Privatize
        \/ Kill
        \/ \E f \in Upstream : EditSource(f)

Spec == Init /\ [][Next]_vars
-----------------------------------------------------------------------------
\* Every variable has its type.
Texts == [of : Texted \cup {Shim}, ver : Nat, whole : BOOLEAN, named : BOOLEAN,
          marks : SUBSET {"patch", "guard"}, twins : 0..2, inc : SUBSET HeaderNames,
          priv : BOOLEAN]

TypeOK == /\ src \in [Upstream -> [here : BOOLEAN, ver : Nat, named : BOOLEAN]]
          /\ DOMAIN disk \subseteq Names /\ \A n \in DOMAIN disk : disk[n] \in Texts
          /\ DOMAIN pristine \subseteq DOMAIN disk \cap HeaderNames
          /\ \A n \in DOMAIN pristine : pristine[n] \in Texts
          /\ split \subseteq HeaderNames
          /\ pc \in {"idle", "stage", "patch", "twin", "clone", "split", "override",
                     "wrap", "include", "privatize", "done"}
          /\ count \in [runs : Nat, kills : Nat, edits : Nat]

\* What the passes leave when they start from an empty directory.
Fresh(s) ==
  LET staged  == StageWrites(s)
      heads   == Only(staged, HeaderNames)
      patched == Over(PatchWrites(staged), staged)
      twinned == Over(TwinWrites(patched), patched)
      cloned  == Over(CloneWrites(s), twinned)
      S       == SplitSet(cloned, heads)
      parted  == Over(OverrideWrites, Over(SplitWrites(cloned, heads, S), cloned))
      wrapped == Over(WrapWrites(parted, S), parted)
      bound   == Over(IncludeWrites(wrapped, S), wrapped)
  IN  Over(PrivateWrites(bound, S), bound)

\* A header cut short that no pass of a later run writes from scratch before
\* the snapshot: only the shim, which is then split like a changed header.
ShimIsTorn == <<0, Shim>> \in DOMAIN disk /\ ~disk[<<0, Shim>>].whole

\* A completed run leaves what a run into an empty directory would have left,
\* whatever earlier runs, kills and upstream changes put there before it.
LikeAFreshTree ==
  pc = "done" /\ ~ShimIsTorn =>
    LET f == Fresh(src) IN \A n \in DOMAIN f : n \in DOMAIN disk /\ disk[n] = f[n]

\* "every installed public Netlib-named header stays byte-identical to the
\* upstream reference": also after the renaming pass, which skips the split
\* originals; only a header no transform touched may be renamed in place.
PublicHeadersArePristine ==
  pc = "done" => \A h \in Headers :
    src[h].here => \/ disk[<<0, h>>] = Copied(src, h)
                   \/ <<0, h>> \notin split /\ h \in Manifest

\* The headers of the directory that a file of it includes.
Includes(n, dots) ==
  DOMAIN disk \cap HeaderNames
    \cap (disk[n].inc \cup {<<0, h>> : h \in IF dots /\ disk[n].whole /\ disk[n].of \in Texted
                                          THEN Dots[disk[n].of] ELSE {}})

\* No chain of includes leads from n to a header of S: some set of other
\* headers holds what n includes, and all that they include themselves.
Avoids(n, S, dots) ==
  \E R \in SUBSET ((DOMAIN disk \cap HeaderNames) \ S) :
    \A m \in {n} \cup R : Includes(m, dots) \subseteq R

Current == {n \in Units(disk) : n \in DOMAIN Fresh(src)}

\* "Migrated sources (and prefixed siblings that cross-include another split
\* header) must reference the sibling, never the restored-pristine original":
\* through any chain of headers.
UnitsSeeSiblings ==
  pc = "done" => \A n \in Current : Avoids(n, split, FALSE)

\* The same for the chains that spell an include "./name.h".
SplitIsClosed ==
  pc = "done" => \A n \in Current : Avoids(n, split, TRUE)

\* Nothing but the restored originals keeps a manifest name: no clone, no
\* sibling, no override, no leftover of an earlier run.
NoPristineNameLinks ==
  pc = "done" => \A n \in DOMAIN disk \ split : disk[n].of \in Manifest => disk[n].priv

\* Every file compiled as C++ has C linkage, the hand-written ones included.
UnitsAreGuarded ==
  pc = "done" /\ Wraps =>
    \A n \in Current \cup {Sibling(m) : m \in split} : disk[n].whole => "guard" \in disk[n].marks

\* "else re-staging doubles the prefix": however often a tree is restaged.
NoDoubledPrefix == \A n \in DOMAIN disk : n[1] < 2
=============================================================================
