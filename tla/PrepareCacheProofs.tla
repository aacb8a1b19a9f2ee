------------------------- MODULE PrepareCacheProofs -------------------------
(***************************************************************************)
(* Proofs about PrepareCache: type correctness, and that a staged tree the *)
(* skip test accepts is the one restaging would produce.                   *)
(***************************************************************************)
EXTENDS PrepareCache, TLAPS

----------------------------------------------------------------------------
(* The inductive invariant.  AcceptedTreeIsCurrent speaks of a finished    *)
(* tree; the invariant adds what each phase of a run has done so far.      *)

\* The first n - 1 patches of a list, those a run has applied.
Before(list, n) == {list[i] : i \in 1..(n - 1)}

Done == Before(run.list, run.next)

\* No patch of ps was deleted.  A patch the run applied and that is still
\* there is the one it applied, or the edit is on record in doubt.
Intact(pv, ps) == \A p \in ps : pv[p] # 0

\* How far a run has come, and that it builds in an empty, unstamped tree.
PhaseInv ==
  /\ ~dir => stamp.state = "none" /\ \A f \in Files : tree[f] = Absent
  /\ pc = "mkdir" => \A f \in Files : tree[f] = Absent
  /\ pc \in {"mkdir", "copy", "patch", "apply", "normalize", "stamp"}
       => stamp.state = "none"
  /\ pc = "write" => stamp.state = "empty" /\ stamp.list = run.list
  /\ pc \in {"rmtree", "copy", "patch", "apply", "normalize", "stamp", "write"}
       => dir
  /\ pc \in {"check", "rmtree", "mkdir", "copy"} => run.next = 1
  /\ pc \in {"patch", "apply"} => run.next <= Len(run.list) + 1
  /\ pc \in {"normalize", "stamp", "write"} => run.next = Len(run.list) + 1
  /\ pc = "normalize" => run.todo \subseteq DZFiles

\* What the tree holds in each phase, unless an input changed under the run.
CopyInv ==
  pc = "copy" /\ ~run.err /\ doubt = {} =>
    \A f \in Files :
      tree[f] = IF f \in run.todo THEN Absent
                ELSE Built(source, patchVer, f, {}, {})

PatchInv ==
  pc \in {"patch", "apply"} /\ doubt = {} /\ Intact(patchVer, Done) =>
    \A f \in Files : tree[f] = Built(source, patchVer, f, Done, {})

NormalizeInv ==
  pc \in {"normalize", "stamp"} /\ doubt = {} /\ Intact(patchVer, Done) =>
    \A f \in Files :
      tree[f] = Built(source, patchVer, f, Done,
                      IF pc = "normalize" THEN DZFiles \ run.todo ELSE DZFiles)

\* A file still to be normalised is in the tree.
TodoInv == pc = "normalize" => \A f \in run.todo : tree[f].ver # 0

\* What an untouched stamp vouches for: its body and its list, with the
\* patches as they are, as long as none of them is newer than the stamp.
Vouches ==
  \A f \in Files :
    tree[f] = Built(stamp.body, patchVer, f, Listed(stamp.list), DZFiles)

StampInv ==
  /\ pc = "write" /\ doubt = {} /\ Intact(patchVer, Done) => Vouches
  /\ /\ stamp.state = "full" /\ doubt = {}
     /\ Intact(patchVer, Listed(stamp.list))
     /\ \A p \in Listed(stamp.list) : patchTime[p] <= stamp.time
     => Vouches

IInv ==
  PhaseInv /\ CopyInv /\ PatchInv /\ NormalizeInv /\ TodoInv /\ StampInv

----------------------------------------------------------------------------
(* Facts about the contents of staged files.                               *)

\* Two assignments of versions agree on the patches ps.
Agree(pv, pw, ps) == \A q \in ps : pv[q] = pw[q]

\* A staged file depends on the versions of its patches only.
LEMMA BuiltFrame ==
  ASSUME NEW src, NEW pv, NEW pw, NEW f, NEW ps, NEW fs, Agree(pv, pw, ps)
  PROVE  Built(src, pv, f, ps, fs) = Built(src, pw, f, ps, fs)
<1>1. {<<p, pv[p]>> : p \in {q \in ps : f \in Touches[q]}} =
        {<<p, pw[p]>> : p \in {q \in ps : f \in Touches[q]}}
  BY DEF Agree
<1> QED
  BY <1>1 DEF Built

\* ... and on its own upstream version only.
LEMMA BuiltSource ==
  ASSUME NEW src, NEW other, NEW pv, NEW f, NEW ps, NEW fs,
         src[f] = other[f]
  PROVE  Built(src, pv, f, ps, fs) = Built(other, pv, f, ps, fs)
BY DEF Built

LEMMA BuiltFresh ==
  ASSUME NEW src, NEW pv, NEW f
  PROVE  Built(src, pv, f, {}, {}) = Copied(src[f])
<1>1. (f \in {}) = FALSE
  OBVIOUS
<1>2. {<<p, pv[p]>> : p \in {q \in {} : f \in Touches[q]}} = {}
  OBVIOUS
<1> QED
  BY <1>1, <1>2 DEF Built, Copied, Absent

\* One more patch is applied.
LEMMA BuiltPatch ==
  ASSUME NEW src, NEW pv, NEW f, NEW ps, NEW p, src[f] # 0
  PROVE  Built(src, pv, f, ps \cup {p}, {}) =
           IF f \in Touches[p]
             THEN WithPatch(Built(src, pv, f, ps, {}), p, pv[p])
             ELSE Built(src, pv, f, ps, {})
<1> DEFINE S(x) == {<<q, pv[q]>> : q \in {r \in x : f \in Touches[r]}}
<1>1. CASE f \in Touches[p]
  <2>1. S(ps \cup {p}) = S(ps) \cup {<<p, pv[p]>>}
    BY <1>1
  <2> QED
    BY <1>1, <2>1 DEF Built, WithPatch
<1>2. CASE f \notin Touches[p]
  <2>1. S(ps \cup {p}) = S(ps)
    BY <1>2
  <2> QED
    BY <1>2, <2>1 DEF Built
<1> QED
  BY <1>1, <1>2

\* Which files are normalised matters to those files only.
LEMMA BuiltNorms ==
  ASSUME NEW src, NEW pv, NEW f, NEW ps, NEW fs, NEW gs, f \in fs <=> f \in gs
  PROVE  Built(src, pv, f, ps, fs) = Built(src, pv, f, ps, gs)
<1>1. (f \in fs) = (f \in gs)
  OBVIOUS
<1> QED
  BY <1>1, Zenon DEF Built

\* Normalising one more file, which is there.
LEMMA BuiltNorm ==
  ASSUME NEW src, NEW pv, NEW f, NEW ps, NEW fs, src[f] # 0
  PROVE  Normalized(Built(src, pv, f, ps, fs)) =
           Built(src, pv, f, ps, fs \cup {f})
<1>1. (f \in fs \cup {f}) = TRUE
  OBVIOUS
<1> QED
  BY <1>1 DEF Built, Normalized

LEMMA BuiltAbsent ==
  ASSUME NEW src, NEW pv, NEW f, NEW ps, NEW fs, src[f] = 0
  PROVE  Built(src, pv, f, ps, fs) = Absent
BY DEF Built

LEMMA BuiltVer ==
  ASSUME NEW src, NEW pv, NEW f, NEW ps, NEW fs
  PROVE  Built(src, pv, f, ps, fs).ver = src[f]
BY DEF Built, Absent, Copied

LEMMA BeforeFirst == \A list : Before(list, 1) = {}
BY DEF Before

LEMMA BeforeNext ==
  ASSUME NEW list, NEW n \in Nat \ {0}
  PROVE  Before(list, n + 1) = Before(list, n) \cup {list[n]}
<1>1. 1..((n + 1) - 1) = (1..(n - 1)) \cup {n}
  OBVIOUS
<1> QED
  BY <1>1 DEF Before

LEMMA BeforeEnd ==
  ASSUME NEW list \in Seq(Patches)
  PROVE  Before(list, Len(list) + 1) = Listed(list)
<1>1. 1..((Len(list) + 1) - 1) = DOMAIN list
  OBVIOUS
<1> QED
  BY <1>1 DEF Before, Listed

----------------------------------------------------------------------------
(* Type correctness.                                                       *)

LEMMA AbsentType == Absent \in StagedFile
BY DEF Absent, Copied, StagedFile

LEMMA ListedType ==
  ASSUME NEW list \in Seq(Patches)
  PROVE  Listed(list) \subseteq Patches
BY DEF Listed

LEMMA TypeInit == Init => TypeOK
<1> SUFFICES ASSUME Init PROVE TypeOK
  OBVIOUS
<1>1. <<>> \in Seq(Patches)
  OBVIOUS
<1>2. tree \in [Files -> StagedFile]
  BY AbsentType DEF Init
<1>3. stamp \in [state : {"none", "empty", "full"}, body : [Files -> Nat],
                 time : Nat, list : Seq(Patches)]
  BY <1>1 DEF Init, NoStamp
<1>4. run \in [list : Seq(Patches), rebuild : BOOLEAN, todo : SUBSET Files,
               next : Nat \ {0}, err : BOOLEAN]
  BY <1>1 DEF Init
<1> QED
  BY <1>2, <1>3, <1>4 DEF Init, TypeOK, Stages

LEMMA TypeStep == TypeOK /\ [Next]_vars => TypeOK'
<1> SUFFICES ASSUME TypeOK, [Next]_vars PROVE TypeOK'
  OBVIOUS
<1> USE PatchesAssumption, FilesAssumption, BoundsAssumption, AbsentType
<1>1. ASSUME NEW rebuild \in Rebuilds, Start(rebuild) PROVE TypeOK'
  BY <1>1 DEF TypeOK, Start, Goto, Fail, inputs, staged, Stages
<1>2. CASE Skip
  BY <1>2 DEF TypeOK, Skip, Goto, Fail, inputs, staged, Stages
<1>3. CASE Restage
  BY <1>3 DEF TypeOK, Restage, Goto, Fail, inputs, staged, Stages
<1>4. CASE RmStamp
  BY <1>4 DEF TypeOK, RmStamp, NoStamp, Goto, Fail, inputs, staged, Stages
<1>5. CASE RmDir
  BY <1>5 DEF TypeOK, RmDir, Goto, Fail, inputs, staged, Stages
<1>6. CASE MakeDir
  BY <1>6 DEF TypeOK, MakeDir, Goto, Fail, inputs, staged, Stages
<1>7. CASE CopyDone
  BY <1>7 DEF TypeOK, CopyDone, Goto, Fail, inputs, staged, Stages
<1>8. CASE CheckPatch
  BY <1>8 DEF TypeOK, CheckPatch, Goto, Fail, inputs, staged, Stages
<1>9. CASE ApplyPatch
  <2> DEFINE p == run.list[run.next]
  <2>1. p \in Patches /\ patchVer[p] \in Nat
    BY <1>9 DEF TypeOK, ApplyPatch
  <2>2. ASSUME NEW f \in Files PROVE Patched(p)[f] \in StagedFile
    <3>1. tree[f] \in StagedFile
      BY DEF TypeOK
    <3>2. tree[f].applied \cup {<<p, patchVer[p]>>} \in SUBSET (Patches \X Nat)
      BY <2>1, <3>1 DEF StagedFile
    <3>3. WithPatch(tree[f], p, patchVer[p]) \in StagedFile
      BY <3>1, <3>2 DEF StagedFile, WithPatch
    <3> QED
      BY <3>1, <3>3 DEF Patched
  <2>3. Patched(p) \in [Files -> StagedFile]
    BY <2>2 DEF Patched
  <2>4. run.next + 1 \in Nat \ {0}
    BY DEF TypeOK
  <2> QED
    BY <1>9, <2>3, <2>4 DEF TypeOK, ApplyPatch, Goto, Fail, inputs, staged, Stages
<1>10. CASE PatchesDone
  BY <1>10 DEF TypeOK, PatchesDone, Goto, Fail, inputs, staged, Stages
<1>11. CASE NormalizeDone
  BY <1>11 DEF TypeOK, NormalizeDone, Goto, Fail, inputs, staged, Stages
<1>12. CASE OpenStamp
  BY <1>12 DEF TypeOK, OpenStamp, Fingerprint, Goto, Fail, inputs, staged, Stages
<1>13. CASE WriteStamp
  BY <1>13 DEF TypeOK, WriteStamp, Goto, Fail, inputs, staged, Stages
<1>14. CASE Reload
  BY <1>14 DEF TypeOK, Reload, Goto, Fail, inputs, staged, Stages
<1>15. ASSUME NEW f \in Files, RmFile(f) PROVE TypeOK'
  BY <1>15 DEF TypeOK, RmFile, Goto, Fail, inputs, staged, Stages, Copied, StagedFile
<1>16. ASSUME NEW f \in Files, CopyFile(f) PROVE TypeOK'
  BY <1>16 DEF TypeOK, CopyFile, Goto, Fail, inputs, staged, Stages, Copied, StagedFile
<1>17. ASSUME NEW f \in Files, Normalize(f) PROVE TypeOK'
  BY <1>17 DEF TypeOK, Normalize, Normalized, Goto, Fail, inputs, staged, Stages, StagedFile
<1>18. CASE Crash
  BY <1>18 DEF TypeOK, Crash, Goto, inputs, staged, Stages
<1>19. ASSUME NEW f \in Files, NEW v \in {0, clock + 1}, EditSource(f, v) PROVE TypeOK'
  BY <1>19 DEF TypeOK, EditSource, Tick, staged, Stages
<1>20. ASSUME NEW p \in Patches, NEW t \in 1..(clock + 1), EditPatch(p, t) PROVE TypeOK'
  BY <1>20 DEF TypeOK, EditPatch, Tick, staged, Stages
<1>21. ASSUME NEW p \in Patches, DeletePatch(p) PROVE TypeOK'
  BY <1>21 DEF TypeOK, DeletePatch, Tick, staged, Stages
<1>22. ASSUME NEW list \in PatchLists, EditRecipe(list) PROVE TypeOK'
  BY <1>22 DEF TypeOK, EditRecipe, Tick, staged, Stages
<1>23. CASE UNCHANGED vars
  BY <1>23 DEF TypeOK, vars
<1> QED
  BY <1>1, <1>2, <1>3, <1>4, <1>5, <1>6, <1>7, <1>8, <1>9, <1>10, <1>11, <1>12, <1>13, <1>14, <1>15, <1>16, <1>17, <1>18, <1>19, <1>20, <1>21, <1>22, <1>23 DEF Next, PrepareStep, Edit

\* Every variable keeps its type.
THEOREM TypeCorrect == Spec => []TypeOK
BY TypeInit, TypeStep, PTL DEF Spec

----------------------------------------------------------------------------
(* The inductive invariant.                                                *)

LEMMA InvInit == Init => IInv
BY DEF Init, IInv, PhaseInv, CopyInv, PatchInv, NormalizeInv, TodoInv,
   StampInv,
       NoStamp

LEMMA InvStep == TypeOK /\ TypeOK' /\ IInv /\ [Next]_vars => IInv'
<1> SUFFICES ASSUME TypeOK, TypeOK', IInv, [Next]_vars PROVE IInv'
  OBVIOUS
<1> USE DEF IInv
<1>1. ASSUME NEW rebuild \in Rebuilds, Start(rebuild) PROVE IInv'
  <2>1. PhaseInv'
    BY <1>1 DEF TypeOK, PhaseInv, Start, Goto, Fail, inputs, staged
  <2>2. CopyInv'
    BY <1>1 DEF TypeOK, PhaseInv, Start, CopyInv, Done, Goto, Fail, inputs,
       staged
  <2>3. PatchInv'
    BY <1>1 DEF TypeOK, PhaseInv, Start, PatchInv, Done, Goto, Fail, inputs,
       staged
  <2>4. NormalizeInv'
    BY <1>1 DEF TypeOK, PhaseInv, Start, NormalizeInv, Done, Goto, Fail,
       inputs, staged
  <2>5. TodoInv'
    BY <1>1 DEF TypeOK, PhaseInv, Start, TodoInv, Goto, Fail, inputs, staged
  <2>6. StampInv'
    BY <1>1 DEF TypeOK, PhaseInv, Start, StampInv, Vouches, Done, Goto, Fail,
       inputs, staged
  <2> QED
    BY <2>1, <2>2, <2>3, <2>4, <2>5, <2>6
<1>2. CASE Skip
  <2>1. PhaseInv'
    BY <1>2 DEF TypeOK, PhaseInv, Skip, Goto, Fail, inputs, staged
  <2>2. CopyInv'
    BY <1>2 DEF TypeOK, PhaseInv, Skip, CopyInv, Done, Goto, Fail, inputs,
       staged
  <2>3. PatchInv'
    BY <1>2 DEF TypeOK, PhaseInv, Skip, PatchInv, Done, Goto, Fail, inputs,
       staged
  <2>4. NormalizeInv'
    BY <1>2 DEF TypeOK, PhaseInv, Skip, NormalizeInv, Done, Goto, Fail,
       inputs, staged
  <2>5. TodoInv'
    BY <1>2 DEF TypeOK, PhaseInv, Skip, TodoInv, Goto, Fail, inputs, staged
  <2>6. StampInv'
    BY <1>2 DEF TypeOK, PhaseInv, Skip, StampInv, Vouches, Done, Goto, Fail,
       inputs, staged
  <2> QED
    BY <2>1, <2>2, <2>3, <2>4, <2>5, <2>6
<1>3. CASE Restage
  <2>1. PhaseInv'
    BY <1>3 DEF TypeOK, PhaseInv, Restage, Goto, Fail, inputs, staged
  <2>2. CopyInv'
    BY <1>3 DEF TypeOK, PhaseInv, Restage, CopyInv, Done, Goto, Fail, inputs,
       staged
  <2>3. PatchInv'
    BY <1>3 DEF TypeOK, PhaseInv, Restage, PatchInv, Done, Goto, Fail, inputs,
       staged
  <2>4. NormalizeInv'
    BY <1>3 DEF TypeOK, PhaseInv, Restage, NormalizeInv, Done, Goto, Fail,
       inputs, staged
  <2>5. TodoInv'
    BY <1>3 DEF TypeOK, PhaseInv, Restage, TodoInv, Goto, Fail, inputs, staged
  <2>6. StampInv'
    BY <1>3 DEF TypeOK, PhaseInv, Restage, StampInv, Vouches, Done, Goto,
       Fail, inputs, staged
  <2> QED
    BY <2>1, <2>2, <2>3, <2>4, <2>5, <2>6
<1>4. CASE RmStamp
  <2>1. PhaseInv'
    BY <1>4 DEF TypeOK, PhaseInv, RmStamp, Goto, Fail, inputs, staged, NoStamp
  <2>2. CopyInv'
    BY <1>4 DEF TypeOK, PhaseInv, RmStamp, CopyInv, Done, Goto, Fail, inputs,
       staged, NoStamp
  <2>3. PatchInv'
    BY <1>4 DEF TypeOK, PhaseInv, RmStamp, PatchInv, Done, Goto, Fail, inputs,
       staged, NoStamp
  <2>4. NormalizeInv'
    BY <1>4 DEF TypeOK, PhaseInv, RmStamp, NormalizeInv, Done, Goto, Fail,
       inputs, staged, NoStamp
  <2>5. TodoInv'
    BY <1>4 DEF TypeOK, PhaseInv, RmStamp, TodoInv, Goto, Fail, inputs,
       staged, NoStamp
  <2>6. StampInv'
    BY <1>4 DEF TypeOK, PhaseInv, RmStamp, StampInv, Vouches, Done, Goto,
       Fail, inputs, staged, NoStamp
  <2> QED
    BY <2>1, <2>2, <2>3, <2>4, <2>5, <2>6
<1>5. CASE RmDir
  <2>1. PhaseInv'
    BY <1>5 DEF TypeOK, PhaseInv, RmDir, Goto, Fail, inputs, staged
  <2>2. CopyInv'
    BY <1>5 DEF TypeOK, PhaseInv, RmDir, CopyInv, Done, Goto, Fail, inputs,
       staged
  <2>3. PatchInv'
    BY <1>5 DEF TypeOK, PhaseInv, RmDir, PatchInv, Done, Goto, Fail, inputs,
       staged
  <2>4. NormalizeInv'
    BY <1>5 DEF TypeOK, PhaseInv, RmDir, NormalizeInv, Done, Goto, Fail,
       inputs, staged
  <2>5. TodoInv'
    BY <1>5 DEF TypeOK, PhaseInv, RmDir, TodoInv, Goto, Fail, inputs, staged
  <2>6. StampInv'
    BY <1>5 DEF TypeOK, PhaseInv, RmDir, StampInv, Vouches, Done, Goto, Fail,
       inputs, staged
  <2> QED
    BY <2>1, <2>2, <2>3, <2>4, <2>5, <2>6
<1>6. CASE MakeDir
  <2>1. PhaseInv'
    BY <1>6 DEF TypeOK, PhaseInv, MakeDir, Goto, Fail, inputs, staged
  <2>2. CopyInv'
    <3>1. ASSUME NEW f \in Files, source[f] = 0
          PROVE  Built(source', patchVer', f, {}, {}) = Absent
      BY <1>6, <3>1, BuiltAbsent DEF MakeDir, inputs
    <3> QED
      BY <1>6, <3>1 DEF TypeOK, PhaseInv, MakeDir, CopyInv, Goto, inputs
  <2>3. PatchInv'
    BY <1>6 DEF TypeOK, PhaseInv, MakeDir, PatchInv, Done, Goto, Fail, inputs,
       staged
  <2>4. NormalizeInv'
    BY <1>6 DEF TypeOK, PhaseInv, MakeDir, NormalizeInv, Done, Goto, Fail,
       inputs, staged
  <2>5. TodoInv'
    BY <1>6 DEF TypeOK, PhaseInv, MakeDir, TodoInv, Goto, Fail, inputs, staged
  <2>6. StampInv'
    BY <1>6 DEF TypeOK, PhaseInv, MakeDir, StampInv, Vouches, Done, Goto,
       Fail, inputs, staged
  <2> QED
    BY <2>1, <2>2, <2>3, <2>4, <2>5, <2>6
<1>7. CASE CopyDone
  <2>1. PhaseInv'
    BY <1>7 DEF TypeOK, PhaseInv, CopyDone, Goto, Fail, inputs, staged
  <2>2. CopyInv'
    BY <1>7 DEF TypeOK, PhaseInv, CopyDone, CopyInv, Done, Goto, Fail, inputs,
       staged
  <2>3. PatchInv'
    BY <1>7, BeforeFirst DEF TypeOK, PhaseInv, CopyDone, CopyInv, PatchInv,
       Done, Goto, Fail, inputs, staged
  <2>4. NormalizeInv'
    BY <1>7 DEF TypeOK, PhaseInv, CopyDone, NormalizeInv, Done, Goto, Fail,
       inputs, staged
  <2>5. TodoInv'
    BY <1>7 DEF TypeOK, PhaseInv, CopyDone, TodoInv, Goto, Fail, inputs,
       staged
  <2>6. StampInv'
    BY <1>7 DEF TypeOK, PhaseInv, CopyDone, StampInv, Vouches, Done, Goto,
       Fail, inputs, staged
  <2> QED
    BY <2>1, <2>2, <2>3, <2>4, <2>5, <2>6
<1>8. CASE CheckPatch
  <2>1. PhaseInv'
    BY <1>8 DEF TypeOK, PhaseInv, CheckPatch, Goto, Fail, inputs, staged
  <2>2. CopyInv'
    BY <1>8 DEF TypeOK, PhaseInv, CheckPatch, CopyInv, Done, Goto, Fail,
       inputs, staged
  <2>3. PatchInv'
    BY <1>8 DEF TypeOK, PhaseInv, CheckPatch, PatchInv, Done, Goto, Fail,
       inputs, staged
  <2>4. NormalizeInv'
    BY <1>8 DEF TypeOK, PhaseInv, CheckPatch, NormalizeInv, Done, Goto, Fail,
       inputs, staged
  <2>5. TodoInv'
    BY <1>8 DEF TypeOK, PhaseInv, CheckPatch, TodoInv, Goto, Fail, inputs,
       staged
  <2>6. StampInv'
    BY <1>8 DEF TypeOK, PhaseInv, CheckPatch, StampInv, Vouches, Done, Goto,
       Fail, inputs, staged
  <2> QED
    BY <2>1, <2>2, <2>3, <2>4, <2>5, <2>6
<1>9. CASE ApplyPatch
  <2>1. PhaseInv'
    <3>1. CASE Applies(run.list[run.next])
      <4>1. run'.next = run.next + 1 /\ run'.list = run.list
        BY <1>9, <3>1 DEF TypeOK, ApplyPatch
      <4>2. dir /\ dir' = dir /\ stamp' = stamp /\ stamp.state = "none"
        BY <1>9 DEF ApplyPatch, PhaseInv
      <4> QED
        BY <1>9, <3>1, <4>1, <4>2 DEF TypeOK, ApplyPatch, PhaseInv, Goto
    <3>2. CASE ~Applies(run.list[run.next])
      BY <1>9, <3>2 DEF ApplyPatch, PhaseInv, Goto, Fail, inputs
    <3> QED
      BY <3>1, <3>2
  <2>2. CopyInv'
    BY <1>9 DEF TypeOK, PhaseInv, ApplyPatch, CopyInv, Done, Goto, Fail,
       inputs, staged
  <2>3. PatchInv'
    <3> DEFINE p == run.list[run.next]
    <3> SUFFICES ASSUME pc' = "patch", doubt' = {}, Intact(patchVer', Done'),
                        NEW f \in Files
                 PROVE  tree'[f] = Built(source', patchVer', f, Done', {})
      BY <1>9 DEF PatchInv, ApplyPatch, Goto, Fail, Done
    <3>1. Done' = Done \cup {p}
      BY <1>9, BeforeNext DEF TypeOK, ApplyPatch, Done, Goto, Fail
    <3>2. tree[f] = Built(source, patchVer, f, Done, {})
      BY <1>9, <3>1 DEF ApplyPatch, PatchInv, Intact, inputs
    <3>3. Applies(p) /\ tree' = Patched(p)
      BY <1>9 DEF ApplyPatch, Goto, Fail
    <3>6. CASE source[f] = 0
      <4>1. f \notin Touches[p]
        BY <3>2, <3>3, <3>6, BuiltVer DEF Applies
      <4> QED
        BY <1>9, <3>1, <3>2, <3>3, <3>6, <4>1, BuiltAbsent DEF ApplyPatch,
           Patched, inputs
    <3>7. CASE source[f] # 0
      <4>1. tree'[f] = IF f \in Touches[p] THEN WithPatch(tree[f], p, patchVer[p])
                       ELSE tree[f]
        BY <3>3 DEF Patched
      <4>2. tree'[f] = Built(source, patchVer, f, Done \cup {p}, {})
        <5>1. Built(source, patchVer, f, Done \cup {p}, {}) =
                IF f \in Touches[p]
                  THEN WithPatch(Built(source, patchVer, f, Done, {}), p, patchVer[p])
                  ELSE Built(source, patchVer, f, Done, {})
          BY <3>7, BuiltPatch
        <5>2. CASE f \in Touches[p]
          BY <3>2, <4>1, <5>1, <5>2
        <5>3. CASE f \notin Touches[p]
          BY <3>2, <4>1, <5>1, <5>3
        <5> QED
          BY <5>2, <5>3
      <4> QED
        BY <1>9, <3>1, <4>2 DEF ApplyPatch, inputs
    <3> QED
      BY <3>6, <3>7
  <2>4. NormalizeInv'
    BY <1>9 DEF TypeOK, PhaseInv, ApplyPatch, NormalizeInv, Done, Goto, Fail,
       inputs, staged
  <2>5. TodoInv'
    BY <1>9 DEF TypeOK, PhaseInv, ApplyPatch, TodoInv, Goto, Fail, inputs,
       staged
  <2>6. StampInv'
    BY <1>9 DEF TypeOK, PhaseInv, ApplyPatch, StampInv, Vouches, Done, Goto,
       Fail, inputs, staged
  <2> QED
    BY <2>1, <2>2, <2>3, <2>4, <2>5, <2>6
<1>10. CASE PatchesDone
  <2>1. PhaseInv'
    BY <1>10 DEF TypeOK, PhaseInv, PatchesDone, Goto, Fail, inputs, staged
  <2>2. CopyInv'
    BY <1>10 DEF TypeOK, PhaseInv, PatchesDone, CopyInv, Done, Goto, Fail,
       inputs, staged
  <2>3. PatchInv'
    BY <1>10 DEF TypeOK, PhaseInv, PatchesDone, PatchInv, Done, Goto, Fail,
       inputs, staged
  <2>4. NormalizeInv'
    <3> SUFFICES ASSUME doubt' = {}, Intact(patchVer', Done'), NEW f \in Files
                 PROVE  tree'[f] = Built(source', patchVer', f, Done', DZFiles \ run'.todo)
      BY <1>10 DEF NormalizeInv, PatchesDone, Goto
    <3>1. /\ run'.todo = {h \in DZFiles : tree[h].ver # 0}
          /\ Done' = Done
      BY <1>10 DEF TypeOK, PatchesDone, Done
    <3>2. tree[f] = Built(source, patchVer, f, Done, {})
      BY <1>10, <3>1 DEF PatchesDone, PatchInv, inputs
    <3>3. CASE source[f] = 0
      BY <1>10, <3>1, <3>2, <3>3, BuiltAbsent DEF PatchesDone, inputs, staged
    <3>4. CASE source[f] # 0
      <4>1. tree[f].ver # 0
        BY <3>2, <3>4, BuiltVer
      <4>2. f \in {} <=> f \in DZFiles \ run'.todo
        BY <3>1, <4>1
      <4>3. tree[f] = Built(source, patchVer, f, Done, DZFiles \ run'.todo)
        BY <3>2, <4>2, BuiltNorms
      <4> QED
        BY <1>10, <3>1, <4>3 DEF PatchesDone, inputs, staged
    <3> QED
      BY <3>3, <3>4
  <2>5. TodoInv'
    BY <1>10 DEF TypeOK, PhaseInv, PatchesDone, TodoInv, Goto, Fail, inputs,
       staged
  <2>6. StampInv'
    BY <1>10 DEF TypeOK, PhaseInv, PatchesDone, StampInv, Vouches, Done, Goto,
       Fail, inputs, staged
  <2> QED
    BY <2>1, <2>2, <2>3, <2>4, <2>5, <2>6
<1>11. CASE NormalizeDone
  <2>1. PhaseInv'
    BY <1>11 DEF TypeOK, PhaseInv, NormalizeDone, Goto, Fail, inputs, staged
  <2>2. CopyInv'
    BY <1>11 DEF TypeOK, PhaseInv, NormalizeDone, CopyInv, Done, Goto, Fail,
       inputs, staged
  <2>3. PatchInv'
    BY <1>11 DEF TypeOK, PhaseInv, NormalizeDone, PatchInv, Done, Goto, Fail,
       inputs, staged
  <2>4. NormalizeInv'
    BY <1>11 DEF TypeOK, PhaseInv, NormalizeDone, NormalizeInv, Done, Goto,
       Fail, inputs, staged
  <2>5. TodoInv'
    BY <1>11 DEF TypeOK, PhaseInv, NormalizeDone, TodoInv, Goto, Fail, inputs,
       staged
  <2>6. StampInv'
    BY <1>11 DEF TypeOK, PhaseInv, NormalizeDone, StampInv, Vouches, Done,
       Goto, Fail, inputs, staged
  <2> QED
    BY <2>1, <2>2, <2>3, <2>4, <2>5, <2>6
<1>12. CASE OpenStamp
  <2>1. PhaseInv'
    BY <1>12 DEF TypeOK, PhaseInv, OpenStamp, Goto, Fail, inputs, staged,
       Fingerprint
  <2>2. CopyInv'
    BY <1>12 DEF TypeOK, PhaseInv, OpenStamp, CopyInv, Done, Goto, Fail,
       inputs, staged, Fingerprint
  <2>3. PatchInv'
    BY <1>12 DEF TypeOK, PhaseInv, OpenStamp, PatchInv, Done, Goto, Fail,
       inputs, staged, Fingerprint
  <2>4. NormalizeInv'
    BY <1>12 DEF TypeOK, PhaseInv, OpenStamp, NormalizeInv, Done, Goto, Fail,
       inputs, staged, Fingerprint
  <2>5. TodoInv'
    BY <1>12 DEF TypeOK, PhaseInv, OpenStamp, TodoInv, Goto, Fail, inputs,
       staged, Fingerprint
  <2>6. StampInv'
    <3>1. Done = Listed(run.list)
      BY <1>12, BeforeEnd DEF TypeOK, PhaseInv, OpenStamp, Done
    <3>2. stamp'.body = source /\ stamp'.list = run.list /\ stamp'.state = "empty"
      BY <1>12 DEF OpenStamp, Fingerprint
    <3> QED
      BY <1>12, <3>1, <3>2 DEF OpenStamp, NormalizeInv, StampInv, Vouches,
         Done, Goto, inputs
  <2> QED
    BY <2>1, <2>2, <2>3, <2>4, <2>5, <2>6
<1>13. CASE WriteStamp
  <2>1. PhaseInv'
    BY <1>13 DEF TypeOK, PhaseInv, WriteStamp, Goto, Fail, inputs, staged
  <2>2. CopyInv'
    BY <1>13 DEF TypeOK, PhaseInv, WriteStamp, CopyInv, Done, Goto, Fail,
       inputs, staged
  <2>3. PatchInv'
    BY <1>13 DEF TypeOK, PhaseInv, WriteStamp, PatchInv, Done, Goto, Fail,
       inputs, staged
  <2>4. NormalizeInv'
    BY <1>13 DEF TypeOK, PhaseInv, WriteStamp, NormalizeInv, Done, Goto, Fail,
       inputs, staged
  <2>5. TodoInv'
    BY <1>13 DEF TypeOK, PhaseInv, WriteStamp, TodoInv, Goto, Fail, inputs,
       staged
  <2>6. StampInv'
    <3>1. Done = Listed(run.list) /\ stamp.list = run.list
      BY <1>13, BeforeEnd DEF TypeOK, PhaseInv, WriteStamp, Done
    <3>2. stamp'.body = stamp.body /\ stamp'.list = stamp.list
      BY <1>13 DEF TypeOK, WriteStamp
    <3> QED
      BY <1>13, <3>1, <3>2 DEF WriteStamp, StampInv, Vouches, Goto, inputs
  <2> QED
    BY <2>1, <2>2, <2>3, <2>4, <2>5, <2>6
<1>14. CASE Reload
  <2>1. PhaseInv'
    BY <1>14 DEF TypeOK, PhaseInv, Reload, Goto, Fail, inputs, staged
  <2>2. CopyInv'
    BY <1>14 DEF TypeOK, PhaseInv, Reload, CopyInv, Done, Goto, Fail, inputs,
       staged
  <2>3. PatchInv'
    BY <1>14 DEF TypeOK, PhaseInv, Reload, PatchInv, Done, Goto, Fail, inputs,
       staged
  <2>4. NormalizeInv'
    BY <1>14 DEF TypeOK, PhaseInv, Reload, NormalizeInv, Done, Goto, Fail,
       inputs, staged
  <2>5. TodoInv'
    BY <1>14 DEF TypeOK, PhaseInv, Reload, TodoInv, Goto, Fail, inputs, staged
  <2>6. StampInv'
    BY <1>14 DEF TypeOK, PhaseInv, Reload, StampInv, Vouches, Done, Goto,
       Fail, inputs, staged
  <2> QED
    BY <2>1, <2>2, <2>3, <2>4, <2>5, <2>6
<1>15. ASSUME NEW g \in Files, RmFile(g) PROVE IInv'
  <2>1. PhaseInv'
    BY <1>15 DEF TypeOK, PhaseInv, RmFile, Goto, Fail, inputs, staged
  <2>2. CopyInv'
    BY <1>15 DEF TypeOK, PhaseInv, RmFile, CopyInv, Done, Goto, Fail, inputs,
       staged
  <2>3. PatchInv'
    BY <1>15 DEF TypeOK, PhaseInv, RmFile, PatchInv, Done, Goto, Fail, inputs,
       staged
  <2>4. NormalizeInv'
    BY <1>15 DEF TypeOK, PhaseInv, RmFile, NormalizeInv, Done, Goto, Fail,
       inputs, staged
  <2>5. TodoInv'
    BY <1>15 DEF TypeOK, PhaseInv, RmFile, TodoInv, Goto, Fail, inputs, staged
  <2>6. StampInv'
    BY <1>15 DEF TypeOK, PhaseInv, RmFile, StampInv, Vouches, Done, Goto,
       Fail, inputs, staged
  <2> QED
    BY <2>1, <2>2, <2>3, <2>4, <2>5, <2>6
<1>16. ASSUME NEW g \in Files, CopyFile(g) PROVE IInv'
  <2>1. PhaseInv'
    BY <1>16 DEF TypeOK, PhaseInv, CopyFile, Goto, Fail, inputs, staged
  <2>2. CopyInv'
    <3>1. Built(source', patchVer', g, {}, {}) = tree'[g]
      BY <1>16, BuiltFresh DEF TypeOK, CopyFile, inputs
    <3>2. run' = [run EXCEPT !.todo = @ \ {g}, !.err = @ \/ source[g] = 0]
      BY <1>16 DEF CopyFile
    <3>3. run'.todo = run.todo \ {g} /\ (run.err => run'.err)
      BY <3>2 DEF TypeOK
    <3>4. \A f \in Files \ {g} : tree'[f] = tree[f]
      BY <1>16 DEF TypeOK, CopyFile
    <3> QED
      BY <1>16, <3>1, <3>3, <3>4 DEF CopyFile, CopyInv, inputs
  <2>3. PatchInv'
    BY <1>16 DEF TypeOK, PhaseInv, CopyFile, PatchInv, Done, Goto, Fail,
       inputs, staged
  <2>4. NormalizeInv'
    BY <1>16 DEF TypeOK, PhaseInv, CopyFile, NormalizeInv, Done, Goto, Fail,
       inputs, staged
  <2>5. TodoInv'
    BY <1>16 DEF TypeOK, PhaseInv, CopyFile, TodoInv, Goto, Fail, inputs,
       staged
  <2>6. StampInv'
    BY <1>16 DEF TypeOK, PhaseInv, CopyFile, StampInv, Vouches, Done, Goto,
       Fail, inputs, staged
  <2> QED
    BY <2>1, <2>2, <2>3, <2>4, <2>5, <2>6
<1>17. ASSUME NEW g \in Files, Normalize(g) PROVE IInv'
  <2>1. PhaseInv'
    BY <1>17 DEF TypeOK, PhaseInv, Normalize, Goto, Fail, inputs, staged
  <2>2. CopyInv'
    BY <1>17 DEF TypeOK, PhaseInv, Normalize, CopyInv, Done, Goto, Fail,
       inputs, staged
  <2>3. PatchInv'
    BY <1>17 DEF TypeOK, PhaseInv, Normalize, PatchInv, Done, Goto, Fail,
       inputs, staged
  <2>4. NormalizeInv'
    <3> SUFFICES ASSUME doubt' = {}, Intact(patchVer', Done'), NEW f \in Files
                 PROVE  tree'[f] = Built(source', patchVer', f, Done', DZFiles \ run'.todo)
      BY <1>17 DEF NormalizeInv, Normalize
    <3>1. run'.todo = run.todo \ {g} /\ Done' = Done
      BY <1>17 DEF TypeOK, Normalize, Done
    <3>2. tree[f] = Built(source, patchVer, f, Done, DZFiles \ run.todo)
      BY <1>17, <3>1 DEF Normalize, NormalizeInv, inputs
    <3>3. CASE f = g
      <4>1. f \in DZFiles /\ f \in run.todo
        BY <1>17, <3>3 DEF Normalize, PhaseInv
      <4>2. source[f] # 0
        BY <1>17, <3>2, <3>3, BuiltVer DEF Normalize, TodoInv
      <4>3. Normalized(tree[f]) =
              Built(source, patchVer, f, Done, (DZFiles \ run.todo) \cup {f})
        BY <3>2, <4>2, BuiltNorm
      <4>4. tree'[f] = Normalized(tree[f])
        BY <1>17, <3>3 DEF TypeOK, Normalize
      <4>5. (DZFiles \ run.todo) \cup {f} = DZFiles \ run'.todo
        BY <3>1, <3>3, <4>1
      <4>6. tree'[f] = Built(source, patchVer, f, Done, DZFiles \ run'.todo)
        BY <4>3, <4>4, <4>5, Zenon
      <4> QED
        BY <1>17, <3>1, <4>6 DEF Normalize, inputs
    <3>4. CASE f # g
      <4>1. f \in DZFiles \ run.todo <=> f \in DZFiles \ run'.todo
        BY <3>1, <3>4
      <4>2. tree'[f] = Built(source, patchVer, f, Done, DZFiles \ run'.todo)
        <5>1. tree'[f] = tree[f]
          BY <1>17, <3>4 DEF TypeOK, Normalize
        <5> QED
          BY <3>2, <4>1, <5>1, BuiltNorms
      <4> QED
        BY <1>17, <3>1, <4>2 DEF Normalize, inputs
    <3> QED
      BY <3>3, <3>4
  <2>5. TodoInv'
    BY <1>17 DEF TypeOK, PhaseInv, Normalize, TodoInv, Goto, Fail, inputs,
       staged
  <2>6. StampInv'
    BY <1>17 DEF TypeOK, PhaseInv, Normalize, StampInv, Vouches, Done, Goto,
       Fail, inputs, staged
  <2> QED
    BY <2>1, <2>2, <2>3, <2>4, <2>5, <2>6
<1>18. CASE Crash
  <2>1. PhaseInv'
    BY <1>18 DEF TypeOK, PhaseInv, Crash, Goto, Fail, inputs, staged
  <2>2. CopyInv'
    BY <1>18 DEF TypeOK, PhaseInv, Crash, CopyInv, Done, Goto, Fail, inputs,
       staged
  <2>3. PatchInv'
    BY <1>18 DEF TypeOK, PhaseInv, Crash, PatchInv, Done, Goto, Fail, inputs,
       staged
  <2>4. NormalizeInv'
    BY <1>18 DEF TypeOK, PhaseInv, Crash, NormalizeInv, Done, Goto, Fail,
       inputs, staged
  <2>5. TodoInv'
    BY <1>18 DEF TypeOK, PhaseInv, Crash, TodoInv, Goto, Fail, inputs, staged
  <2>6. StampInv'
    BY <1>18 DEF TypeOK, PhaseInv, Crash, StampInv, Vouches, Done, Goto, Fail,
       inputs, staged
  <2> QED
    BY <2>1, <2>2, <2>3, <2>4, <2>5, <2>6
<1>19. ASSUME NEW g \in Files, NEW v \in {0, clock + 1}, EditSource(g, v) PROVE IInv'
  <2>1. PhaseInv'
    BY <1>19 DEF TypeOK, PhaseInv, EditSource, Goto, Fail, inputs, staged,
       Tick, SourceRaces
  <2>2. CopyInv'
    <3> SUFFICES ASSUME pc' = "copy", ~run'.err, doubt' = {}, NEW f \in Files, f \notin run.todo
                 PROVE  Built(source', patchVer', f, {}, {}) = Built(source, patchVer, f, {}, {})
      BY <1>19 DEF EditSource, CopyInv, staged
    <3>1. f # g
      BY <1>19 DEF EditSource, SourceRaces
    <3>2. source'[f] = source[f] /\ patchVer' = patchVer
      BY <1>19, <3>1 DEF TypeOK, EditSource
    <3> QED
      BY <3>2, BuiltSource
  <2>3. PatchInv'
    BY <1>19 DEF TypeOK, PhaseInv, EditSource, PatchInv, Done, Goto, Fail,
       inputs, staged, Tick, SourceRaces
  <2>4. NormalizeInv'
    BY <1>19 DEF TypeOK, PhaseInv, EditSource, NormalizeInv, Done, Goto, Fail,
       inputs, staged, Tick, SourceRaces
  <2>5. TodoInv'
    BY <1>19 DEF TypeOK, PhaseInv, EditSource, TodoInv, Goto, Fail, inputs,
       staged, Tick, SourceRaces
  <2>6. StampInv'
    BY <1>19 DEF TypeOK, PhaseInv, EditSource, StampInv, Vouches, Done, Goto,
       Fail, inputs, staged, Tick, SourceRaces
  <2> QED
    BY <2>1, <2>2, <2>3, <2>4, <2>5, <2>6
<1>20. ASSUME NEW p \in Patches, NEW t \in 1..(clock + 1), EditPatch(p, t) PROVE IInv'
  <2>1. PhaseInv'
    BY <1>20 DEF TypeOK, PhaseInv, EditPatch, Goto, Fail, inputs, staged,
       Tick, PatchRaces
  <2>2. CopyInv'
    <3>1. \A f : Built(source, patchVer', f, {}, {}) = Built(source, patchVer, f, {}, {})
      BY BuiltFrame DEF Agree
    <3> QED
      BY <1>20, <3>1 DEF EditPatch, CopyInv, staged
  <2>3. PatchInv'
    <3> SUFFICES ASSUME pc \in {"patch", "apply"}, doubt' = {}, Intact(patchVer', Done)
                 PROVE  /\ \A f, fs : Built(source, patchVer', f, Done, fs)
                             = Built(source, patchVer, f, Done, fs)
                        /\ Intact(patchVer, Done) /\ doubt = {}
      BY <1>20 DEF EditPatch, PatchInv, Done, staged
    <3>1. run.next \in Nat /\ (1..(run.next - 1)) \subseteq DOMAIN run.list
      BY DEF TypeOK, PhaseInv
    <3>2. p \notin Done
      BY <1>20, <3>1 DEF EditPatch, PatchRaces, Done, Before
    <3>3. Agree(patchVer', patchVer, Done)
      BY <1>20, <3>2 DEF TypeOK, EditPatch, Agree
    <3>4. \A f, fs : Built(source, patchVer', f, Done, fs)
                     = Built(source, patchVer, f, Done, fs)
      BY <3>3, BuiltFrame
    <3>5. Intact(patchVer, Done)
      BY <3>3 DEF Intact, Agree
    <3>6. doubt = {}
      BY <1>20 DEF EditPatch
    <3> QED
      BY <3>4, <3>5, <3>6
  <2>4. NormalizeInv'
    <3> SUFFICES ASSUME pc \in {"normalize", "stamp"}, doubt' = {}, Intact(patchVer', Done)
                 PROVE  /\ \A f, fs : Built(source, patchVer', f, Done, fs)
                             = Built(source, patchVer, f, Done, fs)
                        /\ Intact(patchVer, Done) /\ doubt = {}
      BY <1>20 DEF EditPatch, NormalizeInv, Done, staged
    <3>1. run.next \in Nat /\ (1..(run.next - 1)) \subseteq DOMAIN run.list
      BY DEF TypeOK, PhaseInv
    <3>2. p \notin Done
      BY <1>20, <3>1 DEF EditPatch, PatchRaces, Done, Before
    <3>3. Agree(patchVer', patchVer, Done)
      BY <1>20, <3>2 DEF TypeOK, EditPatch, Agree
    <3>4. \A f, fs : Built(source, patchVer', f, Done, fs)
                     = Built(source, patchVer, f, Done, fs)
      BY <3>3, BuiltFrame
    <3>5. Intact(patchVer, Done)
      BY <3>3 DEF Intact, Agree
    <3>6. doubt = {}
      BY <1>20 DEF EditPatch
    <3> QED
      BY <3>4, <3>5, <3>6
  <2>5. TodoInv'
    BY <1>20 DEF TypeOK, PhaseInv, EditPatch, TodoInv, Goto, Fail, inputs,
       staged, Tick, PatchRaces
  <2>6. StampInv'
    <3>1. ASSUME pc = "write", doubt' = {}, Intact(patchVer', Done)
          PROVE  /\ Intact(patchVer, Done) /\ doubt = {}
                 /\ Agree(patchVer', patchVer, Listed(stamp.list))
      <4>1. run.next \in Nat /\ (1..(run.next - 1)) \subseteq DOMAIN run.list
        BY <3>1 DEF TypeOK, PhaseInv
      <4>2. p \notin Done
        BY <1>20, <3>1, <4>1 DEF EditPatch, PatchRaces, Done, Before
      <4>3. Agree(patchVer', patchVer, Done)
        BY <1>20, <3>1, <4>2 DEF TypeOK, EditPatch, Agree
      <4>4. Done = Listed(stamp.list)
        BY <3>1, BeforeEnd DEF TypeOK, PhaseInv, Done
      <4> QED
        BY <1>20, <3>1, <4>3, <4>4 DEF EditPatch, Intact, Agree
    <3>2. ASSUME stamp.state = "full", doubt' = {}, Intact(patchVer', Listed(stamp.list)),
                 \A q \in Listed(stamp.list) : patchTime'[q] <= stamp.time
          PROVE  /\ Intact(patchVer, Listed(stamp.list)) /\ doubt = {}
                 /\ \A q \in Listed(stamp.list) : patchTime[q] <= stamp.time
                 /\ Agree(patchVer', patchVer, Listed(stamp.list))
      <4>1. p \notin Listed(stamp.list)
        BY <1>20, <3>2 DEF TypeOK, EditPatch, Intact
      <4> QED
        BY <1>20, <3>2, <4>1 DEF TypeOK, EditPatch, Intact, Agree
    <3>3. ASSUME Agree(patchVer', patchVer, Listed(stamp.list)), Vouches
          PROVE  Vouches'
      BY <1>20, <3>3, BuiltFrame DEF EditPatch, Vouches, staged
    <3> QED
      BY <1>20, <3>1, <3>2, <3>3 DEF EditPatch, StampInv, Done, staged
  <2> QED
    BY <2>1, <2>2, <2>3, <2>4, <2>5, <2>6
<1>21. ASSUME NEW p \in Patches, DeletePatch(p) PROVE IInv'
  <2>1. PhaseInv'
    BY <1>21 DEF TypeOK, PhaseInv, DeletePatch, Goto, Fail, inputs, staged,
       Tick
  <2>2. CopyInv'
    <3>1. \A f : Built(source, patchVer', f, {}, {}) = Built(source, patchVer, f, {}, {})
      BY BuiltFrame DEF Agree
    <3> QED
      BY <1>21, <3>1 DEF DeletePatch, CopyInv, staged
  <2>3. PatchInv'
    <3> SUFFICES ASSUME pc \in {"patch", "apply"}, doubt' = {}, Intact(patchVer', Done)
                 PROVE  /\ \A f, fs : Built(source, patchVer', f, Done, fs)
                             = Built(source, patchVer, f, Done, fs)
                        /\ Intact(patchVer, Done) /\ doubt = {}
      BY <1>21 DEF DeletePatch, PatchInv, Done, staged
    <3>2. p \notin Done
      BY <1>21 DEF TypeOK, DeletePatch, Intact, Done
    <3>3. Agree(patchVer', patchVer, Done)
      BY <1>21, <3>2 DEF TypeOK, DeletePatch, Agree
    <3>4. \A f, fs : Built(source, patchVer', f, Done, fs)
                     = Built(source, patchVer, f, Done, fs)
      BY <3>3, BuiltFrame
    <3>5. Intact(patchVer, Done)
      BY <3>3 DEF Intact, Agree
    <3>6. doubt = {}
      BY <1>21 DEF DeletePatch
    <3> QED
      BY <3>4, <3>5, <3>6
  <2>4. NormalizeInv'
    <3> SUFFICES ASSUME pc \in {"normalize", "stamp"}, doubt' = {}, Intact(patchVer', Done)
                 PROVE  /\ \A f, fs : Built(source, patchVer', f, Done, fs)
                             = Built(source, patchVer, f, Done, fs)
                        /\ Intact(patchVer, Done) /\ doubt = {}
      BY <1>21 DEF DeletePatch, NormalizeInv, Done, staged
    <3>2. p \notin Done
      BY <1>21 DEF TypeOK, DeletePatch, Intact, Done
    <3>3. Agree(patchVer', patchVer, Done)
      BY <1>21, <3>2 DEF TypeOK, DeletePatch, Agree
    <3>4. \A f, fs : Built(source, patchVer', f, Done, fs)
                     = Built(source, patchVer, f, Done, fs)
      BY <3>3, BuiltFrame
    <3>5. Intact(patchVer, Done)
      BY <3>3 DEF Intact, Agree
    <3>6. doubt = {}
      BY <1>21 DEF DeletePatch
    <3> QED
      BY <3>4, <3>5, <3>6
  <2>5. TodoInv'
    BY <1>21 DEF TypeOK, PhaseInv, DeletePatch, TodoInv, Goto, Fail, inputs,
       staged, Tick
  <2>6. StampInv'
    <3>1. ASSUME pc = "write", doubt' = {}, Intact(patchVer', Done)
          PROVE  /\ Intact(patchVer, Done) /\ doubt = {}
                 /\ Agree(patchVer', patchVer, Listed(stamp.list))
      <4>2. p \notin Done
        BY <1>21, <3>1 DEF TypeOK, DeletePatch, Intact, Done
      <4>3. Agree(patchVer', patchVer, Done)
        BY <1>21, <3>1, <4>2 DEF TypeOK, DeletePatch, Agree
      <4>4. Done = Listed(stamp.list)
        BY <3>1, BeforeEnd DEF TypeOK, PhaseInv, Done
      <4> QED
        BY <1>21, <3>1, <4>3, <4>4 DEF DeletePatch, Intact, Agree
    <3>2. ASSUME stamp.state = "full", doubt' = {}, Intact(patchVer', Listed(stamp.list)),
                 \A q \in Listed(stamp.list) : patchTime'[q] <= stamp.time
          PROVE  /\ Intact(patchVer, Listed(stamp.list)) /\ doubt = {}
                 /\ \A q \in Listed(stamp.list) : patchTime[q] <= stamp.time
                 /\ Agree(patchVer', patchVer, Listed(stamp.list))
      <4>1. p \notin Listed(stamp.list)
        BY <1>21, <3>2 DEF TypeOK, DeletePatch, Intact
      <4> QED
        BY <1>21, <3>2, <4>1 DEF TypeOK, DeletePatch, Intact, Agree
    <3>3. ASSUME Agree(patchVer', patchVer, Listed(stamp.list)), Vouches
          PROVE  Vouches'
      BY <1>21, <3>3, BuiltFrame DEF DeletePatch, Vouches, staged
    <3> QED
      BY <1>21, <3>1, <3>2, <3>3 DEF DeletePatch, StampInv, Done, staged
  <2> QED
    BY <2>1, <2>2, <2>3, <2>4, <2>5, <2>6
<1>22. ASSUME NEW list \in PatchLists, EditRecipe(list) PROVE IInv'
  <2>1. PhaseInv'
    BY <1>22 DEF TypeOK, PhaseInv, EditRecipe, Goto, Fail, inputs, staged,
       Tick
  <2>2. CopyInv'
    BY <1>22 DEF TypeOK, PhaseInv, EditRecipe, CopyInv, Done, Goto, Fail,
       inputs, staged, Tick
  <2>3. PatchInv'
    BY <1>22 DEF TypeOK, PhaseInv, EditRecipe, PatchInv, Done, Goto, Fail,
       inputs, staged, Tick
  <2>4. NormalizeInv'
    BY <1>22 DEF TypeOK, PhaseInv, EditRecipe, NormalizeInv, Done, Goto, Fail,
       inputs, staged, Tick
  <2>5. TodoInv'
    BY <1>22 DEF TypeOK, PhaseInv, EditRecipe, TodoInv, Goto, Fail, inputs,
       staged, Tick
  <2>6. StampInv'
    BY <1>22 DEF TypeOK, PhaseInv, EditRecipe, StampInv, Vouches, Done, Goto,
       Fail, inputs, staged, Tick
  <2> QED
    BY <2>1, <2>2, <2>3, <2>4, <2>5, <2>6
<1>23. CASE UNCHANGED vars
  BY <1>23 DEF vars, PhaseInv, CopyInv, PatchInv, NormalizeInv, TodoInv,
     StampInv, Done, Vouches
<1> QED
  BY <1>1, <1>2, <1>3, <1>4, <1>5, <1>6, <1>7, <1>8, <1>9, <1>10, <1>11,
     <1>12, <1>13, <1>14, <1>15, <1>16, <1>17, <1>18, <1>19, <1>20, <1>21,
     <1>22, <1>23 DEF Next, PrepareStep, Edit

LEMMA Invariant == Spec => [](TypeOK /\ IInv)
<1>1. Init => TypeOK /\ IInv
  BY TypeInit, InvInit
<1>2. TypeOK /\ IInv /\ [Next]_vars => (TypeOK /\ IInv)'
  BY TypeStep, InvStep
<1> QED
  BY <1>1, <1>2, PTL DEF Spec

LEMMA InvImpliesCurrent == TypeOK /\ IInv => AcceptedTreeIsCurrent
BY DEF TypeOK, IInv, StampInv, Vouches, Intact, AcceptedTreeIsCurrent,
   Accepted,
       PatchesResolve, IsFresh, Fingerprint, Wanted

\* A staged tree that the skip test accepts, built from the list the recipe
\* has now and with no doubt on record, is the tree restaging would produce:
\* whatever the files, the patches and the order of edits, runs and crashes.
THEOREM CacheIsExact == Spec => []AcceptedTreeIsCurrent
BY Invariant, InvImpliesCurrent, PTL
-----------------------------------------------------------------------------
(* What a step may not do.                                                 *)

UnderStamp ==
  stamp.state = "full" /\ stamp'.state = "full" =>
    \A f \in Files : tree'[f] \in {tree[f], Absent}

\* The steps that write files of the tree find no stamp on it; rmtree only
\* takes files away; no other step touches the tree.
LEMMA StepUnderStamp == TypeOK /\ IInv /\ [Next]_vars => [UnderStamp]_vars
<1> SUFFICES ASSUME TypeOK, IInv, Next, stamp.state = "full"
             PROVE  \A f \in Files : tree'[f] \in {tree[f], Absent}
  BY DEF UnderStamp
<1>1. pc \notin {"copy", "apply", "normalize"}
  BY DEF IInv, PhaseInv
<1>2. ASSUME NEW f \in Files, RmFile(f)
      PROVE  \A g \in Files : tree'[g] \in {tree[g], Absent}
  BY <1>2 DEF RmFile, TypeOK
<1>3. ASSUME tree' = tree
      PROVE  \A g \in Files : tree'[g] \in {tree[g], Absent}
  BY <1>3
<1>4. CASE PrepareStep
  <2>1. CASE Skip \/ Restage \/ RmStamp \/ RmDir \/ MakeDir \/ CopyDone
    BY <2>1, <1>3 DEF Skip, Restage, RmStamp, RmDir, MakeDir, CopyDone, staged
  <2>2. CASE CheckPatch \/ PatchesDone \/ NormalizeDone \/ OpenStamp \/ WriteStamp \/ Reload
    BY <2>2, <1>3
       DEF CheckPatch, PatchesDone, NormalizeDone, OpenStamp, WriteStamp, Reload, staged
  <2>3. CASE ApplyPatch \/ \E f \in Files : CopyFile(f) \/ Normalize(f)
    BY <2>3, <1>1 DEF ApplyPatch, CopyFile, Normalize
  <2> QED BY <1>2, <1>4, <2>1, <2>2, <2>3 DEF PrepareStep
<1>5. CASE Crash \/ Edit \/ \E rebuild \in Rebuilds : Start(rebuild)
  BY <1>5, <1>3
     DEF Crash, Edit, Start, EditSource, EditPatch, DeletePatch, EditRecipe, staged
<1> QED BY <1>4, <1>5 DEF Next

\* Under a stamp with a body files are only ever taken away, whatever runs,
\* crashes and edits came before.
THEOREM StampedTreesAreNotWritten == Spec => NoWriteUnderAStamp
<1>1. TypeOK /\ IInv /\ [Next]_vars => [UnderStamp]_vars
  BY StepUnderStamp
<1>2. Spec => [][UnderStamp]_vars
  BY <1>1, Invariant, PTL DEF Spec
<1> QED BY <1>2 DEF NoWriteUnderAStamp, UnderStamp
=============================================================================
