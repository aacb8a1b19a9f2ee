---------------------------- MODULE PrepareCache ----------------------------
(***************************************************************************)
(* The staged-sources cache of codegen/migrator/prepare.py.                *)
(*                                                                         *)
(* run_prepare copies a recipe's source_dir to build/staged-sources/<lib>, *)
(* applies the recipe's patches with git apply, normalises the literals of *)
(* the D/Z-half files and writes .prepared.stamp last.  A later run skips  *)
(* all of it when _is_fresh accepts the stamp.  One run is in progress at  *)
(* a time; the user may edit the upstream files, the patch files and the   *)
(* recipe at any moment, and a run may die between any two of its steps.   *)
(*                                                                         *)
(* Contents are version numbers.  Every edit takes the next value of       *)
(* clock, so two different contents never carry the same version and the   *)
(* fingerprint of a source tree (names, sizes, mtimes) is the function     *)
(* from file names to versions.  Version 0 is a file that is not there.    *)
(***************************************************************************)
EXTENDS Integers, Sequences

CONSTANTS
  Files,       \* file names of the upstream tree
  DZFiles,     \* the D/Z-half files, those _normalize_staged_kinds rewrites
  Patches,     \* patch files of the recipe's patch directory
  PatchLists,  \* the values the recipe's patches: list may take
  Touches,     \* Touches[p]: the files the hunks of p modify
  Drifted,     \* upstream versions on which no hunk applies any more
  Rebuilds,    \* values of --rebuild a run may be started with
  MaxClock,    \* bound: number of edits
  MaxCrashes   \* bound: number of runs killed half-way

ASSUME FilesAssumption == DZFiles \subseteq Files
ASSUME PatchesAssumption ==
  /\ PatchLists \subseteq Seq(Patches)
  /\ Touches \in [Patches -> SUBSET Files]
ASSUME BoundsAssumption ==
  /\ Drifted \subseteq Nat
  /\ Rebuilds \subseteq BOOLEAN
  /\ MaxClock \in Nat
  /\ MaxCrashes \in Nat

VARIABLES
  source,     \* source[f]: version of f in config.source_dir
  patchVer,   \* patchVer[p]: version of the patch file's text
  patchTime,  \* patchTime[p]: mtime of the patch file
  recipe,     \* the patches: list of the recipe YAML
  clock,      \* time, and the last version handed out
  dir,        \* whether staged_root exists
  tree,       \* tree[f]: the staged copy of f
  stamp,      \* the .prepared.stamp file
  pc,         \* where the current run of run_prepare is
  run,        \* its local variables
  outcome,    \* how the last run ended
  doubt,      \* history: why the stamp in the tree may be worth nothing
  crashes     \* number of crashes so far

inputs  == <<source, patchVer, patchTime, recipe, clock>>
staged  == <<dir, tree, stamp>>
vars    == <<source, patchVer, patchTime, recipe, clock, dir, tree, stamp,
             pc, run, outcome, doubt, crashes>>

\* A staged file: the upstream version it was copied from, the patches (with
\* their versions) applied to it, and whether its literals were normalised.
Copied(v) == [ver |-> v, applied |-> {}, norm |-> FALSE]
Absent    == Copied(0)
WithPatch(c, p, v) == [ver |-> c.ver, applied |-> c.applied \cup {<<p, v>>},
                       norm |-> c.norm]
Normalized(c) == [ver |-> c.ver, applied |-> c.applied, norm |-> TRUE]

\* The stamp is missing, created but not yet written, or written.  list is a
\* history field: the patch list the tree was built from, which the file
\* does not record.
NoStamp == [state |-> "none", body |-> [f \in Files |-> 0],
            time |-> 0, list |-> <<>>]

Init ==
  /\ source = [f \in Files |-> 1]
  /\ patchVer = [p \in Patches |-> 1]
  /\ patchTime = [p \in Patches |-> 1]
  /\ recipe \in PatchLists
  /\ clock = 1
  /\ dir = FALSE
  /\ tree = [f \in Files |-> Absent]
  /\ stamp = NoStamp
  /\ pc = "idle"
  /\ run = [list |-> <<>>, rebuild |-> FALSE, todo |-> {}, next |-> 1,
            err |-> FALSE]
  /\ outcome = "none"
  /\ doubt = {}
  /\ crashes = 0

----------------------------------------------------------------------------
(* What a run reads.                                                       *)

Listed(list) == {list[i] : i \in DOMAIN list}

\* _resolve_patches raises when a listed patch file does not exist.
PatchesResolve(list) == \A p \in Listed(list) : patchVer[p] # 0

SourceDirExists == \E f \in Files : source[f] # 0

\* _source_fingerprint: names, sizes and mtimes of every file.
Fingerprint == source

\* Mutant: the fingerprint is not compared.
IsFreshPatchesOnly(list) ==
  /\ stamp.state = "full"
  /\ \A p \in Listed(list) : patchTime[p] <= stamp.time

\* _is_fresh.  An empty stamp body never equals a fingerprint.
IsFresh(list) ==
  /\ stamp.state # "none"
  /\ \A p \in Listed(list) : patchTime[p] <= stamp.time
  /\ stamp.state = "full"
  /\ stamp.body = Fingerprint

\* git apply --check accepts p: the patch file and every file it touches are
\* there, upstream has not drifted, and the hunks are not already applied.
Applies(p) ==
  /\ patchVer[p] # 0
  /\ \A f \in Touches[p] :
       /\ tree[f].ver # 0
       /\ tree[f].ver \notin Drifted
       /\ \A a \in tree[f].applied : a[1] # p

----------------------------------------------------------------------------
(* One run of run_prepare and prepare_recipe.                              *)

Goto(label) == pc' = label

\* An exception leaves the staged tree as it is.
Fail == Goto("idle") /\ outcome' = "failed"

\* load_recipe and the two existence checks.
Start(rebuild) ==
  /\ pc = "idle"
  /\ run' = [list |-> recipe, rebuild |-> rebuild, todo |-> {}, next |-> 1,
             err |-> FALSE]
  /\ IF PatchesResolve(recipe) /\ SourceDirExists
       THEN Goto("check") /\ outcome' = "none"
       ELSE Fail
  /\ UNCHANGED <<inputs, staged, doubt, crashes>>

\* The skip test: the staged tree is returned as it is.
Skip ==
  /\ pc = "check"
  /\ ~run.rebuild /\ dir /\ IsFresh(run.list)
  /\ Goto("reload")
  /\ UNCHANGED <<inputs, staged, run, outcome, doubt, crashes>>

\* Mutant: copytree(dirs_exist_ok=True) over the old tree, without rmtree.
RestageOver ==
  /\ pc = "check"
  /\ run.rebuild \/ ~dir \/ ~IsFresh(run.list)
  /\ Goto("mkdir")
  /\ UNCHANGED <<inputs, staged, run, outcome, doubt, crashes>>

\* Mutant: copy only when there is no tree yet, and patch what is there.
RestageInPlace ==
  /\ pc = "check"
  /\ run.rebuild \/ ~dir \/ ~IsFresh(run.list)
  /\ Goto(IF dir THEN "patch" ELSE "mkdir")
  /\ UNCHANGED <<inputs, staged, run, outcome, doubt, crashes>>

Restage ==
  /\ pc = "check"
  /\ run.rebuild \/ ~dir \/ ~IsFresh(run.list)
  /\ Goto(IF dir THEN "rmtree" ELSE "mkdir")
  /\ UNCHANGED <<inputs, staged, run, outcome, doubt, crashes>>

\* shutil.rmtree unlinks the entries in directory order: any order.
RmFile(f) ==
  /\ pc = "rmtree" /\ tree[f] # Absent
  /\ tree' = [tree EXCEPT ![f] = Absent]
  /\ doubt' = IF stamp.state = "none" THEN doubt ELSE doubt \cup {"torn"}
  /\ UNCHANGED <<inputs, dir, stamp, pc, run, outcome, crashes>>

RmStamp ==
  /\ pc = "rmtree" /\ stamp.state # "none"
  /\ stamp' = NoStamp
  /\ UNCHANGED <<inputs, dir, tree, pc, run, outcome, doubt, crashes>>

RmDir ==
  /\ pc = "rmtree"
  /\ stamp.state = "none" /\ \A f \in Files : tree[f] = Absent
  /\ dir' = FALSE
  /\ Goto("mkdir")
  /\ UNCHANGED <<inputs, tree, stamp, run, outcome, doubt, crashes>>

\* shutil.copytree lists the source directory, then creates the target.
MakeDir ==
  /\ pc = "mkdir"
  /\ dir' = TRUE
  /\ run' = [run EXCEPT !.todo = {f \in Files : source[f] # 0}]
  /\ doubt' = {}
  /\ Goto("copy")
  /\ UNCHANGED <<inputs, tree, stamp, outcome, crashes>>

\* A listed file that has gone is recorded, and copytree raises at its end.
CopyFile(f) ==
  /\ pc = "copy" /\ f \in run.todo
  /\ tree' = [tree EXCEPT ![f] = Copied(source[f])]
  /\ run' = [run EXCEPT !.todo = @ \ {f}, !.err = @ \/ source[f] = 0]
  /\ UNCHANGED <<inputs, dir, stamp, pc, outcome, doubt, crashes>>

CopyDone ==
  /\ pc = "copy" /\ run.todo = {}
  /\ IF run.err THEN Fail ELSE Goto("patch") /\ UNCHANGED outcome
  /\ UNCHANGED <<inputs, staged, run, doubt, crashes>>

\* git apply --check; check=True turns a refusal into an exception.
CheckPatch ==
  /\ pc = "patch" /\ run.next <= Len(run.list)
  /\ IF Applies(run.list[run.next])
       THEN Goto("apply") /\ UNCHANGED outcome
       ELSE Fail
  /\ UNCHANGED <<inputs, staged, run, doubt, crashes>>

Patched(p) ==
  [f \in Files |->
     IF f \in Touches[p] THEN WithPatch(tree[f], p, patchVer[p]) ELSE tree[f]]

\* Mutant: the loop goes from one git apply to the next.
ApplyPatches ==
  /\ pc = "apply"
  /\ LET p == run.list[run.next] IN
       IF Applies(p)
         THEN /\ tree' = Patched(p)
              /\ run' = [run EXCEPT !.next = @ + 1]
              /\ UNCHANGED <<pc, outcome>>
         ELSE Fail /\ UNCHANGED <<tree, run>>
  /\ UNCHANGED <<inputs, dir, stamp, doubt, crashes>>

\* git apply reads the patch file again.
ApplyPatch ==
  /\ pc = "apply"
  /\ LET p == run.list[run.next] IN
       IF Applies(p)
         THEN /\ tree' = Patched(p)
              /\ run' = [run EXCEPT !.next = @ + 1]
              /\ Goto("patch")
              /\ UNCHANGED outcome
         ELSE Fail /\ UNCHANGED <<tree, run>>
  /\ UNCHANGED <<inputs, dir, stamp, doubt, crashes>>

PatchesDone ==
  /\ pc = "patch" /\ run.next > Len(run.list)
  /\ run' = [run EXCEPT !.todo = {f \in DZFiles : tree[f].ver # 0}]
  /\ Goto("normalize")
  /\ UNCHANGED <<inputs, staged, outcome, doubt, crashes>>

\* _normalize_staged_kinds, one file of its walk.
Normalize(f) ==
  /\ pc = "normalize" /\ f \in run.todo
  /\ tree' = [tree EXCEPT ![f] = Normalized(@)]
  /\ run' = [run EXCEPT !.todo = @ \ {f}]
  /\ UNCHANGED <<inputs, dir, stamp, pc, outcome, doubt, crashes>>

NormalizeDone ==
  /\ pc = "normalize" /\ run.todo = {}
  /\ Goto("stamp")
  /\ UNCHANGED <<inputs, staged, run, outcome, doubt, crashes>>

\* stamp.write_text: the fingerprint is computed first, over the upstream
\* tree as it is now; opening the file creates it empty.
OpenStamp ==
  /\ pc = "stamp"
  /\ stamp' = [state |-> "empty", body |-> Fingerprint, time |-> clock,
               list |-> run.list]
  /\ Goto("write")
  /\ UNCHANGED <<inputs, dir, tree, run, outcome, doubt, crashes>>

WriteStamp ==
  /\ pc = "write"
  /\ stamp' = [stamp EXCEPT !.state = "full", !.time = clock]
  /\ Goto("reload")
  /\ UNCHANGED <<inputs, dir, tree, run, outcome, doubt, crashes>>

\* prepare_recipe loads the recipe again and points it at the staged tree.
Reload ==
  /\ pc = "reload"
  /\ Goto("idle") /\ outcome' = "prepared"
  /\ UNCHANGED <<inputs, staged, run, doubt, crashes>>

Crash ==
  /\ pc # "idle" /\ crashes < MaxCrashes
  /\ crashes' = crashes + 1
  /\ Goto("idle") /\ outcome' = "crashed"
  /\ UNCHANGED <<inputs, staged, run, doubt>>

----------------------------------------------------------------------------
(* The user, who may edit anything at any time.                            *)

\* A change of upstream file f that the tree being built will not contain
\* although the stamp will record it.
SourceRaces(f) ==
  \/ pc = "copy" /\ f \notin run.todo
  \/ pc \in {"patch", "apply", "normalize", "stamp"}

\* A change of a patch that was already applied, before the stamp is dated.
PatchRaces(p) ==
  /\ pc \in {"patch", "apply", "normalize", "stamp", "write"}
  /\ \E i \in 1..(run.next - 1) : i \in DOMAIN run.list /\ run.list[i] = p

Tick == clock < MaxClock /\ clock' = clock + 1

\* Edit, add (v = clock + 1) or delete (v = 0) an upstream file.
EditSource(f, v) ==
  /\ Tick
  /\ v # source[f]
  /\ source' = [source EXCEPT ![f] = v]
  /\ doubt' = doubt \cup (IF SourceRaces(f) THEN {"raced"} ELSE {})
  /\ UNCHANGED <<patchVer, patchTime, recipe, staged, pc, run, outcome,
                 crashes>>

\* Edit a patch file in place (t = clock + 1), or move a file with an older
\* mtime over it.
EditPatch(p, t) ==
  /\ Tick
  /\ patchVer' = [patchVer EXCEPT ![p] = clock + 1]
  /\ patchTime' = [patchTime EXCEPT ![p] = t]
  /\ doubt' = doubt \cup (IF PatchRaces(p) THEN {"raced"} ELSE {})
                    \cup (IF stamp.state # "none" /\ t <= stamp.time
                            THEN {"backdated"} ELSE {})
  /\ UNCHANGED <<source, recipe, staged, pc, run, outcome, crashes>>

DeletePatch(p) ==
  /\ Tick
  /\ patchVer[p] # 0
  /\ patchVer' = [patchVer EXCEPT ![p] = 0]
  /\ UNCHANGED <<source, patchTime, recipe, staged, pc, run, outcome, doubt,
                 crashes>>

EditRecipe(list) ==
  /\ Tick
  /\ list # recipe
  /\ recipe' = list
  /\ UNCHANGED <<source, patchVer, patchTime, staged, pc, run, outcome,
                 doubt, crashes>>

----------------------------------------------------------------------------
PrepareStep ==
  \/ Skip \/ Restage \/ RmStamp \/ RmDir \/ MakeDir \/ CopyDone
  \/ CheckPatch \/ ApplyPatch \/ PatchesDone \/ NormalizeDone
  \/ OpenStamp \/ WriteStamp \/ Reload
  \/ \E f \in Files : RmFile(f) \/ CopyFile(f) \/ Normalize(f)

Edit ==
  \/ \E f \in Files, v \in {0, clock + 1} : EditSource(f, v)
  \/ \E p \in Patches, t \in 1..(clock + 1) : EditPatch(p, t)
  \/ \E p \in Patches : DeletePatch(p)
  \/ \E list \in PatchLists : EditRecipe(list)

Next ==
  \/ \E rebuild \in Rebuilds : Start(rebuild)
  \/ PrepareStep
  \/ Crash
  \/ Edit

Spec == Init /\ [][Next]_vars

\* The interpreter goes on with a run it has begun, and the build system
\* invokes the migrator again after an attempt that ended.
FairSpec ==
  /\ Spec
  /\ WF_vars(PrepareStep)
  /\ WF_vars(\E rebuild \in Rebuilds : Start(rebuild))

----------------------------------------------------------------------------
(* Properties.                                                             *)

Stages == {"idle", "check", "rmtree", "mkdir", "copy", "patch", "apply",
           "normalize", "stamp", "write", "reload"}

StagedFile == [ver : Nat, applied : SUBSET (Patches \X Nat), norm : BOOLEAN]

\* Every variable has its type.
TypeOK ==
  /\ source \in [Files -> Nat]
  /\ patchVer \in [Patches -> Nat]
  /\ patchTime \in [Patches -> Nat]
  /\ recipe \in PatchLists
  /\ clock \in Nat
  /\ dir \in BOOLEAN
  /\ tree \in [Files -> StagedFile]
  /\ stamp \in [state : {"none", "empty", "full"}, body : [Files -> Nat],
                time : Nat, list : Seq(Patches)]
  /\ pc \in Stages
  /\ run \in [list : Seq(Patches), rebuild : BOOLEAN, todo : SUBSET Files,
              next : Nat \ {0}, err : BOOLEAN]
  /\ pc = "apply" => run.next <= Len(run.list)
  /\ outcome \in {"none", "failed", "crashed", "prepared"}
  /\ doubt \subseteq {"raced", "backdated", "torn"}
  /\ crashes \in Nat

\* The staged copy of f once the patches ps, of versions pv, have been applied
\* to the version src[f] and the files fs have been normalised.
Built(src, pv, f, ps, fs) ==
  IF src[f] = 0 THEN Absent
  ELSE [ver |-> src[f],
        applied |-> {<<p, pv[p]>> : p \in {q \in ps : f \in Touches[q]}},
        norm |-> f \in fs]

\* The staged tree that preparing the current inputs produces.
Wanted(list) ==
  [f \in Files |->
     Built(source, patchVer, f, Listed(list), DZFiles)]

\* A run started now without --rebuild would return the tree as it is.
Accepted ==
  /\ PatchesResolve(recipe)
  /\ dir /\ IsFresh(recipe)

\* The cache is exact: a tree that would be returned without being restaged
\* is what restaging it now would produce.  The only exceptions are the four
\* the stamp cannot see: the recipe's list is not the one the tree was built
\* from, an input changed while the tree was being built, a patch was
\* replaced by a file whose mtime is not later than the stamp, or an
\* interrupted rmtree left the stamp behind.
AcceptedTreeIsCurrent ==
  Accepted /\ recipe = stamp.list /\ doubt = {} => tree = Wanted(recipe)

\* A stamp with a body is the last thing a run writes: as long as one is
\* there nothing is copied, patched or normalised under it, so what it
\* vouches for can lose files but never hold a half-made one.
NoWriteUnderAStamp ==
  [][stamp.state = "full" /\ stamp'.state = "full" =>
       \A f \in Files : tree'[f] \in {tree[f], Absent}]_vars

\* The inputs as they stand can be prepared.
InputsApply ==
  /\ PatchesResolve(recipe) /\ SourceDirExists
  /\ \A p \in Listed(recipe) : \A f \in Touches[p] :
       source[f] # 0 /\ source[f] \notin Drifted

\* However runs were killed or failed before, invoking the migrator again
\* ends in a prepared tree as soon as the inputs can be prepared: no
\* left-over of an earlier attempt blocks restaging.
EventuallyPrepared == []<>(outcome = "prepared") \/ []<>(~InputsApply)

\* What the module docstring says of the stamp (prepare.py:8-9): it records
\* that a preparation completed, so the tree a run returns holds every
\* upstream file the fingerprint names.
StampMeansCompleted ==
  pc = "reload" => \A f \in Files : stamp.body[f] # 0 => tree[f] # Absent
=============================================================================
