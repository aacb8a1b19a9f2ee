------------------------------ MODULE Staging ------------------------------
(* cmd_stage: migrate the chosen libraries into a staging tree that CMake  *)
(* builds, run after run on the same tree.                                 *)
(*                                                                         *)
(* The build reads three things a run leaves behind: every <lib>/          *)
(* manifest.cmake (a library that has one is built), target_config.cmake   *)
(* (the libraries that are tested and installed, and those whose archives  *)
(* the privatize gate audits), and the gate's list of names.  The list of  *)
(* names is one file that recipes opt in to; it is a version number here,  *)
(* and so are the sources it was applied to.  Each of the three is written *)
(* by emptying the file and filling it, and a run may be killed in between.*)
(* What run_migration does to one library is MigratePipeline's business.   *)
EXTENDS Integers

CONSTANTS
  Libs,       \* the libraries
  Pos,        \* LIBRARY_ORDER: the position of each
  Headed,     \* those whose reference headers are staged too
  FirstOptin, \* those whose recipe names the privatization manifest at first
  None,
  EditsWhileRunning, \* whether the recipes may change during a run
  MaxRuns, MaxStops, MaxEdits

ASSUME StagingAssumption ==
  /\ Pos \in [Libs -> Nat]
  /\ \A k, l \in Libs : Pos[k] = Pos[l] => k = l
  /\ Headed \subseteq Libs
  /\ FirstOptin \subseteq Libs
  /\ None \notin Libs
  /\ EditsWhileRunning \in BOOLEAN
  /\ MaxRuns \in Nat /\ MaxStops \in Nat /\ MaxEdits \in Nat

VARIABLES
  names,    \* version of privatize_ep_symbols.txt
  optin,    \* libraries whose recipe names it
  dirs,     \* <lib>/src exists
  src,      \* version of the names its sources were privatized with, 0 if not
  listing,  \* <lib>/manifest.cmake exists
  cut,      \* it exists and is not whole
  corrupt,  \* its typed headers lost a struct's layout
  config,   \* the two lists of target_config.cmake, as _prior_list reads them
  gate,     \* version of the staged copy of the names, 0 if there is no whole one
  pc,
  run,      \* the locals of cmd_stage
  outcome,  \* of the last run
  open,     \* ghost: touched by a run, and no finished list since
  dropped,  \* ghost: unlisted by a baseline staging
  removed,  \* ghost: deleted by the user and not staged again
  raced,    \* ghost: the recipe changed between its two readings
  lost,     \* ghost: unlisted by a run killed while it wrote the lists
  unaudited,\* ghost: its flag was lost so
  torn,     \* ghost: a copy of the names was begun, and none finished since
  count     \* runs, stops and edits so far

disk  == <<dirs, src, listing, cut, corrupt>>
history == <<lost, unaudited, torn>>
ghost == <<open, dropped, removed, raced, history>>
vars  == <<names, optin, disk, config, gate, pc, run, outcome, ghost, count>>

NoConfig == [libs |-> {}, private |-> {}]
NoRun == [todo |-> {}, cur |-> None, loaded |-> 0, staged |-> {}, private |-> {},
          merged |-> NoConfig]

Init == /\ names = 1 /\ optin = FirstOptin
        /\ dirs = {} /\ src = [l \in Libs |-> 0] /\ listing = {} /\ cut = {}
        /\ corrupt = {}
        /\ config = NoConfig /\ gate = 0
        /\ pc = "idle" /\ run = NoRun /\ outcome = "none"
        /\ open = {} /\ dropped = {} /\ removed = {} /\ raced = {}
        /\ lost = {} /\ unaudited = {} /\ torn = FALSE
        /\ count = [runs |-> 0, stops |-> 0, edits |-> 0]

\* config.privatize_symbols of a recipe loaded now.
Loaded(l) == IF l \in optin THEN names ELSE 0
-----------------------------------------------------------------------------
(* One run.                                                                *)

Start(S) == /\ pc = "idle"
            /\ count.runs < MaxRuns
            /\ run' = [NoRun EXCEPT !.todo = S]
            /\ pc' = "next"
            /\ outcome' = "running"
            /\ count' = [count EXCEPT !.runs = @ + 1]
            /\ UNCHANGED <<names, optin, disk, config, gate, ghost>>

\* The next library of LIBRARY_ORDER; its directory is made.
Enter(l) == /\ pc = "next"
            /\ l \in run.todo
            /\ \A k \in run.todo \ {l} : Pos[l] < Pos[k]
            /\ run' = [run EXCEPT !.todo = @ \ {l}, !.cur = l]
            /\ dirs' = dirs \cup {l}
            /\ pc' = "load"
            /\ open' = open \cup {l}
            /\ UNCHANGED <<names, optin, src, listing, cut, corrupt, config, gate,
                           outcome, dropped, removed, raced, history, count>>

\* run_migration loads the recipe and with it the names.
Load == /\ pc = "load"
        /\ run' = [run EXCEPT !.loaded = Loaded(run.cur)]
        /\ pc' = "write"
        /\ raced' = raced \ {run.cur}
        /\ UNCHANGED <<names, optin, disk, config, gate, outcome, open, dropped,
                       removed, history, count>>

\* Migrated sources overwrite the library's files; a rename that goes wrong
\* corrupts the layout of a struct in its headers.
Write(bad) == /\ pc = "write"
              /\ bad => run.cur \in Headed
              /\ src' = [src EXCEPT ![run.cur] = 0]
              /\ corrupt' = IF bad THEN corrupt \cup {run.cur} ELSE corrupt \ {run.cur}
              /\ pc' = IF run.loaded > 0 THEN "privatize" ELSE "reload"
              /\ UNCHANGED <<names, optin, dirs, listing, cut, config, gate, run,
                             outcome, ghost, count>>

Privatize == /\ pc = "privatize"
             /\ src' = [src EXCEPT ![run.cur] = run.loaded]
             /\ pc' = "reload"
             /\ UNCHANGED <<names, optin, dirs, listing, cut, corrupt, config, gate,
                            run, outcome, ghost, count>>

\* cmd_stage loads the recipe a second time.
Reload == /\ pc = "reload"
          /\ run' = [run EXCEPT !.loaded = Loaded(run.cur)]
          /\ pc' = "list"
          /\ UNCHANGED <<names, optin, disk, config, gate, outcome, ghost, count>>

\* manifest.cmake is emptied.
OpenListing == /\ pc = "list"
               /\ listing' = listing \cup {run.cur}
               /\ cut' = cut \cup {run.cur}
               /\ pc' = "fill"
               /\ removed' = removed \ {run.cur}
               /\ UNCHANGED <<names, optin, dirs, src, corrupt, config, gate, run,
                              outcome, open, dropped, raced, history, count>>

\* manifest.cmake is whole; then the two local lists.
List == /\ pc = "fill"
        /\ cut' = cut \ {run.cur}
        /\ run' = [run EXCEPT
                     !.staged = @ \cup {run.cur},
                     !.private = IF run.loaded > 0 THEN @ \cup {run.cur} ELSE @]
        /\ pc' = "next"
        /\ UNCHANGED <<names, optin, dirs, src, listing, corrupt, config, gate, outcome,
                       ghost, count>>

\* The lists to be written are known; write_text empties target_config.cmake.
PutConfig(libs, private) ==
  /\ pc = "next"
  /\ run.todo = {}
  /\ run' = [run EXCEPT !.merged = [libs |-> libs, private |-> private]]
  /\ config' = NoConfig
  /\ pc' = "libs"
  /\ UNCHANGED <<names, optin, disk, gate, outcome, ghost, count>>

\* Mutants: the prior list is what directories there are; there is none; a
\* prior flag survives a restage.
WriteConfigByDirs == PutConfig(dirs \cup run.staged,
                               ((config.private \cap dirs) \ run.staged) \cup run.private)
WriteConfigFresh == PutConfig(run.staged, run.private)
WriteConfigKeepFlags == PutConfig((config.libs \cap dirs) \cup run.staged,
                                  (config.private \cap dirs) \cup run.private)

\* Entries of the prior target_config.cmake whose directory is still there
\* stay; a restaged library takes its flag from this run.
WriteConfig == PutConfig((config.libs \cap dirs) \cup run.staged,
                         ((config.private \cap dirs) \ run.staged) \cup run.private)

\* STAGED_LIBRARIES reaches the file first: a list without its closing
\* parenthesis is none to _prior_list, so each list is there or it is not.
WriteLibs == /\ pc = "libs"
             /\ config' = [config EXCEPT !.libs = run.merged.libs]
             /\ pc' = "flags"
             /\ UNCHANGED <<names, optin, disk, gate, run, outcome, ghost, count>>

WriteFlags == /\ pc = "flags"
              /\ config' = [config EXCEPT !.private = run.merged.private]
              /\ pc' = "gate"
              /\ UNCHANGED <<names, optin, disk, gate, run, outcome, ghost, count>>

\* What the run has staged is as good as any run can make it.
Close == /\ pc' = "abi"
         /\ open' = open \ run.staged
         /\ dropped' = dropped \ run.staged
         /\ lost' = lost \ run.staged
         /\ unaudited' = unaudited \ run.staged

\* shutil.copy2 empties the names the gate audits with.
OpenGate == /\ gate' = 0
            /\ pc' = "copy"
            /\ torn' = TRUE
            /\ UNCHANGED <<names, optin, disk, config, run, outcome, open, dropped,
                           removed, raced, lost, unaudited, count>>

SkipGate == /\ Close
            /\ UNCHANGED <<names, optin, disk, config, gate, run, outcome, removed,
                           raced, torn, count>>

\* Mutant: a copy that is there is kept.
CopyGateOnce == /\ pc = "gate"
                /\ \/ config.private # {} /\ gate = 0 /\ OpenGate
                   \/ (config.private = {} \/ gate # 0) /\ SkipGate

CopyGate == /\ pc = "gate"
            /\ \/ config.private # {} /\ OpenGate
               \/ config.private = {} /\ SkipGate

WriteGate == /\ pc = "copy"
             /\ gate' = names
             /\ torn' = FALSE
             /\ Close
             /\ UNCHANGED <<names, optin, disk, config, run, outcome, removed, raced,
                            count>>

Finish(suspects) ==
  /\ pc = "abi"
  /\ outcome' = IF corrupt \cap suspects = {} THEN "complete" ELSE "aborted"
  /\ pc' = "idle"
  /\ run' = NoRun
  /\ UNCHANGED <<names, optin, disk, config, gate, ghost, count>>

\* Mutant: only the libraries of this run are checked.
CheckStagedABI == Finish(run.staged)

\* _assert_shared_struct_abi walks the whole tree, after everything is written.
CheckABI == Finish(dirs)
-----------------------------------------------------------------------------
(* What interferes.                                                        *)

\* The process is killed, between two writes or inside one, or run_migration
\* raises: nothing is undone.  An entry of the file that was emptied and not
\* yet filled is known to no later run, unless this run staged it anew.
Stop == /\ pc # "idle"
        /\ count.stops < MaxStops
        /\ pc' = "idle"
        /\ run' = NoRun
        /\ outcome' = "stopped"
        /\ lost' = IF pc = "libs" THEN lost \cup (run.merged.libs \ run.staged) ELSE lost
        /\ unaudited' = IF pc = "flags"
                        THEN unaudited \cup (run.merged.private \ run.staged)
                        ELSE unaudited
        /\ count' = [count EXCEPT !.stops = @ + 1]
        /\ UNCHANGED <<names, optin, disk, config, gate, open, dropped, removed,
                       raced, torn>>

\* --target kind4 / kind8 on the same tree: both lists become empty, and
\* empty they are too if it is killed inside its write.
StageBaseline == /\ pc = "idle"
                 /\ count.runs < MaxRuns
                 /\ config' = NoConfig
                 /\ outcome' = "baseline"
                 /\ dropped' = dropped \cup listing
                 /\ count' = [count EXCEPT !.runs = @ + 1]
                 /\ UNCHANGED <<names, optin, disk, gate, pc, run, open, removed,
                                raced, history>>

\* The user deletes a library from the tree.
Remove(l) == /\ pc = "idle"
             /\ l \in dirs
             /\ dirs' = dirs \ {l}
             /\ src' = [src EXCEPT ![l] = 0]
             /\ listing' = listing \ {l}
             /\ cut' = cut \ {l}
             /\ corrupt' = corrupt \ {l}
             /\ removed' = removed \cup {l}
             /\ UNCHANGED <<names, optin, config, gate, pc, run, outcome, open, dropped,
                            raced, history, count>>

MayEdit == /\ count.edits < MaxEdits
           /\ pc = "idle" \/ EditsWhileRunning

EditNames == /\ MayEdit
             /\ names' = names + 1
             /\ count' = [count EXCEPT !.edits = @ + 1]
             /\ UNCHANGED <<optin, disk, config, gate, pc, run, outcome, ghost>>

\* A recipe starts or stops naming the manifest.
EditRecipe(l) == /\ MayEdit
                 /\ optin' = IF l \in optin THEN optin \ {l} ELSE optin \cup {l}
                 /\ raced' = IF l = run.cur /\ pc \in {"write", "privatize", "reload"}
                             THEN raced \cup {l} ELSE raced
                 /\ count' = [count EXCEPT !.edits = @ + 1]
                 /\ UNCHANGED <<names, disk, config, gate, pc, run, outcome, open,
                                dropped, removed, history>>

Next == \/ \E S \in SUBSET Libs \ {{}} : Start(S)
        \/ \E l \in Libs : Enter(l)
        \/ Load \/ \E bad \in BOOLEAN : Write(bad)
        \/ Privatize \/ Reload \/ OpenListing \/ List
        \/ WriteConfig \/ WriteLibs \/ WriteFlags
        \/ CopyGate \/ WriteGate \/ CheckABI
        \/ Stop \/ StageBaseline \/ EditNames
        \/ \E l \in Libs : Remove(l) \/ EditRecipe(l)

Spec == Init /\ [][Next]_vars
-----------------------------------------------------------------------------
\* Every variable has its type; what a library has lies in its directory.
TypeOK ==
  /\ names \in Nat \ {0} /\ gate \in 0..names
  /\ optin \subseteq Libs /\ dirs \subseteq Libs
  /\ src \in [Libs -> 0..names]
  /\ listing \subseteq dirs /\ cut \subseteq listing
  /\ corrupt \subseteq dirs \cap Headed
  /\ config \in [libs : SUBSET Libs, private : SUBSET Libs]
  /\ pc \in {"idle", "next", "load", "write", "privatize", "reload", "list", "fill",
             "libs", "flags", "gate", "copy", "abi"}
  /\ run \in [todo : SUBSET Libs, cur : Libs \cup {None}, loaded : 0..names,
              staged : SUBSET Libs, private : SUBSET Libs,
              merged : [libs : SUBSET Libs, private : SUBSET Libs]]
  /\ pc \in {"load", "write", "privatize", "reload", "list", "fill"} => run.cur \in dirs
  /\ outcome \in {"none", "running", "complete", "aborted", "stopped", "baseline"}
  /\ open \subseteq Libs /\ dropped \subseteq Libs
  /\ removed \subseteq Libs /\ raced \subseteq Libs
  /\ lost \subseteq Libs /\ unaudited \subseteq Libs /\ torn \in BOOLEAN
  /\ count \in [runs : Nat, stops : Nat, edits : Nat]

\* target_config.cmake never lists a library that has no manifest.cmake: not
\* one whose migration was cut short in a fresh directory, whatever was
\* staged before or after.  Only a library the user deleted may be missing,
\* and only one that no finished run has staged since may be cut short.
ListedAreStaged == /\ config.libs \ removed \subseteq listing
                   /\ config.libs \cap cut \subseteq open

\* The comment in cmd_stage: "Re-stage with a subset of --libraries must not
\* shrink the unified build's library list".  A library that has a manifest
\* is built, so it must be listed too, but while the list is being written;
\* the exceptions are what a run cut short left behind, what a baseline
\* staging unlisted, and what a run killed inside that write unlisted.
NothingFallsOffTheList ==
  pc # "libs" => listing \subseteq config.libs \cup open \cup dropped \cup lost

\* The gate audits exactly the listed libraries whose sources went through
\* the renaming pass, however often, in which subsets and under which recipes
\* they were restaged, but for flags lost to a kill inside the write.
FlagTellsThePass ==
  pc # "flags" => \A l \in config.libs \ (open \cup removed \cup raced \cup unaudited) :
                     l \in config.private <=> src[l] > 0

\* The gate's names are never older than those a library it audits was
\* privatized with, unless the last copy was cut short; a gate that is older
\* lets names through.
GateIsNotOlder == ~torn => \A l \in config.private \ open : src[l] <= gate

\* The struct guard: a staging never completes over a library whose headers
\* an earlier staging corrupted, though that one was refused.
CompleteMeansCleanHeaders == outcome = "complete" /\ pc = "idle" => corrupt = {}
=============================================================================
