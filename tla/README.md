# Verification project for eplinalg

eplinalg builds extended-precision editions (kind10, kind16, multifloats) of
BLAS, LAPACK, ScaLAPACK and their friends. Almost all of its own logic is one
Python program, the **migrator** (`codegen/migrator/`): it prepares vendored
upstream sources, decides which names belong together, rewrites and renames
each file, privatizes the names that would clash, and lays out a staging tree
that CMake builds. What the migrated programs
reduce over MPI is in two small C and C++ libraries, and a sequential build
links stubs instead. This directory holds TLA+ models of three things:

* the migrator's control: what it does to files on disk, in which order, when
  runs are killed, repeated, restricted to a subset or started over edited
  inputs, and when the processes of its worker pool die;
* the migrator's passes over Fortran text that carry state from line to line,
  from pass to pass or from one procedure to the next, and what a compiler and
  a preprocessor make of the file they leave;
* the MPI reductions of a migrated program, from the rewritten call to the
  callback that combines two contributions.

Nine parts are modelled and checked with TLC; eight of them have theorems
that TLAPS proves for every value of the constants.

All source paths below are relative to the repository (`codegen/migrator/`
unless another directory is given).

## 1. The system

### 1.1 Components

| component | state it keeps | operations | modelled |
|---|---|---|---|
| Staged-source cache (`prepare.py`) | `build/staged-sources/<lib>/`, its `.prepared.stamp` | `run_prepare`, `_is_fresh`, `prepare_recipe` | `PrepareCache` |
| Worker pool (`pipeline.py:162-197`) | futures of a `ProcessPoolExecutor` | submit, run, raise, die, collect | `WorkerPool` |
| Migration pipeline (`pipeline.py`, `__main__.py`) | the output directory, canonical map, divergences, skipped files | copy, migrate, reduce, override, privatize, verify, build | `MigratePipeline`, `Convergence`, `CanonicalOrder` |
| Convergence gate (`divergence.py`) | the report of one run | a second migration round, pairing, step code | `MigratePipeline` |
| Prefix classifier (`prefix_classifier.py`) | families, rename map | `classify_symbols`, `build_rename_map`, `extra_renames` | `PrefixClassifier` |
| Staging (`staging.py`) | the staging tree, `target_config.cmake`, gate copy of the names | `cmd_stage`, `_stage_baseline` | `Staging` |
| C migration (`c_migrator.py`) | the C output directory | copy, patch, twin, clone, split, override, wrap, include, privatize | `CMigration` |
| MPI calls and reductions (`fortran/mpi.py`, `libseq_patch.py`; `src/quad-mpi`, `src/multifloats-mpi`, `src/mpiseq`) | per process: the Fortran and C handles of the custom operations | rewrite of calls, registration, callbacks, derived sizes, sequential reductions | `MpiCallRewrite`, `ReductionBridge`, `SequentialMpi`, `MpiProgram` |
| Fortran statements and lines (`fortran/fixedform.py`, `logical_lines.py`, `lex.py`, `format_promote.py`, ...) | the lines of one file | segment, join, rewrite, narrow output, wrap | `SourceText`, `FixedForm`, `FreeForm`, `FortranLines` |
| Fortran files (`fortran_migrator.py`, `fortran/decls.py`, `params.py`, `use_inject.py`, `keepkind.py`, ...) | the text of one file, pending assignments, dropped names | fold constants, convert, import, protect, rename | `FileLines`, `FortranFile` |
| BLACS C path, the other text passes (literals, intrinsics, complex constructors), parsers, recipes, symbol scanner, privatization text, patch symmetry check, CMake generator, scripts, vendored libraries | - | - | no, see 7 |

### 1.2 How they interact

`migrator run` chains four of them. `prepare_recipe` hands a staged source
tree to the pipeline. The scanner's names go to the classifier, whose rename
map says which file each source migrates to. Every file is migrated by the
pool, the results are reduced in canonical order (D/Z first) into the output
directory, overrides are copied over them, the privatization pass renames what
remains. The gate then migrates everything again, in memory, and compares
families; `verify` and `build` follow. C libraries take the passes of
`c_migrator.py` instead of the pool. `migrator stage` runs the migration once
per library into one staging tree and writes the lists and flags CMake reads,
and the names the symbol gate audits the archives with.

Inside `migrate_file_to_string`, which one worker runs on one file, the text
passes follow each other, each on the text the last one left. They hand each
other lists too: names dropped from declarations, assignments to be placed,
names declared locally. The rewritten calls meet the bridges at run time: a
call names a datatype and an operation, the bridge has registered the
operation in this process or not, and the callbacks run inside MPI.

The components of the migrator share only the disk, and nothing on it is locked, versioned or
cleaned between runs. So the hard behaviours are mostly these:

* a run is killed between two writes or inside one, and the next run starts
  over what it left (`prepare.py:280`, `pipeline.py:328`, `c_migrator.py:1068`,
  `staging.py:609-623`, and the file that is read back there is emptied before
  it is written, `staging.py:689`);
* a cached or checked value is stale when it is used: the stamp, the gate's
  copy of the names, the privatization flags, headers of an earlier run;
* inputs are edited while a run reads them (`prepare.py:314`,
  `staging.py:451`);
* worker processes finish in any order, raise, or die and break the pool for
  everyone (`pipeline.py:181-193`);
* a pass must come strictly after all writers, or strictly before all
  transforms (`pipeline.py:605`, `c_migrator.py:1103`, `c_migrator.py:180`);
* a greedy choice among overlapping families rests on a sort key alone
  (`prefix_classifier.py:314`);
* a statement is taken apart and put together again, once per pass, with
  literals, comments and directives between its lines (`logical_lines.py`,
  `fixedform.py:34`);
* a constant leaves its declaration in one pass and comes back in another, in
  the right procedure, the right preprocessor branch and in front of what uses
  it (`params.py`, `use_inject.py:340`);
* MPI combines contributions in an order of its own and hands callbacks buffers
  of its own alignment, possibly before the operation exists
  (`src/quad-mpi/quad_mpi.c:41`).

### 1.3 What makes each component correct

* **Cache**: a tree that is returned without restaging is the tree restaging
  would produce; no left-over blocks a later attempt.
* **Pool**: every call ends, and an answer for a file is true of that file.
* **Pipeline**: the disk and the divergence list depend on which sources were
  lost and on nothing else; nobody is dropped silently; no pristine name
  survives the renaming pass.
* **Classifier**: families are disjoint, the greedy result is the stable one,
  a map that is built merges no two families.
* **Staging**: what the lists and flags say is true of the tree, through any
  sequence of partial stagings; the gate is not behind the renaming pass; a
  refused tree never becomes complete by a later subset.
* **C migration**: a completed run leaves what a run into an empty directory
  would leave, with pristine public headers and migrated files that see only
  their prefixed siblings.
* **MPI**: every call carries the operation made for its datatype; a reduction
  to a maximum or a minimum in magnitude returns a contribution that is
  extreme, whatever the order of combination; derived sizes are true.
* **Fortran statements**: after any sequence of passes a file has the same
  statements, but for what the passes rewrite; comments stay comments, unless
  a statement that grew pushed them past the margin.
* **Fortran files**: in every preprocessor configuration every name that is
  used means what it meant, declarations precede statements, and the passes
  leave other procedures alone.

## 2. The modules

Each component has its own module, an `MC...` module with the instance TLC
checks, and a `...Proofs` module that extends it. `MigratePipeline` composes
`WorkerPool` (`INSTANCE`, it steps inside the pipeline's two rounds) and
refines `Convergence`; both share `CanonicalOrder`. `MpiProgram` composes the
call rewriting, the bridge and the sequential library; `FortranLines` composes
the two source forms. No module uses `RECURSIVE`.
Mutated forms of an operation stand next to the operation they mutate
(for example `ReduceLastWins` before `Reduce`); no action of `Next` uses them.

### PrepareCache - the staged-source cache

`source`, `patchVer`/`patchTime` and `recipe` are the inputs as users leave
them (0 is an absent file); `dir`, `tree` and `stamp` are the staged
directory; `pc`, `run` and `outcome` are the program. A file's content is
which upstream version was copied, which patches of which version were
applied and whether its literals were normalised. A run is `Start`, then
`Skip` or `Restage`, `RmFile`/`RmStamp`/`RmDir` (rmtree in any order),
`MakeDir`, `CopyFile`, `CheckPatch`, `ApplyPatch`, `Normalize`, `OpenStamp`,
`WriteStamp`, `Reload`. `Crash` may strike before any of them, and the `Edit`
actions change, touch, restore or delete inputs at any time. `stamp.list`
and `doubt` are history variables: the patch list the stamp was written for,
and which of three events the stamp cannot see has happened since (`raced`: an
input changed while the tree was built; `backdated`: a patch was replaced by a
file whose mtime is not later than the stamp; `torn`: rmtree was killed and
left the stamp). `AcceptedTreeIsCurrent` names exactly these exceptions and
the changed list.

### WorkerPool - `_migrate_parallel`

`task` follows each file (queued, running, then text / none / raised /
died / lost), `result` is what the main process has put in its dictionary,
`pool` the call. A worker's death breaks the pool: every unfinished future
fails and `submit` raises. `ProcessPoolExecutor` is modelled from its use.

### Convergence and MigratePipeline - `migrator run` on Fortran recipes

`Convergence` is the promise in one step: some sources are lost, every target
with a survivor gets the text of its first survivor in `CanonicalOrder`, and
the divergences are exactly the survivors that differ. `MigratePipeline` is
the code: `Copy`, the pool round, `Reduce` one source at a time with the
comparison against the first writer, `Override`, `Privatize`, then the second
pool round, `Report`, `Verify`, `Build`. The stage is `phase`, the loop
variable `todo`, the disk `text` and `private`. `Kill` leaves a torn file
or a half-done loop, and `Start` runs again over the same directory. The
migrated text of a source is a constant class (`Class`), and the pairs the
drift filter excuses are `Drift` and `Expected`; so the module says what is
compared and what becomes of the outcome, never how text is normalised.

### PrefixClassifier - names, families, rename maps

A name is a sequence of letters. `Candidates` are the groups the precision
slots allow, `Before` the sort key, `Pick` one turn of the greedy loop (the
least candidate is visited; it becomes a family unless a member is taken),
then `BuildRenameMap` with its collision search and `ApplyExtra`. Target
names are computed by letter substitution in the places of the slots, as
`target_name` does.

### Staging - `migrator stage`

One staging tree. `names` counts the revisions of
`privatize_ep_symbols.txt`, `optin` says which recipes name it, `src[l]` is
the revision library `l` was privatized with (0: not at all), `listing` its
`manifest.cmake`, `cut` those that are not whole, `corrupt` the libraries whose
duplicated headers disagree, `config` the two lists `_prior_list` reads in
`target_config.cmake`, `gate` the copied names. A run takes each library
through `Enter`, `Load`, `Write`, `Privatize`, `Reload`, `OpenListing`, `List`.
Its end is one write after the other, and each empties its file first:
`WriteConfig` computes the merged lists and truncates `target_config.cmake`,
`WriteLibs` and `WriteFlags` fill it; `CopyGate` truncates the copy of the
names (or passes on, when no library is privatized), `WriteGate` fills it;
`CheckABI` comes last. `Stop` falls between any two of these steps, so inside
every write; edits of names and recipes, deletions and a baseline staging
interleave. `_prior_list` matches a list up to its closing parenthesis, so of a
file that was cut short each list is there or it is not.

The history variables name the exceptions of the properties: `open`, libraries
a stopped run left; `dropped`, unlisted by a baseline staging; `removed`,
deleted by the user; `raced`, their recipe edited between its two loads; and
what a kill inside the write of `target_config.cmake` takes away for good,
`lost` (a library that was listed and that the run had not staged) and
`unaudited` (its flag). `torn` holds from a copy of the names that was begun to
one that finished.

### CMigration - the C passes

A file name is `<<k, base>>` where `k` counts the target prefixes, a text is
what it was made from, its version and what passes did to it (patched,
guarded, declarations duplicated, includes, privatized, whole or torn).
Passes are operators from a directory to the writes they make
(`StageWrites`, `PatchWrites`, `TwinWrites`, `CloneWrites`, `SplitWrites`,
`OverrideWrites`, `WrapWrites`, `IncludeWrites`, `PrivateWrites`), so `Fresh`
- what a run into an empty directory produces - is their composition, and
`Kill` applies any part of a pass's writes, one of them cut short.
`SplitSet` is the least set that holds the changed headers and is closed
under includes. `ShimIsTorn` names the one exception of `LikeAFreshTree`:
`PBcharshim.h`, which the migrator writes itself after the snapshot, is taken
by the next run's snapshot as it lies; a copy cut short by a kill is split and
restored torn.
What a unit reaches is stated with sets of files that no include leaves
(`Includes`, `Avoids`), so a chain of includes may have any length.
`LikeAFreshTree` speaks of sources that are complete (`Complete`): each family
has its sources, and an override replaces a file that one of them or a header
accounts for.

### MpiCallRewrite, ReductionBridge, SequentialMpi and MpiProgram

`MpiCallRewrite` has a source file as tokens, the renaming of datatypes over
the whole file (`RewriteDatatypes`) and that of operations inside complete
calls of a reduction (`RewriteReduceOps`). `ReductionBridge` has the callbacks
(`SumFn`, `AmxFn`, `AmnFn`) and the operations each target registers; in
`MpiProgram` a process has their handles once it is in `registered`.
`SequentialMpi` has the
tags that hold the size of a derived datatype and libseq's `mpi.f` with the
cases the patcher adds. `MpiProgram` runs the rewritten calls: `MpiInit`,
`BlacsPinfo` and `BridgeInit` bring a process up, `Enter` takes it into a call
with a contribution, `CombineParts` joins two partial results (any two where
the operation was declared commutative, neighbours in rank order otherwise)
until one is left, `NextCall` goes on; `SeqCall` is a call of the sequential
library, and the `Derive` actions build datatypes beside the calls. A process
may be up and enter a call before its bridge was initialised. The real MPI is
external and as nondeterministic as its standard allows. Sums are sums of
integers: rounding is no concern of the bridge; a NaN is a value that is no
integer.
A program is a function from the places of the calls in its source file to
what each was in the source and is after the migration. Where a call ends in
the compiled file (`Compiled`) is stated with parentheses that balance,
without the scan of the migrator (`EndsAt`). `SourcesAssumption` names what is
taken of a source file: a reduction names one datatype and one stock operation
and no other reduction, and the file has no name of a target in it yet. The
reductions of the vendored libraries are of that kind, with `MPI_INTEGER`
standing for every datatype the migrator leaves alone, but for operations that
have no custom form (`MPI_MINLOC`, `MPI_BOR`) or are held in variables, which
the migrator leaves alone and the model leaves out.

### SourceText, FixedForm, FreeForm and FortranLines

A text is a sequence of cells: quotes, blanks, commas, `!`, `&` and tokens. A
token is what the passes tell apart: rewritten by the main migration, an MPI
name, an overloaded intrinsic, a variable of the new type, or none of these.
`SourceText` has the quote-aware scanners, `FixedForm` and `FreeForm` the
segmenters, the joins and the wrappers. The history variable `pushed` remembers
that a statement grew until its trailing comment began past the margin and was
broken there (`BreaksComment`); then the code makes a part of the comment a
line of code, and `StatementsKeepTheirMeaning` and `CommentsStayComments` speak
of files to which that has not happened; the run has such files, and without
the exception TLC finds one. In `FortranLines` a file goes through
the main migration, the MPI names and the INTRINSIC lists, and is cut into
statements, joined and wrapped again by each. `Reading` is the reference: what
the Fortran standard makes of the lines, independent of the migrator's own
scanners.

### FileLines and FortranFile

A statement is its kind, the type it declares, the items it declares or gives
a value, the names it refers to and the condition of a directive. `FortranFile`
has the passes of the fixed-form path for a target of derived types, one action
per pass in the order of `migrate_file_to_string`: `ApplyKeepKind`,
`StripKnownConstants`, `ConvertParameterStmts`, `ConvertDataStmts`,
`InsertUseModule`, `MigrateEachLine`, `SpecializeUseModule`, `RestoreKeepKind`,
`RewriteMpiHandles`, `InsertMpiModule`, `StripRoundupLwork`. The variables
`removed` and `extra` are the lists they hand each other. The second half of
`FileLines` is the measure: the text a preprocessor selects, scopes, the
imports of a scope, what a name means there and the order of statements.

Three assumptions are named. `ModuleAssumption`: the target's module has the
names the passes insert calls of (`real64x2`, `cmplx64x2`, `dble`, `int`,
`real`), and the sentinel of the keep-kind pass is no identifier.
`SourceAssumption`: in a source every header has its END, prototypes
stand in interface blocks with nothing of another unit between a header and its
END (`WellFormed`), PARAMETER and DATA statements stand between a header and its
END (`ConstantsInProcedures`; a BLOCK DATA has a header too), a declaration, a
PARAMETER and an EXTERNAL name something, and no line uses the target's modules
or a handle of its MPI module, declares a name of the target's types or carries
a sentinel of the keep-kind pass. A source that did would have been migrated
before. `CompilerAssumption`: the source is one a compiler accepts in every
configuration (`Compiles`). What a configuration selects is well-formed and has
its statements in order; no header is left out above a line that is compiled, so
that a configuration selects procedures and prototypes whole; an END that closes
a procedure closes one in every configuration; and an interface block is closed
by its own line. A statement function is known to the walk (`IsStatementFunction`)
only if it has the form `NAME(ARG) =`, stands at most `MarkerWindow` lines (12)
below its marker, and nothing but comments and first lines of such functions
stand between: a function of two arguments is not known, nor one behind the
continuation line of another. The three kinds of lines are `stmtfn`, `otherfn`
and `continued`; a blank line is a `comment`. In
`zasymv`, `zagemv`, `zahemv`, `zatrmv` of PTZBLAS, in `pztreecomb` of TOOLS and
in their single-precision halves its type is declared between them: the walk
stops at it. Nothing is lost there: the first four have the constants `ONE` and
`ZERO`, which the target supplies, and the last has none. The assumption asks
just that: in a procedure with a statement function the walk does not know no constant is
assigned (`AssignsSome`). Where one is, the code puts the assignments before
the statement function; run on constructed files it does so. The tests of the PBLAS (`PBLAS/TESTING/pzblastst.f`) have such
statement functions beside COMPLEX constants that would be assigned; no recipe
migrates them, and they fall outside the assumption. TLC evaluates the three
assumptions for all files of the run, which has statement functions at the last
line of the window and one below it, behind a declaration, of two arguments and
behind a continued one. `Structural` lines are the headers, the ENDs and the
brackets of interface blocks.

The texts the model ends with were compared with what the real
`migrate_file_to_string` makes of the same files, written out as Fortran, for
all 4,819 inputs of `fortran_file`; there is no difference.

## 3. The runs

| run | instance and bounds | shows |
|---|---|---|
| `prepare_cache` | 2 files, 2 patches, 2 lists, `MaxClock` 3, `MaxCrashes` 1 (197 thousand states) | `TypeOK`, `AcceptedTreeIsCurrent`, `NoWriteUnderAStamp`, and under fairness `EventuallyPrepared` |
| `prepare_torn` | the same, `StampMeansCompleted` violated | an rmtree killed half-way may leave the stamp |
| `pool_answers` | 3 files, one unsupported, 2 workers (857 states) | `AnswersAreReal`, `CallEnds` |
| `migrate_run` | an s/d pair, a pc/pz pair, one copied file, one override, 2 workers, `MaxRuns` 2, `MaxKills` 1 (809 thousand states) | `TypeOK`, `DiskIsDetermined`, `NoSilentDisagreement`, `NoPristineNameLeft`, `ReportsAgree`, the refinement `KeepsThePromise`, and under fairness `RunEnds` |
| `classify` | every subset of 12 names of 3 letters, 2 prefix maps (41 thousand states) | `NoBlockingPair`, `FamiliesAreDisjoint`, `PrefixPairsWin`, `FamiliesStayApart` |
| `staging` | 3 libraries, `MaxRuns` 3, `MaxStops` 1, `MaxEdits` 1 (2.1 million states) | `ListedAreStaged`, `NothingFallsOffTheList`, `FlagTellsThePass`, `GateIsNotOlder`, `CompleteMeansCleanHeaders` |
| `c_migrate` | 3 headers and the shim, 3 members of 2 families, 1 plain source, 1 override, `MaxRuns` 3, `MaxKills` 1, `MaxEdits` 2 (994 thousand states) | `LikeAFreshTree`, `PublicHeadersArePristine`, `UnitsSeeSiblings`, `NoPristineNameLinks`, `UnitsAreGuarded` |
| `c_split_closed` | the same, one run, `SplitIsClosed` violated | an include spelt `"./pblas.h"` escapes the closure |
| `mpi` | 3 processes, files of two reductions with other calls between them, real and complex buffers of two elements with ties, signs and NaN, 3 targets, 3 libraries, `MaxTypes` 2, `MaxBytes` 2^28 (381 thousand states) | `OperationsFitDatatypes`, `OnlyEarlyCallsFail`, `ExtremesAreExtreme`, `SumsAreSums`, `RankOrderDecidesTies`, `DerivedSizesAreTrue` |
| `fortran_lines` | both forms, files of two statements broken in every way between their items, `LineWidth` 8, `BreakFrom` 4, `FreeWidth` 12, `Indent` 1, `Comment` 2, `LastComments` {2, 9} (109 thousand states) | `StatementsKeepTheirMeaning`, `FormattedItemsAreNarrowed`, `CommentsStayComments` |
| `fortran_file` | 4,819 files of two procedures, 3 preprocessor configurations, `SourceKind` 8, `MarkerWindow` 12 (58 thousand states) | `ReferencesKeepTheirMeaning`, `SpecificationsComeFirst`, `PrototypesSeeTheirTypes`, `OtherProceduresAreUntouched` |
| `fortran_guard` | the same with `GuardedStart`, `ReferencesKeepTheirMeaning` violated | constants are assigned inside the `#if` the first statement stands under |

**Why the bounds are enough to be interesting.** `MaxClock` 3 lets a patch or
a source be older than, as old as and newer than a stamp and be edited twice;
one file is touched by one patch and the other by two, and version 3 is a
drifted source that refuses its patches, so a partly applied list occurs. One
crash leaves every kind of left-over, and any number of further runs follow it.
Three files on two workers let a file be queued, running and finished when a
worker dies. Two families in the pipeline differ in their canonical rule (one
pinned, one by position), a third target is written by copy and override, and
the second run starts over whatever a kill or a dead pool left of the first.
The twelve names are the shapes that needed care in the libraries: two prefix
letters at once (`DAS`, `DAD` after `DSYTRS`, `DSYTRD`), a C/S or Z/D name (`CSROT`-like), a real name next to
a mixed one that becomes the same target (`DVASUM`/`DZASUM` under the
multifloats map). In staging one library is never privatized unless its recipe
is edited, two are from the start, one has twice-staged headers; three runs let
a subset follow a stopped run that followed a full one. In `c_migrate` a
header is patched, a second reaches it by include, a third by a `./` include,
and the upstream edit may drop a header, change it or make it declare a
renamed routine between runs.

Three processes give a reduction two bracketings and six orders, and three
partial results of which two may tie. The two calls of a file, one on extended
data and one on integers in either order, are what the search for complete
calls may confuse; the parentheses of the first argument nest two deep, as deep
as the pattern of the migrator goes. Counts up to 2^20 - 1 bring a derived size
to both sides of 2^24. In `fortran_lines` the margins are shrunk with the
statements, so that a line of four tokens reaches column 72 after its tokens
have grown: 8 cells a line, no break before the 4th, and a comment of 2 cells
that can be the part that passes the margin. The comment of the last statement
has 2 or 9 cells; the longer one is pushed past the margin when its statement
grows, which is the case `pushed` names. The items are the references,
literals and quotes (doubled, of the other kind, with `!` and blanks inside)
between which a break is hard to find, and the breaks are none, a blank, a
continuation, a trailing comment, a comment line and a directive. In
`fortran_file` a procedure has one of 12 ways to declare its constants (a combined COMPLEX
declaration and a protected one among them), one of
12 kinds of other specifications (an interface block under an `#if` and a
statement function the walk does not know among them) and one of 4 first
statements, may be compiled in one configuration only, and a second procedure
follows, because what a pass remembers must not reach it; the three
configurations tell `#if`, `#elif` and `#else` apart. `SpecificationsComeFirst`
is checked after every pass, not only at the end.

The proofs in section 5 remove the bounds for
most of these properties.

Deadlock is checked in `prepare_cache`, `pool_answers` and `fortran_file`
(whose last action, `Finished`, stutters). It is switched off
(`CHECK_DEADLOCK FALSE`) in the pipeline, classifier, staging, C, `mpi` and
`fortran_lines` runs: a run of the program ends, the last of `MaxRuns` runs
leaves nothing to do, a file has been through its last pass, a reduction that
failed is the end of a program.
That a run does end where it should is `RunEnds` and `CallEnds`.

## 4. Fairness

* **PrepareCache** (`FairSpec`): the interpreter goes on with a run it has
  begun, and the build system invokes the migrator again after an attempt that
  ended. No fairness of edits or crashes. `EventuallyPrepared` says that then
  a tree is prepared again and again, unless the inputs cannot be prepared
  again and again.
* **WorkerPool** (`FairSpec`): the main process goes on, and a worker that
  took a file ends with it one way or another (a text, an exception, its
  death). The code has no timeout; a file that loops forever is outside the
  model, and `as_completed` would wait for it forever.
* **MigratePipeline** (`FairSpec`): the program runs on unless it is killed;
  nothing makes the user start it again, so `RunEnds` speaks of one run. The
  pool's fairness is `WF(PoolStep)` and `WF(PoolFails)`.
* **PrefixClassifier, Staging, CMigration, MpiProgram, FortranLines,
  FortranFile** have safety properties only. Their loops are bounded by the
  data, and whether processes of an MPI program reach a call is up to the
  program.

## 5. What is proved

TLAPS checks all proofs to the last leaf; the only assumptions are the named
ASSUMEs on the constants (sets, functions and an alphabetical position per
name), which TLC evaluates on the instances.

* **PrepareCacheProofs**: `TypeCorrect`; `CacheIsExact`
  (`AcceptedTreeIsCurrent`); `StampedTreesAreNotWritten`
  (`NoWriteUnderAStamp`), an action property that follows from the invariant
  of the first. That one speaks of finished trees only, so it
  is not inductive: `IInv` adds, for each phase of a run, what has been copied
  (`CopyInv`), which patches are in (`PatchInv`), what is normalised
  (`NormalizeInv`, `TodoInv`), and that a run builds in an unstamped tree
  (`PhaseInv`); `StampInv` is the heart: an untouched stamp vouches for the
  tree with the patches as they are, as long as none is newer than it.
* **WorkerPoolProofs**: `AnswersAlwaysReal`. The invariant relates each future
  to the entry collected from it, and a returned call to a complete batch.
* **MigratePipelineProofs**: `TypeCorrect`, `DiskIsAlwaysDetermined`,
  `NeverSilent`, `NeverPristine`, `RoundsAgree`, and `Refinement`
  (`Spec => Convergence!Spec`). `IInv` says of the reduce loop that it visits
  the sources in canonical order (`OrderInv`), that each target belongs to the
  first surviving source visited so far (`CanonInv`), that the divergences are
  those of the visited survivors (`DivergenceInv`), and of the disk that
  it holds the canonical texts below the overrides copied so far (`DiskInv`) and
  pristine names only where the pass has still to go (`PristineInv`).
  `RoundsAgree` adds that a report is made of the second round's answers
  (`ReportInv`) and reads the first round's divergences off
  `DivergenceInv`: with no loss in either round both choose the same canonical
  source. The
  refinement maps everything before the end of the reduction to "pending": the
  last step of the loop is `Settle`, a restart is `Again`, all else stutters.
* **PrefixClassifierProofs**: `AlwaysStable`, `AlwaysDisjoint`,
  `PrefixAlwaysWins`, `AlwaysApart`, for any names and maps. The invariant says
  that visited candidates precede unvisited ones and that a visited one which
  is no family overlaps an earlier family; that prefix pairs win follows from
  the first part of the sort key, that maps keep families apart from the
  collision search that ended without a hit.
* **StagingProofs**: `TypeCorrect`, `AlwaysStaged`, `NeverShrinks`,
  `FlagsAreTrue`, `GateKeepsUp`, `CleanAlways`. The five properties are almost
  inductive together; `LocalInv` (what the run has staged is on disk and open),
  `MergedInv` (while the lists are being written, what the properties say of
  the lists in the file holds of those the run is about to write),
  `CurInv` (what was loaded for the library at hand agrees with its recipe and
  sources) and `FlagInv` (the flags collected are true) complete them.
* **CMigrationProofs**: `TypeCorrect`, `NeverDoubled`, `AlwaysPristine`,
  `NeverLinksPristine`, `AlwaysGuarded`, `AlwaysSeeSiblings`, `AlwaysFresh`, for any
  files, includes, histories of edits, kills and earlier runs. `SnapshotInv` says that after the copies the snapshot
  holds every present header as upstream has it, whatever lay there before,
  `RestoredInv` that after the split the directory does; privatization then
  touches a public header only if it was not split. `GuardInv` follows the
  guard through the passes that write units. `SeeInv` says that before the
  split unprefixed files include unprefixed headers only, that `SplitSet` is
  closed (`ClosedInv`), and which files the run at hand has written and
  rewritten (`WrittenInv`, `SeenInv`); the set of files that avoid the split
  headers is then one no include leaves. `FreshInv` compares the directory with
  what the passes done so far make of an empty one: they agree (`AgreeInv`)
  on every file the run accounts for, because each pass
  writes a function of the sources, of the snapshot and of files on which the
  two agree. The one lemma that needs care is that both split the same headers
  (`SameSplit`), which fails exactly where `ShimIsTorn` says.
* **MpiProgramProofs**: every property of the run, for any source file that
  satisfies `SourcesAssumption`, any number of processes, any buffers and
  alignments, and any order of combination.
  `AlwaysFits` rests on lemmas about the rewriting: the depth of the scan moves
  by one at most, so it comes to 0 before it falls below and the migrator's
  calls are the compiler's (`SameEnd`, `SameCalls`); calls do not overlap
  (`CallsApart`, `OwnCall`); the tokens of a renamed call tell its datatype
  (`RenamedTokens`), so `MigratedCall` says what each call becomes.
  `OnlyEarlyCallsEverFail` goes through what each library makes of such a call.
  `AlwaysExtreme`, `TiesAreDecided`: a callback keeps one of its two
  operands, so every partial result has a winner among the processes it
  stands for (`Wins`, in `PartInv`); no process is forgotten while the parts
  are joined (`CoverInv`), and the result is the last part (`DoneInv`). With
  neighbours joined in rank order the winner is the last process that reaches
  the maximum. `AlwaysSums`: parts share no process and each is the sum of its
  own (`SumInv`); that a sum over a finite set exists, does not depend on the
  order of the elements and is additive is proved from well-foundedness
  (`SumsExist`, `SumPicks`, `SumJoins`). `SizesAlwaysTrue`: a sentinel below
  2^24 bytes is read back as it was made (`Sentinels`), and a datatype of known
  size taken some times has a known size (`SizedTimes`).
  The assumptions: buffers of a call have one length and hold integers or NaN
  (`BuffersAssumption`), every MPI aligns what it hands to a callback to 8 bytes
  (`AlignmentsAssumption`, `quad_mpi.c:56-58`), and the types and counts of
  the C side are known ones and naturals (`TypesAssumption`).
* **FortranFileProofs**: `EachPassPreparesTheNext` (the inductive invariant),
  `StructureStays`, `PrototypesAreServed` (`PrototypesSeeTheirTypes`),
  `OtherProceduresStay` (`OtherProceduresAreUntouched`), `SpecificationsFirst`
  (`SpecificationsComeFirst`), for files of any length that satisfy the three
  assumptions, any target module, any window and either half. A pass makes a text by
  concatenating what becomes of each line, so every line of the result comes
  from a place of the text before. The lemmas `FlattenOffsets`, `FlattenPlaces`
  and `LinesBecome` state this for `FlattenSeq` and make the origin an order
  embedding; `Follows` adds that structural lines come from structural lines
  of the same kind and none is lost. It follows that headers keep their
  interface blocks (`SameInterface`, which compares the counts the code keeps),
  that lines stay under their headers (`UnderStems`, `UnderStays`) and files
  stay well-formed (`WellFormedStays`). The invariant has three stages: before
  the USE is inserted no line declares a type of the target or has a module
  (`Sound`); then every header has a bare USE below it with no other unit
  between (`Placed`); once the import lists are made, a type that stands under
  the header of a prototype is imported under the same header (`Served`). The
  step in the middle is `SpecializeServes`: the list is computed from the
  lines of the procedure around the prototype, the scan finds that procedure
  by its next END outside interface blocks, and so the prototype's own lines
  are among those it reads. A pass over the lines one at a time, like the
  offsets of a concatenation or the stack of open `#if`s, is reasoned about
  with the least place where a claim fails.
  `OtherProceduresStay` rests on a second invariant, `EachPassKeepsTheRest`
  (`UInv`). A line is `Plain` if it names nothing the passes look for, and a
  procedure of plain lines is `Untouched` if the text has a procedure with its
  number and all its lines in order, with nothing between them but lines of a
  given set: the bare USE from `InsertUseModule` to `SpecializeUseModule`,
  nothing before and after. `UntouchedStep` carries this over any pass that
  keeps such lines and tells the procedures apart by number (`ScopeFollows`,
  `ProceduresApart`). Three steps are not line by line. The assignments of a
  neighbour carry the number of the procedure their constant stands in
  (`ExtrasElsewhere`), and the walk that places them never leaves the
  procedure it starts in (`WalkStaysIn`). The import list of such a procedure
  is empty, so its USE is taken out (`NothingToImport`). And the MPI module is
  imported after a header by looking up to its matching END, which for a
  procedure's own header is found by counting: between a procedure's header
  and its END there are as many headers as ENDs, since each prototype has its
  own (`ProcedureBalanced`), so the look never reaches a neighbour
  (`MatchingEndInside`). Up to `RestoreKeepKind` the procedure is compared with
  the protected text and from there with the source (`RestoreUntouched`).
  `SpecificationsFirst` rests on a third, `EveryPassCompiles` (`OInv`): in
  every configuration the text goes on being one a compiler accepts
  (`Compiles`). The property alone is not inductive: a line put behind a
  header or before a statement is in order only if the header is compiled
  wherever the line is, and only if what closes a procedure for the pass, which
  reads all branches at once, closes it for the compiler, which reads one. The
  proof has three parts. The stack of open `#if`s is a recursive function over
  the lines; `BranchesFollow` relates the stack at a place of the new text to
  that at the place it comes from, if the lines put in between close all blocks
  they open (`Block`; the guards of an assignment do, `GuardedBlock`). So a
  configuration selects of the new text what it selected of the old and some of
  the lines put in (`Passed`). `CompilesStays` then shows for any such pass
  that procedures, prototypes and the order of their statements survive, if
  what is put in stands behind a header (`BehindHeader`) or before a statement
  (`BeforeStatement`). It is enough to show for each pass that its lines do.
  For most it is a fact about one line (`NeatCompiles`). For
  `insert_use_multifloats` it is the claim that the walk over the declarations
  ends at a statement or at the END of its procedure (`WalkEnds`). It needs that
  interface blocks stay open up to their END (`InterfacesOpen`, a part of `Sound`
  in `IInv`), and that nothing is to be assigned where the walk stops early, at a
  statement function it does not know. That is assumed of the source
  (`CompilerAssumption`) and has to survive the passes up to the placement
  (`FunctionsApart`, carried along in `OInv`): none of them drops a marker, a
  comment or a line of a statement function, and lines that keep their order
  come no farther from each other (`NoNearer`), so a function within the window
  stays in it; and none finds more to assign in a procedure than was there.

**Only model-checked**:

* `EventuallyPrepared`, `CallEnds`, `RunEnds`: liveness under fairness is out
  of the prover's reach.
* All properties of `FortranLines`: they say what functions that are recursive
  over cells compute for every input, which needs induction over data, out of
  the prover's reach.
* `ReferencesKeepTheirMeaning`: what a compiler reads in a procedure is a fold
  over its statements; the same holds. The run enumerates the shapes instead.

`TypeOK` of the staging and C modules and `NoDoubledPrefix` are proved and not
among the runs' properties: the properties the runs check fail first.
`TypeOK` of the pool is proved as a part of the pool's and the pipeline's
invariants.

## 6. Findings and observations

Three runs show a disagreement between the code and what a comment or document
says of it:

1. `prepare_torn`: a `--rebuild` killed inside `rmtree` may keep the stamp on a
   partial tree, which the next run accepts (`prepare.py:280`, docstring 8-9).
2. `c_split_closed`: the closure follows `"name.h"` and `<name.h>` only, and
   ScaLAPACK's `SRC/tools.h` says `#include "./pblas.h"`
   (`c_migrator.py:1058`, docstring 1033-1034).
3. `fortran_guard`: the comments at `fortran/use_inject.py:338-342` and 470-473
   take every `#if` between declarations and statements for one around
   declarations. Where the first executable statement stands under an `#if`,
   the assignments made of PARAMETERs go inside it, and a build without the
   macro uses the constants unassigned. `DMUMPS_FAC_I` in MUMPS's
   `dfac_front_aux.F` (`NOMP = OMP_GET_MAX_THREADS()` under `_OPENMP`) is one
   of about thirty such places.

Three more have no run of their own: the property that speaks of them excepts
them by name, and TLC finds a trace to each when the exception is struck.

* `lost` in `NothingFallsOffTheList`: the comment at `staging.py:602-605` says
  that a staging of a subset must not shrink the list of libraries.
  `write_text` (689) empties `target_config.cmake` and then writes it; a run
  killed in between leaves a file in which the next run finds no prior list, so
  libraries that are built are not listed any more, and no later run of others
  lists them again. Their flags go the same way (`unaudited`), and a copy of
  the gate's names cut short is `torn`.
* `pushed` in `CommentsStayComments`: `reformat_fixed_line` promises not to
  break a trailing comment (`fortran/fixedform.py:23-26`), and looks for it up
  to column 72 of the line as it has become (31). A comment that a grown
  statement pushes beyond is broken like code, and its rest becomes a
  continuation line; free form does the same
  (`fortran/logical_lines.py:167`). The code does so on constructed lines; no
  vendored source has such a line.
* `ComplexIsFolded` in `ReferencesKeepTheirMeaning`: a name that is COMPLEX
  anywhere in a file must not be folded into the module's real constant
  (`fortran/params.py:71-73`); the conversion of DATA statements (345-347) does
  not ask. No vendored file has a known name in a DATA statement beside a
  COMPLEX one.

Smaller things met on the way, with no run of their own.

*Cache, pipeline, staging.*

* Removing or adding an older patch in a recipe keeps the old tree
  (`prepare.py:239`), although `prepare_recipe` says the tree reflects the
  recipe's patch list (442-443). `AcceptedTreeIsCurrent` excepts it by name.
* One dead worker loses every file still queued or running
  (`pipeline.py:192`), although the docstring says "without losing the rest of
  the batch" (172-174).
* A file lost in the second round removes its pairs from the report, and an
  empty report is success (`divergence.py:775`;
  `doc/dev/convergence.md:33-35`). `ReportsAgree` excepts it.
* A staging of a subset refreshes the gate's copy of the names but not the
  libraries outside the subset (`staging.py:704`; the comment at 697-700 says
  gate and pass can never disagree). `GateIsNotOlder` shows that the gate is at
  least never behind.
* `_canonical_rank` gives every p-prefixed name one rank, so `pc*` comes before
  `pz*` unless `prefer_source` pins it (`pipeline.py:159`;
  `doc/dev/convergence.md:16` says the D/Z half is canonical). The model has
  the code's rule.
* The error text of the collision search advises `extra_renames`
  (`prefix_classifier.py:162-165`), but the recipe's renames are applied only
  after the map that raised was built (`pipeline.py:531-532`). The classifier's
  docstring (16-18) says S/C names are kept; the code renames both halves.
* The clone docstring (`c_migrator.py:905-906`) says the D/Z half is cloned
  first; ScaLAPACK's REDIST files go alphabetically.
* A prefixed header left by an earlier run whose original is no longer
  transformed has its declarations duplicated again on each restage
  (`c_migrator.py:867`).
* `verify_patches` reports a clean result when the patch directory is missing
  (`prepare.py`).

*C migration.* A hand-written override that includes an upstream header which
a later upstream drops still finds the copy an earlier run left; only a build
from an empty tree fails (`c_migrator.py:300`). `LikeAFreshTree` compares what
runs write, not what they leave.

*MPI.* A NaN makes the abs-max and abs-min operations depend on the order of
combination, although the comment at `src/quad-mpi/quad_mpi.c:48-52` calls them
well defined for any input; the properties speak of buffers without NaN. Derived sizes of 2^24
bytes and more share bits with the tag of the handle. `MPI_Pack` and
`MPI_Unpack` of the stubs count bytes, not elements.

*Statements and lines.*

* A doubled quote broken over two lines at the margin is joined with a blank
  between its halves; code past column 72 of a source line is read; a `!`
  comment in column 7 or later between a statement and its continuation takes
  the continuation away from the statement.
* In free form, a continuation inside a literal is scanned as if outside; a
  statement that goes on over a directive or a blank line may lose its `&` when
  its head changes; `call &` followed by `&foo` is joined to `callfoo`; the
  continuation lines of a formatted WRITE are not narrowed.
* The sentinel for protected lines is one character longer than what it stands
  for, so a full line has 73 columns while it is there.

*Files.* All of these are outside the files of `fortran_file`; most have no
occurrence in the vendored sources.

* Known constants: names dropped in one procedure count as dropped in all of
  the file; a known name with another value (`PARAMETER (ONE = 2.0)`), another
  kind (`REAL ONE` in a D half) or a protected kind is folded all the same;
  `PARAMETER (ONE = 1)` of a name that is no longer declared is left.
* DATA: an assignment made of DATA initialises at every call, not once, and
  loses the guard of an `#if` around it.
* PARAMETERs of a MODULE become assignments in a module's specification part.
* Directives directly behind a procedure header, and headers in the branches
  of an `#if`, are taken as part of the header (about 40 places in MUMPS).
* The list of declaration keywords is matched by prefix and misses NAMELIST
  and the components of derived types; the END of a contained procedure is
  taken for that of its host; dummy names of a prototype count as names of the
  procedure around it; a first statement `X(I) = ...` behind statement
  functions is taken for one of them.
* A comment that names an MPI datatype is rewritten and counts for the import
  of the MPI module (`fortran/mpi.py:62`, 273); the model's comments may name
  them too, and a procedure with such a comment is not one
  `OtherProceduresAreUntouched` speaks of.
* The keyword REAL counts as a use of the generic `real`, which makes an
  import list longer than it has to be.

## 7. What is not modelled, and why

Inside the modelled components: `dry_run`, the text of passes and
comparisons (constants), a worker that dies while idle, the warning about
orphaned names, routing of COMMON and PRECISION blocks, the scan for dual
interfaces, wholesale copied directories, several targets in one staging tree,
the text of C type substitution and the C convergence list.
`patch_pblas_header` runs after the duplicate declarations and is folded into
the patch pass, with which it commutes; a file without any `#include` is passed
over by the linkage wrap, and no migrated source lacks one. Of the MPI part the
renaming of include files, the stubs without effect and the stubs that abort;
rounding in sums. Of the Fortran lines CRLF endings and labels. Of the Fortran
files the path for targets with native kinds (it folds nothing), the free-form
counterparts (`nuke_multifloats_params`, `la_constants.py`).

Whole components:

* **Remaining text passes** (literals, intrinsics, complex constructors, kind
  keywords): each maps one token or one expression to another and remembers
  nothing; the token maps of `FortranLines` and `FortranFile` stand for them.
* **Parsers**: run an external compiler and read its dump; their failure is a
  fallback to the passes modelled here, or an exception the pool model has.
* **Divergence normalizer, privatization text**: text to text; the pipeline
  takes the result per file as a constant.
* **Recipes, targets, templates; symbol scanner**: read once into values that
  are constants of the models.
* **BLACS C path**: an older path for one library without rename map or split.
* **Patch symmetry check**: reads file names, changes no state.
* **CMake rules, scripts, tests, vendored libraries**: no state of the program.

## 8. Plan

Done, in this order: the cache, the pool, the pipeline and its abstract
specification, the classifier, staging, the C migration, the MPI reductions,
the Fortran statements and the Fortran files, with the proofs of section 5.

Modules that remain:

1. Two `prepare` processes on one tree: two copies of `PrepareCache` over one
   disk, the hazard at `prepare.py:279`. The properties would be violated at
   once; the module is worth writing when the tree gets a lock.
2. Several targets in one staging tree, and the BLACS path as a second
   instance of the C passes.
3. `verify_patches` against a reference definition of patch symmetry.
4. The free-form counterparts of the constant folding.

Theorems that remain: `ReferencesKeepTheirMeaning`, whose fold would have to be
related to a recursive function of the place first, as `BranchesFollow` does for
the stack of open blocks, and the properties of `FortranLines`.
