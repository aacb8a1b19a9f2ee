--------------------------- MODULE MigratePipeline --------------------------
(* `migrator run` (cmd_run) on a Fortran recipe: migrate every source in a *)
(* process pool, reduce the answers in canonical order into the output     *)
(* directory, apply the overrides, privatize the symbols, migrate again in *)
(* memory for the divergence report, verify, build.  A run can be killed   *)
(* at any point, inside a write too, and started again: the output         *)
(* directory is never cleaned.                                             *)
EXTENDS CanonicalOrder, FiniteSets

CONSTANTS
  Skips,        \* stems under skip_files
  Copies,       \* stems under copy_files, and precision-independent sources
  InSourceDir,  \* sources of source_dir; the others come from extra directories
  Names,        \* output file names
  Out,          \* the output file of each source (target_filename, or its own)
  Class,        \* the normalized text of each migrated source
  Drift,        \* pairs <<other, canonical>> whose diff _filter_precision_drift empties
  Expected,     \* canonical sources under expected_divergences
  Overrides,    \* output files the recipe overrides for this target
  Mentions,     \* sources and overrides whose text names a manifest symbol
  Unclean,      \* sources and overrides with residual types _run_verify rejects
  Unsupported,  \* sources with an extension no migrator handles
  Workers,      \* processes in the pool
  MaxRuns,      \* bound: runs started
  MaxKills,     \* bound: runs killed
  Absent, Torn, \* no file; a file whose write was cut off
  None          \* no source

Texts == Sources \cup Overrides

ASSUME PipelineAssumption ==
  /\ Skips \subseteq Sources
  /\ Copies \subseteq Sources
  /\ InSourceDir \subseteq Sources
  /\ Out \in [Sources -> Names]
  /\ Overrides \subseteq Names
  /\ Unsupported \subseteq Sources
  /\ Mentions \subseteq Texts
  /\ Unclean \subseteq Texts
  /\ Workers \in Nat \ {0}
  /\ MaxRuns \in Nat
  /\ MaxKills \in Nat
  /\ Sources \cap Overrides = {}
  /\ {Absent, Torn} \cap Texts = {}
  /\ Absent # Torn
  /\ None \notin Sources

VARIABLES
  phase,        \* the stage of the run
  todo,         \* what the stage's loop has still to do
  text,         \* output directory: whose text each file holds
  private,      \* output directory: files rewritten with ep_ names
  canon,        \* canonical_source, per target
  skipped,      \* sources reported as skipped
  divergences,  \* sources recorded as divergent from the canonical one
  report,       \* pairs <<other, canonical>> of the divergence report
  issues,       \* the non-zero step codes of the run: subset of {"diverge", "verify", "build"}
  runs, kills,  \* bound counters
  pool, batch, task, result   \* the worker pool

Pool == INSTANCE WorkerPool WITH Files <- Sources

diskVars == <<text, private>>
listVars == <<canon, skipped, divergences, report, issues>>
poolVars == <<pool, batch, task, result>>
bounds == <<runs, kills>>
vars == <<phase, todo, diskVars, listVars, bounds, poolVars>>

Copied == Copies \ Skips
Jobs == Sources \ (Skips \cup Copies)

Phases == {"idle", "copy", "migrate", "reduce", "override", "privatize",
           "diverge", "report", "verify", "build", "done", "aborted", "killed"}
Ended == {"idle", "done", "aborted", "killed"}
-----------------------------------------------------------------------------
Init == /\ phase = "idle"
        /\ todo = {}
        /\ text = [n \in Names |-> Absent]
        /\ private = {}
        /\ canon = [n \in Names |-> None]
        /\ skipped = {}
        /\ divergences = {}
        /\ report = {}
        /\ issues = {}
        /\ runs = 0
        /\ kills = 0
        /\ Pool!Init

\* write_text replaces the file, privatized or not.
Write(n, t) == /\ text' = [text EXCEPT ![n] = t]
               /\ private' = private \ {n}

\* The sources are listed and sorted; skip_files are set aside.
Start == /\ phase \in Ended
         /\ runs < MaxRuns
         /\ runs' = runs + 1
         /\ phase' = "copy"
         /\ todo' = Copied
         /\ canon' = [n \in Names |-> None]
         /\ skipped' = Skips
         /\ divergences' = {}
         /\ report' = {}
         /\ issues' = {}
         /\ Pool!Close
         /\ UNCHANGED <<diskVars, kills>>

\* copy_files and independent sources are copied verbatim.
Copy(s) == /\ phase = "copy"
           /\ s \in todo
           /\ Write(Out[s], s)
           /\ todo' = todo \ {s}
           /\ UNCHANGED <<phase, listVars, bounds, poolVars>>

\* _migrate_parallel on the rest.
CopyDone == /\ phase = "copy"
            /\ todo = {}
            /\ phase' = "migrate"
            /\ Pool!Open(Jobs)
            /\ UNCHANGED <<todo, diskVars, listVars, bounds>>

PoolStep == /\ phase \in {"migrate", "diverge"}
            /\ Pool!Step
            /\ UNCHANGED <<phase, todo, diskVars, listVars, bounds>>

\* submit() raised on a broken pool: the exception ends the program.
PoolFails == /\ phase \in {"migrate", "diverge"}
             /\ pool = "failed"
             /\ phase' = "aborted"
             /\ UNCHANGED <<todo, diskVars, listVars, bounds, poolVars>>

\* Mutant: the reduce loop visits only the files that have a text.
MigrateReturnsTexts == /\ phase = "migrate"
                       /\ pool = "returned"
                       /\ phase' = "reduce"
                       /\ todo' = {s \in Jobs : result[s] = "text"}
                       /\ UNCHANGED <<diskVars, listVars, bounds, poolVars>>

MigrateReturns == /\ phase = "migrate"
                  /\ pool = "returned"
                  /\ phase' = "reduce"
                  /\ todo' = Jobs
                  /\ UNCHANGED <<diskVars, listVars, bounds, poolVars>>
-----------------------------------------------------------------------------
\* Mutant: results are reduced in the order they happen to be visited.
ReduceAnyOrder(s) ==
  /\ phase = "reduce"
  /\ s \in todo
  /\ todo' = todo \ {s}
  /\ \/ /\ result[s] # "text"
        /\ skipped' = skipped \cup {s}
        /\ UNCHANGED <<diskVars, canon, divergences>>
     \/ /\ result[s] = "text"
        /\ canon[Out[s]] = None
        /\ canon' = [canon EXCEPT ![Out[s]] = s]
        /\ Write(Out[s], s)
        /\ UNCHANGED <<skipped, divergences>>
     \/ /\ result[s] = "text"
        /\ canon[Out[s]] # None
        /\ divergences' = IF Class[s] = Class[canon[Out[s]]] THEN divergences
                          ELSE divergences \cup {s}
        /\ UNCHANGED <<diskVars, canon, skipped>>
  /\ UNCHANGED <<phase, report, issues, bounds, poolVars>>

\* Mutant: a divergent text is written over the canonical one.
ReduceLastWins(s) ==
  /\ phase = "reduce"
  /\ IsFirst(s, todo)
  /\ todo' = todo \ {s}
  /\ \/ /\ result[s] # "text"
        /\ skipped' = skipped \cup {s}
        /\ UNCHANGED <<diskVars, canon, divergences>>
     \/ /\ result[s] = "text"
        /\ Write(Out[s], s)
        /\ canon' = [canon EXCEPT ![Out[s]] = s]
        /\ divergences' = IF canon[Out[s]] = None \/ Class[s] = Class[canon[Out[s]]]
                          THEN divergences ELSE divergences \cup {s}
        /\ UNCHANGED skipped
  /\ UNCHANGED <<phase, report, issues, bounds, poolVars>>

\* One turn of the reduce loop, in canonical order: a file without a text is
\* skipped, the first text of a target is written, a later one is compared.
Reduce(s) ==
  /\ phase = "reduce"
  /\ IsFirst(s, todo)
  /\ todo' = todo \ {s}
  /\ \/ /\ result[s] # "text"
        /\ skipped' = skipped \cup {s}
        /\ UNCHANGED <<diskVars, canon, divergences>>
     \/ /\ result[s] = "text"
        /\ canon[Out[s]] = None
        /\ canon' = [canon EXCEPT ![Out[s]] = s]
        /\ Write(Out[s], s)
        /\ UNCHANGED <<skipped, divergences>>
     \/ /\ result[s] = "text"
        /\ canon[Out[s]] # None
        /\ divergences' = IF Class[s] = Class[canon[Out[s]]] THEN divergences
                          ELSE divergences \cup {s}
        /\ UNCHANGED <<diskVars, canon, skipped>>
  /\ UNCHANGED <<phase, report, issues, bounds, poolVars>>

\* Mutant: the override loop visits every output file.
ReduceDoneAll == /\ phase = "reduce"
                 /\ todo = {}
                 /\ phase' = "override"
                 /\ todo' = Names
                 /\ UNCHANGED <<diskVars, listVars, bounds, poolVars>>

ReduceDone == /\ phase = "reduce"
              /\ todo = {}
              /\ phase' = "override"
              /\ todo' = Overrides
              /\ UNCHANGED <<diskVars, listVars, bounds, poolVars>>

Override(n) == /\ phase = "override"
               /\ n \in todo
               /\ Write(n, n)
               /\ todo' = todo \ {n}
               /\ UNCHANGED <<phase, listVars, bounds, poolVars>>

\* Mutant: the pass visits what the reduction wrote, not the whole tree.
OverrideDoneWritten == /\ phase = "override"
                       /\ todo = {}
                       /\ phase' = "privatize"
                       /\ todo' = {n \in Names : canon[n] # None}
                       /\ UNCHANGED <<diskVars, listVars, bounds, poolVars>>

\* privatize_tree visits every file under the output directory.
OverrideDone == /\ phase = "override"
                /\ todo = {}
                /\ phase' = "privatize"
                /\ todo' = {n \in Names : text[n] # Absent}
                /\ UNCHANGED <<diskVars, listVars, bounds, poolVars>>

\* A file is rewritten only when the pass changes it.
Privatize(n) == /\ phase = "privatize"
                /\ n \in todo
                /\ todo' = todo \ {n}
                /\ private' = IF text[n] \in Mentions THEN private \cup {n}
                              ELSE private
                /\ UNCHANGED <<phase, text, listVars, bounds, poolVars>>
-----------------------------------------------------------------------------
\* run_divergence_report looks at source_dir only.
Grouped == Jobs \cap InSourceDir

\* Mutant: the first name of a group stands for its canonical member.
PairsByName == {pair \in Grouped \X Grouped :
                  LET family == {x \in Grouped : Out[x] = Out[pair[1]]}
                  IN  /\ pair[1] # pair[2]
                      /\ pair[2] \in family
                      /\ \A x \in family : Pos[pair[2]] <= Pos[x]}

\* The other members of every group with one target, each with the canonical.
Pairs == {pair \in Grouped \X Grouped :
            /\ pair[1] # pair[2]
            /\ IsFirst(pair[2], {x \in Grouped : Out[x] = Out[pair[1]]})}

AllPaths == {s \in Grouped : \E x \in Grouped \ {s} : Out[x] = Out[s]}

PrivatizeDone == /\ phase = "privatize"
                 /\ todo = {}
                 /\ phase' = "diverge"
                 /\ Pool!Open(AllPaths)
                 /\ UNCHANGED <<todo, diskVars, listVars, bounds>>

\* What the diff filter and the recipe's whitelist leave of a pair.
Reported(pair) == /\ Class[pair[1]] # Class[pair[2]]
                  /\ pair \notin Drift
                  /\ pair[2] \notin Expected

\* A pair with a member that did not migrate is passed over.
Report == /\ phase = "diverge"
          /\ pool = "returned"
          /\ phase' = "report"
          /\ report' = {pair \in Pairs : /\ result[pair[1]] = "text"
                                         /\ result[pair[2]] = "text"
                                         /\ Reported(pair)}
          /\ UNCHANGED <<todo, diskVars, canon, skipped, divergences, issues,
                         bounds, poolVars>>

\* _run_diverge returns 1 when the report has an entry.
ReportDone == /\ phase = "report"
              /\ phase' = "verify"
              /\ issues' = IF report = {} THEN issues ELSE issues \cup {"diverge"}
              /\ UNCHANGED <<todo, diskVars, canon, skipped, divergences, report,
                             bounds, poolVars>>

\* _run_verify reads the files on disk; a failure does not stop the run.
Verify == /\ phase = "verify"
          /\ phase' = "build"
          /\ issues' = IF \E n \in Names : text[n] \in Unclean
                       THEN issues \cup {"verify"} ELSE issues
          /\ UNCHANGED <<todo, diskVars, canon, skipped, divergences, report,
                         bounds, poolVars>>

\* CMake configures and builds what it finds, or fails.
Build == /\ phase = "build"
         /\ phase' = "done"
         /\ issues' \in {issues, issues \cup {"build"}}
         /\ UNCHANGED <<todo, diskVars, canon, skipped, divergences, report,
                        bounds, poolVars>>

\* The file the current stage may be writing.
BeingWritten ==
  CASE phase = "copy" -> {Out[s] : s \in todo}
    [] phase = "reduce" -> {Out[s] : s \in {x \in todo : /\ IsFirst(x, todo)
                                                         /\ result[x] = "text"
                                                         /\ canon[Out[x]] = None}}
    [] phase = "override" -> todo
    [] phase = "privatize" -> {n \in todo : text[n] \in Mentions /\ n \notin private}
    [] OTHER -> {}

\* The process is killed between two steps or inside a write.
Kill == /\ phase \notin Ended
        /\ kills < MaxKills
        /\ kills' = kills + 1
        /\ phase' = "killed"
        /\ \/ UNCHANGED diskVars
           \/ \E n \in BeingWritten : Write(n, Torn)
        /\ Pool!Close
        /\ UNCHANGED <<todo, listVars, runs>>

Next == \/ Start \/ CopyDone \/ PoolStep \/ PoolFails \/ MigrateReturns
        \/ ReduceDone \/ OverrideDone \/ PrivatizeDone \/ Report \/ ReportDone
        \/ Verify \/ Build \/ Kill
        \/ \E s \in Sources : Copy(s) \/ Reduce(s)
        \/ \E n \in Names : Override(n) \/ Privatize(n)

Spec == Init /\ [][Next]_vars

\* The program runs on unless killed; nothing makes the user start it again.
Fairness ==
  /\ WF_vars(CopyDone \/ MigrateReturns \/ ReduceDone \/ OverrideDone)
  /\ WF_vars(PrivatizeDone \/ Report \/ ReportDone \/ Verify \/ Build)
  /\ WF_vars(PoolFails)
  /\ WF_vars(PoolStep)
  /\ WF_vars(\E s \in Sources : Copy(s) \/ Reduce(s))
  /\ WF_vars(\E n \in Names : Override(n) \/ Privatize(n))

FairSpec == Spec /\ Fairness
-----------------------------------------------------------------------------
\* The stages after the reduction, with its results still standing.
Settled == {"override", "privatize", "diverge", "report", "verify", "build", "done"}

Survivors(n) == {s \in Jobs \ skipped : Out[s] = n}

\* Every variable of the run keeps its type.
TypeOK == /\ phase \in Phases
          /\ todo \subseteq IF phase = "override" THEN Overrides ELSE Sources \cup Names
          /\ text \in [Names -> Texts \cup {Absent, Torn}]
          /\ private \subseteq Names
          /\ canon \in [Names -> Sources \cup {None}]
          /\ skipped \subseteq Sources
          /\ divergences \subseteq Sources
          /\ report \subseteq Sources \X Sources
          /\ issues \subseteq {"diverge", "verify", "build"}
          /\ runs \in 0 .. MaxRuns
          /\ kills \in 0 .. MaxKills
          /\ Pool!TypeOK

\* The comments "We reduce results in canonical-first order so D/Z output is
\* the one written to disk" and "Keep the canonical (D/Z) version on disk":
\* once the overrides are in, what a target holds depends on which sources
\* were lost and on nothing else, whatever the completion order, the workers
\* that died and the runs that were killed before.
DiskIsDetermined ==
  phase \in Settled \ {"override"} => \A n \in Names :
     IF n \in Overrides THEN text[n] = n
     ELSE Survivors(n) # {} => IsFirst(text[n], Survivors(n))

\* A source that migrated is recorded as divergent exactly when it disagrees
\* with the text that ended on disk for its target: no co-family member is
\* dropped without a word, and none is blamed that agrees.
NoSilentDisagreement ==
  phase \in Settled \ {"override"} => \A s \in Jobs \ skipped :
     Out[s] \in Overrides \/ (/\ text[Out[s]] \in Sources
                              /\ s \in divergences <=> Class[s] # Class[text[Out[s]]])

\* The comment at the privatization step: it runs "strictly after clones,
\* header patches, extern-C wrapping and override copies, so nothing
\* regenerates a pristine name behind the pass".
NoPristineNameLeft ==
  phase \in {"diverge", "report", "verify", "build", "done"} =>
     \A n \in Names : text[n] \in Mentions => n \in private

\* The two rounds agree: for a target whose sources all lie in source_dir and
\* were lost in neither round, the report holds the divergences migrate
\* recorded, against the same canonical source, less the drift and the
\* whitelist.
ReportsAgree ==
  phase \in {"report", "verify", "build", "done"} => \A n \in Names :
     LET Family == {s \in Jobs : Out[s] = n}
     IN  /\ Family \subseteq InSourceDir \ skipped
         /\ \A s \in Family \cap AllPaths : result[s] = "text"
         => {pair \in report : Out[pair[2]] = n} =
            {pair \in (divergences \cap Family) \X {canon[n]} : Reported(pair)}

\* A run ends, whichever workers die: it finishes, aborts or is killed.
RunEnds == phase \notin Ended ~> phase \in Ended

\* The migration implements the promise of Convergence.
Abstract == INSTANCE Convergence WITH
  Targets  <- Names,
  outcome  <- IF phase \in Settled THEN "settled" ELSE "pending",
  lost     <- IF phase \in Settled THEN skipped \cap Jobs ELSE {},
  canon    <- IF phase \in Settled THEN canon ELSE [n \in Names |-> None],
  diverged <- IF phase \in Settled THEN divergences ELSE {}

KeepsThePromise == Abstract!Spec
=============================================================================
