----------------------------- MODULE WorkerPool -----------------------------
(* One call of _migrate_parallel: the files of a batch are submitted to a  *)
(* process pool, worker processes migrate them in any order, and the main  *)
(* process collects the answers in the order they complete.  The pool      *)
(* itself is Python's ProcessPoolExecutor: when one worker process dies,   *)
(* every file still queued or running fails with BrokenProcessPool and     *)
(* submit() raises from then on.                                           *)
EXTENDS Integers, FiniteSets

CONSTANTS
  Files,        \* the files that may be given to a call
  Unsupported,  \* those migrate_file_to_string has no migrator for
  Workers       \* max_workers

ASSUME PoolAssumption == /\ Unsupported \subseteq Files
                         /\ Workers \in Nat \ {0}

VARIABLES
  pool,    \* where the call is: "closed", "open", "returned" or "failed"
  batch,   \* the paths given to the call
  task,    \* what became of each file's future
  result   \* the dict the call returns

vars == <<pool, batch, task, result>>

Finished == {"text", "none", "raised", "died", "lost"}
TaskStates == {"off", "queued", "running"} \cup Finished

\* The attribute ProcessPoolExecutor._broken: a worker process has died.
Broken == \E s \in Files : task[s] = "died"

Running == {s \in Files : task[s] = "running"}
Submitted == \A s \in batch : task[s] # "off"
-----------------------------------------------------------------------------
Init == /\ pool = "closed"
        /\ batch = {}
        /\ task = [s \in Files |-> "off"]
        /\ result = [s \in Files |-> "missing"]

\* A new pool, no future yet, an empty dict of results.
Open(B) == /\ pool # "open"
           /\ pool' = "open"
           /\ batch' = B
           /\ task' = [s \in Files |-> "off"]
           /\ result' = [s \in Files |-> "missing"]

\* The process that made the call is gone.
Close == /\ pool' = "closed"
         /\ batch' = {}
         /\ task' = [s \in Files |-> "off"]
         /\ result' = [s \in Files |-> "missing"]

Submit(s) == /\ pool = "open"
             /\ s \in batch
             /\ task[s] = "off"
             /\ ~Broken
             /\ task' = [task EXCEPT ![s] = "queued"]
             /\ UNCHANGED <<pool, batch, result>>

\* submit() on a broken pool raises; nothing in the caller catches it.
SubmitFails == /\ pool = "open"
               /\ ~Submitted
               /\ Broken
               /\ pool' = "failed"
               /\ UNCHANGED <<batch, task, result>>

Take(s) == /\ pool = "open"
           /\ task[s] = "queued"
           /\ Cardinality(Running) < Workers
           /\ task' = [task EXCEPT ![s] = "running"]
           /\ UNCHANGED <<pool, batch, result>>

\* migrate_file_to_string returns: a text, or None for an extension it
\* does not know.
Finish(s) ==
  /\ pool = "open"
  /\ task[s] = "running"
  /\ task' = [task EXCEPT ![s] = IF s \in Unsupported THEN "none" ELSE "text"]
  /\ UNCHANGED <<pool, batch, result>>

\* migrate_file_to_string raises: the parser fails, the file is unreadable...
Raise(s) == /\ pool = "open"
            /\ task[s] = "running"
            /\ task' = [task EXCEPT ![s] = "raised"]
            /\ UNCHANGED <<pool, batch, result>>

\* The worker process itself dies (segmentation fault, out of memory).
WorkerDies(s) ==
  /\ pool = "open"
  /\ task[s] = "running"
  /\ task' = [x \in Files |-> IF x = s THEN "died"
                              ELSE IF task[x] \in {"queued", "running"} THEN "lost"
                              ELSE task[x]]
  /\ UNCHANGED <<pool, batch, result>>

\* Mutant: only successful futures are collected.
CollectTexts(s) == /\ pool = "open"
                   /\ Submitted
                   /\ result[s] = "missing"
                   /\ task[s] = "text"
                   /\ result' = [result EXCEPT ![s] = "text"]
                   /\ UNCHANGED <<pool, batch, task>>

\* Mutant: a file whose worker process died keeps its place as if migrated.
CollectBlindly(s) == /\ pool = "open"
                     /\ Submitted
                     /\ result[s] = "missing"
                     /\ task[s] \in Finished
                     /\ result' = [result EXCEPT ![s] =
                                     IF task[s] \in {"text", "lost"} THEN "text" ELSE "none"]
                     /\ UNCHANGED <<pool, batch, task>>

\* as_completed yields a future; an exception is recorded as None.
Collect(s) == /\ pool = "open"
              /\ Submitted
              /\ result[s] = "missing"
              /\ task[s] \in Finished
              /\ result' = [result EXCEPT ![s] =
                              IF task[s] = "text" THEN "text" ELSE "none"]
              /\ UNCHANGED <<pool, batch, task>>

Return == /\ pool = "open"
          /\ Submitted
          /\ \A s \in batch : result[s] # "missing"
          /\ pool' = "returned"
          /\ UNCHANGED <<batch, task, result>>

Step == \/ \E s \in Files : \/ Submit(s) \/ Take(s) \/ Finish(s)
                            \/ Raise(s) \/ WorkerDies(s) \/ Collect(s)
        \/ SubmitFails
        \/ Return

Next == Step \/ \E B \in SUBSET Files : Open(B)

Spec == Init /\ [][Next]_vars

\* The main process runs on, idle workers take queued files, and a worker
\* that has a file ends with it one way or another: the migrator sets no
\* timeout, so a file that loops forever is outside this specification.
Fairness ==
  /\ \A s \in Files : /\ WF_vars(Submit(s))
                      /\ WF_vars(Take(s))
                      /\ WF_vars(Finish(s) \/ Raise(s) \/ WorkerDies(s))
                      /\ WF_vars(Collect(s))
  /\ WF_vars(SubmitFails)
  /\ WF_vars(Return)

FairSpec == Spec /\ Fairness
-----------------------------------------------------------------------------
\* Every variable of the pool keeps its type.
TypeOK == /\ pool \in {"closed", "open", "returned", "failed"}
          /\ batch \subseteq Files
          /\ task \in [Files -> TaskStates]
          /\ result \in [Files -> {"missing", "text", "none"}]

\* A call that returns has an answer for every path it was given and for no
\* other, and says "migrated" of exactly the files a worker finished,
\* whatever the order of completion and whichever workers died.
AnswersAreReal ==
  pool = "returned" => \A s \in Files :
     /\ s \in batch <=> result[s] # "missing"
     /\ result[s] = "text" <=> task[s] = "text"
     /\ result[s] = "text" => s \notin Unsupported

\* Whatever the workers do, the call ends: it returns or it raises.
CallEnds == pool = "open" ~> pool # "open"
=============================================================================
