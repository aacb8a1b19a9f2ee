-------------------------- MODULE WorkerPoolProofs --------------------------
(* What a returned call says of its files is true, for any number of files *)
(* and workers.                                                            *)
EXTENDS WorkerPool, TLAPS

\* Only files of the batch have a future; an answer is recorded for a future
\* that is over, and says what it came to.
FutureInv == \A s \in Files :
  /\ task[s] # "off" => s \in batch
  /\ task[s] = "text" => s \notin Unsupported
  /\ result[s] # "missing" => /\ task[s] \in Finished
                              /\ result[s] = "text" <=> task[s] = "text"

ReturnInv == pool = "returned" => \A s \in batch : result[s] # "missing"

IInv == TypeOK /\ FutureInv /\ ReturnInv

LEMMA IInvInit == Init => IInv
BY DEF Init, IInv, TypeOK, FutureInv, ReturnInv, TaskStates

LEMMA IInvStep == IInv /\ [Next]_vars => IInv'
<1> SUFFICES ASSUME IInv, [Next]_vars PROVE IInv'
  OBVIOUS
<1> USE DEF IInv, TypeOK, FutureInv, ReturnInv, TaskStates, Finished
<1>1. ASSUME NEW s \in Files, Submit(s) PROVE IInv'
  BY <1>1 DEF Submit
<1>2. ASSUME NEW s \in Files, Take(s) PROVE IInv'
  BY <1>2 DEF Take
<1>3. ASSUME NEW s \in Files, Finish(s) PROVE IInv'
  BY <1>3 DEF Finish
<1>4. ASSUME NEW s \in Files, Raise(s) PROVE IInv'
  BY <1>4 DEF Raise
<1>5. ASSUME NEW s \in Files, WorkerDies(s) PROVE IInv'
  BY <1>5 DEF WorkerDies
<1>6. ASSUME NEW s \in Files, Collect(s) PROVE IInv'
  BY <1>6 DEF Collect
<1>7. CASE SubmitFails BY <1>7 DEF SubmitFails
<1>8. CASE Return BY <1>8 DEF Return
<1>9. ASSUME NEW B \in SUBSET Files, Open(B) PROVE IInv'
  BY <1>9 DEF Open
<1>10. CASE UNCHANGED vars BY <1>10 DEF vars
<1> QED BY <1>1, <1>2, <1>3, <1>4, <1>5, <1>6, <1>7, <1>8, <1>9, <1>10 DEF Next, Step

LEMMA IInvAnswers == IInv => AnswersAreReal
BY DEF IInv, TypeOK, FutureInv, ReturnInv, Finished, AnswersAreReal

\* A call that returns answers for every path and only for those, and calls
\* migrated what a worker finished: for any batch, schedule and deaths.
THEOREM AnswersAlwaysReal == Spec => []AnswersAreReal
BY IInvInit, IInvStep, IInvAnswers, PTL DEF Spec
=============================================================================
