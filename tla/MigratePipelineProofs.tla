----------------------- MODULE MigratePipelineProofs ------------------------
(* Theorems about MigratePipeline: its type, what a finished run leaves on *)
(* disk, and that it implements Convergence.                               *)
EXTENDS MigratePipeline, TLAPS

USE DEF Texts, Jobs, Copied

\* One step of the worker pool keeps the pool's types.
LEMMA PoolStepTyped ==
  ASSUME Pool!TypeOK, Pool!Step
  PROVE  Pool!TypeOK'
<1> USE DEF Pool!TypeOK, Pool!TaskStates, Pool!Finished
<1>1. ASSUME NEW s \in Sources, Pool!Submit(s) PROVE Pool!TypeOK'
  BY <1>1 DEF Pool!Submit
<1>2. ASSUME NEW s \in Sources, Pool!Take(s) PROVE Pool!TypeOK'
  BY <1>2 DEF Pool!Take
<1>3. ASSUME NEW s \in Sources, Pool!Finish(s) PROVE Pool!TypeOK'
  BY <1>3 DEF Pool!Finish
<1>4. ASSUME NEW s \in Sources, Pool!Raise(s) PROVE Pool!TypeOK'
  BY <1>4 DEF Pool!Raise
<1>5. ASSUME NEW s \in Sources, Pool!WorkerDies(s) PROVE Pool!TypeOK'
  BY <1>5 DEF Pool!WorkerDies
<1>6. ASSUME NEW s \in Sources, Pool!Collect(s) PROVE Pool!TypeOK'
  BY <1>6 DEF Pool!Collect
<1>7. CASE Pool!SubmitFails BY <1>7 DEF Pool!SubmitFails
<1>8. CASE Pool!Return BY <1>8 DEF Pool!Return
<1> QED BY <1>1, <1>2, <1>3, <1>4, <1>5, <1>6, <1>7, <1>8 DEF Pool!Step

\* A new call, or no call, is well typed.
LEMMA PoolOpenTyped ==
  ASSUME NEW B \in SUBSET Sources, Pool!Open(B)
  PROVE  Pool!TypeOK'
BY DEF Pool!Open, Pool!TypeOK, Pool!TaskStates

LEMMA PoolCloseTyped ==
  ASSUME Pool!Close
  PROVE  Pool!TypeOK'
BY DEF Pool!Close, Pool!TypeOK, Pool!TaskStates

\* The pool's type depends on the pool's variables only.
LEMMA PoolUnchanged ==
  ASSUME Pool!TypeOK, UNCHANGED poolVars
  PROVE  Pool!TypeOK'
BY DEF poolVars, Pool!TypeOK

LEMMA WriteTyped ==
  ASSUME TypeOK, NEW n \in Names, NEW t \in Texts \cup {Absent, Torn}, Write(n, t)
  PROVE  /\ text' \in [Names -> Texts \cup {Absent, Torn}]
         /\ private' \subseteq Names
BY DEF TypeOK, Write

\* Initially every variable has its type.
LEMMA TypeInit == Init => TypeOK
BY PipelineAssumption DEF Init, TypeOK, Phases, Pool!Init, Pool!TypeOK, Pool!TaskStates

\* Every step keeps the types.
LEMMA TypeStep == TypeOK /\ [Next]_vars => TypeOK'
<1> SUFFICES ASSUME TypeOK, [Next]_vars PROVE TypeOK'
  OBVIOUS
<1> USE PipelineAssumption DEF Phases, diskVars, listVars, bounds
<1>a. Pool!TypeOK BY DEF TypeOK
<1>1. CASE Start
  <2>1. Pool!TypeOK' BY <1>1, PoolCloseTyped DEF Start
  <2> QED BY <1>1, <2>1 DEF Start, TypeOK
<1>2. ASSUME NEW s \in Sources, Copy(s) PROVE TypeOK'
  <2>1. Pool!TypeOK' BY <1>a, <1>2, PoolUnchanged DEF Copy
  <2>2. /\ text' \in [Names -> Texts \cup {Absent, Torn}]
        /\ private' \subseteq Names
    BY <1>2, WriteTyped DEF Copy
  <2> QED BY <1>2, <2>1, <2>2 DEF Copy, TypeOK
<1>3. CASE CopyDone
  <2>1. Pool!TypeOK' BY <1>3, PoolOpenTyped DEF CopyDone
  <2> QED BY <1>3, <2>1 DEF CopyDone, TypeOK
<1>4. CASE PoolStep
  <2>1. Pool!TypeOK' BY <1>4, <1>a, PoolStepTyped DEF PoolStep
  <2> QED BY <1>4, <2>1 DEF PoolStep, TypeOK
<1>5. CASE PoolFails
  <2>1. Pool!TypeOK' BY <1>a, <1>5, PoolUnchanged DEF PoolFails
  <2> QED BY <1>5, <2>1 DEF PoolFails, TypeOK
<1>6. CASE MigrateReturns
  <2>1. Pool!TypeOK' BY <1>a, <1>6, PoolUnchanged DEF MigrateReturns
  <2> QED BY <1>6, <2>1 DEF MigrateReturns, TypeOK
<1>7. ASSUME NEW s \in Sources, Reduce(s) PROVE TypeOK'
  <2>1. Pool!TypeOK' BY <1>a, <1>7, PoolUnchanged DEF Reduce
  <2>2. CASE result[s] # "text"
    BY <1>7, <2>1, <2>2 DEF Reduce, TypeOK
  <2>3. CASE result[s] = "text" /\ canon[Out[s]] = None
    <3>1. Write(Out[s], s) /\ canon' = [canon EXCEPT ![Out[s]] = s]
          /\ UNCHANGED <<skipped, divergences>>
      BY <1>7, <2>3 DEF Reduce
    <3>2. /\ text' \in [Names -> Texts \cup {Absent, Torn}]
          /\ private' \subseteq Names
      BY <3>1, WriteTyped
    <3> QED BY <1>7, <2>1, <3>1, <3>2 DEF Reduce, TypeOK
  <2>4. CASE result[s] = "text" /\ canon[Out[s]] # None
    BY <1>7, <2>1, <2>4 DEF Reduce, TypeOK
  <2> QED BY <2>2, <2>3, <2>4
<1>8. CASE ReduceDone
  <2>1. Pool!TypeOK' BY <1>a, <1>8, PoolUnchanged DEF ReduceDone
  <2> QED BY <1>8, <2>1 DEF ReduceDone, TypeOK
<1>9. ASSUME NEW n \in Names, Override(n) PROVE TypeOK'
  <2>1. Pool!TypeOK' BY <1>a, <1>9, PoolUnchanged DEF Override
  <2>2. n \in Overrides BY <1>9 DEF Override, TypeOK
  <2>3. /\ text' \in [Names -> Texts \cup {Absent, Torn}]
        /\ private' \subseteq Names
    BY <1>9, <2>2, WriteTyped DEF Override
  <2> QED BY <1>9, <2>1, <2>3 DEF Override, TypeOK
<1>10. CASE OverrideDone
  <2>1. Pool!TypeOK' BY <1>a, <1>10, PoolUnchanged DEF OverrideDone
  <2> QED BY <1>10, <2>1 DEF OverrideDone, TypeOK
<1>11. ASSUME NEW n \in Names, Privatize(n) PROVE TypeOK'
  <2>1. Pool!TypeOK' BY <1>a, <1>11, PoolUnchanged DEF Privatize
  <2> QED BY <1>11, <2>1 DEF Privatize, TypeOK
<1>12. CASE PrivatizeDone
  <2>1. Pool!TypeOK' BY <1>12, PoolOpenTyped DEF PrivatizeDone, AllPaths, Grouped
  <2> QED BY <1>12, <2>1 DEF PrivatizeDone, TypeOK
<1>13. CASE Report
  <2>1. Pool!TypeOK' BY <1>a, <1>13, PoolUnchanged DEF Report
  <2>2. report' \subseteq Sources \X Sources
    BY <1>13 DEF Report, Pairs, Grouped
  <2> QED BY <1>13, <2>1, <2>2 DEF Report, TypeOK
<1>14. CASE ReportDone
  <2>1. Pool!TypeOK' BY <1>a, <1>14, PoolUnchanged DEF ReportDone
  <2> QED BY <1>14, <2>1 DEF ReportDone, TypeOK
<1>15. CASE Verify
  <2>1. Pool!TypeOK' BY <1>a, <1>15, PoolUnchanged DEF Verify
  <2> QED BY <1>15, <2>1 DEF Verify, TypeOK
<1>16. CASE Build
  <2>1. Pool!TypeOK' BY <1>a, <1>16, PoolUnchanged DEF Build
  <2> QED BY <1>16, <2>1 DEF Build, TypeOK
<1>17. CASE Kill
  <2>1. Pool!TypeOK' BY <1>17, PoolCloseTyped DEF Kill
  <2>2. kills' \in 0 .. MaxKills BY <1>17 DEF Kill, TypeOK
  <2>3. /\ text' \in [Names -> Texts \cup {Absent, Torn}]
        /\ private' \subseteq Names
    BY <1>17 DEF Kill, Write, TypeOK
  <2> QED BY <1>17, <2>1, <2>2, <2>3 DEF Kill, TypeOK
<1>18. CASE UNCHANGED vars
  <2>1. Pool!TypeOK' BY <1>a, <1>18, PoolUnchanged DEF vars
  <2> QED BY <1>18, <2>1 DEF vars, TypeOK
<1> QED BY <1>1, <1>2, <1>3, <1>4, <1>5, <1>6, <1>7, <1>8, <1>9, <1>10, <1>11,
           <1>12, <1>13, <1>14, <1>15, <1>16, <1>17, <1>18 DEF Next

\* Every variable of the run keeps its type, for any recipe and pool.
THEOREM TypeCorrect == Spec => []TypeOK
BY TypeInit, TypeStep, PTL DEF Spec
-----------------------------------------------------------------------------
(* The inductive invariant.  While the reduction runs, the sources it has  *)
(* seen come before those it has left; what it has seen determines canon,  *)
(* skipped and divergences; canon determines the disk.                     *)

Reduced == {"reduce"} \cup Settled

\* The sources the reduce loop has still to visit, and those it has visited.
Left == IF phase = "reduce" THEN todo ELSE {}
Seen == Jobs \ Left

\* c is the text n gets from the sources in S: none, or the first of them.
For(n, S) == {s \in S : Out[s] = n}
FirstWriter(c, n, S) == \/ c = None /\ For(n, S) = {}
                        \/ IsFirst(c, For(n, S))

\* Before the reduction its results are empty.
FreshInv == phase \in {"copy", "migrate"} =>
              /\ canon = [n \in Names |-> None]
              /\ skipped = Skips
              /\ divergences = {}

\* The loop goes through the sources in canonical order.
OrderInv == phase \in Reduced =>
              /\ Left \subseteq Jobs
              /\ \A a \in Seen, b \in Left : Before(a, b)

\* Only sources the loop has seen are skipped, besides skip_files.
SkipInv == phase \in Reduced => skipped \subseteq Skips \cup Seen

\* Each target belongs to its first surviving source.
CanonInv == phase \in Reduced =>
              \A n \in Names : FirstWriter(canon[n], n, Seen \ skipped)

\* The divergences are the surviving sources that disagree with it.
DivergenceInv == phase \in Reduced =>
  divergences = {s \in Seen \ skipped : Class[s] # Class[canon[Out[s]]]}

\* The overrides already copied hide the migrated texts.
Overridden == CASE phase = "reduce" -> {}
                [] phase = "override" -> Overrides \ todo
                [] OTHER -> Overrides

DiskInv == phase \in Reduced => \A n \in Names :
             IF n \in Overridden THEN text[n] = n
             ELSE canon[n] # None => text[n] = canon[n]

\* Files with a pristine name are among those the pass has still to visit.
PristineInv ==
  phase \in Settled \ {"override"} => \A n \in Names :
     text[n] \in Mentions => n \in private \/ (phase = "privatize" /\ n \in todo)

IInv == /\ TypeOK
        /\ FreshInv
        /\ OrderInv
        /\ SkipInv
        /\ CanonInv
        /\ DivergenceInv
        /\ DiskInv
        /\ PristineInv

\* The canonical order is strict: no source comes before itself, and of two
\* sources at most one comes before the other.
LEMMA BeforeIsStrict ==
  ASSUME NEW a \in Sources, NEW b \in Sources, Before(a, b)
  PROVE  a # b /\ ~Before(b, a)
BY OrderAssumption DEF Before, Rank

\* A source that comes after all of S changes no target that S has claimed.
LEMMA LaterWriter ==
  ASSUME NEW S \in SUBSET Sources, NEW s \in Sources,
         \A a \in S : Before(a, s),
         NEW n \in Names, NEW c,
         FirstWriter(c, n, S),
         Out[s] = n => c # None
  PROVE  FirstWriter(c, n, S \cup {s})
<1>1. CASE Out[s] # n
  <2>1. For(n, S \cup {s}) = For(n, S) BY <1>1 DEF For
  <2> QED BY <2>1 DEF FirstWriter
<1>2. CASE Out[s] = n
  <2>1. IsFirst(c, For(n, S)) BY <1>2 DEF FirstWriter
  <2>2. IsFirst(c, For(n, S \cup {s})) BY <2>1, <1>2 DEF IsFirst, For
  <2> QED BY <2>2 DEF FirstWriter
<1> QED BY <1>1, <1>2

\* An unclaimed target goes to the first source that comes for it.
LEMMA NewWriter ==
  ASSUME NEW S \in SUBSET Sources, NEW s \in Sources,
         FirstWriter(None, Out[s], S)
  PROVE  FirstWriter(s, Out[s], S \cup {s})
<1>1. For(Out[s], S) = {}
  BY PipelineAssumption DEF FirstWriter, IsFirst, For
<1>2. For(Out[s], S \cup {s}) = {s} BY <1>1 DEF For
<1> QED BY <1>2 DEF FirstWriter, IsFirst

\* One turn of the reduce loop moves its source from Left to Seen.
LEMMA ReduceMoves ==
  ASSUME IInv, NEW s \in Sources, Reduce(s)
  PROVE  /\ s \in Jobs /\ s \notin Seen
         /\ Left' = Left \ {s}
         /\ Seen' = Seen \cup {s}
         /\ \A a \in Seen : Before(a, s)
         /\ \A b \in Left \ {s} : Before(s, b)
BY DEF IInv, OrderInv, Reduced, Reduce, IsFirst, Left, Seen

LEMMA ReduceKeepsIInv ==
  ASSUME IInv, TypeOK', NEW s \in Sources, Reduce(s)
  PROVE  IInv'
<1>0. TypeOK BY DEF IInv
<1>a. /\ s \in Jobs /\ s \notin Seen
      /\ Left' = Left \ {s}
      /\ Seen' = Seen \cup {s}
      /\ \A a \in Seen : Before(a, s)
      /\ \A b \in Left \ {s} : Before(s, b)
  BY ReduceMoves
<1>b. phase = "reduce" /\ phase' = "reduce" BY DEF Reduce
<1>c. s \notin skipped BY <1>a, <1>b DEF IInv, SkipInv, Reduced
<1>d. Out[s] \in Names BY PipelineAssumption
<1>1. FreshInv' BY <1>b DEF FreshInv
<1>2. OrderInv' BY <1>a, <1>b DEF IInv, OrderInv, Reduced
<1>3. PristineInv' BY <1>b DEF PristineInv, Settled
<1> DEFINE S == Seen \ skipped
<1>e. /\ S \in SUBSET Sources
      /\ \A a \in S : Before(a, s)
  BY <1>a DEF Seen
<1>f. \A n \in Names : FirstWriter(canon[n], n, S)
  BY <1>b DEF IInv, CanonInv, Reduced
<1>g. divergences = {x \in S : Class[x] # Class[canon[Out[x]]]}
  BY <1>b DEF IInv, DivergenceInv, Reduced
<1>4. CASE result[s] # "text"
  <2>1. /\ skipped' = skipped \cup {s}
        /\ UNCHANGED <<text, private, canon, divergences>>
    BY <1>4 DEF Reduce, diskVars
  <2>2. (Seen \ skipped)' = S BY <2>1, <1>a
  <2>3. SkipInv' BY <2>1, <1>a, <1>b DEF IInv, SkipInv, Reduced
  <2>4. CanonInv' BY <2>1, <2>2, <1>f DEF CanonInv
  <2>5. DivergenceInv' BY <2>1, <2>2, <1>g DEF DivergenceInv
  <2>6. DiskInv' BY <2>1, <1>b DEF IInv, DiskInv, Reduced, Overridden
  <2> QED BY <1>1, <1>2, <1>3, <2>3, <2>4, <2>5, <2>6 DEF IInv
<1>5. CASE result[s] = "text" /\ canon[Out[s]] = None
  <2>1. /\ canon' = [canon EXCEPT ![Out[s]] = s]
        /\ text' = [text EXCEPT ![Out[s]] = s]
        /\ UNCHANGED <<skipped, divergences>>
    BY <1>5 DEF Reduce, Write
  <2>2. (Seen \ skipped)' = S \cup {s} BY <2>1, <1>a, <1>c
  <2>3. SkipInv' BY <2>1, <1>a, <1>b DEF IInv, SkipInv, Reduced
  <2>4. ASSUME NEW n \in Names
        PROVE  FirstWriter(canon'[n], n, S \cup {s})
    <3>1. CASE n = Out[s]
      <4>1. canon'[n] = s BY <2>1, <3>1, <1>0, <1>d DEF TypeOK
      <4>2. FirstWriter(None, Out[s], S) BY <1>f, <1>5, <1>d
      <4> QED BY <3>1, <4>1, <4>2, <1>e, NewWriter
    <3>2. CASE n # Out[s]
      <4>1. canon'[n] = canon[n] BY <2>1, <3>2, <1>0 DEF TypeOK
      <4> HIDE DEF S
      <4> QED BY <3>2, <4>1, <1>e, <1>f, LaterWriter
    <3> QED BY <3>1, <3>2
  <2>5. CanonInv' BY <2>2, <2>4 DEF CanonInv
  <2>6. \A x \in S : Out[x] # Out[s]
    <3>1. FirstWriter(None, Out[s], S) BY <1>f, <1>5, <1>d
    <3>2. For(Out[s], S) = {}
      BY <3>1, <1>e, PipelineAssumption DEF FirstWriter, For, IsFirst
    <3> QED BY <3>2 DEF For
  <2>7. \A x \in S : canon'[Out[x]] = canon[Out[x]]
    BY <2>1, <2>6, <1>0, <1>e, PipelineAssumption DEF TypeOK
  <2>8. canon'[Out[s]] = s BY <2>1, <1>0, <1>d DEF TypeOK
  <2>9. divergences' = {x \in S \cup {s} : Class[x] # Class[canon'[Out[x]]]}
    BY <2>1, <2>7, <2>8, <1>g
  <2>10. DivergenceInv' BY <2>2, <2>9 DEF DivergenceInv
  <2>11. DiskInv'
    BY <2>1, <1>b, <1>0, <1>d DEF IInv, DiskInv, Reduced, Overridden, TypeOK
  <2> QED BY <1>1, <1>2, <1>3, <2>3, <2>5, <2>10, <2>11 DEF IInv
<1>6. CASE result[s] = "text" /\ canon[Out[s]] # None
  <2>1. /\ UNCHANGED <<text, private, canon, skipped>>
        /\ divergences' = IF Class[s] = Class[canon[Out[s]]] THEN divergences
                          ELSE divergences \cup {s}
    BY <1>6 DEF Reduce, diskVars
  <2>2. (Seen \ skipped)' = S \cup {s} BY <2>1, <1>a, <1>c
  <2>3. SkipInv' BY <2>1, <1>a, <1>b DEF IInv, SkipInv, Reduced
  <2>4. ASSUME NEW n \in Names
        PROVE  FirstWriter(canon[n], n, S \cup {s})
    <3> HIDE DEF S
    <3> QED BY <1>6, <1>e, <1>f, LaterWriter
  <2>5. CanonInv' BY <2>1, <2>2, <2>4 DEF CanonInv
  <2>6. divergences' = {x \in S \cup {s} : Class[x] # Class[canon[Out[x]]]}
    BY <2>1, <1>g
  <2>7. DivergenceInv' BY <2>1, <2>2, <2>6 DEF DivergenceInv
  <2>8. DiskInv' BY <2>1, <1>b DEF IInv, DiskInv, Reduced, Overridden
  <2> QED BY <1>1, <1>2, <1>3, <2>3, <2>5, <2>7, <2>8 DEF IInv
<1> QED BY <1>4, <1>5, <1>6

\* The stages before the reduction say nothing of its results.
LEMMA StageOutside ==
  ASSUME TypeOK', phase' \notin Reduced, FreshInv'
  PROVE  IInv'
BY DEF IInv, OrderInv, SkipInv, CanonInv, DivergenceInv, DiskInv, PristineInv, Reduced

\* A step that leaves the reduction's results and the disk as they are.
LEMMA StageMovesOn ==
  ASSUME IInv, TypeOK', phase \in Reduced, phase' \in Settled,
         phase = "reduce" => todo = {},
         UNCHANGED <<text, private, canon, skipped, divergences>>,
         Overridden' = Overridden,
         PristineInv'
  PROVE  IInv'
<1>1. Left = {} /\ Left' = {} BY DEF Left, Settled
<1>2. Seen = Jobs /\ Seen' = Jobs BY <1>1 DEF Seen
<1>3. FreshInv' BY DEF FreshInv, Settled
<1>4. OrderInv' BY <1>1 DEF OrderInv
<1>5. SkipInv' BY <1>2 DEF IInv, SkipInv
<1>6. CanonInv' BY <1>2 DEF IInv, CanonInv
<1>7. DivergenceInv' BY <1>2 DEF IInv, DivergenceInv
<1>8. DiskInv' BY DEF IInv, DiskInv
<1> QED BY <1>3, <1>4, <1>5, <1>6, <1>7, <1>8 DEF IInv

LEMMA IInvInit == Init => IInv
<1> SUFFICES ASSUME Init PROVE IInv
  OBVIOUS
<1> QED BY TypeInit DEF Init, IInv, FreshInv, OrderInv, SkipInv, CanonInv,
           DivergenceInv, DiskInv, PristineInv, Reduced, Settled

LEMMA IInvStep == IInv /\ [Next]_vars => IInv'
<1> SUFFICES ASSUME IInv, [Next]_vars PROVE IInv'
  OBVIOUS
<1>t. TypeOK /\ TypeOK' BY TypeStep DEF IInv
<1> USE DEF diskVars, listVars, bounds
<1>1. CASE Start
  BY <1>1, <1>t, StageOutside DEF Start, FreshInv, Reduced, Settled
<1>2. ASSUME NEW s \in Sources, Copy(s) PROVE IInv'
  BY <1>2, <1>t, StageOutside DEF Copy, IInv, FreshInv, Reduced, Settled
<1>3. CASE CopyDone
  BY <1>3, <1>t, StageOutside DEF CopyDone, IInv, FreshInv, Reduced, Settled
<1>4. CASE PoolStep
  <2>1. CASE phase = "migrate"
    BY <2>1, <1>4, <1>t, StageOutside DEF PoolStep, IInv, FreshInv, Reduced, Settled
  <2>2. CASE phase = "diverge"
    BY <2>2, <1>4, <1>t, StageMovesOn
       DEF PoolStep, IInv, PristineInv, Reduced, Settled, Overridden
  <2> QED BY <1>4, <2>1, <2>2 DEF PoolStep
<1>5. CASE PoolFails
  BY <1>5, <1>t, StageOutside DEF PoolFails, IInv, FreshInv, Reduced, Settled
<1>6. CASE MigrateReturns
  <2>1. /\ phase = "migrate" /\ phase' = "reduce" /\ todo' = Jobs
        /\ UNCHANGED <<text, private, canon, skipped, divergences>>
    BY <1>6 DEF MigrateReturns
  <2>2. /\ canon = [n \in Names |-> None] /\ skipped = Skips /\ divergences = {}
    BY <2>1 DEF IInv, FreshInv
  <2>3. Left' = Jobs /\ Seen' = {} BY <2>1 DEF Left, Seen
  <2>4. OrderInv' BY <2>3 DEF OrderInv
  <2>5. SkipInv' BY <2>1, <2>2 DEF SkipInv
  <2>6. CanonInv' BY <2>1, <2>2, <2>3 DEF CanonInv, FirstWriter, For
  <2>7. DivergenceInv' BY <2>1, <2>2, <2>3 DEF DivergenceInv
  <2>8. DiskInv' BY <2>1, <2>2 DEF DiskInv, Overridden
  <2> QED BY <2>1, <2>4, <2>5, <2>6, <2>7, <2>8, <1>t
          DEF IInv, FreshInv, PristineInv, Settled
<1>7. ASSUME NEW s \in Sources, Reduce(s) PROVE IInv'
  BY <1>7, <1>t, ReduceKeepsIInv
<1>8. CASE ReduceDone
  BY <1>8, <1>t, StageMovesOn
     DEF ReduceDone, PristineInv, Reduced, Settled, Overridden
<1>9. ASSUME NEW n \in Names, Override(n) PROVE IInv'
  <2>1. /\ phase = "override" /\ phase' = "override" /\ n \in todo
        /\ todo' = todo \ {n}
        /\ text' = [text EXCEPT ![n] = n]
        /\ UNCHANGED <<canon, skipped, divergences>>
    BY <1>9 DEF Override, Write
  <2>2. n \in Overrides BY <2>1, <1>t DEF TypeOK
  <2>3. Overridden' = Overridden \cup {n} BY <2>1, <2>2 DEF Overridden
  <2>4. DiskInv' BY <2>1, <2>3, <1>t DEF IInv, DiskInv, Reduced, Settled, TypeOK
  <2>5. Left = {} /\ Left' = {} BY <2>1 DEF Left
  <2>6. Seen = Jobs /\ Seen' = Jobs BY <2>5 DEF Seen
  <2>7. OrderInv' BY <2>5 DEF OrderInv
  <2>8. SkipInv' BY <2>1, <2>6 DEF IInv, SkipInv, Reduced
  <2>9. CanonInv' BY <2>1, <2>6 DEF IInv, CanonInv, Reduced
  <2>10. DivergenceInv' BY <2>1, <2>6 DEF IInv, DivergenceInv, Reduced
  <2> QED BY <2>1, <2>4, <2>7, <2>8, <2>9, <2>10, <1>t
          DEF IInv, FreshInv, PristineInv, Settled
<1>10. CASE OverrideDone
  <2>1. PristineInv'
    BY <1>10, <1>t, PipelineAssumption DEF OverrideDone, PristineInv, TypeOK
  <2> QED BY <2>1, <1>10, <1>t, StageMovesOn
          DEF OverrideDone, Reduced, Settled, Overridden
<1>11. ASSUME NEW n \in Names, Privatize(n) PROVE IInv'
  <2>1. /\ phase = "privatize" /\ phase' = "privatize" /\ todo' = todo \ {n}
        /\ private' = IF text[n] \in Mentions THEN private \cup {n} ELSE private
        /\ UNCHANGED <<text, canon, skipped, divergences>>
    BY <1>11 DEF Privatize
  <2>2. PristineInv' BY <2>1 DEF IInv, PristineInv, Settled
  <2>3. Left = {} /\ Left' = {} BY <2>1 DEF Left
  <2>4. Seen = Jobs /\ Seen' = Jobs BY <2>3 DEF Seen
  <2>5. OrderInv' BY <2>3 DEF OrderInv
  <2>6. SkipInv' BY <2>1, <2>4 DEF IInv, SkipInv, Reduced
  <2>7. CanonInv' BY <2>1, <2>4 DEF IInv, CanonInv, Reduced
  <2>8. DivergenceInv' BY <2>1, <2>4 DEF IInv, DivergenceInv, Reduced
  <2>9. DiskInv' BY <2>1 DEF IInv, DiskInv, Reduced, Settled, Overridden
  <2> QED BY <2>1, <2>2, <2>5, <2>6, <2>7, <2>8, <2>9, <1>t
          DEF IInv, FreshInv
<1>12. CASE PrivatizeDone
  <2>1. PristineInv' BY <1>12 DEF PrivatizeDone, IInv, PristineInv, Settled
  <2> QED BY <2>1, <1>12, <1>t, StageMovesOn
          DEF PrivatizeDone, Reduced, Settled, Overridden
<1>13. CASE Report
  BY <1>13, <1>t, StageMovesOn
     DEF Report, IInv, PristineInv, Reduced, Settled, Overridden
<1>14. CASE ReportDone
  BY <1>14, <1>t, StageMovesOn
     DEF ReportDone, IInv, PristineInv, Reduced, Settled, Overridden
<1>15. CASE Verify
  BY <1>15, <1>t, StageMovesOn
     DEF Verify, IInv, PristineInv, Reduced, Settled, Overridden
<1>16. CASE Build
  BY <1>16, <1>t, StageMovesOn
     DEF Build, IInv, PristineInv, Reduced, Settled, Overridden
<1>17. CASE Kill
  BY <1>17, <1>t, StageOutside DEF Kill, FreshInv, Reduced, Settled
<1>18. CASE UNCHANGED vars
  BY <1>18, <1>t DEF vars, IInv, FreshInv, OrderInv, SkipInv, CanonInv, DivergenceInv,
     DiskInv, PristineInv, Left, Seen, Overridden
<1> QED BY <1>1, <1>2, <1>3, <1>4, <1>5, <1>6, <1>7, <1>8, <1>9, <1>10, <1>11,
           <1>12, <1>13, <1>14, <1>15, <1>16, <1>17, <1>18 DEF Next

THEOREM IInvAlways == Spec => []IInv
BY IInvInit, IInvStep, PTL DEF Spec
-----------------------------------------------------------------------------
(* What the invariant says of the run's results.                           *)

\* After the loop every migrated source has been seen.
LEMMA SettledResults ==
  ASSUME IInv, phase \in Settled
  PROVE  /\ Seen = Jobs
         /\ \A n \in Names : FirstWriter(canon[n], n, Jobs \ skipped)
         /\ divergences = {s \in Jobs \ skipped : Class[s] # Class[canon[Out[s]]]}
<1>1. Seen = Jobs BY DEF Seen, Left, Settled
<1> QED BY <1>1 DEF IInv, CanonInv, DivergenceInv, Reduced

LEMMA SurvivorsAreFor ==
  ASSUME NEW n \in Names
  PROVE  Survivors(n) = For(n, Jobs \ skipped)
BY DEF Survivors, For

\* A target with a survivor has a canonical source, and the disk holds it.
LEMMA DiskHoldsCanon ==
  ASSUME IInv, phase \in Settled \ {"override"}, NEW n \in Names \ Overrides,
         Survivors(n) # {}
  PROVE  /\ IsFirst(canon[n], Survivors(n))
         /\ canon[n] \in Sources
         /\ text[n] = canon[n]
<1>1. IsFirst(canon[n], Survivors(n))
  BY SettledResults, SurvivorsAreFor DEF FirstWriter
<1>2. canon[n] \in Sources BY <1>1 DEF IsFirst, Survivors
<1>3. canon[n] # None BY <1>2, PipelineAssumption
<1>4. Overridden = Overrides BY DEF Overridden, Settled
<1>5. text[n] = canon[n] BY <1>3, <1>4 DEF IInv, DiskInv, Reduced
<1> QED BY <1>1, <1>2, <1>5

LEMMA DiskDetermined == IInv => DiskIsDetermined
<1> SUFFICES ASSUME IInv, phase \in Settled \ {"override"}, NEW n \in Names
             PROVE  IF n \in Overrides THEN text[n] = n
                    ELSE Survivors(n) # {} => IsFirst(text[n], Survivors(n))
  BY DEF DiskIsDetermined
<1>1. CASE n \in Overrides
  <2>1. Overridden = Overrides BY DEF Overridden, Settled
  <2> QED BY <1>1, <2>1 DEF IInv, DiskInv, Reduced
<1>2. CASE n \notin Overrides
  BY <1>2, DiskHoldsCanon
<1> QED BY <1>1, <1>2

LEMMA NothingSilent == IInv => NoSilentDisagreement
<1> SUFFICES ASSUME IInv, phase \in Settled \ {"override"},
                    NEW s \in Jobs \ skipped, Out[s] \notin Overrides
             PROVE  /\ text[Out[s]] \in Sources
                    /\ s \in divergences <=> Class[s] # Class[text[Out[s]]]
  BY DEF NoSilentDisagreement
<1>1. Out[s] \in Names \ Overrides BY PipelineAssumption
<1>2. s \in Survivors(Out[s]) BY DEF Survivors
<1>3. text[Out[s]] = canon[Out[s]] /\ canon[Out[s]] \in Sources
  BY <1>1, <1>2, DiskHoldsCanon
<1>4. s \in divergences <=> Class[s] # Class[canon[Out[s]]]
  BY SettledResults
<1> QED BY <1>3, <1>4

LEMMA NothingPristine == IInv => NoPristineNameLeft
BY DEF IInv, PristineInv, NoPristineNameLeft, Settled

\* What a target holds after a run is the text of its first surviving source,
\* or the override: for any recipe, pool, completion order, deaths and kills.
THEOREM DiskIsAlwaysDetermined == Spec => []DiskIsDetermined
BY IInvAlways, DiskDetermined, PTL

\* A source is recorded as divergent exactly when it disagrees with the disk.
THEOREM NeverSilent == Spec => []NoSilentDisagreement
BY IInvAlways, NothingSilent, PTL

\* No file the pass should rewrite keeps a pristine name after it.
THEOREM NeverPristine == Spec => []NoPristineNameLeft
BY IInvAlways, NothingPristine, PTL
-----------------------------------------------------------------------------
(* The migration implements Convergence.                                   *)

\* The abstract order is the concrete one.
LEMMA SameFirst ==
  ASSUME NEW c, NEW S
  PROVE  Abstract!IsFirst(c, S) <=> IsFirst(c, S)
BY DEF Abstract!IsFirst, IsFirst, Abstract!Before, Before, Abstract!Rank, Rank

HasSettled == phase \in Settled

\* A run that has not settled shows the abstract initial state.
LEMMA UnsettledIsPending == ~HasSettled => Abstract!Pending
BY DEF HasSettled, Abstract!Pending

\* The results Convergence asks for.
Delivered ==
  LET L == skipped \cap Jobs
  IN  /\ canon \in [Names -> Sources \cup {None}]
      /\ \A n \in Names : Abstract!IsCanonical(canon[n], n, L)
      /\ divergences = Abstract!Disagreeing(canon, L)

\* A settled run has them.
LEMMA SettledIsDelivered == IInv /\ HasSettled => Delivered
<1> SUFFICES ASSUME IInv, phase \in Settled PROVE Delivered
  BY DEF HasSettled
<1>1. Jobs \ skipped = Jobs \ (skipped \cap Jobs) OBVIOUS
<1>2. ASSUME NEW n \in Names
      PROVE  Abstract!IsCanonical(canon[n], n, skipped \cap Jobs)
  <2>1. FirstWriter(canon[n], n, Jobs \ skipped) BY SettledResults
  <2>2. Abstract!Survivors(n, skipped \cap Jobs) = For(n, Jobs \ skipped)
    BY <1>1 DEF Abstract!Survivors, For
  <2> HIDE DEF Jobs
  <2> QED BY <2>1, <2>2, SameFirst DEF FirstWriter, Abstract!IsCanonical
<1>3. divergences = Abstract!Disagreeing(canon, skipped \cap Jobs)
  BY <1>1, SettledResults DEF Abstract!Disagreeing
<1> QED BY <1>2, <1>3 DEF IInv, TypeOK, Delivered

\* Every step of the run is an abstract step or changes nothing abstract.
LEMMA StepImplements ==
  ASSUME IInv, IInv', [Next]_vars
  PROVE  [Abstract!Next]_Abstract!vars
<1>1. CASE ~HasSettled /\ ~HasSettled'
  BY <1>1 DEF HasSettled, Abstract!vars
<1>2. CASE ~HasSettled /\ HasSettled'
  <2>1. Delivered' BY <1>2, SettledIsDelivered, PTL
  <2> QED BY <1>2, <2>1 DEF HasSettled, Delivered, Abstract!Next, Abstract!Settle
<1>3. CASE HasSettled /\ ~HasSettled'
  <2>1. Abstract!Pending' BY <1>3, UnsettledIsPending, PTL
  <2> QED BY <1>3, <2>1 DEF HasSettled, Abstract!Next, Abstract!Again
<1>4. CASE HasSettled /\ HasSettled'
  <2>1. UNCHANGED <<canon, skipped, divergences>>
    BY <1>4 DEF HasSettled, Next, vars, listVars, Settled, Start, Copy, CopyDone, PoolStep,
       PoolFails, MigrateReturns, Reduce, ReduceDone, Override, OverrideDone,
       Privatize, PrivatizeDone, Report, ReportDone, Verify, Build, Kill
  <2> QED BY <1>4, <2>1 DEF HasSettled, Abstract!vars
<1> QED BY <1>1, <1>2, <1>3, <1>4

\* The detailed run implements the one-step promise.
THEOREM Refinement == Spec => KeepsThePromise
<1>1. Init => Abstract!Pending
  BY UnsettledIsPending DEF Init, HasSettled, Settled
<1> QED BY <1>1, IInvAlways, StepImplements, PTL DEF Spec, KeepsThePromise, Abstract!Spec
-----------------------------------------------------------------------------
(* The divergence report of the second round.                              *)

Reporting == {"report", "verify", "build", "done"}

\* The report stands until the next run: the pairs that came through.
ReportInv == phase \in Reporting =>
  report = {pair \in Pairs : /\ result[pair[1]] = "text"
                             /\ result[pair[2]] = "text"
                             /\ Reported(pair)}

LEMMA ReportInit == Init => ReportInv
BY DEF Init, ReportInv, Reporting

LEMMA ReportStep == ReportInv /\ [Next]_vars => ReportInv'
<1> SUFFICES ASSUME ReportInv, [Next]_vars PROVE ReportInv'
  OBVIOUS
<1>1. CASE Report
  BY <1>1 DEF Report, ReportInv, poolVars
<1>2. CASE ReportDone \/ Verify \/ Build \/ UNCHANGED vars
  BY <1>2 DEF ReportDone, Verify, Build, vars, listVars, poolVars, ReportInv, Reporting
<1>3. CASE phase' \notin Reporting
  BY <1>3 DEF ReportInv
<1> QED
  BY <1>1, <1>2, <1>3
     DEF Next, Reporting, Start, Copy, CopyDone, PoolStep, PoolFails, MigrateReturns,
         Reduce, ReduceDone, Override, OverrideDone, Privatize, PrivatizeDone, Kill

LEMMA OneFirst ==
  ASSUME NEW S \in SUBSET Sources, NEW a, NEW b, IsFirst(a, S), IsFirst(b, S)
  PROVE  a = b
BY BeforeIsStrict DEF IsFirst

\* A family that nobody was lost from has its canonical source first.
LEMMA FamilyFirst ==
  ASSUME IInv, phase \in Settled, NEW n \in Names, NEW Family,
         Family = {s \in Jobs : Out[s] = n}, Family \cap skipped = {}
  PROVE  /\ Family # {} => IsFirst(canon[n], Family)
         /\ \A s \in Family : s \in divergences <=> Class[s] # Class[canon[n]]
<1>1. For(n, Jobs \ skipped) = Family
  BY DEF For
<1> QED BY <1>1, SettledResults DEF FirstWriter

LEMMA Agree == IInv /\ ReportInv => ReportsAgree
<1> SUFFICES ASSUME IInv, ReportInv, phase \in Reporting, NEW n \in Names,
                    {s \in Jobs : Out[s] = n} \subseteq InSourceDir \ skipped,
                    \A s \in {s \in Jobs : Out[s] = n} \cap AllPaths : result[s] = "text"
             PROVE  {pair \in report : Out[pair[2]] = n} =
                      {pair \in (divergences \cap {s \in Jobs : Out[s] = n}) \X {canon[n]} :
                         Reported(pair)}
  BY DEF ReportsAgree, Reporting
<1> DEFINE Family == {s \in Jobs : Out[s] = n}
<1>1. /\ Family \subseteq Grouped /\ Grouped \subseteq Jobs /\ Jobs \subseteq Sources
      /\ phase \in Settled
  BY DEF Grouped, Jobs, Reporting, Settled
<1>2. /\ Family # {} => IsFirst(canon[n], Family)
      /\ \A s \in Family : s \in divergences <=> Class[s] # Class[canon[n]]
  BY <1>1, FamilyFirst
<1>3. \A x \in Grouped : Out[x] = n => {y \in Grouped : Out[y] = Out[x]} = Family
  BY <1>1
<1>4. ASSUME NEW pair \in report, Out[pair[2]] = n
      PROVE  /\ pair \in (divergences \cap Family) \X {canon[n]}
             /\ Reported(pair)
  <2>1. PICK a \in Grouped, b \in Grouped :
          /\ pair = <<a, b>> /\ Reported(pair)
          /\ IsFirst(b, {x \in Grouped : Out[x] = Out[a]})
    <3>1. pair \in Pairs /\ Reported(pair)
      BY <1>4 DEF ReportInv
    <3>2. /\ pair \in Grouped \X Grouped
          /\ IsFirst(pair[2], {x \in Grouped : Out[x] = Out[pair[1]]})
      BY <3>1 DEF Pairs
    <3>3. pair = <<pair[1], pair[2]>> /\ pair[1] \in Grouped /\ pair[2] \in Grouped
      BY <3>2
    <3> QED BY <3>1, <3>2, <3>3
  <2>2. Out[a] = n /\ a \in Family
    BY <2>1, <1>1, <1>4 DEF IsFirst
  <2>3. IsFirst(b, Family)
    BY <2>1, <2>2, <1>3
  <2>4. b = canon[n]
    BY <2>2, <2>3, <1>1, <1>2, OneFirst
  <2>5. Class[a] # Class[b]
    BY <2>1 DEF Reported
  <2> QED BY <2>1, <2>2, <2>4, <2>5, <1>2
<1>5. ASSUME NEW a \in divergences \cap Family, Reported(<<a, canon[n]>>)
      PROVE  /\ <<a, canon[n]>> \in report
             /\ Out[canon[n]] = n
  <2> DEFINE b == canon[n]
  <2>1. IsFirst(b, Family) /\ Class[a] # Class[b]
    BY <1>2, <1>5
  <2>2. b \in Family /\ a # b /\ a \in Family
    BY <2>1 DEF IsFirst
  <2>3. <<a, b>> \in Pairs
    <3>1. IsFirst(b, {x \in Grouped : Out[x] = Out[a]})
      BY <2>1, <2>2, <1>1, <1>3
    <3> QED BY <3>1, <2>2, <1>1 DEF Pairs
  <2>4. a \in AllPaths /\ b \in AllPaths
    BY <2>2, <1>1 DEF AllPaths
  <2>5. result[a] = "text" /\ result[b] = "text"
    BY <2>2, <2>4
  <2> QED BY <2>2, <2>3, <2>5, <1>5 DEF ReportInv
<1> QED BY <1>4, <1>5

\* For a family that was lost in neither round the report holds exactly the
\* recorded divergences that are neither drift nor expected.
THEOREM RoundsAgree == Spec => []ReportsAgree
BY IInvAlways, ReportInit, ReportStep, Agree, PTL DEF Spec
=============================================================================
