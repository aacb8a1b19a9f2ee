---------------------------- MODULE Convergence -----------------------------
(* What a migration run promises, whatever its scheduling: some sources    *)
(* are lost, every target with a survivor gets the text of its first       *)
(* survivor in canonical order, and exactly the survivors whose normalized *)
(* text differs from that one are recorded as divergences.                 *)
EXTENDS CanonicalOrder

CONSTANTS
  Jobs,     \* the sources that go through migration
  Targets,  \* output file names
  Out,      \* target_filename: the output file of each source
  Class,    \* the normalized text of each source, all that is compared
  None      \* no source

VARIABLES
  outcome,  \* "pending" until the migration has written its files
  lost,     \* sources that yielded no text
  canon,    \* the source each target was written from
  diverged  \* sources recorded as divergences

vars == <<outcome, lost, canon, diverged>>

Survivors(n, L) == {s \in Jobs \ L : Out[s] = n}

\* c is the text a target must hold when the sources in L are lost.
IsCanonical(c, n, L) == \/ c = None /\ Survivors(n, L) = {}
                        \/ IsFirst(c, Survivors(n, L))

Disagreeing(c, L) == {s \in Jobs \ L : Class[s] # Class[c[Out[s]]]}

Pending == /\ outcome = "pending"
           /\ lost = {}
           /\ canon = [n \in Targets |-> None]
           /\ diverged = {}

\* The whole migration in one step.
Settle == /\ outcome = "pending"
          /\ outcome' = "settled"
          /\ lost' \in SUBSET Jobs
          /\ canon' \in [Targets -> Sources \cup {None}]
          /\ \A n \in Targets : IsCanonical(canon'[n], n, lost')
          /\ diverged' = Disagreeing(canon', lost')

\* The user runs the migrator again.
Again == /\ outcome = "settled"
         /\ Pending'

Next == Settle \/ Again

Spec == Pending /\ [][Next]_vars
=============================================================================
