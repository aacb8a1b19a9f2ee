--------------------------- MODULE StagingProofs ----------------------------
(* What a staging tree is worth after any sequence of runs, stops, edits   *)
(* and deletions, for any set of libraries: the lists are true of the      *)
(* disk, and the gate audits what was privatized.                          *)
EXTENDS Staging, TLAPS

Busy == {"load", "write", "privatize", "reload", "list", "fill"}

\* What the run has staged is on disk and open; the library at hand is not
\* one of them.
LocalInv ==
  /\ pc = "idle" => run.staged = {} /\ run.private = {}
  /\ run.staged \subseteq listing /\ run.private \subseteq run.staged
  /\ run.staged \cap cut = {} /\ cut \subseteq open
  /\ pc # "abi" => run.staged \subseteq open
  /\ run.todo \cap run.staged = {}
  /\ pc \in Busy => run.cur \in open \ (run.staged \cup run.todo)
  /\ pc = "fill" => run.cur \in listing
  /\ pc \in {"libs", "flags", "gate", "copy"} =>
       /\ run.staged \subseteq run.merged.libs
       /\ run.merged.private \cap run.staged = run.private
  /\ pc = "libs" => config = NoConfig
  /\ pc = "flags" => config = [libs |-> run.merged.libs, private |-> {}]
  /\ pc \in {"gate", "copy"} => config = run.merged

\* The library at hand: unless its recipe was edited under the run, what was
\* loaded, what the sources went through and what the recipe says agree.
CurInv ==
  run.cur \notin raced =>
    /\ pc = "write" => (run.cur \in optin <=> run.loaded > 0)
    /\ pc = "privatize" => run.cur \in optin
    /\ pc = "reload" => (run.cur \in optin <=> src[run.cur] > 0)
    /\ pc \in {"list", "fill"} => (run.loaded > 0 <=> src[run.cur] > 0)

\* The flags the run has collected are true of the sources.
FlagInv ==
  /\ pc = "privatize" => run.loaded > 0
  /\ \A l \in run.staged \ raced : l \in run.private <=> src[l] > 0

\* What the properties say of the lists in the file holds of those the run is
\* about to write.
MergedInv ==
  /\ pc \in {"libs", "flags"} => /\ run.merged.libs \ removed \subseteq listing
                                /\ run.merged.libs \cap cut \subseteq open
  /\ pc = "libs" => listing \subseteq run.merged.libs \cup open \cup dropped \cup lost
  /\ pc \in {"libs", "flags"} =>
       \A l \in run.merged.libs \ (open \cup removed \cup raced \cup unaudited) :
          l \in run.merged.private <=> src[l] > 0
  /\ pc \in {"libs", "flags"} /\ ~torn =>
       \A l \in run.merged.private \ open : src[l] <= gate

IInv == /\ TypeOK /\ LocalInv /\ CurInv /\ FlagInv /\ MergedInv
        /\ ListedAreStaged /\ NothingFallsOffTheList
        /\ FlagTellsThePass /\ GateIsNotOlder /\ CompleteMeansCleanHeaders

\* Splits a step into the actions.
LEMMA Steps ==
  ASSUME [Next]_vars
  PROVE  \/ \E S \in SUBSET Libs : Start(S)
         \/ \E l \in Libs : Enter(l)
         \/ Load
         \/ \E bad \in BOOLEAN : Write(bad)
         \/ Privatize
         \/ Reload
         \/ OpenListing
         \/ List
         \/ WriteConfig
         \/ WriteLibs
         \/ WriteFlags
         \/ CopyGate
         \/ WriteGate
         \/ CheckABI
         \/ Stop
         \/ StageBaseline
         \/ EditNames
         \/ \E l \in Libs : Remove(l)
         \/ \E l \in Libs : EditRecipe(l)
         \/ UNCHANGED vars
BY DEF Next
-----------------------------------------------------------------------------
LEMMA TypeStep == TypeOK /\ [Next]_vars => TypeOK'
<1> SUFFICES ASSUME TypeOK, [Next]_vars PROVE TypeOK'
  OBVIOUS
<1> USE StagingAssumption DEF TypeOK, disk, history, ghost
<1>1. CASE \E S \in SUBSET Libs : Start(S) BY <1>1 DEF Start, NoRun, NoConfig
<1>2. ASSUME NEW l \in Libs, Enter(l) PROVE TypeOK'
  <2>1. run' \in [todo : SUBSET Libs, cur : Libs \cup {None}, loaded : 0..names,
                  staged : SUBSET Libs, private : SUBSET Libs,
                  merged : [libs : SUBSET Libs, private : SUBSET Libs]]
    BY <1>2 DEF Enter
  <2>2. dirs' \subseteq Libs /\ run'.cur \in dirs'
    BY <1>2 DEF Enter
  <2> QED BY <1>2, <2>1, <2>2 DEF Enter
<1>3. CASE Load BY <1>3 DEF Load, Loaded
<1>4. CASE \E bad \in BOOLEAN : Write(bad) BY <1>4 DEF Write
<1>5. CASE Privatize BY <1>5 DEF Privatize
<1>6. CASE Reload BY <1>6 DEF Reload, Loaded
<1>7. CASE List
  <2>1. run.cur \in Libs /\ run.cur \in dirs BY <1>7 DEF List
  <2>2. run' \in [todo : SUBSET Libs, cur : Libs \cup {None}, loaded : 0..names,
                  staged : SUBSET Libs, private : SUBSET Libs,
                  merged : [libs : SUBSET Libs, private : SUBSET Libs]]
    <3>1. CASE run.loaded > 0 BY <1>7, <2>1, <3>1 DEF List
    <3>2. CASE ~(run.loaded > 0) BY <1>7, <2>1, <3>2 DEF List
    <3> QED BY <3>1, <3>2
  <2>3. /\ cut' \subseteq listing' /\ pc' = "next"
        /\ UNCHANGED <<names, optin, dirs, src, listing, corrupt, config, gate, outcome,
                       ghost, count>>
    BY <1>7, <2>1 DEF List
  <2> QED BY <2>2, <2>3
<1>8. CASE WriteConfig
  <2> DEFINE L == (config.libs \cap dirs) \cup run.staged
             P == ((config.private \cap dirs) \ run.staged) \cup run.private
  <2>1. L \in SUBSET Libs /\ P \in SUBSET Libs OBVIOUS
  <2>2. /\ run' = [run EXCEPT !.merged = [libs |-> L, private |-> P]]
        /\ config' = NoConfig /\ pc' = "libs"
        /\ UNCHANGED <<names, optin, disk, gate, outcome, ghost, count>>
    BY <1>8 DEF WriteConfig, PutConfig
  <2> HIDE DEF L, P
  <2>3. run' \in [todo : SUBSET Libs, cur : Libs \cup {None}, loaded : 0..names,
                  staged : SUBSET Libs, private : SUBSET Libs,
                  merged : [libs : SUBSET Libs, private : SUBSET Libs]]
    BY <2>1, <2>2
  <2> QED BY <2>2, <2>3 DEF NoConfig
<1>9. CASE CopyGate
  <2>1. CASE OpenGate BY <2>1 DEF OpenGate
  <2>2. CASE SkipGate BY <2>2 DEF SkipGate, Close
  <2> QED BY <1>9, <2>1, <2>2 DEF CopyGate
<1>10. CASE CheckABI BY <1>10 DEF CheckABI, Finish, NoRun, NoConfig
<1>11. CASE Stop
  <2>1. run' \in [todo : SUBSET Libs, cur : Libs \cup {None}, loaded : 0..names,
                  staged : SUBSET Libs, private : SUBSET Libs,
                  merged : [libs : SUBSET Libs, private : SUBSET Libs]]
    BY <1>11 DEF Stop, NoRun, NoConfig
  <2>2. lost' \subseteq Libs /\ unaudited' \subseteq Libs
    BY <1>11 DEF Stop
  <2> QED BY <1>11, <2>1, <2>2 DEF Stop
<1>12. CASE StageBaseline BY <1>12 DEF StageBaseline, NoConfig
<1>13. CASE EditNames BY <1>13 DEF EditNames, MayEdit
<1>14. ASSUME NEW l \in Libs, Remove(l) PROVE TypeOK'
  <2>1. src' \in [Libs -> 0..names] BY <1>14 DEF Remove
  <2>2. /\ dirs' = dirs \ {l} /\ listing' = listing \ {l} /\ corrupt' = corrupt \ {l}
        /\ cut' = cut \ {l} /\ removed' = removed \cup {l}
    BY <1>14 DEF Remove
  <2>3. UNCHANGED <<names, optin, config, gate, pc, run, outcome, open, dropped,
                    raced, history, count>> /\ pc = "idle"
    BY <1>14 DEF Remove
  <2> QED BY <2>1, <2>2, <2>3
<1>15. CASE \E l \in Libs : EditRecipe(l) BY <1>15 DEF EditRecipe, MayEdit
<1>16. CASE UNCHANGED vars BY <1>16 DEF vars
<1>17. CASE OpenListing BY <1>17 DEF OpenListing, NoConfig
<1>18. CASE WriteLibs BY <1>18 DEF WriteLibs, NoConfig
<1>19. CASE WriteFlags BY <1>19 DEF WriteFlags, NoConfig
<1>20. CASE WriteGate
  <2>1. gate' \in 0..names' BY <1>20 DEF WriteGate
  <2>2. /\ pc' = "abi" /\ torn' = FALSE
        /\ open' \subseteq Libs /\ dropped' \subseteq Libs
        /\ lost' \subseteq Libs /\ unaudited' \subseteq Libs
        /\ UNCHANGED <<names, optin, disk, config, run, outcome, removed, raced, count>>
    BY <1>20 DEF WriteGate, Close
  <2> QED BY <2>1, <2>2
<1> QED BY Steps, <1>1, <1>2, <1>3, <1>4, <1>5, <1>6, <1>7, <1>8, <1>9, <1>10,
           <1>11, <1>12, <1>13, <1>14, <1>15, <1>16, <1>17, <1>18,
           <1>19, <1>20

LEMMA InitTyped == Init => TypeOK
<1> SUFFICES ASSUME Init PROVE TypeOK
  OBVIOUS
<1>1. NoConfig \in [libs : SUBSET Libs, private : SUBSET Libs] BY DEF NoConfig
<1>2. NoRun \in [todo : SUBSET Libs, cur : Libs \cup {None}, loaded : 0..names,
                 staged : SUBSET Libs, private : SUBSET Libs,
                 merged : [libs : SUBSET Libs, private : SUBSET Libs]]
  BY <1>1 DEF Init, NoRun
<1>3. /\ names = 1 /\ gate = 0 /\ names \in Nat \ {0} /\ gate \in 0..names
      /\ src \in [Libs -> 0..names]
  BY DEF Init
<1> QED BY <1>1, <1>2, <1>3, StagingAssumption DEF Init, TypeOK

\* Every variable of a staging keeps its type.
THEOREM TypeCorrect == Spec => []TypeOK
BY InitTyped, TypeStep, PTL DEF Spec
-----------------------------------------------------------------------------
(* The invariants, one lemma each; a step that leaves what an invariant    *)
(* speaks of alone is under the last CASE.                                 *)

LEMMA LocalStep == IInv /\ [Next]_vars => LocalInv'
<1> SUFFICES ASSUME IInv, [Next]_vars PROVE LocalInv'
  OBVIOUS
<1> USE StagingAssumption DEF LocalInv, IInv, TypeOK, disk, history, ghost, Busy
<1>1. CASE \E S \in SUBSET Libs : Start(S) BY <1>1 DEF Start, NoRun, NoConfig
<1>2. ASSUME NEW l \in Libs, Enter(l) PROVE LocalInv' BY <1>2 DEF Enter
<1>3. CASE Load BY <1>3 DEF Load
<1>4. CASE \E bad \in BOOLEAN : Write(bad) BY <1>4 DEF Write
<1>5. CASE Privatize BY <1>5 DEF Privatize
<1>6. CASE Reload BY <1>6 DEF Reload
<1>7. CASE List BY <1>7 DEF List
<1>8. CASE WriteConfig BY <1>8 DEF WriteConfig, PutConfig, NoConfig
<1>9. CASE CopyGate BY <1>9 DEF CopyGate, OpenGate, SkipGate, Close
<1>10. CASE CheckABI BY <1>10 DEF CheckABI, Finish, NoRun, NoConfig
<1>11. CASE Stop BY <1>11 DEF Stop, NoRun, NoConfig
<1>12. CASE StageBaseline BY <1>12 DEF StageBaseline, NoConfig
<1>13. CASE EditNames BY <1>13 DEF EditNames
<1>14. CASE \E l \in Libs : Remove(l) BY <1>14 DEF Remove
<1>15. CASE \E l \in Libs : EditRecipe(l) BY <1>15 DEF EditRecipe
<1>16. CASE UNCHANGED vars BY <1>16 DEF vars
<1>17. CASE OpenListing BY <1>17 DEF OpenListing, NoConfig
<1>18. CASE WriteLibs BY <1>18 DEF WriteLibs, NoConfig
<1>19. CASE WriteFlags BY <1>19 DEF WriteFlags, NoConfig
<1>20. CASE WriteGate BY <1>20 DEF WriteGate, Close, NoConfig
<1> QED BY Steps, <1>1, <1>2, <1>3, <1>4, <1>5, <1>6, <1>7, <1>8, <1>9, <1>10,
           <1>11, <1>12, <1>13, <1>14, <1>15, <1>16, <1>17, <1>18,
           <1>19, <1>20

LEMMA CurStep == IInv /\ [Next]_vars => CurInv'
<1> SUFFICES ASSUME IInv, [Next]_vars PROVE CurInv'
  OBVIOUS
<1> USE StagingAssumption DEF CurInv, FlagInv, IInv, TypeOK, disk, history, ghost
<1>1. CASE \E S \in SUBSET Libs : Start(S) BY <1>1 DEF Start
<1>2. ASSUME NEW l \in Libs, Enter(l) PROVE CurInv' BY <1>2 DEF Enter
<1>3. CASE Load BY <1>3 DEF Load, Loaded
<1>4. CASE \E bad \in BOOLEAN : Write(bad) BY <1>4 DEF Write
<1>5. CASE Privatize BY <1>5 DEF Privatize
<1>6. CASE Reload BY <1>6 DEF Reload, Loaded
<1>7. CASE List BY <1>7 DEF List
<1>8. CASE WriteConfig BY <1>8 DEF WriteConfig, PutConfig, NoConfig
<1>9. CASE CopyGate BY <1>9 DEF CopyGate, OpenGate, SkipGate, Close
<1>10. CASE CheckABI BY <1>10 DEF CheckABI, Finish
<1>11. CASE Stop BY <1>11 DEF Stop
<1>12. CASE StageBaseline BY <1>12 DEF StageBaseline, NoConfig
<1>13. CASE EditNames BY <1>13 DEF EditNames
<1>14. CASE \E l \in Libs : Remove(l) BY <1>14 DEF Remove
<1>15. ASSUME NEW l \in Libs, EditRecipe(l) PROVE CurInv' BY <1>15 DEF EditRecipe
<1>16. CASE UNCHANGED vars BY <1>16 DEF vars
<1>17. CASE OpenListing BY <1>17 DEF OpenListing
<1>18. CASE WriteLibs BY <1>18 DEF WriteLibs
<1>19. CASE WriteFlags BY <1>19 DEF WriteFlags
<1>20. CASE WriteGate BY <1>20 DEF WriteGate, Close
<1> QED BY Steps, <1>1, <1>2, <1>3, <1>4, <1>5, <1>6, <1>7, <1>8, <1>9, <1>10,
           <1>11, <1>12, <1>13, <1>14, <1>15, <1>16, <1>17, <1>18,
           <1>19, <1>20

LEMMA FlagStep == IInv /\ [Next]_vars => FlagInv'
<1> SUFFICES ASSUME IInv, [Next]_vars PROVE FlagInv'
  OBVIOUS
<1> USE StagingAssumption DEF FlagInv, IInv, TypeOK, disk, history, ghost
<1>1. CASE \E S \in SUBSET Libs : Start(S) BY <1>1 DEF Start, NoRun, NoConfig
<1>2. ASSUME NEW l \in Libs, Enter(l) PROVE FlagInv' BY <1>2 DEF Enter
<1>3. CASE Load BY <1>3 DEF Load, LocalInv, Busy
<1>4. CASE \E bad \in BOOLEAN : Write(bad) BY <1>4 DEF Write, LocalInv, Busy
<1>5. CASE Privatize BY <1>5 DEF Privatize, LocalInv, Busy
<1>6. CASE Reload BY <1>6 DEF Reload
<1>7. CASE List BY <1>7 DEF List, CurInv, LocalInv, Busy
<1>8. CASE WriteConfig BY <1>8 DEF WriteConfig, PutConfig, NoConfig
<1>9. CASE CopyGate BY <1>9 DEF CopyGate, OpenGate, SkipGate, Close
<1>10. CASE CheckABI BY <1>10 DEF CheckABI, Finish, NoRun, NoConfig
<1>11. CASE Stop BY <1>11 DEF Stop, NoRun, NoConfig
<1>12. CASE StageBaseline BY <1>12 DEF StageBaseline, NoConfig
<1>13. CASE EditNames BY <1>13 DEF EditNames
<1>14. CASE \E l \in Libs : Remove(l) BY <1>14 DEF Remove, LocalInv
<1>15. CASE \E l \in Libs : EditRecipe(l) BY <1>15 DEF EditRecipe
<1>16. CASE UNCHANGED vars BY <1>16 DEF vars
<1>17. CASE OpenListing BY <1>17 DEF OpenListing, LocalInv, Busy, NoConfig
<1>18. CASE WriteLibs BY <1>18 DEF WriteLibs, LocalInv, Busy, NoConfig
<1>19. CASE WriteFlags BY <1>19 DEF WriteFlags, LocalInv, Busy, NoConfig
<1>20. CASE WriteGate BY <1>20 DEF WriteGate, Close, LocalInv, Busy, NoConfig
<1> QED BY Steps, <1>1, <1>2, <1>3, <1>4, <1>5, <1>6, <1>7, <1>8, <1>9, <1>10,
           <1>11, <1>12, <1>13, <1>14, <1>15, <1>16, <1>17, <1>18,
           <1>19, <1>20

LEMMA MergedStep == IInv /\ [Next]_vars => MergedInv'
<1> SUFFICES ASSUME IInv, [Next]_vars PROVE MergedInv'
  OBVIOUS
<1> USE StagingAssumption DEF MergedInv, IInv, TypeOK, disk, history, ghost
<1>1. CASE \E S \in SUBSET Libs : Start(S) BY <1>1 DEF Start
<1>2. ASSUME NEW l \in Libs, Enter(l) PROVE MergedInv' BY <1>2 DEF Enter
<1>3. CASE Load BY <1>3 DEF Load
<1>4. CASE \E bad \in BOOLEAN : Write(bad) BY <1>4 DEF Write
<1>5. CASE Privatize BY <1>5 DEF Privatize
<1>6. CASE Reload BY <1>6 DEF Reload
<1>7. CASE List BY <1>7 DEF List
<1>8. CASE WriteConfig BY <1>8 
  DEF WriteConfig, PutConfig, NoConfig, LocalInv, FlagInv, Busy, ListedAreStaged,
      NothingFallsOffTheList, FlagTellsThePass, GateIsNotOlder
<1>9. CASE CopyGate BY <1>9 DEF CopyGate, OpenGate, SkipGate, Close
<1>10. CASE CheckABI BY <1>10 DEF CheckABI, Finish
<1>11. CASE Stop BY <1>11 DEF Stop
<1>12. CASE StageBaseline BY <1>12 DEF StageBaseline, NoConfig
<1>13. CASE EditNames BY <1>13 DEF EditNames
<1>14. ASSUME NEW l \in Libs, Remove(l) PROVE MergedInv' BY <1>14 DEF Remove
<1>15. ASSUME NEW l \in Libs, EditRecipe(l) PROVE MergedInv' BY <1>15 DEF EditRecipe
<1>16. CASE UNCHANGED vars BY <1>16 DEF vars
<1>17. CASE OpenListing BY <1>17 DEF OpenListing, LocalInv, Busy, NoConfig
<1>18. CASE WriteLibs BY <1>18 DEF WriteLibs, LocalInv, Busy, NoConfig
<1>19. CASE WriteFlags BY <1>19 DEF WriteFlags, LocalInv, Busy, NoConfig
<1>20. CASE WriteGate BY <1>20 DEF WriteGate, Close, LocalInv, Busy, NoConfig
<1> QED BY Steps, <1>1, <1>2, <1>3, <1>4, <1>5, <1>6, <1>7, <1>8, <1>9, <1>10,
           <1>11, <1>12, <1>13, <1>14, <1>15, <1>16, <1>17, <1>18,
           <1>19, <1>20

LEMMA ListedStep == IInv /\ [Next]_vars => ListedAreStaged'
<1> SUFFICES ASSUME IInv, [Next]_vars PROVE ListedAreStaged'
  OBVIOUS
<1> USE StagingAssumption DEF ListedAreStaged, IInv, TypeOK, disk, history, ghost
<1>1. CASE \E S \in SUBSET Libs : Start(S) BY <1>1 DEF Start
<1>2. ASSUME NEW l \in Libs, Enter(l) PROVE ListedAreStaged' BY <1>2 DEF Enter
<1>3. CASE Load BY <1>3 DEF Load
<1>4. CASE \E bad \in BOOLEAN : Write(bad) BY <1>4 DEF Write
<1>5. CASE Privatize BY <1>5 DEF Privatize
<1>6. CASE Reload BY <1>6 DEF Reload
<1>7. CASE List BY <1>7 DEF List
<1>8. CASE WriteConfig BY <1>8 DEF WriteConfig, PutConfig, NoConfig, LocalInv
<1>9. CASE CopyGate BY <1>9 DEF CopyGate, OpenGate, SkipGate, Close, LocalInv, Busy
<1>10. CASE CheckABI BY <1>10 DEF CheckABI, Finish
<1>11. CASE Stop BY <1>11 DEF Stop
<1>12. CASE StageBaseline BY <1>12 DEF StageBaseline, NoConfig
<1>13. CASE EditNames BY <1>13 DEF EditNames
<1>14. ASSUME NEW l \in Libs, Remove(l) PROVE ListedAreStaged' BY <1>14 DEF Remove
<1>15. ASSUME NEW l \in Libs, EditRecipe(l) PROVE ListedAreStaged' BY <1>15 DEF EditRecipe
<1>16. CASE UNCHANGED vars BY <1>16 DEF vars
<1>17. CASE OpenListing BY <1>17 DEF OpenListing, LocalInv, Busy, MergedInv, NoConfig
<1>18. CASE WriteLibs BY <1>18 DEF WriteLibs, LocalInv, Busy, MergedInv, NoConfig
<1>19. CASE WriteFlags BY <1>19 DEF WriteFlags, LocalInv, Busy, MergedInv, NoConfig
<1>20. CASE WriteGate BY <1>20 DEF WriteGate, Close, LocalInv, Busy, MergedInv, NoConfig
<1> QED BY Steps, <1>1, <1>2, <1>3, <1>4, <1>5, <1>6, <1>7, <1>8, <1>9, <1>10,
           <1>11, <1>12, <1>13, <1>14, <1>15, <1>16, <1>17, <1>18,
           <1>19, <1>20

LEMMA FallsStep == IInv /\ [Next]_vars => NothingFallsOffTheList'
<1> SUFFICES ASSUME IInv, [Next]_vars PROVE NothingFallsOffTheList'
  OBVIOUS
<1> USE StagingAssumption DEF NothingFallsOffTheList, IInv, TypeOK, disk, history, ghost
<1>1. CASE \E S \in SUBSET Libs : Start(S) BY <1>1 DEF Start
<1>2. ASSUME NEW l \in Libs, Enter(l) PROVE NothingFallsOffTheList' BY <1>2 DEF Enter
<1>3. CASE Load BY <1>3 DEF Load
<1>4. CASE \E bad \in BOOLEAN : Write(bad) BY <1>4 DEF Write
<1>5. CASE Privatize BY <1>5 DEF Privatize
<1>6. CASE Reload BY <1>6 DEF Reload
<1>7. CASE List BY <1>7 DEF List, LocalInv, Busy
<1>8. CASE WriteConfig BY <1>8 DEF WriteConfig, PutConfig, NoConfig
<1>9. CASE CopyGate BY <1>9 DEF CopyGate, OpenGate, SkipGate, Close, LocalInv, Busy
<1>10. CASE CheckABI BY <1>10 DEF CheckABI, Finish
<1>11. CASE Stop BY <1>11 DEF Stop, MergedInv, LocalInv, NoConfig, NoRun
<1>12. CASE StageBaseline BY <1>12 DEF StageBaseline, NoConfig
<1>13. CASE EditNames BY <1>13 DEF EditNames
<1>14. ASSUME NEW l \in Libs, Remove(l) PROVE NothingFallsOffTheList' BY <1>14 DEF Remove
<1>15. ASSUME NEW l \in Libs, EditRecipe(l) PROVE NothingFallsOffTheList' BY <1>15 DEF EditRecipe
<1>16. CASE UNCHANGED vars BY <1>16 DEF vars
<1>17. CASE OpenListing BY <1>17 DEF OpenListing, LocalInv, Busy, MergedInv, NoConfig
<1>18. CASE WriteLibs BY <1>18 DEF WriteLibs, LocalInv, Busy, MergedInv, NoConfig
<1>19. CASE WriteFlags BY <1>19 DEF WriteFlags, LocalInv, Busy, MergedInv, NoConfig
<1>20. CASE WriteGate BY <1>20 DEF WriteGate, Close, LocalInv, Busy, MergedInv, NoConfig
<1> QED BY Steps, <1>1, <1>2, <1>3, <1>4, <1>5, <1>6, <1>7, <1>8, <1>9, <1>10,
           <1>11, <1>12, <1>13, <1>14, <1>15, <1>16, <1>17, <1>18,
           <1>19, <1>20

LEMMA TellsStep == IInv /\ [Next]_vars => FlagTellsThePass'
<1> SUFFICES ASSUME IInv, [Next]_vars PROVE FlagTellsThePass'
  OBVIOUS
<1> USE StagingAssumption DEF FlagTellsThePass, IInv, TypeOK, disk, history, ghost
<1>1. CASE \E S \in SUBSET Libs : Start(S) BY <1>1 DEF Start
<1>2. ASSUME NEW l \in Libs, Enter(l) PROVE FlagTellsThePass' BY <1>2 DEF Enter
<1>3. CASE Load BY <1>3 DEF Load, LocalInv, Busy
<1>4. CASE \E bad \in BOOLEAN : Write(bad) BY <1>4 DEF Write, LocalInv, Busy
<1>5. CASE Privatize BY <1>5 DEF Privatize, LocalInv, Busy
<1>6. CASE Reload BY <1>6 DEF Reload
<1>7. CASE List BY <1>7 DEF List, LocalInv, Busy
<1>8. CASE WriteConfig BY <1>8 DEF WriteConfig, PutConfig, NoConfig, LocalInv, Busy
<1>9. CASE CopyGate BY <1>9 DEF CopyGate, OpenGate, SkipGate, Close, LocalInv, Busy, FlagInv
<1>10. CASE CheckABI BY <1>10 DEF CheckABI, Finish
<1>11. CASE Stop BY <1>11 DEF Stop, MergedInv, LocalInv, NoConfig, NoRun
<1>12. CASE StageBaseline BY <1>12 DEF StageBaseline, NoConfig
<1>13. CASE EditNames BY <1>13 DEF EditNames
<1>14. ASSUME NEW l \in Libs, Remove(l) PROVE FlagTellsThePass' BY <1>14 DEF Remove
<1>15. ASSUME NEW l \in Libs, EditRecipe(l) PROVE FlagTellsThePass' BY <1>15 DEF EditRecipe
<1>16. CASE UNCHANGED vars BY <1>16 DEF vars
<1>17. CASE OpenListing
  BY <1>17 DEF OpenListing, LocalInv, Busy, MergedInv, FlagInv, CurInv, NoConfig
<1>18. CASE WriteLibs BY <1>18 DEF WriteLibs, LocalInv, Busy, MergedInv, FlagInv, CurInv, NoConfig
<1>19. CASE WriteFlags BY <1>19 DEF WriteFlags, LocalInv, Busy, MergedInv, FlagInv, CurInv, NoConfig
<1>20. CASE WriteGate
  BY <1>20 DEF WriteGate, Close, LocalInv, Busy, MergedInv, FlagInv, CurInv, NoConfig
<1> QED BY Steps, <1>1, <1>2, <1>3, <1>4, <1>5, <1>6, <1>7, <1>8, <1>9, <1>10,
           <1>11, <1>12, <1>13, <1>14, <1>15, <1>16, <1>17, <1>18,
           <1>19, <1>20

LEMMA GateStep == IInv /\ [Next]_vars => GateIsNotOlder'
<1> SUFFICES ASSUME IInv, [Next]_vars PROVE GateIsNotOlder'
  OBVIOUS
<1> USE StagingAssumption DEF GateIsNotOlder, IInv, TypeOK, disk, history, ghost
<1>1. CASE \E S \in SUBSET Libs : Start(S) BY <1>1 DEF Start
<1>2. ASSUME NEW l \in Libs, Enter(l) PROVE GateIsNotOlder' BY <1>2 DEF Enter
<1>3. CASE Load BY <1>3 DEF Load
<1>4. CASE \E bad \in BOOLEAN : Write(bad) BY <1>4 DEF Write, LocalInv, Busy
<1>5. CASE Privatize BY <1>5 DEF Privatize, LocalInv, Busy
<1>6. CASE Reload BY <1>6 DEF Reload
<1>7. CASE List BY <1>7 DEF List
<1>8. CASE WriteConfig BY <1>8 DEF WriteConfig, PutConfig, NoConfig, LocalInv, Busy
<1>9. CASE CopyGate BY <1>9 DEF CopyGate, OpenGate, SkipGate, Close
<1>10. CASE CheckABI BY <1>10 DEF CheckABI, Finish
<1>11. CASE Stop BY <1>11 DEF Stop
<1>12. CASE StageBaseline BY <1>12 DEF StageBaseline, NoConfig
<1>13. CASE EditNames BY <1>13 DEF EditNames
<1>14. ASSUME NEW l \in Libs, Remove(l) PROVE GateIsNotOlder' BY <1>14 DEF Remove
<1>15. ASSUME NEW l \in Libs, EditRecipe(l) PROVE GateIsNotOlder' BY <1>15 DEF EditRecipe
<1>16. CASE UNCHANGED vars BY <1>16 DEF vars
<1>17. CASE OpenListing BY <1>17 DEF OpenListing, LocalInv, Busy, MergedInv, NoConfig
<1>18. CASE WriteLibs BY <1>18 DEF WriteLibs, LocalInv, Busy, MergedInv, NoConfig
<1>19. CASE WriteFlags BY <1>19 DEF WriteFlags, LocalInv, Busy, MergedInv, NoConfig
<1>20. CASE WriteGate BY <1>20 DEF WriteGate, Close, LocalInv, Busy, MergedInv, NoConfig
<1> QED BY Steps, <1>1, <1>2, <1>3, <1>4, <1>5, <1>6, <1>7, <1>8, <1>9, <1>10,
           <1>11, <1>12, <1>13, <1>14, <1>15, <1>16, <1>17, <1>18,
           <1>19, <1>20

LEMMA CleanStep == IInv /\ [Next]_vars => CompleteMeansCleanHeaders'
<1> SUFFICES ASSUME IInv, [Next]_vars PROVE CompleteMeansCleanHeaders'
  OBVIOUS
<1> USE StagingAssumption DEF CompleteMeansCleanHeaders, IInv, TypeOK, disk, history, ghost
<1>1. CASE \E S \in SUBSET Libs : Start(S) BY <1>1 DEF Start
<1>2. ASSUME NEW l \in Libs, Enter(l) PROVE CompleteMeansCleanHeaders' BY <1>2 DEF Enter
<1>3. CASE Load BY <1>3 DEF Load
<1>4. CASE \E bad \in BOOLEAN : Write(bad) BY <1>4 DEF Write
<1>5. CASE Privatize BY <1>5 DEF Privatize
<1>6. CASE Reload BY <1>6 DEF Reload
<1>7. CASE List BY <1>7 DEF List
<1>8. CASE WriteConfig BY <1>8 DEF WriteConfig, PutConfig, NoConfig
<1>9. CASE CopyGate BY <1>9 DEF CopyGate, OpenGate, SkipGate, Close
<1>10. CASE CheckABI BY <1>10 DEF CheckABI, Finish
<1>11. CASE Stop BY <1>11 DEF Stop
<1>12. CASE StageBaseline BY <1>12 DEF StageBaseline, NoConfig
<1>13. CASE EditNames BY <1>13 DEF EditNames
<1>14. ASSUME NEW l \in Libs, Remove(l) PROVE CompleteMeansCleanHeaders' BY <1>14 DEF Remove
<1>15. ASSUME NEW l \in Libs, EditRecipe(l) PROVE CompleteMeansCleanHeaders' BY <1>15 DEF EditRecipe
<1>16. CASE UNCHANGED vars BY <1>16 DEF vars
<1>17. CASE OpenListing BY <1>17 DEF OpenListing
<1>18. CASE WriteLibs BY <1>18 DEF WriteLibs
<1>19. CASE WriteFlags BY <1>19 DEF WriteFlags
<1>20. CASE WriteGate BY <1>20 DEF WriteGate, Close
<1> QED BY Steps, <1>1, <1>2, <1>3, <1>4, <1>5, <1>6, <1>7, <1>8, <1>9, <1>10,
           <1>11, <1>12, <1>13, <1>14, <1>15, <1>16, <1>17, <1>18,
           <1>19, <1>20

LEMMA InitHolds == Init => IInv
<1> SUFFICES ASSUME Init PROVE IInv
  OBVIOUS
<1>1. TypeOK BY InitTyped
<1>2. LocalInv /\ CurInv /\ FlagInv /\ MergedInv
  BY DEF Init, NoRun, NoConfig, LocalInv, CurInv, FlagInv, MergedInv, Busy
<1>3. ListedAreStaged /\ NothingFallsOffTheList /\ FlagTellsThePass
      /\ GateIsNotOlder /\ CompleteMeansCleanHeaders
  BY DEF Init, NoConfig, ListedAreStaged, NothingFallsOffTheList, FlagTellsThePass,
         GateIsNotOlder, CompleteMeansCleanHeaders
<1> QED BY <1>1, <1>2, <1>3 DEF IInv

LEMMA Inductive == IInv /\ [Next]_vars => IInv'
<1> SUFFICES ASSUME IInv, [Next]_vars PROVE IInv'
  OBVIOUS
<1>1. TypeOK' BY TypeStep DEF IInv
<1>2. LocalInv' /\ CurInv' /\ FlagInv' /\ MergedInv'
  BY LocalStep, CurStep, FlagStep, MergedStep
<1>3. ListedAreStaged' /\ NothingFallsOffTheList' /\ FlagTellsThePass'
      /\ GateIsNotOlder' /\ CompleteMeansCleanHeaders'
  BY ListedStep, FallsStep, TellsStep, GateStep, CleanStep
<1> QED BY <1>1, <1>2, <1>3 DEF IInv

\* The inductive invariant holds in every state of a staging tree.
THEOREM IInvAlways == Spec => []IInv
BY InitHolds, Inductive, PTL DEF Spec

LEMMA Parts ==
  IInv => /\ ListedAreStaged /\ NothingFallsOffTheList /\ FlagTellsThePass
          /\ GateIsNotOlder /\ CompleteMeansCleanHeaders
BY DEF IInv

\* target_config.cmake never lists a library without a manifest.
THEOREM AlwaysStaged == Spec => []ListedAreStaged
BY IInvAlways, Parts, PTL

\* A library that is built stays listed through any restagings; what unlists
\* one is a run killed over it, a baseline staging, and a run killed while
\* target_config.cmake, emptied, waits for the merged list.
THEOREM NeverShrinks == Spec => []NothingFallsOffTheList
BY IInvAlways, Parts, PTL

\* The gate audits exactly the libraries that went through the pass.
THEOREM FlagsAreTrue == Spec => []FlagTellsThePass
BY IInvAlways, Parts, PTL

\* The gate's names are never older than the pass.
THEOREM GateKeepsUp == Spec => []GateIsNotOlder
BY IInvAlways, Parts, PTL

\* A staging never completes over corrupted headers.
THEOREM CleanAlways == Spec => []CompleteMeansCleanHeaders
BY IInvAlways, Parts, PTL
=============================================================================
