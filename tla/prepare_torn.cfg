CONSTANTS
  f1 = f1
  f2 = f2
  p1 = p1
  p2 = p2
  Files = {f1, f2}
  DZFiles = {f1}
  Patches = {p1, p2}
  PatchLists <- OneList
  Touches <- MCTouches
  Drifted = {3}
  Rebuilds = {TRUE, FALSE}
  MaxClock = 1
  MaxCrashes = 1
SPECIFICATION Spec
INVARIANTS
  StampMeansCompleted
