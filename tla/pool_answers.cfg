CONSTANTS
  f1 = f1
  f2 = f2
  f3 = f3
  Files = {f1, f2, f3}
  Unsupported = {f3}
  Workers = 2
SPECIFICATION FairSpec
INVARIANTS
  AnswersAreReal
PROPERTIES
  CallEnds
