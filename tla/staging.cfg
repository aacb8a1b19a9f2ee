CONSTANTS
  blas = blas
  blacs = blacs
  pblas = pblas
  Libs = {blas, blacs, pblas}
  Pos <- MCPos
  Headed = {blacs}
  FirstOptin = {blacs, pblas}
  None = None
  EditsWhileRunning = TRUE
  MaxRuns = 3
  MaxStops = 1
  MaxEdits = 1
SPECIFICATION Spec
INVARIANTS
  ListedAreStaged
  NothingFallsOffTheList
  FlagTellsThePass
  GateIsNotOlder
  CompleteMeansCleanHeaders
CHECK_DEADLOCK FALSE
