SPECIFICATION Spec
CONSTANTS
  NaN = NaN
  N = 3
  Sources <- MCSources
  Buffers <- MCBuffers
  Alignments = {8, 16}
  Leaves = {"MPI_BYTE", "MPI_INTEGER", "MPI_REAL16"}
  Counts = {1, 2, 1048575}
  MaxTypes = 2
  MaxBytes = 268435456
INVARIANTS
  OperationsFitDatatypes
  OnlyEarlyCallsFail
  ExtremesAreExtreme
  SumsAreSums
  RankOrderDecidesTies
  DerivedSizesAreTrue
CHECK_DEADLOCK FALSE
