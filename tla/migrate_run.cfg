CONSTANTS
  sgemm = sgemm
  dgemm = dgemm
  pcget = pcget
  pzget = pzget
  xerbla = xerbla
  qgemm = qgemm
  pxget = pxget
  module = module
  Sources = {sgemm, dgemm, pcget, pzget, xerbla}
  Pinned = {pzget}
  Letter <- MCLetter
  Pos <- MCPos
  Skips = {}
  Copies = {xerbla}
  InSourceDir = {sgemm, dgemm, pcget, pzget, xerbla}
  Names = {qgemm, pxget, xerbla, module}
  Out <- MCOut
  Class <- GemmAgrees
  Drift = {}
  Expected = {}
  Overrides = {module}
  Mentions = {dgemm, sgemm, xerbla, module}
  Unclean = {sgemm}
  Unsupported = {}
  Workers = 2
  MaxRuns = 2
  MaxKills = 1
  Absent = Absent
  Torn = Torn
  None = None
SPECIFICATION FairSpec
INVARIANTS
  TypeOK
  DiskIsDetermined
  NoSilentDisagreement
  NoPristineNameLeft
  ReportsAgree
PROPERTIES
  KeepsThePromise
  RunEnds
CHECK_DEADLOCK FALSE
