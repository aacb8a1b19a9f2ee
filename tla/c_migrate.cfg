CONSTANTS
  pblas = pblas
  lamov = lamov
  tools = tools
  shim = shim
  dset = dset
  sset = sset
  dect = dect
  getbuf = getbuf
  qset = qset
  qect = qect
  Headers = {pblas, lamov, tools}
  Shim = shim
  Members = {dset, sset, dect}
  Doubles = {dset, dect}
  Plain = {getbuf}
  Pos <- MCPos
  Targets = {qset, qect}
  TargetOf <- MCTargetOf
  Typesets = {qset}
  Overridden = {qect}
  Incs <- MCIncs
  Dots <- MCDots
  Patched = {pblas}
  Named = {pblas}
  Manifest = {pblas, lamov, getbuf, qect, dset}
  Wraps = TRUE
  MaxRuns = 3
  MaxKills = 1
  MaxEdits = 2
SPECIFICATION Spec
INVARIANTS
  LikeAFreshTree
  PublicHeadersArePristine
  UnitsSeeSiblings
  NoPristineNameLinks
  UnitsAreGuarded
CHECK_DEADLOCK FALSE
