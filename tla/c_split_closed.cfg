CONSTANTS
  pblas = pblas
  lamov = lamov
  tools = tools
  shim = shim
  dset = dset
  sset = sset
  dect = dect
  getbuf = getbuf
  qset = qset
  qect = qect
  Headers = {pblas, lamov, tools}
  Shim = shim
  Members = {dset, sset, dect}
  Doubles = {dset, dect}
  Plain = {getbuf}
  Pos <- MCPos
  Targets = {qset, qect}
  TargetOf <- MCTargetOf
  Typesets = {qset}
  Overridden = {qect}
  Incs <- MCIncs
  Dots <- MCDots
  Patched = {pblas}
  Named = {pblas}
  Manifest = {pblas, lamov, getbuf, qect, dset}
  Wraps = TRUE
  MaxRuns = 1
  MaxKills = 0
  MaxEdits = 0
SPECIFICATION Spec
INVARIANT SplitIsClosed
CHECK_DEADLOCK FALSE
