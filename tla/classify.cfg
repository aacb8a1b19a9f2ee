CONSTANTS
  SymbolSets <- AllSubsets
  PrefixMaps <- BothMaps
  Alpha <- MCAlpha
  Extra <- PinDVA
SPECIFICATION Spec
INVARIANTS
  NoBlockingPair
  FamiliesAreDisjoint
  PrefixPairsWin
  FamiliesStayApart
CHECK_DEADLOCK FALSE
