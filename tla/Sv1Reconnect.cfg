SPECIFICATION Spec
CONSTANTS
  Keys <- MCKeys
  Seeds <- MCSeeds
  Sources = {"sv1"}
  MAX = 2
  IdxMod = 2
  ExtCap = 1
  ConnCap = 1
  MaxTemplates = 3
  MaxShares = 4
  MaxEpoch = 2
  MaxBlocks = 1
INVARIANT AllSharesResolve
CHECK_DEADLOCK FALSE
