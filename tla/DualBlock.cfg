SPECIFICATION DualSpec
CONSTANTS
  Keys <- MCKeys
  Seeds <- MCSeeds
  Sources <- MCSources
  Conns = {c1}
  MAX = 2
  IdxMod = 3
  ExtCap = 1
  ConnCap = 1
  Sv2Cap = 1
  MaxTemplates = 1
  MaxShares = 4
  MaxEpoch = 0
  MaxBlocks = 1
  MaxAccepts = 1
  MaxJobId = 1
INVARIANT SubmitBlockFirst
CHECK_DEADLOCK FALSE
