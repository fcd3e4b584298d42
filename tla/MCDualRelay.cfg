SPECIFICATION DualSpec
CONSTANTS
  Keys <- MCKeys
  Seeds <- MCSeeds
  Sources <- MCSources
  Conns = {c1}
  MAX = 2
  IdxMod = 3
  ExtCap = 2
  ConnCap = 1
  Sv2Cap = 1
  MaxTemplates = 1
  MaxShares = 2
  MaxEpoch = 1
  MaxBlocks = 0
  MaxAccepts = 2
  MaxJobId = 2
INVARIANTS
  LiveKeysQueued
PROPERTY DeliveredInOrder
CHECK_DEADLOCK FALSE
