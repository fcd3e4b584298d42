CONSTANTS
  Nothing = Nothing
  MaxKeys = 3
  RollMask = 2
  MaxDiff = 32768
  Keys <- MCKeys
  Templates <- MCTemplates
  Outputs <- MCOutputs
  PoolTags <- MCPoolTags
  PoolMins <- MCPoolMins
  Hashes <- MCHashes
SPECIFICATION WorkSpec
INVARIANTS
  CoinbaseParses
  PotExact
  Reconstructs
  BlockCommits
CHECK_DEADLOCK FALSE
