CONSTANTS
  Nothing = Nothing
  MaxKeys = 0
  RollMask = 2
  MaxDiff = 32768
  Keys <- MCKeys
  Templates <- MCManyTxs
  Outputs <- MCOutputs
  PoolTags <- MCPoolTags
  PoolMins <- MCPoolMins
  Hashes <- MCHashes
SPECIFICATION WorkSpec
INVARIANT MerklePathComplete
CHECK_DEADLOCK FALSE
