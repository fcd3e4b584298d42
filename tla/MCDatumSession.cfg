SPECIFICATION Spec
CONSTANTS
  Seeds = {1, 2}
  Words = 2
  WordMod = 256
  BaseNonce <- MCBaseNonce
  Mask <- MCMask
  Confs <- MCConfs
  ShareBodies <- MCShareBodies
  Requests <- MCRequests
  RawFrames <- MCRawFrames
  PoolFrames <- MCPoolFrames
  MaxBlob = 3
  MaxCmdLen = 160
  MaxSends = 2
  MaxPoolFrames = 2
  MaxConns = 2
CHECK_DEADLOCK FALSE
INVARIANTS
  DownInOrder
  UpInOrder
  NoncesFresh
PROPERTIES
  AttemptsSettle
