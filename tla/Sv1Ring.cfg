SPECIFICATION Spec
CONSTANTS
  Bits = {b1}
  VardiffMin = 1
  VardiffMax = 4
  TargetSharesMin = 1
  RecheckSecs = 60
  Burst = 1
  PoolMins = {2}
  SubmitCap = 1
  MaxJobs = 2
  MaxShares = 1
  MaxRaises = 1
  MaxLogins = 2
INVARIANT OldNotifyResolves
CHECK_DEADLOCK FALSE
