SPECIFICATION Spec
CONSTANTS
  Conns = {c1}
  MaxChannels = 2
  IdMod = 100
  Rates = {0, 2}
  MinRate = 1
  Targets = {1, 3}
  MinTarget = 2
  MaxTemplates = 2
  MaxOpens = 3
  MaxShares = 1
INVARIANTS
  NewestJobActive
  TargetsClamped
  EntryNotOlder
PROPERTY JobsImmutable
CHECK_DEADLOCK FALSE
