CONSTANTS
  None = None
  Finds = {f1, f2}
  Blocks = {b1}
  Extras = {e1}
  MaxRestarts = 1
  MaxLost = 1
SPECIFICATION Spec
INVARIANTS
  AcceptedBlockStored
  ReloadHelps
PROPERTY PullerRecovers
