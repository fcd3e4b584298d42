SPECIFICATION Spec
CONSTANTS
  EventCap = 1
  CmdCap = 1
  MaxTemplates = 2
  MaxFrames = 2
  MaxEpoch = 2
INVARIANTS
  ConfigGoverns
PROPERTIES
  RequestSettled
  NeverParkedForever
  BusyReconnects
  LinkLifecycle
