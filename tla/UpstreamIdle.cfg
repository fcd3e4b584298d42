SPECIFICATION Spec
CONSTANTS
  EventCap = 1
  CmdCap = 1
  MaxTemplates = 1
  MaxFrames = 1
  MaxEpoch = 1
PROPERTIES
  ClosedReconnects
