SPECIFICATION Spec
CONSTANTS
  HandshakeLen = 2
  HeaderLen = 2
  Bodies <- MCBodies
  MaxUpdates = 2
INVARIANTS
  FramesIntact
PROPERTIES
  FramesDispatched
  ShutdownEnds
CHECK_DEADLOCK FALSE
