SPECIFICATION Spec
CONSTANTS
  HandshakeLen = 2
  HeaderLen = 2
  Bodies <- MCBodies
  MaxUpdates = 0
PROPERTIES
  ServedWithoutPublisher
CHECK_DEADLOCK FALSE
