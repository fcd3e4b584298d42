SPECIFICATION Spec
CONSTANTS
  Values = {1, 3}
  MaxOutputs = 2
  Offers <- MCOffers
  MaxTemplates = 2
  MaxEpoch = 2
INVARIANTS
  TagWithBlob
  CoveredStatePays
PROPERTIES
  PullerFollowsNode
  StateConverges
