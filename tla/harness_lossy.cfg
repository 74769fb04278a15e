CONSTANTS
  NoTask = NoTask
  Epsilon = 1
  QuiescenceRounds = 2
  Agent <- TwoAgents
  Task <- ThreeTasks
  ScanRank <- ScanInOrder
  BenefitChoices <- SmallMatrices
  TopologyChoices <- SteadyComplete
  Delays <- UpToOne
  Lossy = TRUE
  MaxTicks = 9
SPECIFICATION Spec
CHECK_DEADLOCK FALSE
INVARIANTS
  ReturnedNearOptimal
PROPERTIES
  ImplementsSerialAuction
