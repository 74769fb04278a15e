CONSTANTS
  NoTask = NoTask
  Epsilon = 1
  QuiescenceRounds = 3
  Agent <- ThreeAgents
  Task <- ThreeTasks
  ScanRank <- ScanInOrder
  BenefitChoices <- ContestedAndIndifferent
  TopologyChoices <- AnySparseOrHealing
  Delays <- UpToOne
  Lossy = FALSE
  MaxTicks = 40
SPECIFICATION Spec
CHECK_DEADLOCK FALSE
INVARIANTS
  TypeOK
  ReturnedAgreed
  NewsOnItsWay
PROPERTIES
  Returns
