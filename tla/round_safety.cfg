CONSTANTS
  NoTask = NoTask
  Epsilon = 1
  QuiescenceRounds = 2
  Agent <- TwoAgents
  Task <- ThreeTasks
  ScanRank <- ScanInOrder
  BenefitChoices <- SmallMatrices
  Hears <- EveryoneHears
SPECIFICATION Spec
INVARIANTS
  TypeOK
  OwnBidsKnown
  SingleClaim
  EpsilonSlack
  AgreedMatching
  NearOptimal
PROPERTIES
  PricesNeverDrop
