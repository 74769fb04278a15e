CONSTANTS
  NoTask = NoTask
  Epsilon = 1
  QuiescenceRounds = 2
  Agent <- ThreeAgents
  Task <- ThreeTasks
  ScanRank <- ScanInOrder
  BenefitChoices <- ContestedOrIndifferent
  Hears <- LineHears
SPECIFICATION FairSpec
INVARIANTS
  PricesBounded
PROPERTIES
  ImplementsSerialAuction
  RoundSettles
