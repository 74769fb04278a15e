CONSTANTS
  NoTask = NoTask
  NoLease = NoLease
  NoHolder = NoHolder
  Never = Never
  NoRound = NoRound
  NoAgent = NoAgent
  NoRelay = NoRelay
  NoFlag = NoFlag
  NoTimer = NoTimer
  MissionTopic = MissionTopic
  Epsilon = 1
  QuiescenceRounds = 3
  ScanRank <- SortedThenIdle
  LeaseDuration = 12
  HeartbeatInterval = 2
  Eta = 3
  RoundTimeout = 24
  IdleGap = 4
  Collaborative <- NoTasks
  Prerequisites <- Independent
  Duration <- Even
  Sited <- RealTask
  Attraction <- Rivals
  LoadWeight = 0
  Robot <- TwoRobots
  Home <- Homes
  Mission <- OneTask
  Injectable <- TwoMore
  Travel <- Nearby
  Phases <- InOrder
  Depth = 5
  FaultKinds <- Cuts
  MaxFaults = 1
  MaxLaunches = 0
  StallLength = 14
  CutLength = 8
  FaultsUntil = 20
  Patience = 50
  MaxTime = 84
SPECIFICATION Spec
CHECK_DEADLOCK FALSE
INVARIANTS
  CompletionsEarned
