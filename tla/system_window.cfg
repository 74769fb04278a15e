CONSTANTS
  NoTask = NoTask
  NoLease = NoLease
  NoHolder = NoHolder
  Never = Never
  NoRound = NoRound
  NoAgent = NoAgent
  NoRelay = NoRelay
  NoFlag = NoFlag
  NoExecution = NoExecution
  Epsilon = 1
  QuiescenceRounds <- SuggestedWindow
  ScanRank <- SortedThenIdle
  LeaseDuration = 12
  HeartbeatInterval = 2
  Eta = 3
  RoundTimeout = 24
  IdleGap = 4
  Collaborative <- NoTasks
  Prerequisites <- Independent
  Duration <- Even
  Sited <- RealTask
  Attraction <- Rivals
  LoadWeight = 0
  Robot <- ThreeRobots
  Home <- Homes
  Mission <- FourTasks
  Injectable <- NoTasks
  Travel <- Nearby
  Topology <- Everyone
  Delay = 1
  MayDie <- ThreeRobots
  MaxKills = 0
  MaxLost = 0
  MaxTime = 160
SPECIFICATION Spec
CHECK_DEADLOCK FALSE
INVARIANTS
  ExclusiveExecution
