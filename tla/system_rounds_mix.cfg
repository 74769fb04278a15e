CONSTANTS
  NoTask = NoTask
  NoLease = NoLease
  NoHolder = NoHolder
  Never = Never
  NoRound = NoRound
  NoAgent = NoAgent
  NoRelay = NoRelay
  NoFlag = NoFlag
  NoExecution = NoExecution
  Epsilon = 1
  QuiescenceRounds = 3
  ScanRank <- SortedThenIdle
  LeaseDuration = 12
  HeartbeatInterval = 2
  Eta = 3
  RoundTimeout = 24
  IdleGap = 4
  Collaborative <- NoTasks
  Prerequisites <- Joined
  Duration <- Even
  Sited <- RealTask
  Attraction <- Drawn
  LoadWeight = 0
  Robot <- TwoRobots
  Home <- Homes
  Mission <- ThreeTasks
  Injectable <- NoTasks
  Travel <- Nearby
  Topology <- Everyone
  Delay = 1
  MayDie <- TwoRobots
  MaxKills = 0
  MaxLost = 0
  MaxTime = 100
SPECIFICATION Spec
CHECK_DEADLOCK FALSE
INVARIANTS
  RoundsNeverMix
