CONSTANTS
  NoTask = NoTask
  NoLease = NoLease
  NoHolder = NoHolder
  Never = Never
  NoRound = NoRound
  NoAgent = NoAgent
  NoRelay = NoRelay
  NoFlag = NoFlag
  NoExecution = NoExecution
  Epsilon = 1
  QuiescenceRounds = 8
  ScanRank <- SortedThenIdle
  LeaseDuration = 60
  HeartbeatInterval = 10
  Eta = 3
  RoundTimeout = 300
  IdleGap = 4
  Collaborative <- NoTasks
  Prerequisites <- Independent
  Duration <- Even
  Sited <- RealTask
  Attraction <- Drawn
  LoadWeight = 0
  Robot <- TwoRobots
  Home <- Homes
  Mission <- OneTask
  Injectable <- TwoMore
  Travel <- Nearby
  Topology <- Everyone
  Delay = 0
  MayDie <- TwoRobots
  MaxKills = 0
  MaxLost = 0
  MaxTime = 60
SPECIFICATION Spec
CHECK_DEADLOCK FALSE
INVARIANTS
  OnlyIdleRobotsBid
