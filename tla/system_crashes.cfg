CONSTANTS
  NoTask = NoTask
  NoLease = NoLease
  NoHolder = NoHolder
  Never = Never
  NoRound = NoRound
  NoAgent = NoAgent
  NoRelay = NoRelay
  NoFlag = NoFlag
  NoExecution = NoExecution
  Epsilon = 1
  QuiescenceRounds = 3
  ScanRank <- SortedThenIdle
  LeaseDuration = 12
  HeartbeatInterval = 2
  Eta = 3
  RoundTimeout = 24
  IdleGap = 4
  Collaborative <- NoTasks
  Prerequisites <- JoinedAndLater
  Duration <- Even
  Sited <- AllButOne
  Attraction <- Drawn
  LoadWeight = 0
  Robot <- ThreeRobots
  Home <- Homes
  Mission <- ThreeTasks
  Injectable <- OneMore
  Travel <- Nearby
  Topology <- Everyone
  Delay = 0
  MayDie <- ThreeRobots
  MaxKills = 1
  MaxLost = 0
  MaxTime = 160
SPECIFICATION Spec
CHECK_DEADLOCK FALSE
INVARIANTS
  TypeOK
  MissionSucceeds
  NeverStalls
PROPERTIES
  ImplementsTaskMission
