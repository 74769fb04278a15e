CONSTANTS
  NoTask = NoTask
  NoLease = NoLease
  NoHolder = NoHolder
  Never = Never
  NoRound = NoRound
  NoAgent = NoAgent
  NoRelay = NoRelay
  NoFlag = NoFlag
  NoExecution = NoExecution
  Epsilon = 1
  QuiescenceRounds <- SuggestedWindow
  ScanRank <- SortedThenIdle
  LeaseDuration = 60
  HeartbeatInterval = 10
  Eta = 3
  RoundTimeout = 80
  IdleGap = 4
  Collaborative <- NoTasks
  Prerequisites <- Joined
  Duration <- Even
  Sited <- RealTask
  Attraction <- Rivals
  LoadWeight = 0
  Robot <- ThreeRobots
  Home <- Homes
  Mission <- ThreeTasks
  Injectable <- NoTasks
  Travel <- Nearby
  Topology <- Everyone
  Delay = 1
  MayDie <- ThreeRobots
  MaxKills = 1
  MaxLost = 1
  MaxTime = 190
SPECIFICATION Spec
CHECK_DEADLOCK FALSE
INVARIANTS
  CompletionsTrue
  HostInStep
  OneFaultIsMadeGood
PROPERTIES
  CarriesOutMission
