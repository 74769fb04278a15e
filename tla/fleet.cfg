CONSTANTS
  NoTask = NoTask
  NoLease = NoLease
  NoHolder = NoHolder
  Never = Never
  NoRound = NoRound
  NoAgent = NoAgent
  NoRelay = NoRelay
  NoFlag = NoFlag
  NoTimer = NoTimer
  MissionTopic = MissionTopic
  Epsilon = 1
  QuiescenceRounds = 3
  ScanRank <- SortedThenIdle
  LeaseDuration = 12
  HeartbeatInterval = 2
  Eta = 3
  RoundTimeout = 24
  IdleGap = 4
  Collaborative <- NoTasks
  Prerequisites <- Chained
  Duration <- Uneven
  Sited <- RealTask
  Attraction <- Rivals
  LoadWeight = 0
  Robot <- TwoRobots
  Home <- Homes
  Mission <- OneTask
  Injectable <- OneMore
  Travel <- Nearby
  Phases <- EitherWay
  Depth = 5
  FaultKinds <- AnyKind
  MaxFaults = 1
  MaxLaunches = 1
  StallLength = 14
  CutLength = 8
  FaultsUntil = 14
  Patience = 60
  MaxTime = 90
SPECIFICATION Spec
CHECK_DEADLOCK FALSE
INVARIANTS
  TypeOK
  CallbacksNeverRaise
  TimerMatches
  CompletionsEarned
  CompletionsTrue
  ConflictsResolve
  MissionInTime
  RebroadcastSafe
PROPERTIES
  CarriesOutMission
