CONSTANTS
  Task <- EightTasks
  Prerequisites <- Joined
  Duration <- Uneven
  TaskChoices <- Missions
  RobotChoices <- Fleets
  CollaborativeChoices <- SomeCollaborative
  Home <- Homes
  Travel <- AtItsSpeed
  Sited <- Located
  Attraction <- Near
  LoadWeight = 1
  IdleGap = 4
  Epsilon = 1
SPECIFICATION Spec
CHECK_DEADLOCK FALSE
INVARIANTS
  TypeOK
  ScheduleSound
  SetsOutFromLast
  Accounted
  NoIdling
  MakespanAboveBound
PROPERTIES
  Completes
