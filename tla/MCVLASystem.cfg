SPECIFICATION FairSpec
CONSTANTS
  MaxAge = 1
  HardTimeout = 2
  Goal = {g1, g2, odd}
  Sendable = {g1, g2}
  NoGoal = NoGoal
  StopPath = StopPath
  SlowJoin = TRUE
  MaxFrame = 2
  MaxClients = 1
  Depth = 2
INVARIANTS
  SysTypeOK
  NewestPathInLine
PROPERTIES
  GoalTakesEffect
  ShutdownStops
  LastPathStays
