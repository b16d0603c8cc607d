SPECIFICATION Spec
CONSTANTS
  MaxAge = 1
  HardTimeout = 2
  Goal = {g1, g2, odd}
  Sendable = {g1, g2}
  NoGoal = NoGoal
  StopPath = StopPath
  SlowJoin = TRUE
  MaxFrame = 2
  MaxClients = 2
SYMMETRY GoalSymmetry
INVARIANTS
  CachedGoalIsLatest
