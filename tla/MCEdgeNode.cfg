SPECIFICATION Spec
CONSTANTS
  MaxAge = 1
  HardTimeout = 2
  Goal = {g1, g2, odd}
  Sendable = {g1, g2}
  NoGoal = NoGoal
  StopPath = StopPath
  SlowJoin = FALSE
  MaxFrame = 4
  MaxClients = 2
SYMMETRY GoalSymmetry
INVARIANTS
  TypeOK
  CachedGoalIsLatest
  FloorCoversOldGoals
  OnlyCurrentClientAlive
  EmbeddingPresentMidTick
PROPERTIES
  PathFollowsGoal
  FloorNeverFalls
  UsesChannel
