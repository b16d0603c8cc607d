SPECIFICATION Spec
CONSTANTS
  Instruction = {"forward", "to the door", "past the stairs", "all around the house"}
  Position = {xy0, xy1, xy2}
  Origin = xy0
  Tokens <- MCTokens
  ChunkTokens = 3
  ModelMax = 5
  NoValue = NoValue
INVARIANTS
  TypeOK
  BatchMatchesModality
  ModelGetsChosenGoal
CHECK_DEADLOCK FALSE
