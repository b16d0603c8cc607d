SPECIFICATION SteeringSpec
CONSTANTS
  Lookahead = 4
  MaxV = 4
  WNum = 1
  WDen = 2
  Inf = Inf
  MinusInf = MinusInf
  NaN = NaN
  Arriving <- MCArriving
  MaxPoses = 3
  Horizon = 3
  Step <- MCStep
INVARIANTS
  TypeOK
  CommandBounded
  PathIsRigid
PROPERTIES
  AimsAtTarget
