SPECIFICATION Spec
CONSTANTS
  MaxAge = 1
  HardTimeout = 2
  QueueMax = 2
  Window = 1
  InferTime = 1
  MaxDown = 1
  MaxGap = 1
  MaxFrame = 4
INVARIANTS
  TypeOK
  StalenessBound
