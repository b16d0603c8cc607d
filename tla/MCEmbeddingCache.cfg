SPECIFICATION Spec
CONSTANTS
  MaxAge = 1
  HardTimeout = 2
  MaxFrame = 3
  Receiver = {r1, r2}
SYMMETRY ReceiverSymmetry
INVARIANTS
  TypeOK
  FreshIffOK
PROPERTIES
  ShowsNewest
  NeverRejuvenated
