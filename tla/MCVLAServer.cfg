SPECIFICATION FairSpec
CONSTANTS
  Stream = {s1, s2}
  InfoCall = {i1}
  Peer = {p1, p2}
  Workers = 2
  MaxObs = 2
  None = None
INVARIANTS
  TypeOK
  PastImageIsPredecessor
PROPERTIES
  InfoAnsweredByFreeWorker
  StopTerminates
CHECK_DEADLOCK FALSE
