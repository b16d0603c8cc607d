SPECIFICATION FairSpec
CONSTANTS
  QueueMax = 2
  MaxFrame = 4
  MaxStale = 2
INVARIANTS
  TypeOK
PROPERTIES
  ActsAsChannel
  DeliveredOnceInOrder
  StopWindsDown
  
CHECK_DEADLOCK FALSE
