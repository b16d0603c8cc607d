SPECIFICATION DeployFairSpec
CONSTANTS
  MaxCommands = 2
  MaxOptions = 3
  Host = {"cloud"}
  CloudHost = "cloud"
  AnyHost = "0.0.0.0"
  Port = {"50051", "9000"}
  DefaultPort = "50051"
  BadPort = BadPort
  Absent = Absent
  NoProgram = NoProgram
  NoBackend = NoBackend
INVARIANTS
  DeployTypeOK
PROPERTIES
  PairSteers
  GoneServerStops
  ComesToRest
  InactiveDoesNotLast
CHECK_DEADLOCK FALSE
