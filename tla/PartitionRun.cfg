\* Two partitions for one permit, one connection, routes one at a time.
CONSTANTS
  N = 2
  Slots = 1
  OsrmConcurrency = 1
  Connections = 1
  Attempts = 2
  Stride = 2
  MatrixCalls <- MCMatrixCalls
  MaxRoutes = 2
SPECIFICATION FairSpec
INVARIANTS
  RunTypeOK
  PermitsReturn
  PartitionsAreWhole
  IndexesDiffer
PROPERTIES
  JobDecides
CHECK_DEADLOCK FALSE
