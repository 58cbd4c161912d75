\* The data pipeline of one job: assignment, partitions, VROOM, order, rows.
CONSTANTS
  None = None
  Null = Null
  CellSize <- MCCellSize
  MaxK = 1
  MinRegion = 2
  MaxLocations = 3
  MaxCost = 9999
  Island <- MCIsland
  Requests <- MCRequests
  PartitionThreshold = 3
  MaxPartitionSize = 3
  MaxPerPartition = 2
  AreaConfigs <- MCAreaConfigs
  AreaRadius = 50
  Tenth = 4

SPECIFICATION Spec
INVARIANTS
  PlanTypeOK
  OptimizeKeepsScope
  PlanAheadIsExact
  TwinsShareLoad
  PartitionsCoverScope
  MatrixTellsRoads
  AreasRespected
  RoutesFollowPriority
  RowsMeasureTheirLegs
PROPERTIES
  RescaleKeepsOrder
CHECK_DEADLOCK FALSE
