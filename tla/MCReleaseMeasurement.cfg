CONSTANTS
  Warmup = 1
  Arrivals = 2
  Concurrency = 1
  Partitions = {"p1", "p2"}
  PartitionOf <- MCPartitionOf
  MaxErrors = 0
SPECIFICATION MeasurementSpec
CHECK_DEADLOCK FALSE
INVARIANTS
  EverySampleOnce
  PassedReadbackIsTrue
  PassedPhaseIsDelivered
  FaultlessReadbackPasses
PROPERTIES
  DropsOnlyAtTheLimit
  MeasurementEnds
