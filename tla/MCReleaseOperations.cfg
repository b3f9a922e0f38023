CONSTANT MaxRestarts = 1
SPECIFICATION Spec
CHECK_DEADLOCK FALSE
INVARIANTS
  EvidenceIsExportedFirst
  PassedMeansOneProcess
  BrokerIsRestored
PROPERTY
  HarnessEnds
