CONSTANTS
  Attempts = {a1, a2}
  MaxActive = 1
  MayTrain <- MCMayTrain
  Datasets = {"d1"}
  Roles = {"streaming"}
  Mae <- MCMae
  MinImprovement = 1
  HoldoutOf <- MCHoldoutOf
  NoBundle = NoBundle
SPECIFICATION Spec
INVARIANTS
  RetriesAreNotBlocked
CHECK_DEADLOCK FALSE
