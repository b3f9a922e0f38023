CONSTANTS
  Builders = {b1, b2}
  Trainers = {t1}
  MaxActive = 1
  MaxTrainings <- MCMaxTrainings
  MayHold <- MCMayHold
  LastMonth = 1
  TrainMonths <- FirstMonth
  Contents = {"s1", "s2"}
  Rows <- MCRows
  RowsOf <- MCRowsOf
  Contracts = {"1.0", "1.1"}
  ContractOf <- MCContractOf
  FeatureVersions <- MCFeatureVersions
  NoFile = NoFile
SPECIFICATION Spec
SYMMETRY ProcessSymmetry
CHECK_DEADLOCK FALSE
INVARIANTS
  BundleNamesItsData
