CONSTANTS
  Builders = {b1, b2}
  Trainers = {t1, t2}
  MaxActive = 2
  MaxTrainings <- MCMaxTrainings
  MayHold <- MCMayHold
  LastMonth = 2
  TrainMonths <- SecondMonth
  Contents = {"s1", "s2", "s3"}
  Rows <- MCRows
  RowsOf <- MCRowsOf
  Contracts = {"1.0", "1.1"}
  ContractOf <- MCContractOf
  FeatureVersions <- MCFeatureVersions
  NoFile = NoFile
SPECIFICATION Spec
SYMMETRY ProcessSymmetry
CHECK_DEADLOCK FALSE
INVARIANTS
  MatchingManifestIsTrue
  BundleVersionMatchesRows
  ReturnedBundleIsOfItsData
