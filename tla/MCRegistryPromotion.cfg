CONSTANTS
  Attempts = {a1, a2, a3}
  MaxActive = 2
  MayTrain <- MCMayTrain
  Datasets = {"d1", "d2", "d3"}
  Roles = {"static", "streaming"}
  Mae <- MCMae
  MinImprovement = 1
  HoldoutOf <- MCHoldoutOf
  NoBundle = NoBundle
SPECIFICATION Spec
SYMMETRY AttemptSymmetry
CHECK_DEADLOCK FALSE
INVARIANTS
  OneRolePerRegistry
  NoDuplicateVersions
  ProductionIsLoadable
  
  ApprovalsFormAChain
PROPERTIES
  EachPromotionImproves
  
  ImplementsRegister
