CONSTANTS
  Zones = {"z1", "z2"}
  Short = 1
  Long = 3
  PreviousStart = 0
  MonthStart = 4
  MonthEnd = 9
  Candidates <- MCCandidates
  Keys <- MCKeys
  Misplaced <- MCMisplaced
  Foreign <- MCForeign
  Cutoffs = {3, 4, 5}
  Staleness = 1
  None = None
  Garbled = Garbled
  OtherVersion = OtherVersion
SPECIFICATION Spec
CHECK_DEADLOCK FALSE
INVARIANTS
  GoldMatchesStream
