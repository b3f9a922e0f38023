CONSTANTS
  Attempts = {a1, a2, a3}
  MaxActive = 2
  MaxStarted <- MCMaxStarted
  Revisions = {"clean", "edge", "empty"}
  Policies = {"required", "allow_unknown"}
  Rows <- MCRows
  Invalid <- MCInvalid
  MaxRate = 10
  NoFile = NoFile
SPECIFICATION Spec
SYMMETRY AttemptSymmetry
CHECK_DEADLOCK FALSE
INVARIANTS
  SilverPassedItsGate
  ManifestMatchesBronze
PROPERTIES
  LedgerIsAppendOnly
  RecordedRunsDescribeTheFiles
