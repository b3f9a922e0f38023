CONSTANT MaxRestarts = 0
SPECIFICATION Spec
CHECK_DEADLOCK FALSE
INVARIANT
  NoEvidenceIsDeleted
