CONSTANTS
  Requests = {r1, r2}
  Closers = {c1, c2}
  Poller = poller
  NoOne = none
  QueueMax = 1
SPECIFICATION FairSpec
INVARIANTS
  AcknowledgedIsInTopic
  DefiniteRejectionIsFinal
  DrainedCloseLeavesNobodyWaiting
PROPERTIES
  NoAdmissionAfterClose
  ImplementsContract
  EveryCallIsAnswered
  EveryCloseReturns
CHECK_DEADLOCK FALSE
