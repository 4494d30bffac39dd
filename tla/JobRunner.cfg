SPECIFICATION Spec
CONSTANTS
  Jobs = {j1, j2, j3}
  MaxWorkers = 2
INVARIANTS
  CompletedHasResult
  DoneMeansSettled
PROPERTIES
  ImplementsLifecycle
  QueuedJobEnds
\* The system stops when every job id has been submitted and has ended.
CHECK_DEADLOCK FALSE
