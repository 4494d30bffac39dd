SPECIFICATION TrainingApiSpec
CONSTANTS
  TrainRequests = {r1, r2}
  Models = {m1}
  MaxClock = 1
INVARIANT RegisteredBundleIsOwn
CHECK_DEADLOCK FALSE
