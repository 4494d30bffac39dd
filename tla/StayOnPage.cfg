SPECIFICATION FairSessionSpec
CONSTANTS
  Jobs = {j1, j2}
  MaxWorkers = 1
  Sessions = {s1}
  Datasets = {d1}
  None = None
  Impatient = {s1}
  Operator = {}
PROPERTY StayingOnPageResolvesJob
CHECK_DEADLOCK FALSE
