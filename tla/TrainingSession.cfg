SPECIFICATION FairSessionSpec
CONSTANTS
  Jobs = {j1, j2}
  MaxWorkers = 1
  Sessions = {s1}
  Datasets = {d1}
  None = None
  Impatient = {s1}
  Operator = {"cancel", "reset"}
INVARIANT ReportDescribesModel
PROPERTIES
  RunningPageEnds
  ForgottenOnlyWithOutcome
\* Job ids run out and the browser may rest for ever.
CHECK_DEADLOCK FALSE
