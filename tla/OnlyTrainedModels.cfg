SPECIFICATION Spec
CONSTANTS
  Calls = {c1}
  Registry <- TwoModels
  Unknown = x
  Scores = {0}
INVARIANT StoredModelsAreTrained
CHECK_DEADLOCK FALSE
