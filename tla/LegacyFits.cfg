SPECIFICATION Spec
CONSTANTS
  Calls = {c1, c2}
  Registry <- TwoModels
  Unknown = x
  Scores = {0}
INVARIANT LegacyPipelineIsOwn
CHECK_DEADLOCK FALSE
