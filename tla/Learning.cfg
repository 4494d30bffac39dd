SPECIFICATION LearningSpec
CONSTANTS
  Calls = {c1, c2}
  Registry <- ThreeModels
  Unknown = x
  Scores = {0, 1}
  MaxCandidates = 4
  Sizes = {0, 1, 2, 3, 4, 5, 6, 9, 10, 11, 13, 25, 27}
  Horizons = {1, 3}
  Holdouts = {0, 2, 5, 12}
  Orders = {3, 7}
  Wanted = {1, 2, 3, 5}
  Users = {"u1", "u2", "u3"}
  Items = {"i1", "i2"}
  Ratings = {0, 1, 3}
  Certain = 2
  InputColumns <- MCInput
  KindOf <- MCKind
  Parts = {"year"}
  Plans <- MCPlans
  Protected <- MCProtected
  EncoderRows = 4
  EncoderFolds = 2
  Smoothing = 1
  AlikePairs = 2
  QualityColumns = {"a", "b"}
  QualityNumeric = {"a", "b"}
  CellValues = {0, 1, 5}
  TableLengths = {0, 1, 2, 3}
  MinSampleSize = 3
  LoneLengths = {5, 10, 11}
  Searched <- MCSearched
  TrialCounts = {0, 2}
  TrialScores = {0, 1}
  MaxSearches = 2
  TestRows = 4
  Labels = {"a", "b", "c"}
  Widths = {2, 3}
  FrameNames = {"p", "q", "r"}
SYMMETRY Symmetry
INVARIANTS
  LearningTypeOK
  EnterpriseFitsAreOwn
  StoredChampionIsBest
  AnalysesFitTheData
  
  DroppedColumnsHaveTwins
  EncodingHidesOwnTarget
  QualityReportsAreTrue
  OnlyChangesDrift
  SearchesKeepTheirBest
  ReportsAgreeWithMetrics
CHECK_DEADLOCK FALSE
