SPECIFICATION BrowserSpec
CONSTANTS
  Jobs = {j1}
  MaxWorkers = 1
  Sessions = {s1}
  Datasets = {d1}
  None = None
  Impatient = {}
  Operator = {}
  Nil = Nil
  Columns = {"a", "b", "c"}
  Samples = {"housing"}
  Downloaded = {"housing"}
  Files = {"f1", "f2"}
  UsePolars = FALSE
  HygieneForms <- MCHygieneForms
  Selections <- MCSelections
  Cards <- MCCards
  SourceContent <- MCSourceContent
  SuggestedTarget <- MCSuggestedTarget
  FileFormat <- MCFileFormat
  UploadSignature <- MCUploadSignature
  Exports = {"x1", "x2"}
  ChartColumns <- MCChartColumns
INVARIANT ReportIsOfDataset
CHECK_DEADLOCK FALSE
