SPECIFICATION Spec
CONSTANTS
  None = None
  Files <- FewFiles
  Limits <- MCLimits
  Interval = 7
  Runs = {1}
  Requests <- OneRequest
  MaxComparisons = 5
  MaxDecimal = 1000000
  CellLimit = 30
  Reviews <- MCReviews
INVARIANT EveryCompletedRunCanBeReported
