SPECIFICATION Spec
CONSTANTS
  None = None
  Files <- MCFiles
  Limits <- MCLimits
  Interval = 7
  Runs = {1, 2}
  Requests <- MCRequests
  MaxComparisons = 5
  MaxDecimal = 1000000
  CellLimit = 30
  Reviews <- MCReviews
INVARIANTS
  RetainedWithinLimits
  ReadIsFaithful
  CancelIsNoticed
  FirstResultIsSaved
  ChecksMeanWhatTheySay
  ReportsSayWhatWasFound
