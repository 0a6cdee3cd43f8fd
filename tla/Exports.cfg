SPECIFICATION Spec
CONSTANTS
  None = None
  Runs = {r1, r2}
  Completed = {r1}
  Calls = {c1, c2}
  Ids = {e1, e2, e3}
  Kinds = {"xlsx"}
  Languages = {"en", "ar"}
  MaxReviews = 1
  MaxCrashes = 1
  MaxChanges = 1
SYMMETRY Symmetry
INVARIANTS
  RecordsArePublished
  FailureLeavesNothing
