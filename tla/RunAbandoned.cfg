SPECIFICATION Spec
CONSTANTS
  c1 = c1
  c2 = c2
  c3 = c3
  r1 = r1
  r2 = r2
  v1 = v1
  v2 = v2
  None = None
  Calls = {c1, c2}
  RunIds = {r1, r2}
  Revisions = {v1, v2}
  Submissions <- FreshIds
  Faults <- OnlyCrash
CHECK_DEADLOCK FALSE
INVARIANTS RunningMeansExecuting
