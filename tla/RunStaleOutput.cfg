SPECIFICATION Spec
CONSTANTS
  c1 = c1
  c2 = c2
  c3 = c3
  r1 = r1
  r2 = r2
  v1 = v1
  v2 = v2
  None = None
  Calls = {c1, c2, c3}
  RunIds = {r1}
  Revisions = {v1, v2}
  Submissions <- ReusedIds
  Faults <- NoFaults
CHECK_DEADLOCK FALSE
INVARIANTS OutputOnlyWhenCompleted
