SPECIFICATION Spec
CONSTANTS
  a1 = a1
  a2 = a2
  g1 = g1
  g2 = g2
  ra = ra
  None = None
  Reviews = {a1}
  Accounts = {}
  Logins = {}
  RunIds = {ra}
  RunOf <- RunOfReview
  MaxLaunches = 1
  MaxTurns = 1
  Faults <- NoFaults
CHECK_DEADLOCK FALSE
INVARIANTS CancelWakes
