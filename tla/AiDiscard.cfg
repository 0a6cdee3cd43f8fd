SPECIFICATION Spec
CONSTANTS
  a1 = a1
  a2 = a2
  g1 = g1
  g2 = g2
  ra = ra
  None = None
  Reviews = {a1}
  Accounts = {g1, g2}
  Logins = {}
  RunIds = {ra}
  RunOf <- RunOfReview
  MaxLaunches = 3
  MaxTurns = 1
  Faults <- Exits
CHECK_DEADLOCK FALSE
PROPERTIES InvalidateSparesOthers
