SPECIFICATION Spec
CONSTANTS
  a1 = a1
  a2 = a2
  g1 = g1
  g2 = g2
  ra = ra
  None = None
  Reviews = {a1, a2}
  Accounts = {g1}
  Logins = {}
  RunIds = {ra}
  RunOf <- RunOfReview
  MaxLaunches = 2
  MaxTurns = 2
  Faults <- HonestFaults
CHECK_DEADLOCK FALSE
INVARIANTS OneTurnPerRun NoAbandonedTurn PendingMeansInFlight
