SPECIFICATION FairSpec
CONSTANTS
  a1 = a1
  a2 = a2
  g1 = g1
  g2 = g2
  ra = ra
  None = None
  Reviews = {a1}
  Accounts = {g1}
  Logins = {g1}
  RunIds = {ra}
  RunOf <- RunOfReview
  MaxLaunches = 2
  MaxTurns = 2
  Faults <- AllFaults
CHECK_DEADLOCK FALSE
INVARIANTS CompletedIsGrounded AtMostOneProcess NoProcessLeaked
PROPERTIES EveryReviewReturns
