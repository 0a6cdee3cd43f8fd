SPECIFICATION Spec
CONSTANTS
  Builds = {1}
  MaxData = 1
  Faults <- Crashes
INVARIANTS NoPartialHome
