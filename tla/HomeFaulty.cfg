SPECIFICATION Spec
CONSTANTS
  Builds = {1, 3}
  MaxData = 2
  Faults <- AllFaults
INVARIANTS UpMeansReady RecoveryIsReported
PROPERTIES BackupBeforeMigration DataIsKept
