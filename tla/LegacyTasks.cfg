SPECIFICATION FairSpec
CONSTANTS
  TaskId = {1, 2}
  NoRow = NoRow
  Nobody = Nobody
  Worker = {w}
  MaxRetries <- Retries
  MaxFailures = 1
  MaxCrashes = 2
  MaxCancels = 1
INVARIANTS MigrationSafe RowsFaithful AtMostOneLateAttempt
PROPERTY EveryTaskEnds
CHECK_DEADLOCK FALSE
