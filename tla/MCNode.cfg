SPECIFICATION FairSpec
CONSTANTS
  a = a
  b = b
  Nodes = {a, b}
  Payer = a
  MaxTransfers = 2
  MaxBatch = 2
  SNAPSHOT_STATE_CHANGES_COUNT = 0
  MaxCrashes = 1
  MaxWork = 2
INVARIANTS NeverForgets RestartMonitorsFirst
PROPERTIES TransfersArrive
CHECK_DEADLOCK FALSE
