SPECIFICATION FairSpec
CONSTANTS
  kNumReplicas = 3
  kMaxIBQueueDepth = 2
  MaxOps = 4
CHECK_DEADLOCK FALSE
INVARIANTS
  LoopsMatchQueues
  SyncedMeansApplied
  EarlierBackupsCurrent
PROPERTY
  WorkerReturns
