SPECIFICATION Spec
CONSTANTS
  Processes = {p1, p2, p3}
  Clients = {c1}
  Garbage = Garbage
  MaxCrashes = 1
  kNumServers = 2
  kNumReplicas = 1
  kNumTabletsPerServer = 2
CHECK_DEADLOCK FALSE
INVARIANTS
  IdsMatchIndex
  SameIndex
  LayoutComplete
  QueuePairsPaired
  RequestsReachMasters
PROPERTY
  JoinsAnswered
  BackupsGetReady
