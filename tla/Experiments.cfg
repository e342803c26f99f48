SPECIFICATION MCSpec
CONSTANTS
  iters = 5
  rx_depth = 3
  MaxLost = 1
  MaxFaults = 1
  n = 14
  tx_depth = 3
  NUM_QP = 2
  NumRecvs = 2
  MaxDropped = 1
  MaxTimeouts = 1
  MaxFailures = 1
  connections = 2
  MessageCount = 2
  MaxErrors = 1
  MaxRemovals = 1
  MaxVanished = 1
CHECK_DEADLOCK FALSE
INVARIANTS
  NothingRefused
  NothingUnheard
  TakesTurns
  ReleasedInOrder
PROPERTY
  AllEnd
