SPECIFICATION Spec
CONSTANTS
  kMaxBlockSize = 64
  kSize = 168
  kRegionSize = 176
  kFreeMask = 16777216
  kHashTableSize = 2
  Keys <- MCKeys
  Values <- MCValues
  key_hash <- MCHash
CHECK_DEADLOCK FALSE
INVARIANT DelReturns
