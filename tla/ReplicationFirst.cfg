SPECIFICATION RSpec
CONSTANTS
  kMaxBlockSize = 64
  kSize = 120
  kRegionSize = 124
  kFreeMask = 16777216
  kHashTableSize = 1
  Keys <- MCKeys
  Values <- MCValues
  key_hash <- MCHash
CHECK_DEADLOCK FALSE
INVARIANT BackupIsReplica
