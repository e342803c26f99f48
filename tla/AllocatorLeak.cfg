SPECIFICATION Spec
CONSTANTS
  kMaxBlockSize = 48
  kSize = 180
  kRegionSize = 180
  kFreeMask = 65536
  Sizes = {24, 40}
  Fills = {32}
CHECK_DEADLOCK FALSE
INVARIANT
  FreeBlocksListed
