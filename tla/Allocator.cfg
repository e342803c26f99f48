SPECIFICATION Spec
CONSTANTS
  kMaxBlockSize = 64
  kSize = 200
  kRegionSize = 200
  kFreeMask = 65536
  Sizes = {24, 40, 56}
  Fills = {32}
CHECK_DEADLOCK FALSE
INVARIANTS
  TypeOK
  BlocksTileHeap
  FreeTagsAgree
  FreeListsSound
  LiveDataIntact
  OnlyOffsetAssertFails
PROPERTY
  ModificationsCover
