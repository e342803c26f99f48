SPECIFICATION MCSpec
CONSTANTS
  Starts = {4, 8, 28, 48}
  Lengths = {0, 4, 22}
  MaxLen = 4
CHECK_DEADLOCK FALSE
INVARIANTS
  MergeIsClustering
  PiecesDoNotMatter
  VariantsAgree
  HashSeparates
  RoutedToSlice
