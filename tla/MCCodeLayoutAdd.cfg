SPECIFICATION LayoutSpec
CONSTANTS
  Stride = 10
  MaxNew = 2
  MaxCreated = 5
  MaxBlocks = 2
INVARIANT AddedRightAfter
CHECK_DEADLOCK FALSE
