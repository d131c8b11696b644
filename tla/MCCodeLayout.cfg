SPECIFICATION LayoutSpec
CONSTANTS
  Stride = 2
  MaxNew = 2
  MaxCreated = 6
  MaxBlocks = 2
INVARIANTS OnePlace IndexRight
PROPERTY OrderKept
CHECK_DEADLOCK FALSE
