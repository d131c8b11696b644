SPECIFICATION Spec
CONSTANTS
  Stride = 3
  MaxNew = 3
  MaxCreated = 6
INVARIANTS AllVisible DistanceAgrees
PROPERTY ImplementsList
CHECK_DEADLOCK FALSE
