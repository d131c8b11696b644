SPECIFICATION FairSpec
CONSTANTS
  Labels = {lab}
  None = None
  Plain = Plain
  Bad = Bad
  Threshold = 1
  Cpus = 2
  MaxLen = 3
  MaxCalls = 2
INVARIANTS ResultInOrder ErrorsAreReal ReturnedIsValid NoWorkerLeft
PROPERTY EndsUnlessWorkerRaises
CHECK_DEADLOCK FALSE
