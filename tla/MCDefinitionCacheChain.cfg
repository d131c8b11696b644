SPECIFICATION Spec
CONSTANTS
  Procs = {p1, p2}
  NoProc = NoProc
  NLayers = 2
  QuietEdits = TRUE
  MaxVersion = 1
  MaxTime = 2
  MaxImports = 3
  MaxFailures = 1
INVARIANT LayersAgree

CHECK_DEADLOCK FALSE
