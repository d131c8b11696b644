SPECIFICATION FairSpec
CONSTANTS
  Procs = {p1, p2}
  NoProc = NoProc
  NLayers = 2
  QuietEdits = TRUE
  MaxVersion = 1
  MaxTime = 2
  MaxImports = 3
  MaxFailures = 1
INVARIANTS TypeOK OwnSourceFresh ReadersSeeWhole SequentialLayersAgree SequentialImportCurrent
PROPERTY ImportEnds
CHECK_DEADLOCK FALSE
