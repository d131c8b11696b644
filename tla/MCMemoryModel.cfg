SPECIFICATION Spec
CONSTANTS
    Hierarchies <- MCHierarchies
    Ratios <- MCRatios
    LineSize = 4
    MaxIterations = 500
    MaxAccesses = 6
    MaxLoops = 9
INVARIANTS InBounds MovesKeepClasses OuterOverflows FirstLevelHits
PROPERTY IterationsFound
CHECK_DEADLOCK FALSE
