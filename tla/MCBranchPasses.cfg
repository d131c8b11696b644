SPECIFICATION Spec
CONSTANTS
    Stride = 3
    FreeRegisters = 2
    RegisterLimit = 2
    Cases <- MCCases
INVARIANTS TypeOK TargetsAgree
PROPERTIES RunsInOrder TakenSwitches
