SPECIFICATION Spec
CONSTANTS
    Regs <- MCRegs
    AddressRegs <- MCAddressRegs
    Scratch = 31
    ImmBits = 3
    UpperBits = 2
    Cases <- MCCases
    MinQueue = 2
    Ranks <- MCRanks
    MaxLoops = 5
INVARIANTS RegistersKnown NoHazards DistanceKept
PROPERTIES WalksAsPlanned BalanceEnds
CHECK_DEADLOCK FALSE
