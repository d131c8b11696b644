SPECIFICATION Spec
CONSTANTS
    MaxThreads = 2
    Passes <- MCPasses
    Kind <- MCKind
    Subject <- MCSubject
    NoLabel = NoLabel
    BasicVars <- MCBasicVars
    Vars <- MCVars
    Size <- MCSize
    Align <- MCAlign
    Preset <- MCPreset
    NoAddress = NoAddress
    EnvReserved <- MCEnvReserved
    DataSegment = 16
    MaxPasses = 3
    MaxSynths = 2
INVARIANTS TypeOK PrologueComplete PlacedDisjoint ContextOfThread FaultsExplained
