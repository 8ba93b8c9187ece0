SPECIFICATION Spec
CONSTANTS
    AfeCount = 2
    PerDac = 2
    MaxValue = 1
    Configurations <- MCConfigurations
    BusyMayStick = TRUE
    MaxCommands = 2
INVARIANTS
    TypeOK
    CachesSound
    CompletedWriteHolds
PROPERTIES
    BiasOnAtAskedValue
