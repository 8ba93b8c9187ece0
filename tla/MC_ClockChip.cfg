SPECIFICATION Spec
CONSTANTS
    Table <- MCTable
    Blank <- MCBlank
    Buses <- MCBuses
    BusSetting = 0
    Selections <- MCSelections
    MaxRuns = 3
INVARIANTS
    TypeOK
    GateMeansProgrammed
    OkRunIsRight
    MismatchMeansShared
