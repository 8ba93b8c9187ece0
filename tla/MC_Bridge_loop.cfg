SPECIFICATION FairSpec
CONSTANTS
    BoardCount = 1
    WorkerCount = 1
    Native = {1}
    Unnumbering = {}
    Measuring = {1}
    Readings = {1}
    IdMax = 1
    MaxCalls = 1
PROPERTIES
    LoopReturns
CHECK_DEADLOCK FALSE
