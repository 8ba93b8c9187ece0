SPECIFICATION FairSpec
CONSTANTS
    BoardCount = 2
    WorkerCount = 1
    Native = {}
    Unnumbering = {}
    Measuring = {}
    Readings = {1}
    IdMax = 1
    MaxCalls = 0
PROPERTIES
    PollsGoOn
    StopEnds
CHECK_DEADLOCK FALSE
