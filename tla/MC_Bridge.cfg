SPECIFICATION Spec
CONSTANTS
    BoardCount = 1
    WorkerCount = 1
    Native = {1}
    Unnumbering = {1}
    Measuring = {}
    Readings = {1}
    IdMax = 2
    MaxCalls = 1
INVARIANTS
    TypeOK
    AnswersAreOwn
    NodesAreOfOnePoll
PROPERTIES
    NoAnswerLost
CHECK_DEADLOCK FALSE
