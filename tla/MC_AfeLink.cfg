SPECIFICATION FairSpec
CONSTANTS
    AfeCount = 1
    ChannelCount = 1
    MaxRecords = 1
    Conditions = {"clock_ready"}
    FaultCodes = {0}
    SequenceMax = 6
    MaxFrames = 12
    AfeCommands <- MCCommands
    MaxRequests = 3
    MaxRestarts = 1
INVARIANTS
    TypeOK
    FramesNumbered
    SuccessIsCurrent
    SuccessAfterOwnBegin
PROPERTIES
    RuntimeSpec
    Promised
    RequestsEnd
