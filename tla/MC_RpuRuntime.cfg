SPECIFICATION RuntimeSpec
CONSTANTS
    AfeCount = 2
    ChannelCount = 1
    MaxRecords = 2
    Conditions = {"clock_ready"}
    FaultCodes = {0, 1}
    SequenceMax = 1
    MaxFrames = 8
INVARIANTS
    RuntimeTypeOK
    StagingAgreement
    StagedSinceBegin
    TornApplyIsPrefix
PROPERTIES
    HardwareOnlyOnFullStage
