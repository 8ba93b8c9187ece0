SPECIFICATION Spec
CONSTANTS
    AfeCount = 1
    ChannelCount = 1
    MaxRecords = 1
    Conditions = {"clock_ready"}
    FaultCodes = {0}
    SequenceMax = 16
    MaxFrames = 12
    AfeCommands <- MCCommands
    MaxRequests = 3
    MaxRestarts = 0
INVARIANTS
    SuccessMeansConfigured
