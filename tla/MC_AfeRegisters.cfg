SPECIFICATION Spec
CONSTANTS
    Functions <- MCFunctions
    Values = {1, 4}
    RawWrites <- MCRawWrites
    Profiles <- MCProfiles
INVARIANTS
    TypeOK
    OkMeansWritten
    FailedApplyIsPrefix
PROPERTIES
    OnlyOwnField
