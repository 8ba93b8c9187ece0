SPECIFICATION Spec
CONSTANTS
    Serial = TRUE
    MaxOnLine = 3
INVARIANTS
    TypeOK
    OkPollIsOwn
