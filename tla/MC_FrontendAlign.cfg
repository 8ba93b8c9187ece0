SPECIFICATION Spec
CONSTANTS
    AfeCount = 2
    Taps = 5
    Slips = 2
    VerifyReads = 1
INVARIANTS
    TypeOK
    DelayIsMiddleOfLongestRun
    AlignedInEye
    VtcOnAgain
    FullAnswerIsByAfe
