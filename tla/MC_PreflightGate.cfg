SPECIFICATION Spec
CONSTANTS
    CheckCount = 2
    Ttl = 2
    AlignReads = 2
    MaxTime = 4
INVARIANTS
    TypeOK
PROPERTIES
    SubmitOnlyChecked
    RejectOnlySick
