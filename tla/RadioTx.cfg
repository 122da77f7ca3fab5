CONSTANTS
    Frames <- SomeFrames
    Coex = TRUE
    Dmp = TRUE
    Overlap = FALSE
    NoFrame = NoFrame
    NoOutcome = NoOutcome
SPECIFICATION Spec
INVARIANTS
    TypeOK
    FlagsAgree
    NoAssertFails
    AckDecides
    NeverIdledUnderTx
PROPERTIES
    ServiceSafety
    ServiceAnswered
