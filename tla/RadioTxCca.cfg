CONSTANTS
    Frames <- SomeFrames
    Coex = TRUE
    Dmp = TRUE
    Overlap = FALSE
    NoFrame = NoFrame
    NoOutcome = NoOutcome
SPECIFICATION Spec
INVARIANTS
    CcaFailureMeansNotSent
