CONSTANTS
    Frames <- SomeFrames
    Coex = FALSE
    Dmp = FALSE
    Overlap = TRUE
    NoFrame = NoFrame
    NoOutcome = NoOutcome
SPECIFICATION Spec
INVARIANTS
    WindowTracked
