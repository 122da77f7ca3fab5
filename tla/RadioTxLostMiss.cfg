CONSTANTS
    Frames <- SomeFrames
    Coex = TRUE
    Dmp = FALSE
    Overlap = TRUE
    NoFrame = NoFrame
    NoOutcome = NoOutcome
SPECIFICATION Spec
CHECK_DEADLOCK FALSE
PROPERTIES
    ServiceAnswered
