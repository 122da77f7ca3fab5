CONSTANTS
    b1 = b1
    b2 = b2
    Buffers <- TwoBuffers
    QueueLen = 2
    MultiPan = FALSE
    MaxIid = 0
    Initialized <- NoMultiPan
    MaxFrames = 4
    NoBuffer = NoBuffer
    NoFrame = NoFrame
SPECIFICATION Spec
INVARIANTS
    DeliveredOnce
CHECK_DEADLOCK FALSE
