CONSTANTS
    b1 = b1
    b2 = b2
    Buffers <- TwoBuffers
    QueueLen = 2
    MultiPan = TRUE
    MaxIid = 2
    Initialized <- BothHosts
    MaxFrames = 3
    NoBuffer = NoBuffer
    NoFrame = NoFrame
SPECIFICATION Spec
INVARIANTS
    TypeOK
    PoolConservation
    ArrivalOrder
    RightRecipients
PROPERTIES
    BlockStable
    QueueDrains
CHECK_DEADLOCK FALSE
