CONSTANTS
    Hosts = {h1}
    MultiPan = TRUE
    MaxReads = 1
    Reenter = {"txDone", "scanDone"}
    RssiTimeout = FALSE
    Nobody = Nobody
    h1 = h1
SPECIFICATION Spec
INVARIANTS NoAssertFails
