CONSTANTS
    Hosts = {h1, h2, h3}
    MultiPan = TRUE
    MaxReads = 1
    Reenter = {"txDone"}
    RssiTimeout = FALSE
    Nobody = Nobody
    h1 = h1
    h2 = h2
    h3 = h3
SPECIFICATION Spec
INVARIANTS TypeOK NoAssertFails AnswersMatch OneOperation AccountedFor
PROPERTIES RefusedOnlyWhenBusy AllAnswered
