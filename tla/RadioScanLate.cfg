CONSTANTS
    Hosts = {h1}
    MultiPan = TRUE
    MaxReads = 1
    Reenter = {}
    RssiTimeout = TRUE
    Nobody = Nobody
    h1 = h1
SPECIFICATION Spec
PROPERTIES RefusedOnlyWhenBusy
