SPECIFICATION FairSpec
CONSTANTS
    Peers = {p, q}
    Direct = FALSE
    HasRelay = TRUE
    internal_relay = TRUE
    ProbeCount = 1
    ProbeTime = 1
    Interval = 1
PROPERTY
    ConnectedTogether
CHECK_DEADLOCK FALSE
