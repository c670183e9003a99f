SPECIFICATION PartsSpec
CONSTANTS
    Sinks = {s1}
    Added = {s1}
    Nobody = Nobody
    QueueSize = 1
    HistorySize = 2
    MaxCalls = 2
    MaxMessages = 1
    MaxBlocks = 2
    MaxStreams = 2
    Memory = {f1, f2, f3, f4}
    Null = Null
    Clients = {a, b}
    HostUsers = {h}
    Names = {G}
    None = None
    Fds = {1, 2}
SYMMETRY Symmetry
CONSTRAINT OneDisturbance
INVARIANTS
    StreamConsistent
    ActiveSinkAnnounced
    NeverAhead
    AsksForMissing
    ResamplerSound
    FramesSound
    MessagesOnTime
    SessionAgrees
    ClientsServed
PROPERTY
    RequestsSpaced
CHECK_DEADLOCK FALSE
