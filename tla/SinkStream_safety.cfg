SPECIFICATION Spec
CONSTANTS
    Ids = {s1, s2}
    Formats = {f1, f2, f3}
    Unsupported = {f3}
    LowLatency = {f2}
    Invalid = Invalid
    Latency = 1
    Capacity = 1
    MaxQueue = 1
    MaxLate = 1
SYMMETRY Symmetry
INVARIANTS
    OnlyCurrentStream
    DecoderFits
PROPERTIES
    IdleStays
