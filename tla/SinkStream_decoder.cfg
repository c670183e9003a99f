SPECIFICATION Spec
CONSTANTS
    Ids = {s1, s2}
    Formats = {f1}
    Unsupported = {f1}
    Invalid = Invalid
    LowLatency = {}
    Latency = 1
    Capacity = 1
    MaxQueue = 1
    MaxLate = 1
INVARIANT DecoderPresent
