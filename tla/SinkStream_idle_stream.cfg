SPECIFICATION Spec
CONSTANTS
    Ids = {s1, s2}
    Formats = {f1}
    Unsupported = {}
    Invalid = Invalid
    LowLatency = {}
    Latency = 1
    Capacity = 1
    MaxQueue = 1
    MaxLate = 2
INVARIANT IdleMeansStopped
