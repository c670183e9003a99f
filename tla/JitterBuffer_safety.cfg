SPECIFICATION Spec
CONSTANTS
    Sizes = {2, 3}
    Latencies = {1, 2}
    Profiles = {"none", "wired", "wireless"}
    NumFrames = 2
    EmptyBlocks = {6}
    IntMax = 8
    SearchThreshold = 2
    MaxMissing = 2
    None = None
    First = {5}
    MaxBlocks = 10
    Window = 3
INVARIANTS
    RingSound
    Consecutive
    NothingBehind
    InSync
PROPERTY
    ImplementsQueue
