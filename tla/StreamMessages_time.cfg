SPECIFICATION Spec
CONSTANTS
    Block = 2
    Group = 1
    QueueSizes = {1, 2}
    MaxOffset = 3
    MaxMessages = 1
    MaxBlocks = 3
    MaxStreams = 1
INVARIANT
    StreamTime
CHECK_DEADLOCK FALSE
