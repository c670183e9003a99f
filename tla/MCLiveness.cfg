SPECIFICATION PartsFairSpec
CONSTANTS
    Paths = {x, y}
    ProbeCount = 1
    Enough = 1
    MaxCalls = 2
    MaxResults = 2
    MaxQueue = 2
INVARIANT
    ProbesAccounted
PROPERTIES
    EndedStreamStops
    InvitationAnswered
    EventuallyDelivered
    EventuallyForgotten
    SearchEnds
    BlocksTaken
CHECK_DEADLOCK FALSE
