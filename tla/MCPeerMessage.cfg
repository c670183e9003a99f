SPECIFICATION PartsFairSpec
CONSTANTS
    Sizes = {1, 4}
    maxsize = 2
    Binary = FALSE
    MaxMessages = 3
CONSTRAINT OneMultiFrame
INVARIANTS
    InOrder
    DeliveredIntact
    BufferContiguous
    ForgottenIsReceived
PROPERTIES
    ImplementsChannel
    ConnectedTogether
