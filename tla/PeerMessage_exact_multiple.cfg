SPECIFICATION Spec
CONSTANTS
    Sizes = {4}
    maxsize = 2
    Binary = TRUE
    MaxMessages = 1
INVARIANTS
    DeliveredIntact
