SPECIFICATION Spec
CONSTANTS
    Handler = Handler
    Delivery = Delivery
    MaxLength = 3
    MaxPayload = 2
    MaxId = 0
INVARIANT
    OnlyWholeMessagesAreProcessed
CHECK_DEADLOCK FALSE
