SPECIFICATION FairSpec
CONSTANTS
    Handler = Handler
    Delivery = Delivery
    MaxLength = 3
    MaxPayload = 2
    MaxId = 1
INVARIANTS
    FramingTypeOK
    PacketsStayTogether
    GivesUpOnlyIfUpset
    WholeUnlessMixed
PROPERTIES
    ServesAsChannel
    EverythingIsProcessed
CHECK_DEADLOCK FALSE
