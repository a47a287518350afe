SPECIFICATION FairSpec
CONSTANTS
    a = a
    b = b
    x = x
    y = y
    hi = hi
    r1 = r1
    Clients = {a, b}
    Names = {x}
    Texts = {hi, Blank}
    Blank = Blank
    Replicas = {r1}
    Delivery = Delivery
    None = None
    InitAccounts = {}
    Ops <- LiveOps
    MaxRequests = 3
PROPERTIES
    EveryRequestIsAnswered
    EverythingIsDelivered
CHECK_DEADLOCK FALSE
