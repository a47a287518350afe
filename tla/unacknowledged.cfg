SPECIFICATION Spec
CONSTANTS
    a = a
    b = b
    x = x
    y = y
    hi = hi
    r1 = r1
    Clients = {a}
    Names = {x}
    Texts = {hi, Blank}
    Blank = Blank
    Replicas = {r1}
    Delivery = Delivery
    None = None
    InitAccounts = {}
    Ops <- SendOps
    MaxRequests = 3
INVARIANTS
    AcknowledgedByAll
CHECK_DEADLOCK FALSE
