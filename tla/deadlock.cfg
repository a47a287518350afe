SPECIFICATION Spec
CONSTANTS
    a = a
    b = b
    x = x
    y = y
    hi = hi
    r1 = r1
    Clients = {a, b}
    Names = {x}
    Texts = {hi, Blank}
    Blank = Blank
    Replicas = {r1}
    Delivery = Delivery
    None = None
    InitAccounts = {}
    Ops <- CreateLogin
    MaxRequests = 2
INVARIANTS
    NoCircularWait
CHECK_DEADLOCK FALSE
