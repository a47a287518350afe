SPECIFICATION Spec
CONSTANTS
    a = a
    b = b
    x = x
    y = y
    hi = hi
    r1 = r1
    Clients = {a, b}
    Names = {x}
    Texts = {hi, Blank}
    Blank = Blank
    Replicas = {r1}
    Delivery = Delivery
    None = None
    InitAccounts = {x}
    Ops <- AccountOps
    MaxRequests = 4
INVARIANTS
    OneSessionPerAccount
CHECK_DEADLOCK FALSE
