SPECIFICATION Spec
CONSTANTS
    a = a
    b = b
    x = x
    y = y
    hi = hi
    r1 = r1
    Clients = {a, b}
    Names = {x, y}
    Texts = {hi, Blank}
    Blank = Blank
    Replicas = {r1}
    Delivery = Delivery
    None = None
    InitAccounts = {x, y}
    Ops <- NoMessages
    MaxRequests = 4
SYMMETRY Symmetry
INVARIANTS
    NoDuplicateAccounts
    OneAccountPerClient
    SessionsAreRegistered
    SessionsAreKnown
    AccountsInSync
    SessionsInSync
    ClientsKeepTheirSession
    LocksAreReleased
CHECK_DEADLOCK FALSE
