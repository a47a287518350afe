SPECIFICATION Spec
CONSTANTS
    a = a
    b = b
    x = x
    y = y
    Servers <- ThreeServers
    Clients = {a, b}
    Names = {x}
    Delivery = Delivery
    None = None
    InitAccounts = {}
    MaxRequests = 4
    MaxEnds = 1
    MaxCrashes = 2
SYMMETRY Symmetry
INVARIANTS
    FailoverTypeOK
    AcceptedIsKept
    RedeliveryNeedsACrash
    SessionsSurvive
    SessionsHaveConnections
    AccountsAgree
PROPERTY
    KeepsMail
CHECK_DEADLOCK FALSE
