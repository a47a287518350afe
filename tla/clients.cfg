SPECIFICATION FairSystemSpec
CONSTANTS
    Servers <- ThreeServers
    Config <- Ascending
    Clients = {c}
    None = None
    MaxMishaps = 1
INVARIANTS
    SystemTypeOK
    ServedByTheLowest
    NoneLowerIsAlive
    AtMostOnePrimary
PROPERTIES
    PrimaryOnlyGrows
    ServesAsPromised
    PrimaryIsFound
    RegisteredClientsAreServed
CHECK_DEADLOCK FALSE
