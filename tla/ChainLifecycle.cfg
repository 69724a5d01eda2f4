SPECIFICATION Spec
CONSTANTS
    MaxRetries = 2
    Urls = {u1, u2}
    Epochs <- MCEpochs
    Chains = {c1}
    None = None
    NoUrl = NoUrl
    c1 = c1
    c2 = c2
    u1 = u1
    u2 = u2
    Reports <- MCReports
    Bodies <- MCBodies
    Clients = {k1}
    AutoSubscribe = TRUE
    MaxEdits = 3
    MaxFaults = 1
    MaxStops = 1
INVARIANTS
    TypeOK
    OldListenersWriteNothing
    OneListenerPerChain
    SocketsAreHeld
    GivesUpAfterRetries
    TriggersFollowChains
PROPERTIES
    RegistryWins
CHECK_DEADLOCK FALSE
