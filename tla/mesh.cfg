SPECIFICATION FairSpec
CONSTANTS
    Node = {1, 2, 3, 4}
    Broadcast = 255
    MaxHops = 2
    Settings <- Chosen
    MaxSends = 1
    StaleOctets = {0, 1, 2, 3, 4}
    EmptyMessages = {1}
    None = None
INVARIANTS
    TypeOK
    OneCopy
    DiscoveredRoutesLeadOn
    PathsAreWalked
PROPERTIES
    ImplementsService
    DiscoverySucceeds
    Settles
CHECK_DEADLOCK FALSE
