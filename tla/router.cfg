SPECIFICATION FairSpec
CONSTANTS
    Node <- FourNodes
    Broadcast = 255
    Settings <- BothEnds
    MaxHops = 2
    Wirings <- Wired
    MaxSends = 1
    MaxChanges = 1
    None = None
INVARIANTS
    TypeOK
    OneCopy
PROPERTIES
    ImplementsService
    Settles
    Arrives
CHECK_DEADLOCK FALSE
