SPECIFICATION Spec
CONSTANTS
    Node = {1, 2, 3}
    Broadcast = 255
    MaxHops = 2
    Settings <- Late
    MaxSends = 2
    StaleOctets = {0}
    EmptyMessages = {}
    None = None
INVARIANTS
    RoutesLeadOn
CHECK_DEADLOCK FALSE
