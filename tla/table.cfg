SPECIFICATION Spec
CONSTANTS
    zero = zero
    a = a
    b = b
    c = c
    Address <- Addresses
    NextHop <- Hops
    ZeroAddress = zero
    TableSize = 3
    AddedStates = {"Invalid", "Discovering"}
    NoRoute = NoRoute
SYMMETRY Symmetry
INVARIANTS
    TypeOK
    OnlyFirstIsLive
PROPERTIES
    OldestRetired
    MapSpec
    OperationsOfMap
