SPECIFICATION Spec
CONSTANTS
    a = a
    b = b
    c = c
    Node <- TwoNodes
    Broadcast = Broadcast
    NoFrame = NoFrame
    OctetSize = 3
    CounterSize = 2
    Retries = 1
    Fits = {TRUE, FALSE}
    PlainSendto = TRUE
    Restartable <- TwoNodes
    MaxSends = 3
SYMMETRY Symmetry
CONSTRAINT FewSends
INVARIANTS
    TypeOK
    InOrder
    OrderInv
