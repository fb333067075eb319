SPECIFICATION Spec
CONSTANTS
    a = a
    b = b
    c = c
    Node <- TwoNodes
    Broadcast = Broadcast
    NoFrame = NoFrame
    OctetSize = 4
    CounterSize = 16
    Retries = 0
    Fits = {TRUE}
    PlainSendto = FALSE
    Restartable <- OnlyA
    MaxSends = 2
INVARIANTS
    AckedImpliesDelivered
