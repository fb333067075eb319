SPECIFICATION SketchSpec
CONSTANTS
    Node = {1, 2}
    Client = 1
    Server = 2
    Broadcast = 255
    NoFrame = NoFrame
    OctetSize = 4
    CounterSize = 4
    Retries = 1
    Fits = {TRUE}
    PlainSendto = FALSE
    Restartable = {}
    MaxSends = 3
INVARIANTS
    AckedImpliesDelivered
    RetransmissionsBounded
    ReplyAnswersRequest
PROPERTIES
    AckedReachesSketch
    BothReturn
    ImplementsAcknowledgedService
CHECK_DEADLOCK FALSE
