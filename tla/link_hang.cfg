SPECIFICATION SketchSpec
CONSTANTS
    Lengths = {2}
    HeaderLen = 2
    MaxArrivals = 2
    MaxSends = 2
    MaxPending = 0
    Sketches = {"client", "server"}
PROPERTY WaitPacketSentReturns
CHECK_DEADLOCK FALSE
