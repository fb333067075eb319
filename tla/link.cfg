SPECIFICATION FairSpec
CONSTANTS
    Lengths = {1, 2}
    HeaderLen = 2
    MaxArrivals = 2
    MaxSends = 2
    MaxPending = 1
INVARIANTS TypeOK NeverStarved NotDeaf ModesAgree
PROPERTIES CompletePacketsUndisturbed TransmissionCompleted WaitPacketSentReturnsUndisturbed
