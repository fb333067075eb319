SPECIFICATION Spec
CONSTANTS
    ClockSize = 64
    TimeoutSize = 16
    RandomSize = 4
    MinTimeouts = {0, 3, 8}
    MaxTimeouts = {0, 1, 7, 15}
    UartTimeout = 6
    MaxDelay = 2
INVARIANTS NeverEarly NeverLate
