SPECIFICATION FairSpec
CONSTANTS
    Powers <- SomePowers
    Frequencies <- SomeFrequencies
    Preambles = {8, 338}
    Strays = {0, 128}
    MaxResets = 2
    MaxCalls = 1
INVARIANTS CommandsInStep RepliesInStep ConfigurationHeld
PROPERTY Recovers
CHECK_DEADLOCK FALSE
