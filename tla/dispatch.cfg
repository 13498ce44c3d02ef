SPECIFICATION FairSpec
CONSTANTS
    AutoExtend = TRUE
    Requeue = TRUE
    Leased = TRUE
    Attempts = 2
    MaxCalls = 2
INVARIANTS TypeOK QuietAtSettle CancelsOnlyLostLeases NoSilentRedelivery
PROPERTIES DeliversAsPromised DispatchEnds
