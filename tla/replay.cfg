SPECIFICATION FairSpec
CONSTANTS
    P = 2
    Unreadable = {1}
    Patience = 2
    MaxNext = 2
    MaxDelay = 2
    MaxCall = 1
INVARIANTS TypeOK NilIsComplete PatienceBounds
PROPERTIES ScansAsPromised ReplayEnds
