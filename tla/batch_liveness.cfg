SPECIFICATION FairSpec
CONSTANTS
    N = 2
    Requeue = TRUE
    MaxCalls = 0
PROPERTIES CallbackEnds BatchEnds
