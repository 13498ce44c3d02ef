SPECIFICATION Spec
CONSTANTS
    Callers = {c1}
    N = 3
    Attempts = 3
    Cautious = TRUE
    FailAfter = 2
    OpenFor = 2
    CallOps = {"produce", "ack"}
    OnceOps = {"ack"}
    Replies <- MixedReplies
INVARIANT CautiousAtMostOnce
PROPERTY CallsAsPromised
