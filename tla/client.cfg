SPECIFICATION Spec
CONSTANTS
    Callers = {c1, c2}
    N = 2
    Attempts = 2
    Cautious = FALSE
    FailAfter = 1
    OpenFor = 1
    CallOps = {"produce"}
    OnceOps = {}
    Replies <- SteadyReplies
INVARIANTS TypeOK HalfOpenHasProbe DoubtIsReported
PROPERTY CallsAsPromised
SYMMETRY CallerSymmetry
