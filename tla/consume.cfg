SPECIFICATION FairSpec
CONSTANTS
    Workers = {w1, w2}
    Roots = {r1}
    Copies = {c1}
    Batch = 2
    None = None
INVARIANTS TypeOK NeverLost PoolStaysWhole
PROPERTIES NothingStartsAfterReturn ConsumeReturns
CHECK_DEADLOCK FALSE
