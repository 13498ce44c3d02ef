SPECIFICATION Spec
CONSTANTS
    Clients = {c1, c2, c3}
    Attempts = 2
INVARIANTS TypeOK EnsuresAgree DeletesOne ConditionalOnce
SYMMETRY ClientSymmetry
CHECK_DEADLOCK FALSE
