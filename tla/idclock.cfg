SPECIFICATION Spec
CONSTANTS
    Threads = {t1, t2}
    Times = {1, 2, 3}
    MaxSeq = 2
    Width = 8
    NoOne = NoOne
INVARIANT TypeOK
PROPERTY SortedByCreation
