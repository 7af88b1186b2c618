SPECIFICATION FairSpec
CONSTANTS
    i1 = i1
    i2 = i2
    sub = sub
    Ids = {i1, i2, sub}
    Subcollections = {sub}
    FailCodes = {0, 503}
    MaxChanges = 2
    MaxFaults = 2
INVARIANTS
    TokenMeansWhole
    NoChangeMissed
PROPERTIES
    KeepsReplica
    CatchesUp
