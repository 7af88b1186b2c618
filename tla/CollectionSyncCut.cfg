SPECIFICATION Spec
CONSTANTS
    i1 = i1
    i2 = i2
    sub = sub
    Ids = {i1, i2, sub}
    Subcollections = {sub}
    FailCodes = {503}
    MaxChanges = 1
    MaxFaults = 1
INVARIANTS
    SuccessIsWhole
