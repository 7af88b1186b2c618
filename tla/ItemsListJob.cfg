SPECIFICATION Spec
CONSTANTS
    i1 = i1
    i2 = i2
    e1 = e1
    e2 = e2
    Ids = {i1, i2}
    Etags = {e1, e2}
    NoEntry = NoEntry
    Queries <- MCQueries
    OtherType = "vcard"
    TypeOf <- MCTypeOf
    InRange <- MCInRange
    Absent = Absent
    NotListed = NotListed
    FailCodes = {503}
    MaxChanges = 2
INVARIANTS
    TypeOK
    ClassificationExact
    DeletedWasMissing
    ListedOnceAndNotDeleted
    FailureReported
PROPERTIES
    DeliversOneResult
SYMMETRY EtagSymmetry
