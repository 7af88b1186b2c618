SPECIFICATION MultiFairSpec
CONSTANTS
    s1 = s1
    s2 = s2
    s3 = s3
    Sources = {s1, s2, s3}
    h1 = h1
    h2 = h2
    c1 = c1
    c2 = c2
    book = book
    folder = folder
    inbox = inbox
    HomeSets = {h1, h2}
    Principal = Principal
    Direct = Direct
    Collections = {c1, c2, book, folder, inbox}
    ProtocolOf <- MCProtocolOf
    ResourceType <- MCResourceType
    Advertised <- MCAdvertised
    Contents <- MCContents
    FailCodes = {0, 403}
    MaxRounds = 3
INVARIANTS
    CombinesSubjobs
    SuccessIsComplete
    FailureReturnsNothing
    HomeSetFailureRetryable
    ErrorMatchesCode
    AtMostTwoRounds
PROPERTIES
    MultiDeliversOneResult
    MultiTerminates
    DeliversOneResult
