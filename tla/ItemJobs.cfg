SPECIFICATION Spec
CONSTANTS
    j1 = j1
    j2 = j2
    j3 = j3
    o1 = o1
    u1 = u1
    u2 = u2
    u3 = u3
    Jobs = {j1, j2, j3}
    Others = {o1}
    Urls = {u1}
    Home <- NoRedirects
    RefusalCodes = {503}
    MaxVersions = 4
    MaxRedirects = 0
SYMMETRY JobSymmetry
INVARIANTS
    SuccessMeansDone
    RefusedMeansUntouched
    ConflictHandsOutOtherVersion
    EtagNotOlderThanWrite
PROPERTIES
    KeepsOthersEdits
