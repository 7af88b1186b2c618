SPECIFICATION FairSpec
CONSTANTS
    j1 = j1
    j2 = j2
    j3 = j3
    o1 = o1
    u1 = u1
    u2 = u2
    u3 = u3
    Jobs = {j1, j2}
    Others = {}
    Urls = {u1, u2, u3}
    Home <- OneRedirect
    RefusalCodes = {503}
    MaxVersions = 3
    MaxRedirects = 0
INVARIANTS
    SuccessMeansDone
PROPERTIES
    ActsOnce
    Terminates
