SPECIFICATION Spec
CONSTANTS
    j1 = j1
    j2 = j2
    u1 = u1
    u2 = u2
    u3 = u3
    o1 = o1
    Jobs = {j1, j2}
    Others = {o1}
    Urls = {u1, u2, u3}
    Home <- MCHome
    NoLocation = NoLocation
    Kinds <- MCKinds
    NewCollections <- MCNewCollections
    Changes <- MCChanges
    RefusalCodes = {0}
    Granted <- MCGranted
    Push <- MCPush
INVARIANTS
    CreatedWasMade
