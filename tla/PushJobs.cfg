SPECIFICATION FairSpec
CONSTANTS
    c1 = c1
    c2 = c2
    Clients = {c1, c2}
    Watchers = {c2}
    CollectionUrl <- MCCollectionUrl
    Registrations <- MCRegistrations
    NoUrl = NoUrl
    Lifetime = 2
    Horizon = 1
    FailCodes = {410}
    MaxFaults = 1
    MaxChanges = 1
INVARIANTS
    RegistrationKnown
PROPERTIES
    OthersAreNotified
    UnregisteredMeansGone
    EventuallySilent
CHECK_DEADLOCK FALSE
