SPECIFICATION FairSpec
CONSTANTS
    users = users
    groups = groups
    rooms = rooms
    v1 = v1
    v2 = v2
    CollectionSets = {users, groups, rooms}
    Propfind = Propfind
    text = text
    other = other
    Texts = {text, other, v1, v2}
    Directory <- MCDirectory
    FilterType = "DisplayName"
    Filter = text
    FetchProperties = {"displayname", "calendar-home-set"}
    FailCodes = {503}
    EmptySets = TRUE
PROPERTIES
    Terminates
