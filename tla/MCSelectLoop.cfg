CONSTANTS
    EpsInv = 1000
    Inf = Inf
    NaN = NaN
    MaxMembers = 3
    Weights = {1, 2, 5}
    MaxSessions = 3
    Farms <- MCFarms
SPECIFICATION FairSpec
INVARIANTS
    TypeOK
    PickIsInMinGroup
    GroupIsMinGroup
    PickUnderShare
PROPERTIES
    SelectionEnds
CHECK_DEADLOCK FALSE
