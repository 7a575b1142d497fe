SPECIFICATION TreeSpec
CONSTANTS
    Ids = {1}
    MaxNodes = 4
    MaxChildren = 2
    MaxHandles = 2
INVARIANTS
    TreeTypeOK
    TablesAgree
    ParentsHaveTheirChildren
    OnePlaceUnlessListed
    NothingLeaks
CHECK_DEADLOCK FALSE
