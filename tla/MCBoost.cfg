SPECIFICATION FairSpec
CONSTANTS
    Users = {u1}
    HasStateTask = TRUE
    MaxEvents = 3
INVARIANTS
    TypeOK
PROPERTIES
    BoostEnds
    EndedBoostIsForgotten
