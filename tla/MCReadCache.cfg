SPECIFICATION Spec
CONSTANTS
    t1 = t1
    t2 = t2
    p1 = p1
    p2 = p2
    p3 = p3
    NoPoint = NoPoint
    Tasks = {t1, t2}
    Points = {p1, p2, p3}
    Entries = 2
    TTL = 2
    MaxHold = 1
    MaxNow = 5
    MaxWrites = 1
SYMMETRY Symmetric
INVARIANTS
    TypeOK
    OneEntryPerPoint
    OldValueOnlyFromOverlappingRead
    ShownValueIsRecent
PROPERTIES
    OnlyOldestMakesRoom
