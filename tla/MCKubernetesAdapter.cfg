SPECIFICATION FairSpec
CONSTANTS
    c1 = c1
    c2 = c2
    o1 = o1
    o2 = o2
    ns = ns
    Absent = Absent
    Collections <- MCCollections
    Objects <- MCObjects
    Requested <- MCRequested
    UsefulLabels <- MCUseful
    MapLimit = 2
    ConditionLimit = 2
    OwnerLimit = 1
    MaxRevision = 4
    BufferLimit = 2
INVARIANTS
    ListIsSnapshot
    ReleasedOnceOver
PROPERTIES
    ImplementsStream
    NoLostWakeup
CHECK_DEADLOCK FALSE
