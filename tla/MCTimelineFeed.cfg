SPECIFICATION FairSpec
CONSTANTS
    Absent = Absent
    m1 = m1
    m2 = m2
    Limit = 1
    Ranks <- MCRanks
    MaxEntries = 3
    MaxFaults = 1
    Faults = {"disconnect", "listen", "fetch", "database", "refused"}
INVARIANTS
    NothingPassed
    NoLostWakeup
PROPERTIES
    EventuallyShown
CHECK_DEADLOCK FALSE
