SPECIFICATION Spec
CONSTANTS
    x1 = x1
    r1 = r1
    r2 = r2
    empty = empty
    p = p
    q = q
    Journal <- MCJournal
    NoExperiment = none
    Requests <- MCRequests
    Texts <- MCTexts
    Empty = empty
    Absent = Absent
    NoList = NoList
SYMMETRY
    MCSymmetry
INVARIANTS
    ConcludedExplained
PROPERTIES
    LifecycleForward
    EditsMerge
CHECK_DEADLOCK FALSE
