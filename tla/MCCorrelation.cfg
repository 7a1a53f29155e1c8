SPECIFICATION Spec
CONSTANTS
    s1 = s1
    a = a
    b = b
    r1 = r1
    r2 = r2
    m1 = m1
    m2 = m2
    Absent = Absent
    opaque = opaque
    MaxEntries = 2
    MaxDay = 3
    MaxDays = 2
    Window = 1
    Sources <- MCSources
    Subjects <- MCSubjects
    SubjectOf <- MCSubjectOf
    NoSource = nosource
    Requests <- MCRequests
SYMMETRY
    MCSymmetry
INVARIANTS
    DecisionsStand
    ConfirmedShowsLink
PROPERTIES
    OnlyExpired
CHECK_DEADLOCK FALSE
