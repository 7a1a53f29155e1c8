SPECIFICATION Spec
CONSTANTS
    m1 = m1
    m2 = m2
    r1 = r1
    r2 = r2
    Members <- MCMembers
    NoMember = NoMember
    Requests <- MCRequests
    Unhealthy <- MCUnhealthy
    MaxVersion = 3
    MaxEntries = 3
    PageLimit = 2
SYMMETRY MCSymmetry
INVARIANTS
    RecoveryIsLater
    ReviewedOnce
    UnreadAgrees
