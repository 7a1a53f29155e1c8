SPECIFICATION WebFairSpec
CONSTANTS
    olga = olga
    pavel = pavel
    e1 = e1
    r1 = r1
    r2 = r2
    n1 = n1
    n2 = n2
    Absent = Absent
    Identities <- MCIdentities
    NoOne = noone
    Bootstrap = olga
    Emails <- MCEmails
    EmailOf <- MCEmailOf
    Requests <- MCRequests
    LocalSessions = TRUE
    MaxInvitations = 2
    MaxAudit = 5
    MaxLines = 2
    MaxBytes = 5
    Operations = {"logs", "configure", "decide"}
    Namespaces <- MCNamespaces
    Texts <- MCTexts
    Tails = {2}
    MaxHandlers = 2
    Trail <- MCTrail
INVARIANTS
    OwnerRemains
    AuditExplains
    EffectsAuthorized
    WindowsAccounted
    ClusterKeepsIdentity
PROPERTIES
    AllRequestsEnd
CHECK_DEADLOCK FALSE
