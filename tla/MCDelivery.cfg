SPECIFICATION MCFairSpec
CONSTANTS
    oldJob = oldJob
    newJob = newJob
    oldPod = oldPod
    newPod = newPod
    Migrators <- MCMigrators
    Services <- MCServices
    Schema <- MCSchema
    BackoffLimit = 1
    MaxFaults = 3
    Numbers = {1, 2}
    Capacity <- MCCapacity
    MaxChanges = 2
    MaxErrors = 1
INVARIANTS
    ServingIsMigrated
    SchemaIsWhole
    FailuresExplained
    LabelledIsProvisioned
PROPERTIES
    ReleaseComesUp
    PreviewsConverge
CHECK_DEADLOCK FALSE
