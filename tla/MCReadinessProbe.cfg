SPECIFICATION ProbeFairSpec
CONSTANTS
    p1 = p1
    p2 = p2
    s1 = s1
    Probes <- MCProbes
    Streams <- MCStreams
    Shutdown = shutdown
    MaxTokens = 4
    MaxClients = 3
    MaxFaults = 2
    InFlight = FALSE
    PoolSize = 2
    MaxAcquisitions = 3
    MaxBorrowed = 1
INVARIANTS
    OpenMeansListening
    PoolAccounted
PROPERTIES
    ReadinessReturns
    StopCompletes
CHECK_DEADLOCK FALSE
