SPECIFICATION ListenerFairSpec
CONSTANTS
    p1 = p1
    p2 = p2
    Probes <- MCTwoProbes
    Streams <- MCNoStreams
    Shutdown = shutdown
    MaxTokens = 4
    MaxClients = 2
    MaxFaults = 1
    InFlight = FALSE
PROPERTIES
    StopCompletes
CHECK_DEADLOCK FALSE
