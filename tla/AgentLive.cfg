\* Faults anywhere but inside get().
SPECIFICATION FairSpec
CONSTANTS
    c1 = c1
    c3 = c3
    c2 = c2
    Calls = {c1, c2}
    NoCall = NoCall
    QMax = 2
    MaxChecks = 1
    MaxRestarts = 1
    MaxFaults = 2
    FaultPoints = {"booting", "busy"}
PROPERTIES
    ListenerNeverBlocks
    DeadWorkerNoticed
    QueuedSettles
    StopReachesExit
CHECK_DEADLOCK FALSE
