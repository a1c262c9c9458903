\* One fault: the worker is killed while it waits inside get().
SPECIFICATION FairSpec
CONSTANTS
    c1 = c1
    c2 = c2
    c3 = c3
    Calls = {c1, c2}
    NoCall = NoCall
    QMax = 2
    MaxChecks = 0
    MaxRestarts = 1
    MaxFaults = 1
    FaultPoints = {"reading"}
PROPERTY QueuedSettles
CHECK_DEADLOCK FALSE
