\* Three broadcasts, a queue of two, two faults anywhere.
SPECIFICATION Spec
CONSTANTS
    c1 = c1
    c3 = c3
    c2 = c2
    Calls = {c1, c2, c3}
    NoCall = NoCall
    QMax = 2
    MaxChecks = 1
    MaxRestarts = 1
    MaxFaults = 2
    FaultPoints = {"booting", "ready", "reading", "busy"}
SYMMETRY Symmetric
INVARIANTS
    TypeOK
    OnePlace
    Phase1First
    PillMeansDrained
    GracefulStop
PROPERTY
    RefinesCallLog
\* The agent stops after SIGTERM.
CHECK_DEADLOCK FALSE
