\* Two calls, one request at a time, one fault, no operator; with fairness.
SPECIFICATION FairSpec
CONSTANTS
    t1 = t1
    t2 = t2
    c1 = c1
    c2 = c2
    Calls = {c1, c2}
    NoCall = NoCall
    Threads = {t1}
    NoThread = NoThread
    MaxEdits = 0
    MaxChecks = 1
    MaxFaults = 1
PROPERTY
    TaskEnds
\* Tasks stop arriving.
CHECK_DEADLOCK FALSE
