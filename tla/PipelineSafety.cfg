\* One call, two requests at once, two faults, one operator request.
SPECIFICATION Spec
CONSTANTS
    t1 = t1
    t2 = t2
    c1 = c1
    c2 = c2
    Calls = {c1}
    NoCall = NoCall
    Threads = {t1, t2}
    NoThread = NoThread
    MaxEdits = 1
    MaxChecks = 2
    MaxFaults = 2
SYMMETRY Symmetric
INVARIANTS
    PipelineTypeOK
    AnnouncedOnce
    SessionClosed
    FinalMeansComplete
    ShownIsStored
PROPERTY
    NothingErased
\* Tasks stop arriving.
CHECK_DEADLOCK FALSE
