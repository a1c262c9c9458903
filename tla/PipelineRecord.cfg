\* One call, one fault: what a phase 1 save that failed leaves of the record.
SPECIFICATION Spec
CONSTANTS
    t1 = t1
    t2 = t2
    c1 = c1
    c2 = c2
    Calls = {c1}
    NoCall = NoCall
    Threads = {t1}
    NoThread = NoThread
    MaxEdits = 0
    MaxChecks = 1
    MaxFaults = 1
INVARIANT
    FullRecord
CHECK_DEADLOCK FALSE
