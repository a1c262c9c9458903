\* Two calls, two events under way, one repetition, one reload, one replay.
SPECIFICATION Spec
CONSTANTS
    c1 = c1
    c2 = c2
    p1 = p1
    Calls = {c1, c2}
    Past = {p1}
    NoCall = NoCall
    AutoDismiss = TRUE
    MaxEvents = 2
    MaxAgain = 1
    MaxReloads = 1
    MaxReplays = 1
SYMMETRY Symmetric
INVARIANTS
    KioskTypeOK
    NoCallTwice
    NoneLost
    StaysDismissed
    ShowsLatest
\* Calls stop coming.
CHECK_DEADLOCK FALSE
