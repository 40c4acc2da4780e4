\* A node that decided the last height, that refuses to start on a corrupted
\* log or that panicked does nothing more.
CHECK_DEADLOCK FALSE
CONSTANTS
    Own = {o1, o2}
    Peer = {q1}
    MaxHeight = 2
    HeadLimit = 4
    TotalLimit = 100
    MaxCrashes = 2
SPECIFICATION Spec
INVARIANTS
    ShouldNotHappen
