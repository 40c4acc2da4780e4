\* A node at the last height has nothing left to commit: the bound, not a
\* deadlock, stops it.  CommitsEveryBlock rules out stopping earlier.
CHECK_DEADLOCK FALSE
CONSTANTS
    MaxHeight = 4
    HaltHeight = 3
    AppMayLag = TRUE
    MaxCrashes = 3
SPECIFICATION FairSpec
INVARIANTS
    NoPanic
    StoresConsistent
PROPERTIES
    CommitsEveryBlock
