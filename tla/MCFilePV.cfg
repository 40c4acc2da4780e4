CONSTANTS
    Heights = {1, 2}
    Rounds = {0, 1}
    Contents = {c1, c2}
    Times = {t1, t2}
    None = None
    MaxReleased = 2
SPECIFICATION Spec
CONSTRAINT ReleasedBound
SYMMETRY Symmetry
INVARIANTS
    NoConflictingSignatures
    SignaturesSurvive
