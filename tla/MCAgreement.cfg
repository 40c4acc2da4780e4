CONSTANTS
    c1 = c1
    c2 = c2
    c3 = c3
    f1 = f1
    b1 = b1
    b2 = b2
    Nil = Nil
    Validators <- MCValidators
    Correct <- MCCorrect
    Quorum <- MCQuorum
    Blocks <- MCBlocks
    Rounds = {0, 1}
SPECIFICATION WorstSpec
SYMMETRY Symmetry
CHECK_DEADLOCK FALSE
INVARIANTS
    AgreementOK
