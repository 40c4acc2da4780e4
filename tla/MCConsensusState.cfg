CONSTANTS
    me = me
    p1 = p1
    p2 = p2
    B1 = B1
    B2 = B2
    Bad = Bad
    Nil = Nil
    None = None
    Me = me
    Validators <- MCValidators
    Quorum <- MCQuorum
    Proposer <- MCProposer
    Blocks <- MCBlocks
    ValidBlocks <- MCBlocks
    OwnBlock = B2
    MaxRound = 1
    PeerVotes <- TwoRoundVotes
    WaitForTxs = FALSE
    EmptyBlocksInterval = FALSE
SPECIFICATION Spec
CHECK_DEADLOCK FALSE
INVARIANTS
    AssertionsHold
    PolkasJustify
PROPERTIES
    VotingDiscipline
