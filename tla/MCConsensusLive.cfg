CONSTANTS
    me = me
    p1 = p1
    p2 = p2
    B1 = B1
    B2 = B2
    Bad = Bad
    Nil = Nil
    None = None
    Me = me
    Validators <- MCValidators
    Quorum <- MCQuorum
    Proposer <- MCProposer
    Blocks <- BlocksWithBad
    ValidBlocks <- OnlyValid
    OwnBlock = B1
    MaxRound = 1
    PeerVotes <- BadBlockVotes
    WaitForTxs = TRUE
    EmptyBlocksInterval = TRUE
SPECIFICATION FairSpec
CHECK_DEADLOCK FALSE
INVARIANTS
    OwnVotesAreValid
PROPERTIES
    StepsAreLeft
