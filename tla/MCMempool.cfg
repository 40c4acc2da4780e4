\* Nothing more happens once the bounds on commits, connections and accepted
\* transactions are used up.
CHECK_DEADLOCK FALSE
CONSTANTS
    t1 = t1
    t2 = t2
    Txs <- MCTxs
    PeerTxs = {t1}
    Configs <- MCConfigs
    TxLen <- MCTxLen
    TxGas <- MCTxGas
    Peers = {1}
    Size = 2
    MaxPendingTxsBytes = 3
    CacheSize = 1
    MaxTxBytes = {2}
    MaxElems = 4
    FirstHeight = 1
    MaxHeight = 2
SPECIFICATION Spec
INVARIANTS
    PoolSound
    ProposalsAreSound
    ConsensusIsTold
PROPERTIES
    Gossiped
