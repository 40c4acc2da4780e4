SPECIFICATION Spec
CONSTANTS
    alice = alice
    bob = bob
    carol = carol
    Addrs <- MCAddrs
    FeeCollector = carol
    Genesis <- MCGenesis
    Txs <- MCTxs
    Submitted <- MCSubmitted
    Blocks <- MCBlocks
    AnteGas = 1
    MaxGas = 5
    MinGasPrices <- MCPrice
    NoPrice = NoPrice
    None = None
    KeepRecents = {0, 1}
    MaxHeight = 3
    MaxCrashes = 2
CHECK_DEADLOCK FALSE
INVARIANTS
    LedgerSound
    ExecutedOnce
    StoresFollowChain
PROPERTIES
    AllOrFee
    Continues
