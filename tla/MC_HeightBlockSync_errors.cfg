\* Tendermint alone: one error answer in poll_blocks orphans the latest
\* block and heights are skipped.
CONSTANTS
    Networks = {"tendermint"}
    Consumers = {}
    c1 = c1
    c2 = c2
    g = g  a = a  b = b  c = c  t1 = t1  t2 = t2
    NoBlock = NoBlock  Pending = Pending  NoRow = NoRow
    Blocks <- MCBlocks
    Parent <- MCParent
    Genesis <- g
    Txids <- MCTxids
    TxsOf <- MCTxsOf
    MaxMoves = 3
    MaxErrors = 1
    MaxPageErrors = 0
    Lags = FALSE
    NoHash = NoHash
    SyncNetworks = {}
    EosLow = 21
    EosHigh = 1
    MaxSyncs = 0
SPECIFICATION Spec
PROPERTY EventuallyComplete
