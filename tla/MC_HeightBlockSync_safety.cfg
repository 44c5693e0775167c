\* The three height walks under a lagging node and error answers of block
\* and hash reads: complete recorded blocks, and (XRP, FIO) no height left
\* behind.
CONSTANTS
    Networks = {"tendermint", "xrp", "fio", "bnb", "eos"}
    Consumers = {c1, c2}
    g = g  a = a  b = b  c = c  t1 = t1  t2 = t2  c1 = c1  c2 = c2
    NoBlock = NoBlock  Pending = Pending  NoRow = NoRow
    Blocks <- MCBlocks
    Parent <- MCParent
    Genesis <- g
    Txids <- MCTxids
    TxsOf <- MCTxsOf
    MaxMoves = 3
    MaxErrors = 1
    MaxPageErrors = 0
    Lags = TRUE
    NoHash = NoHash
    SyncNetworks = {"tendermint", "xrp", "fio", "bnb", "eos"}
    Consumers = {c1, c2}
    EosLow = 21
    EosHigh = 1
    MaxSyncs = 1
SPECIFICATION Spec
INVARIANT TypeOK
INVARIANT LiveBlocksComplete
INVARIANT EosRowsPaired
PROPERTY NoHeightSkipped
PROPERTY WalkRefined
