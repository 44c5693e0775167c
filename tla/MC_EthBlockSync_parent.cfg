\* process_blocks never compares a block's parentHash with the block it recorded before.
CONSTANTS
    g = g  a = a  b = b  c = c  a2 = a2  b2 = b2  t1 = t1  t2 = t2
    NoBlock = NoBlock  Pending = Pending  NoRow = NoRow
    Me = Me  Other = Other  Token = Token  NoTx = NoTx  proxy = proxy
    Contents <- MCContents
    ZxProxy <- proxy
    Blocks <- MCBlocks
    Parent <- MCParent
    Genesis <- g
    Txids <- MCTxids
    TxsOf <- MCTxsOf
    MaxMoves = 3
    MaxFails = 0
SPECIFICATION Spec
INVARIANT LiveChainLinked
