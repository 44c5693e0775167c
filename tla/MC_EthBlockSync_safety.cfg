\* The ETH ingester under reorgs and failures never records two live blocks at one height.
CONSTANTS
    g = g  a = a  b = b  c = c  a2 = a2  b2 = b2  t1 = t1  t2 = t2
    NoBlock = NoBlock  Pending = Pending  NoRow = NoRow
    Me = Me  Other = Other  Token = Token  NoTx = NoTx  proxy = proxy
    Contents <- MCContents
    ZxProxy <- proxy
    Blocks <- MCBlocks
    Parent <- MCParent
    Genesis <- g
    Txids <- MCTxids
    TxsOf <- MCTxsOf
    MaxMoves = 4
    MaxFails = 2
SPECIFICATION Spec
INVARIANT TypeOK
INVARIANT OneLivePerHeight
INVARIANT Erc20FeeRecordedOnce
