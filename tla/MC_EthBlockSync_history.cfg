\* The two writers of an ETH account's ledger disagree on a reverted ether send: the ingester debits its value as well as its gas.
CONSTANTS
    g = g  a = a  b = b  c = c  a2 = a2  b2 = b2  t1 = t1  t2 = t2
    NoBlock = NoBlock  Pending = Pending  NoRow = NoRow
    Me = Me  Other = Other  Token = Token  NoTx = NoTx  proxy = proxy
    Contents <- MCContents
    ZxProxy <- proxy
    Blocks <- MCBlocks
    Parent <- MCParent
    Genesis <- g
    Txids <- MCTxids
    TxsOf <- MCTxsOf
    MaxMoves = 0
    MaxFails = 0
SPECIFICATION Spec
INVARIANT HistoryAgreesWithIngester
