\* A block orphaned and then canonical again is never un-orphaned, so the frontier never reaches it.
CONSTANTS
    g = g  a = a  b = b  c = c  a2 = a2  b2 = b2  t1 = t1  t2 = t2
    NoBlock = NoBlock  Pending = Pending  NoRow = NoRow
    ad1 = ad1  ad2 = ad2  ad3 = ad3  AmtExt = AmtExt  NoAddr = NoAddr
    AmtAccount <- MCAmtAccount
    AddrChunkSize = 2
    FundIn = 5
    Blocks <- MCBlocks
    Parent <- MCParent
    Genesis <- g
    Txids <- MCTxids
    TxsOf <- MCTxsOf
    MaxMoves = 3
    MaxFails = 0
    MaxScans = 0
SPECIFICATION Spec
PROPERTY EventuallyCaughtUp
