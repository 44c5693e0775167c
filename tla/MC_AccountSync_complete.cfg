\* A soft and a hard-refresh registration racing: a COMPLETE account with
\* addresses missing.
CONSTANTS
    GapLimit = 2
    Used <- MCUsed
    MaxRegs = 2
    MaxUnregs = 0
    MaxFails = 1
    MaxAsks = 0
    MaxPays = 0
    Sats <- MCSats
    Requests <- MCRequests
    FeePerKb = 100000
    InputSize = 149
    OutputSize = 34
    OverheadSize = 26
    MinRelayFee = 3000
SPECIFICATION Spec
INVARIANT CompleteMeansScanned
CHECK_DEADLOCK FALSE
