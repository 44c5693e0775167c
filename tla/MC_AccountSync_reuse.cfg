\* One registration and one address request while the initial sync runs:
\* an address with history is handed out.
CONSTANTS
    GapLimit = 2
    Used <- MCUsed
    MaxRegs = 1
    MaxUnregs = 0
    MaxFails = 0
    MaxAsks = 1
    MaxPays = 0
    Sats <- MCSats
    Requests <- MCRequests
    FeePerKb = 100000
    InputSize = 149
    OutputSize = 34
    OverheadSize = 26
    MinRelayFee = 3000
SPECIFICATION Spec
INVARIANT IssuedAddressesFresh
CHECK_DEADLOCK FALSE
