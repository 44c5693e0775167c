\* Soft and hard-refresh registrations (again for a stuck account), an
\* unregistration, a failure or worker death, an
\* address request and a payment, in every order.
CONSTANTS
    GapLimit = 2
    Used <- MCUsed
    MaxRegs = 1
    MaxUnregs = 1
    MaxFails = 1
    MaxAsks = 1
    MaxPays = 1
    Sats <- MCSats
    Requests <- MCRequests
    FeePerKb = 100000
    InputSize = 149
    OutputSize = 34
    OverheadSize = 26
    MinRelayFee = 3000
SPECIFICATION Spec
INVARIANT TypeOK
PROPERTY SyncingRecovers
INVARIANT UnsignedTxBalanced
CHECK_DEADLOCK FALSE
