\* An EOS address: SyncAccountBasedBalancesPage has no EOS branch, so a
\* balance change no ingester reads (or an error answer written as 0) is
\* never repaired.
CONSTANTS
    Networks <- MCEosNetworks
    Amounts = {0, 1}
    MaxChanges = 1
    MaxFails = 1
    NoRow = NoRow  Failed = Failed  NoneAns = NoneAns  NoneStr = NoneStr  Miss = Miss
SPECIFICATION Spec
PROPERTY PageConverges
\* with the node quiet and no block pending, nothing of an EOS address moves
CHECK_DEADLOCK FALSE
