\* One address of each network SyncAccountBasedBalancesPage serves (ETH on
\* each of BalancePage's three paths), a node whose balances change once
\* (by a block or by a reorganisation) and one error answer: what
\* BalancePage reports converges.
CONSTANTS
    Networks <- MCNetworks
    Amounts = {0, 1}
    MaxChanges = 1
    MaxFails = 1
    NoRow = NoRow  Failed = Failed  NoneAns = NoneAns  NoneStr = NoneStr  Miss = Miss
SPECIFICATION Spec
INVARIANT TypeOK
PROPERTY PageConverges
