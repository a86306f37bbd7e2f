SPECIFICATION Spec
CONSTANTS
    alice = alice
    bob = bob
    op = op
    NoPool = NoPool
    NoTransfer = NoTransfer
    Wallets = {alice, bob, op}
    PoolIds = {p1}
    Mints = {usdc}
    Keys <- TwoKeys
    Amounts = {0, 1, 2}
    FeeBps = {5000}
    Windows <- SomeWindows
    Donations = {1}
    U64Max = 4
    MaxTime = 4
    Supply = 2
INVARIANTS TypeOK TotalsMatchTransfers Solvent NoOrphanTransfer FundsNeverStuck SettledOneWay
