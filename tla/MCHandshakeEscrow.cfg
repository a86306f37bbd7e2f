SPECIFICATION Spec
CONSTANTS
    alice = alice
    bob = bob
    op = op
    NoPool = NoPool
    NoTransfer = NoTransfer
    Wallets = {alice, bob}
    PoolIds = {p1, p2}
    Mints = {usdc, usdt}
    Keys <- OneKey
    Amounts = {2}
    FeeBps = {5000, 10001}
    Windows <- SomeWindows
    Donations = {}
    U64Max = 4
    MaxTime = 4
    Supply = 2
PROPERTY ImplementsEscrow
