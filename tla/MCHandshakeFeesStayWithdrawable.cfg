SPECIFICATION Spec
CONSTANTS
    alice = alice
    bob = bob
    op = op
    NoPool = NoPool
    NoTransfer = NoTransfer
    Wallets = {alice, bob}
    PoolIds = {p1}
    Mints = {usdc}
    Keys <- OneKey
    Amounts = {2}
    FeeBps = {5000}
    Windows <- SomeWindows
    Donations = {}
    U64Max = 4
    MaxTime = 4
    Supply = 2

INVARIANT FeesStayWithdrawable
