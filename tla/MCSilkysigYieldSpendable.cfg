SPECIFICATION Spec
CONSTANTS
    alice = alice
    bob = bob
    carol = carol
    NoAccount = NoAccount
    Nobody = Nobody
    Wallets = {alice, bob, carol}
    Owners = {alice}
    MaxOperators = 3
    Amounts = {0, 1, 2}
    Limits = {1, 3}
    Gifts = {}
    Moves = {1}
    U64Max = 3
    MaxDrift = 3
    Supply = 1
INVARIANT YieldSpendable
