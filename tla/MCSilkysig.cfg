SPECIFICATION Spec
CONSTANTS
    alice = alice
    bob = bob
    carol = carol
    NoAccount = NoAccount
    Nobody = Nobody
    Wallets = {alice, bob, carol}
    Owners = {alice, bob}
    MaxOperators = 3
    Amounts = {0, 1, 2}
    Limits = {1}
    Gifts = {0, 1}
    Moves = {1}
    U64Max = 2
    MaxDrift = 2
    Supply = 1
SYMMETRY OwnersAlike
CONSTRAINT SecondAccountBound
INVARIANTS TypeOK SlotsCompact
PROPERTIES NothingLeftBehind PrincipalBacked ImplementsMandate
