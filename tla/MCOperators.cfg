SPECIFICATION Spec
CONSTANTS
    None = None
    Wallets = {bob, carol}
    MaxOperators = 2
    Requests = {r1, r2}
SYMMETRY Alike
INVARIANTS TypeOK MirrorExact
