SPECIFICATION Spec
CONSTANTS
    NoRow = NoRow
    NoTx = NoTx
    Keys = {k1}
    Requests = {r1, r2}
CHECK_DEADLOCK FALSE
INVARIANT StatusTellsSettlement
