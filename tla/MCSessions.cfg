SPECIFICATION Spec
CONSTANTS
    None = None
    Clients = {p1, p2, p3}
    Labels = {"main", "ops"}
    Accounts = {acct}
    Tokens = {"sol", "both"}
    MaxCommands = 3
    MaxFaults = 1
    MaxMessages = 3
    MaxMessagesPerSession = 2
    Pubkeys <- Numbered
    Agents <- Numbered
    FaucetWallets <- Numbered
SYMMETRY Alike
INVARIANTS TypeOK RevokedForGood TurnsAlternate WalletsKept StoredKeyAccepted
PROPERTY OnlyRacersPay
CHECK_DEADLOCK FALSE
