SPECIFICATION Spec
CONSTANTS
    Requests <- MCRequests
    InitialChains <- MCInitialChains
    InitialRows <- MCInitialRows
    Pools <- MCPools
    Accounts <- MCAccounts
    MaxMoves = 1
INVARIANTS
    TypeOK
    BuiltDoesAsked
    BuiltMatches
    VerifiedDoesAsked
    MatchIsAssignment
    ProceedIsIntended
