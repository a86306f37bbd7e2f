------------------------------- MODULE Clients -------------------------------
(***************************************************************************)
(* The instructions of the clients of the two programs                     *)
(* (handshake-client.ts and silkysig-client.ts): which accounts they name, *)
(* in the order of the programs' IDLs.  What a client reads from the chain *)
(* to do so is a parameter.                                                *)
(***************************************************************************)
EXTENDS Transactions

PoolPda == Key("pool")

TransferPda(sender, recipient, nonce) ==
    Pda(<<"transfer">> \o sender.name \o recipient.name \o <<nonce>>)

InitPoolIx(operator, mint, feeBps) ==
    Ix("handshake", "init_pool",
       <<operator, Key(mint), PoolPda, Ata(mint, PoolPda), Key("token"), Key("ata"),
         Key("system"), Key("rent")>>, [feeBps |-> feeBps])

CreateTransferIx(t, mint) ==
    Ix("handshake", "create_transfer",
       <<t.sender, PoolPda, Key(mint), Ata(mint, PoolPda), Ata(mint, t.sender), t.pda,
         Key("token"), Key("system"), Key("ata")>>,
       [recipient |-> t.recipient, amount |-> t.amount, memo |-> t.memo])

ClaimTransferIx(recipient, pda, sender, mint) ==
    Ix("handshake", "claim_transfer",
       <<recipient, PoolPda, Key(mint), Ata(mint, PoolPda), Ata(mint, recipient), pda,
         sender, Key("token")>>, <<>>)

CancelTransferIx(sender, pda, mint) ==
    Ix("handshake", "cancel_transfer",
       <<sender, PoolPda, Key(mint), Ata(mint, PoolPda), Ata(mint, sender), pda,
         Key("token")>>, <<>>)

(***************************************************************************)
(* Silkysig.  An account's address is derived from its owner.              *)
(***************************************************************************)
AccountPda(owner) == Pda(<<"account">> \o owner.name)

DriftDepositAccounts(pda) ==
    <<Key("driftState"), Pda(<<"driftUser">> \o pda.name), Pda(<<"driftStats">> \o pda.name),
      Key("spotVault"), Key("drift"), Key("oracle"), Key("spotMarket")>>

DriftWithdrawAccounts(pda) ==
    SubSeq(DriftDepositAccounts(pda), 1, 4) \o <<Key("driftSigner")>>
    \o SubSeq(DriftDepositAccounts(pda), 5, 7)

AddOperatorIx(owner, pda, operator, limit) ==
    Ix("silkysig", "add_operator", <<owner, pda>>,
       [operator |-> operator, perTxLimit |-> limit])

RemoveOperatorIx(owner, pda, operator) ==
    Ix("silkysig", "remove_operator", <<owner, pda>>, [operator |-> operator])

TogglePauseIx(owner, pda) == Ix("silkysig", "toggle_pause", <<owner, pda>>, <<>>)

InitDriftIx(owner, pda, mint) ==
    Ix("silkysig", "init_drift_user",
       <<owner, pda, Key(mint), Ata(mint, pda), Pda(<<"driftUser">> \o pda.name),
         Pda(<<"driftStats">> \o pda.name), Key("driftState"), Key("spotVault"),
         Key("spotMarket"), Key("oracle"), Key("drift"), Key("token"), Key("rent"),
         Key("system")>>, <<>>)

\* Without an operator none is added; a Drift user left by an account closed before is
\* not made again.
CreateAccountIxs(owner, mint, operator, limit, hasDriftStats) ==
    LET pda == AccountPda(owner)
    IN  <<Ix("silkysig", "create_account",
             <<owner, Key(mint), pda, Ata(mint, pda), Key("token"), Key("ata"),
               Key("system")>>, <<>>)>>
        \o (IF operator = Unresolved THEN <<>> ELSE <<AddOperatorIx(owner, pda, operator, limit)>>)
        \o (IF hasDriftStats THEN <<>> ELSE <<InitDriftIx(owner, pda, mint)>>)

DepositIx(depositor, pda, account, amount) ==
    Ix("silkysig", "deposit",
       <<depositor, pda, Key(account.mint), Ata(account.mint, pda),
         Ata(account.mint, depositor), Key("token")>>
       \o (IF account.drift THEN DriftDepositAccounts(pda) ELSE <<>>),
       [amount |-> amount])

TransferFromAccountIx(signer, pda, account, recipient, amount) ==
    Ix("silkysig", "transfer_from_account",
       <<signer, pda, Key(account.mint), Ata(account.mint, pda),
         recipient, Ata(account.mint, recipient), Key("token"), Key("ata"),
         Key("system")>>
       \o (IF account.drift THEN DriftWithdrawAccounts(pda) ELSE <<>>),
       [amount |-> amount])

CloseAccountIx(owner, pda, account) ==
    Ix("silkysig", "close_account",
       <<owner, pda, Key(account.mint), Ata(account.mint, pda),
         Ata(account.mint, owner), Key("token"), Key("ata"), Key("system")>>
       \o (IF account.drift THEN DriftWithdrawAccounts(pda) ELSE <<>>), <<>>)
==============================================================================
