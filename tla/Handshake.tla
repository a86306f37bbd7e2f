----------------------------- MODULE Handshake -----------------------------
(***************************************************************************)
(* The Handshake escrow program (anchor/programs/handshake/src).           *)
(*                                                                         *)
(* A pool holds the tokens of every open transfer made in it, in one token *)
(* account (its vault), and keeps running totals of them.  A transfer is   *)
(* an account whose address is derived from <<sender, recipient, nonce>>;  *)
(* it exists from create_transfer to the one instruction that settles it.  *)
(*                                                                         *)
(* Every instruction is one Solana transaction: it runs alone and either   *)
(* commits whole or changes nothing, so it is one action here, guarded by  *)
(* its Accounts constraints, its require!s and its checked arithmetic.     *)
(***************************************************************************)
EXTENDS Integers, FiniteSets

CONSTANTS
    Wallets,        \* signers: senders, recipients and pool operators
    PoolIds,        \* pool_id values a pool PDA can be derived from
    Mints,          \* token mints
    Keys,           \* the <<sender, recipient, nonce>> a transfer PDA is derived from
    Amounts,        \* amounts asked for in create_transfer
    FeeBps,         \* transfer_fee_bps asked for in init_pool
    Windows,        \* <<claimable_after, claimable_until>> asked for, 0 for "none"
    Donations,      \* amounts a third party may send straight to a vault
    U64Max,         \* largest u64: every checked_add fails above it
    MaxTime,        \* bound on the clock
    Supply,         \* tokens of every mint a wallet starts with
    NoPool,         \* a pool_id with no pool account
    NoTransfer      \* a key with no transfer account

VARIABLES
    clock,          \* Clock::get()?.unix_timestamp
    pools,          \* pool accounts, by pool_id
    transfers,      \* transfer accounts, by key
    vault,          \* tokens in the associated account of <<pool, mint>>
    balance,        \* tokens in the associated account of <<wallet, mint>>
    accounts        \* the <<wallet, mint>> whose associated account exists

vars == <<clock, pools, transfers, vault, balance, accounts>>

MaxBps == 10000

Pool ==
    [operator : Wallets, mint : Mints, transfer_fee_bps : 0..MaxBps,
     total_deposits : Nat, total_withdrawals : Nat, total_escrowed : Nat,
     total_transfers_created : Nat, total_transfers_resolved : Nat,
     collected_fees : Nat, is_paused : BOOLEAN]

SecureTransfer ==
    [pool : PoolIds, amount : 1..U64Max, claimable_after : Nat, claimable_until : Nat]

\* The configurations that make sense.  No pool or transfer record equals the
\* value that stands for a missing account.
ASSUME ConstantsAssumption ==
    /\ Keys \subseteq Wallets \X Wallets \X Nat
    /\ IsFiniteSet(Keys)
    /\ Amounts \subseteq Nat
    /\ FeeBps \subseteq Nat
    /\ Windows \subseteq Nat \X Nat
    /\ Donations \subseteq Nat \ {0}
    /\ U64Max \in Nat
    /\ MaxTime \in Nat
    /\ Supply \in Nat
    /\ NoPool \notin Pool
    /\ NoTransfer \notin SecureTransfer

Sender(k) == k[1]
Recipient(k) == k[2]

\* The keys whose transfer account exists, and those of pool p.
Open == {k \in Keys : transfers[k] # NoTransfer}
OpenIn(p) == {k \in Open : transfers[k].pool = p}
Live == {p \in PoolIds : pools[p] # NoPool}

TypeOK ==
    /\ clock \in Nat
    /\ pools \in [PoolIds -> Pool \cup {NoPool}]
    /\ transfers \in [Keys -> SecureTransfer \cup {NoTransfer}]
    /\ vault \in [PoolIds \X Mints -> Nat]
    /\ balance \in [Wallets \X Mints -> Nat]
    /\ accounts \subseteq Wallets \X Mints

Init ==
    /\ clock = 1
    /\ pools = [p \in PoolIds |-> NoPool]
    /\ transfers = [k \in Keys |-> NoTransfer]
    /\ vault = [pm \in PoolIds \X Mints |-> 0]
    /\ balance = [wm \in Wallets \X Mints |-> Supply]
    /\ accounts = Wallets \X Mints

----------------------------------------------------------------------------
(* Pool arithmetic (state/pool.rs)                                         *)

\* Rounds down; the u128 product cannot overflow.
TransferFee(pool, amount) == (amount * pool.transfer_fee_bps) \div MaxBps

CanAddDeposit(pool, amount) ==
    /\ pool.total_deposits + amount <= U64Max
    /\ pool.total_escrowed + amount <= U64Max
    /\ pool.total_transfers_created + 1 <= U64Max

\* Faulty variant: a deposit that leaves total_transfers_created alone.
AddDepositForgettingCount(pool, amount) ==
    [pool EXCEPT !.total_deposits = @ + amount, !.total_escrowed = @ + amount]

\* add_deposit, then increment_transfers_created.
AddDeposit(pool, amount) ==
    [pool EXCEPT !.total_deposits = @ + amount,
                 !.total_escrowed = @ + amount,
                 !.total_transfers_created = @ + 1]

CanAddWithdrawal(pool, amount) ==
    /\ pool.total_withdrawals + amount <= U64Max
    /\ pool.total_escrowed >= amount
    /\ pool.total_transfers_resolved + 1 <= U64Max

\* Faulty variant: a withdrawal taken twice from the escrow total.
AddWithdrawalTwice(pool, amount) ==
    [pool EXCEPT !.total_withdrawals = @ + amount,
                 !.total_escrowed = @ - 2 * amount,
                 !.total_transfers_resolved = @ + 1]

\* add_withdrawal, then increment_transfers_resolved.
AddWithdrawal(pool, amount) ==
    [pool EXCEPT !.total_withdrawals = @ + amount,
                 !.total_escrowed = @ - amount,
                 !.total_transfers_resolved = @ + 1]

AddCollectedFees(pool, fee) == [pool EXCEPT !.collected_fees = @ + fee]

\* Faulty variant: fees paid out and not zeroed.
KeepCollectedFees(pool) == pool

ResetCollectedFees(pool) == [pool EXCEPT !.collected_fees = 0]

\* reset_pool: collected_fees restarts with the totals.
ResetCounters(pool) ==
    [pool EXCEPT !.total_deposits = 0, !.total_withdrawals = 0, !.total_escrowed = 0,
                 !.total_transfers_created = 0, !.total_transfers_resolved = 0,
                 !.collected_fees = 0]

\* Faulty variant: one open transfer goes unnoticed.
HasOutstandingOffByOne(pool) ==
    pool.total_transfers_created > pool.total_transfers_resolved + 1

HasOutstandingTransfers(pool) ==
    pool.total_transfers_created > pool.total_transfers_resolved

----------------------------------------------------------------------------
(* Transfer time rules (state/secure_transfer.rs)                          *)

ValidWindow(after, until) ==
    /\ (after > 0 /\ until > 0) => after < until
    /\ after > 0 => after >= clock
    /\ until > 0 => until >= clock

\* Faulty variant: claimable_after is not enforced.
InClaimWindowByDeadlineOnly(t) == t.claimable_until > 0 => clock <= t.claimable_until

InClaimWindow(t) ==
    /\ t.claimable_after > 0 => clock >= t.claimable_after
    /\ t.claimable_until > 0 => clock <= t.claimable_until

\* Faulty variant: expiry one second early.
IsExpiredAtDeadline(t) == t.claimable_until > 0 /\ clock >= t.claimable_until

IsExpired(t) == t.claimable_until > 0 /\ clock > t.claimable_until

----------------------------------------------------------------------------
(* Pool management                                                         *)

NewPool(w, m, bps) ==
    [operator |-> w, mint |-> m, transfer_fee_bps |-> bps,
     total_deposits |-> 0, total_withdrawals |-> 0, total_escrowed |-> 0,
     total_transfers_created |-> 0, total_transfers_resolved |-> 0,
     collected_fees |-> 0, is_paused |-> FALSE]

\* init_pool: the pool account and its vault are both `init`, so neither may exist.
InitPool(w, p, m, bps) ==
    /\ pools[p] = NoPool
    /\ bps <= MaxBps
    /\ pools' = [pools EXCEPT ![p] = NewPool(w, m, bps)]
    /\ UNCHANGED <<clock, transfers, vault, balance, accounts>>

IsOperator(w, p) == pools[p] # NoPool /\ pools[p].operator = w

\* pause_pool
PausePool(w, p, paused) ==
    /\ IsOperator(w, p)
    /\ pools' = [pools EXCEPT ![p].is_paused = paused]
    /\ UNCHANGED <<clock, transfers, vault, balance, accounts>>

\* withdraw_fees
WithdrawFees(w, p) ==
    LET m == pools[p].mint
        fees == pools[p].collected_fees
    IN  /\ IsOperator(w, p)
        /\ fees > 0
        /\ <<w, m>> \in accounts
        /\ vault[<<p, m>>] >= fees
        /\ vault' = [vault EXCEPT ![<<p, m>>] = @ - fees]
        /\ balance' = [balance EXCEPT ![<<w, m>>] = @ + fees]
        /\ pools' = [pools EXCEPT ![p] = ResetCollectedFees(@)]
        /\ UNCHANGED <<clock, transfers, accounts>>

\* reset_pool: the totals restart and so does collected_fees; the vault keeps its tokens.
ResetPool(w, p) ==
    /\ IsOperator(w, p)
    /\ ~HasOutstandingTransfers(pools[p])
    /\ pools' = [pools EXCEPT ![p] = ResetCounters(@)]
    /\ UNCHANGED <<clock, transfers, vault, balance, accounts>>

\* close_pool: the SPL token program closes only an empty account, so the
\* withdrawal must empty the vault or the transaction fails.
ClosePool(w, p, amount) ==
    LET m == pools[p].mint
    IN  /\ IsOperator(w, p)
        /\ ~HasOutstandingTransfers(pools[p])
        /\ <<w, m>> \in accounts
        /\ amount <= vault[<<p, m>>]
        /\ vault[<<p, m>>] - amount = 0
        /\ vault' = [vault EXCEPT ![<<p, m>>] = @ - amount]
        /\ balance' = [balance EXCEPT ![<<w, m>>] = @ + amount]
        /\ pools' = [pools EXCEPT ![p] = NoPool]
        /\ UNCHANGED <<clock, transfers, accounts>>

----------------------------------------------------------------------------
(* The life of a transfer                                                  *)

\* create_transfer: the pool is not part of the derived address, so a key that
\* is open in any pool blocks the `init` of the transfer account.
CreateTransfer(k, p, amount, window) ==
    LET m == pools[p].mint
        s == Sender(k)
    IN  /\ pools[p] # NoPool
        /\ transfers[k] = NoTransfer
        /\ <<s, m>> \in accounts
        /\ ~pools[p].is_paused
        /\ amount > 0
        /\ balance[<<s, m>>] >= amount
        /\ ValidWindow(window[1], window[2])
        /\ CanAddDeposit(pools[p], amount)
        /\ balance' = [balance EXCEPT ![<<s, m>>] = @ - amount]
        /\ vault' = [vault EXCEPT ![<<p, m>>] = @ + amount]
        /\ transfers' = [transfers EXCEPT ![k] =
               [pool |-> p, amount |-> amount,
                claimable_after |-> window[1], claimable_until |-> window[2]]]
        /\ pools' = [pools EXCEPT ![p] = AddDeposit(@, amount)]
        /\ UNCHANGED <<clock, accounts>>

\* What must hold, beyond the claim window and the recipient's token account, for
\* a claim to commit.
CanClaim(k) ==
    LET t == transfers[k]
        p == t.pool
        fee == TransferFee(pools[p], t.amount)
    IN  /\ pools[p] # NoPool
        /\ fee <= t.amount
        /\ vault[<<p, pools[p].mint>>] >= t.amount - fee
        /\ CanAddWithdrawal(pools[p], t.amount)
        /\ pools[p].collected_fees + fee <= U64Max

\* claim_transfer: no check of is_paused.  The signer's own token account is paid.
ClaimTransfer(w, k) ==
    LET t == transfers[k]
        p == t.pool
        m == pools[p].mint
        fee == TransferFee(pools[p], t.amount)
        net == t.amount - fee
    IN  /\ transfers[k] # NoTransfer
        /\ w = Recipient(k)
        /\ InClaimWindow(t)
        /\ CanClaim(k)
        /\ <<w, m>> \in accounts
        /\ vault' = [vault EXCEPT ![<<p, m>>] = @ - net]
        /\ balance' = [balance EXCEPT ![<<w, m>>] = @ + net]
        /\ pools' = [pools EXCEPT ![p] =
               AddCollectedFees(AddWithdrawal(@, t.amount), fee)]
        /\ transfers' = [transfers EXCEPT ![k] = NoTransfer]
        /\ UNCHANGED <<clock, accounts>>

\* What must hold, beyond the sender's token account, for a refund to commit.
CanRefund(k) ==
    LET t == transfers[k]
        p == t.pool
    IN  /\ pools[p] # NoPool
        /\ vault[<<p, pools[p].mint>>] >= t.amount
        /\ CanAddWithdrawal(pools[p], t.amount)

\* The part the five refunding instructions share: the full amount back to the
\* sender, the totals updated, the transfer account closed.
Refund(k) ==
    LET t == transfers[k]
        p == t.pool
        m == pools[p].mint
        s == Sender(k)
    IN  /\ CanRefund(k)
        /\ <<s, m>> \in accounts
        /\ vault' = [vault EXCEPT ![<<p, m>>] = @ - t.amount]
        /\ balance' = [balance EXCEPT ![<<s, m>>] = @ + t.amount]
        /\ pools' = [pools EXCEPT ![p] = AddWithdrawal(@, t.amount)]
        /\ transfers' = [transfers EXCEPT ![k] = NoTransfer]
        /\ UNCHANGED <<clock, accounts>>

\* cancel_transfer, signed by the sender
CancelTransfer(w, k) ==
    /\ transfers[k] # NoTransfer
    /\ w = Sender(k)
    /\ Refund(k)

\* decline_transfer, signed by the recipient
DeclineTransfer(w, k) ==
    /\ transfers[k] # NoTransfer
    /\ w = Recipient(k)
    /\ Refund(k)

\* reject_transfer, signed by the pool's operator
RejectTransfer(w, k) ==
    /\ transfers[k] # NoTransfer
    /\ IsOperator(w, transfers[k].pool)
    /\ Refund(k)

\* destroy_transfer, signed by the operator of a paused pool
DestroyTransfer(w, k) ==
    /\ transfers[k] # NoTransfer
    /\ IsOperator(w, transfers[k].pool)
    /\ pools[transfers[k].pool].is_paused
    /\ Refund(k)

\* expire_transfer, signed by anyone
ExpireTransfer(k) ==
    /\ transfers[k] # NoTransfer
    /\ transfers[k].claimable_until > 0
    /\ IsExpired(transfers[k])
    /\ Refund(k)

----------------------------------------------------------------------------
(* The environment                                                         *)

\* The cluster's clock advances.
Tick ==
    /\ clock < MaxTime
    /\ clock' = clock + 1
    /\ UNCHANGED <<pools, transfers, vault, balance, accounts>>

\* Anyone may send tokens to a vault without the program's knowledge.
Donate(w, p, amount) ==
    LET m == pools[p].mint
    IN  /\ pools[p] # NoPool
        /\ <<w, m>> \in accounts
        /\ balance[<<w, m>>] >= amount
        /\ balance' = [balance EXCEPT ![<<w, m>>] = @ - amount]
        /\ vault' = [vault EXCEPT ![<<p, m>>] = @ + amount]
        /\ UNCHANGED <<clock, pools, transfers, accounts>>

\* An owner may close an empty token account, and anyone may open it again.
CloseTokenAccount(w, m) ==
    /\ <<w, m>> \in accounts
    /\ balance[<<w, m>>] = 0
    /\ accounts' = accounts \ {<<w, m>>}
    /\ UNCHANGED <<clock, pools, transfers, vault, balance>>

OpenTokenAccount(w, m) ==
    /\ <<w, m>> \notin accounts
    /\ accounts' = accounts \cup {<<w, m>>}
    /\ UNCHANGED <<clock, pools, transfers, vault, balance>>

----------------------------------------------------------------------------
PoolStep ==
    \E w \in Wallets, p \in PoolIds :
        \/ \E m \in Mints, bps \in FeeBps : InitPool(w, p, m, bps)
        \/ \E paused \in BOOLEAN : PausePool(w, p, paused)
        \/ WithdrawFees(w, p)
        \/ ResetPool(w, p)
        \/ \E amount \in 0..U64Max : ClosePool(w, p, amount)

TransferStep ==
    \E k \in Keys :
        \/ \E p \in PoolIds, amount \in Amounts, window \in Windows :
               CreateTransfer(k, p, amount, window)
        \/ ExpireTransfer(k)
        \/ \E w \in Wallets :
               \/ ClaimTransfer(w, k)
               \/ CancelTransfer(w, k)
               \/ DeclineTransfer(w, k)
               \/ RejectTransfer(w, k)
               \/ DestroyTransfer(w, k)

EnvironmentStep ==
    \/ Tick
    \/ \E w \in Wallets, p \in PoolIds, amount \in Donations : Donate(w, p, amount)
    \/ \E w \in Wallets, m \in Mints : CloseTokenAccount(w, m) \/ OpenTokenAccount(w, m)

Next == PoolStep \/ TransferStep \/ EnvironmentStep

Spec == Init /\ [][Next]_vars

----------------------------------------------------------------------------
(* Properties                                                              *)

\* One element for every token unit owed to an open transfer of pool p.
EscrowUnits(p) ==
    {u \in OpenIn(p) \X (1..U64Max) : u[2] <= transfers[u[1]].amount}

\* The running totals of a pool always agree with the transfer accounts that
\* exist: create/claim/cancel/.../reset_pool in any order never lets
\* created - resolved or total_escrowed drift from the open transfers.
TotalsMatchTransfers ==
    \A p \in Live :
        /\ pools[p].total_transfers_created =
               pools[p].total_transfers_resolved + Cardinality(OpenIn(p))
        /\ pools[p].total_escrowed = Cardinality(EscrowUnits(p))
        /\ pools[p].total_deposits =
               pools[p].total_withdrawals + pools[p].total_escrowed

\* The vault of a pool covers everything owed from it: every open transfer in
\* full plus the fees withdraw_fees may still pay out.
Solvent ==
    \A p \in Live :
        vault[<<p, pools[p].mint>>] >= pools[p].total_escrowed + pools[p].collected_fees

\* reset_pool and close_pool look at two counters and not at the transfer
\* accounts; still no transfer outlives the pool that holds its tokens.
NoOrphanTransfer ==
    \A k \in Open : pools[transfers[k].pool] # NoPool

\* The inductive invariant behind the properties above and FundsNeverStuck: they
\* need the types, each other, that the two counters only create_transfer adds to
\* stay within a u64, and that the fees never outgrow the withdrawals.
WithinU64 ==
    \A p \in Live :
        /\ pools[p].total_deposits <= U64Max
        /\ pools[p].total_transfers_created <= U64Max
        /\ pools[p].collected_fees <= pools[p].total_withdrawals

Accounting == TypeOK /\ TotalsMatchTransfers /\ Solvent /\ NoOrphanTransfer /\ WithinU64

\* An open transfer can always be refunded: neither the balance of the vault nor
\* the checked arithmetic of the counters, at any point of a pool's life, fails
\* cancel_transfer, decline_transfer, reject_transfer or expire_transfer.
FundsNeverStuck ==
    \A k \in Open : CanRefund(k)

\* From claimable_after on, an open transfer is at every moment either the
\* recipient's to claim or anyone's to expire, never both and never neither, and
\* nothing in the pool's books (an overflow of collected_fees least of all, which
\* reset_pool and withdraw_fees reset at other times than the totals) stops it.
SettledOneWay ==
    \A k \in Open :
        LET t == transfers[k]
        IN  clock >= t.claimable_after =>
                \/ InClaimWindow(t) /\ CanClaim(k) /\ ~IsExpired(t)
                \/ IsExpired(t) /\ CanRefund(k) /\ ~InClaimWindow(t)

\* The program implements Escrow: a pool is a house, its open transfers are the
\* holds, and its free tokens are those of the vault no open transfer is owed.
EscrowHold ==
    [k \in Keys |->
        IF k \in Open
        THEN LET t == transfers[k]
             IN  [house |-> t.pool, mint |-> pools[t.pool].mint, amount |-> t.amount,
                  after |-> t.claimable_after, until |-> t.claimable_until]
        ELSE NoTransfer]

FreeTokens ==
    [pm \in PoolIds \X Mints |->
        vault[pm] - IF pm[1] \in Live /\ pools[pm[1]].mint = pm[2]
                    THEN Cardinality(EscrowUnits(pm[1])) ELSE 0]

\* No held transfer equals the value that stands for none.
ASSUME HoldAssumption ==
    NoTransfer \notin
        [house : PoolIds, mint : Mints, amount : Nat, after : Nat, until : Nat]

EscrowView == INSTANCE Escrow WITH
    Houses <- PoolIds, NoHold <- NoTransfer,
    hold <- EscrowHold, purse <- balance, house <- FreeTokens

\* Every behaviour of the program is one of Escrow: tokens leave a transfer once,
\* to the right party, in full, in its own mint, and what operators take out by
\* withdraw_fees and close_pool never comes from an open transfer.
ImplementsEscrow == EscrowView!Spec
=============================================================================
