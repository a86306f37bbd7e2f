------------------------------ MODULE Silkysig ------------------------------
(***************************************************************************)
(* The Silkysig program (anchor/programs/silkysig/src): token accounts a   *)
(* human owner controls and up to three operators may spend from, each     *)
(* within a limit per transaction.                                         *)
(*                                                                         *)
(* An account keeps its tokens in its associated token account or, once    *)
(* init_drift_user has run, in a user of the Drift program.  Drift is not  *)
(* in the repository: it is modelled by the calls made to it, as a balance *)
(* deposits add to, withdrawals take from, and the market moves.           *)
(*                                                                         *)
(* One action is one instruction, which commits whole or not at all.       *)
(***************************************************************************)
EXTENDS Integers

CONSTANTS
    Wallets,        \* signers and recipients
    Owners,         \* the wallets that may own an account
    MaxOperators,   \* MAX_OPERATORS, 3 in the code
    Amounts,        \* amounts asked for in deposit and transfer_from_account
    Limits,         \* per_tx_limit asked for in add_operator; the default is U64Max
    Gifts,          \* amounts sent straight to an account's token account
    Moves,          \* amounts Drift may earn or lose at a time
    U64Max,         \* largest u64
    MaxDrift,       \* bound on the balance of a Drift user, for model checking
    Supply,         \* tokens a wallet starts with
    NoAccount,      \* an owner with no account
    Nobody          \* Pubkey::default()

VARIABLES
    accounts,       \* the SilkAccount of each owner
    tokens,         \* tokens in the token accounts of wallets and of accounts
    opened,         \* owners at whose account's address a token account exists
    drift,          \* tokens in the Drift user of each owner's account
    driftUsers,     \* owners whose account has a Drift user; it outlives the account
    spender         \* the signer the last step's TransferExecuted names, or Nobody

vars == <<accounts, tokens, opened, drift, driftUsers, spender>>

\* The address derived from an owner: an account's token account belongs to it.  It
\* is there whether or not the owner has an account, and tokens can be sent to it.
Pda(o) == <<"account", o>>

Holders == Wallets \cup {Pda(o) : o \in Owners}

Slot == [pubkey : Wallets \cup {Nobody}, per_tx_limit : Nat]

EmptySlot == [pubkey |-> Nobody, per_tx_limit |-> 0]

SilkAccount ==
    [is_paused : BOOLEAN, operator_count : 0..MaxOperators,
     operators : [1..MaxOperators -> Slot], drift_user : BOOLEAN,
     principal_balance : Nat]

ASSUME ConstantsAssumption ==
    /\ Owners \subseteq Wallets
    /\ \A o \in Owners : Pda(o) \notin Wallets
    /\ MaxOperators \in Nat \ {0}
    /\ Amounts \subseteq Nat /\ Limits \subseteq Nat /\ Gifts \subseteq Nat
    /\ Moves \subseteq Nat
    /\ U64Max \in Nat /\ MaxDrift \in Nat /\ Supply \in Nat
    /\ NoAccount \notin SilkAccount
    /\ Nobody \notin Wallets

Live == {o \in Owners : accounts[o] # NoAccount}

TypeOK ==
    /\ accounts \in [Owners -> SilkAccount \cup {NoAccount}]
    /\ tokens \in [Holders -> Nat]
    /\ opened \subseteq Owners
    /\ drift \in [Owners -> Nat]
    /\ driftUsers \subseteq Owners
    /\ spender \in Wallets \cup {Nobody}

Init ==
    /\ accounts = [o \in Owners |-> NoAccount]
    /\ tokens = [h \in Holders |-> IF h \in Wallets THEN Supply ELSE 0]
    /\ opened = {}
    /\ drift = [o \in Owners |-> 0]
    /\ driftUsers = {}
    /\ spender = Nobody

----------------------------------------------------------------------------
(* Operator slots (state/account.rs)                                       *)

\* find_operator returns i: the first of the used slots that holds w.
FoundAt(account, w, i) ==
    /\ i \in 1..account.operator_count
    /\ account.operators[i].pubkey = w
    /\ \A j \in 1..(i - 1) : account.operators[j].pubkey # w

IsOperator(account, w) ==
    \E i \in 1..account.operator_count : account.operators[i].pubkey = w

AddSlot(account, w, limit) ==
    [account EXCEPT
        !.operators = [@ EXCEPT ![account.operator_count + 1] =
                          [pubkey |-> w, per_tx_limit |-> limit]],
        !.operator_count = @ + 1]

\* Faulty variant: the slot is cleared and the last one is not moved into it.
ClearSlot(account, i) ==
    [account EXCEPT !.operators = [@ EXCEPT ![i] = EmptySlot],
                    !.operator_count = @ - 1]

\* The last used slot moves into slot i and its old place is cleared.
RemoveSlot(account, i) ==
    [account EXCEPT
        !.operators = [@ EXCEPT ![i] = account.operators[account.operator_count],
                                ![account.operator_count] = EmptySlot],
        !.operator_count = @ - 1]

\* A limit of 0 is no limit.
WithinLimit(slot, amount) == slot.per_tx_limit > 0 => amount <= slot.per_tx_limit

----------------------------------------------------------------------------
(* Instructions                                                            *)

\* The step emits no TransferExecuted.
NoTransfer == spender' = Nobody

\* The SPL token program debits, then credits: a transfer to oneself changes nothing.
Move(from, to, amount) ==
    /\ tokens[from] >= amount
    /\ tokens' = [[tokens EXCEPT ![from] = @ - amount] EXCEPT ![to] = @ + amount]

FreshAccount ==
    [is_paused |-> FALSE, operator_count |-> 0,
     operators |-> [i \in 1..MaxOperators |-> EmptySlot],
     drift_user |-> FALSE, principal_balance |-> 0]

\* Faulty variant: the token account is taken as it is found, whatever it holds.
OpenAnyTokenAccount(o) == opened' = opened \cup {o}

\* init, not init_if_needed: a token account someone opened at the address fails it.
OpenTokenAccount(o) ==
    /\ o \notin opened
    /\ opened' = opened \cup {o}

\* create_account
CreateAccount(o) ==
    /\ accounts[o] = NoAccount
    /\ OpenTokenAccount(o)
    /\ accounts' = [accounts EXCEPT ![o] = FreshAccount]
    /\ UNCHANGED <<tokens, drift, driftUsers>>
    /\ NoTransfer

\* add_operator
AddOperator(o, w, limit) ==
    /\ accounts[o] # NoAccount
    /\ accounts[o].operator_count < MaxOperators
    /\ ~IsOperator(accounts[o], w)
    /\ accounts' = [accounts EXCEPT ![o] = AddSlot(@, w, limit)]
    /\ UNCHANGED <<tokens, opened, drift, driftUsers>>
    /\ NoTransfer

\* remove_operator
RemoveOperator(o, w) ==
    /\ accounts[o] # NoAccount
    /\ \E i \in 1..MaxOperators :
        /\ FoundAt(accounts[o], w, i)
        /\ accounts' = [accounts EXCEPT ![o] = RemoveSlot(@, i)]
    /\ UNCHANGED <<tokens, opened, drift, driftUsers>>
    /\ NoTransfer

\* toggle_pause
TogglePause(o) ==
    /\ accounts[o] # NoAccount
    /\ accounts' = [accounts EXCEPT ![o].is_paused = ~@]
    /\ UNCHANGED <<tokens, opened, drift, driftUsers>>
    /\ NoTransfer

\* deposit, by anyone: the tokens pass through the token account into Drift.
Deposit(w, o, amount) ==
    /\ accounts[o] # NoAccount
    /\ amount > 0
    /\ accounts[o].principal_balance + amount <= U64Max
    /\ accounts' = [accounts EXCEPT ![o].principal_balance = @ + amount]
    /\ \/ /\ ~accounts[o].drift_user
          /\ Move(w, Pda(o), amount)
          /\ UNCHANGED drift
       \/ /\ accounts[o].drift_user
          /\ tokens[w] >= amount
          /\ tokens' = [tokens EXCEPT ![w] = @ - amount]
          /\ drift' = [drift EXCEPT ![o] = @ + amount]
    /\ UNCHANGED <<opened, driftUsers>>
    /\ NoTransfer

\* Faulty variant: a pause stops no operator.
AuthorizedThoughPaused(w, o, amount) ==
    \/ w = o
    \/ \E i \in 1..MaxOperators :
        /\ FoundAt(accounts[o], w, i)
        /\ WithinLimit(accounts[o].operators[i], amount)

\* Who may transfer how much: the owner anything, an operator of an account that
\* is not paused up to the limit of its slot.
Authorized(w, o, amount) ==
    \/ w = o
    \/ /\ ~accounts[o].is_paused
       /\ \E i \in 1..MaxOperators :
            /\ FoundAt(accounts[o], w, i)
            /\ WithinLimit(accounts[o].operators[i], amount)

Debit(account, amount) == [account EXCEPT !.principal_balance = @ - amount]

\* The tokens transfer_from_account pays out: those in Drift once there is a
\* Drift user, and nothing else then.
Spendable(o) == IF accounts[o].drift_user THEN drift[o] ELSE tokens[Pda(o)]

\* Faulty variant: the principal is left to wrap below zero.
CanTransferAll(o, amount) == amount > 0 /\ Spendable(o) >= amount

CanTransfer(o, amount) ==
    /\ amount > 0
    /\ Spendable(o) >= amount
    /\ accounts[o].principal_balance >= amount

\* The owners whose account's address h is.
OwnersAt(h) == {x \in Owners : Pda(x) = h}

\* transfer_from_account, signed by w: the recipient is any address, that of an
\* account there is or is not too, and its token account is opened if need be.
TransferFromAccount(w, o, recipient, amount) ==
    /\ accounts[o] # NoAccount
    /\ Authorized(w, o, amount)
    /\ CanTransfer(o, amount)
    /\ accounts' = [accounts EXCEPT ![o] = Debit(@, amount)]
    /\ \/ /\ ~accounts[o].drift_user
          /\ Move(Pda(o), recipient, amount)
          /\ UNCHANGED drift
       \/ /\ accounts[o].drift_user
          /\ drift' = [drift EXCEPT ![o] = @ - amount]
          /\ tokens' = [tokens EXCEPT ![recipient] = @ + amount]
    /\ opened' = opened \cup OwnersAt(recipient)
    /\ UNCHANGED driftUsers
    /\ spender' = w

\* Faulty variant: yield starts and the idle tokens stay where they are.
BootstrapNothing(o) == UNCHANGED <<tokens, drift>>

\* All idle tokens go into Drift.
Bootstrap(o) ==
    /\ drift' = [drift EXCEPT ![o] = @ + tokens[Pda(o)]]
    /\ tokens' = [tokens EXCEPT ![Pda(o)] = 0]

\* init_drift_user: Drift refuses a user that exists.  The principal is left alone.
InitDriftUser(o) ==
    /\ accounts[o] # NoAccount
    /\ ~accounts[o].drift_user
    /\ o \notin driftUsers
    /\ Bootstrap(o)
    /\ accounts' = [accounts EXCEPT ![o].drift_user = TRUE]
    /\ driftUsers' = driftUsers \cup {o}
    /\ UNCHANGED opened
    /\ NoTransfer

\* Faulty variant: the account closes on the tokens it had before the withdrawal.
SweepIdle(o) ==
    /\ tokens' = [tokens EXCEPT ![Pda(o)] = 0, ![o] = @ + tokens[Pda(o)]]
    /\ UNCHANGED drift

\* Everything Drift holds, then everything the token account holds, to the owner.
Sweep(o) ==
    LET withdrawn == IF accounts[o].drift_user THEN drift[o] ELSE 0
    IN  /\ drift' = [drift EXCEPT ![o] = @ - withdrawn]
        /\ tokens' = [tokens EXCEPT ![Pda(o)] = 0,
                                    ![o] = @ + tokens[Pda(o)] + withdrawn]

\* close_account: the token account goes, the Drift user stays, empty.
CloseAccount(o) ==
    /\ accounts[o] # NoAccount
    /\ Sweep(o)
    /\ opened' = opened \ {o}
    /\ accounts' = [accounts EXCEPT ![o] = NoAccount]
    /\ UNCHANGED driftUsers
    /\ NoTransfer

----------------------------------------------------------------------------
(* The environment                                                         *)

\* Tokens sent to an account's address without the program's knowledge, whether or
\* not there is an account: whoever sends them opens the token account if need be.
DirectTransfer(w, o, amount) ==
    /\ Move(w, Pda(o), amount)
    /\ opened' = opened \cup {o}
    /\ UNCHANGED <<accounts, drift, driftUsers>>
    /\ NoTransfer

\* Drift pays interest on what it holds, and may lose some (rounding, bad debt).
DriftEarn(o, amount) ==
    /\ drift[o] > 0
    /\ drift[o] + amount <= MaxDrift
    /\ drift' = [drift EXCEPT ![o] = @ + amount]
    /\ UNCHANGED <<accounts, tokens, opened, driftUsers>>
    /\ NoTransfer

DriftLose(o, amount) ==
    /\ drift[o] >= amount
    /\ drift' = [drift EXCEPT ![o] = @ - amount]
    /\ UNCHANGED <<accounts, tokens, opened, driftUsers>>
    /\ NoTransfer

----------------------------------------------------------------------------
OwnerStep ==
    \E o \in Owners :
        \/ CreateAccount(o)
        \/ \E w \in Wallets, limit \in Limits : AddOperator(o, w, limit)
        \/ \E w \in Wallets : RemoveOperator(o, w)
        \/ TogglePause(o)
        \/ InitDriftUser(o)
        \/ CloseAccount(o)

TokenStep ==
    \E o \in Owners, w \in Wallets :
        \/ \E amount \in Amounts : Deposit(w, o, amount)
        \/ \E amount \in Amounts, recipient \in Holders :
               TransferFromAccount(w, o, recipient, amount)

EnvironmentStep ==
    \E o \in Owners :
        \/ \E w \in Wallets, amount \in Gifts : DirectTransfer(w, o, amount)
        \/ \E amount \in Moves : DriftEarn(o, amount) \/ DriftLose(o, amount)

Next == OwnerStep \/ TokenStep \/ EnvironmentStep

Spec == Init /\ [][Next]_vars

----------------------------------------------------------------------------
(* Properties                                                              *)

\* Whatever operators are added and removed, the used slots come first, hold
\* different operators, and the rest are empty: find_operator misses no operator
\* and finds none that was removed, and removing one never drops another.
Compact(account) ==
    /\ \A i \in 1..MaxOperators :
           i > account.operator_count <=> account.operators[i] = EmptySlot
    /\ \A i, j \in 1..account.operator_count :
           account.operators[i].pubkey = account.operators[j].pubkey => i = j

SlotsCompact == \A o \in Live : Compact(accounts[o])

\* Tokens at the address of an account, idle or in Drift.
At(o) == tokens[Pda(o)] + drift[o]

\* Closing an account leaves none of its tokens behind, in its token account or in
\* the Drift user that survives it.  What others send to its address later stays
\* there, out of anybody's reach: nothing lowers it and no account begins with it.
NothingLeftBehind ==
    [][\A o \in Owners :
           /\ o \in Live \ Live' => At(o)' = 0
           /\ o \in Live' \ Live => At(o)' = 0
           /\ o \notin Live \cup Live' => At(o)' >= At(o) /\ drift'[o] = 0]_vars

\* What an account could still pay out if its principal were spent.
Margin(o) == Spendable(o) - accounts[o].principal_balance

\* The inductive invariant behind the three: Drift has nothing of an owner but in
\* the user of a live account, and tokens lie at an address only where a token
\* account is open, as it is at that of every live account.
DriftNeedsUser ==
    \A o \in Owners : o \notin Live \/ ~accounts[o].drift_user => drift[o] = 0

TokensNeedOpen ==
    /\ Live \subseteq opened
    /\ \A o \in Owners \ opened : tokens[Pda(o)] = 0

Kept == TypeOK /\ SlotsCompact /\ DriftNeedsUser /\ TokensNeedOpen

\* The principal never outgrows the tokens transfer_from_account can pay out by
\* more than what Drift lost: no instruction, not the move of the funds into Drift
\* either, lowers what is spendable beyond the principal.
PrincipalBacked ==
    [][\A o \in Live :
           \/ o \notin Live'
           \/ Margin(o)' >= Margin(o)
           \/ \E amount \in Moves : DriftLose(o, amount)]_vars

\* The program implements Mandate: an account is its owner's funds, wherever they
\* lie, with the limits its used slots give.
Operators(account) ==
    {account.operators[i].pubkey : i \in 1..account.operator_count}

GivenLimit(account, w) ==
    account.operators[CHOOSE i \in 1..account.operator_count :
                          account.operators[i].pubkey = w].per_tx_limit

Mandates ==
    [o \in Owners |->
        IF o \in Live
        THEN [paused |-> accounts[o].is_paused,
              limits |-> [w \in Operators(accounts[o]) |-> GivenLimit(accounts[o], w)]]
        ELSE NoAccount]

Wealth ==
    [h \in Holders |-> IF h \in Wallets THEN tokens[h] ELSE tokens[h] + drift[h[2]]]

\* No mandate equals the value that stands for none.
ASSUME MandateAssumption ==
    NoAccount \notin
        [paused : BOOLEAN,
         limits : UNION {[S -> Nat] : S \in SUBSET (Wallets \cup {Nobody})}]

MandateView == INSTANCE Mandate WITH
    NoMandate <- NoAccount, wealth <- Wealth, mandate <- Mandates

\* Every behaviour of the program is one of Mandate: but for what Drift loses,
\* tokens leave an account by order of its owner, or of a current operator within
\* its own limit while the account is not paused; closing pays it all to the owner.
ImplementsMandate == MandateView!Spec
=============================================================================
