# Verification of SilkyWay

TLA+ models of SilkyWay (the `handshake` repository), checked with TLC and, all but their
liveness, proved with TLAPS: the two on-chain programs and that they implement their
abstract specifications, the mirrors in the database, the building, analyzing and verifying
of transactions, the services and commands, and the standing orders. Each module names the file it models;
`PROJECT.json` maps every definition to the lines it stands for.

## The system

| Component | State | Operations | Talks to |
|---|---|---|---|
| Handshake program, `anchor/programs/handshake` | a `Pool` account and its vault for each pool, a `SecureTransfer` account for each open transfer | `init_pool`, `pause_pool`, `withdraw_fees`, `reset_pool`, `close_pool`; `create_`, `claim_`, `cancel_`, `decline_`, `reject_`, `destroy_`, `expire_transfer` | SPL token program, clock |
| Silkysig program, `anchor/programs/silkysig` | one `SilkAccount` for each owner (three operator slots, pause flag, principal), its token account | `create_account`, `add_operator`, `remove_operator`, `toggle_pause`, `deposit`, `transfer_from_account`, `init_drift_user`, `close_account` | SPL token program, Drift |
| `TxService` (backend) | rows of `Transfer`, `Pool`, `Token` | build a transaction, submit a signed one, index it | Solana RPC, the database |
| `AccountService` (backend) | rows of `SilkAccount`, `SilkAccountOperator`, `SilkAccountEvent` | build account transactions, index them | RPC, database; called by `TxService` |
| `AuthService` (backend) | challenges in memory, one `ApiKey` row for each wallet | challenge, verify and issue, validate, revoke | database |
| `SolanaService` (backend) | connection, faucet cooldowns in memory | faucet, airdrops | RPC |
| `ChatService` (backend) | sessions in memory | send a message, evict | Claude API |
| Program clients, builders, assembler (backend, `services/chains`) | none | encode instructions, simulate, quote | RPC, Jupiter |
| Intent services and analyzer (backend) | none | build a transaction for an intent; match, risk, viability, verdict | RPC, Jupiter, SDK `verify` and `intent` |
| SDK `orders` | `orders.json` | create, cancel, evaluate | backend, by cron |
| SDK `verify` and `intent` | none | decode a transaction and match it with an intent | RPC |
| SDK `config`, `contacts`, commands, CLI | `config.json`, `contacts.json` | read, change, write | backend |
| Web application, `apps/app` | atoms in the browser | pages over the backend | backend, wallet |

The backend never signs for users: it builds a transaction, the caller signs it and
submits it through the backend, which sends it, waits for it and mirrors what it
did. The chain runs one instruction at a time, all or nothing, so on chain the
interleaving that matters is the order in which different signers' instructions
execute. Off chain every `await` lets other requests, and the chain, move on.

### What is hard about each part, and what makes it correct

* **Handshake.** Six ways to settle a transfer, by four kinds of signer, race; the
  counters of a pool decide when it may be reset or closed although the transfers
  are separate accounts; fees and escrow share a vault; resets, donations and closed
  token accounts happen between any two steps. Correct means: the tokens of a transfer leave once,
  to the right party; the vault covers what it owes; the counters agree with
  the transfers; nothing can make an open transfer impossible to settle.
* **Silkysig.** Slots are moved when an operator leaves; funds lie in the token
  account or in Drift and move between them; Drift earns and loses; tokens
  arrive without the program noticing, at addresses of accounts that are closed too.
  Correct means: only the owner and the current operators within their limits spend; no
  operator is lost, doubled or given another's limit; closing leaves nothing behind.
* **TxService and AccountService.** Reads and writes of one row by overlapping requests, failed
  transactions, failed reads, restarts. Correct means: the database tells what
  happened on chain, in the end all of it and for good.
* **Orders.** A whole file read, changed across awaits and written back, by
  processes that know nothing of each other; a lost answer; recurring orders.
* **Building and verifying.** A request reads the chain several times while others
  change it; amounts become base units in three ways, with decimals from the chain, from
  a row or from a default; the verifier runs with whatever metadata it could read.
  Correct means: a built transaction makes the payment that was asked for, and nothing
  else passes for it when it is verified.
* **Auth, faucet, chat.** State read before an await and used after it: a
  key row, a cooldown, a history. Correct means: what was revoked stays revoked, a
  cooldown that is recorded is honoured, a conversation alternates.
* **SDK configuration.** A whole file with private keys, read before an await and
  written back after it. Correct means: no key is lost, and the API key stored is one
  the server takes.

## Modules

| Module | Models |
|---|---|
| `Handshake` | the escrow program: the pools, transfers, vaults and token accounts as variables, one action for each instruction |
| `Escrow` | what the escrow program promises: holds, released once or returned in full, and what a house may take out |
| `HandshakeProofs` | theorems about `Handshake`, and that it implements `Escrow` |
| `Silkysig` | the account program, one action for each instruction, and Drift as an environment |
| `Mandate` | what an account promises its owner: funds and limits, with no slots and no Drift |
| `SilkysigProofs` | theorems about `Silkysig`, and that it implements `Mandate` |
| `Indexer` | how requests to submit a transaction mirror transfers into the database |
| `IndexerProofs` | theorems about `Indexer` |
| `Orders` | the SDK's order file, the commands that share it and what the server and the chain answer |
| `OrdersProofs` | theorems about `Orders`, for commands that overlap and for commands that do not |
| `Operators` | how requests to submit a transaction mirror an account and its operators into the database |
| `OperatorsProofs` | theorems about `Operators` |
| `Amounts` | decimal strings, tolerances, constraints and base units, in the SDK and the backend |
| `Transactions` | addresses, instructions, transactions, and the tables of tokens and programs |
| `Clients` | the instructions of the two programs' clients |
| `Decode` | the SDK's decoding of a transaction |
| `Verify` | the SDK's two verifiers and the matcher |
| `Build` | the choice of a builder, the three builders, simulation and assembly |
| `Analyze` | the backend's verdict on a transaction and an intent |
| `Intents` | the requests that build, analyze and verify, read by read, and what other users do in between |
| `IntentsProofs` | theorems about `Intents` and the operators under it |
| `Requests` | HTTP requests in progress |
| `AuthService`, `FaucetService`, `ChatService` | the three services that keep state between awaits |
| `Sessions` | the command line over `config.json`, composed with the three services |
| `SessionsProofs` | theorems about `AuthService` and `FaucetService` in `Sessions` |
| `CommandsProofs` | theorems about the commands, the configuration file and the chat in `Sessions` |
| `MCHandshake`, `MCSilkysig`, `MCIndexer`, `MCOrders`, `MCOperators`, `MCIntents`, `MCSessions` | instances for TLC and the statements of documents that the code contradicts |

### Handshake

`pools` and `transfers` hold the account of each address or the value for none;
`vault` holds a pool's tokens of each mint and `balance` those of a wallet's
associated account, which exists when it is in `accounts`. An instruction is one
action: its guard is every account constraint, `require!` and checked operation, and
a failed one leaves no trace, as on chain. A transfer's key is `<<sender,
recipient, nonce>>`, the seeds of its address: the pool is not among them, so a key
open in one pool blocks it in all. `status` is left out, since an account leaves
`Active` only in the instruction that closes it. `Donate`, `CloseTokenAccount` and
`OpenTokenAccount` are what wallets do without the program. `U64Max` is the largest
counter value; the runs use 4, so counters do overflow.

### Silkysig

An account has the array of slots and the count the program keeps, so that
`RemoveSlot` is the swap with the last one. `drift_user` says whether Drift was
started; `drift` is what Drift holds for the account and `driftUsers` the Drift
users ever made, which outlive the account. `spender` is the signer that the event
`TransferExecuted` of the last instruction names, if it emitted one: `Mandate` has it
too, so that an operator's spending cannot pass for the owner's. `DriftEarn` and
`DriftLose` move `drift` by the amounts of `Moves`.

Any address can be paid, by `TransferFromAccount` (whose recipient's token account is
`init_if_needed`) and by `DirectTransfer`: that of an account there is, that was closed, or
that never was. `opened` is the set of owners at whose account's address there is a token
account. `create_account` makes it with `init` and so fails when there is one, which
`close_account` alone takes away. `NothingLeftBehind` is about all three: closing leaves nothing
in the token account and in Drift; what arrives at the address while there is no account is never
lowered, since nobody can sign for it; and no account begins with any of it. An account belongs to one mint, so the mint is left out;
`market_index` is taken to be that of the mint, since with another one Drift refuses
the deposits.

### Indexer

A request goes through `Send` (the preflight simulation refuses what does not apply
now), `Land` (executed, maybe failed), `Fetch` (the transfer account is read),
`Read` (its row is read) and `Write` (an UPDATE of the columns that differ from the
row read, as the ORM flushes it). The entity manager is forked for each request, so
requests share no entities. `Lose` is any error or restart in between. `chain` says
only whether a transfer is new, open, or how it was settled.

`CreationShows` and `SettlementShows` are about the end of a behaviour: from some time on the row
says it, and never stops. One race breaks that and is excluded by `Stale`: a request that
read the open account and a row not yet terminal, and writes `ACTIVE` after the settlement was
indexed by another (`tx.service.ts:244-247`). Nothing puts such a row right.

### Orders

`file` is `orders.json`: what was last written, and whether it can be parsed at all.
A process is one run of the CLI and works on its own copy of the store: create and
cancel change it at once, an evaluation goes through it order by order. Saving is
two steps, since `writeFileSync` empties the file first. An order keeps of its
history what the code reads: how many attempts, and when the last one was.
`landed` counts the transactions executed for each order, which no command ever sees:
`MayLand` lets one land whatever the submission answers, and later landing would
only make `landed` smaller for a while. A crash takes what was not saved. `tried` is history
too: by which time the last evaluation that asked the server about an order went, saved or
not, and how many processes had died by then. With it `CooldownKept` speaks of attempts and not
of what the file says of them: an attempt follows another within its cooldown only if a
process died in between, as one may before it saves.

### Operators

`chain` is the used slots of one account, `status` and `operators` are its rows. A
request reads the account (`Fetch`), its row (`Locate`), the rows of its operators
(`ReadOperators`) and flushes all its changes in one transaction (`Flush`), which a
violated unique constraint undoes as a whole. When the account is created with an
operator, the ORM writes what is pending before its next query; the model takes this and
the final flush as one. `orderly` says that
since the account was last closed, a close that was indexed on its own, each transaction was
indexed, successfully and on its own, before the next one executed: `MirrorExact` holds only then,
since what the code guesses from the slots it guesses from the slots as they are when it looks.
A close removes all rows of operators, so it makes up for what went wrong before it.

### Intents and the modules under it

`Amounts` to `Analyze` are operators, one module for each layer of the code, and `Intents` is
the state machine over them. `chain` holds what the requests read: the mint of the
pool, the token accounts and balances, the one account and one transfer; `rows` holds
the database's decimals and the mint it has for the pool. `job` is the request being
served, with what it has read so far; each await that reads the chain or the database is a
step, so that `ReplacePool`, `ReplaceAccount`, `MakeTokenAccount`, `EmptyTokenAccount`,
`SettleTransfer` and `AddRow` come between any two. A built transaction goes on to the
analyzer (`AnalyzeBuilt`, with every combination of failed reads) or to the SDK's
`verify` (`VerifyBuilt`); a transaction from elsewhere enters with `Receive`. Simulation
runs the instructions on the balances and stops at the first that fails.

`ConstantsAssumption` says what requests, chains and rows are. A request has the fields its
endpoint's type declares (`IsIntent`, `IsTransferAction`): one action unless it is compound,
amounts that are decimal strings or are rejected as such (`Malformed`), wallets that are
names. A transaction from elsewhere is any list of instructions, of which only that is said
which Solana makes sure of: an operation has the name that its own program gives it, and who
pays signs, and is therefore in no lookup table. What loops in the code (the powers of ten,
the matcher, the simulation, the filter of the assembler) is a recursive function, and
`f ++ g` is the spread of one object over another.

Amounts are exact integers over a power of ten; the one conversion that the code does in
binary floating point, `params.amount * 10 ** token.decimals`, may give the unit below
(`AmountRaw`). An address is a name or the token account of an owner for a mint;
`Unresolved` is one that a lookup table holds. Decimals are scaled down, 6 to 1 and 9 to
2, so that tolerances and excess digits are met with small numbers.

### Sessions and the services

`call` holds the one HTTP request each client waits for, at a stage that names what its
handler awaits. `AuthService` has `FindRow` apart from `FlushKey` and `RevokeFind` apart from
`RevokeFlush`, the two sides of an await; `FaucetService` has the check, the payment and the
record; a session of `ChatService` is an object that requests share while the model
answers, and enters the map with its first reply. `Sessions` adds the commands: each
loads `file` once, edits or asks, and saves in two steps, since `writeFileSync` empties the
file first. `Crash` ends a process, or its patience, while the server goes on; `Restart`
forgets challenges, cooldowns and sessions. Wallets, agents and keys are numbered in the
order in which they are made.

## Runs

| Run | Instance | Shows |
|---|---|---|
| `handshake` | 3 wallets, 1 pool, 2 keys (alice to bob, bob to the operator), amounts 0 to 2, a 50% fee, donations of 1, counters up to 4, time up to 4 | the books match the transfers, the vault is solvent, no transfer is orphaned, refunds cannot fail, and every transfer is claimable or expirable |
| `handshake_escrow` | 2 wallets, 2 pools, 2 mints, 1 key, a valid fee and one above 100% | `Handshake` implements `Escrow` |
| `silkysig` | 3 wallets, 2 of them interchangeable owners, 3 slots, amounts 0 to 2, 1 token for each wallet | slots stay compact, closing leaves nothing and later payments to the address stay nobody's, principal stays backed, `Silkysig` implements `Mandate` |
| `indexer` | 1 transfer, 2 requests of any instruction | only failed transactions are misreported; creations and settlements show in the end for good |
| `orders` | 1 process, 2 orders of 2 policies (2 attempts with a cooldown of 1; recurring twice, expiring at 2), time up to 2, 1 crash | spending is recorded, closed orders stay closed, attempts are a cooldown apart but for a crash, recurrences are counted, expiring orders get closed |
| `operators` | 1 account with 2 slots, 2 interchangeable wallets, 2 requests of any instruction, and transactions from elsewhere | the rows are those of the account while indexing is orderly |
| `intents` | 195 requests, one at a time, one step of another user anywhere, 4 mints, 2 sets of rows | what is built pays what was asked; builders and analyzer agree; what verifies or is told to proceed pays what the intent says |
| `sessions` | 3 interchangeable clients, 3 commands, labels `main` and `ops`, 1 fault, 3 messages, 2 messages for each session | revoked keys stay revoked, cooldowns hold, conversations alternate, orderly commands keep wallets and a key that works |
| `fees_stay_withdrawable` | violation | `pool.rs:37` against `reset_pool.rs` |
| `yield_spendable` | violation | docs/design/yield.md:80 against `transfer_from_account.rs` |
| `status_tells_settlement` | violation | `tx.service.ts:236` against what it does with failed transactions |
| `cancel_sticks` | violation, 2 processes | `lifecycle.test.ts:121` against an evaluation that overlaps `orders cancel` |

Bounds. Two keys are enough for transfers to share a pool, its counters and its
vault; two pools with one key are what the missing pool seed needs; two mints tell a
vault of the wrong mint. A 50% fee makes the fee of 1 round to 0 and that of 2 be 1.
Four ticks let a window open, last and close. Three operators fill the slots, so a
removal from the first, middle and last slot happens. Two owners are what it takes to pay one
account's address from another; `SecondAccountBound` keeps that instance small: once both have
an account, or an address that was paid to, no account is paused and there are at most two
operators and Drift users together. With one owner involved nothing is cut. Two requests are what an
overlap needs, and a third writer, `Elsewhere`, settles without them. Two ticks let
an order wait out a cooldown, expire in one, and run out of attempts; two orders share
the file, and a crash between any two steps is followed by whole evaluations.

In `intents` one step of another user between any two reads is what a stale read needs. The
requests cover every kind of builder and endpoint, amounts with trailing zeros, with too
many digits, below a unit and beyond one, intents with and without token, symbol,
program, memo and strict, compound intents, and transactions from elsewhere that differ from
an intent in one thing: the amount by a tolerance or more, mint, recipient, cut data,
a mint in a lookup table, a second payment, an unknown program. In `sessions` three commands
are what it takes for two to overlap and a third to meet the result, with two messages to a
session a third is trimmed, and the file starts as `silky init` and `silky auth register`
leave it, with wallet, agent and key. Commands run out at the bound, which is why
`CHECK_DEADLOCK FALSE` stands there.

What the conditions of a property leave out is known to fail: `BuiltDoesAsked` needs the
pool to stay, `BuiltMatches` fails for a transfer that must create the recipient's
account, `VerifiedDoesAsked` and `ProceedIsIntended` need the metadata of the mint,
`WalletsKept` and `StoredKeyAccepted` need commands that do not overlap or crash, `TurnsAlternate`
messages that wait for each other, `SettlementShows` no stale writer, `CooldownKept` no crash
between two attempts. Each is listed below or among the hazards.

The properties of `orders` are checked for commands that do not overlap. When they do,
whoever saves last wins; `cancel_sticks` shows one such loss. Of the safety properties only
`FamilyWithinRemaining` and the types survive that, as is proved.

Symmetry is used in `silkysig`, over the two owners, in `operators`,
over wallets and requests, and in `sessions`, over clients: their properties are
invariants, action properties and the safety specification `Mandate`.

Fairness. The programs have none: nobody has to act. In `Indexer`, `WF(Proceed(r))`
says that a request whose transaction is confirmed continues when an await resolves;
an error or a restart, which make it stop, is the `Lose` action. Nothing is assumed
of users, of sending or of confirmation. In `Orders` a started command gets an answer
or the client's timeout (`WF(Proceed(p))`), time passes, and heartbeats keep coming:
`SF(Evaluate(p, FALSE))`, strong since other commands may take turns in between. `CHECK_DEADLOCK FALSE` stands in the
indexer's runs because all requests end. `Intents` and `Sessions` state safety only.

## Proofs

Each theorem holds for every value of the constants that satisfies the assumptions of its
module. An invariant that is not inductive is proved from one that is; that one was checked with
TLC on the instance of the run before it was proved.

### The programs and what they promise

`HandshakeProofs` proves `Spec => []Accounting` and from it `TypeOK`,
`TotalsMatchTransfers`, `Solvent`, `NoOrphanTransfer`, `FundsNeverStuck` and
`SettledOneWay`, for any finite set of keys and any other constants that satisfy
`ConstantsAssumption`. `Accounting` is inductive. Its parts need each other: a refund
keeps `Solvent` only if `total_escrowed` is what the open transfers are owed;
closing a pool keeps `NoOrphanTransfer` only if the two counters differ by the
number of open transfers; and refunds cannot overflow only because
`total_withdrawals` never passes `total_deposits`, which `create_transfer` bounds
(`WithinU64`). What is owed is counted as a set, `EscrowUnits`, with one element for
each token, so that sums over transfers become cardinalities the library has theorems about:
the lemmas say how the set grows and shrinks by one transfer. That the fees never
outgrow the withdrawals, which `withdraw_fees` and `reset_pool` reset at different times,
is what makes `collected_fees` unable to overflow before the totals do.

`HandshakeImplementsEscrow` takes `Accounting` from there: each instruction is a step of
`Escrow` or one it does not see. The free tokens of a house are what its vault holds
beyond what the open transfers are owed, so `Solvent` makes them a number, a claim moves
the fee into them and a payment out of them, and a reset, which forgets counters, moves
nothing. `HoldAssumption` says that no hold is the value for none.

`SilkysigProofs` proves `Spec => []Kept` and from it `TypeOK`, `SlotsCompact` and
the action properties `NothingLeftBehind` and `PrincipalBacked`. `Kept` adds
`DriftNeedsUser`, that an owner without an account, or with one that has no Drift user, has
nothing in Drift: without it closing such an account could leave tokens there, and starting
Drift could find some. And it adds `TokensNeedOpen`: tokens lie at an address only where there is
a token account, as there is at that of every account. So an account, which can only be made
where there is none, begins with nothing, whoever paid the address before. `SilkysigImplementsMandate` is that every step is one of `Mandate` or none, from `Kept`:
as the slots are compact, the limit given to an operator is that of the one slot that
holds it, wherever it was moved, and what moves between the token account and Drift
leaves the wealth of the account as it is. `MandateAssumption` says that no mandate is the
value for none.

### The mirrors in the database

`OperatorsProofs` proves `MirrorExact` from `Sane` (the slots on chain are distinct, no
operator has two rows and no request read two), from `NoStray` (without
a row of the account there are none of operators) and from an invariant of the one request that indexes while all is orderly: what its transaction
left between the chain and the rows, and what it read of them. That a new row finds a free
number is the pigeonhole principle. `IndexerProofs` proves `OnlyFailedMisreport` from two
facts: a row that a request read is never removed (`RowsStay`), and a settlement that
succeeded is how the transfer was settled from then on (`SettledOnce`). `RowAssumption`:
no row is the value for none.

### Building and verifying

`IntentsProofs` proves the six invariants of `Intents` for any requests, and transactions,
intents and amounts of any length, that satisfy `ConstantsAssumption`.

The first half is about operators. `Induction` holds of sets of numbers (from the
well-foundedness of `<`), so what a loop does is proved by induction over its steps:
`IterationGoesOn` gives the sequence of its states and `RunsAgree` says that there is only
one. For the matcher (`MatchIntentRuns`) the induction carries an assignment of the actions
done so far onto the instructions used (`Assigns`, `Uses`): if the discrepancies are empty
in the end they were empty after each action, which therefore took a free instruction of its
type (`NoDiscrepancyAssigns`). `MatchSound` carries that from the decoded instructions back to those
of the transaction. `VerifiedSound` and `ProceedSound` follow the parameters of a payment
through the decoder, with true decimals where the metadata was read, to what was compared with
what was asked. Amounts need arithmetic: padding to base units is exact (`UnitsExact`, from
`PowersMultiply`), parsing removes zeros but no value (`Parsed`), and an amount and its base
units formatted again are the same within any tolerance (`SameTolerated`).

The second half is the state machine. `IInv` says what the request being served knows at each stage:
that a builder took the request, that what was drafted is one of the drafts of the request,
for the mint read (of the pool as it is, unless it was replaced since), and that an answer is the
analyzer's or the verifier's for the transaction at hand. There is a lemma for each step, and one for what other
users do (`StageKept`): rows are only added, and only `ReplacePool` touches what a draft rests on.
`IInv` was checked on the `intents` instance, its drafts and chains ranging over those of the
instance, before it was proved. From it:

* `BuiltDoesAsked`: each draft pays once, what was asked (`TransferDrafts`), and the assembler
  drops and adds only instructions of the budget program (`InstructionList`).
* `BuiltMatches`: each builder's instruction is read by the decoder as the action that it was
  built from (`ReadAsAsked`), with the same amount in other digits; the budget's instructions
  are ancillary, no flag is raised, and so the matcher (`MatchFirst`) and, where it
  leaves the question open, the analyzer's own comparison agree (`SingleMatches`).
* `MatchIsAssignment`, `VerifiedDoesAsked` and `ProceedIsIntended`: as above, of the transaction that
  was answered for.

### Services and commands

`SessionsProofs` proves `RevokedForGood` and `OnlyRacersPay` for the whole of `Sessions`,
any number of clients, wallets, commands and faults. Both rest on `CallOK`, the shape of a
request in progress, and on lemmas that say which steps are `Quiet`: they put no request
into the stages where a handler holds a key, or is past the faucet's check. `KeysInv`
says where a key can be: with one registration under way, in one row, or nowhere any more
(`OneHolder`). A revocation finds its row before an await and writes it after, so what it
must still know then is stated for the request in between (`RevokesOwnRow`): no other row
and no registration holds its key, though its own row may hold a newer one, which is then
revoked with it. Keys never come back because each is minted once. `RaceInv` says that
while a payment is remembered its cooldown runs, so nobody else passes the check, and
everyone past it was past it when the payment was answered.

`CommandsProofs` has the rest of `Sessions`. `Shape`, the types with what a command's request
can be at each of its stages, needs a count: a key takes a nonce and a nonce takes a
command, so that numbers do not run out (`KeysCounted`). `ChatInv` gives
`TurnsAlternate`: a session that nobody disturbed is of even length, or odd with the one
request that waits for the model, or no longer in the map; trimming by two keeps that only because the limit is
even. `InOrder` says what the one active command knows of the file, the keys stored and the
rows at each stage, so that what it writes back has every wallet (`WalletsKept`) and a key
the server takes (`StoredKeyAccepted`). The constants need `NoneAssumption`,
`NothingAssumption` and `RequestAssumption`: no row, configuration, command or request is the
value for none.

### Standing orders

`OrdersProofs` proves `TypeOK` and `FamilyWithinRemaining` for any number of processes that
overlap and die anywhere. Nothing relates the file to the copies then; yet each store on its
own is `WellKept`, and that is inductive. In each, orders of one family have names of
different lengths, all but the longest are closed, and what remains of an order and
the length of its name have the same sum in a family (`Kin`). A clone is made of an order
that an evaluation found open, which is therefore the longest; a cancellation closes what it
finds, even an order that was filled and cloned meanwhile. The lengths are then an injection of
the family into the numbers up to what remained at first.

`SpendingRecorded`, `FinalIsFinal` and `CooldownKept` are proved for one process at a time
(`Processes = {p}`), which is what they say; with two they fail. `Work` relates the copy
to the file: it `Extends` the file, each order `Follows` the one in its place, and from the
current one on the histories are untouched; or the file could not be read and the two have no
family in common. `Spent` counts, for the copy, what landed against the history, and for
orders that are no longer there; a crash loses at most one record of each order, so
it then holds of the file with one more (`LostSpent`). For `CooldownKept`, `Tracked` says of
every order tried since the last death that, until it is closed, the time of that attempt is the
last in its history: in the copy while an evaluation runs, in the file when none does.

### Limits

The prover misreads nested `@` and has no `CopiesIn` of bags: where the models would use
them, references are written out; the operators of `TLC` and folds with an operator for a
parameter cannot be reasoned about, and `Intents` has functions in their place. The decimals of mints and the tables
of tokens and programs are the scaled ones of `Transactions`, in the proofs too. Only model-checked: liveness
(`CreationShows`, `SettlementShows`, `OrdersSettle`), which is out of the prover's reach, and
the four violations, whose counterexamples TLC prints.

## What the runs found

* `reset_pool` zeroes `collected_fees` while the fees are in the vault.
* Yield cannot be spent: `checked_sub` refuses more than the principal, which the yield
  design allows.
* A transaction that failed on chain is indexed as if it had succeeded.
* `orders cancel` is undone by an evaluation that started before it.

Other differences from the documents and between parts, met while modelling. They are
part of the models as the code has them, and no run is spent on them.

* `destroy_transfer` pays the sender; ARCHITECTURE.md:37 says the operator.
* The matcher compares a field only if the decoded parameters have it, and a token
  never: 2 USDC moved by the token program is a full match of an intent for 1 SOL, and
  the analyzer's own comparison does not count once the matcher is satisfied
  (`solana.analyzer.ts:69`). docs/design/intent-framework.md:31 says that every field is
  checked.
* Parameters missing from cut instruction data are not compared either; such a
  transaction cannot run.
* The handshake builder takes the mint of the pool, whatever token the intent names, and
  an intent for the system program with a token becomes a token transfer.
* A swap that was built is a partial match at best, since no decoded instruction has the type
  `swap` (docs/design/done/intent-engine.md:352 says full).
* The matcher takes the first free instruction for each action, so it may miss an
  assignment that exists. Compound intents get no viability check.
* `UNEXPECTED_SOL_DRAIN` cannot be raised: the receiver is among the addresses of the transaction
  that carries it (`flags.ts:51`).
* The registry of `verify` has an address for the associated token program that is not
  the real one (`registry.ts:20`, `handshake-idl.json:802`): creating an account is an
  unknown program, which counts as an error.
* Mints of 43 characters and mints in lookup tables are compared with 6 decimals.
* The analyzer fails on an amount with too many digits or on a mint it cannot read
  (`solana.analyzer.ts:521`), and with it the answer of a build that succeeded.
* The transfer endpoint gives a mint without a row 6 decimals (`tx.service.ts:376`) and
  trusts the row of a pool that may have been made again; `verify` catches both.
* A revocation that overlaps a registration can revoke the new key, and of two
  first registrations of a wallet one fails.
* A faucet keeps a cooldown for each token and forgets all of them on a restart
  (docs/silkyway-site-design.md:149 says one request for each wallet).
* A message that failed stays in the history, so that the trimming by two no longer removes
  pairs (`chat.service.ts:85`).
* Commands of the SDK that overlap undo each other's writes to `config.json`, wallets included.
* A second account at the same address cannot start Drift, since the Drift user of the
  first is still there.
* Tokens paid to the address of an account that was closed, or not made yet, are out of reach,
  and `create_account` fails as long as they are there, because the token account it must make
  exists (`create_account.rs:54`). docs/plans/done/2026-02-14-silkysig-account-audit-trail.md:37
  counts on accounts that are made again.
* A create request that read the open account before its settlement was indexed writes
  `ACTIVE` over the terminal status afterwards, for good (`tx.service.ts:244-247`).
* An attempt whose process dies before saving is repeated by the next heartbeat, whatever the
  cooldown; and `writeFileSync` leaves an empty file to a process that dies or reads in
  between, so that all orders are lost with the next save (`store.ts:24`).

## Not modelled

Memos on chain, events, rent, encodings and logging; token-2022 mints with transfer fees or
hooks; more than one instruction in a transaction that is indexed. The row of a transfer
(`Indexer`) and the rows of pools and tokens (`Intents`) are modelled apart. Nonces are
fresh: two transfers built in the same millisecond get the same one.

Of the SDK, the commands that sign and submit payments, which change only what the backend
and the chain hold; `contacts.json`, a second file kept like `config.json`; lists and
status. `SILKY_API_URL` names one server: with one for each cluster, the one `apiKey` of the
file is sent to both. Of the backend, `syncTokenAndPool` at start-up, lookup
tables, the values of fees and unit limits, and routes that only read. `verifyAndIssueKey`
clears `revokedAt` by setting it to `undefined`, which is taken to clear the column when it
was set. The branch of `resolvePool` for a default pool cannot be reached, since the
controller refuses a request that names none (`tx.controller.ts:32`).

The web application holds forms and pages over the backend, with wallets that sign in the
browser, and no protocol of its own; the scripts are run once, by hand. They have no module.

## Plan

1. Done: every part above that has a module, with the proofs of all safety properties that
   the passing runs check.
2. A run for the field that the matcher does not compare, in place of one of the
   four violations.
3. The log of account events, two transfers built within one millisecond, and the other
   hazards in `PROJECT.json` that no property covers.
