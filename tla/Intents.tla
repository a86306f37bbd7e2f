------------------------------- MODULE Intents -------------------------------
(***************************************************************************)
(* Requests for a transaction and the checks of what comes back: the       *)
(* intent endpoints (intent.controller.ts), the transfer endpoints         *)
(* (tx.controller.ts, tx.service.ts) and the account endpoints             *)
(* (account.controller.ts, account.service.ts), then the verification of   *)
(* the SDK.  A request is served in steps, one per read of the chain or of *)
(* the database; other users act between them.                             *)
(***************************************************************************)
EXTENDS Analyze

CONSTANTS
    Requests,           \* what clients may ask
    InitialChains,      \* what the chain may hold at first
    InitialRows,        \* what the database may hold at first
    Pools,              \* the mints a pool may have
    Accounts,           \* the states of the one Silkysig account
    MaxMoves            \* bound on what the other users do

VARIABLES
    chain,              \* pool, tokens, sol, account, stats, transfer
    rows,               \* decimals of the known mints, mint of the known pool
    job,                \* the request being served
    moves,              \* how often another user acted
    replaced            \* whether the pool or the account is not the first one

vars == <<chain, rows, job, moves, replaced>>

(***************************************************************************)
(* What is assumed of requests: what the types of the SDK and of the       *)
(* endpoints, and Solana itself, make sure of.                             *)
(***************************************************************************)
Wallets == [name : Seq(STRING) \ {<<"">>}, mint : {"none"}]

DecimalStrings == [digits : Int, frac : Nat] \cup {Malformed}

\* TransferIntent; what comes as JSON for an analysis may lack its ends.
IsTransferAction(action) ==
    /\ "amount" \in DOMAIN action
    /\ \A f \in DOMAIN action.amount : action.amount[f] \in DecimalStrings
    /\ \A f \in {"from", "to"} \cap DOMAIN action : action[f] \in Wallets
    /\ "token" \in DOMAIN action => action.token \in Mints

IsIntent(intent) ==
    /\ intent.network \in DOMAIN BundledPrograms
    /\ {intent.strict, intent.compound} \subseteq BOOLEAN
    /\ Len(intent.actions) \in Nat /\ DOMAIN intent.actions = 1..Len(intent.actions)
    /\ ~intent.compound => Len(intent.actions) = 1
    /\ \A k \in DOMAIN intent.actions :
           LET action == intent.actions[k]
           IN  /\ action.action # "none"
               /\ action.action = "transfer" => IsTransferAction(action)

\* Operations go by names of their program's, which no other program has for another
\* thing.  The first account of a payment signs, so it is in no lookup table.
IsInstruction(ix) ==
    /\ Len(ix.accounts) \in Nat /\ DOMAIN ix.accounts = 1..Len(ix.accounts)
    /\ ix.short \in BOOLEAN
    /\ ix.op # "none"
    /\ ix.op = "create_transfer" =>
           /\ ix.program = "handshake"
           /\ Len(ix.accounts) >= 3
           /\ ix.accounts[1] \in Wallets
           /\ ix.accounts[3] \in {Key(m) : m \in Mints} \cup {Unresolved}
           /\ ix.args.amount \in Nat
    /\ ix.program = "handshake" => ix.op \in DOMAIN HandshakeAccounts \cup {"unknown"}
    /\ ix.program = "system" /\ ix.op = "transfer" =>
           Len(ix.accounts) >= 2 /\ ix.accounts[1] \in Wallets
    /\ ix.op \in AncillaryTypes => ix.program \in {"budget", "memo", "ata", "listedAta"}

IsTransaction(tx) ==
    /\ Len(tx.ixs) \in Nat /\ DOMAIN tx.ixs = 1..Len(tx.ixs)
    /\ \A i \in DOMAIN tx.ixs : IsInstruction(tx.ixs[i])

IsRequest(r) ==
    CASE r.kind = "build" ->
             /\ IsIntent(r.intent)
             /\ \A k \in DOMAIN r.intent.actions :
                    r.intent.actions[k].action = "transfer" =>
                        {"from", "to"} \subseteq DOMAIN r.intent.actions[k]
      [] r.kind = "analyze" -> IsIntent(r.intent) /\ IsTransaction(r.tx)
      [] r.kind = "transfer" ->
             /\ {r.sender, r.recipient} \subseteq Wallets
             /\ r.amount \in [digits : Int, frac : Nat]
             /\ r.by \in Mints \cup {"pool"}
      [] r.kind = "verify" ->
             /\ IsTransaction(r.tx)
             /\ r.intent.type = "create_transfer" =>
                    {"sender", "recipient", "amount"} \subseteq DOMAIN r.intent
      [] OTHER -> r.kind \in {"claim", "cancel", "create", "deposit", "spend", "close",
                              "pause", "add", "remove"}

ChainFields == {"pool", "tokens", "sol", "account", "stats", "transfer"}

ConstantsAssumption ==
    /\ \A r \in Requests : IsRequest(r)
    /\ \A c \in InitialChains :
           /\ c = [f \in ChainFields |-> c[f]]
           /\ c.pool \in Pools
           /\ c.tokens \in [DOMAIN c.tokens -> Nat]
    /\ \A c \in InitialRows :
           /\ c = [decimals |-> c.decimals, pool |-> c.pool]
           /\ c.decimals \in [DOMAIN c.decimals -> Nat] /\ DOMAIN c.decimals \subseteq Mints
           /\ c.pool \in Mints \cup {"none"}
    /\ Pools \subseteq Mints \cup {"none"}
    /\ MaxMoves \in Nat

ASSUME ConstantsAssumption

NoTx == Tx(Unresolved, <<>>)
NoResult == [match |-> "unanswered", verdict |-> "unanswered"]
Idle == [pc |-> "idle", request |-> [kind |-> "none"], mint |-> "none", units |-> 0,
         sender |-> Unresolved, ixs |-> <<>>, tx |-> NoTx, result |-> NoResult, metaRead |-> FALSE]

Init ==
    /\ chain \in InitialChains
    /\ rows \in InitialRows
    /\ job = Idle
    /\ moves = 0
    /\ replaced = FALSE

Action(request) == request.intent.actions[1]

Becomes(pc, request) == [job EXCEPT !.pc = pc, !.request = request]

\* The transaction of the transfer and account services: one payer, no simulation.
Built(j, payer, ixs) == [j EXCEPT !.pc = "built", !.ixs = ixs, !.tx = Tx(payer, ixs)]

Serving(pc) == job.pc = pc /\ UNCHANGED <<chain, moves, replaced>>

(***************************************************************************)
(* POST /api/intent/build.                                                 *)
(***************************************************************************)
BeginNative(request) ==
    LET action == Action(request)
        mint == ResolveMint(action, request.intent.network)
    IN  /\ Payable(request)
        /\ \/ /\ mint = "none"
              /\ FitsPrecision(action.amount.eq, SolDecimals)
              /\ job' = [Becomes("assemble", request) EXCEPT !.ixs = <<SolTransferIx(action)>>]
           \/ /\ mint \in Mints
              /\ FitsPrecision(action.amount.eq, TrueDecimals[mint])
              /\ Ata(mint, action.from) \in DOMAIN chain.tokens
              /\ job' = [Becomes("destination", request) EXCEPT !.mint = mint]

BeginHandshake(request) ==
    LET amount == Action(request).amount
    IN  /\ Payable(request)
        /\ chain.pool # "none"
        /\ FitsPrecision(amount.eq, TrueDecimals[chain.pool])
        /\ job' = [Becomes("pool", request) EXCEPT
                       !.mint = chain.pool,
                       !.units = ToBaseUnits(amount.eq, TrueDecimals[chain.pool])]

BeginJupiter(request) ==
    LET action == Action(request)
        Mint(ref) == SwapMint(ref, request.intent.network)
        Signer(a) == IF "from" \in DOMAIN a THEN a.from ELSE CHOOSE p \in FeePayers(request) : TRUE
    IN  /\ Swappable(request.intent)
        /\ job' = [Becomes("assemble", request) EXCEPT
                       !.ixs = JupiterIxs(Signer(action), Mint(action.tokenIn),
                                          Mint(action.tokenOut))]

BeginBuild(request) ==
    /\ Serving("idle")
    /\ request.kind = "build"
    /\ Buildable(request)
    /\ LET builder == ResolveBuilderName(request.intent)
       IN  \/ builder = "native" /\ BeginNative(request)
           \/ builder = "handshake" /\ BeginHandshake(request)
           \/ builder = "jupiter" /\ BeginJupiter(request)
    /\ UNCHANGED rows

\* Any failure to read the recipient's account counts as its absence.
ReadDestination ==
    /\ Serving("destination")
    /\ LET action == Action(job.request)
       IN  \E answered \in BOOLEAN :
               job' = [job EXCEPT
                           !.pc = "assemble",
                           !.ixs = TokenTransferIxs(action, job.mint,
                                       answered /\ Ata(job.mint, action.to) \in DOMAIN chain.tokens)]
    /\ UNCHANGED rows

\* The client reads the pool once more: the mint is that of this read.
ReadPoolAgain ==
    /\ Serving("pool")
    /\ chain.pool # "none"
    /\ job' = [job EXCEPT !.pc = "assemble",
                          !.ixs = HandshakeIxs(Action(job.request), job.units, chain.pool)]
    /\ UNCHANGED rows

Assemble ==
    /\ Serving("assemble")
    /\ Simulates(chain, job.ixs)
    /\ \E payer \in FeePayers(job.request) :
           job' = Built(job, payer, BuildInstructionList(job.ixs, TRUE))
    /\ UNCHANGED rows

(***************************************************************************)
(* POST /api/tx/create-transfer.  The pool is given, or found by its mint  *)
(* in the database (or its symbol, which stands for the mint here); a      *)
(* request that names neither is refused.                                  *)
(***************************************************************************)
ResolvePool(by) == by # "pool" => by \in DOMAIN rows.decimals /\ rows.pool = by

BeginTransfer(request) ==
    /\ Serving("idle")
    /\ request.kind = "transfer"
    /\ request.amount.digits > 0
    /\ ResolvePool(request.by)
    /\ chain.pool # "none"
    /\ job' = [Becomes("token", request) EXCEPT !.mint = chain.pool]
    /\ UNCHANGED rows

\* A mint the database does not know gets a row with decimals nobody read.
GetOrCreateToken(mint) ==
    IF mint \in DOMAIN rows.decimals THEN rows
    ELSE [rows EXCEPT !.decimals = @ ++ [m \in {mint} |-> DefaultDecimals]]

\* Faulty variant: rounding down may go below zero.
AmountRawRounded(amount, decimals) ==
    LET whole == (amount.digits * PowerOf10[decimals]) \div PowerOf10[amount.frac]
    IN  IF amount.frac > 0 THEN {whole, whole - 1} ELSE {whole}

\* Binary fractions: a product that is no integer is cut, and one that should be an
\* integer may come out below it.
AmountRaw(amount, decimals) ==
    LET exact == amount.digits * PowerOf10[decimals]
        unit == PowerOf10[amount.frac]
        whole == exact \div unit
    IN  IF amount.frac > 0 /\ exact % unit = 0 /\ whole > 0 THEN {whole, whole - 1} ELSE {whole}

ReadToken ==
    /\ Serving("token")
    /\ rows' = GetOrCreateToken(job.mint)
    /\ \E units \in AmountRaw(job.request.amount, rows'.decimals[job.mint]) :
           job' = [job EXCEPT !.pc = "create", !.units = units]

CreateTransfer ==
    /\ Serving("create")
    /\ chain.pool # "none"
    /\ LET r == job.request
           t == [sender |-> r.sender, recipient |-> r.recipient, memo |-> r.memo,
                 pda |-> TransferPda(r.sender, r.recipient, "n"), amount |-> job.units]
       IN  job' = [job EXCEPT !.pc = "persist", !.ixs = <<CreateTransferIx(t, chain.pool)>>]
    /\ UNCHANGED rows

\* A pool without a row is read a third time.
EnsurePool(mint) == [GetOrCreateToken(mint) EXCEPT !.pool = mint]

\* The row of the transfer itself is the Indexer's; the transaction is answered after it.
PersistTransfer ==
    /\ Serving("persist")
    /\ rows.pool = "none" => chain.pool # "none"
    /\ rows' = IF rows.pool # "none" THEN rows ELSE EnsurePool(chain.pool)
    /\ job' = Built(job, job.request.sender, job.ixs)

\* POST /api/tx/claim-transfer and cancel-transfer: the transfer, then its pool.
BeginSettle(request) ==
    /\ Serving("idle")
    /\ request.kind \in {"claim", "cancel"}
    /\ chain.transfer # <<>>
    /\ job' = [Becomes("settle", request) EXCEPT !.sender = chain.transfer.sender]
    /\ UNCHANGED rows

SettleIxs(request, sender, mint) ==
    IF request.kind = "claim"
    THEN <<ClaimTransferIx(request.claimer, request.pda, sender, mint)>>
    ELSE <<CancelTransferIx(request.canceller, request.pda, mint)>>

Settle ==
    /\ Serving("settle")
    /\ chain.pool # "none"
    /\ LET r == job.request
           payer == IF r.kind = "claim" THEN r.claimer ELSE r.canceller
       IN  job' = Built(job, payer, SettleIxs(r, job.sender, chain.pool))
    /\ UNCHANGED rows

(***************************************************************************)
(* The account endpoints.                                                  *)
(***************************************************************************)
CreateAccount(request) ==
    /\ Serving("idle")
    /\ request.kind = "create"
    /\ job' = Built(Becomes("built", request), request.owner,
                    CreateAccountIxs(request.owner, request.mint, request.operator,
                                     request.limit, chain.stats))
    /\ UNCHANGED rows

\* A deposit and a transfer want a positive amount, and with a closing they read the
\* account.  Drift's market is read next, from its own program; it does not change.
AccountIx(request, account) ==
    CASE request.kind = "deposit" ->
             DepositIx(request.owner, request.pda, account, request.amount)
      [] request.kind = "spend" ->
             TransferFromAccountIx(request.owner, request.pda, account, request.recipient,
                                   request.amount)
      [] request.kind = "close" -> CloseAccountIx(request.owner, request.pda, account)

ReadAccount(request) ==
    /\ Serving("idle")
    /\ request.kind \in {"deposit", "spend", "close"}
    /\ request.kind # "close" => request.amount > 0
    /\ chain.account # <<>>
    /\ job' = Built(Becomes("built", request), request.owner,
                    <<AccountIx(request, chain.account)>>)
    /\ UNCHANGED rows

\* The rest reads nothing.
ManageIx(request) ==
    CASE request.kind = "pause" -> TogglePauseIx(request.owner, request.pda)
      [] request.kind = "add" ->
             AddOperatorIx(request.owner, request.pda, request.operator, request.limit)
      [] request.kind = "remove" -> RemoveOperatorIx(request.owner, request.pda, request.operator)

ManageAccount(request) ==
    /\ Serving("idle")
    /\ request.kind \in {"pause", "add", "remove"}
    /\ job' = Built(Becomes("built", request), request.owner, <<ManageIx(request)>>)
    /\ UNCHANGED rows

(***************************************************************************)
(* A request that is refused, a read that fails where that is an error, a  *)
(* simulation that fails; and the end of a request.                        *)
(***************************************************************************)
Fail ==
    /\ job.pc \notin {"idle", "built", "answered", "failed"}
    /\ job' = [job EXCEPT !.pc = "failed"]
    /\ UNCHANGED <<chain, rows, moves, replaced>>

Finish ==
    /\ job.pc \in {"answered", "built", "failed"}
    /\ job' = Idle
    /\ UNCHANGED <<chain, rows, moves, replaced>>

(***************************************************************************)
(* Verification.  A transaction comes from elsewhere or was just built.    *)
(***************************************************************************)
Receive(request) ==
    /\ Serving("idle")
    /\ request.kind \in {"analyze", "verify"}
    /\ job' = [Becomes("built", request) EXCEPT !.tx = request.tx]
    /\ UNCHANGED rows

Reads == [first : BOOLEAN, second : BOOLEAN, mint : BOOLEAN, balance : BOOLEAN,
          impact : {"none", "low", "warning", "error"}]

\* An error of the analysis is the answer of the build too.
AnalyzeBuilt ==
    /\ Serving("built")
    /\ job.request.kind \in {"build", "analyze"}
    /\ \E reads \in Reads :
           /\ reads.impact # "none" => IsAction(job.request.intent, "swap")
           /\ job' = IF AnalyzeThrows(job.tx, job.request.intent, reads)
                     THEN [job EXCEPT !.pc = "failed"]
                     ELSE [job EXCEPT !.pc = "answered",
                               !.metaRead = reads.first /\ reads.second,
                               !.result = Analyze(chain, job.tx, job.request.intent, reads)]
    /\ UNCHANGED rows

\* What a client of the other endpoints has the SDK verify.
AskedIntent(request) ==
    CASE request.kind = "transfer" ->
             [type |-> "create_transfer", sender |-> request.sender,
              recipient |-> request.recipient, amount |-> request.amount, memo |-> request.memo]
             ++ (IF request.by = "pool" THEN <<>> ELSE [tokenAddress |-> Key(request.by)])
      [] request.kind = "claim" ->
             [type |-> "claim_transfer", claimer |-> request.claimer, transferPda |-> request.pda]
      [] request.kind = "cancel" ->
             [type |-> "cancel_transfer", canceller |-> request.canceller,
              transferPda |-> request.pda]
      [] OTHER -> request.intent

VerifyBuilt ==
    /\ Serving("built")
    /\ job.request.kind \in {"transfer", "claim", "cancel", "verify"}
    /\ \E rpcUp \in BOOLEAN :
           LET answer == VerifyInstruction(AnalyzeTransaction(job.tx, FetchedMeta(job.tx, rpcUp)),
                                           AskedIntent(job.request))
           IN  job' = [job EXCEPT
                           !.pc = "answered", !.metaRead = rpcUp,
                           !.result = [match |-> IF answer.verified THEN "verified" ELSE "refused",
                                       verdict |-> "unanswered"]]
    /\ UNCHANGED rows

(***************************************************************************)
(* The other users: pools and accounts are closed and made again, token    *)
(* accounts appear and are emptied, transfers are settled, and the rows of *)
(* other requests appear.                                                  *)
(***************************************************************************)
Moves == moves < MaxMoves /\ moves' = moves + 1 /\ UNCHANGED job

ReplacePool ==
    /\ Moves
    /\ \E mint \in Pools \ {chain.pool} : chain' = [chain EXCEPT !.pool = mint]
    /\ replaced' = TRUE
    /\ UNCHANGED rows

ReplaceAccount ==
    /\ Moves
    /\ \E account \in Accounts \ {chain.account} :
           chain' = [chain EXCEPT !.account = account, !.stats = TRUE]
    /\ replaced' = TRUE
    /\ UNCHANGED rows

Receivers(request) == IF request.kind = "build" /\ "to" \in DOMAIN Action(request)
                      THEN {Action(request).to} ELSE {}

MakeTokenAccount ==
    /\ Moves
    /\ \E owner \in Receivers(job.request) :
           /\ job.mint # "none"
           /\ Ata(job.mint, owner) \notin DOMAIN chain.tokens
           /\ chain' = [chain EXCEPT !.tokens = @ ++ [a \in {Ata(job.mint, owner)} |-> 0]]
    /\ UNCHANGED <<rows, replaced>>

EmptyTokenAccount ==
    /\ Moves
    /\ \E a \in DOMAIN chain.tokens :
           /\ chain.tokens[a] > 0
           /\ chain' = [chain EXCEPT !.tokens[a] = 0]
    /\ UNCHANGED <<rows, replaced>>

SettleTransfer ==
    /\ Moves
    /\ chain.transfer # <<>>
    /\ chain' = [chain EXCEPT !.transfer = <<>>]
    /\ UNCHANGED <<rows, replaced>>

AddRow ==
    /\ Moves
    /\ chain.pool # "none"
    /\ rows' = GetOrCreateToken(chain.pool)
    /\ UNCHANGED <<chain, replaced>>

Next ==
    \/ \E request \in Requests :
           \/ BeginBuild(request) \/ BeginTransfer(request) \/ BeginSettle(request)
           \/ CreateAccount(request) \/ ReadAccount(request) \/ ManageAccount(request)
           \/ Receive(request)
    \/ ReadDestination \/ ReadPoolAgain \/ Assemble
    \/ ReadToken \/ CreateTransfer \/ PersistTransfer \/ Settle
    \/ AnalyzeBuilt \/ VerifyBuilt \/ Fail \/ Finish
    \/ ReplacePool \/ ReplaceAccount \/ MakeTokenAccount \/ EmptyTokenAccount
    \/ SettleTransfer \/ AddRow

Spec == Init /\ [][Next]_vars

(***************************************************************************)
(* Properties.                                                             *)
(***************************************************************************)
\* Every request is somewhere on its way, and what is known of it has its type.
TypeOK ==
    /\ DOMAIN chain = {"pool", "tokens", "sol", "account", "stats", "transfer"}
    /\ chain.pool \in Pools
    /\ \A a \in DOMAIN chain.tokens : chain.tokens[a] \in Nat
    /\ DOMAIN rows.decimals \subseteq Mints
    /\ rows.pool \in Mints \cup {"none"}
    /\ job.pc \in {"idle", "destination", "pool", "assemble", "token", "create", "persist",
                   "settle", "built", "answered", "failed"}
    /\ job.pc # "idle" => job.request \in Requests
    /\ job.units \in Nat
    /\ moves \in 0..MaxMoves

Owner(account) == [account EXCEPT !.mint = "none"]

\* The payment the programs make of an instruction, if it is one they run.
Payments(ix) ==
    LET a == ix.accounts
        Payment(mint, from, to) ==
            IF ix.short THEN {}
            ELSE {[mint |-> mint, from |-> from, to |-> to, units |-> ix.args.amount]}
    IN  CASE ix.program = "system" /\ ix.op = "transfer" -> Payment("lamports", a[1], a[2])
          [] ix.program = "token" /\ ix.op = "transfer" -> Payment(a[1].mint, a[3], Owner(a[2]))
          [] ix.program = "token" /\ ix.op = "transfer_checked" ->
                 Payment(a[1].mint, a[4], Owner(a[3]))
          [] ix.program = "handshake" /\ ix.op = "create_transfer" ->
                 Payment(a[3].name[1], a[1], ix.args.recipient)
          [] ix.program = "silkysig" /\ ix.op = "deposit" -> Payment(a[3].name[1], a[1], a[2])
          [] ix.program = "silkysig" /\ ix.op = "transfer_from_account" ->
                 Payment(a[3].name[1], a[2], a[5])
          [] OTHER -> {}

PaidBy(tx) == UNION {Payments(tx.ixs[i]) : i \in DOMAIN tx.ixs}

UnitDecimals(mint) == IF mint = "lamports" THEN SolDecimals ELSE TrueDecimals[mint]

\* The mint of an account that a lookup table holds is not known.
Resolved(payment) == payment.mint # Unresolved.name[1]

\* Units are a decimal amount to the unit below, or to the next one below that.
About(units, amount, mint) ==
    LET asked == amount.digits * PowerOf10[UnitDecimals(mint)]
        made == units * PowerOf10[amount.frac]
    IN  asked - 2 * PowerOf10[amount.frac] < made /\ made <= asked

IsTransfer(request) == request.kind = "build" /\ Action(request).action = "transfer"

AskedMint(request) ==
    IF request.kind = "build"
    THEN IF ResolveBuilderName(request.intent) = "handshake" THEN chain.pool
         ELSE IF ResolveMint(Action(request), request.intent.network) = "none" THEN "lamports"
         ELSE ResolveMint(Action(request), request.intent.network)
    ELSE IF request.by = "pool" THEN chain.pool ELSE request.by

PaysAsAsked(payment, request) ==
    IF request.kind = "transfer"
    THEN /\ payment.from = request.sender
         /\ payment.to = request.recipient
         /\ payment.mint = AskedMint(request)
         /\ \/ rows.decimals[payment.mint] # TrueDecimals[payment.mint]
            \/ About(payment.units, request.amount, payment.mint)
    ELSE /\ payment.from = Action(request).from
         /\ payment.to = Action(request).to
         /\ payment.mint = AskedMint(request)
         /\ payment.units * PowerOf10[Action(request).amount.eq.frac]
            = Action(request).amount.eq.digits * PowerOf10[UnitDecimals(payment.mint)]

\* A built transaction makes one payment, the one that was asked for, through any
\* interleaving with the other users, as long as none of them replaced the pool; for
\* the transfer endpoint if the database has the pool's mint and its true decimals.  (The
\* handshake builder takes the mint of the pool, whatever token the intent names.)  And
\* it calls the program that the answer of the build names.
BuiltDoesAsked ==
    LET request == job.request
        paying == {i \in DOMAIN job.tx.ixs : Payments(job.tx.ixs[i]) # {}}
    IN  job.pc = "built" =>
            /\ ~replaced /\ (IsTransfer(request)
                            \/ (request.kind = "transfer" /\ rows.pool = chain.pool)) =>
                   \E i \in DOMAIN job.tx.ixs :
                       /\ paying = {i}
                       /\ \A p \in Payments(job.tx.ixs[i]) : PaysAsAsked(p, request)
            /\ request.kind = "build" /\ Field(request.intent, "program") = "none" =>
                   \E i \in DOMAIN job.tx.ixs :
                       job.tx.ixs[i].program
                       = MetadataProgram(request.intent, ResolveBuilderName(request.intent))

\* The builders and the analyzer agree: a built transfer is analyzed as a full match of
\* its own intent, unless it has to create the recipient's token account, the program
\* the intent names is not the one that moves its token, or the pool was replaced.
BuiltMatches ==
    /\ job.pc = "answered" /\ IsTransfer(job.request) /\ job.metaRead /\ ~replaced
    /\ \A i \in DOMAIN job.tx.ixs : job.tx.ixs[i].program # "ata"
    /\ \/ Field(job.request.intent, "program") = "none"
       \/ \E i \in DOMAIN job.tx.ixs : job.tx.ixs[i].program = job.request.intent.program
    => job.result.match = "full"

\* What the SDK verified for a transfer, built here from rows that may be wrong and reads
\* that may disagree or received from elsewhere, pays what was asked, to the tolerance,
\* in the true units of the mint, if the metadata of the mint could be read.
VerifiedDoesAsked ==
    LET asked == AskedIntent(job.request)
        created == {i \in DOMAIN job.tx.ixs : job.tx.ixs[i].op = "create_transfer"}
        first == CHOOSE i \in created : \A j \in created : i <= j
    IN  /\ job.pc = "answered" /\ job.result.match = "verified" /\ job.metaRead
        /\ job.request.kind \in {"transfer", "verify"} /\ asked.type = "create_transfer"
        => /\ created # {}
           /\ \A p \in Payments(job.tx.ixs[first]) :
                  /\ p.from = asked.sender
                  /\ p.to = asked.recipient
                  /\ Resolved(p) =>
                         /\ "tokenAddress" \in DOMAIN asked => Key(p.mint) = asked.tokenAddress
                         /\ WithinRelativeTolerance(ParseDecimal(asked.amount),
                                ParseDecimal(FormatUnits(p.units, UnitDecimals(p.mint))),
                                DefaultTolerance)

AnalyzedIntent(request) == request.kind \in {"build", "analyze"}

\* The type the matcher sees of an instruction.
GenericType(ix) == IF ix.op = "create_transfer" THEN "transfer" ELSE ix.op

MayTake(intent, action, ix) ==
    /\ GenericType(ix) = action.action
    /\ ExpectedProgram(intent) \in {"none", ix.program}
    /\ "from" \in DOMAIN action /\ action.action = "transfer" =>
           \A p \in Payments(ix) : ix.program = "token" \/ p.from = action.from

IsAssigned(intent, ixs) ==
    \E f \in [DOMAIN intent.actions -> DOMAIN ixs] :
        /\ \A k, l \in DOMAIN intent.actions : k # l => f[k] # f[l]
        /\ \A k \in DOMAIN intent.actions : MayTake(intent, intent.actions[k], ixs[f[k]])
        /\ intent.strict =>
               \A i \in DOMAIN ixs :
                   \/ \E k \in DOMAIN intent.actions : f[k] = i
                   \/ ixs[i].program \in {"budget", "memo", "listedAta"}

\* A full match gives every action of the intent an instruction of its own, of its type
\* and of the program asked for, and under strict leaves no other that matters.
MatchIsAssignment ==
    job.pc = "answered" /\ AnalyzedIntent(job.request) /\ job.result.match = "full" =>
        IsAssigned(job.request.intent, job.tx.ixs)

\* A payment satisfies a transfer action in the true units of its mint.
Satisfies(payment, action) ==
    /\ "from" \in DOMAIN action => payment.from = action.from
    /\ "to" \in DOMAIN action => payment.to = action.to
    /\ Resolved(payment) =>
           EvaluateConstraint(action.amount,
               FormatUnits(payment.units, UnitDecimals(payment.mint)))

\* A transaction told to proceed with a transfer, and whose transfers are all
\* Handshake's, makes one with the sender, the recipient and the amount of the intent, or
\* none that can run.  The metadata of the mint must have been read.
ProceedIsIntended ==
    LET transfers == {i \in DOMAIN job.tx.ixs : job.tx.ixs[i].op \in {"transfer", "create_transfer"}}
    IN  /\ job.pc = "answered" /\ job.result.verdict = "proceed" /\ job.metaRead
        /\ IsAction(job.request.intent, "transfer")
        /\ \A i \in transfers : job.tx.ixs[i].program = "handshake" /\ ~job.tx.ixs[i].short
        => \E p \in PaidBy(job.tx) : Satisfies(p, Action(job.request))
==============================================================================
