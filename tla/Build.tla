-------------------------------- MODULE Build --------------------------------
(***************************************************************************)
(* The intent builder of the backend (services/chains/solana): which       *)
(* builder an intent goes to, what each makes of the action and of what it *)
(* reads from the chain, and how the instructions become a transaction     *)
(* once they were simulated.                                               *)
(*                                                                         *)
(* A chain is a record: the mint of the pool ("none" without a pool), the  *)
(* token accounts that exist with their balances, and balances of SOL.     *)
(***************************************************************************)
EXTENDS Clients, Verify

Builders == {"native", "handshake", "jupiter"}

\* A name is taken as it is, for a builder or an error.
ResolveBuilderName(intent) ==
    LET name == Field(intent, "programName")
        program == Field(intent, "program")
    IN  IF ProgramClash(intent) THEN "error"
        ELSE IF name # "none" THEN name
        ELSE IF program \in {"system", "token"} THEN "native"
        ELSE IF program = "none"
        THEN IF intent.actions[1].action = "swap" THEN "jupiter" ELSE "native"
        ELSE IF program \in BundledPrograms[intent.network] THEN program ELSE "error"

\* What the answer says the program is.
MetadataProgram(intent, builder) ==
    LET action == intent.actions[1]
    IN  CASE Field(intent, "program") # "none" -> intent.program
          [] Field(intent, "program") = "none"
             /\ builder \in BundledPrograms[intent.network] -> builder
          [] OTHER -> IF \/ "token" \in DOMAIN action
                         \/ Field(action, "tokenSymbol") \notin {"none", "SOL"}
                      THEN "token" ELSE "system"

\* The fee payer of the options, else the from or owner of the action.
FeePayers(request) ==
    LET action == request.intent.actions[1]
        Given(r, f) == IF f \in DOMAIN r THEN {r[f]} ELSE {}
    IN  IF "feePayer" \in DOMAIN request THEN {request.feePayer}
        ELSE IF "from" \in DOMAIN action THEN {action.from}
        ELSE Given(action, "owner")

\* What the builder of the chain, and then every builder, wants of a request.
Buildable(request) ==
    LET intent == request.intent
        action == intent.actions[1]
        builder == ResolveBuilderName(intent)
    IN  /\ "chain" \in DOMAIN intent /\ intent.chain = "solana"
        /\ ~intent.compound
        /\ FeePayers(request) # {}
        /\ builder \in Builders
        /\ action.action = (IF builder = "jupiter" THEN "swap" ELSE "transfer")

(***************************************************************************)
(* native.builder.ts and handshake.builder.ts                              *)
(***************************************************************************)
\* The mint a native transfer moves; "none" is SOL itself.
ResolveMint(action, network) ==
    CASE "token" \in DOMAIN action -> action.token
      [] "token" \notin DOMAIN action
         /\ Field(action, "tokenSymbol") \in {"none", "SOL"} -> "none"
      [] OTHER -> IF action.tokenSymbol \in DOMAIN BundledTokens[network]
                  THEN ResolveSymbol(network, action.tokenSymbol).address ELSE "error"

\* The sender pays the fee, and the amount is exact.
Payable(request) ==
    LET action == request.intent.actions[1]
    IN  FeePayers(request) = {action.from} /\ IsExactAmount(action.amount)

SolTransferIx(action) ==
    Ix("system", "transfer", <<action.from, action.to>>,
       [amount |-> ToBaseUnits(action.amount.eq, SolDecimals)])

\* An account of the recipient that could not be read is made by the transaction.
TokenTransferIxs(action, mint, hasDestination) ==
    (IF hasDestination THEN <<>>
     ELSE <<Ix("ata", "create",
               <<action.from, Ata(mint, action.to), action.to, Key(mint), Key("system"),
                 Key("token")>>, <<>>)>>)
    \o <<Ix("token", "transfer", <<Ata(mint, action.from), Ata(mint, action.to), action.from>>,
            [amount |-> ToBaseUnits(action.amount.eq, TrueDecimals[mint])])>>

HandshakeIxs(action, units, mint) ==
    <<CreateTransferIx([sender |-> action.from, recipient |-> action.to,
                        pda |-> TransferPda(action.from, action.to, "n"), amount |-> units,
                        memo |-> IF "memo" \in DOMAIN action THEN action.memo ELSE ""], mint)>>

(***************************************************************************)
(* jupiter.builder.ts.  The quote and the instructions come from Jupiter:  *)
(* others, setup, the swap, which moves the mints it was asked for, and a  *)
(* cleanup.                                                                *)
(***************************************************************************)
SolMint == "sol"

\* A token named by its address, its symbol or both, if they agree.
SwapMint(ref, network) ==
    LET symbol == Field(ref, "tokenSymbol")
        known == IF symbol = "SOL" THEN SolMint
                 ELSE IF symbol = "none" THEN "none"
                 ELSE ResolveSymbol(network, symbol).address
    IN  CASE symbol # "none" /\ known = "none" -> "error"
          [] symbol = "none" /\ "token" \notin DOMAIN ref -> "error"
          [] symbol # "none" /\ "token" \in DOMAIN ref /\ ref.token # known -> "error"
          [] OTHER -> IF symbol = "none" THEN ref.token ELSE known

DefaultSlippageBps == 10
WholeBps == 10000

SlippageBps(action) == IF "slippage" \in DOMAIN action THEN action.slippage ELSE DefaultSlippageBps

\* Slippage in basis points; one beyond the whole is refused.
Swappable(intent) ==
    LET action == intent.actions[1]
    IN  /\ intent.network = "mainnet"
        /\ "amountIn" \in DOMAIN action /\ IsExactAmount(action.amountIn)
        /\ SwapMint(action.tokenIn, intent.network) # "error"
        /\ SwapMint(action.tokenOut, intent.network) # "error"
        /\ SlippageBps(action) \in 0..WholeBps
        /\ FitsPrecision(action.amountIn.eq, TrueDecimals[SwapMint(action.tokenIn, intent.network)])

JupiterIxs(signer, mintIn, mintOut) ==
    <<Ix("budget", "set_compute_unit_limit", <<>>, <<>>),
      Ix("ata", "create_idempotent",
         <<signer, Ata(mintOut, signer), signer, Key(mintOut), Key("system"), Key("token")>>,
         <<>>),
      Ix("jupiter", "route",
         <<Key("token"), signer, Ata(mintIn, signer), Ata(mintOut, signer), Key("jupiter"),
           Key(mintOut)>>, <<>>)>>
    \o (IF SolMint \in {mintIn, mintOut}
        THEN <<Ix("token", "close_account", <<Ata(SolMint, signer), signer, signer>>, <<>>)>>
        ELSE <<>>)

(***************************************************************************)
(* solana-tx-assembler.ts.  The programs' own budget instructions are      *)
(* replaced.  The price is at least the default and the units have a       *)
(* buffer, so both instructions are always there in the end; the first     *)
(* pass, without the limit, is what is simulated.                          *)
(***************************************************************************)
BuildInstructionList(ixs, withLimit) ==
    LET Others[k \in 0..Len(ixs)] ==
            IF k = 0 THEN <<>>
            ELSE IF ixs[k].program = "budget" THEN Others[k - 1]
            ELSE Append(Others[k - 1], ixs[k])
    IN  <<Ix("budget", "set_compute_unit_price", <<>>, <<>>)>>
        \o (IF withLimit THEN <<Ix("budget", "set_compute_unit_limit", <<>>, <<>>)>> ELSE <<>>)
        \o Others[Len(ixs)]

\* What the programs do with an instruction; a run is over at the first failure.
Balance(chain, account) ==
    IF account \in DOMAIN chain.tokens THEN chain.tokens[account] ELSE -1

Pay(chain, source, destination, amount) ==
    [chain EXCEPT !.tokens = [a \in DOMAIN @ |->
        @[a] - (IF a = source THEN amount ELSE 0) + (IF a = destination THEN amount ELSE 0)]]

Execute(run, ix) ==
    LET c == run.chain
        a == ix.accounts
        Step(ok, next) == IF ok THEN [run EXCEPT !.chain = next] ELSE [run EXCEPT !.ok = FALSE]
    IN  CASE ~run.ok -> run
          [] run.ok /\ ix.program = "system" -> Step(c.sol[a[1]] >= ix.args.amount, c)
          [] run.ok /\ ix.program = "ata" ->
                 Step(ix.op = "create_idempotent" \/ a[2] \notin DOMAIN c.tokens,
                      [c EXCEPT !.tokens = c.tokens ++ [x \in {a[2]} |-> 0]])
          [] run.ok /\ ix.program = "token" /\ ix.op = "transfer" ->
                 Step(/\ Balance(c, a[1]) >= ix.args.amount
                      /\ a[2] \in DOMAIN c.tokens, Pay(c, a[1], a[2], ix.args.amount))
          [] run.ok /\ ix.program = "handshake" ->
                 Step(/\ a[3] = Key(c.pool)
                      /\ ix.args.amount > 0
                      /\ Balance(c, a[5]) >= ix.args.amount,
                      Pay(c, a[5], a[4], ix.args.amount))
          [] OTHER -> run

Simulates(chain, ixs) ==
    LET list == BuildInstructionList(ixs, FALSE)
        Run[k \in 0..Len(list)] ==
            IF k = 0 THEN [chain |-> chain, ok |-> TRUE] ELSE Execute(Run[k - 1], list[k])
    IN  Run[Len(list)].ok
==============================================================================
