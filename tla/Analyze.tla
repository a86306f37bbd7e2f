------------------------------- MODULE Analyze -------------------------------
(***************************************************************************)
(* The verdict of the backend on a transaction and an intent               *)
(* (solana.analyzer.ts, services/intent/types.ts): the answer of the SDK's *)
(* verifier, checks of its own, a level of risk and a level of viability.  *)
(*                                                                         *)
(* reads tells which of the reads of the chain answer: first and second    *)
(* the metadata for the two decodings, mint the decimals of a mint,        *)
(* balance the balances; impact is what a fresh quote says, "none" if it   *)
(* fails.  The metadata never changes, so the order of these reads does    *)
(* not matter.                                                             *)
(***************************************************************************)
EXTENDS Build

Single(intent) == ~intent.compound

\* An amount that requireExactAmount takes.
IsGiven(action, f) == f \in DOMAIN action /\ IsExactAmount(action[f])

IsAction(intent, name) == Single(intent) /\ intent.actions[1].action = name

\* Several actions give no program check of their own but that of the whole.
ApplyProgramChecks(intent, ixs) ==
    LET name == Field(intent, "programName")
        named == Field(intent, "program") # "none"
        Calls(programs) == \E i \in DOMAIN ixs : ixs[i].program \in programs
    IN  CASE ~named /\ name = "none" -> {}
          [] ProgramClash(intent) -> {"program mismatch"}
          [] ~named /\ name = "native" -> If(~Calls({"system", "token"}), "no native instruction")
          [] OTHER -> IF ExpectedProgram(intent) = "none" THEN {"unknown programName"}
                      ELSE If(~Calls({ExpectedProgram(intent)}), "program not called")

\* The mint of a token transfer; a symbol, SOL too, is one of the network's table.
ResolveMintAddress(action, network) ==
    IF "token" \in DOMAIN action THEN action.token
    ELSE IF Field(action, "tokenSymbol") \in DOMAIN BundledTokens[network]
    THEN ResolveSymbol(network, action.tokenSymbol).address
    ELSE "error"

(***************************************************************************)
(* Transfers by the system or the token program, compared in full.  The    *)
(* first instruction that is equal, or that stops the search, decides.     *)
(***************************************************************************)
Holds(params, f, value) == f \in DOMAIN params /\ params[f] = value

CompareSolTransfer(action, params) ==
    LET amount == action.amount.eq
    IN  IF ~(Holds(params, "from", action.from) /\ Holds(params, "to", action.to)) THEN "other"
        ELSE IF ~FitsPrecision(amount, SolDecimals) THEN "throws"
        ELSE IF params.lamports = ToBaseUnits(amount, SolDecimals) THEN "equal" ELSE "other"

CompareTokenTransfer(action, params, network, mintRead) ==
    LET amount == action.amount.eq
        mint == ResolveMintAddress(action, network)
    IN  IF ~Holds(params, "authority", action.from) THEN "other"
        ELSE IF mint = "error" THEN "unknown mint"
        ELSE IF ~mintRead \/ ~FitsPrecision(amount, TrueDecimals[mint]) THEN "throws"
        ELSE IF /\ Holds(params, "destination", Ata(mint, action.to))
                /\ params.amount = ToBaseUnits(amount, TrueDecimals[mint])
             THEN "equal" ELSE "other"

CompareTransferIx(action, ix, network, mintRead) ==
    CASE ix.program = "system" -> CompareSolTransfer(action, ix.params)
      [] ix.program = "token" -> CompareTokenTransfer(action, ix.params, network, mintRead)
      [] OTHER -> "other"

\* "equal", "silent" (nothing to say), "throws", or a discrepancy.
CheckNativeTransferFallback(intent, ixs, mintRead) ==
    LET action == intent.actions[1]
        transfers == {i \in DOMAIN ixs : ixs[i].type \in {"transfer", "transfer_checked"}}
        Result(i) == CompareTransferIx(action, ixs[i], intent.network, mintRead)
        decisive == {i \in transfers : Result(i) # "other"}
    IN  CASE ~IsAction(intent, "transfer") -> "silent"
          [] IsAction(intent, "transfer") /\ ~({"from", "to"} \subseteq DOMAIN action) ->
                 "missing from or to"
          [] OTHER ->
                 IF Field(intent, "programName") \notin {"none", "native"} THEN "silent"
                 ELSE IF ~IsGiven(action, "amount") THEN "amount not exact"
                 ELSE IF transfers = {} THEN "silent"
                 ELSE IF decisive = {} THEN "no transfer as asked"
                 ELSE Result(CHOOSE i \in decisive : \A j \in decisive : i <= j)

(***************************************************************************)
(* Swaps: the two mints must be parameters of some instruction.            *)
(***************************************************************************)
Texts == {"amount", "amountHuman", "lamports", "sol", "memo", "perTxLimit"}

InstructionMentionsAddress(ixs, mint) ==
    \E i \in DOMAIN ixs : \E f \in DOMAIN ixs[i].params \ Texts : ixs[i].params[f] = Key(mint)

ResolveSwapTokenRef(ref, network) == SwapMint(ref, network)

CheckSwapMatch(intent, ixs) ==
    LET action == intent.actions[1]
        Unmentioned(ref) ==
            LET mint == ResolveSwapTokenRef(ref, intent.network)
            IN  mint # "error" /\ ~InstructionMentionsAddress(ixs, mint)
    IN  If(/\ "jupiter" \in BundledPrograms[intent.network]
           /\ ~\E i \in DOMAIN ixs : ixs[i].program = "jupiter", "no Jupiter instruction")
        \cup If(Unmentioned(action.tokenIn), "tokenIn")
        \cup If(Unmentioned(action.tokenOut), "tokenOut")

\* The quote is asked for what the intent says now; a failure of it is ignored.
AssessSwapRisk(intent, impact) ==
    LET action == intent.actions[1]
        Resolved(ref) == ResolveSwapTokenRef(ref, intent.network) # "error"
        quoted == /\ Resolved(action.tokenIn) /\ Resolved(action.tokenOut)
                  /\ IsGiven(action, "amountIn")
                  /\ FitsPrecision(action.amountIn.eq,
                         TrueDecimals[ResolveSwapTokenRef(action.tokenIn, intent.network)])
    IN  IF quoted /\ impact \in {"error", "warning"} THEN {impact} ELSE {}

AssessRisk(severities) ==
    IF "error" \in severities THEN "high" ELSE IF "warning" \in severities THEN "medium" ELSE "low"

(***************************************************************************)
(* Viability.  The buffers for fees are scaled down as the amounts are.    *)
(***************************************************************************)
TransferBuffer == 1
SwapBuffer == 2

\* "short" (what is reported as insufficient or invalid), "unsure" or "enough".
TokenCover(chain, mint, owner, amount, answered) ==
    IF ~answered \/ ~FitsPrecision(amount, TrueDecimals[mint])
       \/ Ata(mint, owner) \notin DOMAIN chain.tokens THEN "unsure"
    ELSE IF chain.tokens[Ata(mint, owner)] < ToBaseUnits(amount, TrueDecimals[mint])
    THEN "short" ELSE "enough"

SolCover(chain, owner, amount, buffer, answered) ==
    IF ~answered \/ ~FitsPrecision(amount, SolDecimals) THEN "unsure"
    ELSE IF chain.sol[owner] < ToBaseUnits(amount, SolDecimals) + buffer THEN "short" ELSE "enough"

CheckTransferViability(chain, intent, reads) ==
    LET action == intent.actions[1]
        malformed == /\ "amount" \in DOMAIN action /\ DOMAIN action.amount = {"eq"}
                     /\ ~IsExactAmount(action.amount)
        mint == ResolveMintAddress(action, intent.network)
    IN  IF "from" \notin DOMAIN action \/ malformed THEN {"short"}
        ELSE IF ~IsGiven(action, "amount") THEN {"unsure"}
        ELSE IF ResolveMint(action, intent.network) = "none"
        THEN {SolCover(chain, action.from, action.amount.eq, TransferBuffer, reads.balance)}
        ELSE IF mint = "error" THEN {"unsure"}
        ELSE {TokenCover(chain, mint, action.from, action.amount.eq, reads.mint /\ reads.balance)}

CheckSwapViability(chain, intent, reads) ==
    LET action == intent.actions[1]
        mint == ResolveSwapTokenRef(action.tokenIn, intent.network)
        decimalsKnown == reads.mint \/ SymbolsOf(intent.network, mint) # {}
        Cover == IF mint = SolMint
                 THEN SolCover(chain, action.from, action.amountIn.eq, SwapBuffer, reads.balance)
                 ELSE TokenCover(chain, mint, action.from, action.amountIn.eq,
                                 reads.balance /\ decimalsKnown)
    IN  IF ~IsGiven(action, "amountIn") THEN {"unsure"}
        ELSE {SolCover(chain, action.from, [digits |-> 0, frac |-> 0], SwapBuffer, reads.balance)}
             \cup {IF mint = "error" THEN "unsure" ELSE Cover}

ViabilityFromIssues(issues) ==
    IF "short" \in issues THEN "unviable"
    ELSE IF "unsure" \in issues THEN "uncertain" ELSE "viable"

(***************************************************************************)
(* analyze.                                                                *)
(***************************************************************************)
MatchesAction(action, type) ==
    type = action \/ (action = "transfer" /\ type \in {"create_transfer", "transfer_checked"})

InferMatchLevel(intent, ixs, hadMatchSignal) ==
    IF \/ hadMatchSignal
       \/ /\ Single(intent)
          /\ \E i \in DOMAIN ixs : MatchesAction(intent.actions[1].action, ixs[i].type)
    THEN "partial" ELSE "none"

DeriveVerdict(match, risk, viability) ==
    IF match = "none" \/ risk = "high" \/ viability = "unviable" THEN "reject"
    ELSE IF match = "partial" \/ risk = "medium" \/ viability = "uncertain" THEN "caution"
    ELSE "proceed"

AnalyzeThrows(tx, intent, reads) ==
    CheckNativeTransferFallback(intent, AnalyzeTransaction(tx, FetchedMeta(tx, reads.first)).ixs,
                                reads.mint) = "throws"

\* A swap matches as soon as its mints are mentioned; what the fallback finds wrong
\* counts only if the verifier found something wrong.
Matching(tx, intent, reads) ==
    LET raw == AnalyzeTransaction(tx, FetchedMeta(tx, reads.first))
        verified == VerifyIntent(AnalyzeTransaction(tx, FetchedMeta(tx, reads.second)), intent)
        fallback == CheckNativeTransferFallback(intent, raw.ixs, reads.mint)
        isSwap == IsAction(intent, "swap")
        swap == IF isSwap THEN CheckSwapMatch(intent, raw.ixs) ELSE {}
        discrepancies ==
            verified.discrepancies \cup ApplyProgramChecks(intent, raw.ixs) \cup swap
            \cup (IF verified.matched \/ fallback \in {"equal", "silent"} THEN {} ELSE {fallback})
        signal == verified.matched \/ fallback = "equal" \/ (isSwap /\ swap = {})
    IN  IF signal /\ discrepancies = {} THEN "full"
        ELSE InferMatchLevel(intent, raw.ixs, signal)

Risk(tx, intent, reads) ==
    LET raw == AnalyzeTransaction(tx, FetchedMeta(tx, reads.first))
    IN  AssessRisk((IF raw.errors = {} THEN {} ELSE {"error"})
                   \cup (IF IsAction(intent, "swap") THEN AssessSwapRisk(intent, reads.impact)
                         ELSE {}))

Viability(chain, intent, reads) ==
    ViabilityFromIssues(
        IF IsAction(intent, "swap") THEN CheckSwapViability(chain, intent, reads)
        ELSE IF IsAction(intent, "transfer") THEN CheckTransferViability(chain, intent, reads)
        ELSE {})

Analyze(chain, tx, intent, reads) ==
    LET match == Matching(tx, intent, reads)
        risk == Risk(tx, intent, reads)
        viability == Viability(chain, intent, reads)
    IN  [match |-> match, risk |-> risk, viability |-> viability,
         verdict |-> DeriveVerdict(match, risk, viability)]
==============================================================================
