------------------------------- MODULE Verify -------------------------------
(***************************************************************************)
(* The two verifiers of the SDK, which decide whether a decoded            *)
(* transaction does what an intent says: verifyIntent of verify/index.ts   *)
(* (one instruction of a given type), and verifyIntent of intent/index.ts  *)
(* with its matcher (one or more actions, on any program).  Fields of an   *)
(* intent that are not given are not in its record.                        *)
(***************************************************************************)
EXTENDS Decode

If(condition, reason) == IF condition THEN {reason} ELSE {}

\* A field is compared only if both sides have it.
Differs(intent, f, params, g) ==
    f \in DOMAIN intent /\ g \in DOMAIN params /\ intent[f] # params[g]

(***************************************************************************)
(* verify/index.ts                                                         *)
(***************************************************************************)
TokenTypes == {"create_transfer", "transfer_from_account", "deposit"}

ValidateIntentShape(intent) ==
    IF intent.type \in TokenTypes
    THEN If(("token" \in DOMAIN intent) = ("tokenAddress" \in DOMAIN intent), "token selector")
         \cup If(~IsDecimal(intent.amount), "invalid amount")
    ELSE {}

AmountMismatch(intent, params) ==
    /\ "amountHuman" \in DOMAIN params
    /\ ~ (/\ IsDecimal(intent.amount)
          /\ WithinRelativeTolerance(ParseDecimal(intent.amount),
                 ParseDecimal(params.amountHuman.value), DefaultTolerance))

\* A symbol is compared with that of the decoded amount, only if the mint resolved.
CompareTokenSelector(intent, params) ==
    IF "mint" \notin DOMAIN params THEN {}
    ELSE If(Differs(intent, "tokenAddress", params, "mint"), "token address")
         \cup If(/\ "token" \in DOMAIN intent /\ "amountHuman" \in DOMAIN params
                 /\ intent.token # params.amountHuman.symbol, "token symbol")

\* For each type, the fields of the intent and the parameters they are held against.
ComparedFields(type) ==
    CASE type = "create_transfer" ->
             {<<"sender", "sender">>, <<"recipient", "recipient">>, <<"memo", "memo">>}
      [] type = "claim_transfer" ->
             {<<"claimer", "claimer">>, <<"transferPda", "transferPda">>}
      [] type = "cancel_transfer" ->
             {<<"canceller", "sender">>, <<"transferPda", "transferPda">>}
      [] type = "transfer_from_account" -> {<<"owner", "signer">>, <<"recipient", "recipient">>}
      [] type = "deposit" -> {<<"owner", "depositor">>}

CompareInstruction(intent, params) ==
    {c[1] : c \in {c \in ComparedFields(intent.type) : Differs(intent, c[1], params, c[2])}}
    \cup (IF intent.type \in TokenTypes
          THEN If(AmountMismatch(intent, params), "amount")
               \cup CompareTokenSelector(intent, params)
          ELSE {})

\* The first instruction of the type is the one compared, of whatever program.
VerifyInstruction(analysis, intent) ==
    LET ofType == {i \in DOMAIN analysis.ixs : analysis.ixs[i].type = intent.type}
        first == CHOOSE i \in ofType : \A j \in ofType : i <= j
        discrepancies ==
            ValidateIntentShape(intent) \cup analysis.errors
            \cup (IF ofType = {} THEN {"not found"}
                  ELSE CompareInstruction(intent, analysis.ixs[first].params))
    IN  [verified |-> discrepancies = {}, discrepancies |-> discrepancies]

(***************************************************************************)
(* intent/matcher.ts                                                       *)
(***************************************************************************)
KnownActions == {"transfer", "swap", "stake", "lend", "borrow", "approve", "withdraw"}

AncillaryTypes == {"set_compute_unit_price", "set_compute_unit_limit", "memo",
                   "create", "create_idempotent"}

IsAncillary(ix) == ix.type \in AncillaryTypes

\* Faulty variant: amounts are not compared.
CompareAddresses(action, params) ==
    UNION {If(Differs(action, f, params, f), f) : f \in {"from", "to"}}

CompareFields(action, params) ==
    (UNION {If(Differs(action, f, params, f), f) :
                f \in {"from", "to", "owner", "spender", "validator", "memo"}})
    \cup If(/\ "amount" \in DOMAIN action /\ "amountHuman" \in DOMAIN params
            /\ ~EvaluateConstraint(action.amount, params.amountHuman.value), "amount")

\* Faulty variant: an instruction may be taken twice.
MatchAnyAction(m, action, ixs, expectedProgram) ==
    LET ofType == {i \in DOMAIN ixs : ixs[i].type = action.action}
        i == CHOOSE i \in ofType : \A j \in ofType : i <= j
    IN  IF ofType = {} THEN [m EXCEPT !.discrepancies = @ \cup {"not found"}]
        ELSE [m EXCEPT !.used = @ \cup {i},
                       !.discrepancies = @ \cup CompareFields(action, ixs[i].params)]

\* An action takes the first instruction of its type that no action before it took.
MatchSingleAction(m, action, ixs, expectedProgram) ==
    LET free == {i \in DOMAIN ixs : ixs[i].type = action.action /\ i \notin m.used}
        i == CHOOSE i \in free : \A j \in free : i <= j
        known == action.action \in KnownActions
    IN  IF free = {} THEN [m EXCEPT !.discrepancies = @ \cup {"not found"}]
        ELSE [used |-> m.used \cup {i},
              confidence |-> IF known THEN m.confidence ELSE "unverified",
              discrepancies |->
                  m.discrepancies
                  \cup If(expectedProgram \notin {"none", ixs[i].program}, "program")
                  \cup (IF known THEN CompareFields(action, ixs[i].params) ELSE {})]

MatchIntent(actions, ixs, errors, strict, expectedProgram) ==
    LET Matched[k \in 0..Len(actions)] ==
            IF k = 0 THEN [used |-> {}, confidence |-> "full", discrepancies |-> errors]
            ELSE MatchSingleAction(Matched[k - 1], actions[k], ixs, expectedProgram)
        m == Matched[Len(actions)]
        extra == {i \in DOMAIN ixs \ m.used : ~IsAncillary(ixs[i])}
        discrepancies == m.discrepancies \cup If(strict /\ extra # {}, "strict")
    IN  [matched |-> discrepancies = {} /\ m.confidence # "unverified",
         confidence |-> m.confidence, discrepancies |-> discrepancies]

(***************************************************************************)
(* intent/index.ts                                                         *)
(***************************************************************************)
Field(r, f) == IF f \in DOMAIN r THEN r[f] ELSE "none"

ProgramClash(intent) ==
    /\ {"program", "programName"} \subseteq DOMAIN intent
    /\ ~CrossCheckProgram(intent.network, intent.programName, intent.program)

\* A name that the network does not list asks for no program.
ExpectedProgram(intent) ==
    IF "program" \in DOMAIN intent THEN intent.program
    ELSE IF Field(intent, "programName") \in BundledPrograms[intent.network]
    THEN intent.programName
    ELSE "none"

\* Faulty variant: the two ends swapped.
RenamedSwapped(params) ==
    (IF "sender" \in DOMAIN params THEN [to |-> params.sender] ELSE <<>>)
    ++ (IF "recipient" \in DOMAIN params THEN [from |-> params.recipient] ELSE <<>>)

\* A Handshake create_transfer is a transfer, from its sender to its recipient.
Renamed(params) ==
    (IF "sender" \in DOMAIN params THEN [from |-> params.sender] ELSE <<>>)
    ++ (IF "recipient" \in DOMAIN params THEN [to |-> params.recipient] ELSE <<>>)

Generic(ix) ==
    IF ix.type # "create_transfer" THEN ix
    ELSE [ix EXCEPT !.type = "transfer", !.params = Renamed(@) ++ @]

VerifyIntent(analysis, intent) ==
    LET Fails(confidence, reason) ==
            [matched |-> FALSE, confidence |-> confidence, discrepancies |-> {reason}]
        ixs == [i \in DOMAIN analysis.ixs |-> Generic(analysis.ixs[i])]
    IN  IF "chain" \notin DOMAIN intent THEN Fails("unverified", "no chain")
        ELSE IF ProgramClash(intent) THEN Fails("full", "program cross-check")
        ELSE IF intent.chain # "solana" THEN Fails("unverified", "no adapter")
        ELSE MatchIntent(intent.actions, ixs, analysis.errors, intent.strict,
                         ExpectedProgram(intent))
==============================================================================
