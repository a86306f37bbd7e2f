------------------------------- MODULE Decode -------------------------------
(***************************************************************************)
(* analyzeTransaction of the SDK (verify/index.ts, decoders, rpc.ts,       *)
(* flags.ts): every instruction of a transaction decoded to a type and     *)
(* parameters, and flags.  A parameter that is null is left out of the     *)
(* record.  meta maps the mints whose metadata could be read to their      *)
(* decimals.                                                               *)
(***************************************************************************)
EXTENDS Amounts, Transactions

\* The accounts at positions: those that the instruction has and that resolve.
Named(ix, positions) ==
    LET present == {f \in DOMAIN positions :
                        /\ positions[f] <= Len(ix.accounts)
                        /\ ix.accounts[positions[f]] # Unresolved}
    IN  [f \in present |-> ix.accounts[positions[f]]]

(***************************************************************************)
(* rpc.ts: what is known of a mint.  Only unlisted addresses among the     *)
(* first five accounts of an instruction of a known program are looked up. *)
(***************************************************************************)
Prefetched(tx) ==
    {m \in LongAddresses \ DOMAIN KnownTokens :
        \E i \in DOMAIN tx.ixs :
            /\ tx.ixs[i].program \in DecodedPrograms
            /\ \E j \in 1..5 : j <= Len(tx.ixs[i].accounts) /\ tx.ixs[i].accounts[j] = Key(m)}

\* A lookup answers with the decimals of the mint account, or fails.
FetchedMeta(tx, rpcUp) == IF rpcUp THEN Prefetched(tx) ELSE {}

\* Faulty variant: the default, though the metadata was read.
GetDecimalsListed(mint, meta) ==
    IF mint \in DOMAIN KnownTokens THEN KnownTokens[mint].decimals ELSE DefaultDecimals

GetDecimals(mint, meta) ==
    IF mint \in DOMAIN KnownTokens THEN KnownTokens[mint].decimals
    ELSE IF mint \in meta THEN TrueDecimals[mint]
    ELSE DefaultDecimals

\* An unlisted mint has its shortened address as symbol.
GetSymbol(mint) == IF mint \in DOMAIN KnownTokens THEN KnownTokens[mint].symbol ELSE mint

AmountParams(mint, amount, decimals) ==
    [amount |-> amount,
     amountHuman |-> [value |-> FormatUnits(amount, decimals), symbol |-> GetSymbol(mint)]]

\* The mint as the account at position names it, "none" if it does not resolve.
MintAt(ix, position) ==
    IF position <= Len(ix.accounts) /\ ix.accounts[position] # Unresolved
    THEN ix.accounts[position].name[1] ELSE "none"

(***************************************************************************)
(* The decoders.  Each gives the positions of the accounts it names.       *)
(***************************************************************************)
HandshakeAccounts ==
    [create_transfer |-> [sender |-> 1, pool |-> 2, mint |-> 3],
     claim_transfer |-> [claimer |-> 1, transferPda |-> 6, sender |-> 7],
     cancel_transfer |-> [sender |-> 1, transferPda |-> 6],
     decline_transfer |-> [recipient |-> 1, transferPda |-> 6],
     reject_transfer |-> [operator |-> 1, transferPda |-> 6],
     expire_transfer |-> [caller |-> 1, transferPda |-> 6],
     init_pool |-> [operator |-> 1, mint |-> 2, pool |-> 3],
     pause_pool |-> [operator |-> 1, pool |-> 2],
     withdraw_fees |-> [operator |-> 1, pool |-> 2],
     destroy_transfer |-> <<>>, reset_pool |-> <<>>, close_pool |-> <<>>]

DecodeHandshake(ix, meta) ==
    LET mint == MintAt(ix, 3)
        arguments == [recipient |-> ix.args.recipient]
                     ++ (IF ix.args.memo = "" THEN <<>> ELSE [memo |-> ix.args.memo])
                     ++ AmountParams(mint, ix.args.amount, GetDecimals(mint, meta))
    IN  IF ix.op # "create_transfer" THEN Named(ix, HandshakeAccounts[ix.op])
        ELSE IF ix.short THEN Named(ix, [sender |-> 1])
        ELSE Named(ix, HandshakeAccounts.create_transfer) ++ arguments

SilkysigAccounts ==
    [create_account |-> [owner |-> 1, mint |-> 2, silkAccount |-> 3],
     deposit |-> [depositor |-> 1, silkAccount |-> 2, mint |-> 3],
     transfer_from_account |-> [signer |-> 1, silkAccount |-> 2, mint |-> 3, recipient |-> 5],
     add_operator |-> [owner |-> 1, silkAccount |-> 2],
     remove_operator |-> [owner |-> 1, silkAccount |-> 2],
     toggle_pause |-> [owner |-> 1, silkAccount |-> 2],
     close_account |-> [owner |-> 1, silkAccount |-> 2],
     init_drift_user |-> <<>>]

\* Of a payment cut short only the first account is named; an operator cut short
\* reads as the key of zeros, the system program.
DecodeSilkysig(ix, meta) ==
    LET mint == MintAt(ix, 3)
        positions == SilkysigAccounts[ix.op]
        paying == ix.op \in {"deposit", "transfer_from_account"}
        cut == ix.short /\ DOMAIN ix.args # {}
    IN  IF paying /\ cut
        THEN Named(ix, [f \in {g \in DOMAIN positions : positions[g] = 1} |-> 1])
        ELSE Named(ix, positions)
             ++ (CASE paying -> AmountParams(mint, ix.args.amount, GetDecimals(mint, meta))
                   [] cut -> [operator |-> Key("system")]
                   [] OTHER -> ix.args)

TokenAccounts ==
    [transfer |-> [source |-> 1, destination |-> 2, authority |-> 3],
     transfer_checked |-> [source |-> 1, mint |-> 2, destination |-> 3, authority |-> 4],
     mint_to |-> [mint |-> 1, destination |-> 2, authority |-> 3],
     mint_to_checked |-> [mint |-> 1, destination |-> 2, authority |-> 3],
     burn |-> [account |-> 1, mint |-> 2, authority |-> 3],
     burn_checked |-> [account |-> 1, mint |-> 2, authority |-> 3],
     close_account |-> [account |-> 1, destination |-> 2, authority |-> 3],
     initialize_account |-> [account |-> 1, mint |-> 2, owner |-> 3],
     sync_native |-> [account |-> 1],
     freeze_account |-> [account |-> 1, mint |-> 2],
     thaw_account |-> [account |-> 1, mint |-> 2]]

PlainAmount == {"transfer", "mint_to", "mint_to_checked", "burn", "burn_checked"}

\* A checked transfer carries its decimals, which are used only if its mint
\* resolves: the raw amount is shown otherwise.  A plain one gives no amountHuman.
DecodeSplToken(ix) ==
    LET mint == MintAt(ix, 2)
        shown == IF mint = "none" THEN 0 ELSE ix.args.decimals
    IN  Named(ix, TokenAccounts[ix.op])
        ++ (CASE ix.op \in PlainAmount -> [amount |-> ix.args.amount]
              [] ix.op = "transfer_checked" -> AmountParams(mint, ix.args.amount, shown)
              [] OTHER -> <<>>)

SystemAccounts ==
    [transfer |-> [from |-> 1, to |-> 2], create_account |-> [from |-> 1, newAccount |-> 2],
     assign |-> [account |-> 1], allocate |-> [account |-> 1],
     advance_nonce_account |-> [nonce |-> 1]]

SolDecimals == 2

DecodeSystem(ix) ==
    Named(ix, SystemAccounts[ix.op])
    ++ (IF ix.op \in {"transfer", "create_account"}
        THEN [lamports |-> ix.args.amount, sol |-> FormatUnits(ix.args.amount, SolDecimals)]
        ELSE <<>>)

DecodeAta(ix) == Named(ix, [funder |-> 1, newAta |-> 2, wallet |-> 3, mint |-> 4])

\* The token accounts of a route; the amounts are not decoded.
DecodeJupiter(ix) ==
    IF ix.op = "route" THEN Named(ix, [sourceTokenAccount |-> 3, destinationTokenAccount |-> 4])
    ELSE <<>>

DecodeParams(ix, meta) ==
    CASE ix.program = "handshake" -> DecodeHandshake(ix, meta)
      [] ix.program = "silkysig" -> DecodeSilkysig(ix, meta)
      [] ix.program = "token" -> DecodeSplToken(ix)
      [] ix.program = "system" -> DecodeSystem(ix)
      [] ix.program = "listedAta" -> DecodeAta(ix)
      [] ix.program = "jupiter" -> DecodeJupiter(ix)
      [] OTHER -> ix.args

\* Discriminators and indexes no decoder knows: a Handshake or Silkysig one has no
\* type, another program's an unknown one, with no parameters.  Data too short for a
\* token or system instruction is not decoded at all.
DecodeInstruction(ix, meta) ==
    LET known == ix.program \in DecodedPrograms
        cut == ix.short /\ ix.program \in {"token", "system"}
        legible == known /\ ~cut /\ ix.op # "unknown"
        typed == legible \/ (known /\ ~cut /\ ix.program \notin {"handshake", "silkysig"})
    IN  [program |-> ix.program, known |-> known,
         type |-> IF typed THEN ix.op ELSE "none",
         params |-> IF legible THEN DecodeParams(ix, meta) ELSE <<>>]

(***************************************************************************)
(* flags.ts, the flags of severity error.  Every account an instruction    *)
(* names counts as known to the transaction, the recipient of a transfer   *)
(* too: UNEXPECTED_SOL_DRAIN needs one that no instruction names.          *)
(***************************************************************************)
TxAddresses(tx) ==
    {tx.feePayer} \cup UNION {{tx.ixs[i].accounts[j] : j \in DOMAIN tx.ixs[i].accounts} :
                                  i \in DOMAIN tx.ixs}

ErrorFlags(tx, ixs) ==
    {"UNKNOWN_PROGRAM" : i \in {i \in DOMAIN ixs : ~ixs[i].known}}
    \cup {"UNEXPECTED_SOL_DRAIN" :
              i \in {i \in DOMAIN ixs :
                         /\ ixs[i].program = "system" /\ ixs[i].type = "transfer"
                         /\ "to" \in DOMAIN ixs[i].params
                         /\ ixs[i].params.to \notin TxAddresses(tx)}}

AnalyzeTransaction(tx, meta) ==
    LET ixs == [i \in DOMAIN tx.ixs |-> DecodeInstruction(tx.ixs[i], meta)]
    IN  [feePayer |-> tx.feePayer, ixs |-> ixs, errors |-> ErrorFlags(tx, ixs)]
==============================================================================
