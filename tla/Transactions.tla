---------------------------- MODULE Transactions ----------------------------
(***************************************************************************)
(* Unsigned transactions as the builders write them and the decoders read  *)
(* them, and the tables of tokens and programs the SDK bundles.  A         *)
(* transaction is a fee payer and a sequence of instructions; an           *)
(* instruction names a program, its operation, the accounts in wire order  *)
(* and the arguments.                                                      *)
(***************************************************************************)
EXTENDS Integers, Sequences

\* The fields of both records, or entries of both tables; where both have one, that of f.
f ++ g == [x \in DOMAIN f \cup DOMAIN g |-> IF x \in DOMAIN f THEN f[x] ELSE g[x]]

\* An address is a key or the associated token account of an owner for a mint.
Key(name) == [name |-> <<name>>, mint |-> "none"]
Ata(mint, owner) == [name |-> owner.name, mint |-> mint]

\* An address derived from others by a program.
Pda(seeds) == [name |-> seeds, mint |-> "none"]

\* Accounts of a lookup table decode to the empty string.
Unresolved == Key("")

\* Short data is cut after the discriminator.
Ix(program, op, accounts, args) ==
    [program |-> program, op |-> op, accounts |-> accounts, args |-> args, short |-> FALSE]

Tx(feePayer, ixs) == [feePayer |-> feePayer, ixs |-> ixs]

(***************************************************************************)
(* Mints.  "usdc" and "sol" stand for the mainnet tokens of both tables,   *)
(* "devUsdc" for a devnet one, which the table of the decoders lacks, and  *)
(* "other" for a mint neither lists.  Decimals are scaled down from 6 and  *)
(* 9 to 1 and 2, the default included.                                     *)
(***************************************************************************)
Mints == {"usdc", "sol", "devUsdc", "other"}

TrueDecimals == [usdc |-> 1, sol |-> 2, devUsdc |-> 1, other |-> 2]

DefaultDecimals == 1

\* The decoders' table: symbol and decimals.
KnownTokens == [usdc |-> [symbol |-> "USDC", decimals |-> 1],
                sol |-> [symbol |-> "SOL", decimals |-> 2]]

\* The intents' table of each network: what a symbol stands for.
BundledTokens == [mainnet |-> [USDC |-> [address |-> "usdc", decimals |-> 1],
                               SOL |-> [address |-> "sol", decimals |-> 2]],
                  devnet |-> [USDC |-> [address |-> "devUsdc", decimals |-> 1]]]

NoToken == [address |-> "none", decimals |-> 0]

ResolveSymbol(network, symbol) ==
    IF symbol \in DOMAIN BundledTokens[network] THEN BundledTokens[network][symbol] ELSE NoToken

SymbolsOf(network, address) ==
    {s \in DOMAIN BundledTokens[network] : BundledTokens[network][s].address = address}

CrossCheckToken(network, symbol, address) == symbol \in SymbolsOf(network, address)

\* Addresses of 44 characters; the two others have 43 and are never looked up.
LongAddresses == {"usdc", "other"}

(***************************************************************************)
(* Programs.  "ata" is the associated token account program; the decoders  *)
(* list another address for it, "listedAta".                               *)
(***************************************************************************)
DecodedPrograms == {"system", "token", "listedAta", "budget", "memo",
                    "handshake", "silkysig", "jupiter"}

BundledPrograms == [mainnet |-> {"handshake", "silkysig", "jupiter"},
                    devnet |-> {"handshake", "silkysig"}]

\* The name of a bundled program is that of its address.
CrossCheckProgram(network, name, address) ==
    name \in BundledPrograms[network] /\ name = address
=============================================================================
