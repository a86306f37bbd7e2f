---------------------------- MODULE FaucetService ----------------------------
(***************************************************************************)
(* The faucet (apps/backend/src/solana/solana.service.ts).  A request      *)
(* looks at the cooldown, pays, waits for the confirmation and only then   *)
(* records the time, in memory.                                            *)
(***************************************************************************)
EXTENDS Requests

CONSTANTS
    FaucetWallets,
    Tokens          \* what a request may ask for: "sol", "usdc", "both"

VARIABLES
    cooling,    \* keys of faucetLastRequest younger than ten minutes
    paid,       \* how often each key was paid
    racing      \* key -> clients past the check when a payment of the last ten minutes
                \* was answered, or None

faucetVars == <<cooling, paid, racing>>

\* transferSol, transferUsdc and fundWallet keep cooldowns of their own.
ASSUME TokensAssumption == "sol" \in Tokens /\ Tokens \subseteq {"sol", "usdc", "both"}
FaucetKeys == Tokens \X FaucetWallets

FaucetInit ==
    /\ cooling = {}
    /\ paid = [k \in FaucetKeys |-> 0]
    /\ racing = [k \in FaucetKeys |-> None]

FaucetTypeOK ==
    /\ cooling \subseteq FaucetKeys
    /\ paid \in [FaucetKeys -> Nat]
    /\ \A k \in FaucetKeys : racing[k] = None \/ racing[k] \subseteq Clients

FaucetKey(q) == <<q.token, q.pubkey>>

\* checkRateLimit.
CheckRateLimit(c) ==
    LET k == FaucetKey(call[c])
    IN  /\ At(c, "faucet")
        /\ \/ k \in cooling /\ Refuse(c, "RATE_LIMITED") /\ UNCHANGED racing
           \/ /\ k \notin cooling
              /\ Await(c, "pay", call[c])
              /\ racing' = [racing EXCEPT ![k] = IF @ = None THEN @ ELSE @ \ {c}]
        /\ UNCHANGED <<cooling, paid>>

\* The transaction is sent.  One that fails once it is on the chain is confirmed
\* like the others.
Pay(c) ==
    LET k == FaucetKey(call[c])
    IN  /\ At(c, "pay")
        /\ \/ Refuse(c, "FAUCET_FAILED") /\ UNCHANGED paid
           \/ Await(c, "confirm", call[c]) /\ UNCHANGED paid
           \/ Await(c, "confirm", call[c]) /\ paid' = [paid EXCEPT ![k] = @ + 1]
        /\ UNCHANGED <<cooling, racing>>

\* Faulty variant: every payment is recorded as one of SOL.
RecordedAsSol(q) == <<"sol", q.pubkey>>

RecordedAs(q) == FaucetKey(q)

PastTheCheck(k) == {c \in Clients : (At(c, "pay") \/ At(c, "confirm")) /\ FaucetKey(call[c]) = k}

\* A confirmation that is not seen in time records nothing.
Record(c) ==
    LET k == FaucetKey(call[c])
    IN  /\ At(c, "confirm")
        /\ \/ Refuse(c, "FAUCET_FAILED") /\ UNCHANGED <<cooling, racing>>
           \/ /\ cooling' = cooling \cup {RecordedAs(call[c])}
              /\ racing' = [racing EXCEPT ![k] = PastTheCheck(k) \ {c}]
              /\ Reply(c, None)
        /\ UNCHANGED paid

FaucetStep(c) == CheckRateLimit(c) \/ Pay(c) \/ Record(c)

\* Ten minutes pass.
CooldownEnds(k) ==
    /\ k \in cooling \/ racing[k] # None
    /\ cooling' = cooling \ {k}
    /\ racing' = [racing EXCEPT ![k] = None]
    /\ UNCHANGED <<call, paid>>

FaucetRestart ==
    /\ cooling' = {}
    /\ racing' = [k \in FaucetKeys |-> None]
    /\ UNCHANGED paid

----------------------------------------------------------------------------

\* For ten minutes after a payment was answered the wallet is paid again only by a
\* request for the same token that was past its check by then (solana.service.ts:184,
\* 205): one that starts later cannot miss the cooldown, unless the server restarted.
OnlyRacersPay ==
    [][\A k \in FaucetKeys :
           racing[k] # None /\ paid'[k] # paid[k] =>
               \E c \in racing[k] : At(c, "pay") /\ FaucetKey(call[c]) = k /\ ~At(c, "pay")'
      ]_<<call, cooling, paid, racing>>
=============================================================================
