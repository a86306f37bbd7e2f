----------------------------- MODULE AuthService -----------------------------
(***************************************************************************)
(* API keys (apps/backend/src/api/auth/auth.service.ts, auth.guard.ts):    *)
(* challenges are in memory, keys in a table with one row for a wallet.    *)
(* verifyAndIssueKey and revokeKey read the row, and write it at a later   *)
(* await.  A key stands for its hash.                                      *)
(***************************************************************************)
EXTENDS Requests

CONSTANT Pubkeys

\* A row is not the value for none.
ASSUME NoneAssumption == None \notin [key : Nat, revoked : BOOLEAN]

VARIABLES
    challenges,     \* wallet -> the nonce it may sign (not expired), or None
    apiKeys,        \* wallet -> its row, or None
    nonces,         \* how many nonces were handed out
    minted,         \* how many keys were made
    revokedKeys     \* keys whose revocation was answered with success

authVars == <<challenges, apiKeys, nonces, minted, revokedKeys>>

\* The first wallet is registered.
AuthInit ==
    /\ challenges = [w \in Pubkeys |-> None]
    /\ apiKeys = [w \in Pubkeys |-> IF w = 1 THEN [key |-> 1, revoked |-> FALSE] ELSE None]
    /\ nonces = 1
    /\ minted = 1
    /\ revokedKeys = {}

AuthTypeOK ==
    /\ challenges \in [Pubkeys -> 1..nonces \cup {None}]
    /\ apiKeys \in [Pubkeys -> [key : 1..minted, revoked : BOOLEAN] \cup {None}]
    /\ nonces \in Nat
    /\ minted \in 0..nonces
    /\ revokedKeys \subseteq 1..minted

GenerateChallenge(c) ==
    /\ At(c, "challenge")
    /\ nonces' = nonces + 1
    /\ challenges' = [challenges EXCEPT ![call[c].pubkey] = nonces']
    /\ Reply(c, nonces')
    /\ UNCHANGED <<apiKeys, minted, revokedKeys>>

\* 60 seconds later the entry counts as absent.
ChallengeExpires(w) ==
    /\ challenges[w] # None
    /\ challenges' = [challenges EXCEPT ![w] = None]
    /\ UNCHANGED <<call, apiKeys, nonces, minted, revokedKeys>>

\* The part of verifyAndIssueKey before its first await: a challenge is used up before
\* the signature is looked at.  A signature is the pair of the wallet that signed and
\* the nonce.
VerifySignature(c) ==
    LET q == call[c]
        entry == challenges[q.pubkey]
    IN  /\ At(c, "register")
        /\ \/ /\ entry = None
              /\ Refuse(c, "UNAUTHORIZED")
              /\ UNCHANGED <<challenges, minted>>
           \/ /\ entry # None
              /\ challenges' = [challenges EXCEPT ![q.pubkey] = None]
              /\ \/ /\ q.signature # <<q.pubkey, entry>>
                    /\ Refuse(c, "UNAUTHORIZED")
                    /\ UNCHANGED minted
                 \/ /\ q.signature = <<q.pubkey, entry>>
                    /\ minted' = minted + 1
                    /\ Send(c, [stage |-> "findRow", pubkey |-> q.pubkey, key |-> minted'])
        /\ UNCHANGED <<apiKeys, nonces, revokedKeys>>

FindRow(c) ==
    /\ At(c, "findRow")
    /\ Send(c, [stage |-> "flushKey", pubkey |-> call[c].pubkey, key |-> call[c].key,
                row |-> apiKeys[call[c].pubkey]])
    /\ UNCHANGED authVars

\* The flush writes the columns that changed since the row was read: revokedAt is
\* cleared only if it was set then.  pubkey is unique: a second insertion fails.
FlushKey(c) ==
    LET q == call[c]
        row == apiKeys[q.pubkey]
    IN  /\ At(c, "flushKey")
        /\ \/ /\ q.row = None /\ row = None
              /\ apiKeys' = [apiKeys EXCEPT ![q.pubkey] = [key |-> q.key, revoked |-> FALSE]]
              /\ Reply(c, q.key)
           \/ q.row = None /\ row # None /\ Refuse(c, "UNAUTHORIZED") /\ UNCHANGED apiKeys
           \/ /\ q.row # None
              /\ apiKeys' = [apiKeys EXCEPT ![q.pubkey].key = q.key,
                                            ![q.pubkey].revoked = @ /\ ~q.row.revoked]
              /\ Reply(c, q.key)
        /\ UNCHANGED <<challenges, nonces, minted, revokedKeys>>

RowsWith(key) == {w \in Pubkeys : apiKeys[w] # None /\ apiKeys[w].key = key}

\* Faulty variant: every row that was ever issued a key is accepted.
ValidThoughRevoked(key) == RowsWith(key) # {}

\* validateKey.
Valid(key) == \E w \in RowsWith(key) : ~apiKeys[w].revoked

RevokeFind(c) ==
    /\ At(c, "revoke")
    /\ \/ /\ RowsWith(call[c].key) = {}
          /\ Refuse(c, "UNAUTHORIZED")
       \/ \E w \in RowsWith(call[c].key) :
              Send(c, [stage |-> "flushRevoke", pubkey |-> w, key |-> call[c].key])
    /\ UNCHANGED authVars

\* The row is written by its id, whatever key it holds by now.
RevokeFlush(c) ==
    /\ At(c, "flushRevoke")
    /\ apiKeys' = [apiKeys EXCEPT ![call[c].pubkey].revoked = TRUE]
    /\ revokedKeys' = revokedKeys \cup {call[c].key}
    /\ Reply(c, None)
    /\ UNCHANGED <<challenges, nonces, minted>>

\* The guard of every route that is not public; "then" is the handler's first stage.
Guard(c) ==
    /\ At(c, "guard")
    /\ \/ ~Valid(call[c].key) /\ Refuse(c, "UNAUTHORIZED")
       \/ Valid(call[c].key) /\ Await(c, call[c].then, call[c])
    /\ UNCHANGED authVars

AuthStep(c) ==
    \/ GenerateChallenge(c) \/ VerifySignature(c) \/ FindRow(c) \/ FlushKey(c)
    \/ RevokeFind(c) \/ RevokeFlush(c) \/ Guard(c)

AuthRestart == challenges' = [w \in Pubkeys |-> None] /\ UNCHANGED <<apiKeys, nonces, minted, revokedKeys>>

----------------------------------------------------------------------------

\* A key whose revocation succeeded is never accepted again, whatever registrations
\* and revocations of its wallet overlap (auth.service.ts:56-64, 78-81).
RevokedForGood == \A key \in revokedKeys : ~Valid(key)
=============================================================================
