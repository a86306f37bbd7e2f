--------------------------- MODULE SessionsProofs ---------------------------
(***************************************************************************)
(* A revoked key stays revoked and only racers are paid by the faucet, for *)
(* any number of clients, wallets and commands, however they overlap.      *)
(***************************************************************************)
EXTENDS Sessions, TLAPS

----------------------------------------------------------------------------
(* Requests in progress                                                    *)

\* What every request in progress has: a stage, and the fields its handler reads
\* after the guard has passed it on.
Staged(q) ==
    /\ "stage" \in DOMAIN q
    /\ q.stage = "guard" => q.then \in {"faucet", "account"}
    /\ q.stage \in {"faucet", "pay", "confirm"} \/ (q.stage = "guard" /\ q.then = "faucet")
           => {"token", "pubkey"} \subseteq DOMAIN q

CallOK ==
    /\ call = [c \in Clients |-> call[c]]
    /\ \A c \in Clients : call[c] # None => Staged(call[c])

\* The stages in which a handler holds a key, and those in which it is about to pay.
KeyStages == {"findRow", "flushKey", "flushRevoke"}
PayStages == {"pay", "confirm"}
Critical == KeyStages \cup PayStages

\* No request enters a stage of S or changes in one.
Quiet(S) ==
    \A c \in Clients : call'[c] = call[c] \/ call'[c] = None \/ call'[c].stage \notin S

\* Sending a request changes one client's call and keeps CallOK.
LEMMA SendKeepsCalls ==
    ASSUME CallOK, NEW c \in Clients, NEW q, q = None \/ Staged(q), Send(c, q)
    PROVE  /\ CallOK'
           /\ call'[c] = q
           /\ \A d \in Clients : d # c => call'[d] = call[d]
  BY DEF CallOK, Send, Staged

\* A request that is in no critical stage leaves the services alone.
LEMMA SendIsQuiet ==
    ASSUME CallOK, NEW c \in Clients, NEW q, q = None \/ Staged(q), Send(c, q), NEW S,
           q = None \/ q.stage \notin S
    PROVE  CallOK' /\ Quiet(S)
  BY SendKeepsCalls DEF Quiet

\* An answer, good or bad, is such a request.
LEMMA AnswersAreQuiet ==
    ASSUME CallOK, NEW c \in Clients
    PROVE  /\ \A v : Reply(c, v) => CallOK' /\ Quiet(Critical) /\ ~At(c, "pay")' /\ ~At(c, "confirm")'
                         /\ (\A d \in Clients : d # c => call'[d] = call[d])
           /\ \A e : Refuse(c, e) => CallOK' /\ Quiet(Critical) /\ ~At(c, "pay")' /\ ~At(c, "confirm")'
                         /\ (\A d \in Clients : d # c => call'[d] = call[d])
<1>1. ASSUME NEW v, NEW e, Send(c, [stage |-> "answered", error |-> e, value |-> v])
      PROVE  /\ CallOK' /\ Quiet(Critical) /\ ~At(c, "pay")' /\ ~At(c, "confirm")'
             /\ \A d \in Clients : d # c => call'[d] = call[d]
  <2> DEFINE q == [stage |-> "answered", error |-> e, value |-> v]
  <2>1. Staged(q) /\ q.stage = "answered"
    BY DEF Staged
  <2>2. q.stage \notin Critical
    BY <2>1 DEF Critical, KeyStages, PayStages
  <2> HIDE DEF q
  <2>3. Send(c, q)
    BY <1>1 DEF q
  <2>4. CallOK' /\ Quiet(Critical) /\ call'[c] = q /\ \A d \in Clients : d # c => call'[d] = call[d]
    BY <2>1, <2>2, <2>3, SendKeepsCalls, SendIsQuiet
  <2> QED
    BY <2>1, <2>4 DEF At
<1> QED
  BY <1>1 DEF Reply, Refuse, Answered, Refused

\* So is a request at its next stage, unless that is critical.
LEMMA AwaitKeepsCalls ==
    ASSUME CallOK, NEW c \in Clients, call[c] # None,
           NEW s \in {"faucet", "account", "pay", "confirm"}, Await(c, s, call[c]),
           s # "account" => {"token", "pubkey"} \subseteq DOMAIN call[c]
    PROVE  /\ CallOK'
           /\ call'[c].stage = s
           /\ s # "account" => FaucetKey(call'[c]) = FaucetKey(call[c])
           /\ \A d \in Clients : d # c => call'[d] = call[d]
           /\ \A S : s \notin S => Quiet(S)
<1> DEFINE q == [call[c] EXCEPT !.stage = s]
<1>1. Staged(call[c])
  BY DEF CallOK
<1>2. q.stage = s /\ DOMAIN q = DOMAIN call[c]
  BY <1>1 DEF Staged
<1>3. s # "account" => q.token = call[c].token /\ q.pubkey = call[c].pubkey
  BY <1>1 DEF Staged
<1>4. Staged(q)
  BY <1>1, <1>2 DEF Staged
<1> HIDE DEF q
<1>5. Send(c, q)
  BY DEF Await, q
<1>6. CallOK' /\ call'[c] = q /\ \A d \in Clients : d # c => call'[d] = call[d]
  BY <1>4, <1>5, SendKeepsCalls
<1>7. \A S : s \notin S => Quiet(S)
  BY <1>2, <1>6 DEF Quiet
<1> QED
  BY <1>2, <1>3, <1>6, <1>7 DEF FaucetKey

\* A step that is quiet for both kinds of stage is so for each.
LEMMA QuietForEach ==
    ASSUME Quiet(Critical)
    PROVE  Quiet(KeyStages) /\ Quiet(PayStages)
  BY DEF Quiet, Critical

----------------------------------------------------------------------------
(* What commands and the chat do                                           *)

\* Starting a command sends a request that is not critical, or none.
LEMMA BeginIsQuiet ==
    ASSUME CallOK, NEW c \in Clients, Begin(c)
    PROVE  CallOK' /\ Quiet(Critical) /\ UNCHANGED <<authVars, faucetVars>>
<1>1. ASSUME NEW name, NEW config, Edit(c, name, config)
      PROVE  CallOK' /\ Quiet(Critical) /\ UNCHANGED <<authVars, faucetVars>>
  BY <1>1 DEF Edit, CallOK, Quiet
<1>2. ASSUME NEW name, NEW wallet, NEW q, Ask(c, name, wallet, q), Staged(q),
             q.stage \notin Critical
      PROVE  CallOK' /\ Quiet(Critical) /\ UNCHANGED <<authVars, faucetVars>>
  BY <1>2, SendIsQuiet DEF Ask
<1>3. CASE InitSdk(c)
  BY <1>1, <1>3 DEF InitSdk
<1>4. CASE AuthRevoke(c)
  <2> DEFINE q == [stage |-> "revoke", key |-> LoadConfig.apiKey]
  <2>1. Staged(q) /\ q.stage \notin Critical
    BY DEF Staged, Critical, KeyStages, PayStages
  <2>2. Ask(c, "auth_revoke", None, q)
    BY <1>4 DEF AuthRevoke
  <2> HIDE DEF q
  <2> QED
    BY <1>2, <2>1, <2>2
<1>5. CASE Chat(c)
  <2> DEFINE q == [stage |-> "message", agent |-> LoadConfig.agentId]
  <2>1. Staged(q) /\ q.stage \notin Critical
    BY DEF Staged, Critical, KeyStages, PayStages
  <2>2. Ask(c, "chat", None, q) \/ \E config : Edit(c, "chat", config)
    BY <1>5 DEF Chat
  <2> HIDE DEF q
  <2> QED
    BY <1>1, <1>2, <2>1, <2>2
<1>6. ASSUME NEW l \in Labels, WalletCreate(c, l)
      PROVE  CallOK' /\ Quiet(Critical) /\ UNCHANGED <<authVars, faucetVars>>
  BY <1>1, <1>6 DEF WalletCreate
<1>7. ASSUME NEW l \in Labels, AuthRegister(c, l)
      PROVE  CallOK' /\ Quiet(Critical) /\ UNCHANGED <<authVars, faucetVars>>
  <2> DEFINE q == [stage |-> "challenge", pubkey |-> LoadConfig.wallets[l]]
  <2>1. Staged(q) /\ q.stage \notin Critical
    BY DEF Staged, Critical, KeyStages, PayStages
  <2>2. Ask(c, "auth_register", LoadConfig.wallets[l], q)
    BY <1>7 DEF AuthRegister
  <2> HIDE DEF q
  <2> QED
    BY <1>2, <2>1, <2>2
<1>8. ASSUME NEW l \in Labels, AccountSync(c, l)
      PROVE  CallOK' /\ Quiet(Critical) /\ UNCHANGED <<authVars, faucetVars>>
  <2> DEFINE q == [stage |-> "guard", then |-> "account", pubkey |-> LoadConfig.wallets[l],
                   key |-> LoadConfig.apiKey]
  <2>1. Staged(q) /\ q.stage \notin Critical
    BY DEF Staged, Critical, KeyStages, PayStages
  <2>2. Ask(c, "account_sync", LoadConfig.wallets[l], q)
    BY <1>8 DEF AccountSync
  <2> HIDE DEF q
  <2> QED
    BY <1>2, <2>1, <2>2
<1>9. ASSUME NEW l \in Labels, NEW token \in Tokens, WalletFund(c, l, token)
      PROVE  CallOK' /\ Quiet(Critical) /\ UNCHANGED <<authVars, faucetVars>>
  <2> DEFINE q == [stage |-> "guard", then |-> "faucet", token |-> token,
                   pubkey |-> LoadConfig.wallets[l], key |-> LoadConfig.apiKey]
  <2>1. Staged(q) /\ q.stage \notin Critical
    BY DEF Staged, Critical, KeyStages, PayStages
  <2>2. Ask(c, "wallet_fund", LoadConfig.wallets[l], q)
    BY <1>9 DEF WalletFund
  <2> HIDE DEF q
  <2> QED
    BY <1>2, <2>1, <2>2
<1>10. ASSUME NEW cluster, SetCluster(c, cluster)
       PROVE  CallOK' /\ Quiet(Critical) /\ UNCHANGED <<authVars, faucetVars>>
  BY <1>1, <1>10 DEF SetCluster
<1> QED
  BY <1>3, <1>4, <1>5, <1>6, <1>7, <1>8, <1>9, <1>10 DEF Begin

\* So does whatever a command does once it has started.
LEMMA CarryingOnIsQuiet ==
    ASSUME CallOK, NEW c \in Clients,
           \/ Finish(c) \/ SignChallenge(c) \/ SaveEdited(c) \/ SaveAnswer(c)
           \/ WriteFile(c) \/ Crash(c) \/ DropAnswer(c)
    PROVE  CallOK' /\ Quiet(Critical) /\ UNCHANGED <<authVars, faucetVars>>
<1>1. ASSUME Send(c, None)
      PROVE  CallOK' /\ Quiet(Critical)
  BY <1>1, SendIsQuiet
<1>2. ASSUME UNCHANGED call
      PROVE  CallOK' /\ Quiet(Critical)
  BY <1>2 DEF CallOK, Quiet
<1>3. CASE Finish(c)
  BY <1>1, <1>3 DEF Finish
<1>4. CASE SignChallenge(c)
  <2> DEFINE w == cli[c].wallet
             q == [stage |-> "register", pubkey |-> w, signature |-> <<w, call[c].value>>]
  <2>1. Staged(q) /\ q.stage \notin Critical
    BY DEF Staged, Critical, KeyStages, PayStages
  <2>2. Send(c, q)
    BY <1>4 DEF SignChallenge
  <2> HIDE DEF q
  <2> QED
    BY <1>4, <2>1, <2>2, SendIsQuiet DEF SignChallenge
<1>5. CASE SaveEdited(c)
  BY <1>2, <1>5 DEF SaveEdited, EmptyFile
<1>6. CASE SaveAnswer(c)
  BY <1>1, <1>6 DEF SaveAnswer, EmptyFile
<1>7. CASE WriteFile(c)
  <2> DEFINE q == [stage |-> "message", agent |-> cli[c].config.agentId]
  <2>1. Staged(q) /\ q.stage \notin Critical
    BY DEF Staged, Critical, KeyStages, PayStages
  <2>2. UNCHANGED call \/ Send(c, q)
    BY <1>7 DEF WriteFile
  <2> HIDE DEF q
  <2> QED
    BY <1>2, <1>7, <2>1, <2>2, SendIsQuiet DEF WriteFile
<1>8. CASE Crash(c)
  BY <1>1, <1>2, <1>8 DEF Crash
<1>9. CASE DropAnswer(c)
  BY <1>1, <1>9 DEF DropAnswer
<1> QED
  BY <1>3, <1>4, <1>5, <1>6, <1>7, <1>8, <1>9

\* The chat and the account routes, whatever they answer.
LEMMA ChattingIsQuiet ==
    ASSUME CallOK, NEW c \in Clients, ChatStep(c) \/ AnswerAccount(c)
    PROVE  CallOK' /\ Quiet(Critical)
<1>1. CASE SendMessage(c)
  <2>1. PICK a, o, n, h :
            Send(c, [stage |-> "model", agent |-> a, session |-> o, turn |-> n, prompt |-> h])
    BY <1>1 DEF SendMessage
  <2> DEFINE q == [stage |-> "model", agent |-> a, session |-> o, turn |-> n, prompt |-> h]
  <2>2. Staged(q) /\ q.stage \notin Critical
    BY DEF Staged, Critical, KeyStages, PayStages
  <2>3. Send(c, q)
    BY <2>1
  <2> HIDE DEF q
  <2> QED
    BY <2>2, <2>3, SendIsQuiet
<1>2. CASE ModelAnswers(c) \/ ModelFails(c) \/ AnswerAccount(c)
  BY <1>2, AnswersAreQuiet DEF ModelAnswers, ModelFails, AnswerAccount
<1> QED
  BY <1>1, <1>2 DEF ChatStep

\* A restart answers every request in progress with an error.
LEMMA RestartIsQuiet ==
    ASSUME CallOK, Restart
    PROVE  CallOK' /\ Quiet(Critical)
<1>1. \A c \in Clients : call'[c] = call[c] \/ call'[c] = Refused("NETWORK_ERROR")
  BY DEF Restart
<1>2. Staged(Refused("NETWORK_ERROR")) /\ Refused("NETWORK_ERROR").stage \notin Critical
  BY DEF Staged, Refused, Critical, KeyStages, PayStages
<1>3. call' = [c \in Clients |-> call'[c]]
  BY DEF Restart
<1> QED
  BY <1>1, <1>2, <1>3 DEF CallOK, Quiet

\* The faucet holds no key.
LEMMA FaucetHoldsNoKey ==
    ASSUME CallOK, NEW c \in Clients, FaucetStep(c)
    PROVE  CallOK' /\ Quiet(KeyStages)
<1>1. ASSUME NEW x, Reply(c, x) \/ Refuse(c, x)
      PROVE  CallOK' /\ Quiet(KeyStages)
  BY <1>1, AnswersAreQuiet, QuietForEach
<1>2. ASSUME call[c] # None, call[c].stage \in {"faucet", "pay"},
             NEW s \in {"pay", "confirm"}, Await(c, s, call[c])
      PROVE  CallOK' /\ Quiet(KeyStages)
  <2>1. {"token", "pubkey"} \subseteq DOMAIN call[c]
    BY <1>2 DEF CallOK, Staged
  <2>2. s \notin KeyStages
    BY DEF KeyStages
  <2> QED
    BY <1>2, <2>1, <2>2, AwaitKeepsCalls
<1>3. CASE CheckRateLimit(c)
  BY <1>1, <1>2, <1>3 DEF CheckRateLimit, At
<1>4. CASE Pay(c)
  BY <1>1, <1>2, <1>4 DEF Pay, At
<1>5. CASE Record(c)
  BY <1>1, <1>5 DEF Record
<1> QED
  BY <1>3, <1>4, <1>5 DEF FaucetStep

\* The keys pay nobody.
LEMMA AuthPaysNobody ==
    ASSUME CallOK, NEW c \in Clients, AuthStep(c)
    PROVE  CallOK' /\ Quiet(PayStages)
<1>1. ASSUME NEW x, Reply(c, x) \/ Refuse(c, x)
      PROVE  CallOK' /\ Quiet(PayStages)
  BY <1>1, AnswersAreQuiet, QuietForEach
<1>2. ASSUME NEW q, Send(c, q), Staged(q), q.stage \in KeyStages
      PROVE  CallOK' /\ Quiet(PayStages)
  BY <1>2, SendIsQuiet DEF KeyStages, PayStages
<1>3. CASE VerifySignature(c)
  <2>1. CASE Refuse(c, "UNAUTHORIZED")
    BY <1>1, <2>1
  <2>2. CASE Send(c, [stage |-> "findRow", pubkey |-> call[c].pubkey, key |-> minted'])
    <3> DEFINE q == [stage |-> "findRow", pubkey |-> call[c].pubkey, key |-> minted']
    <3>1. Staged(q) /\ q.stage \in KeyStages
      BY DEF Staged, KeyStages
    <3> HIDE DEF q
    <3> QED
      BY <1>2, <2>2, <3>1 DEF q
  <2> QED
    BY <1>3, <2>1, <2>2 DEF VerifySignature
<1>4. CASE FindRow(c)
  <2> DEFINE q == [stage |-> "flushKey", pubkey |-> call[c].pubkey, key |-> call[c].key,
                   row |-> apiKeys[call[c].pubkey]]
  <2>1. Staged(q) /\ q.stage \in KeyStages
    BY DEF Staged, KeyStages
  <2>2. Send(c, q)
    BY <1>4 DEF FindRow
  <2> HIDE DEF q
  <2> QED
    BY <1>2, <2>1, <2>2
<1>5. CASE RevokeFind(c)
  <2>1. CASE Refuse(c, "UNAUTHORIZED")
    BY <1>1, <2>1
  <2>2. ASSUME NEW w, Send(c, [stage |-> "flushRevoke", pubkey |-> w, key |-> call[c].key])
        PROVE  CallOK' /\ Quiet(PayStages)
    <3> DEFINE q == [stage |-> "flushRevoke", pubkey |-> w, key |-> call[c].key]
    <3>1. Staged(q) /\ q.stage \in KeyStages
      BY DEF Staged, KeyStages
    <3> HIDE DEF q
    <3> QED
      BY <1>2, <2>2, <3>1 DEF q
  <2> QED
    BY <1>5, <2>1, <2>2 DEF RevokeFind
<1>6. CASE Guard(c)
  <2>1. CASE Refuse(c, "UNAUTHORIZED")
    BY <1>1, <2>1
  <2>2. CASE Await(c, call[c].then, call[c])
    <3>1. /\ call[c] # None /\ call[c].then \in {"faucet", "account"}
          /\ call[c].then # "account" => {"token", "pubkey"} \subseteq DOMAIN call[c]
      BY <1>6 DEF Guard, At, CallOK, Staged
    <3>2. call[c].then \notin PayStages
      BY <3>1 DEF PayStages
    <3> QED
      BY <2>2, <3>1, <3>2, AwaitKeepsCalls
  <2> QED
    BY <1>6, <2>1, <2>2 DEF Guard
<1>7. CASE GenerateChallenge(c) \/ FlushKey(c) \/ RevokeFlush(c)
  BY <1>1, <1>7 DEF GenerateChallenge, FlushKey, RevokeFlush
<1> QED
  BY <1>3, <1>4, <1>5, <1>6, <1>7 DEF AuthStep

----------------------------------------------------------------------------
(* Keys                                                                    *)

Row == {w \in Pubkeys : apiKeys[w] # None}

\* A registration is under way: its key was made and is not stored yet.
Issuing(q) == q # None /\ q.stage \in {"findRow", "flushKey"}
Storing(q) == q # None /\ q.stage = "flushKey"
Revoking(q) == q # None /\ q.stage = "flushRevoke"

\* A key is of one registration under way, or in one row, or in none any more.
OneHolder ==
    /\ \A c, d \in Clients : Issuing(call[c]) /\ Issuing(call[d]) /\ call[c].key = call[d].key => c = d
    /\ \A c \in Clients : \A w \in Row : Issuing(call[c]) => apiKeys[w].key # call[c].key
    /\ \A v, w \in Row : apiKeys[v].key = apiKeys[w].key => v = w

\* What is known of the key of a revocation that found its row.
RevokesOwnRow(c) ==
    Revoking(call[c]) =>
        /\ call[c].pubkey \in Row
        /\ call[c].key \in 1..minted
        /\ \A w \in Row : apiKeys[w].key = call[c].key => w = call[c].pubkey
        /\ \A d \in Clients : Issuing(call[d]) => call[d].key # call[c].key

\* A revoked key is in no registration, and in no row that is not revoked.
Revoked(key) ==
    /\ key \in 1..minted
    /\ \A c \in Clients : Issuing(call[c]) => call[c].key # key
    /\ \A w \in Row : apiKeys[w].key = key => apiKeys[w].revoked

KeysTyped ==
    /\ minted \in Nat
    /\ apiKeys = [w \in Pubkeys |-> apiKeys[w]]
    /\ \A w \in Row : /\ apiKeys[w] = [key |-> apiKeys[w].key, revoked |-> apiKeys[w].revoked]
                     /\ apiKeys[w].key \in 1..minted
                     /\ apiKeys[w].revoked \in BOOLEAN
    /\ \A c \in Clients : Issuing(call[c]) => call[c].key \in 1..minted
    /\ \A c \in Clients : Storing(call[c]) /\ call[c].row # None /\ call[c].pubkey \in Pubkeys
                           => call[c].pubkey \in Row

KeysInv ==
    /\ KeysTyped
    /\ OneHolder
    /\ \A c \in Clients : RevokesOwnRow(c)
    /\ \A key \in revokedKeys : Revoked(key)

\* The invariant is what RevokedForGood rests on.
LEMMA KeysInvSuffices ==
    ASSUME KeysInv
    PROVE  RevokedForGood
  BY DEF KeysInv, Revoked, RevokedForGood, Valid, RowsWith, Row

\* Steps that hold no key keep it.
LEMMA KeysFrame ==
    ASSUME KeysInv, Quiet(KeyStages), UNCHANGED <<apiKeys, minted, revokedKeys>>
    PROVE  KeysInv'
<1>1. \A c \in Clients :
          /\ Issuing(call'[c]) => Issuing(call[c]) /\ call'[c] = call[c]
          /\ Storing(call'[c]) => Storing(call[c]) /\ call'[c] = call[c]
          /\ Revoking(call'[c]) => Revoking(call[c]) /\ call'[c] = call[c]
  BY DEF Quiet, KeyStages, Issuing, Storing, Revoking
<1>2. Row' = Row
  BY DEF Row
<1>3. KeysTyped'
  BY <1>1, <1>2 DEF KeysInv, KeysTyped
<1>4. OneHolder'
  BY <1>1, <1>2 DEF KeysInv, OneHolder
<1>5. \A c \in Clients : RevokesOwnRow(c)'
  BY <1>1, <1>2 DEF KeysInv, RevokesOwnRow
<1>6. \A key \in revokedKeys' : Revoked(key)'
  BY <1>1, <1>2 DEF KeysInv, Revoked
<1> QED
  BY <1>3, <1>4, <1>5, <1>6 DEF KeysInv

\* Each step of the service keeps it.  A new key is fresh ...
LEMMA VerifyKeepsKeys ==
    ASSUME CallOK, KeysInv, NEW c \in Clients, VerifySignature(c)
    PROVE  KeysInv'
<1>1. CASE Refuse(c, "UNAUTHORIZED") /\ UNCHANGED minted
  <2>1. Quiet(KeyStages)
    BY <1>1, AnswersAreQuiet, QuietForEach
  <2> QED
    BY <1>1, <2>1, KeysFrame DEF VerifySignature
<1>2. CASE /\ minted' = minted + 1
           /\ Send(c, [stage |-> "findRow", pubkey |-> call[c].pubkey, key |-> minted'])
  <2> DEFINE q == [stage |-> "findRow", pubkey |-> call[c].pubkey, key |-> minted']
  <2>1. Staged(q) /\ q.stage = "findRow" /\ q.key = minted + 1
    BY <1>2 DEF Staged
  <2>2. Send(c, q)
    BY <1>2
  <2> HIDE DEF q
  <2>3. call'[c] = q /\ \A d \in Clients : d # c => call'[d] = call[d]
    BY <2>1, <2>2, SendKeepsCalls
  <2>4. /\ apiKeys' = apiKeys /\ Row' = Row /\ revokedKeys' = revokedKeys
        /\ minted \in Nat /\ minted' = minted + 1
    BY <1>2 DEF VerifySignature, Row, KeysInv, KeysTyped
  <2>5. \A d \in Clients :
          /\ Issuing(call'[d]) => d = c \/ (Issuing(call[d]) /\ call'[d] = call[d])
          /\ Storing(call'[d]) => Storing(call[d]) /\ call'[d] = call[d]
          /\ Revoking(call'[d]) => Revoking(call[d]) /\ call'[d] = call[d]
    BY <2>1, <2>3 DEF Issuing, Storing, Revoking
  <2>6. call'[c].key = minted + 1
    BY <2>1, <2>3
  <2>7. KeysTyped'
    <3>1. KeysTyped
      BY DEF KeysInv
    <3>2. \A k \in 1..minted : k \in 1..minted'
      BY <2>4
    <3>3. \A d \in Clients : Issuing(call'[d]) => call'[d].key \in 1..minted'
      BY <2>4, <2>5, <2>6, <3>1, <3>2 DEF KeysTyped
    <3>4. \A d \in Clients : Storing(call'[d]) /\ call'[d].row # None /\ call'[d].pubkey \in Pubkeys
                            => call'[d].pubkey \in Row'
      BY <2>4, <2>5, <3>1 DEF KeysTyped
    <3>5. \A w \in Row' :
              /\ apiKeys'[w] = [key |-> apiKeys'[w].key, revoked |-> apiKeys'[w].revoked]
              /\ apiKeys'[w].key \in 1..minted'
              /\ apiKeys'[w].revoked \in BOOLEAN
      BY <2>4, <3>1, <3>2 DEF KeysTyped
    <3> QED
      BY <2>4, <3>1, <3>3, <3>4, <3>5 DEF KeysTyped
  <2>8. OneHolder'
    <3>1. KeysTyped /\ OneHolder
      BY DEF KeysInv
    <3>2. \A k \in 1..minted : k # minted + 1
      BY <2>4
    <3>3. \A d \in Clients : Issuing(call[d]) => call[d].key # minted + 1
      BY <3>1, <3>2 DEF KeysTyped
    <3>4. \A w \in Row : apiKeys[w].key # minted + 1
      BY <3>1, <3>2 DEF KeysTyped
    <3> QED
      BY <2>4, <2>5, <2>6, <3>1, <3>3, <3>4 DEF OneHolder
  <2>9. \A d \in Clients : RevokesOwnRow(d)'
    BY <2>4, <2>5, <2>6 DEF KeysInv, RevokesOwnRow
  <2>10. \A key \in revokedKeys' : Revoked(key)'
    BY <2>4, <2>5, <2>6 DEF KeysInv, Revoked
  <2> QED
    BY <2>7, <2>8, <2>9, <2>10 DEF KeysInv
<1> QED
  BY <1>1, <1>2 DEF VerifySignature

\* ... and stays with its registration ...
LEMMA FindRowKeepsKeys ==
    ASSUME CallOK, KeysInv, NEW c \in Clients, FindRow(c)
    PROVE  KeysInv'
<1> DEFINE q == [stage |-> "flushKey", pubkey |-> call[c].pubkey, key |-> call[c].key,
                 row |-> apiKeys[call[c].pubkey]]
<1>1. /\ Staged(q) /\ q.stage = "flushKey" /\ q.key = call[c].key
      /\ q.row = apiKeys[call[c].pubkey] /\ q.pubkey = call[c].pubkey
  BY DEF Staged
<1>2. Send(c, q)
  BY DEF FindRow
<1> HIDE DEF q
<1>3. call'[c] = q /\ \A d \in Clients : d # c => call'[d] = call[d]
  BY <1>1, <1>2, SendKeepsCalls
<1>4. UNCHANGED <<apiKeys, Row, minted, revokedKeys>> /\ Issuing(call[c])
  BY DEF FindRow, authVars, Row, Issuing, At
<1>5. \A d \in Clients :
        /\ Issuing(call'[d]) => Issuing(call[d]) /\ call'[d].key = call[d].key
        /\ Storing(call'[d]) /\ d # c => Storing(call[d]) /\ call'[d] = call[d]
        /\ Revoking(call'[d]) => Revoking(call[d]) /\ call'[d] = call[d]
  BY <1>1, <1>3, <1>4 DEF Issuing, Storing, Revoking
<1>6. KeysTyped'
  <2>1. Storing(call'[c]) /\ call'[c].row # None /\ call'[c].pubkey \in Pubkeys
        => call'[c].pubkey \in Row
    BY <1>1, <1>3 DEF Row
  <2> QED
    BY <1>4, <1>5, <2>1 DEF KeysInv, KeysTyped
<1>7. OneHolder'
  BY <1>4, <1>5 DEF KeysInv, OneHolder
<1>8. \A d \in Clients : RevokesOwnRow(d)'
  BY <1>4, <1>5 DEF KeysInv, RevokesOwnRow
<1>9. \A key \in revokedKeys' : Revoked(key)'
  BY <1>4, <1>5 DEF KeysInv, Revoked
<1> QED
  BY <1>6, <1>7, <1>8, <1>9 DEF KeysInv

\* ... until it is stored, in place of one that no row has from then on ...
LEMMA FlushKeepsKeys ==
    ASSUME CallOK, KeysInv, NEW c \in Clients, FlushKey(c)
    PROVE  KeysInv'
<1> DEFINE w == call[c].pubkey
           k == call[c].key
<1>1. CASE Refuse(c, "UNAUTHORIZED") /\ UNCHANGED apiKeys
  <2>1. Quiet(KeyStages)
    BY <1>1, AnswersAreQuiet, QuietForEach
  <2> QED
    BY <1>1, <2>1, KeysFrame DEF FlushKey
<1>2. CASE /\ Reply(c, k)
           /\ \/ apiKeys' = [apiKeys EXCEPT ![w] = [key |-> k, revoked |-> FALSE]]
              \/ /\ call[c].row # None
                 /\ apiKeys' = [apiKeys EXCEPT ![w].key = k,
                                              ![w].revoked = @ /\ ~call[c].row.revoked]
  <2>1. Storing(call[c]) /\ Issuing(call[c]) /\ KeysTyped /\ k \in 1..minted
    BY DEF FlushKey, At, Storing, Issuing, KeysInv, KeysTyped
  <2>2. UNCHANGED <<minted, revokedKeys>>
    BY DEF FlushKey
  <2>3. CallOK' /\ Quiet(KeyStages) /\ ~Issuing(call'[c]) /\ ~Storing(call'[c])
        /\ ~Revoking(call'[c])
    <3> DEFINE q == [stage |-> "answered", error |-> None, value |-> k]
    <3>1. Staged(q) /\ q.stage = "answered"
      BY DEF Staged
    <3>2. Send(c, q)
      BY <1>2 DEF Reply, Answered
    <3> HIDE DEF q
    <3> QED
      BY <3>1, <3>2, SendKeepsCalls, SendIsQuiet DEF KeyStages, Issuing, Storing, Revoking
  <2>4. \A d \in Clients :
          /\ Issuing(call'[d]) => d # c /\ Issuing(call[d]) /\ call'[d] = call[d]
          /\ Storing(call'[d]) => d # c /\ Storing(call[d]) /\ call'[d] = call[d]
          /\ Revoking(call'[d]) => Revoking(call[d]) /\ call'[d] = call[d]
    BY <2>3 DEF Quiet, KeyStages, Issuing, Storing, Revoking
  <2>5. /\ apiKeys' = [v \in Pubkeys |-> apiKeys'[v]]
        /\ \A v \in Pubkeys : v # w => apiKeys'[v] = apiKeys[v]
        /\ w \in Pubkeys => /\ apiKeys'[w] = [key |-> k, revoked |-> apiKeys'[w].revoked]
                             /\ apiKeys'[w].key = k
                             /\ apiKeys'[w].revoked \in BOOLEAN
    <3>1. CASE apiKeys' = [apiKeys EXCEPT ![w] = [key |-> k, revoked |-> FALSE]]
      BY <2>1, <3>1 DEF KeysTyped
    <3>2. CASE /\ call[c].row # None
               /\ apiKeys' = [apiKeys EXCEPT ![w].key = k,
                                            ![w].revoked = @ /\ ~call[c].row.revoked]
      <4>1. w \in Pubkeys => apiKeys[w] = [key |-> apiKeys[w].key, revoked |-> apiKeys[w].revoked]
        BY <2>1, <3>2 DEF KeysTyped
      <4>2. apiKeys' = [v \in Pubkeys |-> apiKeys'[v]]
        BY <2>1, <3>2 DEF KeysTyped
      <4> QED
        BY <2>1, <3>2, <4>1, <4>2 DEF KeysTyped
    <3> QED
      BY <1>2, <3>1, <3>2
  <2>6. /\ \A v \in Row' : v \in Pubkeys /\ (v # w => v \in Row)
        /\ w \in Pubkeys => \A v \in Row : v \in Pubkeys
    BY <2>5 DEF Row
  <2>7. \A v \in Row' : v # w => v \in Row /\ apiKeys'[v] = apiKeys[v]
    BY <2>5, <2>6
  <2>8. \A v \in Row' : v = w => apiKeys'[v].key = k
    BY <2>5, <2>6
  <2> HIDE DEF w, k
  <2>9. \A d \in Clients : d # c /\ Issuing(call[d]) => call[d].key # k
    BY <2>1 DEF KeysInv, OneHolder, k
  <2>10. \A v \in Row : apiKeys[v].key # k
    BY <2>1 DEF KeysInv, OneHolder, k
  <2>11. OneHolder'
    BY <2>4, <2>7, <2>8, <2>9, <2>10 DEF KeysInv, OneHolder
  <2>12. Row \subseteq Row' /\ (w \in Pubkeys => w \in Row')
    <3>1. w \in Pubkeys => apiKeys'[w] \in [key : Nat, revoked : BOOLEAN]
      BY <2>1, <2>5 DEF KeysTyped
    <3> QED
      BY <2>5, <3>1, NoneAssumption DEF Row
  <2>13. KeysTyped'
    <3>1. \A d \in Clients : Issuing(call'[d]) => call'[d].key \in 1..minted'
      BY <2>1, <2>2, <2>4 DEF KeysTyped
    <3>2. \A d \in Clients : Storing(call'[d]) /\ call'[d].row # None /\ call'[d].pubkey \in Pubkeys
                            => call'[d].pubkey \in Row'
      BY <2>1, <2>4, <2>12 DEF KeysTyped
    <3>3. \A v \in Row' :
              /\ apiKeys'[v] = [key |-> apiKeys'[v].key, revoked |-> apiKeys'[v].revoked]
              /\ apiKeys'[v].key \in 1..minted'
              /\ apiKeys'[v].revoked \in BOOLEAN
      <4> SUFFICES ASSUME NEW v \in Row'
                   PROVE  /\ apiKeys'[v] = [key |-> apiKeys'[v].key, revoked |-> apiKeys'[v].revoked]
                          /\ apiKeys'[v].key \in 1..minted'
                          /\ apiKeys'[v].revoked \in BOOLEAN
        OBVIOUS
      <4>1. CASE v = w
        BY <2>1, <2>2, <2>5, <2>6, <4>1
      <4>2. CASE v # w
        BY <2>1, <2>2, <2>7, <4>2 DEF KeysTyped
      <4> QED
        BY <4>1, <4>2
    <3> QED
      BY <2>1, <2>2, <2>5, <3>1, <3>2, <3>3 DEF KeysTyped
  <2>14. \A d \in Clients : RevokesOwnRow(d)'
    <3> SUFFICES ASSUME NEW d \in Clients, Revoking(call'[d])
                 PROVE  RevokesOwnRow(d)'
      BY DEF RevokesOwnRow
    <3>1. Revoking(call[d]) /\ call'[d] = call[d] /\ RevokesOwnRow(d)
      BY <2>4 DEF KeysInv
    <3>2. call[d].key # k
      BY <2>1, <3>1 DEF RevokesOwnRow, k
    <3>3. \A e \in Clients : Issuing(call'[e]) => call'[e].key # call[d].key
      BY <2>4, <3>1 DEF RevokesOwnRow
    <3>4. \A v \in Row' : apiKeys'[v].key = call[d].key => v = call[d].pubkey
      BY <2>7, <2>8, <3>1, <3>2 DEF RevokesOwnRow
    <3> QED
      BY <2>2, <2>12, <3>1, <3>3, <3>4 DEF RevokesOwnRow
  <2>15. \A key \in revokedKeys' : Revoked(key)'
    BY <2>1, <2>2, <2>4, <2>7, <2>8 DEF KeysInv, Revoked, k
  <2> QED
    BY <2>11, <2>13, <2>14, <2>15 DEF KeysInv
<1> QED
  BY <1>1, <1>2 DEF FlushKey

\* ... and a revocation that found a key in a row holds on to that row ...
LEMMA RevokeFindKeepsKeys ==
    ASSUME CallOK, KeysInv, NEW c \in Clients, RevokeFind(c)
    PROVE  KeysInv'
<1>1. CASE Refuse(c, "UNAUTHORIZED")
  <2>1. Quiet(KeyStages)
    BY <1>1, AnswersAreQuiet, QuietForEach
  <2> QED
    BY <2>1, KeysFrame DEF RevokeFind, authVars
<1>2. ASSUME NEW w \in RowsWith(call[c].key),
             Send(c, [stage |-> "flushRevoke", pubkey |-> w, key |-> call[c].key])
      PROVE  KeysInv'
  <2> DEFINE q == [stage |-> "flushRevoke", pubkey |-> w, key |-> call[c].key]
             k == call[c].key
  <2>1. Staged(q) /\ q.stage = "flushRevoke" /\ q.pubkey = w /\ q.key = k
    BY DEF Staged
  <2>2. Send(c, q)
    BY <1>2
  <2>3. w \in Row /\ apiKeys[w].key = k /\ KeysTyped /\ OneHolder
    BY DEF RowsWith, Row, KeysInv
  <2> HIDE DEF q, k
  <2>4. call'[c] = q /\ \A d \in Clients : d # c => call'[d] = call[d]
    BY <2>1, <2>2, SendKeepsCalls
  <2>5. apiKeys' = apiKeys /\ Row' = Row /\ minted' = minted /\ revokedKeys' = revokedKeys
    BY DEF RevokeFind, authVars, Row
  <2>6. \A d \in Clients :
          /\ Issuing(call'[d]) => Issuing(call[d]) /\ call'[d] = call[d]
          /\ Storing(call'[d]) => Storing(call[d]) /\ call'[d] = call[d]
          /\ Revoking(call'[d]) => d = c \/ (Revoking(call[d]) /\ call'[d] = call[d])
    BY <2>1, <2>4 DEF Issuing, Storing, Revoking
  <2>7. RevokesOwnRow(c)'
    <3>1. k \in 1..minted /\ \A d \in Clients : Issuing(call[d]) => call[d].key # k
      BY <2>3 DEF KeysTyped, OneHolder
    <3>2. \A v \in Row : apiKeys[v].key = k => v = w
      BY <2>3 DEF OneHolder
    <3>3. \A d \in Clients : Issuing(call'[d]) => call'[d].key # k
      BY <2>6, <3>1
    <3> QED
      BY <2>1, <2>3, <2>4, <2>5, <3>1, <3>2, <3>3 DEF RevokesOwnRow
  <2>8. \A d \in Clients : d # c => RevokesOwnRow(d)'
    BY <2>5, <2>6 DEF KeysInv, RevokesOwnRow
  <2>9. KeysTyped'
    BY <2>3, <2>5, <2>6 DEF KeysTyped
  <2>10. OneHolder'
    BY <2>3, <2>5, <2>6 DEF OneHolder
  <2>11. \A key \in revokedKeys' : Revoked(key)'
    BY <2>5, <2>6 DEF KeysInv, Revoked
  <2> QED
    BY <2>7, <2>8, <2>9, <2>10, <2>11 DEF KeysInv
<1> QED
  BY <1>1, <1>2 DEF RevokeFind

\* Setting the column changes nothing else of a row.
LEMMA RevokedRow ==
    ASSUME NEW k \in Nat, NEW b \in BOOLEAN, NEW r, r = [key |-> k, revoked |-> b]
    PROVE  [r EXCEPT !.revoked = TRUE] = [key |-> k, revoked |-> TRUE]
<1> DEFINE s == [r EXCEPT !.revoked = TRUE]
<1>1. [key |-> k, revoked |-> b] \in [key : Nat, revoked : BOOLEAN]
  OBVIOUS
<1>2. r \in [key : Nat, revoked : BOOLEAN] /\ r.key = k
  BY <1>1
<1>3. s \in [key : Nat, revoked : BOOLEAN]
  BY <1>2
<1>4. s.key = r.key /\ s.revoked = TRUE
  BY <1>2
<1> HIDE DEF s
<1>5. s = [key |-> s.key, revoked |-> s.revoked]
  BY <1>3
<1>6. s = [key |-> k, revoked |-> TRUE]
  BY <1>2, <1>4, <1>5
<1> QED
  BY <1>6 DEF s

\* The row may hold a newer key by the time it is written: the revoked one is then in
\* no row any more.
LEMMA RevokeFlushKeepsKeys ==
    ASSUME CallOK, KeysInv, NEW c \in Clients, RevokeFlush(c)
    PROVE  KeysInv'
<1> DEFINE w == call[c].pubkey
           k == call[c].key
<1>1. Revoking(call[c]) /\ RevokesOwnRow(c) /\ KeysTyped /\ OneHolder
  BY DEF RevokeFlush, At, Revoking, KeysInv
<1>2. /\ w \in Row /\ w \in Pubkeys /\ k \in 1..minted
      /\ \A v \in Row : apiKeys[v].key = k => v = w
      /\ \A d \in Clients : Issuing(call[d]) => call[d].key # k
  BY <1>1 DEF RevokesOwnRow, Row
<1>3. CallOK' /\ Quiet(KeyStages)
  BY AnswersAreQuiet, QuietForEach DEF RevokeFlush
<1> HIDE DEF w, k
<1>13. apiKeys[w].key \in Nat /\ apiKeys[w].revoked \in BOOLEAN
  <2>1. apiKeys[w].key \in 1..minted /\ apiKeys[w].revoked \in BOOLEAN /\ minted \in Nat
    BY <1>1, <1>2 DEF KeysTyped
  <2>2. 1..minted \subseteq Nat
    BY <2>1
  <2> QED
    BY <2>1, <2>2
<1>4. /\ minted' = minted /\ revokedKeys' = revokedKeys \cup {k}
      /\ apiKeys' = [apiKeys EXCEPT ![w].revoked = TRUE]
  BY DEF RevokeFlush, w, k
<1>5. /\ apiKeys' = [v \in Pubkeys |-> apiKeys'[v]]
      /\ \A v \in Pubkeys : v # w => apiKeys'[v] = apiKeys[v]
      /\ apiKeys'[w] = [key |-> apiKeys[w].key, revoked |-> TRUE]
  <2>1. apiKeys[w] = [key |-> apiKeys[w].key, revoked |-> apiKeys[w].revoked]
    BY <1>1, <1>2 DEF KeysTyped
  <2>2. apiKeys = [v \in Pubkeys |-> apiKeys[v]]
    BY <1>1 DEF KeysTyped
  <2>3. apiKeys'[w] = [apiKeys[w] EXCEPT !.revoked = TRUE]
    BY <1>2, <1>4, <2>2
  <2>4. [apiKeys[w] EXCEPT !.revoked = TRUE] = [key |-> apiKeys[w].key, revoked |-> TRUE]
    BY <1>13, <2>1, RevokedRow
  <2> QED
    BY <1>2, <1>4, <2>2, <2>3, <2>4
<1>6. Row' = Row
  <2>1. apiKeys'[w] \in [key : Nat, revoked : BOOLEAN]
    BY <1>5, <1>13
  <2> QED
    BY <1>2, <1>5, <2>1, NoneAssumption DEF Row
<1>7. \A v \in Row : /\ v \in Pubkeys
                     /\ apiKeys'[v].key = apiKeys[v].key
                     /\ apiKeys[v].revoked => apiKeys'[v].revoked
  BY <1>5 DEF Row
<1>8. \A d \in Clients :
        /\ Issuing(call'[d]) => Issuing(call[d]) /\ call'[d] = call[d]
        /\ Storing(call'[d]) => Storing(call[d]) /\ call'[d] = call[d]
        /\ Revoking(call'[d]) => Revoking(call[d]) /\ call'[d] = call[d]
  BY <1>3 DEF Quiet, KeyStages, Issuing, Storing, Revoking
<1>9. KeysTyped'
  <2>1. \A v \in Row' :
            /\ apiKeys'[v] = [key |-> apiKeys'[v].key, revoked |-> apiKeys'[v].revoked]
            /\ apiKeys'[v].key \in 1..minted'
            /\ apiKeys'[v].revoked \in BOOLEAN
    <3> SUFFICES ASSUME NEW v \in Row
                 PROVE  /\ apiKeys'[v] = [key |-> apiKeys'[v].key, revoked |-> apiKeys'[v].revoked]
                        /\ apiKeys'[v].key \in 1..minted
                        /\ apiKeys'[v].revoked \in BOOLEAN
      BY <1>4, <1>6
    <3>1. CASE v = w
      <4>1. apiKeys[w].key \in 1..minted
        BY <1>1, <1>2 DEF KeysTyped
      <4>2. apiKeys'[w].key = apiKeys[w].key /\ apiKeys'[w].revoked = TRUE
        BY <1>5
      <4> QED
        BY <1>5, <3>1, <4>1, <4>2
    <3>2. CASE v # w
      BY <1>1, <1>5, <1>7, <3>2 DEF KeysTyped
    <3> QED
      BY <3>1, <3>2
  <2> QED
    BY <1>1, <1>4, <1>5, <1>6, <1>8, <2>1 DEF KeysTyped
<1>10. OneHolder'
  BY <1>1, <1>6, <1>7, <1>8 DEF OneHolder
<1>11. \A d \in Clients : RevokesOwnRow(d)'
  BY <1>4, <1>6, <1>7, <1>8 DEF KeysInv, RevokesOwnRow
<1>12. \A key \in revokedKeys' : Revoked(key)'
  <2> SUFFICES ASSUME NEW key \in revokedKeys \cup {k}
               PROVE  Revoked(key)'
    BY <1>4
  <2>1. CASE key = k
    <3>1. \A v \in Row' : apiKeys'[v].key = key => apiKeys'[v].revoked
      BY <1>2, <1>5, <1>6, <1>7, <2>1
    <3>2. key \in 1..minted' /\ \A d \in Clients : Issuing(call'[d]) => call'[d].key # key
      BY <1>2, <1>4, <1>8, <2>1
    <3> QED
      BY <3>1, <3>2 DEF Revoked
  <2>2. CASE key \in revokedKeys
    BY <1>4, <1>6, <1>7, <1>8, <2>2 DEF KeysInv, Revoked
  <2> QED
    BY <2>1, <2>2
<1> QED
  BY <1>9, <1>10, <1>11, <1>12 DEF KeysInv

\* So every step of the service keeps the invariant.
LEMMA AuthKeepsKeys ==
    ASSUME CallOK, KeysInv, NEW c \in Clients, AuthStep(c)
    PROVE  KeysInv'
<1>1. CASE GenerateChallenge(c)
  <2>1. Quiet(KeyStages)
    BY <1>1, AnswersAreQuiet, QuietForEach DEF GenerateChallenge
  <2> QED
    BY <1>1, <2>1, KeysFrame DEF GenerateChallenge
<1>2. CASE Guard(c)
  <2>1. ASSUME Refuse(c, "UNAUTHORIZED")
        PROVE  Quiet(KeyStages)
    BY <2>1, AnswersAreQuiet, QuietForEach
  <2>2. ASSUME Await(c, call[c].then, call[c])
        PROVE  Quiet(KeyStages)
    <3>1. /\ call[c] # None /\ call[c].then \in {"faucet", "account"}
          /\ call[c].then # "account" => {"token", "pubkey"} \subseteq DOMAIN call[c]
      BY <1>2 DEF Guard, At, CallOK, Staged
    <3>2. call[c].then \notin KeyStages
      BY <3>1 DEF KeyStages
    <3> QED
      BY <2>2, <3>1, <3>2, AwaitKeepsCalls
  <2>3. Quiet(KeyStages)
    BY <1>2, <2>1, <2>2 DEF Guard
  <2> QED
    BY <1>2, <2>3, KeysFrame DEF Guard, authVars
<1> QED
  BY <1>1, <1>2, VerifyKeepsKeys, FindRowKeepsKeys, FlushKeepsKeys, RevokeFindKeepsKeys,
     RevokeFlushKeepsKeys DEF AuthStep

\* Every step keeps the requests in shape and the invariant of the keys.
LEMMA StepKeepsKeys ==
    ASSUME CallOK, KeysInv, [Next]_vars
    PROVE  CallOK' /\ KeysInv'
<1>1. ASSUME CallOK', Quiet(Critical) \/ Quiet(KeyStages), UNCHANGED <<apiKeys, minted, revokedKeys>>
      PROVE  CallOK' /\ KeysInv'
  BY <1>1, QuietForEach, KeysFrame
<1>2. ASSUME UNCHANGED call
      PROVE  CallOK' /\ Quiet(Critical)
  BY <1>2 DEF CallOK, Quiet
<1>3. ASSUME NEW c \in Clients, Begin(c)
      PROVE  CallOK' /\ KeysInv'
  BY <1>1, <1>3, BeginIsQuiet DEF authVars
<1>4. ASSUME NEW c \in Clients, Serve(c)
      PROVE  CallOK' /\ KeysInv'
  <2>1. CASE AuthStep(c)
    BY <2>1, AuthPaysNobody, AuthKeepsKeys
  <2>2. CASE FaucetStep(c) /\ UNCHANGED authVars
    BY <1>1, <2>2, FaucetHoldsNoKey DEF authVars
  <2>3. CASE (ChatStep(c) \/ AnswerAccount(c)) /\ UNCHANGED authVars
    BY <1>1, <2>3, ChattingIsQuiet DEF authVars
  <2> QED
    BY <1>4, <2>1, <2>2, <2>3 DEF Serve, AnswerAccount
<1>5. ASSUME NEW c \in Clients,
             \/ Finish(c) \/ SignChallenge(c) \/ SaveEdited(c) \/ SaveAnswer(c)
             \/ WriteFile(c) \/ Crash(c) \/ DropAnswer(c)
      PROVE  CallOK' /\ KeysInv'
  BY <1>1, <1>5, CarryingOnIsQuiet DEF authVars
<1>6. CASE TimePasses
  BY <1>1, <1>2, <1>6 DEF TimePasses, ChallengeExpires, CooldownEnds, EvictExpired, authVars
<1>7. CASE Restart
  BY <1>1, <1>7, RestartIsQuiet DEF Restart, AuthRestart
<1>8. CASE UNCHANGED vars
  BY <1>1, <1>2, <1>8 DEF vars, authVars
<1> QED
  BY <1>3, <1>4, <1>5, <1>6, <1>7, <1>8 DEF Next

\* No request is in progress at first, and one wallet holds the first key.
LEMMA KeysAtFirst ==
    ASSUME Init
    PROVE  CallOK /\ KeysInv
<1>1. call = [c \in Clients |-> None] /\ minted = 1 /\ revokedKeys = {}
  BY DEF Init, AuthInit
<1>2. apiKeys = [w \in Pubkeys |-> IF w = 1 THEN [key |-> 1, revoked |-> FALSE] ELSE None]
  BY DEF Init, AuthInit
<1>3. CallOK /\ \A c \in Clients : call[c] = None
  BY <1>1 DEF CallOK
<1>4. \A w \in Row : w = 1 /\ apiKeys[w] = [key |-> 1, revoked |-> FALSE]
  BY <1>2 DEF Row
<1>5. KeysTyped
  <2>1. \A w \in Row : apiKeys[w].key = 1 /\ apiKeys[w].revoked = FALSE
    BY <1>4
  <2>2. \A w \in Row : apiKeys[w] = [key |-> apiKeys[w].key, revoked |-> apiKeys[w].revoked]
    BY <1>4, <2>1
  <2>3. 1 \in 1..minted /\ minted \in Nat
    BY <1>1
  <2>4. apiKeys = [w \in Pubkeys |-> apiKeys[w]]
    BY <1>2
  <2> QED
    BY <1>3, <2>1, <2>2, <2>3, <2>4 DEF KeysTyped, Issuing, Storing
<1>6. OneHolder /\ \A c \in Clients : RevokesOwnRow(c)
  BY <1>3, <1>4 DEF OneHolder, RevokesOwnRow, Issuing, Revoking
<1> QED
  BY <1>1, <1>3, <1>5, <1>6 DEF KeysInv

\* A key whose revocation was answered with success is never accepted again, for any
\* number of clients whose registrations and revocations overlap, with crashes and
\* restarts (auth.service.ts:43-92).
THEOREM RevokedStayRevoked == Spec => []RevokedForGood
<1>1. Init => CallOK /\ KeysInv
  BY KeysAtFirst
<1>2. CallOK /\ KeysInv /\ [Next]_vars => CallOK' /\ KeysInv'
  BY StepKeepsKeys
<1>3. KeysInv => RevokedForGood
  BY KeysInvSuffices
<1> QED
  BY <1>1, <1>2, <1>3, PTL DEF Spec

----------------------------------------------------------------------------
(* The faucet                                                              *)

\* The request has passed the check for k and is not answered.
Past(q, k) == q # None /\ q.stage \in PayStages /\ FaucetKey(q) = k

\* While a payment of k is remembered its cooldown runs, and whoever is past the check
\* was past it when the payment was answered.
RaceInv ==
    /\ paid = [k \in FaucetKeys |-> paid[k]]
    /\ racing = [k \in FaucetKeys |-> racing[k]]
    /\ \A k \in FaucetKeys : racing[k] # None =>
           /\ k \in cooling
           /\ \A c \in Clients : Past(call[c], k) => c \in racing[k]

\* What one step may do about each payment.
PaysRacers ==
    \A k \in FaucetKeys : racing[k] # None /\ paid'[k] # paid[k] =>
        \E c \in racing[k] : At(c, "pay") /\ FaucetKey(call[c]) = k /\ ~At(c, "pay")'

\* Steps outside the faucet put nobody past the check.
LEMMA FaucetFrame ==
    ASSUME RaceInv, Quiet(PayStages), UNCHANGED faucetVars
    PROVE  RaceInv' /\ PaysRacers
<1>1. \A c \in Clients, k \in FaucetKeys : Past(call'[c], k) => Past(call[c], k)
  BY DEF Quiet, Past
<1>2. cooling' = cooling /\ paid' = paid /\ racing' = racing
  BY DEF faucetVars
<1>3. PaysRacers
  BY <1>2 DEF PaysRacers
<1> QED
  BY <1>1, <1>2, <1>3 DEF RaceInv

\* A check that is passed finds no cooldown, so nothing is remembered for its key.
LEMMA CheckKeepsRaces ==
    ASSUME CallOK, RaceInv, NEW c \in Clients, CheckRateLimit(c)
    PROVE  CallOK' /\ RaceInv' /\ PaysRacers
<1>1. CASE Refuse(c, "RATE_LIMITED") /\ UNCHANGED racing
  BY <1>1, AnswersAreQuiet, QuietForEach, FaucetFrame DEF CheckRateLimit, faucetVars
<1>2. ASSUME FaucetKey(call[c]) \notin cooling, Await(c, "pay", call[c]),
             racing' = [racing EXCEPT ![FaucetKey(call[c])] = IF @ = None THEN @ ELSE @ \ {c}]
      PROVE  CallOK' /\ RaceInv' /\ PaysRacers
  <2>1. call[c] # None /\ {"token", "pubkey"} \subseteq DOMAIN call[c]
    BY DEF CheckRateLimit, At, CallOK, Staged
  <2>2. /\ CallOK'
        /\ FaucetKey(call'[c]) = FaucetKey(call[c])
        /\ \A d \in Clients : d # c => call'[d] = call[d]
    BY <1>2, <2>1, AwaitKeepsCalls
  <2> DEFINE j == FaucetKey(call[c])
  <2>3. FaucetKey(call'[c]) = j /\ j \notin cooling
        /\ racing' = [racing EXCEPT ![j] = IF @ = None THEN @ ELSE @ \ {c}]
    BY <1>2, <2>2
  <2> HIDE DEF j
  <2>4. j \in FaucetKeys => racing[j] = None
    BY <2>3 DEF RaceInv
  <2>5. racing' = racing
    BY <2>3, <2>4 DEF RaceInv
  <2>6. cooling' = cooling /\ paid' = paid
    BY DEF CheckRateLimit
  <2>7. ASSUME NEW k \in FaucetKeys, racing[k] # None, NEW d \in Clients, Past(call'[d], k)
        PROVE  d \in racing[k]
    <3>1. d # c
      BY <2>3, <2>4, <2>7 DEF Past
    <3> QED
      BY <2>2, <2>7, <3>1 DEF RaceInv
  <2>8. RaceInv'
    BY <2>5, <2>6, <2>7 DEF RaceInv
  <2>9. PaysRacers
    BY <2>6 DEF PaysRacers
  <2> QED
    BY <2>2, <2>8, <2>9
<1> QED
  BY <1>1, <1>2 DEF CheckRateLimit

\* Whoever pays was past the check.
LEMMA PayKeepsRaces ==
    ASSUME CallOK, RaceInv, NEW c \in Clients, Pay(c)
    PROVE  CallOK' /\ RaceInv' /\ PaysRacers
<1> DEFINE j == FaucetKey(call[c])
<1>1. call[c] # None /\ call[c].stage = "pay" /\ {"token", "pubkey"} \subseteq DOMAIN call[c]
  BY DEF Pay, At, CallOK, Staged
<1>2. cooling' = cooling /\ racing' = racing
      /\ (paid' = paid \/ (Await(c, "confirm", call[c]) /\ paid' = [paid EXCEPT ![j] = @ + 1]))
  BY DEF Pay
<1>3. /\ CallOK' /\ ~At(c, "pay")'
      /\ \A d \in Clients : d # c => call'[d] = call[d]
      /\ \A k : Past(call'[c], k) => k = j
  <2>1. CASE Refuse(c, "FAUCET_FAILED")
    <3>1. /\ CallOK' /\ Quiet(PayStages) /\ ~At(c, "pay")'
          /\ \A d \in Clients : d # c => call'[d] = call[d]
      BY <2>1, AnswersAreQuiet, QuietForEach
    <3>2. call'[c] = None \/ call'[c].stage \notin PayStages
      <4>1. ~At(c, "pay")' /\ ~At(c, "confirm")'
        BY <2>1, AnswersAreQuiet
      <4> QED
        BY <4>1 DEF At, PayStages
    <3> QED
      BY <3>1, <3>2 DEF Past
  <2>2. CASE Await(c, "confirm", call[c])
    <3>1. /\ CallOK' /\ call'[c].stage = "confirm" /\ FaucetKey(call'[c]) = FaucetKey(call[c])
          /\ \A d \in Clients : d # c => call'[d] = call[d]
      BY <1>1, <2>2, AwaitKeepsCalls
    <3> QED
      BY <3>1 DEF At, Past
  <2> QED
    BY <2>1, <2>2 DEF Pay
<1>4. At(c, "pay") /\ Past(call[c], j)
  BY <1>1 DEF At, Past, PayStages
<1> HIDE DEF j
<1>5. \A d \in Clients : \A k \in FaucetKeys : Past(call'[d], k) => Past(call[d], k)
  BY <1>3, <1>4
<1>6. paid' = [k \in FaucetKeys |-> paid'[k]] /\ \A k \in FaucetKeys : k # j => paid'[k] = paid[k]
  BY <1>2 DEF RaceInv
<1>7. RaceInv'
  BY <1>2, <1>5, <1>6 DEF RaceInv
<1>8. PaysRacers
  <2> SUFFICES ASSUME NEW k \in FaucetKeys, racing[k] # None, paid'[k] # paid[k]
               PROVE  \E d \in racing[k] : At(d, "pay") /\ FaucetKey(call[d]) = k /\ ~At(d, "pay")'
    BY DEF PaysRacers
  <2>1. k = j
    BY <1>6
  <2>2. c \in racing[k] /\ FaucetKey(call[c]) = k
    BY <1>4, <2>1 DEF RaceInv, Past
  <2> QED
    BY <1>3, <1>4, <2>2
<1> QED
  BY <1>3, <1>7, <1>8

\* Recording a payment notes who else is past the check.
LEMMA RecordKeepsRaces ==
    ASSUME CallOK, RaceInv, NEW c \in Clients, Record(c)
    PROVE  CallOK' /\ RaceInv' /\ PaysRacers
<1> DEFINE j == FaucetKey(call[c])
<1>1. CASE Refuse(c, "FAUCET_FAILED") /\ UNCHANGED <<cooling, racing>>
  BY <1>1, AnswersAreQuiet, QuietForEach, FaucetFrame DEF Record, faucetVars
<1>2. CASE /\ cooling' = cooling \cup {RecordedAs(call[c])}
           /\ racing' = [racing EXCEPT ![j] = PastTheCheck(j) \ {c}]
           /\ Reply(c, None)
  <2>1. /\ CallOK' /\ ~At(c, "pay")' /\ ~At(c, "confirm")'
        /\ \A d \in Clients : d # c => call'[d] = call[d]
    BY <1>2, AnswersAreQuiet
  <2>2. \A k : ~Past(call'[c], k)
    BY <2>1 DEF At, Past, PayStages
  <2>3. \A d \in Clients : \A k \in FaucetKeys : Past(call'[d], k) => d # c /\ Past(call[d], k)
    BY <2>1, <2>2
  <2>4. \A d \in Clients : Past(call[d], j) => d \in PastTheCheck(j)
    BY DEF Past, PastTheCheck, At, PayStages
  <2>5. paid' = paid /\ cooling' = cooling \cup {j}
    BY <1>2 DEF Record, RecordedAs
  <2>6. racing' = [racing EXCEPT ![j] = PastTheCheck(j) \ {c}]
    BY <1>2
  <2> HIDE DEF j
  <2>7. /\ racing' = [k \in FaucetKeys |-> racing'[k]]
        /\ \A k \in FaucetKeys : k # j => racing'[k] = racing[k]
        /\ j \in FaucetKeys => racing'[j] = PastTheCheck(j) \ {c}
    BY <2>6 DEF RaceInv
  <2>8. ASSUME NEW k \in FaucetKeys, racing'[k] # None
        PROVE  k \in cooling' /\ \A d \in Clients : Past(call'[d], k) => d \in racing'[k]
    <3>1. CASE k = j
      BY <2>3, <2>4, <2>5, <2>7, <3>1
    <3>2. CASE k # j
      BY <2>3, <2>5, <2>7, <2>8, <3>2 DEF RaceInv
    <3> QED
      BY <3>1, <3>2
  <2>9. RaceInv'
    BY <2>5, <2>7, <2>8 DEF RaceInv
  <2>10. PaysRacers
    BY <2>5 DEF PaysRacers
  <2> QED
    BY <2>1, <2>9, <2>10
<1> QED
  BY <1>1, <1>2 DEF Record

\* What is remembered is forgotten with the cooldown.
LEMMA EndKeepsRaces ==
    ASSUME CallOK, RaceInv, NEW j \in FaucetKeys, CooldownEnds(j)
    PROVE  CallOK' /\ RaceInv' /\ PaysRacers
<1>1. /\ call' = call /\ paid' = paid
      /\ cooling' = cooling \ {j}
      /\ racing' = [racing EXCEPT ![j] = None]
  BY DEF CooldownEnds
<1>2. /\ racing' = [k \in FaucetKeys |-> racing'[k]]
      /\ racing'[j] = None
      /\ \A k \in FaucetKeys : k # j => racing'[k] = racing[k]
  BY <1>1 DEF RaceInv
<1>3. RaceInv'
  BY <1>1, <1>2 DEF RaceInv
<1> QED
  BY <1>1, <1>3 DEF CallOK, PaysRacers

\* Every step keeps the invariant, and pays only racers.
LEMMA StepPaysRacers ==
    ASSUME CallOK, RaceInv, [Next]_vars
    PROVE  CallOK' /\ RaceInv' /\ PaysRacers
<1>1. ASSUME CallOK', Quiet(Critical) \/ Quiet(PayStages), UNCHANGED faucetVars
      PROVE  CallOK' /\ RaceInv' /\ PaysRacers
  BY <1>1, QuietForEach, FaucetFrame
<1>2. ASSUME UNCHANGED call
      PROVE  CallOK' /\ Quiet(Critical)
  BY <1>2 DEF CallOK, Quiet
<1>3. ASSUME NEW c \in Clients, Begin(c)
      PROVE  CallOK' /\ RaceInv' /\ PaysRacers
  BY <1>1, <1>3, BeginIsQuiet
<1>4. ASSUME NEW c \in Clients, Serve(c)
      PROVE  CallOK' /\ RaceInv' /\ PaysRacers
  <2>1. CASE AuthStep(c) /\ UNCHANGED faucetVars
    BY <1>1, <2>1, AuthPaysNobody
  <2>2. CASE FaucetStep(c)
    BY <2>2, CheckKeepsRaces, PayKeepsRaces, RecordKeepsRaces DEF FaucetStep
  <2>3. CASE (ChatStep(c) \/ AnswerAccount(c)) /\ UNCHANGED faucetVars
    BY <1>1, <2>3, ChattingIsQuiet
  <2> QED
    BY <1>4, <2>1, <2>2, <2>3 DEF Serve, AnswerAccount
<1>5. ASSUME NEW c \in Clients,
             \/ Finish(c) \/ SignChallenge(c) \/ SaveEdited(c) \/ SaveAnswer(c)
             \/ WriteFile(c) \/ Crash(c) \/ DropAnswer(c)
      PROVE  CallOK' /\ RaceInv' /\ PaysRacers
  BY <1>1, <1>5, CarryingOnIsQuiet
<1>6. CASE TimePasses
  <2>1. CASE \E k \in FaucetKeys : CooldownEnds(k)
    BY <2>1, EndKeepsRaces
  <2>2. CASE UNCHANGED call /\ UNCHANGED faucetVars
    BY <1>1, <1>2, <2>2
  <2> QED
    BY <1>6, <2>1, <2>2 DEF TimePasses, ChallengeExpires, EvictExpired
<1>7. CASE Restart
  <2>1. CallOK'
    BY <1>7, RestartIsQuiet
  <2>2. paid' = paid /\ racing' = [k \in FaucetKeys |-> None]
    BY <1>7 DEF Restart, FaucetRestart
  <2>3. RaceInv' /\ PaysRacers
    BY <2>2 DEF RaceInv, PaysRacers
  <2> QED
    BY <2>1, <2>3
<1>8. CASE UNCHANGED vars
  BY <1>1, <1>2, <1>8 DEF vars
<1> QED
  BY <1>3, <1>4, <1>5, <1>6, <1>7, <1>8 DEF Next

\* For ten minutes after a payment was answered a wallet is paid again only by a request
\* that was past its check by then, for any number of clients, with crashes and restarts
\* (solana.service.ts:184, 205).
THEOREM OnlyRacersArePaid == Spec => OnlyRacersPay
<1>1. Init => CallOK /\ RaceInv
  BY DEF Init, FaucetInit, CallOK, RaceInv
<1>2. CallOK /\ RaceInv /\ [Next]_vars => CallOK' /\ RaceInv' /\ PaysRacers
  BY StepPaysRacers
<1>3. CallOK /\ RaceInv /\ [Next]_vars =>
          [\A k \in FaucetKeys :
               racing[k] # None /\ paid'[k] # paid[k] =>
                   \E c \in racing[k] : At(c, "pay") /\ FaucetKey(call[c]) = k /\ ~At(c, "pay")'
          ]_<<call, cooling, paid, racing>>
  BY <1>2 DEF PaysRacers
<1> QED
  BY <1>1, <1>2, <1>3, PTL DEF Spec, OnlyRacersPay
=============================================================================
