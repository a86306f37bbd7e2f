--------------------------- MODULE CommandsProofs ---------------------------
(***************************************************************************)
(* What overlapping commands leave in the file, and what a conversation    *)
(* with the chat looks like, for any number of clients and commands.       *)
(***************************************************************************)
EXTENDS SessionsProofs, FiniteSetTheorems

----------------------------------------------------------------------------
(* What is known of a command and of its request                           *)

\* The stages that a command of this name goes through.
Belongs(name, stage) ==
    \/ stage = "answered"
    \/ name = "auth_register" /\ stage = "challenge"
    \/ name = "auth_signed" /\ stage \in {"register", "findRow", "flushKey"}
    \/ name = "auth_revoke" /\ stage \in {"revoke", "flushRevoke"}
    \/ name = "wallet_fund" /\ stage \in {"guard", "faucet", "pay", "confirm"}
    \/ name = "account_sync" /\ stage \in {"guard", "account"}
    \/ name = "chat" /\ stage \in {"message", "model"}

\* What the handlers and the command read in the request, when k keys were made and s
\* messages were sent.
Fits(name, q, k, s) ==
    /\ q.stage \in {"challenge", "register", "findRow", "flushKey"} => q.pubkey \in Pubkeys
    /\ q.stage \in {"findRow", "flushKey"} => q.key \in 1..k
    /\ name = "wallet_fund" /\ q.stage # "answered" => FaucetKey(q) \in FaucetKeys
    /\ q.stage = "guard" => q.then = (IF name = "wallet_fund" THEN "faucet" ELSE "account")
    /\ q.stage \in {"message", "model"} => q.agent \in Agents
    /\ q.stage = "model" => q.session \in 1..s /\ q.turn \in 1..s
    /\ name = "auth_signed" /\ q.stage = "answered" => q.value \in 1..k \cup {None}
    /\ name = "account_sync" /\ q.stage = "answered" => q.value \in Accounts \cup {None}

\* The request q belongs to the command m: only a command that waits, or gave up, has one.
Talk(m, q, k, s) ==
    /\ m = None => q = None
    /\ m # None =>
           /\ m.pc \in {"loaded", "torn"} => q = None
           /\ m.name = "auth_register" => m.wallet \in Pubkeys
           /\ m.pc \in {"loaded", "torn"} /\ m.name = "chat" => m.config.agentId \in Agents
           /\ q # None => Belongs(m.name, q.stage) /\ Fits(m.name, q, k, s)

Conversing == \A c \in Clients : Talk(cli[c], call[c], minted, sent)

\* Numbers of wallets and agents are handed out as they are generated.
CommandsTyped ==
    /\ file # None => file \in Config /\ Wallets(file) \subseteq 1..generated
    /\ cli \in [Clients -> Command \cup {None}]
    /\ \A c \in Clients : cli[c] # None => Wallets(cli[c].config) \subseteq 1..generated
    /\ commands \in 0..MaxCommands /\ faults \in 0..MaxFaults
    /\ generated \in Nat /\ generated <= 2 * commands + 2
    /\ stored \subseteq 1..generated
    /\ orderly \in BOOLEAN

\* Each key is made for a nonce, and each nonce for a registration.
Challengers == {c \in Clients : At(c, "challenge")}
Challenged == {w \in Pubkeys : challenges[w] # None}

KeysCounted ==
    /\ challenges \in [Pubkeys -> 1..nonces \cup {None}]
    /\ nonces \in Nat /\ minted \in Nat
    /\ nonces + Cardinality(Challengers) <= commands + 1
    /\ minted + Cardinality(Challenged) <= nonces

\* A step of the client c alone.
Alone(c) == \A d \in Clients : d # c => call'[d] = call[d] /\ cli'[d] = cli[d]

LEMMA SendSets ==
    ASSUME CallOK, NEW c \in Clients, NEW q, Send(c, q)
    PROVE  call'[c] = q /\ \A d \in Clients : d # c => call'[d] = call[d]
  BY DEF CallOK, Send

\* Sets of clients and of wallets are finite.
LEMMA FiniteSets ==
    /\ \A S : S \subseteq Clients => IsFiniteSet(S) /\ Cardinality(S) \in Nat
    /\ IsFiniteSet(Pubkeys)
    /\ \A S : S \subseteq Pubkeys => IsFiniteSet(S) /\ Cardinality(S) \in Nat
<1>1. IsFiniteSet(Clients)
  BY SessionsAssumption
<1>2. IsFiniteSet(Pubkeys)
  <2>1. 1 \in Int /\ 2 * MaxCommands + 2 \in Int
    BY SessionsAssumption
  <2> QED
    BY <2>1, FS_Interval, SessionsAssumption DEF Numbers
<1> QED
  BY <1>1, <1>2, FS_Subset, FS_CardinalityType

\* What one client says leaves what the others say true as the counters grow.
LEMMA TalkFrame ==
    ASSUME Conversing, NEW c \in Clients, Alone(c),
           minted \in Nat, minted' \in Nat, minted <= minted',
           sent \in Nat, sent' \in Nat, sent <= sent',
           Talk(cli'[c], call'[c], minted', sent')
    PROVE  Conversing'
<1>1. \A k \in 1..minted : k \in 1..minted'
  OBVIOUS
<1>2. \A k \in 1..sent : k \in 1..sent'
  OBVIOUS
<1>3. ASSUME NEW d \in Clients, d # c
      PROVE  Talk(cli'[d], call'[d], minted', sent')
  <2>1. Talk(cli[d], call[d], minted, sent) /\ cli'[d] = cli[d] /\ call'[d] = call[d]
    BY <1>3 DEF Conversing, Alone
  <2>2. ASSUME NEW name, NEW q, Fits(name, q, minted, sent)
        PROVE  Fits(name, q, minted', sent')
    BY <1>1, <1>2, <2>2 DEF Fits
  <2> QED
    BY <2>1, <2>2 DEF Talk
<1> QED
  BY <1>3 DEF Conversing

----------------------------------------------------------------------------
(* Starting a command                                                      *)

LEMMA ConfigFields ==
    ASSUME NEW config \in Config
    PROVE  /\ config.wallets \in [Labels -> Pubkeys \cup {None}]
           /\ config.defaultWallet \in Labels /\ config.cluster \in {"mainnet-beta", "devnet", None}
           /\ config.agentId \in Agents \cup {None}
           /\ config.apiKey \in 1..(MaxCommands + 1) \cup {None}
           /\ config.account \in Accounts \cup {None}
  BY DEF Config

LEMMA Loaded ==
    ASSUME CommandsTyped
    PROVE  LoadConfig \in Config /\ Wallets(LoadConfig) \subseteq 1..generated
<1>1. DefaultConfig \in Config /\ Wallets(DefaultConfig) = {}
  <2>1. DefaultConfig.wallets = [l \in Labels |-> None]
    BY DEF DefaultConfig
  <2>2. Wallets(DefaultConfig) = {}
    BY <2>1 DEF Wallets
  <2> QED
    BY <2>2, SessionsAssumption DEF DefaultConfig, Config
<1> QED
  BY <1>1 DEF LoadConfig, CommandsTyped

\* A wallet that is added has its number, and the others stay.
LEMMA WalletAdded ==
    ASSUME NEW config \in Config, NEW l \in Labels, config.wallets[l] = None, NEW w \in Pubkeys
    PROVE  /\ WithWallet(config, l, w) \in Config
           /\ Wallets(WithWallet(config, l, w)) \subseteq Wallets(config) \cup {w}
           /\ Wallets(config) \subseteq Wallets(WithWallet(config, l, w))
           /\ WithWallet(config, l, w).apiKey = config.apiKey
           /\ WithWallet(config, l, w).agentId = config.agentId
<1> DEFINE n == WithWallet(config, l, w)
           d == IF Wallets(config) = {} THEN l ELSE config.defaultWallet
<1>1. n = [[config EXCEPT !.wallets[l] = w] EXCEPT !.defaultWallet = d]
  BY ConfigFields DEF WithWallet, Config
<1>2. n \in Config /\ n.wallets = [config.wallets EXCEPT ![l] = w] /\ n.apiKey = config.apiKey
      /\ n.agentId = config.agentId
  BY <1>1, ConfigFields DEF Config
<1> HIDE DEF n
<1>3. /\ n.wallets[l] = w
      /\ \A m \in Labels : m # l => n.wallets[m] = config.wallets[m]
  BY <1>2, ConfigFields
<1>4. /\ Wallets(n) \subseteq Wallets(config) \cup {w}
      /\ Wallets(config) \subseteq Wallets(n)
  BY <1>3 DEF Wallets
<1> QED
  BY <1>2, <1>4 DEF n

Names == {"wallet_create", "init", "config", "auth_register", "auth_signed", "auth_revoke",
          "wallet_fund", "account_sync", "chat"}

\* What starting a command keeps.
LEMMA StartKeeps ==
    ASSUME CommandsTyped, NEW c \in Clients, NEW name \in Names, NEW pc \in {"loaded", "asked"},
           NEW config \in Config, NEW wallet \in Pubkeys \cup {None},
           Start(c, name, pc, config, wallet),
           generated' \in Nat, generated <= generated', generated' <= generated + 2,
           Wallets(config) \subseteq 1..generated'
    PROVE  /\ CommandsTyped' /\ commands' = commands + 1
           /\ cli'[c] = [pc |-> pc, name |-> name, config |-> config, wallet |-> wallet]
           /\ cli'[c] # None
           /\ \A d \in Clients : d # c => cli'[d] = cli[d]
<1> DEFINE m == [pc |-> pc, name |-> name, config |-> config, wallet |-> wallet]
<1>1. m \in Command /\ m.config = config
  BY DEF Command, Names
<1>2. cli' = [cli EXCEPT ![c] = m] /\ commands' = commands + 1 /\ commands < MaxCommands
      /\ UNCHANGED <<file, faults, stored>>
      /\ orderly' = (orderly /\ \A d \in Clients : cli[d] = None)
  BY DEF Start
<1> HIDE DEF m
<1>3. /\ cli' \in [Clients -> Command \cup {None}] /\ cli'[c] = m
      /\ \A d \in Clients : d # c => cli'[d] = cli[d]
  BY <1>1, <1>2 DEF CommandsTyped
<1>4. \A k \in 1..generated : k \in 1..generated'
  BY DEF CommandsTyped
<1>5. generated' <= 2 * commands' + 2 /\ commands' \in 0..MaxCommands
  BY <1>2, SessionsAssumption DEF CommandsTyped
<1>6. \A d \in Clients : cli'[d] # None => Wallets(cli'[d].config) \subseteq 1..generated'
  BY <1>1, <1>3, <1>4 DEF CommandsTyped
<1>7. file' # None => file' \in Config /\ Wallets(file)' \subseteq 1..generated'
  BY <1>2, <1>4 DEF CommandsTyped, Wallets
<1>8. orderly' \in BOOLEAN
  BY <1>2
<1>9. faults' \in 0..MaxFaults /\ stored' \subseteq 1..generated'
  BY <1>2, <1>4 DEF CommandsTyped
<1>10. CommandsTyped'
  BY <1>3, <1>5, <1>6, <1>7, <1>8, <1>9 DEF CommandsTyped
<1> QED
  BY <1>1, <1>2, <1>3, <1>10, NothingAssumption DEF m

\* A command that starts without asking has no request.
LEMMA EditKeeps ==
    ASSUME CallOK, CommandsTyped, NEW c \in Clients, NEW name \in Names \ {"auth_register"},
           NEW config \in Config, Edit(c, name, config),
           generated' \in Nat, generated <= generated', generated' <= generated + 2,
           Wallets(config) \subseteq 1..generated',
           name = "chat" => config.agentId \in Agents
    PROVE  /\ CommandsTyped' /\ commands' = commands + 1 /\ Alone(c)
           /\ Talk(cli'[c], call'[c], minted', sent')
           /\ call[c] = None /\ call'[c] = None
           /\ cli'[c] = [pc |-> "loaded", name |-> name, config |-> config, wallet |-> None]
<1>1. Start(c, name, "loaded", config, None) /\ call' = call /\ call[c] = None
  BY DEF Edit, Start
<1>2. /\ CommandsTyped' /\ commands' = commands + 1
      /\ cli'[c] = [pc |-> "loaded", name |-> name, config |-> config, wallet |-> None]
      /\ cli'[c] # None
      /\ \A d \in Clients : d # c => cli'[d] = cli[d]
  BY <1>1, StartKeeps
<1> DEFINE m == [pc |-> "loaded", name |-> name, config |-> config, wallet |-> None]
<1>3. m.pc = "loaded" /\ m.name = name /\ m.config = config
  OBVIOUS
<1>4. cli'[c] = m
  BY <1>2
<1> HIDE DEF m
<1>5. Talk(cli'[c], call'[c], minted', sent')
  BY <1>1, <1>2, <1>3, <1>4 DEF Talk
<1> QED
  BY <1>1, <1>2, <1>5 DEF Alone

\* One that asks has the request it sends.
LEMMA AskKeeps ==
    ASSUME CallOK, CommandsTyped, NEW c \in Clients, NEW name \in Names,
           NEW wallet \in Pubkeys \cup {None}, NEW q, Ask(c, name, wallet, q),
           name = "auth_register" => wallet \in Pubkeys,
           Belongs(name, q.stage), Fits(name, q, minted, sent),
           minted' = minted /\ sent' = sent
    PROVE  /\ CommandsTyped' /\ commands' = commands + 1 /\ Alone(c)
           /\ Talk(cli'[c], call'[c], minted', sent')
           /\ call[c] = None /\ call'[c] = q
           /\ cli'[c] = [pc |-> "asked", name |-> name, config |-> LoadConfig, wallet |-> wallet]
<1>1. Start(c, name, "asked", LoadConfig, wallet) /\ Send(c, q) /\ call[c] = None
      /\ generated' = generated
  BY DEF Ask, Start
<1>2. LoadConfig \in Config /\ Wallets(LoadConfig) \subseteq 1..generated /\ generated \in Nat
  BY Loaded DEF CommandsTyped
<1>3. /\ CommandsTyped' /\ commands' = commands + 1
      /\ cli'[c] = [pc |-> "asked", name |-> name, config |-> LoadConfig, wallet |-> wallet]
      /\ cli'[c] # None
      /\ \A d \in Clients : d # c => cli'[d] = cli[d]
  <2>1. generated' \in Nat /\ generated <= generated' /\ generated' <= generated + 2
        /\ Wallets(LoadConfig) \subseteq 1..generated'
    BY <1>1, <1>2
  <2> QED
    BY <1>1, <1>2, <2>1, StartKeeps
<1>4. call'[c] = q /\ \A d \in Clients : d # c => call'[d] = call[d]
  BY <1>1, SendSets
<1> DEFINE m == [pc |-> "asked", name |-> name, config |-> LoadConfig, wallet |-> wallet]
<1>5. m.pc = "asked" /\ m.name = name /\ m.wallet = wallet
  OBVIOUS
<1>6. cli'[c] = m
  BY <1>3
<1> HIDE DEF m
<1>7. Talk(cli'[c], call'[c], minted', sent')
  BY <1>3, <1>4, <1>5, <1>6 DEF Talk
<1> QED
  BY <1>1, <1>3, <1>4, <1>7 DEF Alone

\* What is known of a command that has just started.
Begun(c) ==
    /\ CommandsTyped' /\ commands' = commands + 1 /\ Alone(c)
    /\ Talk(cli'[c], call'[c], minted', sent')
    /\ UNCHANGED <<authVars, faucetVars, chatVars, file, stored>>
    /\ orderly' = (orderly /\ \A d \in Clients : cli[d] = None)
    /\ call[c] = None
    /\ call'[c] = None \/ call'[c].stage \in {"challenge", "revoke", "guard", "message"}
    /\ cli'[c].pc = "loaded" \/ (cli'[c].pc = "asked" /\ cli'[c].config = LoadConfig)
    /\ Wallets(LoadConfig) \subseteq Wallets(cli'[c].config)
    /\ cli'[c].config.apiKey = LoadConfig.apiKey

LEMMA EditBegins ==
    ASSUME CallOK, CommandsTyped, NEW c \in Clients, NEW name \in Names \ {"auth_register"},
           NEW config \in Config, Edit(c, name, config),
           generated' \in Nat, generated <= generated', generated' <= generated + 2,
           Wallets(config) \subseteq 1..generated',
           Wallets(LoadConfig) \subseteq Wallets(config), config.apiKey = LoadConfig.apiKey,
           name = "chat" => config.agentId \in Agents
    PROVE  Begun(c)
<1>1. /\ CommandsTyped' /\ commands' = commands + 1 /\ Alone(c)
      /\ Talk(cli'[c], call'[c], minted', sent')
      /\ call[c] = None /\ call'[c] = None
      /\ cli'[c] = [pc |-> "loaded", name |-> name, config |-> config, wallet |-> None]
  BY EditKeeps
<1>2. cli'[c].pc = "loaded" /\ cli'[c].config = config
  BY <1>1
<1>3. UNCHANGED <<authVars, faucetVars, chatVars, file, stored>>
      /\ orderly' = (orderly /\ \A d \in Clients : cli[d] = None)
  BY DEF Edit, Start
<1> QED
  BY <1>1, <1>2, <1>3 DEF Begun

LEMMA AskBegins ==
    ASSUME CallOK, CommandsTyped, NEW c \in Clients, NEW name \in Names,
           NEW wallet \in Pubkeys \cup {None}, NEW q, Ask(c, name, wallet, q),
           name = "auth_register" => wallet \in Pubkeys,
           Belongs(name, q.stage), Fits(name, q, minted, sent),
           q.stage \in {"challenge", "revoke", "guard", "message"}
    PROVE  Begun(c)
<1>1. UNCHANGED <<authVars, faucetVars, chatVars, file, stored>>
      /\ orderly' = (orderly /\ \A d \in Clients : cli[d] = None)
  BY DEF Ask, Start
<1>2. minted' = minted /\ sent' = sent
  BY <1>1 DEF authVars, chatVars
<1>3. /\ CommandsTyped' /\ commands' = commands + 1 /\ Alone(c)
      /\ Talk(cli'[c], call'[c], minted', sent')
      /\ call[c] = None /\ call'[c] = q
      /\ cli'[c] = [pc |-> "asked", name |-> name, config |-> LoadConfig, wallet |-> wallet]
  BY <1>2, AskKeeps
<1>4. cli'[c].pc = "asked" /\ cli'[c].config = LoadConfig
  BY <1>3
<1> QED
  BY <1>1, <1>3, <1>4 DEF Begun

\* Every command begins so.  A wallet that is made takes a label that has none ...
LEMMA WalletCreateBegins ==
    ASSUME CallOK, CommandsTyped, NEW c \in Clients, NEW l \in Labels, WalletCreate(c, l)
    PROVE  Begun(c)
<1> DEFINE config == WithWallet(LoadConfig, l, generated')
<1>1. generated' = generated + 1 /\ generated \in Nat /\ Edit(c, "wallet_create", config)
      /\ LoadConfig.wallets[l] = None
  BY DEF WalletCreate, CommandsTyped
<1>2. commands < MaxCommands
  BY <1>1 DEF Edit, Start
<1>3. generated' \in Pubkeys /\ generated' \in Nat /\ generated' \in 1..generated'
      /\ \A k \in 1..generated : k \in 1..generated'
  BY <1>1, <1>2, SessionsAssumption DEF CommandsTyped, Numbers
<1>4. LoadConfig \in Config /\ Wallets(LoadConfig) \subseteq 1..generated
  BY Loaded
<1>5. /\ config \in Config
      /\ Wallets(config) \subseteq Wallets(LoadConfig) \cup {generated'}
      /\ Wallets(LoadConfig) \subseteq Wallets(config) /\ config.apiKey = LoadConfig.apiKey
  BY <1>1, <1>3, <1>4, WalletAdded
<1>6. Wallets(config) \subseteq 1..generated'
  BY <1>3, <1>4, <1>5
<1> HIDE DEF config
<1>7. generated <= generated' /\ generated' <= generated + 2
  BY <1>1
<1>8. "wallet_create" \in Names \ {"auth_register"}
  BY DEF Names
<1> QED
  BY <1>1, <1>3, <1>5, <1>6, <1>7, <1>8, EditBegins

LEMMA SetClusterBegins ==
    ASSUME CallOK, CommandsTyped, NEW c \in Clients, NEW cluster \in {"devnet", None},
           SetCluster(c, cluster)
    PROVE  Begun(c)
<1> DEFINE config == [LoadConfig EXCEPT !.cluster = cluster]
<1>1. generated' = generated /\ generated \in Nat /\ Edit(c, "config", config)
  BY DEF SetCluster, CommandsTyped
<1>2. LoadConfig \in Config /\ Wallets(LoadConfig) \subseteq 1..generated
  BY Loaded
<1>3. config \in Config /\ config.wallets = LoadConfig.wallets /\ config.apiKey = LoadConfig.apiKey
  BY <1>2 DEF Config
<1> HIDE DEF config
<1>4. Wallets(config) = Wallets(LoadConfig)
  BY <1>3 DEF Wallets
<1>5. generated <= generated' /\ generated' <= generated + 2 /\ generated' \in Nat
      /\ Wallets(config) \subseteq 1..generated'
  BY <1>1, <1>2, <1>4
<1>6. "config" \in Names \ {"auth_register"}
  BY DEF Names
<1> QED
  BY <1>1, <1>3, <1>4, <1>5, <1>6, EditBegins

\* An agent id is made where there is none.
LEMMA AgentAdded ==
    ASSUME NEW config \in Config, NEW a \in Agents
    PROVE  /\ WithAgent(config, a) \in Config
           /\ Wallets(WithAgent(config, a)) = Wallets(config)
           /\ WithAgent(config, a).apiKey = config.apiKey
           /\ WithAgent(config, a).agentId = a
<1> DEFINE n == WithAgent(config, a)
<1>1. n \in Config /\ n.wallets = config.wallets /\ n.apiKey = config.apiKey /\ n.agentId = a
  BY DEF Config, WithAgent
<1> HIDE DEF n
<1>2. Wallets(n) = Wallets(config)
  BY <1>1 DEF Wallets
<1> QED
  BY <1>1, <1>2 DEF n

LEMMA ChatBegins ==
    ASSUME CallOK, CommandsTyped, NEW c \in Clients, Chat(c)
    PROVE  Begun(c)
<1>1. LoadConfig \in Config /\ Wallets(LoadConfig) \subseteq 1..generated /\ generated \in Nat
  BY Loaded DEF CommandsTyped
<1>2. "chat" \in Names \ {"auth_register"} /\ "chat" \in Names
  BY DEF Names
<1>3. CASE /\ LoadConfig.agentId # None
           /\ Ask(c, "chat", None, [stage |-> "message", agent |-> LoadConfig.agentId])
  <2> DEFINE q == [stage |-> "message", agent |-> LoadConfig.agentId]
  <2>1. q.stage = "message" /\ q.agent = LoadConfig.agentId
    OBVIOUS
  <2>2. q.agent \in Agents
    BY <1>1, <1>3, <2>1, ConfigFields
  <2>3. Ask(c, "chat", None, q)
    BY <1>3
  <2> HIDE DEF q
  <2>4. Belongs("chat", q.stage) /\ Fits("chat", q, minted, sent)
    BY <2>1, <2>2 DEF Belongs, Fits
  <2> QED
    BY <1>2, <2>1, <2>3, <2>4, AskBegins
<1>4. CASE /\ generated' = generated + 1
           /\ Edit(c, "chat", WithAgent(LoadConfig, generated'))
  <2> DEFINE config == WithAgent(LoadConfig, generated')
  <2>1. commands < MaxCommands
    BY <1>4 DEF Edit, Start
  <2>2. generated' \in Agents
    BY <1>1, <1>4, <2>1, SessionsAssumption DEF CommandsTyped, Numbers
  <2>3. config \in Config /\ Wallets(config) = Wallets(LoadConfig)
        /\ config.apiKey = LoadConfig.apiKey /\ config.agentId \in Agents
    BY <1>1, <2>2, AgentAdded
  <2>4. Edit(c, "chat", config)
    BY <1>4
  <2> HIDE DEF config
  <2>5. generated' \in Nat /\ generated <= generated' /\ generated' <= generated + 2
        /\ \A k \in 1..generated : k \in 1..generated'
    BY <1>1, <1>4
  <2>6. Wallets(config) \subseteq 1..generated'
    BY <1>1, <2>3, <2>5
  <2> QED
    BY <1>2, <2>3, <2>4, <2>5, <2>6, EditBegins
<1> QED
  BY <1>3, <1>4 DEF Chat

\* One number or two, for what is made.
LEMMA MadeCount ==
    ASSUME NEW a \in BOOLEAN, NEW b \in BOOLEAN, a \/ b
    PROVE  Cardinality({x \in {<<1, a>>, <<2, b>>} : x[2]}) \in 1..2
<1> DEFINE p == <<1, a>>
           q == <<2, b>>
           both == {p, q}
           made == {x \in both : x[2]}
<1>1. p[1] = 1 /\ q[1] = 2 /\ p[2] = a /\ q[2] = b
  OBVIOUS
<1> HIDE DEF p, q
<1>2. IsFiniteSet({p}) /\ Cardinality({p}) = 1 /\ q \notin {p} /\ both = {p} \cup {q}
  <2>1. IsFiniteSet({p}) /\ Cardinality({p}) = 1
    BY FS_Singleton
  <2>2. p # q
    BY <1>1
  <2>3. q \notin {p} /\ {p, q} = {p} \cup {q}
    BY <2>2
  <2> QED
    BY <2>1, <2>3
<1>3. IsFiniteSet(both) /\ Cardinality(both) = 2
  <2>1. IsFiniteSet({p} \cup {q}) /\ Cardinality({p} \cup {q}) = Cardinality({p}) + 1
    BY <1>2, FS_AddElement
  <2> HIDE DEF both
  <2> QED
    BY <1>2, <2>1
<1>4. made \subseteq both /\ made # {}
  <2>1. p[2] \/ q[2]
    BY <1>1, Zenon
  <2>2. p \in made \/ q \in made
    BY <2>1, Zenon
  <2> QED
    BY <2>2
<1> HIDE DEF both, made
<1>5. IsFiniteSet(made) /\ Cardinality(made) <= 2 /\ Cardinality(made) \in Nat
  BY <1>3, <1>4, FS_Subset, FS_CardinalityType
<1>6. Cardinality(made) # 0
  BY <1>4, <1>5, FS_EmptySet
<1>7. Cardinality(made) \in 1..2
  BY <1>5, <1>6
<1> QED
  BY <1>7 DEF made, both, p, q

\* silky init makes a wallet, an agent id or both.
LEMMA InitBegins ==
    ASSUME CallOK, CommandsTyped, NEW c \in Clients, InitSdk(c)
    PROVE  Begun(c)
<1> DEFINE config == LoadConfig
           walletMade == config.wallets["main"] = None
           agentMade == config.agentId = None
           withWallet == IF walletMade THEN WithWallet(config, "main", generated + 1) ELSE config
           made == Cardinality({x \in {<<1, walletMade>>, <<2, agentMade>>} : x[2]})
           last == IF agentMade THEN WithAgent(withWallet, generated') ELSE withWallet
<1>1. /\ walletMade \/ agentMade
      /\ generated' = generated + made
      /\ Edit(c, "init", last)
  BY DEF InitSdk
<1>2. made \in 1..2
  BY <1>1, MadeCount
<1>3. commands < MaxCommands
  BY <1>1 DEF Edit, Start
<1>4. config \in Config /\ Wallets(config) \subseteq 1..generated /\ generated \in Nat
      /\ "main" \in Labels
  BY Loaded, SessionsAssumption DEF CommandsTyped
<1> HIDE DEF config, made
<1>5. /\ generated' \in Nat /\ generated <= generated' /\ generated' <= generated + 2
      /\ generated + 1 \in 1..generated' /\ \A k \in 1..generated : k \in 1..generated'
      /\ generated' \in Agents /\ generated + 1 \in Pubkeys
  <2>1. generated <= 2 * commands + 2 /\ commands \in Nat /\ MaxCommands \in Nat
    BY SessionsAssumption DEF CommandsTyped
  <2>2. generated' \in Nat /\ generated + 1 <= generated' /\ generated' <= generated + 2
    BY <1>1, <1>2, <1>4
  <2>3. generated + 2 <= 2 * MaxCommands + 2
    BY <1>3, <1>4, <2>1
  <2>4. generated' \in Numbers /\ generated + 1 \in Numbers
    BY <1>4, <2>1, <2>2, <2>3 DEF Numbers
  <2> QED
    BY <1>4, <2>2, <2>4, SessionsAssumption
<1>6. /\ withWallet \in Config /\ Wallets(withWallet) \subseteq 1..generated'
      /\ Wallets(config) \subseteq Wallets(withWallet) /\ withWallet.apiKey = config.apiKey
  <2>1. CASE walletMade
    <3>1. /\ WithWallet(config, "main", generated + 1) \in Config
          /\ Wallets(WithWallet(config, "main", generated + 1))
                 \subseteq Wallets(config) \cup {generated + 1}
          /\ Wallets(config) \subseteq Wallets(WithWallet(config, "main", generated + 1))
          /\ WithWallet(config, "main", generated + 1).apiKey = config.apiKey
      BY <1>4, <1>5, <2>1, WalletAdded
    <3> QED
      BY <1>4, <1>5, <2>1, <3>1
  <2>2. CASE ~walletMade
    BY <1>4, <1>5, <2>2
  <2> QED
    BY <2>1, <2>2
<1> HIDE DEF withWallet
<1>7. /\ last \in Config /\ Wallets(last) = Wallets(withWallet) /\ last.apiKey = withWallet.apiKey
  BY <1>5, <1>6, AgentAdded
<1> HIDE DEF last
<1>8. "init" \in Names \ {"auth_register"}
  BY DEF Names
<1>9. /\ Wallets(last) \subseteq 1..generated'
      /\ Wallets(LoadConfig) \subseteq Wallets(last) /\ last.apiKey = LoadConfig.apiKey
  BY <1>6, <1>7 DEF config
<1> QED
  BY <1>1, <1>5, <1>7, <1>8, <1>9, EditBegins

\* The others ask at once, for a wallet of the file or with its key.
LEMMA AskersBegin ==
    ASSUME CallOK, CommandsTyped, NEW c \in Clients,
           \/ AuthRevoke(c)
           \/ \E l \in Labels : AuthRegister(c, l) \/ AccountSync(c, l)
           \/ \E l \in Labels, token \in Tokens : WalletFund(c, l, token)
    PROVE  Begun(c)
<1>1. LoadConfig \in Config
  BY Loaded
<1>2. {"auth_register", "auth_revoke", "wallet_fund", "account_sync"} \subseteq Names
  BY DEF Names
<1>3. CASE AuthRevoke(c)
  <2> DEFINE q == [stage |-> "revoke", key |-> LoadConfig.apiKey]
  <2>1. q.stage = "revoke"
    OBVIOUS
  <2>2. Ask(c, "auth_revoke", None, q)
    BY <1>3 DEF AuthRevoke
  <2> HIDE DEF q
  <2>3. Belongs("auth_revoke", q.stage) /\ Fits("auth_revoke", q, minted, sent)
    BY <2>1 DEF Belongs, Fits
  <2> QED
    BY <1>2, <2>1, <2>2, <2>3, AskBegins
<1>4. ASSUME NEW l \in Labels, LoadConfig.wallets[l] # None
      PROVE  LoadConfig.wallets[l] \in Pubkeys
  BY <1>1, <1>4, ConfigFields
<1>5. ASSUME NEW l \in Labels, AuthRegister(c, l)
      PROVE  Begun(c)
  <2> DEFINE w == LoadConfig.wallets[l]
             q == [stage |-> "challenge", pubkey |-> w]
  <2>1. q.stage = "challenge" /\ q.pubkey = w
    OBVIOUS
  <2>2. Ask(c, "auth_register", w, q) /\ w \in Pubkeys
    BY <1>4, <1>5 DEF AuthRegister
  <2> HIDE DEF q, w
  <2>3. Belongs("auth_register", q.stage) /\ Fits("auth_register", q, minted, sent)
    BY <2>1, <2>2 DEF Belongs, Fits
  <2> QED
    BY <1>2, <2>1, <2>2, <2>3, AskBegins
<1>6. ASSUME NEW l \in Labels, AccountSync(c, l)
      PROVE  Begun(c)
  <2> DEFINE w == LoadConfig.wallets[l]
             q == [stage |-> "guard", then |-> "account", pubkey |-> w, key |-> LoadConfig.apiKey]
  <2>1. q.stage = "guard" /\ q.then = "account"
    OBVIOUS
  <2>2. Ask(c, "account_sync", w, q) /\ w \in Pubkeys
    BY <1>4, <1>6 DEF AccountSync
  <2> HIDE DEF q, w
  <2>3. Belongs("account_sync", q.stage) /\ Fits("account_sync", q, minted, sent)
    BY <2>1 DEF Belongs, Fits
  <2> QED
    BY <1>2, <2>1, <2>2, <2>3, AskBegins
<1>7. ASSUME NEW l \in Labels, NEW token \in Tokens, WalletFund(c, l, token)
      PROVE  Begun(c)
  <2> DEFINE w == LoadConfig.wallets[l]
             q == [stage |-> "guard", then |-> "faucet", token |-> token, pubkey |-> w,
                   key |-> LoadConfig.apiKey]
  <2>1. q.stage = "guard" /\ q.then = "faucet" /\ q.token = token /\ q.pubkey = w
    OBVIOUS
  <2>2. Ask(c, "wallet_fund", w, q) /\ w \in Pubkeys
    BY <1>4, <1>7 DEF WalletFund
  <2> HIDE DEF q, w
  <2>3. FaucetKey(q) \in FaucetKeys
    BY <2>1, <2>2, SessionsAssumption DEF FaucetKey, FaucetKeys
  <2>4. Belongs("wallet_fund", q.stage) /\ Fits("wallet_fund", q, minted, sent)
    BY <2>1, <2>3 DEF Belongs, Fits
  <2> QED
    BY <1>2, <2>1, <2>2, <2>4, AskBegins
<1> QED
  BY <1>3, <1>5, <1>6, <1>7

LEMMA CommandBegins ==
    ASSUME CallOK, CommandsTyped, NEW c \in Clients, Begin(c)
    PROVE  Begun(c)
  BY InitBegins, ChatBegins, WalletCreateBegins, SetClusterBegins, AskersBegin DEF Begin

----------------------------------------------------------------------------
(* Handling a request                                                      *)

\* The handler of c moves its request on, and the command does not notice.
Served(c) ==
    /\ Alone(c) /\ cli'[c] = cli[c]
    /\ Talk(cli'[c], call'[c], minted', sent')

\* A request is of a command that waits or gave up.
LEMMA WhoAsks ==
    ASSUME Conversing, NEW c \in Clients, call[c] # None
    PROVE  /\ cli[c] # None /\ cli[c].pc \notin {"loaded", "torn"}
           /\ cli[c].name = "auth_register" => cli[c].wallet \in Pubkeys
           /\ Belongs(cli[c].name, call[c].stage) /\ Fits(cli[c].name, call[c], minted, sent)
  BY DEF Conversing, Talk

\* Which command that is follows from the stage.
LEMMA WhoseStage ==
    ASSUME NEW name, NEW stage, Belongs(name, stage)
    PROVE  /\ stage = "challenge" => name = "auth_register"
           /\ stage \in {"register", "findRow", "flushKey"} => name = "auth_signed"
           /\ stage \in {"revoke", "flushRevoke"} => name = "auth_revoke"
           /\ stage = "guard" => name \in {"wallet_fund", "account_sync"}
           /\ stage \in {"faucet", "pay", "confirm"} => name = "wallet_fund"
           /\ stage = "account" => name = "account_sync"
           /\ stage \in {"message", "model"} => name = "chat"
  BY DEF Belongs

LEMMA PassTalks ==
    ASSUME CallOK, Conversing, NEW c \in Clients, call[c] # None, NEW q, Send(c, q),
           UNCHANGED cli,
           Belongs(cli[c].name, q.stage), Fits(cli[c].name, q, minted', sent')
    PROVE  Served(c) /\ call'[c] = q
<1>1. call'[c] = q /\ \A d \in Clients : d # c => call'[d] = call[d]
  BY SendSets
<1> QED
  BY <1>1, WhoAsks DEF Served, Alone, Talk

\* An answer suits every command, if its value does.
LEMMA AnswerTalks ==
    ASSUME CallOK, Conversing, NEW c \in Clients, call[c] # None, UNCHANGED cli, NEW v,
           \/ Reply(c, v)
           \/ v = None /\ \E e : Refuse(c, e),
           cli[c].name = "auth_signed" => v \in 1..minted' \cup {None},
           cli[c].name = "account_sync" => v \in Accounts \cup {None}
    PROVE  /\ Served(c) /\ call'[c].stage = "answered" /\ call'[c].value = v
           /\ Reply(c, v) => call'[c].error = None
<1>1. PICK e : Send(c, [stage |-> "answered", error |-> e, value |-> v]) /\ (Reply(c, v) => e = None)
  <2>1. CASE Reply(c, v)
    BY <2>1 DEF Reply, Answered
  <2>2. CASE ~Reply(c, v)
    BY <2>2 DEF Refuse, Refused
  <2> QED
    BY <2>1, <2>2
<1> DEFINE q == [stage |-> "answered", error |-> e, value |-> v]
<1>2. q.stage = "answered" /\ q.value = v /\ q.error = e /\ Send(c, q)
  BY <1>1
<1> HIDE DEF q
<1>3. Belongs(cli[c].name, q.stage) /\ Fits(cli[c].name, q, minted', sent')
  BY <1>2 DEF Belongs, Fits
<1>4. Served(c) /\ call'[c] = q
  BY <1>2, <1>3, PassTalks
<1> QED
  BY <1>1, <1>2, <1>4

\* A refusal always does.
LEMMA RefusalTalks ==
    ASSUME CallOK, Conversing, NEW c \in Clients, call[c] # None, UNCHANGED cli, NEW e,
           Refuse(c, e)
    PROVE  Served(c) /\ call'[c].stage = "answered" /\ call'[c].value = None
  BY AnswerTalks

\* The key service.
LEMMA AuthTalks ==
    ASSUME CallOK, KeysInv, Conversing, NEW c \in Clients, AuthStep(c), UNCHANGED <<cli, sent>>
    PROVE  /\ Served(c) /\ call[c] # None
           /\ call[c].stage \in {"challenge", "register", "findRow", "flushKey", "revoke",
                                 "flushRevoke", "guard"}
           /\ call'[c].stage \in {"answered", "findRow", "flushKey", "flushRevoke", "faucet", "account"}
<1>1. call[c] # None /\ minted \in Nat
  BY DEF AuthStep, GenerateChallenge, VerifySignature, FindRow, FlushKey, RevokeFind,
         RevokeFlush, Guard, At, KeysInv, KeysTyped
<1>2. /\ Belongs(cli[c].name, call[c].stage) /\ Fits(cli[c].name, call[c], minted, sent)
  BY <1>1, WhoAsks
<1>3. CASE GenerateChallenge(c)
  <2>1. call[c].stage = "challenge" /\ cli[c].name = "auth_register" /\ Reply(c, nonces')
    BY <1>2, <1>3, WhoseStage DEF GenerateChallenge, At
  <2> QED
    BY <1>1, <2>1, AnswerTalks
<1>4. CASE VerifySignature(c)
  <2>1. call[c].stage = "register" /\ cli[c].name = "auth_signed" /\ call[c].pubkey \in Pubkeys
    BY <1>2, <1>4, WhoseStage DEF VerifySignature, At, Fits
  <2>2. CASE Refuse(c, "UNAUTHORIZED")
    BY <1>1, <2>1, <2>2, RefusalTalks
  <2>3. CASE minted' = minted + 1
             /\ Send(c, [stage |-> "findRow", pubkey |-> call[c].pubkey, key |-> minted'])
    <3> DEFINE q == [stage |-> "findRow", pubkey |-> call[c].pubkey, key |-> minted']
    <3>1. q.stage = "findRow" /\ q.pubkey = call[c].pubkey /\ q.key = minted' /\ Send(c, q)
      BY <2>3
    <3> HIDE DEF q
    <3>2. q.key \in 1..minted'
      BY <1>1, <2>3, <3>1
    <3>3. Belongs(cli[c].name, q.stage) /\ Fits(cli[c].name, q, minted', sent')
      BY <2>1, <3>1, <3>2 DEF Belongs, Fits
    <3> QED
      BY <1>1, <2>1, <3>1, <3>3, PassTalks
  <2> QED
    BY <1>4, <2>2, <2>3 DEF VerifySignature
<1>5. CASE FindRow(c)
  <2>1. call[c].stage = "findRow" /\ cli[c].name = "auth_signed" /\ call[c].pubkey \in Pubkeys
        /\ call[c].key \in 1..minted /\ minted' = minted
    BY <1>2, <1>5, WhoseStage DEF FindRow, At, Fits, authVars
  <2> DEFINE q == [stage |-> "flushKey", pubkey |-> call[c].pubkey, key |-> call[c].key,
                   row |-> apiKeys[call[c].pubkey]]
  <2>2. q.stage = "flushKey" /\ q.pubkey = call[c].pubkey /\ q.key = call[c].key /\ Send(c, q)
    BY <1>5 DEF FindRow
  <2> HIDE DEF q
  <2>3. Belongs(cli[c].name, q.stage) /\ Fits(cli[c].name, q, minted', sent')
    BY <2>1, <2>2 DEF Belongs, Fits
  <2> QED
    BY <1>1, <2>1, <2>2, <2>3, PassTalks
<1>6. CASE FlushKey(c)
  <2>1. call[c].stage = "flushKey" /\ cli[c].name = "auth_signed"
        /\ call[c].key \in 1..minted /\ minted' = minted
    BY <1>2, <1>6, WhoseStage DEF FlushKey, At, Fits
  <2>2. Reply(c, call[c].key) \/ Refuse(c, "UNAUTHORIZED")
    BY <1>6 DEF FlushKey
  <2> QED
    BY <1>1, <2>1, <2>2, AnswerTalks, RefusalTalks
<1>7. CASE RevokeFind(c)
  <2>1. call[c].stage = "revoke" /\ cli[c].name = "auth_revoke"
    BY <1>2, <1>7, WhoseStage DEF RevokeFind, At
  <2>2. CASE Refuse(c, "UNAUTHORIZED")
    BY <1>1, <2>1, <2>2, RefusalTalks
  <2>3. ASSUME NEW w, Send(c, [stage |-> "flushRevoke", pubkey |-> w, key |-> call[c].key])
        PROVE  Served(c) /\ call'[c].stage = "flushRevoke"
    <3> DEFINE q == [stage |-> "flushRevoke", pubkey |-> w, key |-> call[c].key]
    <3>1. q.stage = "flushRevoke" /\ Send(c, q)
      BY <2>3
    <3> HIDE DEF q
    <3>2. Belongs(cli[c].name, q.stage) /\ Fits(cli[c].name, q, minted', sent')
      BY <2>1, <3>1 DEF Belongs, Fits
    <3> QED
      BY <1>1, <3>1, <3>2, PassTalks
  <2> QED
    BY <1>1, <1>7, <2>1, <2>2, <2>3 DEF RevokeFind
<1>8. CASE RevokeFlush(c)
  <2>1. call[c].stage = "flushRevoke" /\ cli[c].name = "auth_revoke" /\ Reply(c, None)
    BY <1>2, <1>8, WhoseStage DEF RevokeFlush, At
  <2> QED
    BY <1>1, <2>1, AnswerTalks
<1>9. CASE Guard(c)
  <2>1. /\ call[c].stage = "guard" /\ cli[c].name \in {"wallet_fund", "account_sync"}
        /\ minted' = minted
        /\ call[c].then = (IF cli[c].name = "wallet_fund" THEN "faucet" ELSE "account")
        /\ cli[c].name = "wallet_fund" => FaucetKey(call[c]) \in FaucetKeys
    BY <1>2, <1>9, WhoseStage DEF Guard, At, Fits, authVars
  <2>2. CASE Refuse(c, "UNAUTHORIZED")
    BY <1>1, <2>1, <2>2, RefusalTalks
  <2>3. CASE Await(c, call[c].then, call[c])
    <3> DEFINE s == call[c].then
    <3>1. s \in {"faucet", "account"} /\ (s # "account" => {"token", "pubkey"} \subseteq DOMAIN call[c])
      BY <1>1, <2>1 DEF CallOK, Staged
    <3>2. s \in {"faucet", "account", "pay", "confirm"} /\ Await(c, s, call[c])
      BY <2>3, <3>1
    <3> HIDE DEF s
    <3>3. call'[c].stage = s /\ (s # "account" => FaucetKey(call'[c]) = FaucetKey(call[c]))
      BY <1>1, <3>1, <3>2, AwaitKeepsCalls
    <3> DEFINE q == call'[c]
    <3>4. Send(c, q)
      BY <3>2, SendSets DEF Await, Send
    <3>5. s = (IF cli[c].name = "wallet_fund" THEN "faucet" ELSE "account")
      BY <2>1 DEF s
    <3>6. Belongs(cli[c].name, q.stage) /\ Fits(cli[c].name, q, minted', sent')
      BY <2>1, <3>1, <3>3, <3>5 DEF Belongs, Fits
    <3> HIDE DEF q
    <3>7. Served(c)
      BY <1>1, <3>4, <3>6, PassTalks
    <3> QED
      BY <1>1, <2>1, <3>1, <3>3, <3>7
  <2> QED
    BY <1>9, <2>2, <2>3 DEF Guard
<1> QED
  BY <1>3, <1>4, <1>5, <1>6, <1>7, <1>8, <1>9 DEF AuthStep

\* The faucet: whose payment it is stays in the request.
LEMMA FaucetTalks ==
    ASSUME CallOK, Conversing, NEW c \in Clients, FaucetStep(c), UNCHANGED <<cli, minted, sent>>
    PROVE  /\ Served(c) /\ call[c] # None /\ call[c].stage \in {"faucet", "pay", "confirm"}
           /\ call'[c].stage \in {"answered", "pay", "confirm"}
           /\ FaucetKey(call[c]) \in FaucetKeys
<1>1. call[c] # None /\ call[c].stage \in {"faucet", "pay", "confirm"}
  BY DEF FaucetStep, CheckRateLimit, Pay, Record, At
<1>2. /\ cli[c].name = "wallet_fund" /\ FaucetKey(call[c]) \in FaucetKeys
      /\ {"token", "pubkey"} \subseteq DOMAIN call[c]
  <2>1. Belongs(cli[c].name, call[c].stage) /\ Fits(cli[c].name, call[c], minted, sent)
    BY <1>1, WhoAsks
  <2>2. cli[c].name = "wallet_fund"
    BY <1>1, <2>1, WhoseStage
  <2> QED
    BY <1>1, <2>1, <2>2 DEF Fits, CallOK, Staged
<1>3. ASSUME NEW s \in {"pay", "confirm"}, Await(c, s, call[c])
      PROVE  Served(c) /\ call'[c].stage = s
  <2>1. call'[c].stage = s /\ FaucetKey(call'[c]) = FaucetKey(call[c])
    BY <1>1, <1>2, <1>3, AwaitKeepsCalls
  <2> DEFINE q == call'[c]
  <2>2. Send(c, q)
    BY <1>3, SendSets DEF Await, Send
  <2>3. Belongs(cli[c].name, q.stage) /\ Fits(cli[c].name, q, minted', sent')
    BY <1>2, <2>1 DEF Belongs, Fits
  <2> HIDE DEF q
  <2>4. Served(c)
    BY <1>1, <2>2, <2>3, PassTalks
  <2> QED
    BY <2>1, <2>4
<1>4. ASSUME NEW x, Refuse(c, x)
      PROVE  Served(c) /\ call'[c].stage = "answered"
  BY <1>1, <1>4, RefusalTalks
<1>5. ASSUME Reply(c, None)
      PROVE  Served(c) /\ call'[c].stage = "answered"
  BY <1>1, <1>2, <1>5, AnswerTalks
<1>6. \/ Await(c, "pay", call[c]) \/ Await(c, "confirm", call[c])
      \/ Reply(c, None) \/ \E x : Refuse(c, x)
  BY DEF FaucetStep, CheckRateLimit, Pay, Record
<1> QED
  BY <1>1, <1>2, <1>3, <1>4, <1>5, <1>6

\* The account routes.
LEMMA AccountTalks ==
    ASSUME CallOK, Conversing, NEW c \in Clients, AnswerAccount(c)
    PROVE  /\ Served(c) /\ call[c] # None /\ call[c].stage = "account"
           /\ call'[c].stage = "answered"
<1>1. call[c] # None /\ call[c].stage = "account" /\ UNCHANGED <<cli, minted, sent>>
  BY DEF AnswerAccount, At, cliVars, authVars, chatVars
<1>2. cli[c].name = "account_sync"
  BY <1>1, WhoAsks, WhoseStage
<1>3. CASE Refuse(c, "ACCOUNT_NOT_FOUND")
  BY <1>1, <1>3, RefusalTalks
<1>4. ASSUME NEW a \in Accounts \cup {None}, Reply(c, a)
      PROVE  Served(c) /\ call'[c].stage = "answered"
  BY <1>1, <1>2, <1>4, AnswerTalks
<1> QED
  BY <1>1, <1>3, <1>4 DEF AnswerAccount

\* The chat.
SessionsTyped == sessions \in [Agents -> 1..sent \cup {None}] /\ sent \in 0..MaxMessages

LEMMA ChatTalks ==
    ASSUME CallOK, Conversing, SessionsTyped, NEW c \in Clients, ChatStep(c),
           UNCHANGED <<cli, minted>>
    PROVE  /\ Served(c) /\ call[c] # None /\ call[c].stage \in {"message", "model"}
           /\ call'[c].stage = (IF call[c].stage = "message" THEN "model" ELSE "answered")
           /\ sent' \in Nat /\ sent <= sent'
<1>1. call[c] # None /\ call[c].stage \in {"message", "model"} /\ sent \in Nat
  BY DEF ChatStep, SendMessage, ModelAnswers, ModelFails, At, SessionsTyped
<1>2. Belongs(cli[c].name, call[c].stage) /\ Fits(cli[c].name, call[c], minted, sent)
  BY <1>1, WhoAsks
<1>3. cli[c].name = "chat" /\ call[c].agent \in Agents
  BY <1>1, <1>2, WhoseStage DEF Fits
<1>4. CASE SendMessage(c)
  <2> DEFINE n == sent + 1
             a == call[c].agent
             o == IF sessions[a] = None THEN n ELSE sessions[a]
             h == Trim(Append(messages[o], <<"user", n>>))
             q == [stage |-> "model", agent |-> a, session |-> o, turn |-> n, prompt |-> h]
  <2>1. sent' = sent + 1 /\ Send(c, q) /\ call[c].stage = "message"
    BY <1>4 DEF SendMessage, At
  <2>2. q.stage = "model" /\ q.agent = a /\ q.session = o /\ q.turn = n
    OBVIOUS
  <2>3. n \in 1..sent' /\ \A k \in 1..sent : k \in 1..sent'
    BY <1>1, <2>1
  <2>4. o \in 1..sent'
    BY <1>3, <2>3 DEF SessionsTyped
  <2> HIDE DEF q, o, n
  <2>5. Belongs(cli[c].name, q.stage) /\ Fits(cli[c].name, q, minted', sent')
    BY <1>3, <2>2, <2>3, <2>4 DEF Belongs, Fits
  <2>6. Served(c) /\ call'[c] = q
    BY <1>1, <2>1, <2>5, PassTalks
  <2> QED
    BY <1>1, <2>1, <2>2, <2>6
<1>5. CASE ModelAnswers(c) \/ ModelFails(c)
  <2>1. call[c].stage = "model" /\ sent' = sent /\ (Reply(c, None) \/ \E x : Refuse(c, x))
    BY <1>5 DEF ModelAnswers, ModelFails, At
  <2>2. Served(c) /\ call'[c].stage = "answered"
    BY <1>1, <1>3, <2>1, AnswerTalks, RefusalTalks
  <2> QED
    BY <1>1, <2>1, <2>2
<1> QED
  BY <1>4, <1>5 DEF ChatStep

----------------------------------------------------------------------------
(* Carrying on                                                             *)

\* What a command does after it started, with no change in the services.
CarriedOn(c) ==
    /\ CommandsTyped' /\ Alone(c) /\ Talk(cli'[c], call'[c], minted', sent')
    /\ UNCHANGED <<authVars, faucetVars, chatVars, commands, generated>>
    /\ \/ call'[c] = call[c]
       \/ /\ call[c] = None \/ call[c].stage = "answered"
          /\ call'[c] = None \/ call'[c].stage \in {"register", "message"}

LEMMA CommandChanges ==
    ASSUME CommandsTyped, NEW c \in Clients, NEW m \in Command \cup {None},
           cli' = [cli EXCEPT ![c] = m],
           m # None => Wallets(m.config) \subseteq 1..generated,
           UNCHANGED <<commands, generated>>,
           faults' \in 0..MaxFaults, orderly' \in BOOLEAN,
           file' # None => file' \in Config /\ Wallets(file') \subseteq 1..generated,
           stored' \subseteq 1..generated
    PROVE  /\ CommandsTyped'
           /\ cli'[c] = m /\ \A d \in Clients : d # c => cli'[d] = cli[d]
<1>1. /\ cli' \in [Clients -> Command \cup {None}]
      /\ cli'[c] = m /\ \A d \in Clients : d # c => cli'[d] = cli[d]
  BY DEF CommandsTyped
<1>2. \A d \in Clients : cli'[d] # None => Wallets(cli'[d].config) \subseteq 1..generated
  BY <1>1 DEF CommandsTyped
<1>3. Wallets(file') = Wallets(file)'
  BY DEF Wallets
<1> QED
  BY <1>1, <1>2, <1>3 DEF CommandsTyped

\* The fields of a command that changes.
LEMMA CommandFields ==
    ASSUME NEW m \in Command
    PROVE  /\ m.config \in Config /\ m.wallet \in Pubkeys \cup {None} /\ m.name \in Names
           /\ m.pc \in {"loaded", "asked", "torn", "gone"}
           /\ \A pc \in {"loaded", "asked", "torn", "gone"} :
                  /\ [m EXCEPT !.pc = pc] \in Command /\ [m EXCEPT !.pc = pc].pc = pc
                  /\ [m EXCEPT !.pc = pc].name = m.name /\ [m EXCEPT !.pc = pc].config = m.config
                  /\ [m EXCEPT !.pc = pc].wallet = m.wallet
           /\ \A name \in Names :
                  /\ [m EXCEPT !.name = name] \in Command /\ [m EXCEPT !.name = name].name = name
                  /\ [m EXCEPT !.name = name].pc = m.pc /\ [m EXCEPT !.name = name].config = m.config
                  /\ [m EXCEPT !.name = name].wallet = m.wallet
  BY DEF Command, Names

LEMMA TornFields ==
    ASSUME NEW m \in Command, NEW config \in Config
    PROVE  LET t == [m EXCEPT !.pc = "torn", !.config = config]
           IN  /\ t \in Command /\ t.pc = "torn" /\ t.name = m.name
               /\ t.config = config /\ t.wallet = m.wallet
  BY DEF Command

\* The answer changes one field, and no wallet.
LEMMA EditedTyped ==
    ASSUME NEW m \in Command, NEW value,
           \/ m.name = "auth_signed" /\ value \in 1..(MaxCommands + 1) \cup {None}
           \/ m.name = "auth_revoke"
           \/ m.name = "account_sync" /\ value \in Accounts \cup {None}
    PROVE  /\ Edited(m, value) \in Config
           /\ Wallets(Edited(m, value)) = Wallets(m.config)
           /\ Edited(m, value).apiKey = CASE m.name = "auth_signed" -> value
                                          [] m.name = "auth_revoke" -> None
                                          [] m.name = "account_sync" -> m.config.apiKey
<1> DEFINE n == Edited(m, value)
<1>1. m.config \in Config
  BY CommandFields
<1>2. CASE m.name = "auth_signed" /\ value \in 1..(MaxCommands + 1) \cup {None}
  <2>1. n = [m.config EXCEPT !.apiKey = value]
    BY <1>2 DEF Edited
  <2>2. n \in Config /\ n.wallets = m.config.wallets /\ n.apiKey = value
    BY <1>1, <1>2, <2>1 DEF Config
  <2> HIDE DEF n
  <2>3. Wallets(n) = Wallets(m.config)
    BY <2>2 DEF Wallets
  <2> QED
    BY <1>2, <2>2, <2>3 DEF n
<1>3. CASE m.name = "auth_revoke"
  <2>1. n = [m.config EXCEPT !.apiKey = None]
    BY <1>3 DEF Edited
  <2>2. n \in Config /\ n.wallets = m.config.wallets /\ n.apiKey = None
    BY <1>1, <1>3, <2>1 DEF Config
  <2> HIDE DEF n
  <2>3. Wallets(n) = Wallets(m.config)
    BY <2>2 DEF Wallets
  <2> QED
    BY <1>3, <2>2, <2>3 DEF n
<1>4. CASE m.name = "account_sync" /\ value \in Accounts \cup {None}
  <2>1. n = [m.config EXCEPT !.account = value]
    BY <1>4 DEF Edited
  <2>2. n \in Config /\ n.wallets = m.config.wallets /\ n.apiKey = m.config.apiKey
    BY <1>1, <1>4, <2>1 DEF Config
  <2> HIDE DEF n
  <2>3. Wallets(n) = Wallets(m.config)
    BY <2>2 DEF Wallets
  <2> QED
    BY <1>4, <2>2, <2>3 DEF n
<1> QED
  BY <1>2, <1>3, <1>4

\* The keys in circulation have numbers that a configuration may hold.
MintedBound == minted \in Nat /\ minted <= MaxCommands + 1

LEMMA EndCarriesOn ==
    ASSUME CallOK, CommandsTyped, NEW c \in Clients,
           cli' = [cli EXCEPT ![c] = None], Send(c, None),
           UNCHANGED <<authVars, faucetVars, chatVars, commands, generated, file, stored>>,
           faults' \in 0..MaxFaults, orderly' \in BOOLEAN,
           call[c] = None \/ call[c].stage = "answered"
    PROVE  CarriedOn(c)
<1>1. /\ CommandsTyped'
      /\ cli'[c] = None /\ \A d \in Clients : d # c => cli'[d] = cli[d]
  BY CommandChanges DEF CommandsTyped
<1>2. call'[c] = None /\ \A d \in Clients : d # c => call'[d] = call[d]
  BY SendSets
<1> QED
  BY <1>1, <1>2 DEF CarriedOn, Alone, Talk

LEMMA SignCarriesOn ==
    ASSUME CallOK, CommandsTyped, Conversing, NEW c \in Clients, SignChallenge(c)
    PROVE  CarriedOn(c) /\ call'[c].stage = "register"
<1> DEFINE w == cli[c].wallet
           m == [cli[c] EXCEPT !.name = "auth_signed"]
           q == [stage |-> "register", pubkey |-> w, signature |-> <<w, call[c].value>>]
<1>1. /\ call[c] # None /\ call[c].stage = "answered" /\ cli[c].name = "auth_register"
      /\ cli[c] # None /\ cli[c].pc = "asked"
      /\ UNCHANGED <<authVars, faucetVars, chatVars, file, commands, faults, generated, stored, orderly>>
  BY DEF SignChallenge, CliAt, At
<1>2. cli[c] \in Command /\ Wallets(cli[c].config) \subseteq 1..generated
  BY <1>1 DEF CommandsTyped
<1>3. m \in Command /\ m.name = "auth_signed" /\ m.pc = "asked" /\ m.config = cli[c].config
  BY <1>1, <1>2, CommandFields DEF Names
<1>4. cli' = [cli EXCEPT ![c] = m]
  BY <1>2 DEF SignChallenge, CommandsTyped
<1>5. q.stage = "register" /\ q.pubkey = w /\ Send(c, q)
  BY DEF SignChallenge
<1>6. w \in Pubkeys
  BY <1>1, WhoAsks
<1> HIDE DEF w, m, q
<1>7. /\ CommandsTyped' /\ cli'[c] = m /\ \A d \in Clients : d # c => cli'[d] = cli[d]
  BY <1>1, <1>2, <1>3, <1>4, CommandChanges DEF CommandsTyped
<1>8. call'[c] = q /\ \A d \in Clients : d # c => call'[d] = call[d]
  BY <1>5, SendSets
<1>9. Belongs(m.name, q.stage) /\ Fits(m.name, q, minted', sent')
  BY <1>3, <1>5, <1>6 DEF Belongs, Fits
<1>10. m # None
  BY <1>3, NothingAssumption
<1>11. Talk(cli'[c], call'[c], minted', sent')
  BY <1>3, <1>7, <1>8, <1>9, <1>10 DEF Talk
<1> QED
  BY <1>1, <1>5, <1>7, <1>8, <1>11 DEF CarriedOn, Alone

LEMMA SaveEditedCarriesOn ==
    ASSUME CallOK, CommandsTyped, Conversing, NEW c \in Clients, SaveEdited(c)
    PROVE  CarriedOn(c)
           /\ cli'[c].pc = "torn" /\ cli'[c].config = cli[c].config /\ cli'[c] # None
<1> DEFINE m == [cli[c] EXCEPT !.pc = "torn", !.config = cli[c].config]
<1>1. /\ cli[c] # None /\ cli[c].pc = "loaded" /\ call' = call /\ file' = None
      /\ UNCHANGED <<authVars, faucetVars, chatVars, commands, faults, generated, stored, orderly>>
  BY DEF SaveEdited, EmptyFile, CliAt
<1>2. cli[c] \in Command /\ Wallets(cli[c].config) \subseteq 1..generated
  BY <1>1 DEF CommandsTyped
<1>3. m \in Command /\ m.name = cli[c].name /\ m.pc = "torn" /\ m.config = cli[c].config
      /\ m.wallet = cli[c].wallet
  <2>1. cli[c].config \in Config
    BY <1>2, CommandFields
  <2> QED
    BY <1>2, <2>1, TornFields
<1>4. cli' = [cli EXCEPT ![c] = m]
  BY <1>2 DEF SaveEdited, EmptyFile, CommandsTyped
<1> HIDE DEF m
<1>5. /\ CommandsTyped' /\ cli'[c] = m /\ \A d \in Clients : d # c => cli'[d] = cli[d]
  BY <1>1, <1>2, <1>3, <1>4, CommandChanges DEF CommandsTyped
<1>6. m # None
  BY <1>3, NothingAssumption
<1>7. Talk(cli[c], call[c], minted, sent)
  BY DEF Conversing
<1>8. Talk(cli'[c], call'[c], minted', sent')
  BY <1>1, <1>3, <1>5, <1>6, <1>7 DEF Talk
<1> QED
  BY <1>1, <1>3, <1>5, <1>6, <1>8 DEF CarriedOn, Alone

LEMMA SaveAnswerCarriesOn ==
    ASSUME CallOK, CommandsTyped, Conversing, MintedBound, NEW c \in Clients, SaveAnswer(c)
    PROVE  /\ CarriedOn(c) /\ cli'[c].pc = "torn" /\ cli'[c] # None
           /\ Wallets(cli'[c].config) = Wallets(cli[c].config)
           /\ cli'[c].config.apiKey = CASE cli[c].name = "auth_signed" -> call[c].value
                                        [] cli[c].name = "auth_revoke" -> None
                                        [] cli[c].name = "account_sync" -> cli[c].config.apiKey
           /\ cli[c].name \in {"auth_signed", "auth_revoke", "account_sync"}
<1> DEFINE config == Edited(cli[c], call[c].value)
           m == [cli[c] EXCEPT !.pc = "torn", !.config = config]
<1>1. /\ call[c] # None /\ call[c].stage = "answered"
      /\ cli[c] # None /\ cli[c].pc = "asked" /\ file' = None
      /\ cli[c].name \in {"auth_signed", "auth_revoke", "account_sync"}
      /\ Send(c, None)
      /\ UNCHANGED <<authVars, faucetVars, chatVars, commands, faults, generated, stored, orderly>>
  BY DEF SaveAnswer, EmptyFile, CliAt, At
<1>2. cli[c] \in Command /\ Wallets(cli[c].config) \subseteq 1..generated
  BY <1>1 DEF CommandsTyped
<1>3. Fits(cli[c].name, call[c], minted, sent)
  BY <1>1, WhoAsks
<1>4. \A k \in 1..minted : k \in 1..(MaxCommands + 1)
  BY SessionsAssumption DEF MintedBound
<1>5. /\ config \in Config /\ Wallets(config) = Wallets(cli[c].config)
      /\ config.apiKey = CASE cli[c].name = "auth_signed" -> call[c].value
                           [] cli[c].name = "auth_revoke" -> None
                           [] cli[c].name = "account_sync" -> cli[c].config.apiKey
  <2>1. \/ cli[c].name = "auth_signed" /\ call[c].value \in 1..(MaxCommands + 1) \cup {None}
        \/ cli[c].name = "auth_revoke"
        \/ cli[c].name = "account_sync" /\ call[c].value \in Accounts \cup {None}
    BY <1>1, <1>3, <1>4 DEF Fits
  <2> QED
    BY <1>2, <2>1, EditedTyped
<1>6. cli' = [cli EXCEPT ![c] = [cli[c] EXCEPT !.pc = "torn", !.config = config]]
  BY <1>2 DEF SaveAnswer, EmptyFile, CommandsTyped
<1> HIDE DEF config
<1>7. m \in Command /\ m.name = cli[c].name /\ m.pc = "torn" /\ m.config = config
      /\ m.wallet = cli[c].wallet
  BY <1>2, <1>5, TornFields
<1>8. cli' = [cli EXCEPT ![c] = m]
  BY <1>6
<1> HIDE DEF m
<1>9. /\ CommandsTyped' /\ cli'[c] = m /\ \A d \in Clients : d # c => cli'[d] = cli[d]
  BY <1>1, <1>2, <1>5, <1>7, <1>8, CommandChanges DEF CommandsTyped
<1>10. call'[c] = None /\ \A d \in Clients : d # c => call'[d] = call[d]
  BY <1>1, SendSets
<1>11. m # None
  BY <1>7, NothingAssumption
<1>12. Talk(cli'[c], call'[c], minted', sent')
  BY <1>1, <1>7, <1>9, <1>10, <1>11 DEF Talk
<1>13. CarriedOn(c)
  BY <1>1, <1>9, <1>10, <1>12 DEF CarriedOn, Alone
<1> QED
  BY <1>1, <1>5, <1>7, <1>9, <1>11, <1>13

LEMMA WriteCarriesOn ==
    ASSUME CallOK, CommandsTyped, Conversing, NEW c \in Clients, WriteFile(c)
    PROVE  /\ CarriedOn(c)
           /\ \/ cli'[c] = None
              \/ /\ cli'[c].pc = "asked" /\ cli'[c].config = cli[c].config
                 /\ call'[c].stage = "message"
<1> DEFINE m == [cli[c] EXCEPT !.pc = "asked"]
           q == [stage |-> "message", agent |-> cli[c].config.agentId]
<1>1. /\ cli[c] # None /\ cli[c].pc = "torn"
      /\ file' = cli[c].config /\ stored' = stored \cup Wallets(cli[c].config)
      /\ UNCHANGED <<authVars, faucetVars, chatVars, commands, faults, generated, orderly>>
  BY DEF WriteFile, CliAt, End
<1>2. cli[c] \in Command /\ Wallets(cli[c].config) \subseteq 1..generated
      /\ cli[c].config \in Config
  <2>1. cli[c] \in Command /\ Wallets(cli[c].config) \subseteq 1..generated
    BY <1>1 DEF CommandsTyped
  <2> QED
    BY <2>1, CommandFields
<1>3. call[c] = None /\ (cli[c].name = "chat" => cli[c].config.agentId \in Agents)
      /\ (cli[c].name = "auth_register" => cli[c].wallet \in Pubkeys)
  BY <1>1 DEF Conversing, Talk
<1>4. stored' \subseteq 1..generated /\ file' \in Config /\ Wallets(file') \subseteq 1..generated
  BY <1>1, <1>2 DEF CommandsTyped
<1>5. CASE cli[c].name # "chat" /\ End(c) /\ UNCHANGED call
  <2>1. cli' = [cli EXCEPT ![c] = None]
    BY <1>5 DEF End
  <2>2. CommandsTyped' /\ cli'[c] = None /\ \A d \in Clients : d # c => cli'[d] = cli[d]
    BY <1>1, <1>4, <2>1, CommandChanges DEF CommandsTyped
  <2> QED
    BY <1>1, <1>3, <1>5, <2>2 DEF CarriedOn, Alone, Talk
<1>6. CASE /\ cli[c].name = "chat"
           /\ cli' = [cli EXCEPT ![c].pc = "asked"]
           /\ Send(c, [stage |-> "message", agent |-> cli[c].config.agentId])
  <2>1. m \in Command /\ m.name = "chat" /\ m.pc = "asked" /\ m.config = cli[c].config
    BY <1>2, <1>6, CommandFields
  <2>2. cli' = [cli EXCEPT ![c] = m]
    BY <1>2, <1>6 DEF CommandsTyped
  <2>3. q.stage = "message" /\ q.agent = cli[c].config.agentId /\ Send(c, q)
    BY <1>6
  <2> HIDE DEF m, q
  <2>4. CommandsTyped' /\ cli'[c] = m /\ \A d \in Clients : d # c => cli'[d] = cli[d]
    BY <1>1, <1>2, <1>4, <2>1, <2>2, CommandChanges DEF CommandsTyped
  <2>5. call'[c] = q /\ \A d \in Clients : d # c => call'[d] = call[d]
    BY <2>3, SendSets
  <2>6. Belongs(m.name, q.stage) /\ Fits(m.name, q, minted', sent')
    BY <1>3, <1>6, <2>1, <2>3 DEF Belongs, Fits
  <2>7. m # None
    BY <2>1, NothingAssumption
  <2>8. Talk(cli'[c], call'[c], minted', sent')
    BY <2>1, <2>4, <2>5, <2>6, <2>7 DEF Talk
  <2> QED
    BY <1>1, <1>3, <2>1, <2>3, <2>4, <2>5, <2>8 DEF CarriedOn, Alone
<1> QED
  BY <1>5, <1>6 DEF WriteFile

LEMMA CrashCarriesOn ==
    ASSUME CallOK, CommandsTyped, Conversing, NEW c \in Clients, Crash(c)
    PROVE  CarriedOn(c)
<1> DEFINE m == [cli[c] EXCEPT !.pc = "gone"]
<1>1. /\ cli[c] # None /\ faults' = faults + 1 /\ faults < MaxFaults /\ orderly' = FALSE
      /\ UNCHANGED <<authVars, faucetVars, chatVars, file, commands, generated, stored>>
  BY DEF Crash, Fault
<1>2. cli[c] \in Command /\ Wallets(cli[c].config) \subseteq 1..generated
      /\ faults' \in 0..MaxFaults
  BY <1>1, SessionsAssumption DEF CommandsTyped
<1>3. CASE /\ Handling(c)
           /\ cli' = [cli EXCEPT ![c].pc = "gone"]
           /\ UNCHANGED call
  <2>1. m \in Command /\ m.name = cli[c].name /\ m.pc = "gone" /\ m.config = cli[c].config
        /\ m.wallet = cli[c].wallet
    BY <1>2, CommandFields
  <2>2. cli' = [cli EXCEPT ![c] = m]
    BY <1>2, <1>3 DEF CommandsTyped
  <2> HIDE DEF m
  <2>3. CommandsTyped' /\ cli'[c] = m /\ \A d \in Clients : d # c => cli'[d] = cli[d]
    BY <1>1, <1>2, <2>1, <2>2, CommandChanges DEF CommandsTyped
  <2>4. m # None /\ Talk(cli[c], call[c], minted, sent)
    BY <2>1, NothingAssumption DEF Conversing
  <2>5. minted' = minted /\ sent' = sent
    BY <1>1 DEF authVars, chatVars
  <2>6. Talk(cli'[c], call'[c], minted', sent')
    BY <1>1, <1>3, <2>1, <2>3, <2>4, <2>5 DEF Talk
  <2> QED
    BY <1>1, <1>3, <2>3, <2>6 DEF CarriedOn, Alone
<1>4. CASE ~Handling(c) /\ cli' = [cli EXCEPT ![c] = None] /\ Send(c, None)
  BY <1>1, <1>2, <1>4, EndCarriesOn DEF Handling, At
<1> QED
  BY <1>3, <1>4 DEF Crash

LEMMA CommandCarriesOn ==
    ASSUME CallOK, CommandsTyped, Conversing, MintedBound, NEW c \in Clients,
           \/ Finish(c) \/ SignChallenge(c) \/ SaveEdited(c) \/ SaveAnswer(c)
           \/ WriteFile(c) \/ Crash(c) \/ DropAnswer(c)
    PROVE  CarriedOn(c)
<1>1. CASE Finish(c) \/ DropAnswer(c)
  <2>1. /\ cli' = [cli EXCEPT ![c] = None] /\ Send(c, None)
        /\ UNCHANGED <<authVars, faucetVars, chatVars, commands, generated, file, stored>>
        /\ faults' = faults /\ orderly' = orderly
        /\ call[c] = None \/ call[c].stage = "answered"
    BY <1>1 DEF Finish, DropAnswer, End, At
  <2> QED
    BY <2>1, EndCarriesOn DEF CommandsTyped
<1> QED
  BY <1>1, SignCarriesOn, SaveEditedCarriesOn, SaveAnswerCarriesOn, WriteCarriesOn, CrashCarriesOn

\* A restart answers requests with an error.
LEMMA RestartTalks ==
    ASSUME CallOK, CommandsTyped, Conversing, Restart
    PROVE  /\ CommandsTyped' /\ Conversing' /\ cli' = cli /\ commands' = commands
           /\ \A c \in Clients : call'[c] = call[c] \/ call'[c].stage = "answered"
           /\ \A c \in Clients : call'[c] # None => call'[c].stage \notin {"model", "challenge"}
           /\ UNCHANGED <<apiKeys, nonces, minted, revokedKeys, paid, messages, sent, undisturbed>>
<1>1. /\ cli' = cli /\ faults' = faults + 1 /\ faults < MaxFaults /\ orderly' = FALSE
      /\ UNCHANGED <<file, commands, generated, stored>>
      /\ UNCHANGED <<apiKeys, nonces, minted, revokedKeys, paid, messages, sent, undisturbed>>
  BY DEF Restart, Fault, AuthRestart, FaucetRestart, ChatRestart
<1>2. CommandsTyped'
  <2>1. faults' \in 0..MaxFaults /\ Wallets(file)' = Wallets(file)
    BY <1>1, SessionsAssumption DEF CommandsTyped, Wallets
  <2> QED
    BY <1>1, <2>1 DEF CommandsTyped
<1> DEFINE q == Refused("NETWORK_ERROR")
<1>3. q.stage = "answered" /\ q.value = None
  BY DEF Refused
<1> HIDE DEF q
<1>4. \A c \in Clients : call'[c] = (IF Handling(c) THEN q ELSE call[c])
  BY DEF Restart, q
<1>5. ASSUME NEW c \in Clients
      PROVE  Talk(cli'[c], call'[c], minted', sent')
  <2>1. Talk(cli[c], call[c], minted, sent)
    BY DEF Conversing
  <2>2. ASSUME NEW name, NEW k, NEW s
        PROVE  Belongs(name, q.stage) /\ Fits(name, q, k, s)
    BY <1>3 DEF Belongs, Fits
  <2>3. CASE Handling(c)
    BY <1>1, <1>4, <2>1, <2>2, <2>3 DEF Talk, Handling
  <2>4. CASE ~Handling(c)
    BY <1>1, <1>4, <2>1, <2>4
  <2> QED
    BY <2>3, <2>4
<1>6. \A c \in Clients : /\ call'[c] = call[c] \/ call'[c].stage = "answered"
                         /\ call'[c] # None => call'[c].stage \notin {"model", "challenge"}
  BY <1>3, <1>4 DEF Handling, At
<1> QED
  BY <1>1, <1>2, <1>5, <1>6 DEF Conversing

----------------------------------------------------------------------------
(* Keys are counted                                                        *)

\* One element adds one at most.
LEMMA AddOne ==
    ASSUME NEW S, IsFiniteSet(S), NEW x
    PROVE  /\ IsFiniteSet(S \cup {x}) /\ Cardinality(S \cup {x}) <= Cardinality(S) + 1
           /\ Cardinality(S \cup {x}) \in Nat
<1>1. Cardinality(S) \in Nat
  BY FS_CardinalityType
<1>2. IsFiniteSet(S \cup {x})
      /\ (Cardinality(S \cup {x}) = Cardinality(S) \/ Cardinality(S \cup {x}) = Cardinality(S) + 1)
  BY FS_AddElement
<1> QED
  BY <1>1, <1>2

\* Steps that leave the challenges alone.
LEMMA CountFrame ==
    ASSUME KeysCounted, UNCHANGED <<challenges, nonces, minted>>,
           commands \in Nat, commands' \in Nat, NEW n \in {0, 1}, commands' = commands + n,
           \/ Challengers' \subseteq Challengers
           \/ n = 1 /\ \E c \in Clients : Challengers' \subseteq Challengers \cup {c}
    PROVE  KeysCounted'
<1>1. Challenged' = Challenged
  BY DEF Challenged
<1>2. Challengers \subseteq Clients /\ Challengers' \subseteq Clients
  BY DEF Challengers
<1>3. IsFiniteSet(Challengers) /\ Cardinality(Challengers) \in Nat
      /\ Cardinality(Challengers') \in Nat
  BY <1>2, FiniteSets
<1>4. Cardinality(Challengers') <= Cardinality(Challengers) + n
  <2>1. CASE Challengers' \subseteq Challengers
    <3>1. Cardinality(Challengers') <= Cardinality(Challengers)
      BY <1>3, <2>1, FS_Subset
    <3> QED
      BY <1>3, <3>1
  <2>2. ASSUME n = 1, NEW c \in Clients, Challengers' \subseteq Challengers \cup {c}
        PROVE  Cardinality(Challengers') <= Cardinality(Challengers) + n
    <3>1. IsFiniteSet(Challengers \cup {c})
          /\ Cardinality(Challengers \cup {c}) <= Cardinality(Challengers) + 1
          /\ Cardinality(Challengers \cup {c}) \in Nat
      BY <1>3, AddOne
    <3>2. Cardinality(Challengers') <= Cardinality(Challengers \cup {c})
      BY <2>2, <3>1, FS_Subset
    <3> QED
      BY <1>3, <2>2, <3>1, <3>2
  <2> QED
    BY <2>1, <2>2
<1>5. nonces' + Cardinality(Challengers') <= commands' + 1
  BY <1>3, <1>4 DEF KeysCounted
<1> QED
  BY <1>1, <1>5 DEF KeysCounted

\* A nonce more is one challenger less.
LEMMA ChallengeCounts ==
    ASSUME CallOK, KeysCounted, commands \in Nat, commands' = commands, NEW c \in Clients,
           call[c] # None => call[c].pubkey \in Pubkeys,
           GenerateChallenge(c)
    PROVE  KeysCounted'
<1> DEFINE w == call[c].pubkey
<1>1. /\ c \in Challengers /\ w \in Pubkeys /\ nonces' = nonces + 1 /\ minted' = minted
      /\ challenges' = [challenges EXCEPT ![w] = nonces']
  BY DEF GenerateChallenge, Challengers, At
<1>2. /\ Challengers \subseteq Clients /\ Challenged \subseteq Pubkeys
      /\ IsFiniteSet(Challengers) /\ Cardinality(Challengers) \in Nat
      /\ IsFiniteSet(Challenged) /\ Cardinality(Challenged) \in Nat
  BY FiniteSets DEF Challengers, Challenged
<1>3. Challengers' \subseteq Challengers \ {c}
  <2> DEFINE q == Answered(nonces')
  <2>1. Send(c, q) /\ q.stage = "answered"
    BY DEF GenerateChallenge, Reply, Answered
  <2> HIDE DEF q
  <2>2. call'[c] = q /\ \A d \in Clients : d # c => call'[d] = call[d]
    BY <2>1, SendSets
  <2> QED
    BY <2>1, <2>2 DEF Challengers, At
<1>4. IsFiniteSet(Challengers \ {c}) /\ Cardinality(Challengers \ {c}) = Cardinality(Challengers) - 1
  BY <1>1, <1>2, FS_RemoveElement
<1>5. Cardinality(Challengers') <= Cardinality(Challengers) - 1 /\ Cardinality(Challengers') \in Nat
  BY <1>3, <1>4, FS_Subset, FS_CardinalityType
<1> HIDE DEF w
<1>6. Challenged' \subseteq Challenged \cup {w}
  BY <1>1 DEF Challenged, KeysCounted
<1>7. IsFiniteSet(Challenged \cup {w}) /\ Cardinality(Challenged \cup {w}) <= Cardinality(Challenged) + 1
      /\ Cardinality(Challenged \cup {w}) \in Nat
  BY <1>2, AddOne
<1>8. Cardinality(Challenged') <= Cardinality(Challenged \cup {w}) /\ Cardinality(Challenged') \in Nat
  BY <1>6, <1>7, FS_Subset, FS_CardinalityType
<1>9. nonces' + Cardinality(Challengers') <= commands' + 1
  BY <1>1, <1>2, <1>5 DEF KeysCounted
<1>10. minted' + Cardinality(Challenged') <= nonces'
  BY <1>1, <1>2, <1>7, <1>8 DEF KeysCounted
<1>11. challenges' \in [Pubkeys -> 1..nonces' \cup {None}]
  <2>1. \A k \in 1..nonces : k \in 1..nonces'
    BY <1>1 DEF KeysCounted
  <2>2. nonces' \in 1..nonces'
    BY <1>1 DEF KeysCounted
  <2> QED
    BY <1>1, <2>1, <2>2 DEF KeysCounted
<1> QED
  BY <1>1, <1>9, <1>10, <1>11 DEF KeysCounted

\* A challenge is used up before a key is made for it.
LEMMA VerifyCounts ==
    ASSUME CallOK, KeysCounted, commands \in Nat, commands' = commands, NEW c \in Clients,
           call[c] # None => call[c].pubkey \in Pubkeys,
           VerifySignature(c), Challengers' \subseteq Challengers
    PROVE  KeysCounted'
<1> DEFINE w == call[c].pubkey
<1>1. w \in Pubkeys /\ nonces' = nonces
  BY DEF VerifySignature, At
<1>2. CASE UNCHANGED <<challenges, minted>>
  <2>1. commands' = commands + 0
    OBVIOUS
  <2> QED
    BY <1>1, <1>2, <2>1, CountFrame
<1>3. CASE /\ challenges[w] # None
           /\ challenges' = [challenges EXCEPT ![w] = None]
           /\ minted' = minted \/ minted' = minted + 1
  <2>1. /\ Challengers \subseteq Clients /\ Challenged \subseteq Pubkeys
        /\ IsFiniteSet(Challengers) /\ Cardinality(Challengers) \in Nat
        /\ IsFiniteSet(Challenged) /\ Cardinality(Challenged) \in Nat
    BY FiniteSets DEF Challengers, Challenged
  <2> HIDE DEF w
  <2>2. Challenged' \subseteq Challenged \ {w} /\ w \in Challenged
    BY <1>1, <1>3 DEF Challenged, KeysCounted
  <2>3. IsFiniteSet(Challenged \ {w}) /\ Cardinality(Challenged \ {w}) = Cardinality(Challenged) - 1
    BY <2>1, <2>2, FS_RemoveElement
  <2>4. Cardinality(Challenged') <= Cardinality(Challenged) - 1 /\ Cardinality(Challenged') \in Nat
    BY <2>2, <2>3, FS_Subset, FS_CardinalityType
  <2>5. minted' \in Nat /\ minted' + Cardinality(Challenged') <= nonces'
    BY <1>1, <1>3, <2>1, <2>4 DEF KeysCounted
  <2>6. Cardinality(Challengers') <= Cardinality(Challengers) /\ Cardinality(Challengers') \in Nat
    BY <2>1, FS_Subset, FS_CardinalityType
  <2>7. nonces' + Cardinality(Challengers') <= commands' + 1
    BY <1>1, <2>1, <2>6 DEF KeysCounted
  <2>8. challenges' \in [Pubkeys -> 1..nonces' \cup {None}]
    BY <1>1, <1>3 DEF KeysCounted
  <2> QED
    BY <1>1, <2>5, <2>7, <2>8 DEF KeysCounted
<1> QED
  BY <1>2, <1>3 DEF VerifySignature

\* Challenges that expire, or are forgotten, only make room.
LEMMA ExpiryCounts ==
    ASSUME KeysCounted, commands \in Nat, commands' = commands, UNCHANGED <<nonces, minted>>,
           Challengers' \subseteq Challengers,
           challenges' \in [Pubkeys -> 1..nonces \cup {None}],
           \A w \in Pubkeys : challenges'[w] \in {challenges[w], None}
    PROVE  KeysCounted'
<1>1. /\ Challengers \subseteq Clients /\ Challenged \subseteq Pubkeys /\ Challenged' \subseteq Challenged
      /\ IsFiniteSet(Challengers) /\ Cardinality(Challengers) \in Nat
      /\ IsFiniteSet(Challenged) /\ Cardinality(Challenged) \in Nat
  BY FiniteSets DEF Challengers, Challenged
<1>2. /\ Cardinality(Challenged') <= Cardinality(Challenged) /\ Cardinality(Challenged') \in Nat
      /\ Cardinality(Challengers') <= Cardinality(Challengers) /\ Cardinality(Challengers') \in Nat
  BY <1>1, FS_Subset, FS_CardinalityType
<1>3. /\ nonces' + Cardinality(Challengers') <= commands' + 1
      /\ minted' + Cardinality(Challenged') <= nonces'
  BY <1>1, <1>2 DEF KeysCounted
<1> QED
  BY <1>3 DEF KeysCounted

----------------------------------------------------------------------------
(* Every step                                                              *)

FaucetTyped ==
    /\ cooling \subseteq FaucetKeys
    /\ paid \in [FaucetKeys -> Nat]
    /\ racing \in [FaucetKeys -> (SUBSET Clients) \cup {None}]

Shape == CommandsTyped /\ Conversing /\ KeysCounted /\ SessionsTyped /\ FaucetTyped

\* What follows from the counts.
LEMMA Bounds ==
    ASSUME KeysInv, CommandsTyped, KeysCounted, SessionsTyped
    PROVE  /\ MintedBound /\ minted <= nonces /\ commands \in Nat /\ sent \in Nat
           /\ Challengers \subseteq Clients
<1>1. /\ Challengers \subseteq Clients /\ Challenged \subseteq Pubkeys
      /\ Cardinality(Challengers) \in Nat /\ Cardinality(Challenged) \in Nat
  BY FiniteSets DEF Challengers, Challenged
<1>2. commands \in Nat /\ sent \in Nat /\ commands <= MaxCommands /\ MaxCommands \in Nat
  BY SessionsAssumption DEF CommandsTyped, SessionsTyped
<1>3. minted <= nonces
  BY <1>1 DEF KeysCounted
<1>4. nonces <= MaxCommands + 1
  BY <1>1, <1>2 DEF KeysCounted
<1> QED
  BY <1>1, <1>2, <1>3, <1>4 DEF MintedBound, KeysCounted

\* The file and the commands do not notice the server.
LEMMA ServedKeeps ==
    ASSUME KeysInv, CommandsTyped, Conversing, KeysCounted, SessionsTyped, NEW c \in Clients,
           Served(c), UNCHANGED cliVars,
           minted' \in Nat, minted <= minted', sent' \in Nat, sent <= sent'
    PROVE  CommandsTyped' /\ Conversing'
<1>1. CommandsTyped'
  BY DEF CommandsTyped, cliVars, Wallets
<1>2. minted \in Nat /\ sent \in Nat
  BY Bounds DEF MintedBound
<1> QED
  BY <1>1, <1>2, TalkFrame DEF Served

\* Who asks for a challenge after a step of c.
LEMMA ChallengersAfter ==
    ASSUME NEW c \in Clients, Alone(c)
    PROVE  /\ Challengers' \subseteq Challengers \cup {c}
           /\ call'[c] = call[c] \/ call'[c] = None \/ call'[c].stage # "challenge"
                  => Challengers' \subseteq Challengers
  BY DEF Alone, Challengers, At

LEMMA BeginKeepsShape ==
    ASSUME CallOK, KeysInv, Shape, NEW c \in Clients, Begin(c)
    PROVE  Shape'
<1>1. Begun(c)
  BY CommandBegins DEF Shape
<1>2. UNCHANGED <<authVars, faucetVars, chatVars>> /\ commands' = commands + 1 /\ CommandsTyped'
      /\ Alone(c) /\ Talk(cli'[c], call'[c], minted', sent')
  BY <1>1 DEF Begun
<1>3. minted \in Nat /\ sent \in Nat /\ commands \in Nat
  BY Bounds DEF MintedBound, Shape
<1>4. minted' = minted /\ sent' = sent /\ challenges' = challenges /\ nonces' = nonces
      /\ sessions' = sessions /\ cooling' = cooling /\ paid' = paid /\ racing' = racing
  BY <1>2 DEF authVars, chatVars, faucetVars
<1>5. Conversing'
  BY <1>2, <1>3, <1>4, TalkFrame DEF Shape
<1>6. KeysCounted'
  <2>1. Challengers' \subseteq Challengers \cup {c}
    BY <1>2, ChallengersAfter
  <2>2. commands' \in Nat /\ 1 \in {0, 1}
    BY <1>2, <1>3
  <2> QED
    BY <1>2, <1>3, <1>4, <2>1, <2>2, CountFrame DEF Shape
<1>7. SessionsTyped' /\ FaucetTyped'
  BY <1>4 DEF Shape, SessionsTyped, FaucetTyped
<1> QED
  BY <1>2, <1>5, <1>6, <1>7 DEF Shape

LEMMA CarryKeepsShape ==
    ASSUME CallOK, KeysInv, Shape, NEW c \in Clients,
           \/ Finish(c) \/ SignChallenge(c) \/ SaveEdited(c) \/ SaveAnswer(c)
           \/ WriteFile(c) \/ Crash(c) \/ DropAnswer(c)
    PROVE  Shape'
<1>1. minted \in Nat /\ sent \in Nat /\ commands \in Nat /\ MintedBound
  BY Bounds DEF MintedBound, Shape
<1>2. CarriedOn(c)
  BY <1>1, CommandCarriesOn DEF Shape
<1>3. /\ UNCHANGED <<authVars, faucetVars, chatVars>> /\ commands' = commands /\ CommandsTyped'
      /\ Alone(c) /\ Talk(cli'[c], call'[c], minted', sent')
      /\ call'[c] = call[c] \/ call'[c] = None \/ call'[c].stage # "challenge"
  BY <1>2 DEF CarriedOn
<1>4. minted' = minted /\ sent' = sent /\ challenges' = challenges /\ nonces' = nonces
      /\ sessions' = sessions /\ cooling' = cooling /\ paid' = paid /\ racing' = racing
  BY <1>3 DEF authVars, chatVars, faucetVars
<1>5. Conversing'
  BY <1>1, <1>3, <1>4, TalkFrame DEF Shape
<1>6. KeysCounted'
  <2>1. Challengers' \subseteq Challengers
    BY <1>3, ChallengersAfter
  <2>2. commands' \in Nat /\ 0 \in {0, 1} /\ commands' = commands + 0
    BY <1>1, <1>3
  <2> QED
    BY <1>1, <1>4, <2>1, <2>2, CountFrame DEF Shape
<1>7. SessionsTyped' /\ FaucetTyped'
  BY <1>4 DEF Shape, SessionsTyped, FaucetTyped
<1> QED
  BY <1>3, <1>5, <1>6, <1>7 DEF Shape

LEMMA AuthKeepsShape ==
    ASSUME CallOK, KeysInv, Shape, NEW c \in Clients, AuthStep(c),
           UNCHANGED <<faucetVars, chatVars, cliVars>>
    PROVE  Shape'
<1>1. minted \in Nat /\ sent \in Nat /\ commands \in Nat
  BY Bounds DEF MintedBound, Shape
<1>2. cli' = cli /\ sent' = sent /\ commands' = commands
      /\ sessions' = sessions /\ cooling' = cooling /\ paid' = paid /\ racing' = racing
  BY DEF cliVars, chatVars, faucetVars
<1>3. /\ Served(c) /\ call[c] # None
      /\ call'[c].stage # "challenge"
  BY <1>2, AuthTalks DEF Shape
<1>4. Challengers' \subseteq Challengers
  BY <1>3, ChallengersAfter DEF Served
<1>5. Fits(cli[c].name, call[c], minted, sent)
  BY <1>3, WhoAsks DEF Shape
<1>6. minted' \in Nat /\ minted <= minted'
  BY <1>1 DEF AuthStep, GenerateChallenge, VerifySignature, FindRow, FlushKey, RevokeFind,
              RevokeFlush, Guard, authVars
<1>7. CommandsTyped' /\ Conversing'
  BY <1>1, <1>2, <1>3, <1>6, ServedKeeps DEF Shape
<1>8. KeysCounted'
  <2>1. CASE GenerateChallenge(c)
    <3>1. call[c].pubkey \in Pubkeys
      BY <1>5, <2>1 DEF Fits, GenerateChallenge, At
    <3> QED
      BY <1>1, <1>2, <2>1, <3>1, ChallengeCounts DEF Shape
  <2>2. CASE VerifySignature(c)
    <3>1. call[c].pubkey \in Pubkeys
      BY <1>5, <2>2 DEF Fits, VerifySignature, At
    <3> QED
      BY <1>1, <1>2, <1>4, <2>2, <3>1, VerifyCounts DEF Shape
  <2>3. CASE UNCHANGED <<challenges, nonces, minted>>
    <3>1. commands' \in Nat /\ 0 \in {0, 1} /\ commands' = commands + 0
      BY <1>1, <1>2
    <3> QED
      BY <1>1, <1>4, <2>3, <3>1, CountFrame DEF Shape
  <2> QED
    BY <2>1, <2>2, <2>3
    DEF AuthStep, FindRow, FlushKey, RevokeFind, RevokeFlush, Guard, authVars
<1>9. SessionsTyped' /\ FaucetTyped'
  BY <1>2 DEF Shape, SessionsTyped, FaucetTyped
<1> QED
  BY <1>7, <1>8, <1>9 DEF Shape

LEMMA FaucetKeepsShape ==
    ASSUME CallOK, KeysInv, Shape, NEW c \in Clients, FaucetStep(c),
           UNCHANGED <<authVars, chatVars, cliVars>>
    PROVE  Shape'
<1>1. minted \in Nat /\ sent \in Nat /\ commands \in Nat
  BY Bounds DEF MintedBound, Shape
<1>2. cli' = cli /\ sent' = sent /\ commands' = commands /\ sessions' = sessions
      /\ challenges' = challenges /\ nonces' = nonces /\ minted' = minted
  BY DEF cliVars, chatVars, authVars
<1>3. /\ Served(c) /\ call'[c].stage # "challenge" /\ FaucetKey(call[c]) \in FaucetKeys
  BY <1>2, FaucetTalks DEF Shape
<1>4. Challengers' \subseteq Challengers
  BY <1>3, ChallengersAfter DEF Served
<1>5. CommandsTyped' /\ Conversing'
  BY <1>1, <1>2, <1>3, ServedKeeps DEF Shape
<1>6. KeysCounted'
  <2>1. commands' \in Nat /\ 0 \in {0, 1} /\ commands' = commands + 0
    BY <1>1, <1>2
  <2> QED
    BY <1>1, <1>2, <1>4, <2>1, CountFrame DEF Shape
<1>7. SessionsTyped'
  BY <1>2 DEF Shape, SessionsTyped
<1> DEFINE k == FaucetKey(call[c])
<1> HIDE DEF k
<1>8. FaucetTyped'
  <2>1. FaucetTyped /\ k \in FaucetKeys
    BY <1>3 DEF Shape, k
  <2>2. CASE CheckRateLimit(c)
    <3>1. /\ cooling' = cooling /\ paid' = paid
          /\ \/ racing' = racing
             \/ racing' = [racing EXCEPT ![k] = IF @ = None THEN @ ELSE @ \ {c}]
      BY <2>2 DEF CheckRateLimit, k
    <3> QED
      BY <2>1, <3>1 DEF FaucetTyped
  <2>3. CASE Pay(c)
    <3>1. /\ cooling' = cooling /\ racing' = racing
          /\ paid' = paid \/ paid' = [paid EXCEPT ![k] = @ + 1]
      BY <2>3 DEF Pay, k
    <3> QED
      BY <2>1, <3>1 DEF FaucetTyped
  <2>4. CASE Record(c)
    <3>1. /\ paid' = paid
          /\ \/ cooling' = cooling /\ racing' = racing
             \/ /\ cooling' = cooling \cup {k}
                /\ racing' = [racing EXCEPT ![k] = PastTheCheck(k) \ {c}]
      BY <2>4 DEF Record, RecordedAs, k
    <3>2. PastTheCheck(k) \subseteq Clients
      BY DEF PastTheCheck
    <3> QED
      BY <2>1, <3>1, <3>2 DEF FaucetTyped
  <2> QED
    BY <2>2, <2>3, <2>4 DEF FaucetStep
<1> QED
  BY <1>5, <1>6, <1>7, <1>8 DEF Shape

LEMMA ChatKeepsShape ==
    ASSUME CallOK, KeysInv, Shape, NEW c \in Clients, ChatStep(c),
           UNCHANGED <<authVars, faucetVars, cliVars>>
    PROVE  Shape'
<1>1. minted \in Nat /\ sent \in Nat /\ commands \in Nat
  BY Bounds DEF MintedBound, Shape
<1>2. cli' = cli /\ commands' = commands /\ cooling' = cooling /\ paid' = paid /\ racing' = racing
      /\ challenges' = challenges /\ nonces' = nonces /\ minted' = minted
  BY DEF cliVars, authVars, faucetVars
<1>3. /\ Served(c) /\ call[c] # None /\ call'[c].stage # "challenge"
      /\ sent' \in Nat /\ sent <= sent'
  BY <1>2, ChatTalks DEF Shape
<1>4. Challengers' \subseteq Challengers
  BY <1>3, ChallengersAfter DEF Served
<1>5. CommandsTyped' /\ Conversing'
  BY <1>1, <1>2, <1>3, ServedKeeps DEF Shape
<1>6. KeysCounted'
  <2>1. commands' \in Nat /\ 0 \in {0, 1} /\ commands' = commands + 0
    BY <1>1, <1>2
  <2> QED
    BY <1>1, <1>2, <1>4, <2>1, CountFrame DEF Shape
<1>7. SessionsTyped'
  <2>1. SessionsTyped /\ \A i \in 1..sent : i \in 1..sent'
    BY <1>1, <1>3 DEF Shape
  <2>2. CASE SendMessage(c)
    <3>1. sessions' = sessions /\ sent' = sent + 1 /\ sent + 1 \in Objects
      BY <2>2 DEF SendMessage
    <3> QED
      BY <1>1, <2>1, <3>1, SessionsAssumption DEF SessionsTyped, Objects
  <2>3. CASE ModelAnswers(c)
    <3>1. /\ sessions' = [sessions EXCEPT ![call[c].agent] = call[c].session] /\ sent' = sent
          /\ call[c].stage = "model"
      BY <2>3 DEF ModelAnswers, At
    <3>2. call[c].session \in 1..sent
      BY <1>3, <3>1, WhoAsks DEF Fits, Shape
    <3> QED
      BY <2>1, <3>1, <3>2 DEF SessionsTyped
  <2>4. CASE ModelFails(c)
    BY <2>1, <2>4 DEF ModelFails, SessionsTyped
  <2> QED
    BY <2>2, <2>3, <2>4 DEF ChatStep
<1>8. FaucetTyped'
  BY <1>2 DEF Shape, FaucetTyped
<1> QED
  BY <1>5, <1>6, <1>7, <1>8 DEF Shape

LEMMA AccountKeepsShape ==
    ASSUME CallOK, KeysInv, Shape, NEW c \in Clients, AnswerAccount(c)
    PROVE  Shape'
<1>1. minted \in Nat /\ sent \in Nat /\ commands \in Nat
  BY Bounds DEF MintedBound, Shape
<1>2. UNCHANGED cliVars /\ commands' = commands /\ cooling' = cooling /\ paid' = paid
      /\ racing' = racing /\ challenges' = challenges /\ nonces' = nonces /\ minted' = minted
      /\ sessions' = sessions /\ sent' = sent
  BY DEF AnswerAccount, cliVars, authVars, faucetVars, chatVars
<1>3. Served(c) /\ call'[c].stage # "challenge"
  BY AccountTalks DEF Shape
<1>4. Challengers' \subseteq Challengers
  BY <1>3, ChallengersAfter DEF Served
<1>5. CommandsTyped' /\ Conversing'
  BY <1>1, <1>2, <1>3, ServedKeeps DEF Shape
<1>6. KeysCounted'
  <2>1. commands' \in Nat /\ 0 \in {0, 1} /\ commands' = commands + 0
    BY <1>1, <1>2
  <2> QED
    BY <1>1, <1>2, <1>4, <2>1, CountFrame DEF Shape
<1>7. SessionsTyped' /\ FaucetTyped'
  BY <1>2 DEF Shape, SessionsTyped, FaucetTyped
<1> QED
  BY <1>5, <1>6, <1>7 DEF Shape

LEMMA TimeKeepsShape ==
    ASSUME CallOK, KeysInv, Shape, TimePasses
    PROVE  Shape'
<1>1. minted \in Nat /\ sent \in Nat /\ commands \in Nat
  BY Bounds DEF MintedBound, Shape
<1>2. UNCHANGED <<call, cliVars, nonces, minted, sent, paid>>
  BY DEF TimePasses, ChallengeExpires, CooldownEnds, EvictExpired, authVars, chatVars, faucetVars
<1>3. CommandsTyped' /\ Conversing' /\ Challengers' = Challengers
  BY <1>2 DEF Shape, CommandsTyped, Conversing, cliVars, Wallets, Challengers, At
<1>4. KeysCounted'
  <2>1. commands' = commands
    BY <1>2 DEF cliVars
  <2>2. /\ challenges' \in [Pubkeys -> 1..nonces \cup {None}]
        /\ \A w \in Pubkeys : challenges'[w] \in {challenges[w], None}
    BY DEF TimePasses, ChallengeExpires, CooldownEnds, EvictExpired, authVars, Shape, KeysCounted
  <2> QED
    BY <1>1, <1>2, <1>3, <2>1, <2>2, ExpiryCounts DEF Shape
<1>5. SessionsTyped'
  BY <1>2 DEF TimePasses, ChallengeExpires, CooldownEnds, EvictExpired, chatVars, Shape, SessionsTyped
<1>6. FaucetTyped'
  BY <1>2 DEF TimePasses, ChallengeExpires, CooldownEnds, EvictExpired, faucetVars, Shape, FaucetTyped
<1> QED
  BY <1>3, <1>4, <1>5, <1>6 DEF Shape

LEMMA RestartKeepsShape ==
    ASSUME CallOK, KeysInv, Shape, Restart
    PROVE  Shape'
<1>1. minted \in Nat /\ sent \in Nat /\ commands \in Nat
  BY Bounds DEF MintedBound, Shape
<1>2. /\ CommandsTyped' /\ Conversing' /\ commands' = commands
      /\ \A c \in Clients : call'[c] # None => call'[c].stage \notin {"model", "challenge"}
      /\ UNCHANGED <<nonces, minted, paid, sent>>
  BY RestartTalks DEF Shape
<1>3. KeysCounted'
  <2>1. Challengers' \subseteq Challengers
    BY <1>2 DEF Challengers, At
  <2>2. challenges' = [w \in Pubkeys |-> None]
    BY DEF Restart, AuthRestart
  <2> QED
    BY <1>1, <1>2, <2>1, <2>2, ExpiryCounts DEF Shape
<1>4. SessionsTyped'
  BY <1>2 DEF Restart, ChatRestart, Shape, SessionsTyped
<1>5. FaucetTyped'
  BY <1>2 DEF Restart, FaucetRestart, Shape, FaucetTyped
<1> QED
  BY <1>2, <1>3, <1>4, <1>5 DEF Shape

LEMMA StepKeepsShape ==
    ASSUME CallOK, KeysInv, Shape, [Next]_vars
    PROVE  Shape'
<1>1. CASE UNCHANGED vars
  <2>1. UNCHANGED <<call, challenges, nonces, minted, cooling, paid, racing, sessions, sent,
                    file, cli, commands, faults, generated, stored, orderly>>
    BY <1>1 DEF vars, authVars, faucetVars, chatVars, cliVars
  <2> QED
    BY <2>1 DEF Shape, CommandsTyped, Wallets, Conversing, KeysCounted, Challengers, Challenged,
                At, SessionsTyped, FaucetTyped
<1>2. ASSUME NEW c \in Clients, Serve(c)
      PROVE  Shape'
  BY <1>2, AuthKeepsShape, FaucetKeepsShape, ChatKeepsShape, AccountKeepsShape DEF Serve
<1> QED
  BY <1>1, <1>2, BeginKeepsShape, CarryKeepsShape, TimeKeepsShape, RestartKeepsShape DEF Next

\* The file that silky init and silky auth register leave.
LEMMA InitializedTyped ==
    Initialized \in Config /\ Initialized.apiKey = 1 /\ Wallets(Initialized) = {1} \ {None}
<1>1. 1 \in Pubkeys /\ 2 \in Agents /\ 1 \in 1..(MaxCommands + 1)
  <2>1. 1 \in Numbers /\ 2 \in Numbers /\ 1 \in 1..(MaxCommands + 1)
    BY SessionsAssumption DEF Numbers
  <2> QED
    BY <2>1, SessionsAssumption
<1> DEFINE d == DefaultConfig
           n == Initialized
<1>2. d \in Config /\ d.wallets = [l \in Labels |-> None]
  BY SessionsAssumption DEF DefaultConfig, Config
<1>3. n = [d EXCEPT !.wallets["main"] = 1, !.agentId = 2, !.apiKey = 1]
  BY DEF Initialized
<1> HIDE DEF d, n
<1>4. n \in Config /\ n.wallets = [d.wallets EXCEPT !["main"] = 1] /\ n.apiKey = 1
  BY <1>1, <1>2, <1>3, SessionsAssumption DEF Config
<1>5. Wallets(n) = {1} \ {None}
  BY <1>2, <1>4, SessionsAssumption DEF Wallets
<1> QED
  BY <1>4, <1>5 DEF n

LEMMA ShapeAtFirst ==
    ASSUME Init
    PROVE  Shape
<1>1. /\ call = [c \in Clients |-> None] /\ cli = [c \in Clients |-> None]
      /\ file = Initialized /\ generated = 2 /\ commands = 0 /\ faults = 0 /\ stored = {1}
      /\ orderly = TRUE /\ nonces = 1 /\ minted = 1 /\ sent = 0
      /\ challenges = [w \in Pubkeys |-> None] /\ sessions = [a \in Agents |-> None]
      /\ cooling = {} /\ paid = [k \in FaucetKeys |-> 0] /\ racing = [k \in FaucetKeys |-> None]
  BY DEF Init, AuthInit, FaucetInit, ChatInit
<1>2. MaxCommands \in Nat /\ MaxFaults \in Nat /\ MaxMessages \in Nat
  BY SessionsAssumption
<1>4. file \in Config /\ Wallets(file) = {1} \ {None}
  BY <1>1, InitializedTyped
<1>5. CommandsTyped
  BY <1>1, <1>2, <1>4 DEF CommandsTyped
<1>6. Conversing
  BY <1>1 DEF Conversing, Talk
<1>7. KeysCounted
  <2>1. Challengers = {} /\ Challenged = {}
    BY <1>1 DEF Challengers, Challenged, At
  <2>2. Cardinality(Challengers) = 0 /\ Cardinality(Challenged) = 0
    BY <2>1, FS_EmptySet
  <2> QED
    BY <1>1, <2>2 DEF KeysCounted
<1>8. SessionsTyped /\ FaucetTyped
  BY <1>1, <1>2 DEF SessionsTyped, FaucetTyped
<1> QED
  BY <1>5, <1>6, <1>7, <1>8 DEF Shape

----------------------------------------------------------------------------
(* The chat                                                                *)

\* A history in which user and assistant take turns, the user first.
Alternates(h) ==
    \A i \in DOMAIN h : h[i] = IF i % 2 = 1 THEN <<"user", h[i][2]>>
                                            ELSE <<"assistant", h[i - 1][2]>>

\* The requests that wait for the model with the session o.
Waits(q, o) == q # None /\ q.stage = "model" /\ q.session = o
Awaiting(o) == {c \in Clients : Waits(call[c], o)}

\* While the messages of a session each waited for the reply before, one request waits at
\* most, for the reply to the last message; else the last message has its reply, or the
\* session was never kept.
InTurn(o) ==
    /\ Alternates(messages[o])
    /\ \A c, d \in Awaiting(o) : c = d
    /\ \A c \in Awaiting(o) :
           /\ Len(messages[o]) % 2 = 1
           /\ messages[o][Len(messages[o])] = <<"user", call[c].turn>>
    /\ \/ Len(messages[o]) % 2 = 0 \/ Awaiting(o) # {}
       \/ \A a \in Agents : sessions[a] = None \/ sessions[a] # o

ChatInv ==
    /\ messages \in [Objects -> Seq(Turn)] /\ undisturbed \subseteq Objects
    /\ \A o \in Objects :
           /\ Len(messages[o]) + Cardinality(Awaiting(o)) <= MaxMessagesPerSession + Cardinality(Clients)
           /\ o > sent => messages[o] = <<>>
    /\ \A o \in undisturbed : InTurn(o)

\* What trimming keeps: the oldest two messages go together.
LEMMA TrimKeeps ==
    ASSUME NEW h \in Seq(Turn), Alternates(h)
    PROVE  Alternates(Trim(h))
<1> DEFINE over == Len(h) - MaxMessagesPerSession
           j == (over + 1) \div 2
           k == 2 * j
           t == SubSeq(h, k + 1, Len(h))
<1>1. MaxMessagesPerSession \in Nat /\ MaxMessagesPerSession >= 1 /\ Len(h) \in Nat
  BY SessionsAssumption
<1>2. CASE ~(over > 0)
  BY <1>2 DEF Trim
<1>3. CASE over > 0
  <2>1. over \in Nat /\ over < Len(h)
    BY <1>1, <1>3
  <2>2. Trim(h) = t
    BY <1>3 DEF Trim
  <2>3. j \in Nat /\ 2 * j <= over + 1
    BY <2>1
  <2> HIDE DEF j, over
  <2>4. k \in Nat /\ k <= Len(h)
    BY <1>1, <2>1, <2>3
  <2>5. /\ t \in Seq(Turn) /\ Len(t) = Len(h) - k
        /\ \A i \in 1..(Len(h) - k) : t[i] = h[i + k]
    BY <1>1, <2>4
  <2> HIDE DEF t, k
  <2>6. ASSUME NEW i \in 1..Len(t)
        PROVE  t[i] = IF i % 2 = 1 THEN <<"user", t[i][2]>> ELSE <<"assistant", t[i - 1][2]>>
    <3>1. i \in Nat /\ i + k \in DOMAIN h /\ t[i] = h[i + k] /\ i >= 1
      BY <1>1, <2>4, <2>5
    <3>2. (i + k) % 2 = i % 2
      BY <2>3, <3>1 DEF k
    <3>3. CASE i % 2 = 1
      BY <3>1, <3>2, <3>3 DEF Alternates
    <3>4. CASE i % 2 # 1
      <4>1. i # 1
        BY <3>4
      <4>2. i - 1 \in 1..(Len(h) - k) /\ (i + k) - 1 = (i - 1) + k
        BY <1>1, <2>4, <2>5, <3>1, <4>1
      <4>3. t[i - 1] = h[(i + k) - 1]
        BY <2>5, <4>2
      <4>4. h[i + k] = <<"assistant", h[(i + k) - 1][2]>>
        <5>1. \A x \in DOMAIN h : x % 2 # 1 => h[x] = <<"assistant", h[x - 1][2]>>
          BY DEF Alternates
        <5>2. i + k \in DOMAIN h /\ ~((i + k) % 2 = 1)
          BY <3>1, <3>2, <3>4
        <5> QED
          BY <5>1, <5>2
      <4> QED
        BY <3>1, <3>4, <4>3, <4>4
    <3> QED
      BY <3>3, <3>4
  <2>7. DOMAIN t = 1..Len(t)
    BY <2>5
  <2> QED
    BY <2>2, <2>6, <2>7 DEF Alternates
<1> QED
  BY <1>2, <1>3

\* What it leaves fits, and ends with the same message.
LEMMA TrimFits ==
    ASSUME NEW h \in Seq(Turn)
    PROVE  /\ Trim(h) \in Seq(Turn) /\ Len(Trim(h)) <= MaxMessagesPerSession
           /\ Len(Trim(h)) % 2 = Len(h) % 2
           /\ Len(h) % 2 = 1 => Trim(h)[Len(Trim(h))] = h[Len(h)]
<1> DEFINE over == Len(h) - MaxMessagesPerSession
           j == (over + 1) \div 2
           k == 2 * j
           t == SubSeq(h, k + 1, Len(h))
<1>1. MaxMessagesPerSession \in Nat /\ MaxMessagesPerSession >= 2 /\ Len(h) \in Nat
      /\ MaxMessagesPerSession % 2 = 0
  BY SessionsAssumption
<1>2. CASE ~(over > 0)
  <2>1. Trim(h) = h
    BY <1>2 DEF Trim
  <2>2. Len(h) <= MaxMessagesPerSession
    BY <1>1, <1>2
  <2> QED
    BY <2>1, <2>2
<1>3. CASE over > 0
  <2>1. over \in Nat /\ over = Len(h) - MaxMessagesPerSession
    BY <1>1, <1>3
  <2>2. Trim(h) = t
    BY <1>3 DEF Trim
  <2>3. j \in Nat /\ 2 * j <= over + 1 /\ over <= 2 * j
    BY <2>1
  <2> HIDE DEF j, over
  <2>4. k \in Nat /\ k <= Len(h) /\ Len(h) - k \in Nat /\ Len(h) - k <= MaxMessagesPerSession
        /\ Len(h) - k >= 1
    BY <1>1, <2>1, <2>3
  <2>5. (Len(h) - k) % 2 = Len(h) % 2
    BY <1>1, <2>3, <2>4
  <2>6. /\ t \in Seq(Turn) /\ Len(t) = Len(h) - k
        /\ \A i \in 1..(Len(h) - k) : t[i] = h[i + k]
    BY <1>1, <2>4
  <2> HIDE DEF t
  <2>7. t[Len(t)] = h[Len(h)]
    <3>1. Len(t) \in 1..(Len(h) - k) /\ Len(t) + k = Len(h)
      BY <1>1, <2>4, <2>6
    <3> QED
      BY <2>6, <3>1
  <2> QED
    BY <2>2, <2>4, <2>5, <2>6, <2>7
<1> QED
  BY <1>2, <1>3

\* A message that is added in its turn.
LEMMA AppendAlternates ==
    ASSUME NEW h \in Seq(Turn), Alternates(h), NEW n \in Objects
    PROVE  /\ Len(h) % 2 = 0 => Alternates(Append(h, <<"user", n>>))
           /\ Len(h) % 2 = 1 /\ h[Len(h)] = <<"user", n>> => Alternates(Append(h, <<"assistant", n>>))
<1>1. ASSUME NEW w \in {"user", "assistant"}
      PROVE  /\ Append(h, <<w, n>>) \in Seq(Turn)
             /\ DOMAIN Append(h, <<w, n>>) = DOMAIN h \cup {Len(h) + 1}
             /\ \A i \in DOMAIN h : Append(h, <<w, n>>)[i] = h[i]
             /\ Append(h, <<w, n>>)[Len(h) + 1] = <<w, n>>
  <2>1. <<w, n>> \in Turn
    BY DEF Turn
  <2> HIDE DEF Turn
  <2>2. 1..(Len(h) + 1) = 1..Len(h) \cup {Len(h) + 1}
    OBVIOUS
  <2> QED
    BY <2>1, <2>2
<1>2. Len(h) \in Nat /\ DOMAIN h = 1..Len(h)
  OBVIOUS
<1>3. \A i \in DOMAIN h : i \in Nat /\ i >= 1 /\ (i % 2 # 1 => i - 1 \in DOMAIN h)
  <2> SUFFICES ASSUME NEW i \in DOMAIN h
               PROVE  i \in Nat /\ i >= 1 /\ (i % 2 # 1 => i - 1 \in DOMAIN h)
    OBVIOUS
  <2>1. i \in Nat /\ i >= 1 /\ i <= Len(h)
    BY <1>2
  <2>2. CASE i = 1
    BY <2>2
  <2>3. CASE i # 1
    BY <1>2, <2>1, <2>3
  <2> QED
    BY <2>2, <2>3
<1>4. CASE Len(h) % 2 = 0
  <2> DEFINE g == Append(h, <<"user", n>>)
  <2>1. /\ DOMAIN g = DOMAIN h \cup {Len(h) + 1}
        /\ \A i \in DOMAIN h : g[i] = h[i]
        /\ g[Len(h) + 1] = <<"user", n>>
    BY <1>1
  <2> HIDE DEF g
  <2>2. (Len(h) + 1) % 2 = 1
    BY <1>2, <1>4
  <2>3. \A i \in DOMAIN h : g[i] = IF i % 2 = 1 THEN <<"user", g[i][2]>>
                                            ELSE <<"assistant", g[i - 1][2]>>
    BY <1>3, <2>1 DEF Alternates
  <2>4. g[Len(h) + 1] = <<"user", g[Len(h) + 1][2]>>
    BY <2>1
  <2>5. Alternates(g)
    BY <2>1, <2>2, <2>3, <2>4 DEF Alternates
  <2> QED
    BY <1>4, <2>5 DEF g
<1>5. CASE Len(h) % 2 = 1 /\ h[Len(h)] = <<"user", n>>
  <2> DEFINE g == Append(h, <<"assistant", n>>)
  <2>1. /\ DOMAIN g = DOMAIN h \cup {Len(h) + 1}
        /\ \A i \in DOMAIN h : g[i] = h[i]
        /\ g[Len(h) + 1] = <<"assistant", n>>
    BY <1>1
  <2> HIDE DEF g
  <2>2. (Len(h) + 1) % 2 # 1 /\ Len(h) \in DOMAIN h /\ Len(h) + 1 - 1 = Len(h)
    BY <1>2, <1>5
  <2>3. \A i \in DOMAIN h : g[i] = IF i % 2 = 1 THEN <<"user", g[i][2]>>
                                            ELSE <<"assistant", g[i - 1][2]>>
    BY <1>3, <2>1 DEF Alternates
  <2>4. g[Len(h) + 1] = <<"assistant", g[Len(h) + 1 - 1][2]>>
    BY <1>5, <2>1, <2>2
  <2>5. Alternates(g)
    <3>1. ASSUME NEW i \in DOMAIN g
          PROVE  g[i] = IF i % 2 = 1 THEN <<"user", g[i][2]>> ELSE <<"assistant", g[i - 1][2]>>
      <4>1. CASE i \in DOMAIN h
        BY <2>3, <4>1
      <4>2. CASE i = Len(h) + 1
        BY <2>2, <2>4, <4>2
      <4> QED
        BY <2>1, <4>1, <4>2
    <3> QED
      BY <3>1 DEF Alternates
  <2> QED
    BY <1>5, <2>2, <2>5 DEF g
<1> QED
  BY <1>4, <1>5

\* Who waits for the model is counted.
LEMMA AwaitingFinite ==
    ASSUME NEW o
    PROVE  /\ Awaiting(o) \subseteq Clients /\ IsFiniteSet(Awaiting(o))
           /\ Cardinality(Awaiting(o)) \in Nat
           /\ Cardinality(Awaiting(o)) <= Cardinality(Clients) /\ Cardinality(Clients) \in Nat
<1>1. Awaiting(o) \subseteq Clients
  BY DEF Awaiting
<1>2. IsFiniteSet(Clients) /\ Cardinality(Clients) \in Nat
  BY SessionsAssumption, FS_CardinalityType
<1>3. IsFiniteSet(Awaiting(o)) /\ Cardinality(Awaiting(o)) <= Cardinality(Clients)
  BY <1>1, <1>2, FS_Subset
<1>4. Cardinality(Awaiting(o)) \in Nat
  BY <1>3, FS_CardinalityType
<1> QED
  BY <1>1, <1>2, <1>3, <1>4

\* Steps in which nobody begins or ends to wait for the model.
LEMMA ChatFrame ==
    ASSUME ChatInv, UNCHANGED <<messages, sent, undisturbed>>,
           \A a \in Agents : sessions'[a] \in {sessions[a], None},
           \A c \in Clients : \/ call'[c] = call[c]
                              \/ /\ call[c] = None \/ call[c].stage # "model"
                                 /\ call'[c] = None \/ call'[c].stage # "model"
    PROVE  ChatInv'
<1>1. ASSUME NEW o
      PROVE  /\ Awaiting(o)' = Awaiting(o)
             /\ \A c \in Awaiting(o) : call'[c] = call[c]
  BY DEF Awaiting, Waits
<1>2. \A o \in undisturbed : InTurn(o)'
  <2> SUFFICES ASSUME NEW o \in undisturbed
               PROVE  InTurn(o)'
    OBVIOUS
  <2>1. InTurn(o) /\ Awaiting(o)' = Awaiting(o) /\ \A c \in Awaiting(o) : call'[c] = call[c]
    BY <1>1 DEF ChatInv
  <2>2. \A a \in Agents : sessions'[a] = None \/ sessions'[a] # o
        \/ ~(sessions[a] = None \/ sessions[a] # o)
    OBVIOUS
  <2>3. (\A a \in Agents : sessions[a] = None \/ sessions[a] # o) =>
            (\A a \in Agents : sessions'[a] = None \/ sessions'[a] # o)
    OBVIOUS
  <2> QED
    BY <2>1, <2>3 DEF InTurn
<1>3. \A o \in Objects : Cardinality(Awaiting(o))' = Cardinality(Awaiting(o))
  BY <1>1
<1> QED
  BY <1>2, <1>3 DEF ChatInv

\* A restart keeps no session, and nobody waits.
LEMMA RestartKeepsChat ==
    ASSUME CallOK, Shape, ChatInv, Restart
    PROVE  ChatInv'
<1>1. /\ UNCHANGED <<messages, sent, undisturbed>>
      /\ \A c \in Clients : call'[c] # None => call'[c].stage # "model"
  BY RestartTalks DEF Shape
<1>2. \A a \in Agents : sessions'[a] = None
  BY DEF Restart, ChatRestart
<1>3. \A o : Awaiting(o)' = {}
  BY <1>1 DEF Awaiting, Waits
<1>4. \A o \in Objects : Cardinality(Awaiting(o)') = 0
  BY <1>3, FS_EmptySet
<1>5. \A o \in undisturbed : InTurn(o)'
  <2> SUFFICES ASSUME NEW o \in undisturbed
               PROVE  InTurn(o)'
    OBVIOUS
  <2>1. InTurn(o) /\ Awaiting(o)' = {}
    BY <1>3 DEF ChatInv
  <2> QED
    BY <1>1, <1>2, <2>1 DEF InTurn
<1>6. \A o \in Objects :
          Len(messages'[o]) + Cardinality(Awaiting(o)') <= MaxMessagesPerSession + Cardinality(Clients)
  <2> SUFFICES ASSUME NEW o \in Objects
               PROVE  Len(messages'[o]) + Cardinality(Awaiting(o)')
                          <= MaxMessagesPerSession + Cardinality(Clients)
    OBVIOUS
  <2>1. /\ Len(messages[o]) + Cardinality(Awaiting(o)) <= MaxMessagesPerSession + Cardinality(Clients)
        /\ Len(messages[o]) \in Nat /\ Cardinality(Awaiting(o)) \in Nat
        /\ Cardinality(Clients) \in Nat /\ MaxMessagesPerSession \in Nat
    BY AwaitingFinite, SessionsAssumption DEF ChatInv
  <2> QED
    BY <1>1, <1>4, <2>1
<1> QED
  BY <1>1, <1>5, <1>6 DEF ChatInv

LEMMA Parity ==
    ASSUME NEW n \in Nat
    PROVE  /\ n % 2 \in {0, 1}
           /\ n % 2 = 0 => (n + 1) % 2 = 1
           /\ n % 2 = 1 => (n + 1) % 2 = 0
  OBVIOUS

\* A message is added and the history trimmed; the client waits for the model from then on.
LEMMA SendKeepsChat ==
    ASSUME CallOK, KeysInv, Shape, ChatInv, NEW c \in Clients, SendMessage(c)
    PROVE  ChatInv'
<1>0. PICK n, a, o, g, h, q :
          /\ n = sent + 1 /\ a = call[c].agent
          /\ o = IF sessions[a] = None THEN n ELSE sessions[a]
          /\ g = Append(messages[o], <<"user", n>>) /\ h = Trim(g)
          /\ q = [stage |-> "model", agent |-> a, session |-> o, turn |-> n, prompt |-> h]
  OBVIOUS
<1>1. /\ call[c] # None /\ call[c].stage = "message" /\ n \in Objects /\ sent' = n
      /\ messages' = [messages EXCEPT ![o] = h]
      /\ undisturbed' = IF AwaitsModel(o) THEN undisturbed \ {o} ELSE undisturbed
      /\ Send(c, q) /\ sessions' = sessions
  BY <1>0 DEF SendMessage, At
<1>17. n = sent + 1 /\ a = call[c].agent /\ g = Append(messages[o], <<"user", n>>)
  BY <1>0
<1>18. o = IF sessions[a] = None THEN n ELSE sessions[a]
  BY <1>0
<1>2. a \in Agents /\ sent \in Nat /\ n \in Nat /\ n >= 1 /\ sent < n
  <2>1. Fits(cli[c].name, call[c], minted, sent)
    BY <1>1, WhoAsks DEF Shape
  <2>2. a \in Agents
    BY <1>1, <1>17, <2>1 DEF Fits
  <2> QED
    BY <1>17, <2>2 DEF Shape, SessionsTyped
<1>3. o \in Objects /\ o <= n /\ (sessions[a] = None => o > sent)
  <2>1. n \in Nat /\ 1 <= n /\ n <= MaxMessages /\ MaxMessages \in Nat
    BY <1>1, <1>2, SessionsAssumption DEF Objects
  <2>2. sessions[a] # None => sessions[a] \in 1..sent
    BY <1>2 DEF Shape, SessionsTyped
  <2>3. CASE sessions[a] = None
    BY <1>1, <1>2, <1>18, <2>1, <2>3
  <2>4. CASE sessions[a] # None
    <3>1. o \in 1..sent
      BY <1>18, <2>2, <2>4
    <3>2. o \in Nat /\ 1 <= o /\ o <= sent
      BY <1>2, <3>1
    <3>3. o \in Objects
      BY <1>2, <2>1, <3>2 DEF Objects
    <3> QED
      BY <1>2, <2>4, <3>2, <3>3
  <2> QED
    BY <2>3, <2>4
<1>4. /\ q.stage = "model" /\ q.session = o /\ q.turn = n
  BY <1>0
<1>5. messages[o] \in Seq(Turn) /\ <<"user", n>> \in Turn
  BY <1>1, <1>3 DEF ChatInv, Turn
<1>6. /\ g \in Seq(Turn) /\ Len(g) = Len(messages[o]) + 1
      /\ g[Len(g)] = <<"user", n>> /\ Len(messages[o]) \in Nat
  BY <1>5, <1>17
<1>7. call'[c] = q /\ \A d \in Clients : d # c => call'[d] = call[d]
  BY <1>1, SendSets
<1>8. /\ h \in Seq(Turn) /\ Len(h) <= MaxMessagesPerSession /\ Len(h) % 2 = Len(g) % 2
      /\ Len(g) % 2 = 1 => h[Len(h)] = <<"user", n>>
  BY <1>0, <1>6, TrimFits
<1>16. q # None
  <2>1. q \in [stage : {"model"}, agent : Agents, session : Objects, turn : Objects,
               prompt : Seq(Turn)]
    BY <1>0, <1>1, <1>2, <1>3, <1>8
  <2> QED
    BY <2>1, RequestAssumption
<1>9. /\ messages' \in [Objects -> Seq(Turn)] /\ messages'[o] = h
      /\ \A x \in Objects : x # o => messages'[x] = messages[x]
  BY <1>1, <1>3, <1>8 DEF ChatInv
<1>10. /\ Awaiting(o)' = Awaiting(o) \cup {c}
       /\ \A x : x # o => Awaiting(x)' = Awaiting(x)
       /\ \A x : \A d \in Awaiting(x) : call'[d] = call[d]
  <2>1. \A x : ~Waits(call[c], x)
    BY <1>1 DEF Waits
  <2>2. \A x : Waits(call'[c], x) <=> x = o
    BY <1>4, <1>7, <1>16 DEF Waits
  <2>3. \A x : \A d \in Clients : d # c => (Waits(call'[d], x) <=> Waits(call[d], x))
    BY <1>7
  <2> QED
    BY <1>7, <2>1, <2>2, <2>3 DEF Awaiting
<1>11. \A x \in Objects :
          /\ Len(messages'[x]) + Cardinality(Awaiting(x)') <= MaxMessagesPerSession + Cardinality(Clients)
          /\ x > sent' => messages'[x] = <<>>
  <2> SUFFICES ASSUME NEW x \in Objects
               PROVE  /\ Len(messages'[x]) + Cardinality(Awaiting(x)')
                             <= MaxMessagesPerSession + Cardinality(Clients)
                      /\ x > sent' => messages'[x] = <<>>
    OBVIOUS
  <2>1. CASE x = o
    <3>1. Awaiting(o)' \subseteq Clients
      BY DEF Awaiting
    <3>2. IsFiniteSet(Clients) /\ Cardinality(Clients) \in Nat
      BY SessionsAssumption, FS_CardinalityType
    <3>3. Cardinality(Awaiting(o)') <= Cardinality(Clients) /\ Cardinality(Awaiting(o)') \in Nat
      BY <3>1, <3>2, FS_Subset, FS_CardinalityType
    <3>4. Len(h) \in Nat /\ MaxMessagesPerSession \in Nat
      BY <1>8, SessionsAssumption
    <3>5. Len(h) + Cardinality(Awaiting(o)') <= MaxMessagesPerSession + Cardinality(Clients)
      BY <1>8, <3>2, <3>3, <3>4
    <3>6. ~(o > n)
      BY <1>1, <1>2, <1>3 DEF Objects
    <3> QED
      BY <1>1, <1>9, <2>1, <3>5, <3>6
  <2>2. CASE x # o
    <3>1. x > sent' => x > sent
      <4>1. x \in Nat
        BY DEF Objects
      <4> QED
        BY <1>1, <1>2, <4>1
    <3> QED
      BY <1>9, <1>10, <2>2, <3>1 DEF ChatInv
  <2> QED
    BY <2>1, <2>2
<1>12. undisturbed' \subseteq undisturbed /\ (o \in undisturbed' => Awaiting(o) = {} /\ o \in undisturbed)
  BY <1>1 DEF Awaiting, Waits, AwaitsModel, At
<1>13. \A x \in undisturbed' : x # o => InTurn(x)'
  <2> SUFFICES ASSUME NEW x \in undisturbed', x # o
               PROVE  InTurn(x)'
    OBVIOUS
  <2>1. InTurn(x) /\ x \in Objects
    BY <1>12 DEF ChatInv
  <2>2. messages'[x] = messages[x] /\ Awaiting(x)' = Awaiting(x) /\ sessions' = sessions
        /\ \A d \in Awaiting(x) : call'[d] = call[d]
    BY <1>1, <1>9, <1>10, <2>1
  <2> QED
    BY <2>1, <2>2 DEF InTurn
<1>14. ASSUME o \in undisturbed'
       PROVE  InTurn(o)'
  <2>1. InTurn(o) /\ Awaiting(o) = {}
    BY <1>12, <1>14 DEF ChatInv
  <2>2. Len(messages[o]) % 2 = 0
    <3>1. CASE sessions[a] = None
      <4>1. messages[o] = <<>>
        BY <1>3, <3>1 DEF ChatInv
      <4> QED
        BY <4>1
    <3>2. CASE sessions[a] # None
      <4>1. sessions[a] = o
        BY <1>0, <3>2
      <4> QED
        BY <1>2, <2>1, <3>2, <4>1 DEF InTurn
    <3> QED
      BY <3>1, <3>2
  <2>3. Len(g) % 2 = 1
    <3>1. Len(g) = Len(messages[o]) + 1 /\ Len(messages[o]) \in Nat
      BY <1>6
    <3>2. (Len(messages[o]) + 1) % 2 = 1
      BY <2>2, <3>1, Parity
    <3> QED
      BY <3>1, <3>2
  <2>4. Alternates(g)
    BY <1>0, <1>1, <1>5, <2>1, <2>2, AppendAlternates DEF InTurn
  <2>5. Alternates(h)
    BY <1>0, <1>6, <2>4, TrimKeeps
  <2>6. Awaiting(o)' \subseteq {c} /\ call'[c].turn = n
    BY <1>4, <1>7, <1>10, <2>1
  <2>7. Len(h) % 2 = 1 /\ h[Len(h)] = <<"user", n>>
    BY <1>8, <2>3
  <2>8. Awaiting(o)' # {}
    BY <1>10
  <2> QED
    BY <1>9, <2>5, <2>6, <2>7, <2>8 DEF InTurn
<1>15. undisturbed' \subseteq Objects
  BY <1>12 DEF ChatInv
<1> QED
  BY <1>9, <1>11, <1>13, <1>14, <1>15 DEF ChatInv

\* An answer ends the wait, and follows the message it answers.
LEMMA AnswerKeepsChat ==
    ASSUME CallOK, KeysInv, Shape, ChatInv, NEW c \in Clients, ModelAnswers(c) \/ ModelFails(c)
    PROVE  ChatInv'
<1>0. PICK n, a, o, h : n = call[c].turn /\ a = call[c].agent /\ o = call[c].session /\ h = messages[o]
  OBVIOUS
<1>1. call[c] # None /\ call[c].stage = "model" /\ sent' = sent
  BY DEF ModelAnswers, ModelFails, At
<1>2. o \in Objects /\ n \in Objects /\ sent \in Nat /\ o <= sent
  <2>1. o \in 1..sent /\ n \in 1..sent
    BY <1>0, <1>1, WhoAsks DEF Fits, Shape
  <2>2. sent \in 0..MaxMessages /\ MaxMessages \in Nat
    BY SessionsAssumption DEF Shape, SessionsTyped
  <2> QED
    BY <2>1, <2>2 DEF Objects
<1>3. h \in Seq(Turn) /\ Len(h) \in Nat
  BY <1>0, <1>2 DEF ChatInv
<1>4. /\ call'[c].stage # "model"
      /\ \A d \in Clients : d # c => call'[d] = call[d]
  <2>2. PICK e, v : Send(c, [stage |-> "answered", error |-> e, value |-> v])
    BY DEF ModelAnswers, ModelFails, Reply, Refuse, Answered, Refused
  <2> DEFINE q == [stage |-> "answered", error |-> e, value |-> v]
  <2>3. q.stage = "answered" /\ Send(c, q)
    BY <2>2
  <2> HIDE DEF q
  <2> QED
    BY <2>3, SendSets
<1>5. /\ Awaiting(o)' = Awaiting(o) \ {c} /\ c \in Awaiting(o)
      /\ \A x : x # o => Awaiting(x)' = Awaiting(x)
      /\ \A x : \A d \in Awaiting(x)' : call'[d] = call[d]
  <2>1. \A x : Waits(call[c], x) <=> x = o
    BY <1>0, <1>1 DEF Waits
  <2>2. \A x : ~Waits(call'[c], x)
    BY <1>4 DEF Waits
  <2>3. \A x : \A d \in Clients : d # c => (Waits(call'[d], x) <=> Waits(call[d], x))
    BY <1>4
  <2> QED
    BY <1>4, <2>1, <2>2, <2>3 DEF Awaiting
<1>6. /\ Cardinality(Awaiting(o)') + 1 = Cardinality(Awaiting(o))
      /\ Cardinality(Awaiting(o)') \in Nat /\ Cardinality(Awaiting(o)) \in Nat
      /\ Cardinality(Clients) \in Nat /\ MaxMessagesPerSession \in Nat
  <2>1. IsFiniteSet(Awaiting(o)) /\ Cardinality(Awaiting(o)) \in Nat /\ Cardinality(Clients) \in Nat
        /\ MaxMessagesPerSession \in Nat
    BY AwaitingFinite, SessionsAssumption
  <2>2. Cardinality(Awaiting(o)') = Cardinality(Awaiting(o)) - 1 /\ IsFiniteSet(Awaiting(o)')
    BY <1>5, <2>1, FS_RemoveElement
  <2>3. Cardinality(Awaiting(o)') \in Nat
    BY <2>2, FS_CardinalityType
  <2> QED
    BY <2>1, <2>2, <2>3
<1>7. Len(h) + Cardinality(Awaiting(o)) <= MaxMessagesPerSession + Cardinality(Clients)
  BY <1>0, <1>2 DEF ChatInv
<1>8. CASE ModelFails(c)
  <2>1. messages' = messages /\ sessions' = sessions /\ undisturbed' = undisturbed \ {o}
    BY <1>0, <1>8 DEF ModelFails
  <2>2. \A x \in undisturbed' : InTurn(x)'
    <3> SUFFICES ASSUME NEW x \in undisturbed'
                 PROVE  InTurn(x)'
      OBVIOUS
    <3>1. x # o /\ InTurn(x) /\ Awaiting(x)' = Awaiting(x)
          /\ \A d \in Awaiting(x)' : call'[d] = call[d]
      BY <1>5, <2>1 DEF ChatInv
    <3> QED
      BY <2>1, <3>1 DEF InTurn
  <2>3. \A x \in Objects :
            Len(messages'[x]) + Cardinality(Awaiting(x)') <= MaxMessagesPerSession + Cardinality(Clients)
    <3> SUFFICES ASSUME NEW x \in Objects
                 PROVE  Len(messages'[x]) + Cardinality(Awaiting(x)')
                            <= MaxMessagesPerSession + Cardinality(Clients)
      OBVIOUS
    <3>1. CASE x = o
      <4>1. Len(h) + Cardinality(Awaiting(o)') <= MaxMessagesPerSession + Cardinality(Clients)
        BY <1>3, <1>6, <1>7
      <4> QED
        BY <1>0, <2>1, <3>1, <4>1
    <3>2. CASE x # o
      BY <1>5, <2>1, <3>2 DEF ChatInv
    <3> QED
      BY <3>1, <3>2
  <2> QED
    BY <1>1, <2>1, <2>2, <2>3 DEF ChatInv
<1>9. CASE ModelAnswers(c)
  <2>0. PICK g : g = Append(h, <<"assistant", n>>)
    OBVIOUS
  <2>1. messages' = [messages EXCEPT ![o] = g] /\ undisturbed' = undisturbed
        /\ sessions' = [sessions EXCEPT ![a] = o]
    <3>1. messages' = [messages EXCEPT ![o] = Append(@, <<"assistant", n>>)]
          /\ undisturbed' = undisturbed /\ sessions' = [sessions EXCEPT ![a] = o]
      BY <1>0, <1>9 DEF ModelAnswers
    <3> QED
      BY <1>0, <1>2, <2>0, <3>1 DEF ChatInv
  <2>2. /\ <<"assistant", n>> \in Turn
        /\ g \in Seq(Turn) /\ Len(g) = Len(h) + 1
    <3>1. <<"assistant", n>> \in Turn
      BY <1>2 DEF Turn
    <3> QED
      BY <1>3, <2>0, <3>1
  <2>3. /\ messages' \in [Objects -> Seq(Turn)] /\ messages'[o] = g
        /\ \A x \in Objects : x # o => messages'[x] = messages[x]
    BY <1>2, <2>1, <2>2 DEF ChatInv
  <2>4. \A x \in Objects :
            /\ Len(messages'[x]) + Cardinality(Awaiting(x)') <= MaxMessagesPerSession + Cardinality(Clients)
            /\ x > sent' => messages'[x] = <<>>
    <3> SUFFICES ASSUME NEW x \in Objects
                 PROVE  /\ Len(messages'[x]) + Cardinality(Awaiting(x)')
                               <= MaxMessagesPerSession + Cardinality(Clients)
                        /\ x > sent' => messages'[x] = <<>>
      OBVIOUS
    <3>1. CASE x = o
      <4>1. Len(g) + Cardinality(Awaiting(o)') <= MaxMessagesPerSession + Cardinality(Clients)
        BY <1>3, <1>6, <1>7, <2>2
      <4>2. ~(o > sent)
        BY <1>2 DEF Objects
      <4> QED
        BY <1>1, <2>3, <3>1, <4>1, <4>2
    <3>2. CASE x # o
      BY <1>1, <1>5, <2>3, <3>2 DEF ChatInv
    <3> QED
      BY <3>1, <3>2
  <2>5. \A x \in undisturbed' : x # o => InTurn(x)'
    <3> SUFFICES ASSUME NEW x \in undisturbed', x # o
                 PROVE  InTurn(x)'
      OBVIOUS
    <3>1. /\ InTurn(x) /\ x \in Objects
          /\ Awaiting(x)' = Awaiting(x) /\ \A d \in Awaiting(x)' : call'[d] = call[d]
          /\ messages'[x] = messages[x]
      BY <1>5, <2>1, <2>3 DEF ChatInv
    <3>2. (\A b \in Agents : sessions[b] = None \/ sessions[b] # x) =>
              (\A b \in Agents : sessions'[b] = None \/ sessions'[b] # x)
      BY <2>1 DEF Shape, SessionsTyped
    <3> QED
      BY <3>1, <3>2 DEF InTurn
  <2>6. ASSUME o \in undisturbed
        PROVE  InTurn(o)'
    <3>1. /\ Alternates(h) /\ Awaiting(o) = {c} /\ Len(h) % 2 = 1 /\ h[Len(h)] = <<"user", n>>
      <4>1. InTurn(o)
        BY <2>6 DEF ChatInv
      <4>2. \A d, e \in Awaiting(o) : d = e
        BY <4>1 DEF InTurn
      <4>3. Len(messages[o]) % 2 = 1 /\ messages[o][Len(messages[o])] = <<"user", call[c].turn>>
        BY <1>5, <4>1 DEF InTurn
      <4>4. Alternates(messages[o])
        BY <4>1 DEF InTurn
      <4> QED
        BY <1>0, <1>5, <4>2, <4>3, <4>4
    <3>2. Alternates(g)
      BY <1>2, <1>3, <2>0, <3>1, AppendAlternates
    <3>3. Len(g) % 2 = 0
      <4>1. (Len(h) + 1) % 2 = 0
        BY <1>3, <3>1, Parity
      <4> QED
        BY <2>2, <4>1
    <3>4. Awaiting(o)' = {}
      BY <1>5, <3>1
    <3> QED
      BY <2>3, <3>2, <3>3, <3>4 DEF InTurn
  <2> QED
    BY <2>1, <2>3, <2>4, <2>5, <2>6 DEF ChatInv
<1> QED
  BY <1>8, <1>9

\* Every step keeps what is known of the sessions.
LEMMA StepKeepsChat ==
    ASSUME CallOK, KeysInv, Shape, ChatInv, [Next]_vars
    PROVE  ChatInv'
<1>1. ASSUME UNCHANGED chatVars, NEW c \in Clients,
             \A d \in Clients : d # c => call'[d] = call[d],
             \/ call'[c] = call[c]
             \/ /\ call[c] = None \/ call[c].stage # "model"
                /\ call'[c] = None \/ call'[c].stage # "model"
      PROVE  ChatInv'
  <2>1. UNCHANGED <<messages, sent, undisturbed, sessions>>
    BY <1>1 DEF chatVars
  <2> QED
    BY <1>1, <2>1, ChatFrame
<1>2. MintedBound
  BY Bounds DEF Shape
<1>3. ASSUME NEW c \in Clients, Begin(c)
      PROVE  ChatInv'
  <2>1. Begun(c)
    BY <1>3, CommandBegins DEF Shape
  <2> QED
    BY <1>1, <2>1 DEF Begun, Alone
<1>4. ASSUME NEW c \in Clients,
             \/ Finish(c) \/ SignChallenge(c) \/ SaveEdited(c) \/ SaveAnswer(c)
             \/ WriteFile(c) \/ Crash(c) \/ DropAnswer(c)
      PROVE  ChatInv'
  <2>1. CarriedOn(c)
    BY <1>2, <1>4, CommandCarriesOn DEF Shape
  <2> QED
    BY <1>1, <2>1 DEF CarriedOn, Alone
<1>5. ASSUME NEW c \in Clients, Serve(c)
      PROVE  ChatInv'
  <2>1. CASE AuthStep(c) /\ UNCHANGED <<faucetVars, chatVars, cliVars>>
    <3>1. UNCHANGED <<cli, sent>>
      BY <2>1 DEF chatVars, cliVars
    <3> QED
      BY <1>1, <2>1, <3>1, AuthTalks DEF Served, Alone, Shape
  <2>2. CASE FaucetStep(c) /\ UNCHANGED <<authVars, chatVars, cliVars>>
    <3>1. UNCHANGED <<cli, minted, sent>>
      BY <2>2 DEF chatVars, cliVars, authVars
    <3> QED
      BY <1>1, <2>2, <3>1, FaucetTalks DEF Served, Alone, Shape
  <2>3. CASE ChatStep(c)
    BY <2>3, SendKeepsChat, AnswerKeepsChat DEF ChatStep
  <2>4. CASE AnswerAccount(c)
    <3>1. UNCHANGED chatVars
      BY <2>4 DEF AnswerAccount
    <3> QED
      BY <1>1, <2>4, <3>1, AccountTalks DEF Served, Alone, Shape
  <2> QED
    BY <1>5, <2>1, <2>2, <2>3, <2>4 DEF Serve
<1>6. CASE TimePasses
  <2>1. UNCHANGED <<call, messages, sent, undisturbed>>
        /\ \A a \in Agents : sessions'[a] \in {sessions[a], None}
    BY <1>6 DEF TimePasses, ChallengeExpires, CooldownEnds, EvictExpired, chatVars, Shape, SessionsTyped
  <2> QED
    BY <2>1, ChatFrame
<1>7. CASE Restart
  BY <1>7, RestartKeepsChat
<1>8. CASE UNCHANGED vars
  <2>1. UNCHANGED <<call, messages, sent, undisturbed, sessions>>
    BY <1>8 DEF vars, chatVars
  <2> QED
    BY <2>1, ChatFrame
<1> QED
  BY <1>3, <1>4, <1>5, <1>6, <1>7, <1>8 DEF Next

LEMMA ChatAtFirst ==
    ASSUME Init
    PROVE  ChatInv
<1>1. /\ messages = [o \in Objects |-> <<>>] /\ sent = 0 /\ undisturbed = Objects
      /\ sessions = [a \in Agents |-> None] /\ call = [c \in Clients |-> None]
  BY DEF Init, ChatInit
<1>2. \A o : Awaiting(o) = {}
  BY <1>1 DEF Awaiting, Waits
<1>3. Cardinality({}) = 0
  BY FS_EmptySet
<1>4. Cardinality(Clients) \in Nat /\ MaxMessagesPerSession \in Nat
  BY SessionsAssumption, FS_CardinalityType
<1>5. \A o \in Objects : messages[o] = <<>> /\ Len(messages[o]) = 0
  BY <1>1
<1>6. \A o \in Objects : Alternates(messages[o])
  BY <1>5 DEF Alternates
<1>7. \A o \in undisturbed : InTurn(o)
  BY <1>1, <1>2, <1>5, <1>6 DEF InTurn
<1>8. \A o \in Objects :
          Len(messages[o]) + Cardinality(Awaiting(o)) <= MaxMessagesPerSession + Cardinality(Clients)
  <2>1. \A o \in Objects : Cardinality(Awaiting(o)) = 0
    BY <1>2, <1>3
  <2>2. 0 + 0 <= MaxMessagesPerSession + Cardinality(Clients)
    BY <1>4
  <2> QED
    BY <1>5, <2>1, <2>2
<1> QED
  BY <1>1, <1>5, <1>7, <1>8 DEF ChatInv

\* The services, the file and the commands keep their types, and no history outgrows the
\* limit by more than the replies that overlap, for any number of clients and commands
\* (chat.service.ts:85-112, auth.service.ts, config.ts).
THEOREM TypeAlwaysOK == Spec => []TypeOK
<1>1. Init => CallOK /\ KeysInv /\ Shape /\ ChatInv
  BY KeysAtFirst, ShapeAtFirst, ChatAtFirst
<1>2. CallOK /\ KeysInv /\ Shape /\ ChatInv /\ [Next]_vars
          => CallOK' /\ KeysInv' /\ Shape' /\ ChatInv'
  BY StepKeepsKeys, StepKeepsShape, StepKeepsChat
<1>3. ASSUME CallOK, KeysInv, Shape, ChatInv
      PROVE  TypeOK
  <2>1. MintedBound /\ minted <= nonces /\ commands \in Nat /\ nonces \in Nat
    BY <1>3, Bounds DEF Shape, KeysCounted
  <2>2. AuthTypeOK
    <3>1. apiKeys \in [Pubkeys -> [key : 1..minted, revoked : BOOLEAN] \cup {None}]
      <4>1. ASSUME NEW w \in Pubkeys
            PROVE  apiKeys[w] \in [key : 1..minted, revoked : BOOLEAN] \cup {None}
        BY <1>3 DEF KeysInv, KeysTyped, Row
      <4>2. apiKeys = [w \in Pubkeys |-> apiKeys[w]]
        BY <1>3 DEF KeysInv, KeysTyped
      <4> QED
        BY <4>1, <4>2
    <3>2. revokedKeys \subseteq 1..minted
      BY <1>3 DEF KeysInv, Revoked
    <3>3. minted \in 0..nonces
      BY <2>1 DEF MintedBound
    <3> QED
      BY <1>3, <2>1, <3>1, <3>2, <3>3 DEF AuthTypeOK, Shape, KeysCounted
  <2>3. FaucetTypeOK
    BY <1>3 DEF FaucetTypeOK, Shape, FaucetTyped
  <2>4. ChatTypeOK
    <3>1. ASSUME NEW o \in Objects
          PROVE  Len(messages[o]) <= MaxMessagesPerSession + Cardinality(Clients)
      <4>1. /\ Len(messages[o]) + Cardinality(Awaiting(o)) <= MaxMessagesPerSession + Cardinality(Clients)
            /\ Len(messages[o]) \in Nat
        BY <1>3 DEF ChatInv
      <4>2. Cardinality(Awaiting(o)) \in Nat /\ Cardinality(Clients) \in Nat
            /\ MaxMessagesPerSession \in Nat
        BY AwaitingFinite, SessionsAssumption
      <4> QED
        BY <4>1, <4>2
    <3> QED
      BY <1>3, <3>1 DEF ChatTypeOK, ChatInv, Shape, SessionsTyped
  <2>5. generated \in 0..(2 * MaxCommands + 2)
    BY <1>3, SessionsAssumption DEF Shape, CommandsTyped
  <2> QED
    BY <1>3, <2>2, <2>3, <2>4, <2>5 DEF TypeOK, Shape, CommandsTyped
<1> QED
  BY <1>1, <1>2, <1>3, PTL DEF Spec

\* While each message of a session waits for the reply before, user and assistant take
\* turns, for any number of clients, messages and any even limit (chat.service.ts:85-112).
THEOREM TurnsAlwaysAlternate == Spec => []TurnsAlternate
<1>1. Init => CallOK /\ KeysInv /\ Shape /\ ChatInv
  BY KeysAtFirst, ShapeAtFirst, ChatAtFirst
<1>2. CallOK /\ KeysInv /\ Shape /\ ChatInv /\ [Next]_vars
          => CallOK' /\ KeysInv' /\ Shape' /\ ChatInv'
  BY StepKeepsKeys, StepKeepsShape, StepKeepsChat
<1>3. ChatInv => TurnsAlternate
  BY DEF ChatInv, InTurn, Alternates, TurnsAlternate
<1> QED
  BY <1>1, <1>2, <1>3, PTL DEF Spec

----------------------------------------------------------------------------
(* One command at a time                                                   *)

\* There is no key, or it is one that the rows accept.
Accepted(key, rows) ==
    key = None \/ \E w \in Pubkeys : rows[w] # None /\ rows[w].key = key /\ ~rows[w].revoked

\* The command m was answered, and has not saved yet what that did to its key.
Settled(m, q) ==
    /\ m.pc = "asked" /\ m.name \in {"auth_signed", "auth_revoke"}
    /\ q.stage = "answered" /\ q.error = None

\* The only command, m with its request q, has all that is in the file f and all that was
\* stored, and knows the row it is about to overwrite.
Doing(m, q, f, s, rows) ==
    /\ m.pc # "gone"
    /\ m.pc = "asked" => f = m.config
    /\ m.pc # "torn" => f # None /\ s \subseteq Wallets(f)
    /\ s \subseteq Wallets(m.config)
    /\ Accepted(m.config.apiKey, rows) \/ Settled(m, q)
    /\ q # None /\ Settled(m, q) /\ m.name = "auth_signed" => Accepted(q.value, rows)
    /\ q # None /\ q.stage = "flushKey" => q.row = rows[q.pubkey]

\* No command is at work.
Rested(f, s, rows) == f # None /\ s \subseteq Wallets(f) /\ Accepted(f.apiKey, rows)

Active == {c \in Clients : cli[c] # None}

InOrder ==
    orderly =>
        /\ \A c, d \in Active : c = d
        /\ \A c \in Active : Doing(cli[c], call[c], file, stored, apiKeys)
        /\ Active = {} => Rested(file, stored, apiKeys)

\* What a step of the only command has to show.
LEMMA OrderStep ==
    ASSUME InOrder, orderly, NEW c \in Active, Alone(c),
           cli'[c] # None => Doing(cli'[c], call'[c], file', stored', apiKeys'),
           cli'[c] = None => Rested(file', stored', apiKeys')
    PROVE  InOrder'
<1>1. Active = {c} /\ Active' \subseteq {c} /\ c \in Clients
  BY DEF InOrder, Active, Alone
<1>2. c \in Active' <=> cli'[c] # None
  BY <1>1 DEF Active
<1>3. Active' = {} => cli'[c] = None
  BY <1>2
<1> QED
  BY <1>1, <1>2, <1>3 DEF InOrder

\* A command that starts finds none at work.
LEMMA BeginKeepsOrder ==
    ASSUME CallOK, KeysInv, Shape, InOrder, NEW c \in Clients, Begin(c)
    PROVE  InOrder'
<1>1. Begun(c)
  BY CommandBegins DEF Shape
<1>2. CASE ~orderly'
  BY <1>2 DEF InOrder
<1>3. CASE orderly'
  <2>1. orderly /\ Active = {} /\ Rested(file, stored, apiKeys)
    BY <1>1, <1>3 DEF Begun, Active, InOrder
  <2>2. file' = file /\ stored' = stored /\ apiKeys' = apiKeys /\ LoadConfig = file
    BY <1>1, <2>1 DEF Begun, authVars, Rested, LoadConfig
  <2>3. Active' \subseteq {c}
    BY <1>1, <2>1 DEF Begun, Alone, Active
  <2>4. ASSUME cli'[c] # None
        PROVE  Doing(cli'[c], call'[c], file', stored', apiKeys')
    <3>1. /\ cli'[c].pc \in {"loaded", "asked"}
          /\ cli'[c].pc = "asked" => cli'[c].config = file
          /\ Wallets(file) \subseteq Wallets(cli'[c].config)
          /\ cli'[c].config.apiKey = file.apiKey
          /\ call'[c] = None \/ call'[c].stage \in {"challenge", "revoke", "guard", "message"}
      BY <1>1, <2>2 DEF Begun
    <3>2. call'[c] # None => ~Settled(cli'[c], call'[c])
      BY <3>1 DEF Settled
    <3> QED
      BY <2>1, <2>2, <3>1, <3>2 DEF Doing, Rested
  <2>5. Active' = {} => Rested(file', stored', apiKeys')
    BY <2>1, <2>2
  <2>6. \A d \in Active' : d = c /\ cli'[c] # None
    BY <2>3 DEF Active
  <2> QED
    BY <2>4, <2>5, <2>6 DEF InOrder
<1> QED
  BY <1>2, <1>3

\* Whoever asks is at work.
LEMMA AskerIsActive ==
    ASSUME Shape, InOrder, orderly, NEW c \in Clients, call[c] # None
    PROVE  /\ c \in Active /\ cli[c].pc = "asked"
           /\ Doing(cli[c], call[c], file, stored, apiKeys)
<1>1. cli[c] # None /\ cli[c].pc \notin {"loaded", "torn"} /\ cli[c] \in Command
  BY WhoAsks DEF Shape, CommandsTyped
<1>2. c \in Active /\ Doing(cli[c], call[c], file, stored, apiKeys)
  BY <1>1 DEF Active, InOrder
<1> QED
  BY <1>1, <1>2, CommandFields DEF Doing

\* Handlers that write no row, when they answer with no key.
LEMMA ServedInOrder ==
    ASSUME Shape, InOrder, NEW c \in Clients, Served(c), UNCHANGED <<cliVars, apiKeys>>,
           call[c] # None, call[c].stage # "answered",
           call'[c] # None /\ call'[c].stage = "answered" =>
               call'[c].value = None \/ cli[c].name # "auth_signed",
           call'[c] # None /\ call'[c].stage = "flushKey" =>
               call'[c].row = apiKeys[call'[c].pubkey]
    PROVE  InOrder'
<1>1. file' = file /\ stored' = stored /\ orderly' = orderly /\ cli' = cli
  BY DEF cliVars
<1>2. CASE ~orderly
  BY <1>1, <1>2 DEF InOrder
<1>3. CASE orderly
  <2>1. c \in Active /\ cli[c].pc = "asked" /\ cli[c] # None
        /\ Doing(cli[c], call[c], file, stored, apiKeys)
    BY <1>3, AskerIsActive DEF Active
  <2>2. Accepted(cli[c].config.apiKey, apiKeys)
    BY <2>1 DEF Doing, Settled
  <2>3. call'[c] # None /\ Settled(cli[c], call'[c]) /\ cli[c].name = "auth_signed" => call'[c].value = None
    BY DEF Settled
  <2>4. Doing(cli'[c], call'[c], file', stored', apiKeys')
    BY <1>1, <2>1, <2>2, <2>3 DEF Doing, Accepted
  <2> QED
    BY <1>1, <1>3, <2>1, <2>4, OrderStep DEF Served
<1> QED
  BY <1>2, <1>3

\* A registration that stored its key answers with one that is accepted.
LEMMA FlushInOrder ==
    ASSUME CallOK, KeysInv, Shape, InOrder, NEW c \in Clients, FlushKey(c),
           UNCHANGED <<faucetVars, chatVars, cliVars>>
    PROVE  InOrder'
<1> DEFINE w == call[c].pubkey
           k == call[c].key
<1>1. /\ Served(c) /\ call[c] # None /\ call[c].stage = "flushKey"
      /\ UNCHANGED <<cli, sent, minted>>
  <2>1. UNCHANGED <<cli, sent>> /\ AuthStep(c) /\ call[c].stage = "flushKey" /\ minted' = minted
    BY DEF cliVars, chatVars, AuthStep, FlushKey, At
  <2> QED
    BY <2>1, AuthTalks DEF Shape
<1>2. /\ Fits(cli[c].name, call[c], minted, sent) /\ cli[c].name = "auth_signed"
      /\ w \in Pubkeys /\ k \in 1..minted /\ k \in Nat
  <2>1. Fits(cli[c].name, call[c], minted, sent) /\ Belongs(cli[c].name, call[c].stage)
    BY <1>1, WhoAsks DEF Shape
  <2>2. cli[c].name = "auth_signed" /\ w \in Pubkeys /\ k \in 1..minted /\ minted \in Nat
    BY <1>1, <2>1, WhoseStage DEF Fits, Shape, KeysCounted
  <2>3. k \in Nat
    BY <2>2
  <2> QED
    BY <2>1, <2>2, <2>3
<1>3. CASE Refuse(c, "UNAUTHORIZED") /\ UNCHANGED apiKeys
  <2>1. call'[c].stage = "answered" /\ call'[c].value = None
    BY <1>1, <1>3, RefusalTalks DEF Shape
  <2> QED
    BY <1>1, <1>3, <2>1, ServedInOrder
<1>4. CASE /\ Reply(c, k)
           /\ \/ /\ call[c].row = None /\ apiKeys[w] = None
                 /\ apiKeys' = [apiKeys EXCEPT ![w] = [key |-> k, revoked |-> FALSE]]
              \/ /\ call[c].row # None
                 /\ apiKeys' = [apiKeys EXCEPT ![w].key = k,
                                              ![w].revoked = @ /\ ~call[c].row.revoked]
  <2>1. file' = file /\ stored' = stored /\ orderly' = orderly /\ cli' = cli
    BY DEF cliVars
  <2>2. CASE ~orderly
    BY <2>1, <2>2 DEF InOrder
  <2>3. CASE orderly
    <3>1. c \in Active /\ cli[c].pc = "asked" /\ cli[c] # None
          /\ Doing(cli[c], call[c], file, stored, apiKeys)
      BY <1>1, <2>3, AskerIsActive DEF Active
    <3>2. call[c].row = apiKeys[w]
      BY <1>1, <3>1 DEF Doing
    <3>3. call'[c].stage = "answered" /\ call'[c].value = k /\ call'[c].error = None
      BY <1>1, <1>2, <1>4, AnswerTalks DEF Shape
    <3>4. Accepted(k, apiKeys')
      <4>1. apiKeys'[w].key = k /\ ~apiKeys'[w].revoked /\ apiKeys'[w] # None
        <5>1. DOMAIN apiKeys = Pubkeys
          BY DEF KeysInv, KeysTyped
        <5>2. CASE call[c].row = None
          <6>1. apiKeys'[w] = [key |-> k, revoked |-> FALSE]
            BY <1>2, <1>4, <5>1, <5>2
          <6>2. [key |-> k, revoked |-> FALSE] \in [key : Nat, revoked : BOOLEAN]
            BY <1>2
          <6>3. apiKeys'[w].key = k /\ apiKeys'[w].revoked = FALSE
            BY <6>1
          <6> QED
            BY <6>1, <6>2, <6>3, NoneAssumption, Zenon
        <5>3. CASE call[c].row # None
          <6>1. w \in Row /\ apiKeys[w].key \in Nat /\ apiKeys[w].revoked \in BOOLEAN
                /\ apiKeys[w] = [key |-> apiKeys[w].key, revoked |-> apiKeys[w].revoked]
            <7>1. w \in Row /\ KeysTyped /\ minted \in Nat
              BY <1>2, <3>2, <5>3 DEF Row, KeysInv, KeysTyped
            <7>2. apiKeys[w].key \in 1..minted
              BY <7>1 DEF KeysTyped
            <7>3. apiKeys[w].key \in Nat
              BY <7>1, <7>2
            <7> QED
              BY <7>1, <7>3 DEF KeysTyped
          <6>2. apiKeys[w] \in [key : Nat, revoked : BOOLEAN]
            BY <6>1
          <6>3. apiKeys' = [apiKeys EXCEPT ![w].key = k,
                                           ![w].revoked = @ /\ ~apiKeys[w].revoked]
            BY <1>4, <3>2, <5>3
          <6> HIDE DEF w, k
          <6>4. /\ apiKeys'[w] \in [key : Nat, revoked : BOOLEAN]
                /\ apiKeys'[w].key = k
                /\ ~apiKeys'[w].revoked
            BY <1>2, <5>1, <6>2, <6>3
          <6> QED
            BY <6>4, NoneAssumption
        <5> QED
          BY <5>2, <5>3
      <4> QED
        BY <1>2, <4>1 DEF Accepted
    <3>5. Settled(cli[c], call'[c])
      BY <1>2, <3>1, <3>3 DEF Settled
    <3>6. Doing(cli'[c], call'[c], file', stored', apiKeys')
      BY <2>1, <3>1, <3>3, <3>4, <3>5 DEF Doing
    <3> QED
      BY <1>1, <2>1, <2>3, <3>1, <3>6, OrderStep DEF Served
  <2> QED
    BY <2>2, <2>3
<1> QED
  BY <1>3, <1>4 DEF FlushKey

\* A revocation that wrote its row is answered, and the file still holds its key.
LEMMA RevokeInOrder ==
    ASSUME CallOK, KeysInv, Shape, InOrder, NEW c \in Clients, RevokeFlush(c),
           UNCHANGED <<faucetVars, chatVars, cliVars>>
    PROVE  InOrder'
<1>1. /\ Served(c) /\ call[c] # None /\ call[c].stage = "flushRevoke"
      /\ UNCHANGED <<cli, sent, minted>>
  <2>1. UNCHANGED <<cli, sent>> /\ AuthStep(c) /\ call[c].stage = "flushRevoke" /\ minted' = minted
    BY DEF cliVars, chatVars, AuthStep, RevokeFlush, At
  <2> QED
    BY <2>1, AuthTalks DEF Shape
<1>2. cli[c].name = "auth_revoke"
  BY <1>1, WhoAsks, WhoseStage DEF Shape
<1>3. call'[c].stage = "answered" /\ call'[c].error = None
  BY <1>1, <1>2, AnswerTalks DEF RevokeFlush, Shape
<1>4. file' = file /\ stored' = stored /\ orderly' = orderly /\ cli' = cli
  BY DEF cliVars
<1>5. CASE ~orderly
  BY <1>4, <1>5 DEF InOrder
<1>6. CASE orderly
  <2>1. c \in Active /\ cli[c].pc = "asked" /\ cli[c] # None
        /\ Doing(cli[c], call[c], file, stored, apiKeys)
    BY <1>1, <1>6, AskerIsActive DEF Active
  <2>2. Doing(cli'[c], call'[c], file', stored', apiKeys')
    BY <1>2, <1>3, <1>4, <2>1 DEF Doing, Settled
  <2> QED
    BY <1>1, <1>4, <1>6, <2>1, <2>2, OrderStep DEF Served
<1> QED
  BY <1>5, <1>6

\* The other handlers of the key service write no row.
LEMMA AuthKeepsOrder ==
    ASSUME CallOK, KeysInv, Shape, InOrder, NEW c \in Clients, AuthStep(c),
           UNCHANGED <<faucetVars, chatVars, cliVars>>
    PROVE  InOrder'
<1>1. UNCHANGED <<cli, sent>>
  BY DEF cliVars, chatVars
<1>2. /\ Served(c) /\ call[c] # None /\ call[c].stage # "answered"
  BY <1>1, AuthTalks DEF Shape
<1>3. Belongs(cli[c].name, call[c].stage)
  BY <1>2, WhoAsks DEF Shape
<1>4. ASSUME NEW e, Refuse(c, e), UNCHANGED apiKeys
      PROVE  InOrder'
  <2>1. call'[c].stage = "answered" /\ call'[c].value = None
    BY <1>1, <1>2, <1>4, RefusalTalks DEF Shape
  <2> QED
    BY <1>2, <1>4, <2>1, ServedInOrder
<1>5. ASSUME NEW q, Send(c, q), UNCHANGED apiKeys, q.stage # "answered",
             q.stage = "flushKey" => q.row = apiKeys[q.pubkey]
      PROVE  InOrder'
  <2>1. call'[c] = q
    BY <1>5, SendSets
  <2> QED
    BY <1>2, <1>5, <2>1, ServedInOrder
<1>6. CASE GenerateChallenge(c)
  <2>1. cli[c].name = "auth_register" /\ UNCHANGED apiKeys
    BY <1>3, <1>6, WhoseStage DEF GenerateChallenge, At
  <2>2. call'[c].stage = "answered"
    BY <1>1, <1>2, <1>6, <2>1, AnswerTalks DEF GenerateChallenge, Shape
  <2> QED
    BY <1>2, <2>1, <2>2, ServedInOrder
<1>7. CASE VerifySignature(c)
  <2>1. UNCHANGED apiKeys
    BY <1>7 DEF VerifySignature
  <2>2. CASE Refuse(c, "UNAUTHORIZED")
    BY <1>4, <2>1, <2>2
  <2>3. CASE Send(c, [stage |-> "findRow", pubkey |-> call[c].pubkey, key |-> minted'])
    <3> DEFINE q == [stage |-> "findRow", pubkey |-> call[c].pubkey, key |-> minted']
    <3>1. q.stage = "findRow" /\ Send(c, q)
      BY <2>3
    <3> HIDE DEF q
    <3> QED
      BY <1>5, <2>1, <3>1
  <2> QED
    BY <1>7, <2>2, <2>3 DEF VerifySignature
<1>8. CASE FindRow(c)
  <2> DEFINE q == [stage |-> "flushKey", pubkey |-> call[c].pubkey, key |-> call[c].key,
                   row |-> apiKeys[call[c].pubkey]]
  <2>1. q.stage = "flushKey" /\ q.row = apiKeys[q.pubkey] /\ Send(c, q) /\ UNCHANGED apiKeys
    BY <1>8 DEF FindRow, authVars
  <2> HIDE DEF q
  <2> QED
    BY <1>5, <2>1
<1>9. CASE RevokeFind(c)
  <2>1. UNCHANGED apiKeys
    BY <1>9 DEF RevokeFind, authVars
  <2>2. CASE Refuse(c, "UNAUTHORIZED")
    BY <1>4, <2>1, <2>2
  <2>3. ASSUME NEW w, Send(c, [stage |-> "flushRevoke", pubkey |-> w, key |-> call[c].key])
        PROVE  InOrder'
    <3> DEFINE q == [stage |-> "flushRevoke", pubkey |-> w, key |-> call[c].key]
    <3>1. q.stage = "flushRevoke" /\ Send(c, q)
      BY <2>3
    <3> HIDE DEF q
    <3> QED
      BY <1>5, <2>1, <3>1
  <2> QED
    BY <1>9, <2>2, <2>3 DEF RevokeFind
<1>10. CASE Guard(c)
  <2>1. UNCHANGED apiKeys /\ cli[c].name \in {"wallet_fund", "account_sync"}
    BY <1>3, <1>10, WhoseStage DEF Guard, authVars, At
  <2>2. call'[c].stage \in {"answered", "findRow", "flushKey", "flushRevoke", "faucet", "account"}
    BY <1>1, AuthTalks DEF Shape
  <2>3. call'[c] # None => call'[c].stage # "flushKey"
    <3>1. call'[c] # None /\ cli' = cli /\ cli[c] # None => Belongs(cli[c].name, call'[c].stage)
      BY <1>2 DEF Served, Talk
    <3> QED
      BY <1>1, <1>2, <2>1, <3>1, WhoAsks, WhoseStage DEF Shape
  <2> QED
    BY <1>2, <2>1, <2>3, ServedInOrder
<1> QED
  BY <1>6, <1>7, <1>8, <1>9, <1>10, FlushInOrder, RevokeInOrder DEF AuthStep

\* The faucet, the chat and the account routes write none either.
LEMMA OthersKeepOrder ==
    ASSUME CallOK, KeysInv, Shape, InOrder, NEW c \in Clients,
           \/ FaucetStep(c) /\ UNCHANGED <<authVars, chatVars, cliVars>>
           \/ ChatStep(c) /\ UNCHANGED <<authVars, faucetVars, cliVars>>
           \/ AnswerAccount(c)
    PROVE  InOrder'
<1>1. UNCHANGED <<cliVars, apiKeys, cli, minted>>
  BY DEF cliVars, authVars, AnswerAccount
<1>2. /\ Served(c) /\ call[c] # None
      /\ call[c].stage \in {"faucet", "pay", "confirm", "message", "model", "account"}
  <2>1. CASE FaucetStep(c) /\ UNCHANGED <<authVars, chatVars, cliVars>>
    <3>1. sent' = sent
      BY <2>1 DEF chatVars
    <3> QED
      BY <1>1, <2>1, <3>1, FaucetTalks DEF Shape
  <2>2. CASE ChatStep(c)
    BY <1>1, <2>2, ChatTalks DEF Shape
  <2>3. CASE AnswerAccount(c)
    BY <2>3, AccountTalks DEF Shape
  <2> QED
    BY <2>1, <2>2, <2>3
<1>3. cli[c].name # "auth_signed" /\ cli[c] # None
  <2>1. Belongs(cli[c].name, call[c].stage) /\ cli[c] # None
    BY <1>2, WhoAsks DEF Shape
  <2> QED
    BY <1>2, <2>1, WhoseStage
<1>4. call'[c] # None => call'[c].stage # "flushKey"
  <2>1. call'[c] # None => Belongs(cli[c].name, call'[c].stage)
    BY <1>1, <1>2, <1>3 DEF Served, Talk
  <2> QED
    BY <1>3, <2>1, WhoseStage
<1> QED
  BY <1>1, <1>2, <1>3, <1>4, ServedInOrder

\* A command that goes on keeps what it read, and what it writes has all that was stored.
LEMMA CarryKeepsOrder ==
    ASSUME CallOK, KeysInv, Shape, InOrder, NEW c \in Clients,
           \/ Finish(c) \/ SignChallenge(c) \/ SaveEdited(c) \/ SaveAnswer(c)
           \/ WriteFile(c) \/ Crash(c) \/ DropAnswer(c)
    PROVE  InOrder'
<1>1. MintedBound /\ CallOK /\ CommandsTyped /\ Conversing
  BY Bounds DEF Shape
<1>2. CarriedOn(c)
  BY <1>1, CommandCarriesOn
<1>3. Alone(c) /\ apiKeys' = apiKeys
  BY <1>2 DEF CarriedOn, authVars
<1>4. CASE Crash(c)
  <2>1. ~orderly'
    BY <1>4 DEF Crash, Fault
  <2> QED
    BY <2>1 DEF InOrder
<1>5. CASE ~Crash(c)
  <2>1. orderly' = orderly /\ cli[c] # None
    BY <1>5 DEF Finish, SignChallenge, SaveEdited, SaveAnswer, EmptyFile, WriteFile, DropAnswer, End, CliAt
  <2>2. CASE ~orderly
    BY <2>1, <2>2 DEF InOrder
  <2>3. CASE orderly
    <3>1. c \in Active /\ Doing(cli[c], call[c], file, stored, apiKeys) /\ cli[c] \in Command
      BY <1>1, <2>1, <2>3 DEF Active, InOrder, CommandsTyped
    <3>2. CASE Finish(c)
      <4>1. /\ cli[c].pc = "asked" /\ call[c] # None /\ UNCHANGED <<file, stored>>
            /\ call[c].error # None \/ cli[c].name \notin {"auth_signed", "auth_revoke"}
        BY <3>2 DEF Finish, CliAt, At
      <4>2. cli'[c] = None
        BY <1>1, <3>2 DEF Finish, End, CommandsTyped
      <4>3. Rested(file', stored', apiKeys')
        BY <1>3, <3>1, <4>1 DEF Doing, Settled, Rested
      <4> QED
        BY <1>3, <2>1, <2>3, <3>1, <4>2, <4>3, OrderStep
    <3>3. CASE SignChallenge(c)
      <4>1. /\ cli[c].pc = "asked" /\ cli[c].name = "auth_register" /\ UNCHANGED <<file, stored>>
            /\ call'[c].stage = "register"
        BY <1>1, <3>3, SignCarriesOn DEF SignChallenge, CliAt
      <4>2. cli'[c].pc = "asked" /\ cli'[c].config = cli[c].config
        <5>1. cli'[c] = [cli[c] EXCEPT !.name = "auth_signed"]
          BY <1>1, <3>3 DEF SignChallenge, CommandsTyped
        <5> QED
          BY <3>1, <4>1, <5>1, CommandFields DEF Names
      <4>3. Doing(cli'[c], call'[c], file', stored', apiKeys')
        BY <1>3, <3>1, <4>1, <4>2 DEF Doing, Settled
      <4>4. cli'[c] # None
        <5>1. cli'[c] = [cli[c] EXCEPT !.name = "auth_signed"]
          BY <1>1, <3>3 DEF SignChallenge, CommandsTyped
        <5>2. [cli[c] EXCEPT !.name = "auth_signed"] \in Command
          BY <3>1, CommandFields DEF Names
        <5> QED
          BY <5>1, <5>2, NothingAssumption
      <4> QED
        BY <1>3, <2>1, <2>3, <3>1, <4>3, <4>4, OrderStep
    <3>4. CASE SaveEdited(c)
      <4>1. /\ cli[c].pc = "loaded" /\ stored' = stored
            /\ cli'[c].pc = "torn" /\ cli'[c].config = cli[c].config /\ cli'[c] # None
            /\ call'[c] = call[c]
        BY <1>1, <3>4, SaveEditedCarriesOn DEF SaveEdited, EmptyFile, CliAt
      <4>2. call[c] = None
        BY <1>1, <2>1, <4>1 DEF Conversing, Talk
      <4>3. Doing(cli'[c], call'[c], file', stored', apiKeys')
        BY <1>3, <3>1, <4>1, <4>2 DEF Doing, Settled
      <4> QED
        BY <1>3, <2>1, <2>3, <3>1, <4>1, <4>3, OrderStep
    <3>5. CASE SaveAnswer(c)
      <4>1. /\ cli[c].pc = "asked" /\ stored' = stored /\ call[c] # None /\ Send(c, None)
            /\ call[c].stage = "answered" /\ call[c].error = None
        BY <3>5 DEF SaveAnswer, EmptyFile, CliAt, At
      <4>2. /\ cli'[c].pc = "torn" /\ cli'[c] # None
            /\ Wallets(cli'[c].config) = Wallets(cli[c].config)
            /\ cli'[c].config.apiKey = CASE cli[c].name = "auth_signed" -> call[c].value
                                         [] cli[c].name = "auth_revoke" -> None
                                         [] cli[c].name = "account_sync" -> cli[c].config.apiKey
            /\ cli[c].name \in {"auth_signed", "auth_revoke", "account_sync"}
        BY <1>1, <3>5, SaveAnswerCarriesOn
      <4>3. call'[c] = None
        BY <4>1, SendSets
      <4>4. Accepted(cli'[c].config.apiKey, apiKeys')
        <5>1. CASE cli[c].name = "auth_signed"
          BY <1>3, <3>1, <4>1, <4>2, <5>1 DEF Doing, Settled
        <5>2. CASE cli[c].name = "auth_revoke"
          BY <4>2, <5>2 DEF Accepted
        <5>3. CASE cli[c].name = "account_sync"
          BY <1>3, <3>1, <4>1, <4>2, <5>3 DEF Doing, Settled
        <5> QED
          BY <4>2, <5>1, <5>2, <5>3
      <4>5. Doing(cli'[c], call'[c], file', stored', apiKeys')
        BY <3>1, <4>1, <4>2, <4>3, <4>4 DEF Doing
      <4> QED
        BY <1>3, <2>1, <2>3, <3>1, <4>2, <4>5, OrderStep
    <3>6. CASE WriteFile(c)
      <4>1. /\ cli[c].pc = "torn" /\ file' = cli[c].config
            /\ stored' = stored \cup Wallets(cli[c].config)
        BY <3>6 DEF WriteFile, CliAt
      <4>2. \/ cli'[c] = None
            \/ /\ cli'[c].pc = "asked" /\ cli'[c].config = cli[c].config
               /\ call'[c].stage = "message"
        BY <1>1, <3>6, WriteCarriesOn
      <4>3. /\ file' # None /\ stored' \subseteq Wallets(file')
            /\ Accepted(cli[c].config.apiKey, apiKeys')
        <5>1. cli[c].config \in Config
          BY <3>1, CommandFields
        <5>2. file' # None
          BY <4>1, <5>1, NothingAssumption
        <5> QED
          BY <1>3, <3>1, <4>1, <5>2 DEF Doing, Settled
      <4>4. CASE cli'[c] = None
        <5>1. Rested(file', stored', apiKeys')
          BY <4>1, <4>3 DEF Rested
        <5> QED
          BY <1>3, <2>1, <2>3, <3>1, <4>4, <5>1, OrderStep
      <4>5. CASE cli'[c] # None
        <5>1. Doing(cli'[c], call'[c], file', stored', apiKeys')
          BY <4>1, <4>2, <4>3, <4>5 DEF Doing, Settled
        <5> QED
          BY <1>3, <2>1, <2>3, <3>1, <4>5, <5>1, OrderStep
      <4> QED
        BY <4>4, <4>5
    <3>7. CASE DropAnswer(c)
      <4>1. cli[c].pc = "gone"
        BY <3>7 DEF DropAnswer, CliAt
      <4> QED
        BY <3>1, <4>1 DEF Doing
    <3> QED
      BY <1>5, <3>2, <3>3, <3>4, <3>5, <3>6, <3>7
  <2> QED
    BY <2>2, <2>3
<1> QED
  BY <1>4, <1>5

\* Every step keeps what is known of commands that do not overlap.
LEMMA StepKeepsOrder ==
    ASSUME CallOK, KeysInv, Shape, InOrder, [Next]_vars
    PROVE  InOrder'
<1>1. CASE UNCHANGED <<call, cliVars, apiKeys>>
  BY <1>1 DEF cliVars, InOrder, Active
<1>2. ASSUME NEW c \in Clients, Serve(c)
      PROVE  InOrder'
  BY <1>2, AuthKeepsOrder, OthersKeepOrder DEF Serve
<1>3. CASE TimePasses
  <2>1. UNCHANGED <<call, cliVars, apiKeys>>
    BY <1>3 DEF TimePasses, ChallengeExpires, CooldownEnds, EvictExpired, authVars
  <2> QED
    BY <1>1, <2>1
<1>4. CASE Restart
  <2>1. ~orderly'
    BY <1>4 DEF Restart, Fault
  <2> QED
    BY <2>1 DEF InOrder
<1>5. CASE UNCHANGED vars
  BY <1>1, <1>5 DEF vars, authVars
<1> QED
  BY <1>2, <1>3, <1>4, <1>5, BeginKeepsOrder, CarryKeepsOrder DEF Next

LEMMA OrderAtFirst ==
    ASSUME Init
    PROVE  InOrder
<1>1. /\ cli = [c \in Clients |-> None] /\ file = Initialized /\ stored = {1}
      /\ apiKeys = [w \in Pubkeys |-> IF w = 1 THEN [key |-> 1, revoked |-> FALSE] ELSE None]
  BY DEF Init, AuthInit
<1>2. 1 \in Pubkeys /\ 1 # None
  <2>1. 1 \in Numbers
    BY SessionsAssumption DEF Numbers
  <2> QED
    BY <2>1, SessionsAssumption, NothingAssumption
<1>3. file \in Config /\ file.apiKey = 1 /\ 1 \in Wallets(file)
  BY <1>1, <1>2, InitializedTyped
<1>4. Accepted(1, apiKeys)
  <2>1. apiKeys[1] = [key |-> 1, revoked |-> FALSE]
    BY <1>1, <1>2
  <2>2. [key |-> 1, revoked |-> FALSE] \in [key : Nat, revoked : BOOLEAN]
    OBVIOUS
  <2>3. apiKeys[1].key = 1 /\ apiKeys[1].revoked = FALSE
    BY <2>1
  <2>4. apiKeys[1] # None
    BY <2>1, <2>2, NoneAssumption
  <2> QED
    BY <1>2, <2>3, <2>4 DEF Accepted
<1>5. Active = {}
  BY <1>1 DEF Active
<1>6. Rested(file, stored, apiKeys)
  BY <1>1, <1>3, <1>4, NothingAssumption DEF Rested
<1> QED
  BY <1>5, <1>6 DEF InOrder

\* Commands that do not overlap, crash or lose an answer keep every private key that was
\* stored, for any number of clients, labels and commands (config.ts:43-55).
THEOREM WalletsAlwaysKept == Spec => []WalletsKept
<1>1. Init => CallOK /\ KeysInv /\ Shape /\ InOrder
  BY KeysAtFirst, ShapeAtFirst, OrderAtFirst
<1>2. CallOK /\ KeysInv /\ Shape /\ InOrder /\ [Next]_vars
          => CallOK' /\ KeysInv' /\ Shape' /\ InOrder'
  BY StepKeepsKeys, StepKeepsShape, StepKeepsOrder
<1>3. InOrder => WalletsKept
  <2> SUFFICES ASSUME InOrder, orderly, \A c \in Clients : ~CliAt(c, "torn")
               PROVE  file # None /\ stored \subseteq Wallets(file)
    BY DEF WalletsKept
  <2>1. CASE Active = {}
    BY <2>1 DEF InOrder, Rested
  <2>2. CASE Active # {}
    <3>1. PICK c \in Active : TRUE
      BY <2>2
    <3>2. Doing(cli[c], call[c], file, stored, apiKeys) /\ cli[c].pc # "torn"
      BY <3>1 DEF InOrder, Active, CliAt
    <3> QED
      BY <3>2 DEF Doing
  <2> QED
    BY <2>1, <2>2
<1> QED
  BY <1>1, <1>2, <1>3, PTL DEF Spec

\* Between such commands the API key in the file is one the server accepts: a registration
\* stored the key it replaced one with, and a revocation removed the one it revoked
\* (commands/auth.ts:31-33, 70-82; auth.service.ts:56-81).
THEOREM StoredKeyAlwaysAccepted == Spec => []StoredKeyAccepted
<1>1. Init => CallOK /\ KeysInv /\ Shape /\ InOrder
  BY KeysAtFirst, ShapeAtFirst, OrderAtFirst
<1>2. CallOK /\ KeysInv /\ Shape /\ InOrder /\ [Next]_vars
          => CallOK' /\ KeysInv' /\ Shape' /\ InOrder'
  BY StepKeepsKeys, StepKeepsShape, StepKeepsOrder
<1>3. InOrder => StoredKeyAccepted
  <2> SUFFICES ASSUME InOrder, orderly, \A c \in Clients : cli[c] = None
               PROVE  file.apiKey = None \/ Valid(file.apiKey)
    BY DEF StoredKeyAccepted
  <2>1. Active = {}
    BY DEF Active
  <2>2. Accepted(file.apiKey, apiKeys)
    BY <2>1 DEF InOrder, Rested
  <2> QED
    BY <2>2 DEF Accepted, Valid, RowsWith
<1> QED
  BY <1>1, <1>2, <1>3, PTL DEF Spec
=============================================================================
