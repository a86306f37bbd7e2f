------------------------------ MODULE Sessions ------------------------------
(***************************************************************************)
(* The command line (packages/sdk/src: config.ts, commands/) against the   *)
(* backend's API keys, faucet and chat.                                    *)
(*                                                                         *)
(* A command reads config.json once, may wait for the backend, and writes  *)
(* the whole file back: the file is empty between being opened and being   *)
(* written, and a command that reads it then starts from the defaults.     *)
(* Processes overlap, crash, or give up after 30 seconds while the server  *)
(* goes on; the server restarts and forgets what it holds in memory.       *)
(*                                                                         *)
(* SILKY_API_URL names one server for both clusters, SILKY_API_KEY is not  *)
(* set.  A wallet stands for its key pair; wallets and agent ids are       *)
(* numbered as they are generated.                                         *)
(***************************************************************************)
EXTENDS AuthService, FaucetService, ChatService

CONSTANTS
    Labels,         \* names of wallets; "main" is one
    Accounts,       \* what the account routes may answer
    MaxCommands,    \* bound on the commands started
    MaxFaults       \* bound on crashes, timeouts and restarts

VARIABLES
    file,           \* config.json, or None when absent or empty
    cli,            \* client -> its command, or None
    commands,       \* commands started so far
    faults,         \* faults so far
    generated,      \* wallets and agents generated so far
    stored,         \* wallets a command succeeded to write
    orderly         \* no command overlapped another, crashed or lost an answer

cliVars == <<file, cli, commands, faults, generated, stored, orderly>>
vars == <<call, authVars, faucetVars, chatVars, cliVars>>

DefaultConfig ==
    [wallets |-> [l \in Labels |-> None], defaultWallet |-> "main", cluster |-> "mainnet-beta",
     agentId |-> None, apiKey |-> None, account |-> None]

Wallets(config) == {config.wallets[l] : l \in Labels} \ {None}

\* The file that silky init and silky auth register leave.
Initialized == [DefaultConfig EXCEPT !.wallets["main"] = 1, !.agentId = 2, !.apiKey = 1]

Numbers == 1..(2 * MaxCommands + 2)

ASSUME SessionsAssumption ==
    /\ IsFiniteSet(Clients) /\ IsFiniteSet(Labels) /\ "main" \in Labels
    /\ {MaxCommands, MaxFaults, MaxMessages} \subseteq Nat
    /\ MaxMessagesPerSession \in Nat \ {0} /\ MaxMessagesPerSession % 2 = 0
    /\ Pubkeys = Numbers /\ Agents = Numbers /\ FaucetWallets = Numbers

Config ==
    [wallets : [Labels -> Pubkeys \cup {None}], defaultWallet : Labels,
     cluster : {"mainnet-beta", "devnet", None}, agentId : Agents \cup {None},
     apiKey : 1..(MaxCommands + 1) \cup {None}, account : Accounts \cup {None}]

\* pc: "loaded" (about to save), "asked", "torn" (the file is emptied), "gone" (gave
\* up or died, its request still handled).
Command ==
    [pc : {"loaded", "asked", "torn", "gone"},
     name : {"wallet_create", "init", "config", "auth_register", "auth_signed", "auth_revoke",
             "wallet_fund", "account_sync", "chat"},
     config : Config, wallet : Pubkeys \cup {None}]

\* A configuration, a command or a wallet is not the value for none.
ASSUME NothingAssumption == None \notin Config /\ None \notin Command /\ None \notin Numbers

Init ==
    /\ call = [c \in Clients |-> None]
    /\ AuthInit /\ FaucetInit /\ ChatInit
    /\ file = Initialized
    /\ cli = [c \in Clients |-> None]
    /\ commands = 0 /\ faults = 0
    /\ generated = 2
    /\ stored = {1}
    /\ orderly = TRUE

\* The state of the three services, of the file and of the commands has its type: no
\* history outgrows the limit by more than the replies that overlap.
TypeOK ==
    /\ AuthTypeOK /\ FaucetTypeOK /\ ChatTypeOK
    /\ file # None => file \in Config
    /\ cli \in [Clients -> Command \cup {None}]
    /\ commands \in 0..MaxCommands /\ faults \in 0..MaxFaults
    /\ generated \in 0..(2 * MaxCommands + 2)
    /\ stored \subseteq 1..generated
    /\ orderly \in BOOLEAN

\* loadConfig.
LoadConfig == IF file = None THEN DefaultConfig ELSE file

----------------------------------------------------------------------------
(* Starting a command                                                      *)

\* Client c starts a command with the configuration it loaded.
Start(c, name, pc, config, wallet) ==
    /\ cli[c] = None /\ call[c] = None
    /\ commands < MaxCommands
    /\ commands' = commands + 1
    /\ cli' = [cli EXCEPT ![c] = [pc |-> pc, name |-> name, config |-> config, wallet |-> wallet]]
    /\ orderly' = (orderly /\ \A d \in Clients : cli[d] = None)
    /\ UNCHANGED <<file, faults, stored>>

\* A command that only edits the file.
Edit(c, name, config) ==
    /\ Start(c, name, "loaded", config, None)
    /\ UNCHANGED <<call, authVars, faucetVars, chatVars>>

\* A command that first asks the server.
Ask(c, name, wallet, request) ==
    /\ Start(c, name, "asked", LoadConfig, wallet)
    /\ Send(c, request)
    /\ UNCHANGED <<authVars, faucetVars, chatVars, generated>>

\* Faulty variant: the list of wallets is replaced.
WithThisWallet(config, l, w) ==
    [config EXCEPT !.wallets = [DefaultConfig.wallets EXCEPT ![l] = w], !.defaultWallet = l]

\* The new wallet becomes the default when it is the only one.
WithWallet(config, l, w) ==
    [config EXCEPT !.wallets[l] = w,
                   !.defaultWallet = IF Wallets(config) = {} THEN l ELSE @]

WithAgent(config, a) == [config EXCEPT !.agentId = a]

WalletCreate(c, l) ==
    /\ LoadConfig.wallets[l] = None
    /\ generated' = generated + 1
    /\ Edit(c, "wallet_create", WithWallet(LoadConfig, l, generated'))

\* silky init: what is missing is made, and saved.
InitSdk(c) ==
    LET config == LoadConfig
        walletMade == config.wallets["main"] = None
        agentMade == config.agentId = None
        withWallet == IF walletMade THEN WithWallet(config, "main", generated + 1) ELSE config
    IN  /\ walletMade \/ agentMade
        /\ generated' = generated + Cardinality({x \in {<<1, walletMade>>, <<2, agentMade>>} : x[2]})
        /\ Edit(c, "init", IF agentMade THEN WithAgent(withWallet, generated') ELSE withWallet)

SetCluster(c, cluster) ==
    /\ Edit(c, "config", [LoadConfig EXCEPT !.cluster = cluster])
    /\ UNCHANGED generated

\* getWallet: the wallet of the label, if there is one.
AuthRegister(c, l) ==
    LET w == LoadConfig.wallets[l]
    IN  /\ w # None
        /\ Ask(c, "auth_register", w, [stage |-> "challenge", pubkey |-> w])

AuthRevoke(c) ==
    /\ LoadConfig.apiKey # None
    /\ Ask(c, "auth_revoke", None, [stage |-> "revoke", key |-> LoadConfig.apiKey])

WalletFund(c, l, token) ==
    LET w == LoadConfig.wallets[l]
    IN  /\ w # None
        /\ Ask(c, "wallet_fund", w, [stage |-> "guard", then |-> "faucet", token |-> token,
                                     pubkey |-> w, key |-> LoadConfig.apiKey])

AccountSync(c, l) ==
    LET w == LoadConfig.wallets[l]
    IN  /\ w # None
        /\ Ask(c, "account_sync", w, [stage |-> "guard", then |-> "account",
                                      pubkey |-> w, key |-> LoadConfig.apiKey])

\* silky chat: an agent id that is missing is made, and saved, before asking.
Chat(c) ==
    \/ /\ LoadConfig.agentId # None
       /\ Ask(c, "chat", None, [stage |-> "message", agent |-> LoadConfig.agentId])
    \/ /\ LoadConfig.agentId = None
       /\ generated' = generated + 1
       /\ Edit(c, "chat", WithAgent(LoadConfig, generated'))

Begin(c) ==
    \/ InitSdk(c) \/ AuthRevoke(c) \/ Chat(c)
    \/ \E l \in Labels : WalletCreate(c, l) \/ AuthRegister(c, l) \/ AccountSync(c, l)
    \/ \E l \in Labels, token \in Tokens : WalletFund(c, l, token)
    \/ \E cluster \in {"devnet", None} : SetCluster(c, cluster)

----------------------------------------------------------------------------
(* Carrying on                                                             *)

CliAt(c, pc) == cli[c] # None /\ cli[c].pc = pc

\* The account routes answer what they like about the wallet (see Operators).
AnswerAccount(c) ==
    /\ At(c, "account")
    /\ \/ \E a \in Accounts \cup {None} : Reply(c, a)
       \/ Refuse(c, "ACCOUNT_NOT_FOUND")
    /\ UNCHANGED <<authVars, faucetVars, chatVars, cliVars>>

\* Faulty variant: the key stays when it is revoked.
EditedButRevoke(command, value) ==
    CASE command.name = "auth_signed" -> [command.config EXCEPT !.apiKey = value]
      [] command.name = "auth_revoke" -> command.config
      [] command.name = "account_sync" -> [command.config EXCEPT !.account = value]

\* What the answer makes of the configuration.
Edited(command, value) ==
    CASE command.name = "auth_signed" -> [command.config EXCEPT !.apiKey = value]
      [] command.name = "auth_revoke" -> [command.config EXCEPT !.apiKey = None]
      [] command.name = "account_sync" -> [command.config EXCEPT !.account = value]

End(c) == cli' = [cli EXCEPT ![c] = None] /\ UNCHANGED <<commands, faults, generated, orderly>>

\* An error, or an answer that needs no saving, ends the command.
Finish(c) ==
    /\ CliAt(c, "asked") /\ At(c, "answered")
    /\ \/ call[c].error # None
       \/ cli[c].name \in {"chat", "wallet_fund"}
       \/ cli[c].name = "account_sync" /\ call[c].value = None
    /\ End(c) /\ Send(c, None)
    /\ UNCHANGED <<authVars, faucetVars, chatVars, file, stored>>

\* The nonce is signed and sent back.
SignChallenge(c) ==
    LET w == cli[c].wallet
    IN  /\ CliAt(c, "asked") /\ At(c, "answered") /\ call[c].error = None
        /\ cli[c].name = "auth_register"
        /\ cli' = [cli EXCEPT ![c].name = "auth_signed"]
        /\ Send(c, [stage |-> "register", pubkey |-> w, signature |-> <<w, call[c].value>>])
        /\ UNCHANGED <<authVars, faucetVars, chatVars, file, commands, faults, generated, stored, orderly>>

\* saveConfig opens the file, which empties it ...
EmptyFile(c, config) ==
    /\ file' = None
    /\ cli' = [cli EXCEPT ![c].pc = "torn", ![c].config = config]
    /\ UNCHANGED <<authVars, faucetVars, chatVars, commands, faults, generated, stored, orderly>>

SaveEdited(c) ==
    /\ CliAt(c, "loaded")
    /\ EmptyFile(c, cli[c].config)
    /\ UNCHANGED call

SaveAnswer(c) ==
    /\ CliAt(c, "asked") /\ At(c, "answered") /\ call[c].error = None
    /\ \/ cli[c].name \in {"auth_signed", "auth_revoke"}
       \/ cli[c].name = "account_sync" /\ call[c].value # None
    /\ EmptyFile(c, Edited(cli[c], call[c].value))
    /\ Send(c, None)

\* ... and writes it.  silky chat goes on to ask.
WriteFile(c) ==
    LET config == cli[c].config
    IN  /\ CliAt(c, "torn")
        /\ file' = config
        /\ stored' = stored \cup Wallets(config)
        /\ \/ cli[c].name # "chat" /\ End(c) /\ UNCHANGED call
           \/ /\ cli[c].name = "chat"
              /\ cli' = [cli EXCEPT ![c].pc = "asked"]
              /\ Send(c, [stage |-> "message", agent |-> config.agentId])
              /\ UNCHANGED <<commands, faults, generated, orderly>>
        /\ UNCHANGED <<authVars, faucetVars, chatVars>>

----------------------------------------------------------------------------
(* Faults                                                                  *)

Fault ==
    /\ faults < MaxFaults
    /\ faults' = faults + 1
    /\ orderly' = FALSE
    /\ UNCHANGED <<file, commands, generated, stored>>

\* The process dies, or waited 30 seconds for its answer.
Crash(c) ==
    /\ cli[c] # None /\ cli[c].pc # "gone"
    /\ Fault
    /\ \/ /\ Handling(c)
          /\ cli' = [cli EXCEPT ![c].pc = "gone"]
          /\ UNCHANGED call
       \/ ~Handling(c) /\ cli' = [cli EXCEPT ![c] = None] /\ Send(c, None)
    /\ UNCHANGED <<authVars, faucetVars, chatVars>>

\* Nobody waits for the answer any more.
DropAnswer(c) ==
    /\ CliAt(c, "gone") /\ At(c, "answered")
    /\ End(c) /\ Send(c, None)
    /\ UNCHANGED <<authVars, faucetVars, chatVars, file, stored>>

Restart ==
    /\ Fault
    /\ call' = [c \in Clients |-> IF Handling(c) THEN Refused("NETWORK_ERROR") ELSE call[c]]
    /\ AuthRestart /\ FaucetRestart /\ ChatRestart
    /\ UNCHANGED cli

----------------------------------------------------------------------------

Serve(c) ==
    \/ AuthStep(c) /\ UNCHANGED <<faucetVars, chatVars, cliVars>>
    \/ FaucetStep(c) /\ UNCHANGED <<authVars, chatVars, cliVars>>
    \/ ChatStep(c) /\ UNCHANGED <<authVars, faucetVars, cliVars>>
    \/ AnswerAccount(c)

TimePasses ==
    \/ \E w \in Pubkeys : ChallengeExpires(w) /\ UNCHANGED <<faucetVars, chatVars, cliVars>>
    \/ \E k \in FaucetKeys : CooldownEnds(k) /\ UNCHANGED <<authVars, chatVars, cliVars>>
    \/ \E a \in Agents : EvictExpired(a) /\ UNCHANGED <<authVars, faucetVars, cliVars>>

Next ==
    \/ \E c \in Clients :
           \/ Begin(c) \/ Serve(c)
           \/ Finish(c) \/ SignChallenge(c) \/ SaveEdited(c) \/ SaveAnswer(c) \/ WriteFile(c)
           \/ Crash(c) \/ DropAnswer(c)
    \/ TimePasses
    \/ Restart

Spec == Init /\ [][Next]_vars

----------------------------------------------------------------------------

\* Commands that do not overlap, crash or lose an answer keep every private key that
\* was stored (config.ts:43-55 writes the whole file from what was read before the
\* awaits, and an unreadable file counts as an empty one).
WalletsKept ==
    orderly /\ (\A c \in Clients : ~CliAt(c, "torn")) =>
        \A w \in stored : file # None /\ w \in Wallets(file)

\* Between such commands the API key in the file is one the server accepts: the
\* registration that replaced a key also stored it, and a revocation that succeeded
\* also removed it (commands/auth.ts:31-33, 70-82; auth.service.ts:56-81).
StoredKeyAccepted ==
    orderly /\ (\A c \in Clients : cli[c] = None) =>
        \/ file = None
        \/ file.apiKey = None
        \/ Valid(file.apiKey)
=============================================================================
