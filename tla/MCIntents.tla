----------------------------- MODULE MCIntents -----------------------------
EXTENDS Intents, TLC

alice == Key("alice")
bob == Key("bob")
carol == Key("carol")
pda == AccountPda(alice)

\* 1, 1.00, 0.5, 1.05 and 0.05 (too many digits for one decimal), 1000.1
One == [digits |-> 1, frac |-> 0]
OneAndZeros == [digits |-> 100, frac |-> 2]
Half == [digits |-> 5, frac |-> 1]
Fine == [digits |-> 105, frac |-> 2]
Tiny == [digits |-> 5, frac |-> 2]
Large == [digits |-> 10001, frac |-> 1]

MCPools == {"none", "usdc", "other"}
MCAccounts == {<<>>, [mint |-> "usdc", drift |-> FALSE], [mint |-> "usdc", drift |-> TRUE]}

Holdings == (Ata("usdc", alice) :> 20) @@ (Ata("usdc", bob) :> 0) @@ (Ata("other", alice) :> 20000)
            @@ (Ata("devUsdc", alice) :> 20)

MCInitialChains ==
    {[pool |-> p, tokens |-> Holdings, sol |-> (alice :> 200 @@ bob :> 0 @@ carol :> 0),
      account |-> IF p = "usdc" THEN [mint |-> "usdc", drift |-> TRUE] ELSE <<>>,
      stats |-> p = "usdc",
      transfer |-> [sender |-> alice]] : p \in {"usdc", "other"}}

MCInitialRows == {[decimals |-> [usdc |-> 1], pool |-> "usdc"], [decimals |-> <<>>, pool |-> "none"]}

Intent(action, extra) ==
    extra @@ [chain |-> "solana", network |-> "mainnet", strict |-> FALSE, compound |-> FALSE,
              actions |-> <<action>>]

Transfer(to, amount, extra) ==
    extra @@ [action |-> "transfer", from |-> alice, to |-> to, amount |-> [eq |-> amount]]

ByName(program) == [programName |-> program]

Swap == [action |-> "swap", from |-> alice, tokenIn |-> [tokenSymbol |-> "SOL"],
         tokenOut |-> [token |-> "usdc"], amountIn |-> [eq |-> One]]

TransferIntents ==
    {Intent(Transfer(bob, a, x), <<>>) : a \in {One, OneAndZeros, Half},
                                          x \in {<<>>, [token |-> "usdc"]}}
    \cup {Intent(Transfer(carol, One, [tokenSymbol |-> "USDC"]), <<>>),
          Intent(Transfer(bob, One, [tokenSymbol |-> "USDC"]), [network |-> "devnet"]),
          Intent(Transfer(bob, Large, [token |-> "other"]), [program |-> "token"]),
          Intent(Transfer(bob, One, [token |-> "usdc"]), [program |-> "system"]),
          Intent(Transfer(bob, One, [memo |-> "m"]), ByName("handshake")),
          Intent(Transfer(bob, Half, <<>>), [program |-> "handshake", strict |-> TRUE]),
          Intent(Transfer(carol, Fine, <<>>), ByName("handshake")),
          Intent(Transfer(bob, Malformed, <<>>), ByName("native"))}

Payment(to, amount, by) ==
    [kind |-> "transfer", sender |-> alice, recipient |-> to, amount |-> amount, by |-> by,
     memo |-> "m"]

AccountRequest(kind) ==
    [kind |-> kind, owner |-> alice, pda |-> pda, operator |-> bob, recipient |-> bob,
     amount |-> 1, mint |-> "usdc", limit |-> 1]

\* Transactions from elsewhere.
Create(units, mint, to) ==
    CreateTransferIx([sender |-> alice, recipient |-> to, memo |-> "m", amount |-> units,
                      pda |-> TransferPda(alice, to, "n")], mint)
Short(ix) == [ix EXCEPT !.short = TRUE]
Sol(to, units) == Ix("system", "transfer", <<alice, to>>, [amount |-> units])
Token(to, units) ==
    Ix("token", "transfer", <<Ata("usdc", alice), Ata("usdc", to), alice>>, [amount |-> units])
Checked(to, units) ==
    Ix("token", "transfer_checked",
       <<Ata("usdc", alice), Key("usdc"), Ata("usdc", to), alice>>,
       [amount |-> units, decimals |-> 1])
HiddenMint(ix) == [ix EXCEPT !.accounts[3] = Unresolved]
Budget == Ix("budget", "set_compute_unit_price", <<>>, <<>>)
Stranger == Ix("stranger", "unknown", <<>>, <<>>)

ForeignIxs ==
    {<<Create(10, "usdc", bob)>>, <<Create(11, "usdc", bob)>>, <<Create(10, "usdc", carol)>>,
     <<Create(10, "other", bob)>>, <<Create(100, "other", bob)>>,
     <<Short(Create(11, "usdc", carol))>>, <<HiddenMint(Create(10, "other", bob))>>,
     <<Create(10, "usdc", bob), Create(10, "usdc", carol)>>, <<Budget, Sol(bob, 100)>>,
     <<Budget, Sol(bob, 150)>>, <<Sol(carol, 100)>>, <<Token(bob, 10)>>, <<Token(bob, 20)>>,
     <<Checked(bob, 10)>>, <<Sol(bob, 100), Sol(bob, 100)>>, <<Create(10, "usdc", bob), Stranger>>}

Bound == [action |-> "transfer", from |-> alice, to |-> bob,
          amount |-> [gte |-> One, lt |-> Fine]]
Compound(actions, strict) ==
    [chain |-> "solana", network |-> "mainnet", strict |-> strict, compound |-> TRUE,
     actions |-> actions]

ForeignIntents ==
    {Intent(Transfer(bob, One, <<>>), <<>>), Intent(Transfer(bob, One, [token |-> "usdc"]), <<>>),
     Intent(Transfer(bob, One, <<>>), [programName |-> "handshake", strict |-> TRUE]),
     Intent(Bound, <<>>), Intent(Transfer(bob, Fine, [token |-> "usdc"]), <<>>),
     Compound(<<Transfer(bob, One, <<>>), Transfer(bob, One, <<>>)>>, FALSE),
     Compound(<<Transfer(bob, One, <<>>)>>, TRUE)}

V1Intents ==
    {[type |-> "create_transfer", sender |-> alice, recipient |-> bob, amount |-> One] @@ x :
         x \in {[tokenAddress |-> Key("usdc")], [token |-> "USDC"], [tokenAddress |-> Key("other")]}}

MCRequests ==
    {[kind |-> "build", intent |-> i] : i \in TransferIntents}
    \cup {[kind |-> "build", intent |-> Intent(Swap, <<>>)],
          [kind |-> "build", intent |-> Intent(Transfer(bob, One, <<>>), <<>>), feePayer |-> bob]}
    \cup {Payment(bob, a, by) : a \in {One, Half, Large}, by \in {"pool", "usdc"}}
    \cup {Payment(bob, Fine, "pool"), Payment(bob, Tiny, "pool"),
          [AccountRequest("create") EXCEPT !.operator = Unresolved],
          [kind |-> "claim", claimer |-> bob, pda |-> TransferPda(alice, bob, "n")],
          [kind |-> "cancel", canceller |-> alice, pda |-> TransferPda(alice, bob, "n")]}
    \cup {AccountRequest(k) :
              k \in {"create", "deposit", "spend", "close", "pause", "add", "remove"}}
    \cup {[kind |-> "analyze", tx |-> Tx(alice, ixs), intent |-> i] :
              ixs \in ForeignIxs, i \in ForeignIntents}
    \cup {[kind |-> "analyze", tx |-> Tx(alice, JupiterIxs(alice, "sol", "usdc")),
           intent |-> Intent(Swap, <<>>)]}
    \cup {[kind |-> "verify", tx |-> Tx(alice, ixs), intent |-> i] :
              ixs \in ForeignIxs, i \in V1Intents}
=============================================================================
