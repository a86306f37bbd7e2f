------------------------------ MODULE Mandate ------------------------------
(***************************************************************************)
(* What a Silk account promises its owner, with no account of slots and of *)
(* where the funds lie: the owner disposes of the funds freely and gives   *)
(* operators the right to spend up to a limit each time, which lasts until *)
(* it is taken back or suspended.                                          *)
(***************************************************************************)
EXTENDS Integers, FiniteSets

CONSTANTS Wallets, Owners, MaxOperators, Amounts, Limits, NoMandate, Nobody

VARIABLES
    wealth,     \* the tokens of each wallet and each account
    mandate,    \* of each owner: whether suspended, and the limit of each operator
    spender     \* whose order the last step spent on, or Nobody

vars == <<wealth, mandate, spender>>

Account(o) == <<"account", o>>

Init ==
    /\ mandate = [o \in Owners |-> NoMandate]
    /\ wealth \in [Wallets \cup {Account(o) : o \in Owners} -> Nat]
    /\ \A o \in Owners : wealth[Account(o)] = 0
    /\ spender = Nobody

NobodySpends == spender' = Nobody

Pass(from, to, amount) ==
    /\ amount <= wealth[from]
    /\ wealth' = [[wealth EXCEPT ![from] = @ - amount] EXCEPT ![to] = @ + amount]

\* A mandate begins with no funds.
Open(o) ==
    /\ mandate[o] = NoMandate
    /\ wealth[Account(o)] = 0
    /\ mandate' = [mandate EXCEPT ![o] = [paused |-> FALSE, limits |-> [w \in {} |-> 0]]]
    /\ UNCHANGED wealth
    /\ NobodySpends

Has(o) == mandate[o] # NoMandate

\* Exactly one operator comes or goes; every other keeps its limit.
Appoint(o, w, limit) ==
    LET limits == mandate[o].limits
    IN  /\ Has(o)
        /\ w \notin DOMAIN limits
        /\ Cardinality(DOMAIN limits) < MaxOperators
        /\ mandate' = [mandate EXCEPT ![o].limits =
               [x \in DOMAIN limits \cup {w} |-> IF x = w THEN limit ELSE limits[x]]]
        /\ UNCHANGED wealth
        /\ NobodySpends

Dismiss(o, w) ==
    LET limits == mandate[o].limits
    IN  /\ Has(o)
        /\ w \in DOMAIN limits
        /\ mandate' = [mandate EXCEPT ![o].limits =
               [x \in DOMAIN limits \ {w} |-> limits[x]]]
        /\ UNCHANGED wealth
        /\ NobodySpends

Suspend(o) ==
    /\ Has(o)
    /\ mandate' = [mandate EXCEPT ![o].paused = ~@]
    /\ UNCHANGED wealth
    /\ NobodySpends

MaySpend(w, o, amount) ==
    \/ w = o
    \/ /\ ~mandate[o].paused
       /\ w \in DOMAIN mandate[o].limits
       /\ mandate[o].limits[w] = 0 \/ amount <= mandate[o].limits[w]

Spend(w, o, to, amount) ==
    /\ Has(o)
    /\ MaySpend(w, o, amount)
    /\ Pass(Account(o), to, amount)
    /\ UNCHANGED mandate
    /\ spender' = w

\* Anyone may add to the funds, a mandate or not.
PayIn(w, o, amount) ==
    /\ Pass(w, Account(o), amount)
    /\ UNCHANGED mandate
    /\ NobodySpends

\* The owner takes back whatever is there.
Close(o) ==
    /\ Has(o)
    /\ Pass(Account(o), o, wealth[Account(o)])
    /\ mandate' = [mandate EXCEPT ![o] = NoMandate]
    /\ NobodySpends

\* The market moves the funds of an account, up or down.
Market(o) ==
    /\ Has(o)
    /\ wealth'[Account(o)] \in Nat
    /\ wealth' = [wealth EXCEPT ![Account(o)] = wealth'[Account(o)]]
    /\ UNCHANGED mandate
    /\ NobodySpends

\* Where the funds lie is no concern of the mandate.
Rearrange == NobodySpends /\ UNCHANGED <<wealth, mandate>>

Next ==
    \/ Rearrange
    \/ \E o \in Owners :
        \/ Open(o) \/ Suspend(o) \/ Close(o)
        \/ \E w \in Wallets :
            \/ \E limit \in Limits : Appoint(o, w, limit)
            \/ Dismiss(o, w)
            \/ \E n \in 1..wealth[w] : PayIn(w, o, n)
            \/ \E n \in Amounts, to \in Wallets \cup {Account(x) : x \in Owners} :
                   Spend(w, o, to, n)
        \/ Market(o)

Spec == Init /\ [][Next]_vars
=============================================================================
