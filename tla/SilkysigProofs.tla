--------------------------- MODULE SilkysigProofs ---------------------------
(***************************************************************************)
(* Silkysig keeps its operator slots compact, leaves nothing in an account *)
(* it closes and never lets the principal outgrow what backs it, for any   *)
(* number of wallets, slots and accounts and any amounts.  And it          *)
(* implements Mandate: slots that move and funds that lie in two places    *)
(* are one way to keep an owner's funds and the limits given to operators. *)
(***************************************************************************)
EXTENDS Silkysig, FiniteSetTheorems, TLAPS

----------------------------------------------------------------------------
(* Slots                                                                   *)

\* A slot that holds an operator is not an empty one.
LEMMA SlotUsed ==
    ASSUME NEW w \in Wallets, NEW limit \in Nat
    PROVE  /\ [pubkey |-> w, per_tx_limit |-> limit] \in Slot
           /\ [pubkey |-> w, per_tx_limit |-> limit] # EmptySlot
           /\ EmptySlot \in Slot
  BY ConstantsAssumption DEF Slot, EmptySlot

\* add_operator fills the first free slot of an account.
LEMMA AddSlotCompact ==
    ASSUME NEW account \in SilkAccount, Compact(account),
           NEW w \in Wallets, NEW limit \in Nat,
           account.operator_count < MaxOperators, ~IsOperator(account, w)
    PROVE  AddSlot(account, w, limit) \in SilkAccount /\ Compact(AddSlot(account, w, limit))
<1> DEFINE c == account.operator_count
           new == [pubkey |-> w, per_tx_limit |-> limit]
           slots == [account.operators EXCEPT ![c + 1] = new]
           q == [account EXCEPT !.operators = slots, !.operator_count = c + 1]
<1>1. /\ c \in 0..MaxOperators /\ c + 1 \in 1..MaxOperators /\ c + 1 \in 0..MaxOperators
      /\ account.operators \in [1..MaxOperators -> Slot]
  BY ConstantsAssumption DEF SilkAccount
<1>2. new \in Slot /\ new # EmptySlot /\ new.pubkey = w
  BY SlotUsed
<1>3. AddSlot(account, w, limit) = q
  BY DEF AddSlot
<1> HIDE DEF new
<1>4. slots \in [1..MaxOperators -> Slot]
  BY <1>1, <1>2
<1>5. q \in SilkAccount /\ q.operators = slots /\ q.operator_count = c + 1
  <2> HIDE DEF slots
  <2> QED
    BY <1>1, <1>4 DEF SilkAccount
<1>6. Compact(q)
  <2>1. ASSUME NEW i \in 1..MaxOperators
        PROVE  i > c + 1 <=> slots[i] = EmptySlot
    BY <1>1, <1>2, ConstantsAssumption DEF Compact
  <2>2. ASSUME NEW i \in 1..(c + 1), NEW j \in 1..(c + 1), slots[i].pubkey = slots[j].pubkey
        PROVE  i = j
    <3>1. \A x \in 1..c : slots[x].pubkey # w /\ slots[x] = account.operators[x]
      BY <1>1, ConstantsAssumption DEF IsOperator
    <3>2. slots[c + 1].pubkey = w
      BY <1>1, <1>2
    <3> HIDE DEF slots
    <3> QED
      BY <1>1, <2>2, <3>1, <3>2 DEF Compact
  <2> HIDE DEF slots, q
  <2> QED
    BY <1>5, <2>1, <2>2 DEF Compact
<1> QED
  BY <1>3, <1>5, <1>6

\* remove_operator keeps every other operator and no gap.
LEMMA RemoveSlotCompact ==
    ASSUME NEW account \in SilkAccount, Compact(account),
           NEW i \in 1..MaxOperators, i <= account.operator_count
    PROVE  RemoveSlot(account, i) \in SilkAccount /\ Compact(RemoveSlot(account, i))
<1> DEFINE c == account.operator_count
           slots == [account.operators EXCEPT ![i] = account.operators[c], ![c] = EmptySlot]
           q == [account EXCEPT !.operators = slots, !.operator_count = c - 1]
<1>1. /\ c \in 1..MaxOperators /\ c - 1 \in 0..MaxOperators /\ MaxOperators \in Nat
      /\ account.operators \in [1..MaxOperators -> Slot]
  BY ConstantsAssumption DEF SilkAccount
<1>2. EmptySlot \in Slot
  BY ConstantsAssumption DEF Slot, EmptySlot
<1>3. RemoveSlot(account, i) = q
  BY DEF RemoveSlot
<1>4. slots \in [1..MaxOperators -> Slot]
  BY <1>1, <1>2
<1>5. q \in SilkAccount /\ q.operators = slots /\ q.operator_count = c - 1
  BY <1>1, <1>4 DEF SilkAccount
<1>6. \A x \in 1..MaxOperators :
        slots[x] = IF x = c THEN EmptySlot
                   ELSE IF x = i THEN account.operators[c] ELSE account.operators[x]
  BY <1>1
<1>7. Compact(q)
  <2> HIDE DEF slots, q
  <2>1. ASSUME NEW x \in 1..MaxOperators
        PROVE  x > c - 1 <=> slots[x] = EmptySlot
    BY <1>1, <1>6, ConstantsAssumption DEF Compact
  <2>2. ASSUME NEW x \in 1..(c - 1), NEW y \in 1..(c - 1), slots[x].pubkey = slots[y].pubkey
        PROVE  x = y
    <3> DEFINE old(z) == IF z = i THEN c ELSE z
    <3>1. \A z \in 1..(c - 1) : z \in 1..MaxOperators /\ z # c /\ old(z) \in 1..c
      <4>1. i \in 1..c
        BY <1>1
      <4> HIDE DEF c
      <4> QED
        BY <1>1, <4>1
    <3>2. \A z \in 1..(c - 1) : slots[z] = account.operators[old(z)]
      BY <1>6, <3>1
    <3>3. account.operators[old(x)].pubkey = account.operators[old(y)].pubkey
      BY <2>2, <3>2
    <3>4. old(x) = old(y)
      <4> HIDE DEF old
      <4> QED
        BY <3>1, <3>3 DEF Compact
    <3> QED
      BY <3>1, <3>4
  <2> QED
    BY <1>5, <2>1, <2>2 DEF Compact
<1> QED
  BY <1>3, <1>5, <1>7

----------------------------------------------------------------------------
(* The invariant                                                           *)

\* Token accounts of wallets and of Silk accounts.
LEMMA HolderOf ==
    /\ \A o \in Owners : o \in Wallets /\ Pda(o) \in Holders /\ Pda(o) \notin Wallets
    /\ \A o, x \in Owners : Pda(o) = Pda(x) => o = x
    /\ Wallets \subseteq Holders
    /\ \A h \in Holders : h \notin Wallets => \E o \in Owners : h = Pda(o)
  BY ConstantsAssumption DEF Holders, Pda

\* A step that gives owner o the account q and leaves alone what the other
\* accounts have in Drift and what lies where no token account is open.
LEMMA OneAccount ==
    ASSUME Kept, NEW o \in Owners, NEW q \in SilkAccount, Compact(q),
           accounts' = [accounts EXCEPT ![o] = q],
           tokens' \in [Holders -> Nat], drift' \in [Owners -> Nat],
           driftUsers' \subseteq Owners, spender' \in Wallets \cup {Nobody},
           opened' \subseteq Owners, opened \subseteq opened', o \in opened',
           ~q.drift_user => drift'[o] = 0,
           \A x \in Owners \ {o} : drift'[x] = drift[x],
           \A x \in Owners \ opened' : tokens'[Pda(x)] = tokens[Pda(x)]
    PROVE  Kept'
<1>1. q # NoAccount
  BY ConstantsAssumption
<1>2. \A x \in Owners : accounts'[x] = IF x = o THEN q ELSE accounts[x]
  BY DEF Kept, TypeOK
<1>3. Live' = Live \cup {o}
  BY <1>1, <1>2 DEF Live
<1>4. TypeOK'
  BY DEF Kept, TypeOK
<1>5. SlotsCompact'
  BY <1>2, <1>3 DEF Kept, SlotsCompact, Live
<1>6. TokensNeedOpen'
  BY <1>3 DEF Kept, TokensNeedOpen
<1>7. DriftNeedsUser'
  BY <1>2, <1>3 DEF Kept, DriftNeedsUser, Live
<1> QED
  BY <1>4, <1>5, <1>6, <1>7 DEF Kept

\* A step that leaves the accounts alone, and what lies where no token account is open.
LEMMA SameAccounts ==
    ASSUME Kept, accounts' = accounts,
           tokens' \in [Holders -> Nat], drift' \in [Owners -> Nat],
           driftUsers' \subseteq Owners, spender' \in Wallets \cup {Nobody},
           opened' \subseteq Owners, opened \subseteq opened',
           \A x \in Owners : drift[x] = 0 => drift'[x] = 0,
           \A x \in Owners \ opened' : tokens'[Pda(x)] = tokens[Pda(x)]
    PROVE  Kept'
<1>1. Live' = Live
  BY DEF Live
<1>2. TypeOK'
  BY DEF Kept, TypeOK
<1>3. SlotsCompact'
  BY <1>1 DEF Kept, SlotsCompact
<1>4. TokensNeedOpen'
  BY <1>1 DEF Kept, TokensNeedOpen
<1>5. DriftNeedsUser'
  BY <1>1 DEF Kept, DriftNeedsUser, Live
<1> QED
  BY <1>2, <1>3, <1>4, <1>5 DEF Kept

\* Changing a field other than the slots keeps an account an account, with the
\* same slots.
LEMMA FieldUpdate ==
    ASSUME NEW account \in SilkAccount, Compact(account), NEW b \in BOOLEAN
    PROVE  /\ LET q == [account EXCEPT !.is_paused = b]
              IN  q \in SilkAccount /\ Compact(q) /\ q.drift_user = account.drift_user
                      /\ q.principal_balance = account.principal_balance
           /\ LET q == [account EXCEPT !.drift_user = b]
              IN  q \in SilkAccount /\ Compact(q) /\ q.drift_user = b
                      /\ q.principal_balance = account.principal_balance
  BY DEF SilkAccount, Compact

\* So does changing the principal.
LEMMA PrincipalUpdate ==
    ASSUME NEW account \in SilkAccount, Compact(account), NEW n \in Nat
    PROVE  LET q == [account EXCEPT !.principal_balance = n]
           IN  q \in SilkAccount /\ Compact(q) /\ q.drift_user = account.drift_user
                   /\ q.principal_balance = n
  BY DEF SilkAccount, Compact

\* Moving tokens keeps a family of balances one, and touches only the two ends.
LEMMA MoveType ==
    ASSUME NEW from \in Holders, NEW to \in Holders, NEW n \in Nat,
           tokens \in [Holders -> Nat], Move(from, to, n)
    PROVE  /\ tokens' \in [Holders -> Nat]
           /\ \A h \in Holders \ {from, to} : tokens'[h] = tokens[h]
  BY DEF Move

\* What the invariant says of one owner and of one account.
LEMMA KeptTypes ==
    ASSUME Kept, NEW o \in Owners
    PROVE  /\ accounts \in [Owners -> SilkAccount \cup {NoAccount}]
           /\ tokens \in [Holders -> Nat] /\ drift \in [Owners -> Nat]
           /\ driftUsers \subseteq Owners /\ opened \subseteq Owners
           /\ tokens[Pda(o)] \in Nat /\ tokens[o] \in Nat /\ drift[o] \in Nat
           /\ accounts[o] = NoAccount => drift[o] = 0
           /\ o \notin opened => tokens[Pda(o)] = 0
           /\ accounts[o] # NoAccount =>
                  /\ o \in opened
                  /\ accounts[o] \in SilkAccount /\ Compact(accounts[o])
                  /\ accounts[o].drift_user \in BOOLEAN
                  /\ accounts[o].principal_balance \in Nat
                  /\ accounts[o].is_paused \in BOOLEAN
                  /\ ~accounts[o].drift_user => drift[o] = 0
<1>1. o \in Holders /\ Pda(o) \in Holders
  BY HolderOf
<1>2. accounts[o] # NoAccount => accounts[o] \in SilkAccount
  BY DEF Kept, TypeOK
<1>3. /\ accounts[o] # NoAccount =>
             Compact(accounts[o]) /\ (~accounts[o].drift_user => drift[o] = 0)
      /\ accounts[o] = NoAccount => drift[o] = 0
  BY DEF Kept, SlotsCompact, DriftNeedsUser, Live
<1>o. /\ o \notin opened => tokens[Pda(o)] = 0
      /\ accounts[o] # NoAccount => o \in opened
  BY DEF Kept, TokensNeedOpen, Live
<1>4. accounts[o] # NoAccount =>
        /\ accounts[o].drift_user \in BOOLEAN
        /\ accounts[o].principal_balance \in Nat
        /\ accounts[o].is_paused \in BOOLEAN
  BY <1>2 DEF SilkAccount
<1> QED
  BY <1>1, <1>2, <1>3, <1>o, <1>4 DEF Kept, TypeOK

\* A new account has no operators, no Drift user and no principal.
LEMMA FreshType ==
    /\ FreshAccount \in SilkAccount /\ Compact(FreshAccount)
    /\ ~FreshAccount.drift_user
<1>1. EmptySlot \in Slot
  BY DEF EmptySlot, Slot
<1>2. FreshAccount \in SilkAccount
  BY <1>1, ConstantsAssumption DEF FreshAccount, SilkAccount
<1>3. Compact(FreshAccount)
  BY ConstantsAssumption DEF FreshAccount, Compact
<1> QED
  BY <1>2, <1>3 DEF FreshAccount

\* The signer a transfer names is a wallet.
LEMMA SpenderTyped ==
    ASSUME Next
    PROVE  spender' \in Wallets \cup {Nobody}
<1>1. ASSUME OwnerStep PROVE spender' = Nobody
  BY <1>1 DEF OwnerStep, CreateAccount, AddOperator, RemoveOperator, TogglePause,
              InitDriftUser, CloseAccount, NoTransfer
<1>2. ASSUME TokenStep PROVE spender' \in Wallets \cup {Nobody}
  BY <1>2 DEF TokenStep, Deposit, TransferFromAccount, NoTransfer
<1>3. ASSUME EnvironmentStep PROVE spender' = Nobody
  BY <1>3 DEF EnvironmentStep, DirectTransfer, DriftEarn, DriftLose, NoTransfer
<1> QED
  BY <1>1, <1>2, <1>3 DEF Next

\* What an owner does to an account keeps the invariant.
LEMMA OwnerStepKept ==
    ASSUME Kept, OwnerStep
    PROVE  Kept'
<1>1. PICK o \in Owners :
        \/ CreateAccount(o)
        \/ \E w \in Wallets, limit \in Limits : AddOperator(o, w, limit)
        \/ \E w \in Wallets : RemoveOperator(o, w)
        \/ TogglePause(o)
        \/ InitDriftUser(o)
        \/ CloseAccount(o)
  BY DEF OwnerStep
<1>s. spender' \in Wallets \cup {Nobody}
  BY SpenderTyped DEF Next
<1>t. /\ accounts \in [Owners -> SilkAccount \cup {NoAccount}]
      /\ tokens \in [Holders -> Nat] /\ drift \in [Owners -> Nat]
      /\ driftUsers \subseteq Owners /\ opened \subseteq Owners
      /\ tokens[Pda(o)] \in Nat /\ tokens[o] \in Nat /\ drift[o] \in Nat
      /\ accounts[o] = NoAccount => drift[o] = 0
  BY KeptTypes
<1>a. accounts[o] # NoAccount =>
        /\ o \in opened
        /\ accounts[o] \in SilkAccount /\ Compact(accounts[o])
        /\ accounts[o].drift_user \in BOOLEAN
        /\ accounts[o].is_paused \in BOOLEAN
        /\ ~accounts[o].drift_user => drift[o] = 0
  BY KeptTypes
<1>2. CASE CreateAccount(o)
  <2>1. drift[o] = 0 /\ opened' = opened \cup {o}
    BY <1>2, <1>t DEF CreateAccount, OpenTokenAccount
  <2>2. opened' \subseteq Owners /\ opened \subseteq opened' /\ o \in opened'
    BY <2>1, <1>t
  <2> QED
    BY <1>s, <1>2, <2>1, <2>2, <1>t, FreshType, OneAccount DEF CreateAccount
<1>3. ASSUME NEW w \in Wallets, NEW limit \in Limits, AddOperator(o, w, limit)
      PROVE  Kept'
  <2> DEFINE q == AddSlot(accounts[o], w, limit)
  <2>1. limit \in Nat
    BY ConstantsAssumption
  <2>2. q \in SilkAccount /\ Compact(q)
    BY <1>3, <1>a, <2>1, AddSlotCompact DEF AddOperator
  <2>3. q.drift_user = accounts[o].drift_user
    BY <1>3, <1>a DEF AddOperator, AddSlot, SilkAccount
  <2>4. ~q.drift_user => drift[o] = 0
    BY <1>3, <1>a, <2>3 DEF AddOperator
  <2>5. accounts' = [accounts EXCEPT ![o] = q]
    BY <1>3 DEF AddOperator
  <2> HIDE DEF q
  <2> QED
    BY <1>s, <1>3, <1>t, <1>a, <2>2, <2>4, <2>5, OneAccount DEF AddOperator
<1>4. ASSUME NEW w \in Wallets, RemoveOperator(o, w)
      PROVE  Kept'
  <2>1. PICK i \in 1..MaxOperators :
          FoundAt(accounts[o], w, i) /\ accounts' = [accounts EXCEPT ![o] = RemoveSlot(@, i)]
    BY <1>4 DEF RemoveOperator
  <2> DEFINE q == RemoveSlot(accounts[o], i)
  <2>2. i <= accounts[o].operator_count
    <3>1. accounts[o].operator_count \in 0..MaxOperators
      BY <1>4, <1>a DEF RemoveOperator, SilkAccount
    <3> QED
      BY <2>1, <3>1, ConstantsAssumption DEF FoundAt
  <2>3. q \in SilkAccount /\ Compact(q)
    BY <1>4, <1>a, <2>2, RemoveSlotCompact DEF RemoveOperator
  <2>4. q.drift_user = accounts[o].drift_user
    BY <1>4, <1>a DEF RemoveOperator, RemoveSlot, SilkAccount
  <2>5. ~q.drift_user => drift[o] = 0
    BY <1>4, <1>a, <2>4 DEF RemoveOperator
  <2>6. accounts' = [accounts EXCEPT ![o] = q]
    BY <2>1
  <2> HIDE DEF q
  <2> QED
    BY <1>s, <1>4, <1>t, <1>a, <2>3, <2>5, <2>6, OneAccount DEF RemoveOperator
<1>5. CASE TogglePause(o)
  <2> DEFINE q == [accounts[o] EXCEPT !.is_paused = ~accounts[o].is_paused]
  <2>1. /\ q \in SilkAccount /\ Compact(q) /\ q.drift_user = accounts[o].drift_user
        /\ accounts' = [accounts EXCEPT ![o] = q]
    BY <1>5, <1>a, FieldUpdate DEF TogglePause
  <2>2. ~q.drift_user => drift[o] = 0
    BY <1>5, <1>a, <2>1 DEF TogglePause
  <2> HIDE DEF q
  <2> QED
    BY <1>s, <1>5, <1>t, <1>a, <2>1, <2>2, OneAccount DEF TogglePause
<1>6. CASE InitDriftUser(o)
  <2> DEFINE q == [accounts[o] EXCEPT !.drift_user = TRUE]
  <2>1. q \in SilkAccount /\ Compact(q) /\ q.drift_user = TRUE
    BY <1>6, <1>a, FieldUpdate DEF InitDriftUser
  <2>2. accounts' = [accounts EXCEPT ![o] = q]
    BY <1>6 DEF InitDriftUser
  <2>3. tokens' \in [Holders -> Nat] /\ drift' \in [Owners -> Nat] /\ driftUsers' \subseteq Owners
    <3>1. drift[o] + tokens[Pda(o)] \in Nat
      BY <1>t
    <3>2. /\ drift' = [drift EXCEPT ![o] = drift[o] + tokens[Pda(o)]]
          /\ tokens' = [tokens EXCEPT ![Pda(o)] = 0]
          /\ driftUsers' = driftUsers \cup {o}
      BY <1>6 DEF InitDriftUser, Bootstrap
    <3> QED
      BY <1>t, <3>1, <3>2
  <2>4. /\ \A x \in Owners \ {o} : drift'[x] = drift[x]
        /\ \A x \in Owners \ {o} : tokens'[Pda(x)] = tokens[Pda(x)]
    BY <1>6, <1>t, HolderOf DEF InitDriftUser, Bootstrap
  <2>5. opened' = opened /\ o \in opened
    BY <1>6, <1>a DEF InitDriftUser
  <2>6. \A x \in Owners \ opened' : tokens'[Pda(x)] = tokens[Pda(x)]
    BY <2>4, <2>5
  <2> HIDE DEF q
  <2> QED
    BY <1>s, <1>t, <2>1, <2>2, <2>3, <2>4, <2>5, <2>6, OneAccount
<1>7. CASE CloseAccount(o)
  <2> DEFINE withdrawn == IF accounts[o].drift_user THEN drift[o] ELSE 0
  <2>h. /\ o \in Holders /\ Pda(o) \in Holders /\ o # Pda(o)
        /\ \A x \in Owners \ {o} : Pda(x) \in Holders /\ Pda(x) # Pda(o) /\ Pda(x) # o
    BY HolderOf
  <2>1. withdrawn \in Nat /\ drift[o] - withdrawn = 0
    BY <1>7, <1>t, <1>a DEF CloseAccount
  <2>2. /\ drift' = [drift EXCEPT ![o] = drift[o] - withdrawn]
        /\ tokens' = [tokens EXCEPT ![Pda(o)] = 0,
                                    ![o] = @ + tokens[Pda(o)] + withdrawn]
        /\ accounts' = [accounts EXCEPT ![o] = NoAccount]
        /\ driftUsers' = driftUsers /\ opened' = opened \ {o}
    BY <1>7 DEF CloseAccount, Sweep
  <2> HIDE DEF withdrawn
  <2>3. /\ drift' \in [Owners -> Nat] /\ tokens' \in [Holders -> Nat]
        /\ drift'[o] = 0 /\ tokens'[Pda(o)] = 0
    BY <1>t, <2>h, <2>1, <2>2
  <2>4. \A x \in Owners \ {o} : /\ drift'[x] = drift[x]
                                /\ tokens'[Pda(x)] = tokens[Pda(x)]
                                /\ accounts'[x] = accounts[x]
    BY <1>t, <2>h, <2>2
  <2>5. Live' = Live \ {o}
    BY <1>t, <2>2 DEF Live
  <2>6. TypeOK'
    BY <1>s, <1>t, <2>2, <2>3 DEF TypeOK
  <2>7. SlotsCompact'
    BY <2>4, <2>5 DEF Kept, SlotsCompact, Live
  <2>8. TokensNeedOpen'
    BY <1>t, <2>2, <2>3, <2>4, <2>5 DEF Kept, TokensNeedOpen
  <2>9. DriftNeedsUser'
    BY <2>3, <2>4, <2>5 DEF Kept, DriftNeedsUser, Live
  <2> QED
    BY <2>6, <2>7, <2>8, <2>9 DEF Kept
<1> QED
  BY <1>1, <1>2, <1>3, <1>4, <1>5, <1>6, <1>7

\* Paying in and paying out keeps the invariant.
LEMMA TokenStepKept ==
    ASSUME Kept, TokenStep
    PROVE  Kept'
<1>1. PICK o \in Owners, w \in Wallets :
        \/ \E amount \in Amounts : Deposit(w, o, amount)
        \/ \E amount \in Amounts, recipient \in Holders :
               TransferFromAccount(w, o, recipient, amount)
  BY DEF TokenStep
<1>s. spender' \in Wallets \cup {Nobody}
  BY SpenderTyped DEF Next
<1>t. /\ accounts \in [Owners -> SilkAccount \cup {NoAccount}]
      /\ tokens \in [Holders -> Nat] /\ drift \in [Owners -> Nat]
      /\ driftUsers \subseteq Owners /\ opened \subseteq Owners
      /\ tokens[Pda(o)] \in Nat /\ tokens[o] \in Nat /\ drift[o] \in Nat
  BY KeptTypes
<1>a. accounts[o] # NoAccount =>
        /\ o \in opened
        /\ accounts[o] \in SilkAccount /\ Compact(accounts[o])
        /\ accounts[o].principal_balance \in Nat
        /\ ~accounts[o].drift_user => drift[o] = 0
  BY KeptTypes
<1>h. w \in Holders /\ Pda(o) \in Holders
  BY HolderOf
<1>2. ASSUME NEW amount \in Amounts, Deposit(w, o, amount)
      PROVE  Kept'
  <2> DEFINE n == accounts[o].principal_balance + amount
             q == [accounts[o] EXCEPT !.principal_balance = n]
  <2>1. amount \in Nat /\ n \in Nat
    BY <1>2, <1>a, ConstantsAssumption DEF Deposit
  <2>2. accounts' = [accounts EXCEPT ![o] = q] /\ driftUsers' = driftUsers
    BY <1>2 DEF Deposit
  <2>3. q \in SilkAccount /\ Compact(q) /\ q.drift_user = accounts[o].drift_user
    <3> HIDE DEF n
    <3> QED
      BY <1>2, <1>a, <2>1, PrincipalUpdate DEF Deposit
  <2>4. /\ tokens' \in [Holders -> Nat] /\ drift' \in [Owners -> Nat]
        /\ \A h \in Holders \ {w, Pda(o)} : tokens'[h] = tokens[h]
        /\ \A x \in Owners \ {o} : drift'[x] = drift[x]
        /\ ~accounts[o].drift_user => drift' = drift
    <3>1. CASE ~accounts[o].drift_user /\ Move(w, Pda(o), amount) /\ UNCHANGED drift
      BY <1>t, <1>h, <2>1, <3>1, MoveType
    <3>2. CASE /\ accounts[o].drift_user /\ tokens[w] >= amount
               /\ tokens' = [tokens EXCEPT ![w] = @ - amount]
               /\ drift' = [drift EXCEPT ![o] = @ + amount]
      BY <1>t, <1>h, <2>1, <3>2
    <3> QED
      BY <1>2, <3>1, <3>2 DEF Deposit
  <2>o. opened' = opened /\ o \in opened
    BY <1>2, <1>a DEF Deposit
  <2>5. \A x \in Owners \ opened' : tokens'[Pda(x)] = tokens[Pda(x)]
    BY <2>4, <2>o, HolderOf
  <2>6. ~q.drift_user => drift'[o] = 0
    BY <1>2, <1>a, <2>3, <2>4 DEF Deposit
  <2> HIDE DEF q, n
  <2> QED
    BY <1>s, <1>t, <2>2, <2>3, <2>4, <2>o, <2>5, <2>6, OneAccount
<1>3. ASSUME NEW amount \in Amounts, NEW recipient \in Holders,
             TransferFromAccount(w, o, recipient, amount)
      PROVE  Kept'
  <2> DEFINE n == accounts[o].principal_balance - amount
             q == [accounts[o] EXCEPT !.principal_balance = n]
  <2>1. amount \in Nat /\ n \in Nat
    BY <1>3, <1>a, ConstantsAssumption DEF TransferFromAccount, CanTransfer
  <2>2. accounts' = [accounts EXCEPT ![o] = q] /\ driftUsers' = driftUsers
    BY <1>3 DEF TransferFromAccount, Debit
  <2>3. q \in SilkAccount /\ Compact(q) /\ q.drift_user = accounts[o].drift_user
    <3> HIDE DEF n
    <3> QED
      BY <1>3, <1>a, <2>1, PrincipalUpdate DEF TransferFromAccount
  <2>o. /\ opened' = opened \cup OwnersAt(recipient) /\ o \in opened
        /\ opened' \subseteq Owners /\ opened \subseteq opened'
    BY <1>3, <1>a, <1>t DEF TransferFromAccount, OwnersAt
  <2>4. /\ tokens' \in [Holders -> Nat] /\ drift' \in [Owners -> Nat]
        /\ \A h \in Holders \ {recipient, Pda(o)} : tokens'[h] = tokens[h]
        /\ \A x \in Owners \ {o} : drift'[x] = drift[x]
        /\ ~accounts[o].drift_user => drift' = drift
    <3>1. CASE ~accounts[o].drift_user /\ Move(Pda(o), recipient, amount) /\ UNCHANGED drift
      BY <1>t, <1>h, <2>1, <3>1, MoveType
    <3>2. CASE /\ accounts[o].drift_user
               /\ drift' = [drift EXCEPT ![o] = @ - amount]
               /\ tokens' = [tokens EXCEPT ![recipient] = @ + amount]
      <4>1. drift[o] >= amount
        BY <1>3, <3>2 DEF TransferFromAccount, CanTransfer, Spendable
      <4> QED
        BY <1>t, <1>h, <2>1, <3>2, <4>1
    <3> QED
      BY <1>3, <3>1, <3>2 DEF TransferFromAccount
  <2>5. \A x \in Owners \ opened' : tokens'[Pda(x)] = tokens[Pda(x)]
    <3>1. ASSUME NEW x \in Owners \ opened'
          PROVE  Pda(x) \in Holders \ {recipient, Pda(o)}
      BY <2>o, HolderOf DEF OwnersAt
    <3> QED
      BY <2>4, <3>1
  <2>6. ~q.drift_user => drift'[o] = 0
    BY <1>3, <1>a, <2>3, <2>4 DEF TransferFromAccount
  <2> HIDE DEF q, n
  <2> QED
    BY <1>s, <1>t, <2>2, <2>3, <2>4, <2>o, <2>5, <2>6, OneAccount
<1> QED
  BY <1>1, <1>2, <1>3

\* So do direct transfers and the market.
LEMMA EnvironmentStepKept ==
    ASSUME Kept, EnvironmentStep
    PROVE  Kept'
<1>1. PICK o \in Owners :
        \/ \E w \in Wallets, amount \in Gifts : DirectTransfer(w, o, amount)
        \/ \E amount \in Moves : DriftEarn(o, amount) \/ DriftLose(o, amount)
  BY DEF EnvironmentStep
<1>s. spender' \in Wallets \cup {Nobody}
  BY SpenderTyped DEF Next
<1>t. /\ tokens \in [Holders -> Nat] /\ drift \in [Owners -> Nat]
      /\ driftUsers \subseteq Owners /\ opened \subseteq Owners /\ drift[o] \in Nat
  BY KeptTypes
<1>2. ASSUME NEW w \in Wallets, NEW amount \in Gifts, DirectTransfer(w, o, amount)
      PROVE  Kept'
  <2>1. w \in Holders /\ Pda(o) \in Holders /\ amount \in Nat
    BY HolderOf, ConstantsAssumption
  <2>2. /\ tokens' \in [Holders -> Nat]
        /\ \A h \in Holders \ {w, Pda(o)} : tokens'[h] = tokens[h]
    BY <1>2, <1>t, <2>1, MoveType DEF DirectTransfer
  <2>o. opened' = opened \cup {o} /\ opened' \subseteq Owners /\ opened \subseteq opened'
    BY <1>2, <1>t DEF DirectTransfer
  <2>3. \A x \in Owners \ opened' : tokens'[Pda(x)] = tokens[Pda(x)]
    <3>1. ASSUME NEW x \in Owners \ opened'
          PROVE  Pda(x) \in Holders \ {w, Pda(o)}
      BY <2>o, HolderOf
    <3> QED
      BY <2>2, <3>1
  <2> QED
    BY <1>s, <1>2, <1>t, <2>2, <2>o, <2>3, SameAccounts DEF DirectTransfer
<1>3. ASSUME NEW amount \in Moves, DriftEarn(o, amount) \/ DriftLose(o, amount)
      PROVE  Kept'
  <2>1. amount \in Nat
    BY ConstantsAssumption
  <2>2. drift' \in [Owners -> Nat] /\ \A x \in Owners : drift[x] = 0 => drift'[x] = 0
    <3>1. CASE DriftEarn(o, amount)
      BY <1>t, <2>1, <3>1 DEF DriftEarn
    <3>2. CASE DriftLose(o, amount)
      <4>1. drift' = [drift EXCEPT ![o] = drift[o] - amount] /\ drift[o] - amount \in Nat
        BY <1>t, <2>1, <3>2 DEF DriftLose
      <4>2. drift[o] = 0 => drift[o] - amount = 0
        BY <1>t, <2>1, <4>1
      <4> QED
        BY <1>t, <4>1, <4>2
    <3> QED
      BY <1>3, <3>1, <3>2
  <2>3. /\ accounts' = accounts /\ tokens' = tokens /\ opened' = opened
        /\ driftUsers' = driftUsers
    BY <1>3 DEF DriftEarn, DriftLose
  <2> QED
    BY <1>s, <1>t, <2>2, <2>3, SameAccounts
<1> QED
  BY <1>1, <1>2, <1>3

\* The invariant holds in every reachable state.
THEOREM AlwaysKept == Spec => []Kept
<1>1. Init => Kept
  <2> SUFFICES ASSUME Init PROVE Kept
    OBVIOUS
  <2>1. Live = {}
    BY DEF Init, Live
  <2>2. TypeOK
    BY HolderOf, ConstantsAssumption DEF Init, TypeOK
  <2>3. TokensNeedOpen
    BY <2>1, HolderOf DEF Init, TokensNeedOpen
  <2>4. DriftNeedsUser
    BY DEF Init, DriftNeedsUser
  <2> QED
    BY <2>1, <2>2, <2>3, <2>4 DEF Kept, SlotsCompact
<1>2. Kept /\ [Next]_vars => Kept'
  <2>1. ASSUME Kept, UNCHANGED vars
        PROVE  Kept'
    <3>1. /\ tokens \in [Holders -> Nat] /\ drift \in [Owners -> Nat]
          /\ driftUsers \subseteq Owners /\ opened \subseteq Owners
          /\ spender \in Wallets \cup {Nobody}
      BY <2>1 DEF Kept, TypeOK
    <3> QED
      BY <2>1, <3>1, SameAccounts DEF vars
  <2> QED
    BY <2>1, OwnerStepKept, TokenStepKept, EnvironmentStepKept DEF Next
<1> QED
  BY <1>1, <1>2, PTL DEF Spec

\* The variables keep their types: no balance, principal or operator count leaves
\* its range.
THEOREM TypeCorrect == Spec => []TypeOK
  BY AlwaysKept, PTL DEF Kept

\* Operator slots stay compact and distinct through any additions and removals,
\* whatever the number of slots.
THEOREM SlotsAlwaysCompact == Spec => []SlotsCompact
  BY AlwaysKept, PTL DEF Kept

----------------------------------------------------------------------------
(* What lies where there is no account                                     *)

\* An account comes by create_account and goes by close_account, and no step lowers
\* what lies at the address of an owner who has none.
LEMMA OwnerStepAround ==
    ASSUME Kept, OwnerStep, NEW x \in Owners
    PROVE  /\ x \in Live \ Live' => tokens'[Pda(x)] = 0
           /\ x \in Live' \ Live => tokens'[Pda(x)] = 0
           /\ x \notin Live => tokens'[Pda(x)] = tokens[Pda(x)] /\ drift'[x] = drift[x]
<1>1. PICK o \in Owners :
        \/ CreateAccount(o)
        \/ \E w \in Wallets, limit \in Limits : AddOperator(o, w, limit)
        \/ \E w \in Wallets : RemoveOperator(o, w)
        \/ TogglePause(o)
        \/ InitDriftUser(o)
        \/ CloseAccount(o)
  BY DEF OwnerStep
<1>t. /\ accounts \in [Owners -> SilkAccount \cup {NoAccount}]
      /\ tokens \in [Holders -> Nat] /\ drift \in [Owners -> Nat]
      /\ x \notin opened => tokens[Pda(x)] = 0
      /\ x \in Live <=> accounts[x] # NoAccount
      /\ x \in Live' <=> accounts'[x] # NoAccount
  BY KeptTypes DEF Live
<1>h. /\ o \in Holders /\ Pda(o) \in Holders /\ Pda(x) \in Holders
      /\ Pda(x) # o
      /\ Pda(x) = Pda(o) => x = o
  BY HolderOf
<1>2. CASE CreateAccount(o)
  <2>1. /\ tokens' = tokens /\ drift' = drift /\ o \notin opened
        /\ accounts' = [accounts EXCEPT ![o] = FreshAccount] /\ accounts[o] = NoAccount
    BY <1>2 DEF CreateAccount, OpenTokenAccount
  <2>2. x # o => accounts'[x] = accounts[x]
    BY <1>t, <2>1
  <2>3. x \in Live => x \in Live'
    BY <1>t, <2>1, <2>2
  <2> QED
    BY <1>t, <2>1, <2>2, <2>3
<1>3. ASSUME tokens' = tokens, drift' = drift, accounts[o] # NoAccount,
             \E a : a # NoAccount /\ accounts' = [accounts EXCEPT ![o] = a]
      PROVE  /\ x \in Live <=> x \in Live'
             /\ tokens'[Pda(x)] = tokens[Pda(x)] /\ drift'[x] = drift[x]
  BY <1>3, <1>t
<1>a. accounts[o] # NoAccount => accounts[o] \in SilkAccount /\ Compact(accounts[o])
  BY KeptTypes
<1>4. ASSUME NEW w \in Wallets, NEW limit \in Limits, AddOperator(o, w, limit)
      PROVE  /\ x \in Live <=> x \in Live'
             /\ tokens'[Pda(x)] = tokens[Pda(x)] /\ drift'[x] = drift[x]
  <2>1. AddSlot(accounts[o], w, limit) # NoAccount
    <3>1. limit \in Nat
      BY ConstantsAssumption
    <3> QED
      BY <1>4, <1>a, <3>1, AddSlotCompact, ConstantsAssumption DEF AddOperator
  <2> QED
    BY <1>3, <1>4, <2>1 DEF AddOperator
<1>5. ASSUME NEW w \in Wallets, RemoveOperator(o, w)
      PROVE  /\ x \in Live <=> x \in Live'
             /\ tokens'[Pda(x)] = tokens[Pda(x)] /\ drift'[x] = drift[x]
  <2>1. PICK i \in 1..MaxOperators :
          FoundAt(accounts[o], w, i) /\ accounts' = [accounts EXCEPT ![o] = RemoveSlot(@, i)]
    BY <1>5 DEF RemoveOperator
  <2>2. i <= accounts[o].operator_count
    <3>1. accounts[o].operator_count \in 0..MaxOperators
      BY <1>5, <1>a DEF RemoveOperator, SilkAccount
    <3> QED
      BY <2>1, <3>1, ConstantsAssumption DEF FoundAt
  <2>3. RemoveSlot(accounts[o], i) # NoAccount
    BY <1>5, <1>a, <2>2, RemoveSlotCompact, ConstantsAssumption DEF RemoveOperator
  <2> QED
    BY <1>3, <1>5, <2>1, <2>3 DEF RemoveOperator
<1>6. CASE TogglePause(o)
  <2> DEFINE q == [accounts[o] EXCEPT !.is_paused = ~accounts[o].is_paused]
  <2>1. q \in SilkAccount /\ accounts' = [accounts EXCEPT ![o] = q]
    BY <1>6, <1>a DEF TogglePause, SilkAccount
  <2>2. q # NoAccount
    BY <2>1, ConstantsAssumption
  <2> HIDE DEF q
  <2>3. /\ x \in Live <=> x \in Live'
        /\ tokens'[Pda(x)] = tokens[Pda(x)] /\ drift'[x] = drift[x]
    BY <1>3, <1>6, <2>1, <2>2 DEF TogglePause
  <2> QED
    BY <2>3
<1>7. CASE InitDriftUser(o)
  <2> DEFINE q == [accounts[o] EXCEPT !.drift_user = TRUE]
  <2>1. q \in SilkAccount /\ accounts' = [accounts EXCEPT ![o] = q] /\ accounts[o] # NoAccount
    BY <1>7, <1>a, FieldUpdate DEF InitDriftUser
  <2>2. q # NoAccount
    BY <2>1, ConstantsAssumption
  <2> HIDE DEF q
  <2>3. x \in Live <=> x \in Live'
    BY <1>t, <2>1, <2>2
  <2>4. x # o => tokens'[Pda(x)] = tokens[Pda(x)] /\ drift'[x] = drift[x]
    <3>1. /\ drift' = [drift EXCEPT ![o] = @ + tokens[Pda(o)]]
          /\ tokens' = [tokens EXCEPT ![Pda(o)] = 0]
      BY <1>7 DEF InitDriftUser, Bootstrap
    <3> QED
      BY <1>t, <1>h, <3>1
  <2> QED
    BY <1>t, <2>1, <2>3, <2>4
<1>8. CASE CloseAccount(o)
  <2>1. /\ tokens' = [tokens EXCEPT ![Pda(o)] = 0,
                                    ![o] = @ + tokens[Pda(o)] +
                                           (IF accounts[o].drift_user THEN drift[o] ELSE 0)]
        /\ drift' = [drift EXCEPT ![o] = @ - (IF accounts[o].drift_user THEN drift[o] ELSE 0)]
        /\ accounts' = [accounts EXCEPT ![o] = NoAccount] /\ accounts[o] # NoAccount
    BY <1>8 DEF CloseAccount, Sweep
  <2>2. CASE x = o
    <3>1. tokens'[Pda(x)] = 0
      BY <1>t, <1>h, <2>1, <2>2
    <3>2. x \in Live /\ x \notin Live'
      BY <1>t, <2>1, <2>2
    <3> QED
      BY <3>1, <3>2
  <2>3. CASE x # o
    <3>1. /\ tokens'[Pda(x)] = tokens[Pda(x)] /\ drift'[x] = drift[x]
          /\ accounts'[x] = accounts[x]
      BY <1>t, <1>h, <2>1, <2>3
    <3> QED
      BY <1>t, <3>1
  <2> QED
    BY <2>2, <2>3
<1> QED
  BY <1>1, <1>2, <1>4, <1>5, <1>6, <1>7, <1>8

\* Tokens moved by others only add to what lies where there is no account.
LEMMA OtherStepsAround ==
    ASSUME Kept, TokenStep \/ EnvironmentStep, NEW x \in Owners
    PROVE  /\ x \in Live <=> x \in Live'
           /\ x \notin Live => tokens'[Pda(x)] >= tokens[Pda(x)]
<1>t. /\ accounts \in [Owners -> SilkAccount \cup {NoAccount}]
      /\ tokens \in [Holders -> Nat] /\ tokens[Pda(x)] \in Nat
      /\ x \in Live <=> accounts[x] # NoAccount
      /\ x \in Live' <=> accounts'[x] # NoAccount
  BY KeptTypes DEF Live
<1>h. /\ Pda(x) \in Holders /\ Pda(x) \notin Wallets
      /\ \A o \in Owners : Pda(o) \in Holders /\ (Pda(x) = Pda(o) => x = o)
      /\ \A w \in Wallets : w \in Holders
  BY HolderOf
<1>1. ASSUME NEW o \in Owners, NEW n \in Nat, accounts[o] # NoAccount,
             accounts' = [accounts EXCEPT ![o].principal_balance = n]
      PROVE  x \in Live <=> x \in Live'
  <2>1. accounts[o] \in SilkAccount
    BY <1>1, <1>t
  <2>2. [accounts[o] EXCEPT !.principal_balance = n] \in SilkAccount
    BY <2>1 DEF SilkAccount
  <2> DEFINE q == [accounts[o] EXCEPT !.principal_balance = n]
  <2>3. q # NoAccount /\ accounts' = [accounts EXCEPT ![o] = q]
    BY <1>1, <2>2, ConstantsAssumption
  <2> HIDE DEF q
  <2> QED
    BY <1>1, <1>t, <2>3
<1>2. ASSUME NEW o \in Owners, NEW w \in Wallets, NEW amount \in Amounts,
             Deposit(w, o, amount)
      PROVE  /\ x \in Live <=> x \in Live'
             /\ x \notin Live => tokens'[Pda(x)] >= tokens[Pda(x)]
  <2>1. amount \in Nat /\ accounts[o] # NoAccount /\ accounts[o].principal_balance \in Nat
    BY <1>2, ConstantsAssumption, KeptTypes DEF Deposit
  <2> DEFINE n == accounts[o].principal_balance + amount
  <2>2. n \in Nat /\ accounts' = [accounts EXCEPT ![o].principal_balance = n]
    BY <1>2, <2>1 DEF Deposit
  <2> HIDE DEF n
  <2>3. x \in Live <=> x \in Live'
    BY <1>1, <2>1, <2>2
  <2>4. x # o => tokens'[Pda(x)] = tokens[Pda(x)]
    <3>1. \/ tokens' = [[tokens EXCEPT ![w] = @ - amount] EXCEPT ![Pda(o)] = @ + amount]
          \/ tokens' = [tokens EXCEPT ![w] = @ - amount]
      BY <1>2 DEF Deposit, Move
    <3> QED
      BY <1>t, <1>h, <3>1
  <2> QED
    BY <1>t, <2>1, <2>3, <2>4
<1>3. ASSUME NEW o \in Owners, NEW w \in Wallets, NEW amount \in Amounts,
             NEW recipient \in Holders, TransferFromAccount(w, o, recipient, amount)
      PROVE  /\ x \in Live <=> x \in Live'
             /\ x \notin Live => tokens'[Pda(x)] >= tokens[Pda(x)]
  <2>1. amount \in Nat /\ accounts[o] # NoAccount /\ accounts[o].principal_balance \in Nat
    BY <1>3, ConstantsAssumption, KeptTypes DEF TransferFromAccount
  <2> DEFINE n == accounts[o].principal_balance - amount
  <2>2. n \in Nat /\ accounts' = [accounts EXCEPT ![o].principal_balance = n]
    BY <1>3, <2>1 DEF TransferFromAccount, CanTransfer, Debit
  <2> HIDE DEF n
  <2>3. x \in Live <=> x \in Live'
    BY <1>1, <2>1, <2>2
  <2>4. x # o => tokens'[Pda(x)] >= tokens[Pda(x)]
    <3>1. \/ tokens' = [[tokens EXCEPT ![Pda(o)] = @ - amount] EXCEPT ![recipient] = @ + amount]
          \/ tokens' = [tokens EXCEPT ![recipient] = @ + amount]
      BY <1>3 DEF TransferFromAccount, Move
    <3> QED
      BY <1>t, <1>h, <2>1, <3>1
  <2> QED
    BY <1>t, <2>1, <2>3, <2>4
<1>4. ASSUME NEW o \in Owners, NEW w \in Wallets, NEW amount \in Gifts,
             DirectTransfer(w, o, amount)
      PROVE  /\ x \in Live <=> x \in Live'
             /\ x \notin Live => tokens'[Pda(x)] >= tokens[Pda(x)]
  <2>1. /\ amount \in Nat /\ accounts' = accounts
        /\ tokens' = [[tokens EXCEPT ![w] = @ - amount] EXCEPT ![Pda(o)] = @ + amount]
    BY <1>4, ConstantsAssumption DEF DirectTransfer, Move
  <2>2. tokens'[Pda(x)] >= tokens[Pda(x)]
    BY <1>t, <1>h, <2>1
  <2> QED
    BY <1>t, <2>1, <2>2
<1>5. ASSUME NEW o \in Owners, NEW amount \in Moves,
             DriftEarn(o, amount) \/ DriftLose(o, amount)
      PROVE  /\ x \in Live <=> x \in Live'
             /\ x \notin Live => tokens'[Pda(x)] >= tokens[Pda(x)]
  BY <1>5, <1>t DEF DriftEarn, DriftLose
<1> QED
  BY <1>2, <1>3, <1>4, <1>5 DEF TokenStep, EnvironmentStep

\* Closing an account leaves nothing at its address, in the token account or in
\* Drift; what reaches the address later is never lowered, and no account begins
\* with it.
THEOREM ClosedLeavesNothing == Spec => NothingLeftBehind
<1>1. ASSUME Kept, Kept', [Next]_vars, NEW x \in Owners
      PROVE  /\ x \in Live \ Live' => At(x)' = 0
             /\ x \in Live' \ Live => At(x)' = 0
             /\ x \notin Live \cup Live' => At(x)' >= At(x) /\ drift'[x] = 0
  <2>t. /\ tokens[Pda(x)] \in Nat /\ drift[x] \in Nat /\ tokens'[Pda(x)] \in Nat
        /\ x \notin Live => drift[x] = 0
        /\ x \notin Live' => drift'[x] = 0
    <3>1. tokens' \in [Holders -> Nat] /\ Pda(x) \in Holders
      BY <1>1, HolderOf DEF Kept, TypeOK
    <3> QED
      BY <1>1, <3>1, KeptTypes DEF Kept, DriftNeedsUser
  <2>0. At(x) = tokens[Pda(x)] + drift[x] /\ At(x)' = tokens'[Pda(x)] + drift'[x]
    BY DEF At
  <2>1. CASE UNCHANGED vars
    <3>1. x \in Live <=> x \in Live'
      BY <2>1 DEF vars, Live
    <3> QED
      BY <2>0, <2>1, <2>t, <3>1 DEF vars
  <2>2. CASE OwnerStep
    <3>1. /\ x \in Live \ Live' => tokens'[Pda(x)] = 0
          /\ x \in Live' \ Live => tokens'[Pda(x)] = 0
          /\ x \notin Live => tokens'[Pda(x)] = tokens[Pda(x)] /\ drift'[x] = drift[x]
      BY <1>1, <2>2, OwnerStepAround
    <3> QED
      BY <2>0, <2>t, <3>1
  <2>3. CASE TokenStep \/ EnvironmentStep
    <3>1. /\ x \in Live <=> x \in Live'
          /\ x \notin Live => tokens'[Pda(x)] >= tokens[Pda(x)]
      BY <1>1, <2>3, OtherStepsAround
    <3> QED
      BY <2>0, <2>t, <3>1
  <2> QED
    BY <1>1, <2>1, <2>2, <2>3 DEF Next
<1>2. Kept /\ Kept' /\ [Next]_vars =>
        [\A o \in Owners :
           /\ o \in Live \ Live' => At(o)' = 0
           /\ o \in Live' \ Live => At(o)' = 0
           /\ o \notin Live \cup Live' => At(o)' >= At(o) /\ drift'[o] = 0]_vars
  BY <1>1
<1> QED
  BY <1>2, AlwaysKept, PTL DEF Spec, NothingLeftBehind

----------------------------------------------------------------------------
(* The principal                                                           *)

\* An account a step does not touch, but for tokens that may arrive, keeps its
\* margin.
LEMMA MarginUntouched ==
    ASSUME Kept, NEW x \in Live,
           accounts'[x].drift_user = accounts[x].drift_user,
           accounts'[x].principal_balance = accounts[x].principal_balance,
           tokens'[Pda(x)] \in Nat, tokens'[Pda(x)] >= tokens[Pda(x)],
           drift'[x] \in Nat, drift'[x] >= drift[x]
    PROVE  Margin(x)' >= Margin(x)
<1>1. /\ tokens[Pda(x)] \in Nat /\ drift[x] \in Nat
      /\ accounts[x].principal_balance \in Nat
  BY KeptTypes DEF Live
<1>2. Margin(x)' = (IF accounts'[x].drift_user THEN drift'[x] ELSE tokens'[Pda(x)])
                       - accounts'[x].principal_balance
  BY DEF Margin, Spendable
<1> QED
  BY <1>1, <1>2 DEF Margin, Spendable

\* No step of an owner lowers the margin of an account that it leaves open.
LEMMA OwnerStepMargin ==
    ASSUME Kept, OwnerStep, NEW x \in Live, x \in Live'
    PROVE  Margin(x)' >= Margin(x)
<1>1. PICK o \in Owners :
        \/ CreateAccount(o)
        \/ \E w \in Wallets, limit \in Limits : AddOperator(o, w, limit)
        \/ \E w \in Wallets : RemoveOperator(o, w)
        \/ TogglePause(o)
        \/ InitDriftUser(o)
        \/ CloseAccount(o)
  BY DEF OwnerStep
<1>x. x \in Owners /\ x \in Holders /\ Pda(x) \in Holders
  BY HolderOf DEF Live
<1>t. /\ accounts \in [Owners -> SilkAccount \cup {NoAccount}]
      /\ tokens \in [Holders -> Nat] /\ drift \in [Owners -> Nat]
      /\ tokens[Pda(x)] \in Nat /\ drift[x] \in Nat
      /\ accounts[x] \in SilkAccount /\ accounts[x] # NoAccount
      /\ accounts[x].principal_balance \in Nat
      /\ ~accounts[x].drift_user => drift[x] = 0
  BY KeptTypes DEF Live
<1>2. ASSUME tokens' = tokens, drift' = drift,
             accounts'[x].drift_user = accounts[x].drift_user,
             accounts'[x].principal_balance = accounts[x].principal_balance
      PROVE  Margin(x)' >= Margin(x)
  BY <1>2, <1>t, MarginUntouched
<1>3. CASE CreateAccount(o)
  <2>1. accounts'[x] = accounts[x]
    BY <1>3, <1>t, <1>x DEF CreateAccount
  <2> QED
    BY <1>2, <1>3, <2>1 DEF CreateAccount
<1>4. ASSUME NEW w \in Wallets, NEW limit \in Limits, AddOperator(o, w, limit)
      PROVE  Margin(x)' >= Margin(x)
  <2>1. /\ AddSlot(accounts[x], w, limit).drift_user = accounts[x].drift_user
        /\ AddSlot(accounts[x], w, limit).principal_balance = accounts[x].principal_balance
    BY <1>t DEF AddSlot, SilkAccount
  <2>2. accounts'[x] = accounts[x] \/ accounts'[x] = AddSlot(accounts[x], w, limit)
    BY <1>4, <1>t, <1>x DEF AddOperator
  <2> QED
    BY <1>2, <1>4, <2>1, <2>2 DEF AddOperator
<1>5. ASSUME NEW w \in Wallets, RemoveOperator(o, w)
      PROVE  Margin(x)' >= Margin(x)
  <2>1. \A i \in 1..MaxOperators :
          /\ RemoveSlot(accounts[x], i).drift_user = accounts[x].drift_user
          /\ RemoveSlot(accounts[x], i).principal_balance = accounts[x].principal_balance
    BY <1>t DEF RemoveSlot, SilkAccount
  <2>2. PICK i \in 1..MaxOperators : accounts' = [accounts EXCEPT ![o] = RemoveSlot(@, i)]
    BY <1>5 DEF RemoveOperator
  <2>3. accounts'[x] = accounts[x] \/ accounts'[x] = RemoveSlot(accounts[x], i)
    BY <2>2, <1>t, <1>x
  <2> QED
    BY <1>2, <1>5, <2>1, <2>3 DEF RemoveOperator
<1>6. CASE TogglePause(o)
  <2>1. /\ accounts'[x].drift_user = accounts[x].drift_user
        /\ accounts'[x].principal_balance = accounts[x].principal_balance
    BY <1>6, <1>t, <1>x DEF TogglePause, SilkAccount
  <2> QED
    BY <1>2, <1>6, <2>1 DEF TogglePause
<1>7. CASE InitDriftUser(o)
  <2>1. /\ drift' = [drift EXCEPT ![o] = drift[o] + tokens[Pda(o)]]
        /\ tokens' = [tokens EXCEPT ![Pda(o)] = 0]
        /\ accounts' = [accounts EXCEPT ![o].drift_user = TRUE]
        /\ ~accounts[o].drift_user
    BY <1>7 DEF InitDriftUser, Bootstrap
  <2>2. CASE x = o
    <3>1. /\ accounts'[x].drift_user
          /\ accounts'[x].principal_balance = accounts[x].principal_balance
      BY <2>1, <2>2, <1>t, <1>x DEF SilkAccount
    <3>2. drift'[x] = tokens[Pda(x)]
      BY <2>1, <2>2, <1>t, <1>x
    <3>3. Margin(x)' = drift'[x] - accounts[x].principal_balance
      BY <3>1 DEF Margin, Spendable
    <3> QED
      BY <2>1, <2>2, <3>2, <3>3, <1>t DEF Margin, Spendable
  <2>3. CASE x # o
    <3>1. Pda(x) # Pda(o)
      BY <2>3, <1>x, HolderOf
    <3>2. accounts'[x] = accounts[x] /\ drift'[x] = drift[x] /\ tokens'[Pda(x)] = tokens[Pda(x)]
      BY <2>1, <2>3, <3>1, <1>t, <1>x
    <3> QED
      BY <3>2, <1>t, MarginUntouched
  <2> QED
    BY <2>2, <2>3
<1>8. CASE CloseAccount(o)
  <2>1. x # o
    BY <1>8, <1>t DEF CloseAccount, Live
  <2>2. Pda(x) # Pda(o) /\ Pda(x) # o
    BY <2>1, <1>x, HolderOf
  <2>3. accounts'[x] = accounts[x] /\ drift'[x] = drift[x] /\ tokens'[Pda(x)] = tokens[Pda(x)]
    BY <1>8, <2>1, <2>2, <1>t, <1>x DEF CloseAccount, Sweep
  <2> QED
    BY <2>3, <1>t, MarginUntouched
<1> QED
  BY <1>1, <1>3, <1>4, <1>5, <1>6, <1>7, <1>8

\* What moves tokens moves the principal with them.
LEMMA TokenStepMargin ==
    ASSUME Kept, Kept', TokenStep, NEW x \in Live
    PROVE  Margin(x)' >= Margin(x)
<1>1. PICK o \in Owners, w \in Wallets :
        \/ \E amount \in Amounts : Deposit(w, o, amount)
        \/ \E amount \in Amounts, recipient \in Holders :
               TransferFromAccount(w, o, recipient, amount)
  BY DEF TokenStep
<1>x. /\ x \in Owners /\ Pda(x) \in Holders /\ Pda(x) \notin Wallets
      /\ Pda(o) \in Holders /\ w \in Holders /\ Pda(o) # w
      /\ x # o => Pda(x) # Pda(o)
  BY HolderOf DEF Live
<1>t. /\ accounts \in [Owners -> SilkAccount \cup {NoAccount}]
      /\ tokens \in [Holders -> Nat] /\ drift \in [Owners -> Nat]
      /\ tokens[Pda(x)] \in Nat /\ drift[x] \in Nat
      /\ accounts[x] \in SilkAccount /\ accounts[x].principal_balance \in Nat
      /\ accounts[x].drift_user \in BOOLEAN
  BY KeptTypes DEF Live
<1>p. tokens' \in [Holders -> Nat] /\ drift' \in [Owners -> Nat]
  BY DEF Kept, TypeOK
<1>2. ASSUME NEW amount \in Amounts, Deposit(w, o, amount)
      PROVE  Margin(x)' >= Margin(x)
  <2>1. amount \in Nat
    BY ConstantsAssumption
  <2>2. CASE x = o
    <3>1. /\ accounts'[x].principal_balance = accounts[x].principal_balance + amount
          /\ accounts'[x].drift_user = accounts[x].drift_user
      BY <1>2, <2>2, <1>t, <1>x DEF Deposit, SilkAccount
    <3>2. IF accounts[x].drift_user
          THEN drift'[x] = drift[x] + amount
          ELSE tokens'[Pda(x)] = tokens[Pda(x)] + amount
      BY <1>2, <2>2, <1>t, <1>x DEF Deposit, Move
    <3>3. Margin(x)' = (IF accounts[x].drift_user THEN drift'[x] ELSE tokens'[Pda(x)])
                           - (accounts[x].principal_balance + amount)
      BY <3>1 DEF Margin, Spendable
    <3> QED
      BY <2>1, <3>2, <3>3, <1>t DEF Margin, Spendable
  <2>3. CASE x # o
    <3>1. accounts'[x] = accounts[x] /\ drift'[x] = drift[x] /\ tokens'[Pda(x)] = tokens[Pda(x)]
      BY <1>2, <2>3, <1>t, <1>x DEF Deposit, Move
    <3> QED
      BY <3>1, <1>t, MarginUntouched
  <2> QED
    BY <2>2, <2>3
<1>3. ASSUME NEW amount \in Amounts, NEW recipient \in Holders,
             TransferFromAccount(w, o, recipient, amount)
      PROVE  Margin(x)' >= Margin(x)
  <2>1. amount \in Nat /\ recipient \in Holders
    BY ConstantsAssumption
  <2>2. CASE x = o
    <3>1. /\ accounts'[x].principal_balance = accounts[x].principal_balance - amount
          /\ accounts'[x].drift_user = accounts[x].drift_user
      BY <1>3, <2>2, <1>t, <1>x DEF TransferFromAccount, Debit, SilkAccount
    <3>2. IF accounts[x].drift_user
          THEN drift'[x] = drift[x] - amount
          ELSE tokens'[Pda(x)] >= tokens[Pda(x)] - amount
      <4>1. CASE accounts[x].drift_user
        BY <1>3, <2>2, <4>1, <1>t, <1>x DEF TransferFromAccount
      <4>2. CASE ~accounts[x].drift_user
        <5>1. tokens' = [[tokens EXCEPT ![Pda(x)] = @ - amount]
                                EXCEPT ![recipient] = @ + amount]
          BY <1>3, <2>2, <4>2 DEF TransferFromAccount, Move
        <5> QED
          BY <2>1, <5>1, <4>2, <1>t, <1>x
      <4> QED
        BY <4>1, <4>2
    <3>3. Margin(x)' = (IF accounts[x].drift_user THEN drift'[x] ELSE tokens'[Pda(x)])
                           - (accounts[x].principal_balance - amount)
      BY <3>1 DEF Margin, Spendable
    <3>4. tokens'[Pda(x)] \in Nat
      BY <1>p, <1>x
    <3> QED
      BY <2>1, <3>2, <3>3, <3>4, <1>t DEF Margin, Spendable
  <2>3. CASE x # o
    <3>1. accounts'[x] = accounts[x] /\ drift'[x] = drift[x]
      BY <1>3, <2>3, <1>t, <1>x DEF TransferFromAccount
    <3>2. tokens'[Pda(x)] >= tokens[Pda(x)]
      BY <1>3, <2>1, <2>3, <1>t, <1>x DEF TransferFromAccount, Move
    <3>3. tokens'[Pda(x)] \in Nat
      BY <1>p, <1>x
    <3> QED
      BY <3>1, <3>2, <3>3, <1>t, MarginUntouched
  <2> QED
    BY <2>2, <2>3
<1> QED
  BY <1>1, <1>2, <1>3

\* Only a loss of Drift lowers what an account could pay out beyond its principal.
THEOREM PrincipalAlwaysBacked == Spec => PrincipalBacked
<1>1. ASSUME Kept, Kept', [Next]_vars, NEW x \in Live, x \in Live',
             ~ \E amount \in Moves : DriftLose(x, amount)
      PROVE  Margin(x)' >= Margin(x)
  <2>t. /\ tokens[Pda(x)] \in Nat /\ drift[x] \in Nat /\ x \in Owners
        /\ tokens \in [Holders -> Nat] /\ drift \in [Owners -> Nat]
        /\ Pda(x) \in Holders
    BY <1>1, KeptTypes, HolderOf DEF Live
  <2>1. CASE UNCHANGED vars
    BY <1>1, <2>1, <2>t, MarginUntouched DEF vars
  <2>2. CASE EnvironmentStep
    <3>1. PICK o \in Owners :
            \/ \E w \in Wallets, amount \in Gifts : DirectTransfer(w, o, amount)
            \/ \E amount \in Moves : DriftEarn(o, amount) \/ DriftLose(o, amount)
      BY <2>2 DEF EnvironmentStep
    <3>2. accounts' = accounts
      BY <3>1 DEF DirectTransfer, DriftEarn, DriftLose
    <3>3. drift'[x] >= drift[x]
      BY <1>1, <2>t, <3>1, ConstantsAssumption DEF DirectTransfer, DriftEarn, DriftLose
    <3>4. tokens'[Pda(x)] >= tokens[Pda(x)]
      <4>1. ASSUME NEW w \in Wallets, NEW amount \in Gifts, DirectTransfer(w, o, amount)
            PROVE  tokens'[Pda(x)] >= tokens[Pda(x)]
        <5>1. amount \in Nat /\ w # Pda(x) /\ Pda(o) \in Holders /\ w \in Holders
          BY <2>t, HolderOf, ConstantsAssumption
        <5> QED
          BY <4>1, <5>1, <2>t DEF DirectTransfer, Move
      <4> QED
        BY <3>1, <4>1, <2>t DEF DriftEarn, DriftLose
    <3>5. tokens'[Pda(x)] \in Nat /\ drift'[x] \in Nat
      BY <1>1, <2>t DEF Kept, TypeOK
    <3> QED
      BY <1>1, <3>2, <3>3, <3>4, <3>5, MarginUntouched
  <2> QED
    BY <1>1, <2>1, <2>2, OwnerStepMargin, TokenStepMargin DEF Next
<1>2. Kept /\ Kept' /\ [Next]_vars =>
        [\A o \in Live :
            \/ o \notin Live'
            \/ Margin(o)' >= Margin(o)
            \/ \E amount \in Moves : DriftLose(o, amount)]_vars
  BY <1>1
<1> QED
  BY <1>2, AlwaysKept, PTL DEF Spec, PrincipalBacked

----------------------------------------------------------------------------
(* The limits slots give                                                   *)

\* The slots of a compact account hold one operator each, so its limit is that of
\* whichever slot holds it.
LEMMA LimitOfSlot ==
    ASSUME NEW account, Compact(account),
           NEW i \in 1..account.operator_count
    PROVE  GivenLimit(account, account.operators[i].pubkey) =
               account.operators[i].per_tx_limit
<1> DEFINE c == account.operator_count
           ops == account.operators
           P(j) == ops[j].pubkey = ops[i].pubkey
           ch == CHOOSE j \in 1..c : P(j)
<1>1. ch \in 1..c /\ P(ch)
  <2>1. P(i)
    OBVIOUS
  <2> HIDE DEF P
  <2> QED
    BY <2>1
<1>2. ch = i
  <2> HIDE DEF ch
  <2> QED
    BY <1>1 DEF Compact
<1>3. GivenLimit(account, ops[i].pubkey) = ops[ch].per_tx_limit
  BY DEF GivenLimit
<1> QED
  BY <1>2, <1>3

\* The operators of an account hold used slots, and there are no more of them than
\* used slots.
LEMMA OperatorsBound ==
    ASSUME NEW account \in SilkAccount, Compact(account)
    PROVE  /\ Operators(account) \subseteq Wallets \cup {Nobody}
           /\ \A w \in Operators(account) : GivenLimit(account, w) \in Nat
           /\ IsFiniteSet(Operators(account))
           /\ Cardinality(Operators(account)) <= account.operator_count
<1> DEFINE c == account.operator_count
           ops == account.operators
           f == [i \in 1..c |-> ops[i].pubkey]
<1>1. c \in 0..MaxOperators /\ ops \in [1..MaxOperators -> Slot] /\ MaxOperators \in Nat
  BY ConstantsAssumption DEF SilkAccount
<1>2. \A i \in 1..c : i \in 1..MaxOperators
  BY <1>1
<1>3. ASSUME NEW i \in 1..c
      PROVE  ops[i].pubkey \in Wallets \cup {Nobody} /\ ops[i].per_tx_limit \in Nat
  BY <1>1, <1>2 DEF Slot
<1>4. f \in Surjection(1..c, Operators(account))
  BY DEF Surjection, Operators
<1>5. IsFiniteSet(1..c) /\ Cardinality(1..c) = c
  <2>1. c \in Nat /\ 1 \in Int /\ c \in Int
    BY <1>1
  <2>2. IsFiniteSet(1..c) /\ Cardinality(1..c) = IF 1 > c THEN 0 ELSE c - 1 + 1
    BY <2>1, FS_Interval
  <2> HIDE DEF c
  <2> QED
    BY <2>1, <2>2
<1>6. IsFiniteSet(Operators(account)) /\ Cardinality(Operators(account)) <= c
  <2> HIDE DEF f
  <2> QED
    BY <1>4, <1>5, FS_Surjection
<1>7. ASSUME NEW w \in Operators(account)
      PROVE  GivenLimit(account, w) \in Nat
  BY <1>3, LimitOfSlot DEF Operators
<1> QED
  BY <1>3, <1>6, <1>7 DEF Operators

\* add_operator gives the new operator its limit and changes nobody else's.
LEMMA AddSlotLimits ==
    ASSUME NEW account \in SilkAccount, Compact(account),
           NEW w \in Wallets, NEW limit \in Nat,
           account.operator_count < MaxOperators, ~IsOperator(account, w)
    PROVE  LET q == AddSlot(account, w, limit)
           IN  /\ w \notin Operators(account)
               /\ Operators(q) = Operators(account) \cup {w}
               /\ GivenLimit(q, w) = limit
               /\ \A x \in Operators(account) : GivenLimit(q, x) = GivenLimit(account, x)
<1> DEFINE c == account.operator_count
           ops == account.operators
           new == [pubkey |-> w, per_tx_limit |-> limit]
           q == AddSlot(account, w, limit)
<1>1. c \in Nat /\ c + 1 \in 1..MaxOperators /\ ops \in [1..MaxOperators -> Slot]
  BY ConstantsAssumption DEF SilkAccount
<1>2. q.operator_count = c + 1 /\ q.operators = [ops EXCEPT ![c + 1] = new]
  BY DEF AddSlot, SilkAccount
<1>3. Compact(q)
  BY AddSlotCompact
<1>4. \A i \in 1..c : i \in 1..MaxOperators /\ i # c + 1 /\ i \in 1..(c + 1)
  <2> HIDE DEF c
  <2> QED
    BY <1>1, ConstantsAssumption
<1>5. q.operators[c + 1] = new /\ \A i \in 1..c : q.operators[i] = ops[i]
  BY <1>1, <1>2, <1>4
<1>6. 1..q.operator_count = (1..c) \cup {c + 1}
  <2> HIDE DEF c
  <2> QED
    BY <1>1, <1>2
<1>7. Operators(q) = Operators(account) \cup {w}
  <2> HIDE DEF q, c
  <2>1. Operators(q) = {q.operators[i].pubkey : i \in (1..c) \cup {c + 1}}
    BY <1>6 DEF Operators
  <2>2. Operators(account) = {ops[i].pubkey : i \in 1..c}
    BY DEF Operators, c
  <2>3. q.operators[c + 1].pubkey = w /\ \A i \in 1..c : q.operators[i].pubkey = ops[i].pubkey
    BY <1>5
  <2>4. Operators(q) \subseteq Operators(account) \cup {w}
    BY <2>1, <2>2, <2>3
  <2>5. w \in Operators(q) /\ \A i \in 1..c : ops[i].pubkey \in Operators(q)
    BY <2>1, <2>3
  <2> QED
    BY <2>2, <2>4, <2>5
<1>8. GivenLimit(q, w) = limit
  <2>1. c + 1 \in 1..q.operator_count
    BY <1>6
  <2> HIDE DEF q, c
  <2> QED
    BY <2>1, <1>3, <1>5, LimitOfSlot
<1>9. ASSUME NEW x \in Operators(account)
      PROVE  GivenLimit(q, x) = GivenLimit(account, x)
  <2>1. PICK i \in 1..c : x = ops[i].pubkey
    BY DEF Operators
  <2>2. i \in 1..q.operator_count /\ q.operators[i] = ops[i]
    BY <1>5, <1>6
  <2>3. GivenLimit(account, x) = ops[i].per_tx_limit
    BY <2>1, LimitOfSlot
  <2>4. GivenLimit(q, q.operators[i].pubkey) = q.operators[i].per_tx_limit
    <3> HIDE DEF q
    <3> QED
      BY <2>2, <1>3, LimitOfSlot
  <2> HIDE DEF q
  <2> QED
    BY <2>1, <2>2, <2>3, <2>4
<1>10. w \notin Operators(account)
  BY DEF Operators, IsOperator
<1> QED
  BY <1>7, <1>8, <1>9, <1>10

\* remove_operator takes the limit of the operator in slot i and nobody else's, the
\* one whose slot moves least of all.
LEMMA RemoveSlotLimits ==
    ASSUME NEW account \in SilkAccount, Compact(account),
           NEW i \in 1..MaxOperators, i <= account.operator_count
    PROVE  LET q == RemoveSlot(account, i)
               w == account.operators[i].pubkey
           IN  /\ w \in Operators(account)
               /\ Operators(q) = Operators(account) \ {w}
               /\ \A x \in Operators(q) : GivenLimit(q, x) = GivenLimit(account, x)
<1> DEFINE c == account.operator_count
           ops == account.operators
           w == ops[i].pubkey
           q == RemoveSlot(account, i)
           old(z) == IF z = i THEN c ELSE z
<1>1. /\ c \in Nat /\ c \in 1..MaxOperators /\ MaxOperators \in Nat
      /\ ops \in [1..MaxOperators -> Slot] /\ i \in 1..c
  BY ConstantsAssumption DEF SilkAccount
<1>2. /\ q.operator_count = c - 1
      /\ q.operators = [ops EXCEPT ![i] = ops[c], ![c] = EmptySlot]
  BY DEF RemoveSlot, SilkAccount
<1>3. Compact(q)
  BY RemoveSlotCompact
<1>4. \A z \in 1..(c - 1) : z \in 1..MaxOperators /\ z # c /\ old(z) \in 1..c /\ old(z) # i
  <2> HIDE DEF c
  <2> QED
    BY <1>1
<1>5. \A z \in 1..(c - 1) : q.operators[z] = ops[old(z)]
  BY <1>1, <1>2, <1>4
<1>6. \A y \in 1..c : y # i => \E z \in 1..(c - 1) : old(z) = y
  <2>1. ASSUME NEW y \in 1..c, y # i
        PROVE  \E z \in 1..(c - 1) : old(z) = y
    <3> HIDE DEF c
    <3>1. CASE y = c
      <4>1. i \in 1..(c - 1) /\ old(i) = y
        BY <1>1, <2>1, <3>1
      <4> HIDE DEF old
      <4> QED
        BY <4>1
    <3>2. CASE y # c
      <4>1. y \in 1..(c - 1) /\ old(y) = y
        BY <1>1, <2>1, <3>2
      <4> HIDE DEF old
      <4> QED
        BY <4>1
    <3> QED
      BY <3>1, <3>2
  <2> QED
    BY <2>1
<1>7. \A y \in 1..c : ops[y].pubkey = w => y = i
  BY <1>1 DEF Compact
<1> HIDE DEF old
<1>8. Operators(q) = Operators(account) \ {w}
  <2> HIDE DEF q, c, w
  <2>1. Operators(q) = {q.operators[z].pubkey : z \in 1..(c - 1)}
    BY <1>2 DEF Operators
  <2>2. Operators(account) = {ops[y].pubkey : y \in 1..c}
    BY DEF Operators, c
  <2>3. Operators(q) = {ops[old(z)].pubkey : z \in 1..(c - 1)}
    BY <2>1, <1>5
  <2>4. Operators(q) \subseteq Operators(account) \ {w}
    BY <2>2, <2>3, <1>4, <1>7
  <2>5. ASSUME NEW x \in Operators(account) \ {w}
        PROVE  x \in Operators(q)
    <3>1. PICK y \in 1..c : x = ops[y].pubkey
      BY <2>2
    <3>2. y # i
      BY <3>1 DEF w
    <3>3. PICK z \in 1..(c - 1) : old(z) = y
      BY <3>2, <1>6
    <3> QED
      BY <2>3, <3>1, <3>3
  <2> QED
    BY <2>4, <2>5
<1>9. ASSUME NEW x \in Operators(q)
      PROVE  GivenLimit(q, x) = GivenLimit(account, x)
  <2>1. PICK z \in 1..q.operator_count : x = q.operators[z].pubkey
    BY DEF Operators
  <2>2. z \in 1..(c - 1)
    BY <2>1, <1>2
  <2>3. q.operators[z] = ops[old(z)] /\ old(z) \in 1..c
    BY <2>2, <1>4, <1>5
  <2>4. GivenLimit(q, x) = q.operators[z].per_tx_limit
    <3> HIDE DEF q
    <3> QED
      BY <2>1, <1>3, LimitOfSlot
  <2>5. GivenLimit(account, ops[old(z)].pubkey) = ops[old(z)].per_tx_limit
    BY <2>3, LimitOfSlot
  <2> HIDE DEF q, c
  <2> QED
    BY <2>1, <2>3, <2>4, <2>5
<1>10. w \in Operators(account)
  BY <1>1 DEF Operators
<1> QED
  BY <1>8, <1>9, <1>10

----------------------------------------------------------------------------
(* The refinement mapping                                                  *)

\* The mandate an account gives.
MandateOf(account) ==
    [paused |-> account.is_paused,
     limits |-> [w \in Operators(account) |-> GivenLimit(account, w)]]

Seen(account) == IF account # NoAccount THEN MandateOf(account) ELSE NoAccount

\* What the holders own, given the tokens ts and the balances dr in Drift.
WealthOf(ts, dr) ==
    [h \in Holders |-> IF h \in Wallets THEN ts[h] ELSE ts[h] + dr[h[2]]]

\* The mapping, owner by owner, before a step and after it.
LEMMA MandatesByOwner ==
    /\ Mandates = [o \in Owners |-> Seen(accounts[o])]
    /\ Mandates' = [o \in Owners |-> Seen(accounts'[o])]
    /\ Wealth = WealthOf(tokens, drift)
    /\ Wealth' = WealthOf(tokens', drift')
<1>1. \A o \in Owners : o \in Live <=> accounts[o] # NoAccount
  BY DEF Live
<1>2. \A o \in Owners : o \in Live' <=> accounts'[o] # NoAccount
  BY DEF Live
<1>3. Mandates = [o \in Owners |-> Seen(accounts[o])]
  BY <1>1 DEF Mandates, Seen, MandateOf
<1>4. Mandates' = [o \in Owners |-> Seen(accounts'[o])]
  BY <1>2 DEF Mandates, Seen, MandateOf
<1>5. Wealth = WealthOf(tokens, drift) /\ Wealth' = WealthOf(tokens', drift')
  BY DEF Wealth, WealthOf
<1> QED
  BY <1>3, <1>4, <1>5

\* A mandate is not the value that stands for none.
LEMMA SeenAccount ==
    ASSUME NEW account \in SilkAccount, Compact(account)
    PROVE  Seen(account) = MandateOf(account) /\ MandateOf(account) # NoAccount
<1> DEFINE lims == [w \in Operators(account) |-> GivenLimit(account, w)]
<1>1. lims \in [Operators(account) -> Nat]
  BY OperatorsBound
<1>2. Operators(account) \in SUBSET (Wallets \cup {Nobody})
  BY OperatorsBound
<1>3. lims \in UNION {[S -> Nat] : S \in SUBSET (Wallets \cup {Nobody})}
  <2> HIDE DEF lims
  <2> QED
    BY <1>1, <1>2
<1>4. account.is_paused \in BOOLEAN /\ account # NoAccount
  BY ConstantsAssumption DEF SilkAccount
<1>5. MandateOf(account) # NoAccount
  <2>1. MandateOf(account) = [paused |-> account.is_paused, limits |-> lims]
    BY DEF MandateOf
  <2> HIDE DEF lims
  <2>2. MandateOf(account) \in
          [paused : BOOLEAN, limits : UNION {[S -> Nat] : S \in SUBSET (Wallets \cup {Nobody})}]
    BY <2>1, <1>3, <1>4
  <2> QED
    BY <2>2, MandateAssumption
<1> QED
  BY <1>4, <1>5 DEF Seen

\* A step that gives owner o the account q, or none, changes the mandate of o alone.
LEMMA MandateMoves ==
    ASSUME Kept, NEW o \in Owners, NEW q, accounts' = [accounts EXCEPT ![o] = q]
    PROVE  Mandates' = [Mandates EXCEPT ![o] = Seen(q)]
<1>1. accounts'[o] = q /\ \A x \in Owners \ {o} : accounts'[x] = accounts[x]
  BY KeptTypes
<1>2. \A x \in Owners :
        Seen(accounts'[x]) = IF x = o THEN Seen(q) ELSE Seen(accounts[x])
  BY <1>1
<1> QED
  BY <1>2, MandatesByOwner

\* A step that leaves the accounts alone leaves the mandates alone.
LEMMA MandatesStay ==
    ASSUME accounts' = accounts
    PROVE  Mandates' = Mandates
  BY MandatesByOwner

\* The wealth of each holder.
LEMMA WealthAt ==
    ASSUME NEW ts \in [Holders -> Nat], NEW dr \in [Owners -> Nat]
    PROVE  /\ WealthOf(ts, dr) \in [Holders -> Nat]
           /\ \A w \in Wallets : WealthOf(ts, dr)[w] = ts[w]
           /\ \A o \in Owners : WealthOf(ts, dr)[Pda(o)] = ts[Pda(o)] + dr[o]
<1>1. \A o \in Owners : Pda(o)[2] = o /\ Pda(o) \in Holders /\ Pda(o) \notin Wallets
  BY HolderOf DEF Pda
<1>2. \A w \in Wallets : w \in Holders
  BY HolderOf
<1>3. \A h \in Holders : h \in Wallets \/ \E o \in Owners : h = Pda(o)
  BY HolderOf
<1>4. \A w \in Wallets : WealthOf(ts, dr)[w] = ts[w]
  BY <1>2 DEF WealthOf
<1>5. \A o \in Owners : WealthOf(ts, dr)[Pda(o)] = ts[Pda(o)] + dr[o]
  BY <1>1 DEF WealthOf
<1>6. \A h \in Holders : WealthOf(ts, dr)[h] \in Nat
  BY <1>1, <1>2, <1>3, <1>4, <1>5
<1>7. WealthOf(ts, dr) \in [Holders -> Nat]
  BY <1>6 DEF WealthOf
<1> QED
  BY <1>4, <1>5, <1>7

\* n tokens that leave holder a and reach holder b pass from the one to the other,
\* whichever of them lie in Drift before or after.
LEMMA WealthMoves ==
    ASSUME Kept, Kept', NEW a \in Holders, NEW b \in Holders, NEW n \in Nat,
           \A w \in Wallets :
               tokens'[w] = tokens[w] - (IF w = a THEN n ELSE 0) + (IF w = b THEN n ELSE 0),
           \A o \in Owners :
               tokens'[Pda(o)] + drift'[o] =
                   tokens[Pda(o)] + drift[o] - (IF Pda(o) = a THEN n ELSE 0)
                       + (IF Pda(o) = b THEN n ELSE 0)
    PROVE  Wealth' = [[Wealth EXCEPT ![a] = @ - n] EXCEPT ![b] = @ + n]
<1>t. /\ tokens \in [Holders -> Nat] /\ drift \in [Owners -> Nat]
      /\ tokens' \in [Holders -> Nat] /\ drift' \in [Owners -> Nat]
  BY DEF Kept, TypeOK
<1> DEFINE F == WealthOf(tokens, drift)
           G == WealthOf(tokens', drift')
<1>1. F \in [Holders -> Nat] /\ G \in [Holders -> Nat]
  BY <1>t, WealthAt
<1>2. ASSUME NEW h \in Holders
      PROVE  G[h] = F[h] - (IF h = a THEN n ELSE 0) + (IF h = b THEN n ELSE 0)
  <2>1. CASE h \in Wallets
    BY <1>t, <2>1, WealthAt
  <2>2. CASE h \notin Wallets
    <3>1. PICK o \in Owners : h = Pda(o)
      BY <2>2, HolderOf
    <3>2. F[h] = tokens[Pda(o)] + drift[o] /\ G[h] = tokens'[Pda(o)] + drift'[o]
      BY <1>t, <3>1, WealthAt
    <3>3. tokens'[Pda(o)] + drift'[o] =
              tokens[Pda(o)] + drift[o] - (IF Pda(o) = a THEN n ELSE 0)
                  + (IF Pda(o) = b THEN n ELSE 0)
      OBVIOUS
    <3>4. /\ tokens[Pda(o)] \in Nat /\ drift[o] \in Nat
          /\ tokens'[Pda(o)] \in Nat /\ drift'[o] \in Nat
      BY <1>t, HolderOf
    <3> HIDE DEF F, G
    <3> QED
      BY <3>1, <3>2, <3>3, <3>4
  <2> QED
    BY <2>1, <2>2
<1> HIDE DEF F, G
<1>3. ASSUME NEW h \in Holders
      PROVE  G[h] = [[F EXCEPT ![a] = @ - n] EXCEPT ![b] = @ + n][h]
  <2>1. F[h] \in Nat /\ G[h] \in Nat /\ F[a] \in Nat /\ F[b] \in Nat
    BY <1>1
  <2>2. CASE h = a /\ h = b
    <3>1. G[h] = F[h] - n + n
      BY <1>2, <2>2
    <3>2. [F EXCEPT ![a] = @ - n][b] = F[h] - n
      BY <1>1, <2>2
    <3>3. [[F EXCEPT ![a] = @ - n] EXCEPT ![b] = @ + n][h] = F[h] - n + n
      BY <1>1, <2>2, <3>2
    <3> QED
      BY <3>1, <3>3
  <2>3. CASE h = a /\ h # b
    BY <1>1, <1>2, <2>1, <2>3
  <2>4. CASE h # a /\ h = b
    BY <1>1, <1>2, <2>1, <2>4
  <2>5. CASE h # a /\ h # b
    BY <1>1, <1>2, <2>1, <2>5
  <2> QED
    BY <2>2, <2>3, <2>4, <2>5
<1>4. /\ G = [h \in Holders |-> G[h]]
      /\ [[F EXCEPT ![a] = @ - n] EXCEPT ![b] = @ + n]
            = [h \in Holders |-> [[F EXCEPT ![a] = @ - n] EXCEPT ![b] = @ + n][h]]
  BY <1>1
<1>5. G = [[F EXCEPT ![a] = @ - n] EXCEPT ![b] = @ + n]
  BY <1>3, <1>4
<1> QED
  BY <1>5, MandatesByOwner DEF F, G

\* Tokens that only change places between token account and Drift are no less the
\* owner's.
LEMMA WealthStays ==
    ASSUME Kept, Kept',
           \A w \in Wallets : tokens'[w] = tokens[w],
           \A o \in Owners : tokens'[Pda(o)] + drift'[o] = tokens[Pda(o)] + drift[o]
    PROVE  Wealth' = Wealth
<1>t. /\ tokens \in [Holders -> Nat] /\ drift \in [Owners -> Nat]
      /\ tokens' \in [Holders -> Nat] /\ drift' \in [Owners -> Nat]
  BY DEF Kept, TypeOK
<1> DEFINE F == WealthOf(tokens, drift)
           G == WealthOf(tokens', drift')
<1>1. ASSUME NEW h \in Holders
      PROVE  G[h] = F[h]
  <2>1. CASE h \in Wallets
    BY <1>t, <2>1, WealthAt
  <2>2. CASE h \notin Wallets
    <3>1. PICK o \in Owners : h = Pda(o)
      BY <2>2, HolderOf
    <3> QED
      BY <1>t, <3>1, WealthAt
  <2> QED
    BY <2>1, <2>2
<1>2. F \in [Holders -> Nat] /\ G \in [Holders -> Nat]
  BY <1>t, WealthAt
<1>3. F = G
  <2> HIDE DEF F, G
  <2> QED
    BY <1>1, <1>2
<1> QED
  BY <1>3, MandatesByOwner DEF F, G

----------------------------------------------------------------------------
(* What an owner does                                                      *)

\* What the refinement reads of an owner, with and without an account.
LEMMA SeenAt ==
    ASSUME Kept, NEW o \in Owners
    PROVE  /\ accounts[o] # NoAccount =>
                  /\ Mandates[o] = MandateOf(accounts[o]) /\ Mandates[o] # NoAccount
                  /\ Mandates[o].paused = accounts[o].is_paused
                  /\ Mandates[o].limits =
                         [w \in Operators(accounts[o]) |-> GivenLimit(accounts[o], w)]
           /\ accounts[o] = NoAccount => Mandates[o] = NoAccount
           /\ MandateView!Account(o) = Pda(o)
           /\ Wealth[Pda(o)] = tokens[Pda(o)] + drift[o]
           /\ Wealth[Pda(o)] \in Nat
           /\ \A w \in Wallets : Wealth[w] = tokens[w]
<1>1. Mandates[o] = Seen(accounts[o])
  BY MandatesByOwner
<1>2. ASSUME accounts[o] # NoAccount
      PROVE  Seen(accounts[o]) = MandateOf(accounts[o]) /\ MandateOf(accounts[o]) # NoAccount
  BY <1>2, KeptTypes, SeenAccount
<1>3. MandateView!Account(o) = Pda(o)
  BY DEF MandateView!Account, Pda
<1>4. /\ Wealth[Pda(o)] = tokens[Pda(o)] + drift[o]
      /\ \A w \in Wallets : Wealth[w] = tokens[w]
  BY KeptTypes, WealthAt, MandatesByOwner
<1>5. tokens[Pda(o)] + drift[o] \in Nat
  BY KeptTypes
<1> QED
  BY <1>1, <1>2, <1>3, <1>4, <1>5 DEF MandateOf, Seen

\* create_account gives a mandate with no operators.
LEMMA CreateOpens ==
    ASSUME Kept, NEW o \in Owners, CreateAccount(o)
    PROVE  MandateView!Open(o)
<1>1. /\ accounts[o] = NoAccount /\ accounts' = [accounts EXCEPT ![o] = FreshAccount]
      /\ tokens' = tokens /\ drift' = drift /\ spender' = Nobody
  BY DEF CreateAccount, NoTransfer
<1>2. Mandates' = [Mandates EXCEPT ![o] = Seen(FreshAccount)]
  BY <1>1, MandateMoves
<1>3. Seen(FreshAccount) = [paused |-> FALSE, limits |-> [w \in {} |-> 0]]
  <2>1. Operators(FreshAccount) = {}
    <3>1. 1..FreshAccount.operator_count = {}
      BY DEF FreshAccount
    <3> QED
      BY <3>1 DEF Operators
  <2>2. [w \in Operators(FreshAccount) |-> GivenLimit(FreshAccount, w)] = [w \in {} |-> 0]
    BY <2>1
  <2>3. Seen(FreshAccount) = MandateOf(FreshAccount)
    BY FreshType, SeenAccount
  <2>4. FreshAccount.is_paused = FALSE
    BY DEF FreshAccount
  <2> QED
    BY <2>2, <2>3, <2>4 DEF MandateOf
<1>4. Wealth' = Wealth
  BY <1>1, MandatesByOwner
<1>5. Mandates[o] = NoAccount
  BY <1>1, SeenAt
<1>6. Wealth[MandateView!Account(o)] = 0
  <2>1. tokens[Pda(o)] = 0 /\ drift[o] = 0
    BY <1>1, KeptTypes DEF CreateAccount, OpenTokenAccount
  <2>2. MandateView!Account(o) = Pda(o) /\ Wealth[Pda(o)] = tokens[Pda(o)] + drift[o]
    BY SeenAt
  <2> QED
    BY <2>1, <2>2
<1> QED
  BY <1>1, <1>2, <1>3, <1>4, <1>5, <1>6 DEF MandateView!Open, MandateView!NobodySpends

\* add_operator appoints an operator; every other keeps its limit.
LEMMA AddAppoints ==
    ASSUME Kept, NEW o \in Owners, NEW w \in Wallets, NEW limit \in Limits,
           AddOperator(o, w, limit)
    PROVE  MandateView!Appoint(o, w, limit)
<1> DEFINE account == accounts[o]
           q == AddSlot(account, w, limit)
           old == [x \in Operators(account) |-> GivenLimit(account, x)]
           new == [x \in Operators(q) |-> GivenLimit(q, x)]
<1>1. /\ account # NoAccount /\ account.operator_count < MaxOperators
      /\ ~IsOperator(account, w) /\ accounts' = [accounts EXCEPT ![o] = q]
      /\ tokens' = tokens /\ drift' = drift /\ spender' = Nobody /\ limit \in Nat
  BY ConstantsAssumption DEF AddOperator, NoTransfer
<1>2. account \in SilkAccount /\ Compact(account)
  BY <1>1, KeptTypes
<1>3. q \in SilkAccount /\ Compact(q) /\ q.is_paused = account.is_paused
  <2>1. q.is_paused = account.is_paused
    BY <1>2 DEF AddSlot, SilkAccount
  <2> QED
    BY <1>1, <1>2, <2>1, AddSlotCompact
<1>4. /\ w \notin Operators(account)
      /\ Operators(q) = Operators(account) \cup {w}
      /\ GivenLimit(q, w) = limit
      /\ \A x \in Operators(account) : GivenLimit(q, x) = GivenLimit(account, x)
  BY <1>1, <1>2, AddSlotLimits
<1>5. /\ Mandates[o].limits = old /\ DOMAIN old = Operators(account)
      /\ Mandates[o] = [paused |-> account.is_paused, limits |-> old]
      /\ Mandates[o] # NoAccount
  BY <1>1, SeenAt DEF MandateOf
<1>6. Cardinality(Operators(account)) < MaxOperators
  <2>1. account.operator_count \in Nat
    BY <1>2 DEF SilkAccount
  <2>2. /\ IsFiniteSet(Operators(account))
        /\ Cardinality(Operators(account)) <= account.operator_count
    BY <1>2, OperatorsBound
  <2>3. Cardinality(Operators(account)) \in Nat
    BY <2>2, FS_CardinalityType
  <2> QED
    BY <1>1, <2>1, <2>2, <2>3, ConstantsAssumption
<1>7. new = [x \in Operators(account) \cup {w} |-> IF x = w THEN limit ELSE old[x]]
  <2> HIDE DEF q, account
  <2> QED
    BY <1>4
<1>8. Mandates' = [Mandates EXCEPT ![o] = [paused |-> account.is_paused, limits |-> new]]
  <2>1. Seen(q) = [paused |-> account.is_paused, limits |-> new]
    <3> HIDE DEF q
    <3> QED
      BY <1>3, SeenAccount DEF MandateOf
  <2> HIDE DEF q, new
  <2> QED
    BY <1>1, <2>1, MandateMoves
<1>9. Wealth' = Wealth
  BY <1>1, MandatesByOwner
<1>10. Mandates' = [Mandates EXCEPT ![o].limits =
           [x \in DOMAIN Mandates[o].limits \cup {w} |->
                IF x = w THEN limit ELSE Mandates[o].limits[x]]]
  <2> HIDE DEF q, old, new, account
  <2>1. [Mandates[o] EXCEPT !.limits = new] = [paused |-> account.is_paused, limits |-> new]
    BY <1>5
  <2>2. Mandates' = [Mandates EXCEPT ![o].limits = new]
    BY <1>8, <2>1
  <2> QED
    BY <2>2, <1>5, <1>7
<1> QED
  <2>1. /\ w \notin DOMAIN Mandates[o].limits
        /\ Cardinality(DOMAIN Mandates[o].limits) < MaxOperators
    BY <1>4, <1>5, <1>6
  <2>2. spender' = Nobody /\ Mandates[o] # NoAccount
    BY <1>1, <1>5
  <2>3. MandateView!Cardinality(DOMAIN Mandates[o].limits) =
            Cardinality(DOMAIN Mandates[o].limits)
    BY DEF MandateView!Cardinality, Cardinality, MandateView!IsFiniteSet, IsFiniteSet
  <2> HIDE DEF q, old, new, account
  <2> QED
    BY <1>9, <1>10, <2>1, <2>2, <2>3
       DEF MandateView!Appoint, MandateView!NobodySpends, MandateView!Has

\* remove_operator dismisses an operator; every other keeps its limit, the one whose
\* slot moves too.
LEMMA RemoveDismisses ==
    ASSUME Kept, NEW o \in Owners, NEW w \in Wallets, RemoveOperator(o, w)
    PROVE  MandateView!Dismiss(o, w)
<1> DEFINE account == accounts[o]
<1>1. /\ account # NoAccount /\ tokens' = tokens /\ drift' = drift /\ spender' = Nobody
  BY DEF RemoveOperator, NoTransfer
<1>2. PICK i \in 1..MaxOperators :
        FoundAt(account, w, i) /\ accounts' = [accounts EXCEPT ![o] = RemoveSlot(@, i)]
  BY DEF RemoveOperator
<1> DEFINE q == RemoveSlot(account, i)
           old == [x \in Operators(account) |-> GivenLimit(account, x)]
           new == [x \in Operators(q) |-> GivenLimit(q, x)]
<1>3. account \in SilkAccount /\ Compact(account)
  BY <1>1, KeptTypes
<1>4. i <= account.operator_count /\ account.operators[i].pubkey = w
  <2>1. account.operator_count \in 0..MaxOperators
    BY <1>3 DEF SilkAccount
  <2> HIDE DEF account
  <2> QED
    BY <1>2, <2>1, ConstantsAssumption DEF FoundAt
<1>5. q \in SilkAccount /\ Compact(q) /\ q.is_paused = account.is_paused
  <2>1. q.is_paused = account.is_paused
    BY <1>3 DEF RemoveSlot, SilkAccount
  <2> QED
    BY <1>3, <1>4, <2>1, RemoveSlotCompact
<1>6. /\ w \in Operators(account)
      /\ Operators(q) = Operators(account) \ {w}
      /\ \A x \in Operators(q) : GivenLimit(q, x) = GivenLimit(account, x)
  BY <1>3, <1>4, RemoveSlotLimits
<1>7. /\ Mandates[o].limits = old /\ DOMAIN old = Operators(account)
      /\ Mandates[o] = [paused |-> account.is_paused, limits |-> old]
      /\ Mandates[o] # NoAccount
  BY <1>1, SeenAt DEF MandateOf
<1>8. new = [x \in Operators(account) \ {w} |-> old[x]]
  <2> HIDE DEF q, account
  <2> QED
    BY <1>6
<1>9. Mandates' = [Mandates EXCEPT ![o] = [paused |-> account.is_paused, limits |-> new]]
  <2>1. Seen(q) = [paused |-> account.is_paused, limits |-> new]
    <3> HIDE DEF q
    <3> QED
      BY <1>5, SeenAccount DEF MandateOf
  <2>2. accounts' = [accounts EXCEPT ![o] = q]
    BY <1>2
  <2> HIDE DEF q, new
  <2> QED
    BY <2>1, <2>2, MandateMoves
<1>10. Mandates' = [Mandates EXCEPT ![o].limits =
           [x \in DOMAIN Mandates[o].limits \ {w} |-> Mandates[o].limits[x]]]
  <2> HIDE DEF q, old, new, account
  <2>1. [Mandates[o] EXCEPT !.limits = new] = [paused |-> account.is_paused, limits |-> new]
    BY <1>7
  <2>2. Mandates' = [Mandates EXCEPT ![o].limits = new]
    BY <1>9, <2>1
  <2> QED
    BY <2>2, <1>7, <1>8
<1>11. Wealth' = Wealth
  BY <1>1, MandatesByOwner
<1> QED
  <2>1. w \in DOMAIN Mandates[o].limits
    BY <1>6, <1>7
  <2> QED
    BY <1>1, <1>7, <1>10, <1>11, <2>1
       DEF MandateView!Dismiss, MandateView!NobodySpends, MandateView!Has

\* toggle_pause suspends every operator or none, and touches no limit.
LEMMA ToggleSuspends ==
    ASSUME Kept, NEW o \in Owners, TogglePause(o)
    PROVE  MandateView!Suspend(o)
<1> DEFINE account == accounts[o]
           q == [account EXCEPT !.is_paused = ~account.is_paused]
           old == [x \in Operators(account) |-> GivenLimit(account, x)]
<1>1. /\ account # NoAccount /\ accounts' = [accounts EXCEPT ![o] = q]
      /\ tokens' = tokens /\ drift' = drift /\ spender' = Nobody
  BY DEF TogglePause, NoTransfer
<1>2. account \in SilkAccount /\ Compact(account) /\ account.is_paused \in BOOLEAN
  BY <1>1, KeptTypes
<1>3. /\ q \in SilkAccount /\ Compact(q) /\ q.is_paused = ~account.is_paused
      /\ q.operators = account.operators /\ q.operator_count = account.operator_count
  <2>1. /\ q.operators = account.operators /\ q.operator_count = account.operator_count
        /\ q.is_paused = ~account.is_paused
    BY <1>2 DEF SilkAccount
  <2> QED
    BY <1>2, <2>1, FieldUpdate
<1>4. Seen(q) = [paused |-> ~account.is_paused, limits |-> old]
  <2>1. Operators(q) = Operators(account)
    BY <1>3 DEF Operators
  <2>2. \A w : GivenLimit(q, w) = GivenLimit(account, w)
    BY <1>3 DEF GivenLimit
  <2>3. Seen(q) = MandateOf(q)
    <3> HIDE DEF q
    <3> QED
      BY <1>3, SeenAccount
  <2> HIDE DEF q
  <2> QED
    BY <1>3, <2>1, <2>2, <2>3 DEF MandateOf
<1>5. /\ Mandates[o] = [paused |-> account.is_paused, limits |-> old]
      /\ Mandates[o] # NoAccount
  BY <1>1, SeenAt DEF MandateOf
<1>6. Mandates' = [Mandates EXCEPT ![o].paused = ~@]
  <2>1. Mandates' = [Mandates EXCEPT ![o] = Seen(q)]
    <3> HIDE DEF q
    <3> QED
      BY <1>1, MandateMoves
  <2> HIDE DEF q, old, account
  <2>2. [Mandates[o] EXCEPT !.paused = ~Mandates[o].paused] = Seen(q)
    BY <1>4, <1>5
  <2> QED
    BY <2>1, <2>2
<1>7. Wealth' = Wealth
  BY <1>1, MandatesByOwner
<1> QED
  BY <1>1, <1>5, <1>6, <1>7 DEF MandateView!Suspend, MandateView!NobodySpends, MandateView!Has

\* A step that changes no slot and no pause of the account of o changes no mandate.
LEMMA SameMandate ==
    ASSUME Kept, NEW o \in Owners, accounts[o] # NoAccount,
           NEW q \in SilkAccount, Compact(q),
           q.is_paused = accounts[o].is_paused, q.operators = accounts[o].operators,
           q.operator_count = accounts[o].operator_count,
           accounts' = [accounts EXCEPT ![o] = q]
    PROVE  Mandates' = Mandates
<1>1. accounts[o] \in SilkAccount /\ Compact(accounts[o])
  BY KeptTypes
<1>2. Operators(q) = Operators(accounts[o]) /\ \A w : GivenLimit(q, w) = GivenLimit(accounts[o], w)
  BY DEF Operators, GivenLimit
<1>3. Seen(q) = MandateOf(q) /\ Seen(accounts[o]) = MandateOf(accounts[o])
  BY <1>1, SeenAccount
<1>4. Seen(q) = Seen(accounts[o])
  BY <1>2, <1>3 DEF MandateOf
<1>5. Mandates' = [Mandates EXCEPT ![o] = Seen(q)]
  BY MandateMoves
<1>6. Mandates = [x \in Owners |-> Seen(accounts[x])]
  BY MandatesByOwner
<1> QED
  BY <1>4, <1>5, <1>6

\* init_drift_user rearranges the funds: the idle tokens are the owner's in Drift.
LEMMA InitRearranges ==
    ASSUME Kept, Kept', NEW o \in Owners, InitDriftUser(o)
    PROVE  MandateView!Rearrange
<1> DEFINE account == accounts[o]
           q == [account EXCEPT !.drift_user = TRUE]
<1>1. /\ account # NoAccount /\ accounts' = [accounts EXCEPT ![o] = q]
      /\ drift' = [drift EXCEPT ![o] = drift[o] + tokens[Pda(o)]]
      /\ tokens' = [tokens EXCEPT ![Pda(o)] = 0] /\ spender' = Nobody
  BY DEF InitDriftUser, Bootstrap, NoTransfer
<1>2. account \in SilkAccount /\ Compact(account)
  BY <1>1, KeptTypes
<1>3. /\ q \in SilkAccount /\ Compact(q) /\ q.is_paused = account.is_paused
      /\ q.operators = account.operators /\ q.operator_count = account.operator_count
  <2>1. /\ q.operators = account.operators /\ q.operator_count = account.operator_count
        /\ q.is_paused = account.is_paused
    BY <1>2 DEF SilkAccount
  <2> QED
    BY <1>2, <2>1, FieldUpdate
<1>5. Mandates' = Mandates
  <2> HIDE DEF q
  <2> QED
    BY <1>1, <1>3, SameMandate
<1>6. Wealth' = Wealth
  <2>1. /\ tokens \in [Holders -> Nat] /\ drift \in [Owners -> Nat]
        /\ tokens' \in [Holders -> Nat] /\ drift' \in [Owners -> Nat]
    BY DEF Kept, TypeOK
  <2>2. \A w \in Wallets : tokens'[w] = tokens[w]
    BY <1>1, <2>1, HolderOf
  <2>3. ASSUME NEW x \in Owners
        PROVE  tokens'[Pda(x)] + drift'[x] = tokens[Pda(x)] + drift[x]
    <3>1. tokens[Pda(x)] \in Nat /\ drift[x] \in Nat
      BY KeptTypes
    <3>2. CASE x = o
      <4>1. tokens'[Pda(o)] = 0 /\ drift'[o] = drift[o] + tokens[Pda(o)]
        BY <1>1, <2>1, HolderOf
      <4> QED
        BY <3>1, <3>2, <4>1
    <3>3. CASE x # o
      BY <1>1, <2>1, <3>3, HolderOf
    <3> QED
      BY <3>2, <3>3
  <2> QED
    BY <2>2, <2>3, WealthStays
<1> QED
  BY <1>1, <1>5, <1>6 DEF MandateView!Rearrange, MandateView!NobodySpends

\* close_account pays the owner whatever the account has, in Drift or out of it.
LEMMA CloseCloses ==
    ASSUME Kept, Kept', NEW o \in Owners, CloseAccount(o)
    PROVE  MandateView!Close(o)
<1> DEFINE n == tokens[Pda(o)] + drift[o]
<1>t. /\ tokens \in [Holders -> Nat] /\ drift \in [Owners -> Nat]
      /\ tokens' \in [Holders -> Nat] /\ drift' \in [Owners -> Nat]
      /\ tokens[Pda(o)] \in Nat /\ drift[o] \in Nat /\ tokens[o] \in Nat
      /\ o \in Wallets /\ o \in Holders /\ Pda(o) \in Holders /\ Pda(o) # o
  BY KeptTypes, HolderOf DEF Kept, TypeOK
<1>1. /\ accounts[o] # NoAccount /\ accounts' = [accounts EXCEPT ![o] = NoAccount]
      /\ spender' = Nobody
  BY DEF CloseAccount, NoTransfer
<1>2. drift' = [drift EXCEPT ![o] = 0]
      /\ tokens' = [tokens EXCEPT ![Pda(o)] = 0, ![o] = tokens[o] + n]
  <2> DEFINE withdrawn == IF accounts[o].drift_user THEN drift[o] ELSE 0
  <2>1. withdrawn = drift[o]
    BY <1>1, KeptTypes
  <2>2. /\ drift' = [drift EXCEPT ![o] = drift[o] - withdrawn]
        /\ tokens' = [tokens EXCEPT ![Pda(o)] = 0,
                                    ![o] = tokens[o] + tokens[Pda(o)] + withdrawn]
    BY DEF CloseAccount, Sweep
  <2>3. drift[o] - drift[o] = 0 /\ tokens[o] + tokens[Pda(o)] + drift[o] = tokens[o] + n
    BY <1>t
  <2> HIDE DEF withdrawn, n
  <2> QED
    BY <2>1, <2>2, <2>3
<1>3. Wealth' = [[Wealth EXCEPT ![Pda(o)] = @ - n] EXCEPT ![o] = @ + n]
  <2>n. n \in Nat
    BY <1>t
  <2>1. ASSUME NEW w \in Wallets
        PROVE  tokens'[w] = tokens[w] - (IF w = Pda(o) THEN n ELSE 0)
                                      + (IF w = o THEN n ELSE 0)
    <3>1. w # Pda(o) /\ w \in Holders /\ tokens[w] \in Nat
      BY <1>t, HolderOf
    <3>2. tokens'[w] = IF w = o THEN tokens[o] + n ELSE tokens[w]
      BY <1>t, <1>2, <3>1
    <3> HIDE DEF n
    <3> QED
      BY <2>n, <3>1, <3>2
  <2>2. ASSUME NEW x \in Owners
        PROVE  tokens'[Pda(x)] + drift'[x] = tokens[Pda(x)] + drift[x]
                   - (IF Pda(x) = Pda(o) THEN n ELSE 0) + (IF Pda(x) = o THEN n ELSE 0)
    <3>1. /\ Pda(x) # o /\ tokens[Pda(x)] \in Nat /\ drift[x] \in Nat
          /\ Pda(x) \in Holders
      BY <1>t, HolderOf, KeptTypes
    <3>2. CASE x = o
      <4>1. tokens'[Pda(o)] = 0 /\ drift'[o] = 0
        BY <1>t, <1>2
      <4>2. 0 + 0 = tokens[Pda(o)] + drift[o] - n + 0
        BY <1>t
      <4> QED
        BY <3>1, <3>2, <4>1, <4>2
    <3>3. CASE x # o
      <4>1. Pda(x) # Pda(o)
        BY <3>3, HolderOf
      <4>2. tokens'[Pda(x)] = tokens[Pda(x)] /\ drift'[x] = drift[x]
        BY <1>t, <1>2, <3>1, <3>3, <4>1
      <4> QED
        BY <3>1, <4>1, <4>2
    <3> QED
      BY <3>2, <3>3
  <2> HIDE DEF n
  <2> QED
    BY <1>t, <2>n, <2>1, <2>2, WealthMoves
<1>4. Wealth[Pda(o)] = n /\ n <= Wealth[Pda(o)] /\ MandateView!Account(o) = Pda(o)
  <2>1. Wealth[Pda(o)] = n /\ MandateView!Account(o) = Pda(o)
    BY SeenAt
  <2> QED
    BY <1>t, <2>1
<1>5. Mandates[o] # NoAccount
  BY <1>1, SeenAt
<1>6. Mandates' = [Mandates EXCEPT ![o] = NoAccount]
  BY <1>1, MandateMoves DEF Seen
<1> QED
  <2> HIDE DEF n
  <2> QED
    BY <1>1, <1>3, <1>4, <1>5, <1>6
       DEF MandateView!Close, MandateView!Has, MandateView!Pass, MandateView!NobodySpends

----------------------------------------------------------------------------
(* Tokens                                                                  *)

\* Changing the principal changes nothing else of an account.
LEMMA PrincipalFields ==
    ASSUME NEW account \in SilkAccount, Compact(account), NEW n \in Nat
    PROVE  LET q == [account EXCEPT !.principal_balance = n]
           IN  /\ q \in SilkAccount /\ Compact(q)
               /\ q.is_paused = account.is_paused /\ q.operators = account.operators
               /\ q.operator_count = account.operator_count
<1> DEFINE q == [account EXCEPT !.principal_balance = n]
<1>1. /\ q.is_paused = account.is_paused /\ q.operators = account.operators
      /\ q.operator_count = account.operator_count
  BY DEF SilkAccount
<1> QED
  BY <1>1, PrincipalUpdate

\* Tokens that one token account passes to another pass in the mandate's terms.
LEMMA MovePasses ==
    ASSUME Kept, Kept', NEW from \in Holders, NEW to \in Holders, NEW n \in Nat,
           Move(from, to, n), drift' = drift
    PROVE  Wealth' = [[Wealth EXCEPT ![from] = @ - n] EXCEPT ![to] = @ + n]
<1>t. tokens \in [Holders -> Nat] /\ drift \in [Owners -> Nat]
  BY DEF Kept, TypeOK
<1>1. ASSUME NEW h \in Holders
      PROVE  tokens'[h] = tokens[h] - (IF h = from THEN n ELSE 0) + (IF h = to THEN n ELSE 0)
  <2>1. tokens' = [[tokens EXCEPT ![from] = @ - n] EXCEPT ![to] = @ + n]
    BY DEF Move
  <2>2. tokens[h] \in Nat
    BY <1>t
  <2>3. CASE h = from /\ h = to
    <3>1. tokens'[h] = tokens[h] - n + n
      BY <1>t, <2>1, <2>3
    <3> QED
      BY <2>2, <2>3, <3>1
  <2>4. CASE ~(h = from /\ h = to)
    BY <1>t, <2>1, <2>2, <2>4
  <2> QED
    BY <2>3, <2>4
<1>2. \A w \in Wallets :
        tokens'[w] = tokens[w] - (IF w = from THEN n ELSE 0) + (IF w = to THEN n ELSE 0)
  BY <1>1, HolderOf
<1>3. ASSUME NEW o \in Owners
      PROVE  tokens'[Pda(o)] + drift'[o] =
                 tokens[Pda(o)] + drift[o] - (IF Pda(o) = from THEN n ELSE 0)
                     + (IF Pda(o) = to THEN n ELSE 0)
  <2>1. tokens[Pda(o)] \in Nat /\ drift[o] \in Nat /\ Pda(o) \in Holders
    BY KeptTypes, HolderOf
  <2>2. tokens'[Pda(o)] = tokens[Pda(o)] - (IF Pda(o) = from THEN n ELSE 0)
                                         + (IF Pda(o) = to THEN n ELSE 0)
    BY <1>1, <2>1
  <2> QED
    BY <2>1, <2>2
<1> QED
  BY <1>2, <1>3, WealthMoves

\* deposit, into either place, pays into the account.
LEMMA DepositPaysIn ==
    ASSUME Kept, Kept', NEW w \in Wallets, NEW o \in Owners, NEW amount \in Amounts,
           Deposit(w, o, amount)
    PROVE  /\ MandateView!PayIn(w, o, amount)
           /\ amount \in 1..Wealth[w]
<1> DEFINE account == accounts[o]
           q == [account EXCEPT !.principal_balance = account.principal_balance + amount]
<1>t. /\ tokens \in [Holders -> Nat] /\ drift \in [Owners -> Nat]
      /\ w \in Holders /\ tokens[w] \in Nat /\ Pda(o) \in Holders /\ Pda(o) # w
      /\ amount \in Nat
  BY KeptTypes, HolderOf, ConstantsAssumption
<1>1. /\ account # NoAccount /\ amount > 0 /\ accounts' = [accounts EXCEPT ![o] = q]
      /\ spender' = Nobody
  BY DEF Deposit, NoTransfer
<1>2. account \in SilkAccount /\ Compact(account) /\ account.principal_balance \in Nat
  BY <1>1, KeptTypes
<1>3. Mandates' = Mandates
  <2>1. account.principal_balance + amount \in Nat
    BY <1>t, <1>2
  <2>2. /\ q \in SilkAccount /\ Compact(q)
        /\ q.is_paused = account.is_paused /\ q.operators = account.operators
        /\ q.operator_count = account.operator_count
    BY <1>2, <2>1, PrincipalFields
  <2> HIDE DEF q
  <2> QED
    BY <1>1, <2>2, SameMandate
<1>4. Wealth' = [[Wealth EXCEPT ![w] = @ - amount] EXCEPT ![Pda(o)] = @ + amount]
      /\ amount <= tokens[w]
  <2>1. CASE Move(w, Pda(o), amount) /\ drift' = drift
    <3>1. amount <= tokens[w]
      BY <1>t, <2>1 DEF Move
    <3> QED
      BY <1>t, <2>1, <3>1, MovePasses
  <2>2. CASE /\ tokens[w] >= amount
             /\ tokens' = [tokens EXCEPT ![w] = @ - amount]
             /\ drift' = [drift EXCEPT ![o] = @ + amount]
    <3>1. ASSUME NEW v \in Wallets
          PROVE  tokens'[v] = tokens[v] - (IF v = w THEN amount ELSE 0)
                                        + (IF v = Pda(o) THEN amount ELSE 0)
      <4>1. v \in Holders /\ v # Pda(o) /\ tokens[v] \in Nat
        BY <1>t, HolderOf
      <4> QED
        BY <1>t, <2>2, <4>1
    <3>2. ASSUME NEW x \in Owners
          PROVE  tokens'[Pda(x)] + drift'[x] =
                     tokens[Pda(x)] + drift[x] - (IF Pda(x) = w THEN amount ELSE 0)
                         + (IF Pda(x) = Pda(o) THEN amount ELSE 0)
      <4>1. /\ Pda(x) \in Holders /\ Pda(x) # w /\ tokens[Pda(x)] \in Nat
            /\ drift[x] \in Nat /\ Pda(x) = Pda(o) => x = o
        BY <1>t, HolderOf
      <4>2. /\ tokens'[Pda(x)] = tokens[Pda(x)]
            /\ drift'[x] = IF x = o THEN drift[x] + amount ELSE drift[x]
        BY <1>t, <2>2, <4>1
      <4> QED
        BY <1>t, <4>1, <4>2
    <3>3. Wealth' = [[Wealth EXCEPT ![w] = @ - amount] EXCEPT ![Pda(o)] = @ + amount]
      BY <1>t, <3>1, <3>2, WealthMoves
    <3> QED
      BY <1>t, <2>2, <3>3
  <2> QED
    BY <2>1, <2>2 DEF Deposit
<1>5. Wealth[w] = tokens[w] /\ MandateView!Account(o) = Pda(o)
  BY SeenAt
<1>6. Mandates[o] # NoAccount
  BY <1>1, SeenAt
<1>7. amount \in 1..Wealth[w] /\ amount <= Wealth[w]
  BY <1>t, <1>1, <1>4, <1>5
<1> QED
  BY <1>1, <1>3, <1>4, <1>5, <1>6, <1>7
     DEF MandateView!PayIn, MandateView!Pass, MandateView!NobodySpends

\* transfer_from_account spends on the order of the owner, or of an operator within
\* the limit of its slot, whichever place the tokens lie in.
LEMMA TransferSpends ==
    ASSUME Kept, Kept', NEW w \in Wallets, NEW o \in Owners, NEW amount \in Amounts,
           NEW recipient \in Holders, TransferFromAccount(w, o, recipient, amount)
    PROVE  MandateView!Spend(w, o, recipient, amount)
<1> DEFINE account == accounts[o]
           q == [account EXCEPT !.principal_balance = account.principal_balance - amount]
<1>t. /\ tokens \in [Holders -> Nat] /\ drift \in [Owners -> Nat]
      /\ Pda(o) \in Holders /\ tokens[Pda(o)] \in Nat /\ drift[o] \in Nat
      /\ amount \in Nat
  BY KeptTypes, HolderOf, ConstantsAssumption
<1>1. /\ account # NoAccount /\ accounts' = [accounts EXCEPT ![o] = q]
      /\ spender' = w /\ Authorized(w, o, amount) /\ CanTransfer(o, amount)
  BY DEF TransferFromAccount, Debit
<1>2. account \in SilkAccount /\ Compact(account) /\ account.principal_balance \in Nat
  BY <1>1, KeptTypes
<1>3. Mandates' = Mandates
  <2>1. account.principal_balance - amount \in Nat
    BY <1>t, <1>1, <1>2 DEF CanTransfer
  <2>2. /\ q \in SilkAccount /\ Compact(q)
        /\ q.is_paused = account.is_paused /\ q.operators = account.operators
        /\ q.operator_count = account.operator_count
    BY <1>2, <2>1, PrincipalFields
  <2> HIDE DEF q
  <2> QED
    BY <1>1, <2>2, SameMandate
<1>4. /\ Wealth' = [[Wealth EXCEPT ![Pda(o)] = @ - amount] EXCEPT ![recipient] = @ + amount]
      /\ amount <= tokens[Pda(o)] + drift[o]
  <2>1. CASE Move(Pda(o), recipient, amount) /\ drift' = drift
    <3>1. amount <= tokens[Pda(o)] + drift[o]
      BY <1>t, <2>1 DEF Move
    <3> QED
      BY <1>t, <2>1, <3>1, MovePasses
  <2>2. CASE /\ account.drift_user
             /\ drift' = [drift EXCEPT ![o] = @ - amount]
             /\ tokens' = [tokens EXCEPT ![recipient] = @ + amount]
    <3>1. ASSUME NEW v \in Wallets
          PROVE  tokens'[v] = tokens[v] - (IF v = Pda(o) THEN amount ELSE 0)
                                        + (IF v = recipient THEN amount ELSE 0)
      <4>1. v \in Holders /\ v # Pda(o) /\ tokens[v] \in Nat
        BY <1>t, HolderOf
      <4> QED
        BY <1>t, <2>2, <4>1
    <3>2. ASSUME NEW x \in Owners
          PROVE  tokens'[Pda(x)] + drift'[x] =
                     tokens[Pda(x)] + drift[x] - (IF Pda(x) = Pda(o) THEN amount ELSE 0)
                         + (IF Pda(x) = recipient THEN amount ELSE 0)
      <4>1. /\ Pda(x) \in Holders /\ tokens[Pda(x)] \in Nat
            /\ drift[x] \in Nat /\ Pda(x) = Pda(o) => x = o
        BY <1>t, HolderOf
      <4>2. /\ tokens'[Pda(x)] =
                   IF Pda(x) = recipient THEN tokens[Pda(x)] + amount ELSE tokens[Pda(x)]
            /\ drift'[x] = IF x = o THEN drift[x] - amount ELSE drift[x]
        BY <1>t, <2>2, <4>1
      <4> QED
        BY <1>t, <4>1, <4>2
    <3>3. Wealth' = [[Wealth EXCEPT ![Pda(o)] = @ - amount] EXCEPT ![recipient] = @ + amount]
      BY <1>t, <3>1, <3>2, WealthMoves
    <3>4. amount <= drift[o]
      BY <1>t, <1>1, <2>2 DEF CanTransfer, Spendable
    <3> QED
      BY <1>t, <3>3, <3>4
  <2> QED
    BY <2>1, <2>2 DEF TransferFromAccount
<1>5. /\ Wealth[Pda(o)] = tokens[Pda(o)] + drift[o] /\ MandateView!Account(o) = Pda(o)
  BY SeenAt
<1>6. /\ Mandates[o] # NoAccount /\ Mandates[o].paused = account.is_paused
      /\ Mandates[o].limits = [x \in Operators(account) |-> GivenLimit(account, x)]
  BY <1>1, SeenAt
<1>7. MandateView!MaySpend(w, o, amount)
  <2>1. CASE w = o
    BY <2>1 DEF MandateView!MaySpend
  <2>2. CASE w # o
    <3>1. ~account.is_paused
      BY <1>1, <2>2 DEF Authorized
    <3>2. PICK i \in 1..MaxOperators :
            FoundAt(account, w, i) /\ WithinLimit(account.operators[i], amount)
      BY <1>1, <2>2 DEF Authorized
    <3>3. i \in 1..account.operator_count /\ account.operators[i].pubkey = w
      BY <3>2 DEF FoundAt
    <3>4. w \in Operators(account)
      BY <3>3 DEF Operators
    <3>5. GivenLimit(account, w) = account.operators[i].per_tx_limit
      BY <1>2, <3>3, LimitOfSlot
    <3>6. GivenLimit(account, w) \in Nat
      BY <1>2, <3>4, OperatorsBound
    <3>7. GivenLimit(account, w) = 0 \/ amount <= GivenLimit(account, w)
      BY <3>2, <3>5, <3>6 DEF WithinLimit
    <3>8. /\ w \in DOMAIN Mandates[o].limits
          /\ Mandates[o].limits[w] = GivenLimit(account, w)
      BY <1>6, <3>4
    <3> HIDE DEF account
    <3> QED
      BY <1>6, <3>1, <3>7, <3>8 DEF MandateView!MaySpend
  <2> QED
    BY <2>1, <2>2
<1> QED
  BY <1>1, <1>3, <1>4, <1>5, <1>6, <1>7
     DEF MandateView!Spend, MandateView!Has, MandateView!Pass

----------------------------------------------------------------------------
(* What the environment does                                               *)

\* Tokens sent straight to an account's token account are paid in; none are none.
LEMMA DirectPaysIn ==
    ASSUME Kept, Kept', NEW w \in Wallets, NEW o \in Owners, NEW amount \in Gifts,
           DirectTransfer(w, o, amount)
    PROVE  \/ MandateView!Rearrange
           \/ amount \in 1..Wealth[w] /\ MandateView!PayIn(w, o, amount)
<1>t. /\ tokens \in [Holders -> Nat] /\ w \in Holders /\ tokens[w] \in Nat
      /\ Pda(o) \in Holders /\ amount \in Nat
  BY KeptTypes, HolderOf, ConstantsAssumption
<1>1. /\ Move(w, Pda(o), amount) /\ accounts' = accounts
      /\ drift' = drift /\ spender' = Nobody
  BY DEF DirectTransfer, NoTransfer
<1>2. Mandates' = Mandates
  BY <1>1, MandatesStay
<1>3. Wealth' = [[Wealth EXCEPT ![w] = @ - amount] EXCEPT ![Pda(o)] = @ + amount]
  BY <1>t, <1>1, MovePasses
<1>4. Wealth[w] = tokens[w] /\ MandateView!Account(o) = Pda(o)
  BY SeenAt
<1>5. amount <= Wealth[w]
  BY <1>t, <1>1, <1>4 DEF Move
<1>6. CASE amount = 0
  <2>1. ASSUME NEW v \in Wallets
        PROVE  tokens'[v] = tokens[v]
    <3>1. v \in Holders /\ v # Pda(o) /\ tokens[v] \in Nat
      BY <1>t, HolderOf
    <3> QED
      BY <1>t, <1>1, <1>6, <3>1 DEF Move
  <2>2. ASSUME NEW x \in Owners
        PROVE  tokens'[Pda(x)] + drift'[x] = tokens[Pda(x)] + drift[x]
    <3>1. Pda(x) \in Holders /\ Pda(x) # w /\ tokens[Pda(x)] \in Nat
      BY <1>t, HolderOf
    <3>2. tokens'[Pda(x)] = tokens[Pda(x)]
      BY <1>t, <1>1, <1>6, <3>1 DEF Move
    <3> QED
      BY <1>1, <3>2
  <2>3. Wealth' = Wealth
    BY <2>1, <2>2, WealthStays
  <2> QED
    BY <1>1, <1>2, <2>3 DEF MandateView!Rearrange, MandateView!NobodySpends
<1>7. CASE amount # 0
  <2>1. amount \in 1..Wealth[w]
    BY <1>t, <1>4, <1>5, <1>7
  <2> QED
    BY <1>1, <1>2, <1>3, <1>4, <1>5, <2>1
       DEF MandateView!PayIn, MandateView!Pass, MandateView!NobodySpends
<1> QED
  BY <1>6, <1>7

\* What Drift earns or loses moves the funds of that owner's account alone; the user
\* an account left behind is empty and earns nothing.
LEMMA DriftMarkets ==
    ASSUME Kept, Kept', NEW o \in Owners, NEW amount \in Moves,
           DriftEarn(o, amount) \/ DriftLose(o, amount)
    PROVE  MandateView!Rearrange \/ MandateView!Market(o)
<1>t. /\ tokens \in [Holders -> Nat] /\ drift \in [Owners -> Nat]
      /\ tokens[Pda(o)] \in Nat /\ drift[o] \in Nat /\ amount \in Nat
  BY KeptTypes, ConstantsAssumption
<1>1. /\ accounts' = accounts /\ tokens' = tokens /\ spender' = Nobody
      /\ drift' = [drift EXCEPT ![o] = drift'[o]]
  BY <1>t DEF DriftEarn, DriftLose, NoTransfer
<1>2. Mandates' = Mandates
  BY <1>1, MandatesStay
<1>3. CASE accounts[o] = NoAccount
  <2>1. drift[o] = 0
    BY <1>3, KeptTypes
  <2>2. DriftLose(o, amount) /\ amount = 0
    BY <1>t, <2>1 DEF DriftEarn, DriftLose
  <2>3. drift' = drift
    BY <1>t, <2>1, <2>2 DEF DriftLose
  <2>4. Wealth' = Wealth
    BY <1>1, <2>3, WealthStays
  <2> QED
    BY <1>1, <1>2, <2>4 DEF MandateView!Rearrange, MandateView!NobodySpends
<1>4. CASE accounts[o] # NoAccount
  <2>1. /\ Wealth = WealthOf(tokens, drift) /\ Wealth' = WealthOf(tokens, drift')
    BY <1>1, MandatesByOwner
  <2>2. drift' \in [Owners -> Nat]
    BY KeptTypes DEF Kept, TypeOK
  <2>3. /\ Wealth \in [Holders -> Nat] /\ Wealth' \in [Holders -> Nat]
        /\ \A w \in Wallets : Wealth'[w] = Wealth[w]
        /\ \A x \in Owners : /\ Wealth[Pda(x)] = tokens[Pda(x)] + drift[x]
                             /\ Wealth'[Pda(x)] = tokens[Pda(x)] + drift'[x]
    BY <1>t, <2>1, <2>2, WealthAt
  <2>4. \A x \in Owners \ {o} : drift'[x] = drift[x]
    BY <1>t, <1>1
  <2>5. ASSUME NEW h \in Holders, h # Pda(o)
        PROVE  Wealth'[h] = Wealth[h]
    <3>1. CASE h \in Wallets
      BY <2>3, <3>1
    <3>2. CASE h \notin Wallets
      <4>1. PICK x \in Owners : h = Pda(x)
        BY <3>2, HolderOf
      <4>2. x # o
        BY <2>5, <4>1
      <4> QED
        BY <2>3, <2>4, <4>1, <4>2
    <3> QED
      BY <3>1, <3>2
  <2>6. Pda(o) \in Holders
    BY HolderOf
  <2>7. Wealth' = [Wealth EXCEPT ![Pda(o)] = Wealth'[Pda(o)]]
    BY <2>3, <2>5, <2>6
  <2>8. Wealth'[Pda(o)] \in Nat
    BY <2>3, <2>6
  <2>9. MandateView!Account(o) = Pda(o) /\ Mandates[o] # NoAccount
    BY <1>4, SeenAt
  <2> QED
    BY <1>1, <1>2, <2>7, <2>8, <2>9
       DEF MandateView!Market, MandateView!Has, MandateView!NobodySpends
<1> QED
  BY <1>3, <1>4

----------------------------------------------------------------------------
(* The refinement                                                          *)

\* Every step of the program is a step of Mandate, or leaves all it sees as it was.
LEMMA NextImplements ==
    Kept /\ Kept' /\ [Next]_vars => [MandateView!Next]_(MandateView!vars)
<1> SUFFICES ASSUME Kept, Kept', [Next]_vars
             PROVE  [MandateView!Next]_(MandateView!vars)
  OBVIOUS
<1>1. ASSUME NEW o \in Owners, CreateAccount(o)
      PROVE  MandateView!Next
  BY <1>1, CreateOpens DEF MandateView!Next
<1>2. ASSUME NEW o \in Owners, NEW w \in Wallets, NEW limit \in Limits,
             AddOperator(o, w, limit)
      PROVE  MandateView!Next
  <2>1. MandateView!Appoint(o, w, limit)
    BY <1>2, AddAppoints
  <2> QED
    BY <2>1 DEF MandateView!Next
<1>3. ASSUME NEW o \in Owners, NEW w \in Wallets, RemoveOperator(o, w)
      PROVE  MandateView!Next
  <2>1. MandateView!Dismiss(o, w)
    BY <1>3, RemoveDismisses
  <2> QED
    BY <2>1 DEF MandateView!Next
<1>4. ASSUME NEW o \in Owners, TogglePause(o)
      PROVE  MandateView!Next
  BY <1>4, ToggleSuspends DEF MandateView!Next
<1>5. ASSUME NEW o \in Owners, InitDriftUser(o)
      PROVE  MandateView!Next
  BY <1>5, InitRearranges DEF MandateView!Next
<1>6. ASSUME NEW o \in Owners, CloseAccount(o)
      PROVE  MandateView!Next
  BY <1>6, CloseCloses DEF MandateView!Next
<1>7. ASSUME NEW o \in Owners, NEW w \in Wallets, NEW amount \in Amounts,
             Deposit(w, o, amount)
      PROVE  MandateView!Next
  <2>1. amount \in 1..Wealth[w] /\ MandateView!PayIn(w, o, amount)
    BY <1>7, DepositPaysIn
  <2> QED
    BY <2>1 DEF MandateView!Next
<1>8. ASSUME NEW o \in Owners, NEW w \in Wallets, NEW amount \in Amounts,
             NEW recipient \in Holders,
             TransferFromAccount(w, o, recipient, amount)
      PROVE  MandateView!Next
  <2>1. MandateView!Spend(w, o, recipient, amount)
    BY <1>8, TransferSpends
  <2>2. recipient \in Wallets \cup {MandateView!Account(x) : x \in Owners}
    BY DEF Holders, MandateView!Account, Pda
  <2> QED
    BY <2>1, <2>2 DEF MandateView!Next
<1>9. ASSUME NEW o \in Owners, NEW w \in Wallets, NEW amount \in Gifts,
             DirectTransfer(w, o, amount)
      PROVE  MandateView!Next
  <2>1. \/ MandateView!Rearrange
        \/ amount \in 1..Wealth[w] /\ MandateView!PayIn(w, o, amount)
    BY <1>9, DirectPaysIn
  <2> QED
    BY <2>1 DEF MandateView!Next
<1>10. ASSUME NEW o \in Owners, NEW amount \in Moves,
              DriftEarn(o, amount) \/ DriftLose(o, amount)
       PROVE  MandateView!Next
  <2>1. MandateView!Rearrange \/ MandateView!Market(o)
    BY <1>10, DriftMarkets
  <2> QED
    BY <2>1 DEF MandateView!Next
<1>11. CASE OwnerStep
  BY <1>11, <1>1, <1>2, <1>3, <1>4, <1>5, <1>6 DEF OwnerStep
<1>12. CASE TokenStep
  BY <1>12, <1>7, <1>8 DEF TokenStep
<1>13. CASE EnvironmentStep
  BY <1>13, <1>9, <1>10 DEF EnvironmentStep
<1>14. CASE UNCHANGED vars
  <2>1. Mandates' = Mandates /\ Wealth' = Wealth /\ spender' = spender
    BY <1>14, MandatesByOwner DEF vars
  <2> QED
    BY <2>1 DEF MandateView!vars
<1> QED
  BY <1>11, <1>12, <1>13, <1>14 DEF Next

\* Initially nobody has an account and the accounts' addresses hold nothing.
LEMMA InitImplements == Init /\ Kept => MandateView!Init
<1> SUFFICES ASSUME Init, Kept PROVE MandateView!Init
  OBVIOUS
<1>1. Mandates = [o \in Owners |-> NoAccount]
  BY MandatesByOwner DEF Init, Seen
<1>2. Wealth \in [Holders -> Nat]
  BY WealthAt, MandatesByOwner DEF Kept, TypeOK
<1>3. Holders = Wallets \cup {MandateView!Account(o) : o \in Owners}
  BY DEF Holders, MandateView!Account, Pda
<1>4. \A o \in Owners : Wealth[MandateView!Account(o)] = 0
  <2> TAKE o \in Owners
  <2>1. Wealth[Pda(o)] = tokens[Pda(o)] + drift[o] /\ MandateView!Account(o) = Pda(o)
    BY SeenAt
  <2>2. tokens[Pda(o)] = 0 /\ drift[o] = 0
    BY HolderOf DEF Init
  <2> QED
    BY <2>1, <2>2
<1> QED
  BY <1>1, <1>2, <1>3, <1>4 DEF Init, MandateView!Init

\* Every behaviour of the program is a behaviour of Mandate, whatever the wallets,
\* the number of slots, the limits and what Drift earns or loses: tokens leave an
\* account by order of its owner, or of a current operator within its own limit
\* while the account is not paused, and closing pays it all to the owner.
THEOREM SilkysigImplementsMandate == Spec => ImplementsMandate
<1>1. Kept /\ Kept' /\ [Next]_vars => [MandateView!Next]_(MandateView!vars)
  BY NextImplements
<1> QED
  BY <1>1, InitImplements, AlwaysKept, PTL
     DEF Spec, ImplementsMandate, MandateView!Spec
=============================================================================
