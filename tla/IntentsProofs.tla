---------------------------- MODULE IntentsProofs ----------------------------
(***************************************************************************)
(* What the endpoints build, analyze and verify is what was asked for, for *)
(* any requests, any constants and whatever happens between their steps:   *)
(* the six invariants of Intents, the answers of the matcher and of the    *)
(* verifier for transactions of any length among them.                     *)
(***************************************************************************)
EXTENDS Intents, SequenceTheorems, WellFoundedInduction, TLAPS

----------------------------------------------------------------------------
(* Induction over numbers, for a set in place of a predicate; iteration    *)

\* A set of numbers that is not empty has a least one: < is well founded on Nat.
LEMMA LeastNumber ==
    ASSUME NEW T \in SUBSET Nat, T # {}
    PROVE  \E x \in T : \A y \in T : x <= y
<1>1. PICK x \in T : \A y \in T : ~ (<<y, x>> \in OpToRel(<, Nat))
  BY NatLessThanWellFounded, WFMin
<1>2. ASSUME NEW y \in T
      PROVE  x <= y
  <2>1. <<y, x>> \in Nat \X Nat
    OBVIOUS
  <2>2. ~ (y < x)
    BY <1>1, <2>1 DEF OpToRel
  <2> QED
    BY <2>2
<1> QED
  BY <1>2

\* Induction over the numbers, for a set of them in place of a predicate: what is
\* shown of 0, and of n + 1 once it holds of n, holds of every number.
LEMMA Induction ==
    ASSUME NEW T \in SUBSET Nat, 0 \in T, \A n \in T : n + 1 \in T
    PROVE  T = Nat
<1>1. SUFFICES ASSUME Nat \ T # {}
               PROVE  FALSE
  OBVIOUS
<1>2. PICK x \in Nat \ T : \A y \in Nat \ T : x <= y
  BY <1>1, LeastNumber
<1>3. x - 1 \in T /\ x - 1 + 1 = x
  BY <1>2
<1> QED
  BY <1>2, <1>3

\* next takes each step and what the steps before it gave to what it gives, from a on.
Iteration(S, a, next) == a \in S /\ next \in [Nat -> [S -> S]]

\* What the first n steps give, and what all of them do.
Runs(f, n, S, a, next) ==
    /\ f \in [0..n -> S]
    /\ f[0] = a
    /\ \A k \in Nat : k < n => f[k + 1] = next[k + 1][f[k]]

RunsOn(f, S, a, next) ==
    /\ f \in [Nat -> S]
    /\ f[0] = a
    /\ \A n \in Nat : f[n + 1] = next[n + 1][f[n]]

\* A run of n steps can be continued by one more.
LEMMA RunsFurther ==
    ASSUME NEW S, NEW a, NEW next, Iteration(S, a, next), NEW n \in Nat,
           NEW f, Runs(f, n, S, a, next)
    PROVE  \E g : Runs(g, n + 1, S, a, next)
<1> DEFINE g == [k \in 0..(n + 1) |-> IF k = n + 1 THEN next[n + 1][f[n]] ELSE f[k]]
<1>1. /\ f \in [0..n -> S] /\ f[0] = a /\ n + 1 \in Nat /\ 0 \in 0..(n + 1)
      /\ \A k \in Nat : k < n => f[k + 1] = next[k + 1][f[k]]
  BY DEF Runs
<1>2. f[n] \in S /\ next[n + 1][f[n]] \in S
  BY <1>1 DEF Iteration
<1>3. g \in [0..(n + 1) -> S] /\ g[0] = a
  BY <1>1, <1>2
<1>4. ASSUME NEW k \in Nat, k < n + 1
      PROVE  g[k + 1] = next[k + 1][g[k]]
  <2>1. g[k] = f[k] /\ k + 1 \in 0..(n + 1)
    BY <1>4
  <2>2. CASE k = n
    BY <2>1, <2>2
  <2>3. CASE k < n
    <3>1. g[k + 1] = f[k + 1]
      BY <2>3
    <3> QED
      BY <1>1, <2>1, <2>3, <3>1
  <2> QED
    BY <1>4, <2>2, <2>3
<1> HIDE DEF g
<1> QED
  BY <1>3, <1>4 DEF Runs

\* An iteration can be run for any number of steps.
LEMMA RunsExist ==
    ASSUME NEW S, NEW a, NEW next, Iteration(S, a, next), NEW n \in Nat
    PROVE  \E f : Runs(f, n, S, a, next)
<1> DEFINE T == {m \in Nat : \E f : Runs(f, m, S, a, next)}
<1>1. 0 \in T
  <2> DEFINE f == [k \in 0..0 |-> a]
  <2>1. f \in [0..0 -> S] /\ f[0] = a
    BY DEF Iteration
  <2> HIDE DEF f
  <2>2. Runs(f, 0, S, a, next)
    BY <2>1 DEF Runs
  <2> QED
    BY <2>2
<1>2. ASSUME NEW m \in T
      PROVE  m + 1 \in T
  BY RunsFurther
<1> HIDE DEF T
<1>3. T \in SUBSET Nat
  BY DEF T
<1>4. T = Nat
  BY <1>1, <1>2, <1>3, Induction
<1> QED
  BY <1>4 DEF T

\* Two runs agree as far as the shorter one goes.
LEMMA RunsAgree ==
    ASSUME NEW S, NEW a, NEW next, NEW m \in Nat, NEW n \in Nat, m <= n,
           NEW f, Runs(f, m, S, a, next), NEW g, Runs(g, n, S, a, next)
    PROVE  f[m] = g[m]
<1> DEFINE T == {k \in Nat : k <= m => f[k] = g[k]}
<1>1. 0 \in T
  BY DEF Runs
<1>2. ASSUME NEW k \in T, k + 1 <= m
      PROVE  f[k + 1] = g[k + 1]
  <2>1. k \in Nat /\ k < m /\ k < n /\ f[k] = g[k]
    BY <1>2
  <2>2. f[k + 1] = next[k + 1][f[k]] /\ g[k + 1] = next[k + 1][g[k]]
    BY <2>1 DEF Runs
  <2> QED
    BY <2>1, <2>2
<1>3. \A k \in T : k + 1 \in T
  BY <1>2
<1>4. m \in T
  <2> HIDE DEF T
  <2>1. T \in SUBSET Nat
    BY DEF T
  <2>2. T = Nat
    BY <1>1, <1>3, <2>1, Induction
  <2> QED
    BY <2>2
<1> QED
  BY <1>4

\* An iteration can go on for ever.
LEMMA IterationGoesOn ==
    ASSUME NEW S, NEW a, NEW next, Iteration(S, a, next)
    PROVE  \E f : RunsOn(f, S, a, next)
<1> DEFINE F(n) == CHOOSE f : Runs(f, n, S, a, next)
           g == [n \in Nat |-> F(n)[n]]
<1>1. ASSUME NEW n \in Nat
      PROVE  Runs(F(n), n, S, a, next)
  BY RunsExist
<1> HIDE DEF F
<1>2. ASSUME NEW n \in Nat
      PROVE  F(n)[n] \in S /\ (n = 0 => F(n)[n] = a)
  BY <1>1 DEF Runs
<1>3. ASSUME NEW n \in Nat
      PROVE  F(n + 1)[n + 1] = next[n + 1][F(n)[n]]
  <2>1. Runs(F(n), n, S, a, next) /\ Runs(F(n + 1), n + 1, S, a, next) /\ n + 1 \in Nat
    BY <1>1
  <2>2. F(n)[n] = F(n + 1)[n]
    BY <2>1, RunsAgree
  <2>3. F(n + 1)[n + 1] = next[n + 1][F(n + 1)[n]]
    BY <2>1 DEF Runs
  <2> QED
    BY <2>2, <2>3
<1>4. g \in [Nat -> S] /\ g[0] = a
  BY <1>2
<1>5. ASSUME NEW n \in Nat
      PROVE  g[n + 1] = next[n + 1][g[n]]
  BY <1>3
<1> HIDE DEF g
<1> QED
  BY <1>4, <1>5 DEF RunsOn

----------------------------------------------------------------------------
(* Powers of ten, merged records and named accounts                        *)

\* Powers of ten.
LEMMA PowersOf10 ==
    /\ PowerOf10 \in [Nat -> Nat]
    /\ PowerOf10[0] = 1
    /\ \A n \in Nat : PowerOf10[n + 1] = 10 * PowerOf10[n]
<1> DEFINE next == [n \in Nat |-> [m \in Nat |-> 10 * m]]
<1>1. Iteration(Nat, 1, next)
  BY DEF Iteration
<1>2. PICK f : RunsOn(f, Nat, 1, next)
  BY <1>1, IterationGoesOn
<1>3. f \in [Nat -> Nat] /\ f[0] = 1 /\ \A n \in Nat : f[n + 1] = 10 * f[n]
  <2>1. \A n, m \in Nat : next[n + 1][m] = 10 * m
    OBVIOUS
  <2> HIDE DEF next
  <2> QED
    BY <1>2, <2>1 DEF RunsOn
<1>4. ASSUME NEW n \in Nat
      PROVE  f[n] = IF n = 0 THEN 1 ELSE 10 * f[n - 1]
  <2>1. n # 0 => n - 1 \in Nat /\ n - 1 + 1 = n
    OBVIOUS
  <2> QED
    BY <1>3, <2>1
<1>5. f = [n \in Nat |-> IF n = 0 THEN 1 ELSE 10 * f[n - 1]]
  BY <1>3, <1>4
<1>6. PowerOf10 = [n \in Nat |-> IF n = 0 THEN 1 ELSE 10 * PowerOf10[n - 1]]
  BY <1>5 DEF PowerOf10
<1> DEFINE T == {n \in Nat : PowerOf10[n] \in Nat}
<1>7. /\ PowerOf10[0] = 1 
      /\ \A n \in Nat : PowerOf10[n + 1] = 10 * PowerOf10[n]
  BY <1>6
<1>8. 0 \in T /\ \A n \in T : n + 1 \in T
  BY <1>7
<1>9. T = Nat
  <2>1. T \in SUBSET Nat
    OBVIOUS
  <2> HIDE DEF T
  <2> QED
    BY <1>8, <2>1, Induction
<1>10. \A n \in Nat : PowerOf10[n] \in Nat
  BY <1>9
<1>11. PowerOf10 \in [Nat -> Nat]
  BY <1>6, <1>10
<1> QED
  BY <1>7, <1>11

(* Decoded instructions                                                    *)

\* f ++ g is f where f is defined and g elsewhere: how the code spreads one object
\* over another.
LEMMA Merged ==
    ASSUME NEW f, NEW g
    PROVE  /\ DOMAIN (f ++ g) = DOMAIN f \cup DOMAIN g
           /\ \A x \in DOMAIN f : (f ++ g)[x] = f[x]
           /\ \A x \in DOMAIN g : x \notin DOMAIN f => (f ++ g)[x] = g[x]
  BY DEF ++

\* The accounts a decoder names: those of the instruction at its positions that the
\* lookup tables resolve.
LEMMA NamedAccounts ==
    ASSUME NEW ix, NEW positions
    PROVE  /\ DOMAIN Named(ix, positions) =
                  {f \in DOMAIN positions : /\ positions[f] <= Len(ix.accounts)
                                            /\ ix.accounts[positions[f]] # Unresolved}
           /\ \A f \in DOMAIN Named(ix, positions) :
                  Named(ix, positions)[f] = ix.accounts[positions[f]]
  BY DEF Named

----------------------------------------------------------------------------
(* What the decoder makes of an instruction                                *)

\* A wallet is no account of a lookup table.
LEMMA WalletResolves ==
    ASSUME NEW w \in Wallets
    PROVE  w # Unresolved /\ w.mint = "none" /\ w = [name |-> w.name, mint |-> "none"]
<1>1. w = [name |-> w.name, mint |-> w.mint] /\ w.mint = "none" /\ w.name # <<"">>
  BY DEF Wallets
<1>2. Unresolved.name = <<"">>
  BY DEF Unresolved, Key
<1> QED
  BY <1>1, <1>2

\* What the decoder makes of a payment to the pool.
LEMMA DecodedCreation ==
    ASSUME NEW ix, IsInstruction(ix), ix.op = "create_transfer", ~ix.short, NEW meta
    PROVE  LET params == DecodeHandshake(ix, meta)
           IN  /\ {"sender", "recipient", "amountHuman"} \subseteq DOMAIN params
               /\ params.sender = ix.accounts[1]
               /\ params.recipient = ix.args.recipient
               /\ params.amountHuman.value =
                      FormatUnits(ix.args.amount, GetDecimals(MintAt(ix, 3), meta))
               /\ ix.accounts[3] # Unresolved =>
                      "mint" \in DOMAIN params /\ params.mint = ix.accounts[3]
<1> DEFINE positions == [sender |-> 1, pool |-> 2, mint |-> 3]
           named == Named(ix, positions)
           first == [recipient |-> ix.args.recipient]
           memo == IF ix.args.memo = "" THEN <<>> ELSE [memo |-> ix.args.memo]
           amounts == AmountParams(MintAt(ix, 3), ix.args.amount, GetDecimals(MintAt(ix, 3), meta))
           front == first ++ memo
           arguments == front ++ amounts
           params == DecodeHandshake(ix, meta)
<1>1. params = named ++ arguments
  BY DEF DecodeHandshake, HandshakeAccounts
<1>2. /\ 1 <= Len(ix.accounts) /\ 3 <= Len(ix.accounts) /\ ix.accounts[1] \in Wallets
  BY DEF IsInstruction
<1>3. /\ DOMAIN named \subseteq {"sender", "pool", "mint"}
      /\ "sender" \in DOMAIN named /\ named.sender = ix.accounts[1]
      /\ ix.accounts[3] # Unresolved => "mint" \in DOMAIN named /\ named.mint = ix.accounts[3]
  <2>1. ix.accounts[1] # Unresolved
    BY <1>2, WalletResolves
  <2> QED
    BY <1>2, <2>1 DEF Named
<1>4. /\ DOMAIN amounts = {"amount", "amountHuman"}
      /\ amounts.amountHuman.value = FormatUnits(ix.args.amount, GetDecimals(MintAt(ix, 3), meta))
  BY DEF AmountParams
<1>5. DOMAIN first = {"recipient"} /\ first.recipient = ix.args.recipient
  OBVIOUS
<1>6. DOMAIN memo \subseteq {"memo"}
  <2>1. DOMAIN <<>> = {}
    OBVIOUS
  <2> QED
    BY <2>1
<1> HIDE DEF named, first, memo, amounts, params
<1>7. /\ DOMAIN front \subseteq {"recipient", "memo"}
      /\ "recipient" \in DOMAIN front /\ front.recipient = ix.args.recipient
  BY <1>5, <1>6 DEF ++
<1> HIDE DEF front
<1>8. /\ DOMAIN arguments \subseteq {"recipient", "memo", "amount", "amountHuman"}
      /\ "recipient" \in DOMAIN arguments /\ arguments.recipient = ix.args.recipient
      /\ "amountHuman" \in DOMAIN arguments /\ arguments.amountHuman = amounts.amountHuman
  BY <1>4, <1>7 DEF ++
<1> HIDE DEF arguments
<1>9. /\ \A f \in DOMAIN named : f \in DOMAIN params /\ params[f] = named[f]
      /\ \A f \in DOMAIN arguments : f \notin DOMAIN named => f \in DOMAIN params /\ params[f] = arguments[f]
  BY <1>1 DEF ++
<1>10. "recipient" \notin DOMAIN named /\ "amountHuman" \notin DOMAIN named
  BY <1>3
<1> QED
  BY <1>3, <1>4, <1>8, <1>9, <1>10 DEF params

\* The mint of an account whose metadata could be read is known with its true decimals.
LEMMA DecimalsRead ==
    ASSUME NEW tx, IsTransaction(tx), NEW i \in DOMAIN tx.ixs,
           tx.ixs[i].op = "create_transfer",
           tx.ixs[i].accounts[3] # Unresolved
    PROVE  /\ tx.ixs[i].accounts[3].name[1] \in Mints
           /\ tx.ixs[i].accounts[3] = Key(tx.ixs[i].accounts[3].name[1])
           /\ MintAt(tx.ixs[i], 3) = tx.ixs[i].accounts[3].name[1]
           /\ GetDecimals(tx.ixs[i].accounts[3].name[1], FetchedMeta(tx, TRUE))
              = TrueDecimals[tx.ixs[i].accounts[3].name[1]]
<1> DEFINE ix == tx.ixs[i]
<1>1. /\ ix.program = "handshake" /\ 3 <= Len(ix.accounts)
      /\ ix.accounts[3] \in {Key(m) : m \in Mints}
  BY DEF IsTransaction, IsInstruction
<1>2. PICK m \in Mints : ix.accounts[3] = Key(m)
  BY <1>1
<1>3. Key(m).name[1] = m
  BY DEF Key
<1>4. MintAt(ix, 3) = m
  BY <1>1, <1>2, <1>3 DEF MintAt
<1>5. m \in LongAddresses \ DOMAIN KnownTokens => m \in Prefetched(tx)
  <2>1. 3 \in 1..5 /\ ix.program \in DecodedPrograms
    BY <1>1 DEF DecodedPrograms
  <2> QED
    BY <1>1, <1>2, <2>1 DEF Prefetched
<1>6. GetDecimals(m, FetchedMeta(tx, TRUE)) = TrueDecimals[m]
  BY <1>5 DEF GetDecimals, FetchedMeta, KnownTokens, TrueDecimals, LongAddresses, Mints,
     DefaultDecimals
<1> QED
  BY <1>2, <1>3, <1>4, <1>6

\* What is known of a decoded instruction before its parameters are.
LEMMA DecodedType ==
    ASSUME NEW ix, IsInstruction(ix), NEW meta
    PROVE  LET d == DecodeInstruction(ix, meta)
           IN  /\ d.program = ix.program
               /\ d.known <=> ix.program \in DecodedPrograms
               /\ d.type \in {ix.op, "none"}
               /\ ix.program \in {"system", "token"} /\ ix.short => d.type = "none"
               /\ ix.op = "create_transfer" =>
                      d.type = ix.op /\ d.params = DecodeHandshake(ix, meta)
               /\ d.type = "transfer" /\ ix.program = "system" =>
                      d.params = DecodeSystem(ix)
<1>1. ix.op = "create_transfer" => ix.program = "handshake"
  BY DEF IsInstruction
<1> QED
  BY <1>1 DEF DecodeInstruction, DecodeParams, DecodedPrograms

\* The analyzer decodes every instruction where it stands, and without an error it
\* knows the program of each.
LEMMA Analysed ==
    ASSUME NEW tx, NEW meta
    PROVE  LET a == AnalyzeTransaction(tx, meta)
           IN  /\ DOMAIN a.ixs = DOMAIN tx.ixs
               /\ \A i \in DOMAIN tx.ixs : a.ixs[i] = DecodeInstruction(tx.ixs[i], meta)
               /\ a.errors = {} => \A i \in DOMAIN tx.ixs : a.ixs[i].known
<1> DEFINE ixs == [i \in DOMAIN tx.ixs |-> DecodeInstruction(tx.ixs[i], meta)]
<1>1. /\ AnalyzeTransaction(tx, meta).ixs = ixs
      /\ AnalyzeTransaction(tx, meta).errors = ErrorFlags(tx, ixs)
  BY DEF AnalyzeTransaction
<1>2. DOMAIN ixs = DOMAIN tx.ixs /\ \A i \in DOMAIN tx.ixs : ixs[i] = DecodeInstruction(tx.ixs[i], meta)
  OBVIOUS
<1> HIDE DEF ixs
<1>3. ErrorFlags(tx, ixs) = {} => \A i \in DOMAIN ixs : ixs[i].known
  BY DEF ErrorFlags
<1> QED
  BY <1>1, <1>2, <1>3

----------------------------------------------------------------------------
(* The verifier of the SDK                                                 *)

\* A reason that is not given is one whose condition does not hold.
LEMMA IfNothing ==
    ASSUME NEW condition, NEW reason, If(condition, reason) = {}
    PROVE  ~condition
  BY DEF If

\* What the program moves for a payment to the pool.
LEMMA CreationPayments ==
    ASSUME NEW ix, IsInstruction(ix), ix.op = "create_transfer"
    PROVE  Payments(ix) = IF ix.short THEN {}
                          ELSE {[mint |-> ix.accounts[3].name[1], from |-> ix.accounts[1],
                                 to |-> ix.args.recipient, units |-> ix.args.amount]}
<1>1. ix.program = "handshake"
  BY DEF IsInstruction
<1> QED
  BY <1>1 DEF Payments

\* A transaction the SDK's verifier accepts has a creation of a transfer, and what the
\* first one pays is from the sender, to the recipient, in the mint and of the amount asked.
LEMMA VerifiedSound ==
    ASSUME NEW tx, IsTransaction(tx), NEW intent, intent.type = "create_transfer",
           {"sender", "recipient", "amount"} \subseteq DOMAIN intent,
           VerifyInstruction(AnalyzeTransaction(tx, FetchedMeta(tx, TRUE)), intent).verified,
           NEW created, created = {i \in DOMAIN tx.ixs : tx.ixs[i].op = "create_transfer"},
           NEW first, first = CHOOSE i \in created : \A j \in created : i <= j
    PROVE  /\ created # {}
           /\ \A p \in Payments(tx.ixs[first]) :
                  /\ p.from = intent.sender
                  /\ p.to = intent.recipient
                  /\ Resolved(p) =>
                         /\ "tokenAddress" \in DOMAIN intent => Key(p.mint) = intent.tokenAddress
                         /\ WithinRelativeTolerance(ParseDecimal(intent.amount),
                                ParseDecimal(FormatUnits(p.units, UnitDecimals(p.mint))),
                                DefaultTolerance)
<1> DEFINE meta == FetchedMeta(tx, TRUE)
           a == AnalyzeTransaction(tx, meta)
           ofType == {i \in DOMAIN a.ixs : a.ixs[i].type = intent.type}
           chosen == CHOOSE i \in ofType : \A j \in ofType : i <= j
           params == a.ixs[chosen].params
<1>1. /\ a.errors = {} /\ ofType # {} /\ CompareInstruction(intent, params) = {}
  BY DEF VerifyInstruction
<1>2. /\ DOMAIN a.ixs = DOMAIN tx.ixs
      /\ \A i \in DOMAIN tx.ixs : a.ixs[i] = DecodeInstruction(tx.ixs[i], meta)
  BY Analysed
<1>3. \A i \in DOMAIN tx.ixs : IsInstruction(tx.ixs[i])
  BY DEF IsTransaction
<1> HIDE DEF a, meta
<1>4. ofType = created
  <2>1. ASSUME NEW i \in DOMAIN tx.ixs
        PROVE  a.ixs[i].type = "create_transfer" <=> tx.ixs[i].op = "create_transfer"
    BY <1>2, <1>3, DecodedType
  <2> QED
    BY <1>2, <2>1
<1>5. chosen = first /\ created # {}
  BY <1>1, <1>4
<1>6. first \in created
  <2>1. created \in SUBSET Nat
    BY DEF IsTransaction
  <2>2. \E i \in created : \A j \in created : i <= j
    BY <1>5, <2>1, LeastNumber
  <2> QED
    BY <2>2
<1> HIDE DEF params, ofType, chosen
<1> DEFINE ix == tx.ixs[first]
<1>7. IsInstruction(ix) /\ ix.op = "create_transfer" /\ first \in DOMAIN tx.ixs
  <2>1. first \in DOMAIN tx.ixs /\ tx.ixs[first].op = "create_transfer"
    BY <1>6
  <2> QED
    BY <1>3, <2>1
<1>8. params = DecodeHandshake(ix, meta)
  <2>1. DecodeInstruction(ix, meta).params = DecodeHandshake(ix, meta)
    <3>1. ix.program = "handshake"
      BY <1>7 DEF IsInstruction
    <3> QED
      BY <1>7, <3>1 DEF DecodeInstruction, DecodeParams, DecodedPrograms
  <2>2. params = DecodeInstruction(ix, meta).params
    BY <1>2, <1>5, <1>7 DEF params
  <2> QED
    BY <2>1, <2>2
<1> HIDE DEF ix
<1>9. ASSUME NEW p \in Payments(ix)
      PROVE  /\ p.from = intent.sender
             /\ p.to = intent.recipient
             /\ Resolved(p) =>
                    /\ "tokenAddress" \in DOMAIN intent => Key(p.mint) = intent.tokenAddress
                    /\ WithinRelativeTolerance(ParseDecimal(intent.amount),
                           ParseDecimal(FormatUnits(p.units, UnitDecimals(p.mint))),
                           DefaultTolerance)
  <2>1. /\ ~ix.short
        /\ p = [mint |-> ix.accounts[3].name[1], from |-> ix.accounts[1],
                to |-> ix.args.recipient, units |-> ix.args.amount]
    BY <1>7, CreationPayments
  <2>2. /\ {"sender", "recipient", "amountHuman"} \subseteq DOMAIN params
        /\ params.sender = ix.accounts[1]
        /\ params.recipient = ix.args.recipient
        /\ params.amountHuman.value = FormatUnits(ix.args.amount, GetDecimals(MintAt(ix, 3), meta))
        /\ ix.accounts[3] # Unresolved => "mint" \in DOMAIN params /\ params.mint = ix.accounts[3]
    BY <1>7, <1>8, <2>1, DecodedCreation
  <2>3. /\ ~Differs(intent, "sender", params, "sender")
        /\ ~Differs(intent, "recipient", params, "recipient")
        /\ If(AmountMismatch(intent, params), "amount") = {}
        /\ CompareTokenSelector(intent, params) = {}
    <3>1. /\ {c[1] : c \in {c \in ComparedFields(intent.type) :
                               Differs(intent, c[1], params, c[2])}} = {}
          /\ If(AmountMismatch(intent, params), "amount") = {}
          /\ CompareTokenSelector(intent, params) = {}
      BY <1>1 DEF CompareInstruction, TokenTypes
    <3>2. \A c \in ComparedFields(intent.type) : ~Differs(intent, c[1], params, c[2])
      BY <3>1
    <3>3. /\ <<"sender", "sender">> \in ComparedFields(intent.type)
          /\ <<"recipient", "recipient">> \in ComparedFields(intent.type)
      BY DEF ComparedFields
    <3> QED
      BY <3>1, <3>2, <3>3
  <2>4. p.from = intent.sender /\ p.to = intent.recipient
    BY <2>1, <2>2, <2>3 DEF Differs
  <2>5. ASSUME Resolved(p)
        PROVE  ix.accounts[3] # Unresolved
    BY <2>1, <2>5 DEF Resolved
  <2>6. ASSUME Resolved(p)
        PROVE  /\ p.mint \in Mints /\ ix.accounts[3] = Key(p.mint) /\ MintAt(ix, 3) = p.mint
               /\ GetDecimals(p.mint, meta) = TrueDecimals[p.mint]
    <3>1. /\ ix = tx.ixs[first] /\ first \in DOMAIN tx.ixs /\ ix.op = "create_transfer"
          /\ ix.accounts[3] # Unresolved /\ p.mint = ix.accounts[3].name[1]
      BY <1>7, <2>1, <2>5, <2>6 DEF ix
    <3>2. meta = FetchedMeta(tx, TRUE)
      BY DEF meta
    <3>3. /\ ix.accounts[3].name[1] \in Mints
          /\ ix.accounts[3] = Key(ix.accounts[3].name[1])
          /\ MintAt(ix, 3) = ix.accounts[3].name[1]
          /\ GetDecimals(ix.accounts[3].name[1], FetchedMeta(tx, TRUE))
             = TrueDecimals[ix.accounts[3].name[1]]
      <4>1. first \in DOMAIN tx.ixs /\ tx.ixs[first].op = "create_transfer"
            /\ tx.ixs[first].accounts[3] # Unresolved
        BY <3>1
      <4> QED
        BY <4>1, DecimalsRead DEF ix
    <3> QED
      BY <3>1, <3>2, <3>3
  <2>7. ASSUME Resolved(p), "tokenAddress" \in DOMAIN intent
        PROVE  Key(p.mint) = intent.tokenAddress
    <3>1. ~Differs(intent, "tokenAddress", params, "mint")
      BY <2>2, <2>3, <2>5, <2>7, IfNothing DEF CompareTokenSelector
    <3> QED
      BY <2>2, <2>5, <2>6, <2>7, <3>1 DEF Differs
  <2>8. ASSUME Resolved(p)
        PROVE  WithinRelativeTolerance(ParseDecimal(intent.amount),
                   ParseDecimal(FormatUnits(p.units, UnitDecimals(p.mint))), DefaultTolerance)
    <3>1. ~AmountMismatch(intent, params)
      BY <2>3, IfNothing
    <3>2. WithinRelativeTolerance(ParseDecimal(intent.amount),
                   ParseDecimal(params.amountHuman.value), DefaultTolerance)
      BY <2>2, <3>1 DEF AmountMismatch
    <3>3. UnitDecimals(p.mint) = TrueDecimals[p.mint]
      BY <2>6, <2>8 DEF UnitDecimals, Mints
    <3>4. params.amountHuman.value = FormatUnits(p.units, UnitDecimals(p.mint))
      BY <2>1, <2>2, <2>6, <2>8, <3>3
    <3> QED
      BY <3>2, <3>4
  <2> QED
    BY <2>4, <2>7, <2>8
<1> QED
  BY <1>5, <1>9 DEF ix

(* The matcher                                                             *)

----------------------------------------------------------------------------
(* The matcher: its loop gives each action an instruction of its own       *)

\* The discrepancies that comparing the fields of an action can give.
ComparedNames == {"from", "to", "owner", "spender", "validator", "memo", "amount"}

\* What the matcher keeps between two actions.
Matches(ixs, errors) ==
    [used : SUBSET DOMAIN ixs, confidence : {"full", "unverified"},
     discrepancies : SUBSET (errors \cup ComparedNames \cup {"not found", "program"})]

\* Nothing is matched before the first action: only the analyzer's errors are there.
NoMatch(errors) == [used |-> {}, confidence |-> "full", discrepancies |-> errors]

\* The instructions of the action's type that no action has taken yet.
Free(m, action, ixs) == {i \in DOMAIN ixs : ixs[i].type = action.action /\ i \notin m.used}

\* A condition adds at most the one reason it stands for.
LEMMA IfReason ==
    ASSUME NEW condition, NEW reason
    PROVE  If(condition, reason) \subseteq {reason}
  BY DEF If

\* Comparing the fields of an action names no other discrepancies than those.
LEMMA FieldNames ==
    ASSUME NEW action, NEW params
    PROVE  CompareFields(action, params) \subseteq ComparedNames
<1>1. \A f \in {"from", "to", "owner", "spender", "validator", "memo"} :
          If(Differs(action, f, params, f), f) \subseteq {f}
  BY IfReason
<1>2. If(/\ "amount" \in DOMAIN action /\ "amountHuman" \in DOMAIN params
         /\ ~EvaluateConstraint(action.amount, params.amountHuman.value), "amount")
      \subseteq {"amount"}
  BY IfReason
<1> DEFINE names == {"from", "to", "owner", "spender", "validator", "memo"}
           compared == UNION {If(Differs(action, f, params, f), f) : f \in names}
<1>3. compared \subseteq names
  <2>1. ASSUME NEW x \in compared
        PROVE  \E f \in names : x \in If(Differs(action, f, params, f), f)
    OBVIOUS
  <2> HIDE DEF compared
  <2> QED
    BY <1>1, <2>1
<1>4. CompareFields(action, params) =
          compared \cup If(/\ "amount" \in DOMAIN action /\ "amountHuman" \in DOMAIN params
                          /\ ~EvaluateConstraint(action.amount, params.amountHuman.value), "amount")
  BY DEF CompareFields
<1>5. names \subseteq ComparedNames /\ "amount" \in ComparedNames
  BY DEF ComparedNames
<1> HIDE DEF compared, names
<1> QED
  BY <1>2, <1>3, <1>4, <1>5

\* One action takes a free instruction, or leaves a discrepancy.
LEMMA MatchStep ==
    ASSUME NEW ixs, DOMAIN ixs \in SUBSET Nat, NEW errors, NEW m \in Matches(ixs, errors),
           NEW action, NEW program
    PROVE  LET n == MatchSingleAction(m, action, ixs, program)
           IN  /\ n \in Matches(ixs, errors)
               /\ \/ n.discrepancies # {}
                  \/ \E i \in Free(m, action, ixs) :
                         /\ \A j \in Free(m, action, ixs) : i <= j
                         /\ n.used = m.used \cup {i}
                         /\ m.discrepancies = {}
                         /\ program \in {"none", ixs[i].program}
                         /\ action.action \in KnownActions =>
                                CompareFields(action, ixs[i].params) = {}
               /\ \A i \in Free(m, action, ixs) :
                      /\ \A j \in Free(m, action, ixs) : i <= j
                      /\ m.discrepancies = {} /\ program \in {"none", ixs[i].program}
                      /\ action.action \in KnownActions
                      /\ CompareFields(action, ixs[i].params) = {}
                      => n = [used |-> m.used \cup {i}, confidence |-> m.confidence,
                              discrepancies |-> {}]
<1> DEFINE free == {i \in DOMAIN ixs : ixs[i].type = action.action /\ i \notin m.used}
           i == CHOOSE i \in free : \A j \in free : i <= j
           known == action.action \in KnownActions
           fields == IF known THEN CompareFields(action, ixs[i].params) ELSE {}
           other == If(program \notin {"none", ixs[i].program}, "program")
           taken == [used |-> m.used \cup {i},
                     confidence |-> IF known THEN m.confidence ELSE "unverified",
                     discrepancies |-> m.discrepancies \cup other \cup fields]
           n == MatchSingleAction(m, action, ixs, program)
<1>1. /\ free = {} => n = [m EXCEPT !.discrepancies = m.discrepancies \cup {"not found"}]
      /\ free # {} => n = taken
  BY DEF MatchSingleAction
<1>2. Free(m, action, ixs) = free
  BY DEF Free
<1>3. free # {} => i \in free /\ \A j \in free : i <= j
  <2>1. free \in SUBSET Nat
    OBVIOUS
  <2>2. free # {} => \E k \in free : \A j \in free : k <= j
    BY <2>1, LeastNumber
  <2> QED
    BY <2>2
<1>4. /\ m.used \subseteq DOMAIN ixs /\ m.confidence \in {"full", "unverified"}
      /\ m.discrepancies \subseteq errors \cup ComparedNames \cup {"not found", "program"}
      /\ m = [used |-> m.used, confidence |-> m.confidence, discrepancies |-> m.discrepancies]
  BY DEF Matches
<1>5. fields \subseteq ComparedNames /\ other \subseteq {"program"}
  BY FieldNames, IfReason
<1>6. CASE free = {}
  <2>1. n = [used |-> m.used, confidence |-> m.confidence,
             discrepancies |-> m.discrepancies \cup {"not found"}]
    BY <1>1, <1>4, <1>6
  <2>2. n \in Matches(ixs, errors) /\ n.discrepancies # {}
    <3> HIDE DEF n
    <3>1. m.discrepancies \cup {"not found"} \in
              SUBSET (errors \cup ComparedNames \cup {"not found", "program"})
      BY <1>4
    <3>2. n.discrepancies # {}
      BY <2>1
    <3> QED
      BY <1>4, <2>1, <3>1, <3>2 DEF Matches
  <2> HIDE DEF n, free
  <2> QED
    BY <1>2, <1>6, <2>2 DEF n
<1>7. CASE free # {}
  <2>1. n = taken /\ i \in DOMAIN ixs /\ i \in free /\ \A j \in free : i <= j
    BY <1>1, <1>3, <1>7
  <2> DEFINE d == m.discrepancies \cup other \cup fields
  <2>2. /\ n.used = m.used \cup {i} /\ n.discrepancies = d
        /\ n = [used |-> n.used, confidence |-> n.confidence, discrepancies |-> d]
        /\ n.confidence \in {"full", "unverified"} /\ (known => n.confidence = m.confidence)
    <3>1. n = taken
      BY <2>1
    <3> HIDE DEF n, i, fields, other, known
    <3> QED
      BY <1>4, <3>1
  <2>3. n \in Matches(ixs, errors)
    <3> HIDE DEF n, i, fields, other
    <3> QED
      BY <1>4, <1>5, <2>1, <2>2 DEF Matches
  <2>4. ASSUME n.discrepancies = {}
        PROVE  /\ m.discrepancies = {} /\ program \in {"none", ixs[i].program}
               /\ known => CompareFields(action, ixs[i].params) = {}
    <3>1. m.discrepancies = {} /\ other = {} /\ fields = {}
      BY <2>2, <2>4
    <3> QED
      BY <3>1, IfNothing
  <2>5. ASSUME NEW k \in free, \A j \in free : k <= j,
               m.discrepancies = {}, program \in {"none", ixs[k].program},
               known, CompareFields(action, ixs[k].params) = {}
        PROVE  n = [used |-> m.used \cup {k}, confidence |-> m.confidence, discrepancies |-> {}]
    <3>1. k = i
      <4>1. k <= i /\ i <= k /\ k \in Nat /\ i \in Nat
        BY <2>1, <2>5
      <4> HIDE DEF i
      <4> QED
        BY <4>1
    <3>2. other = {} /\ fields = {}
      BY <2>5, <3>1 DEF If
    <3> QED
      BY <2>1, <2>5, <3>1, <3>2
  <2> HIDE DEF n, free, i, known
  <2> QED
    BY <1>2, <2>1, <2>2, <2>3, <2>4, <2>5 DEF n, known
<1> QED
  BY <1>6, <1>7

\* f gives each of the first n actions an instruction of its own, one the matcher accepts.
Assigns(f, n, actions, ixs, program) ==
    /\ f \in [1..n -> DOMAIN ixs]
    /\ \A k, l \in 1..n : k # l => f[k] # f[l]
    /\ \A k \in 1..n :
           /\ ixs[f[k]].type = actions[k].action
           /\ program \in {"none", ixs[f[k]].program}
           /\ actions[k].action \in KnownActions => CompareFields(actions[k], ixs[f[k]].params) = {}

\* What the matcher has after each action.
MatchRuns(M, n, actions, ixs, errors, program) ==
    /\ M[0] = NoMatch(errors)
    /\ \A k \in 0..n : M[k] \in Matches(ixs, errors)
    /\ \A k \in Nat : k < n =>
           M[k + 1] = MatchSingleAction(M[k], actions[k + 1], ixs, program)

\* What the matcher answers with once every action had its turn.
Verdict(m, ixs, strict) ==
    LET extra == {i \in DOMAIN ixs \ m.used : ~IsAncillary(ixs[i])}
        discrepancies == m.discrepancies \cup If(strict /\ extra # {}, "strict")
    IN  [matched |-> discrepancies = {} /\ m.confidence # "unverified",
         confidence |-> m.confidence, discrepancies |-> discrepancies]

\* The loop of the matcher over the actions as a sequence of its states, the last of
\* which is its answer.
LEMMA MatchIntentRuns ==
    ASSUME NEW actions, Len(actions) \in Nat, NEW ixs, DOMAIN ixs \in SUBSET Nat,
           NEW errors, NEW strict, NEW program
    PROVE  \E M : /\ MatchRuns(M, Len(actions), actions, ixs, errors, program)
                  /\ MatchIntent(actions, ixs, errors, strict, program)
                     = Verdict(M[Len(actions)], ixs, strict)
<1> DEFINE n == Len(actions)
           S == Matches(ixs, errors)
           a == NoMatch(errors)
           Eq(g) == g = [k \in 0..n |->
                            IF k = 0 THEN [used |-> {}, confidence |-> "full", discrepancies |-> errors]
                            ELSE MatchSingleAction(g[k - 1], actions[k], ixs, program)]
           next == [k \in Nat |-> [m \in S |-> MatchSingleAction(m, actions[k], ixs, program)]]
           M == CHOOSE g : Eq(g)
<1>1. Iteration(S, a, next)
  <2>1. a \in S
    BY DEF NoMatch, Matches
  <2>2. \A k \in Nat, m \in S : MatchSingleAction(m, actions[k], ixs, program) \in S
    BY MatchStep
  <2> HIDE DEF S, a
  <2> QED
    BY <2>1, <2>2 DEF Iteration
<1>2. PICK f : Runs(f, n, S, a, next)
  <2> HIDE DEF S, a, next
  <2> QED
    BY <1>1, RunsExist
<1>3. /\ f \in [0..n -> S] /\ f[0] = a
      /\ \A k \in Nat : k < n => f[k + 1] = MatchSingleAction(f[k], actions[k + 1], ixs, program)
  <2>1. \A k \in Nat, m \in S : next[k + 1][m] = MatchSingleAction(m, actions[k + 1], ixs, program)
    OBVIOUS
  <2> HIDE DEF S, a, next
  <2>2. /\ f \in [0..n -> S] /\ f[0] = a
        /\ \A k \in Nat : k < n => f[k + 1] = next[k + 1][f[k]]
    BY <1>2 DEF Runs
  <2>3. ASSUME NEW k \in Nat, k < n
        PROVE  f[k + 1] = MatchSingleAction(f[k], actions[k + 1], ixs, program)
    <3>1. k \in 0..n
      BY <2>3
    <3>2. f[k] \in S
      BY <2>2, <3>1
    <3> HIDE DEF n
    <3> QED
      BY <2>1, <2>2, <2>3, <3>2
  <2> QED
    BY <2>2, <2>3
<1>4. Eq(f)
  <2>1. ASSUME NEW k \in 0..n, k # 0
        PROVE  f[k] = MatchSingleAction(f[k - 1], actions[k], ixs, program)
    <3>1. k - 1 \in Nat /\ k - 1 < n /\ k - 1 + 1 = k
      BY <2>1
    <3> QED
      BY <1>3, <3>1
  <2>2. f[0] = [used |-> {}, confidence |-> "full", discrepancies |-> errors]
    BY <1>3 DEF NoMatch
  <2>3. f = [k \in 0..n |-> f[k]]
    BY <1>3
  <2> QED
    BY <2>1, <2>2, <2>3
<1>5. Eq(M)
  <2> HIDE DEF Eq
  <2> QED
    BY <1>4
<1>6. MatchIntent(actions, ixs, errors, strict, program) = Verdict(M[n], ixs, strict)
  BY DEF MatchIntent, Verdict
<1>7. /\ M[0] = a
      /\ \A k \in Nat : k < n => M[k + 1] = MatchSingleAction(M[k], actions[k + 1], ixs, program)
  <2> HIDE DEF M
  <2>1. M[0] = a
    BY <1>5 DEF NoMatch
  <2>2. ASSUME NEW k \in Nat, k < n
        PROVE  M[k + 1] = MatchSingleAction(M[k], actions[k + 1], ixs, program)
    <3>1. \A j \in 0..n : j # 0 => M[j] = MatchSingleAction(M[j - 1], actions[j], ixs, program)
      BY <1>5
    <3>2. k + 1 \in 0..n /\ k + 1 # 0 /\ k + 1 - 1 = k
      BY <2>2
    <3> HIDE DEF Eq, n
    <3> QED
      BY <3>1, <3>2
  <2> QED
    BY <2>1, <2>2
<1> HIDE DEF M
<1>8. \A k \in 0..n : M[k] \in S
  <2> DEFINE T == {k \in Nat : k <= n => M[k] = f[k]}
  <2>1. 0 \in T
    BY <1>3, <1>7
  <2>2. ASSUME NEW k \in T
        PROVE  k + 1 \in T
    <3>1. CASE k < n
      <4>1. M[k] = f[k]
        BY <3>1
      <4> QED
        BY <1>3, <1>7, <3>1, <4>1
    <3> QED
      BY <3>1
  <2>3. T = Nat
    <3>1. T \in SUBSET Nat
      OBVIOUS
    <3> HIDE DEF T
    <3> QED
      BY <2>1, <2>2, <3>1, Induction
  <2> QED
    BY <1>3, <2>3
<1> QED
  BY <1>6, <1>7, <1>8 DEF MatchRuns

\* The matcher gave instruction i to the action, and had no fault to find with it.
Takes(m, n, i, action, ixs, program) ==
    /\ n.used = m.used \cup {i}
    /\ m.discrepancies = {}
    /\ program \in {"none", ixs[i].program}
    /\ action.action \in KnownActions => CompareFields(action, ixs[i].params) = {}

\* If matching one action leaves no discrepancy, the action took a free instruction of
\* its type, and agreed with it.
LEMMA MatchTakes ==
    ASSUME NEW ixs, DOMAIN ixs \in SUBSET Nat, NEW errors, NEW m \in Matches(ixs, errors),
           NEW action, NEW program,
           MatchSingleAction(m, action, ixs, program).discrepancies = {}
    PROVE  \E i \in Free(m, action, ixs) :
               Takes(m, MatchSingleAction(m, action, ixs, program), i, action, ixs, program)
<1> DEFINE n == MatchSingleAction(m, action, ixs, program)
<1>1. \/ n.discrepancies # {}
      \/ \E i \in Free(m, action, ixs) :
             /\ \A j \in Free(m, action, ixs) : i <= j
             /\ n.used = m.used \cup {i}
             /\ m.discrepancies = {}
             /\ program \in {"none", ixs[i].program}
             /\ action.action \in KnownActions => CompareFields(action, ixs[i].params) = {}
  BY MatchStep
<1> QED
  BY <1>1 DEF Takes

\* The instructions used are those given to the first n actions.
Uses(f, n, used) == used = {f[k] : k \in 1..n}

\* An assignment of the first n actions goes on to one more, with an instruction that
\* is still free.
LEMMA AssignsStep ==
    ASSUME NEW n \in Nat, NEW actions, NEW ixs, NEW program, NEW f, NEW used,
           Assigns(f, n, actions, ixs, program), Uses(f, n, used),
           NEW i \in DOMAIN ixs, i \notin used, ixs[i].type = actions[n + 1].action,
           program \in {"none", ixs[i].program},
           actions[n + 1].action \in KnownActions =>
               CompareFields(actions[n + 1], ixs[i].params) = {}
    PROVE  \E g : /\ Assigns(g, n + 1, actions, ixs, program)
                  /\ Uses(g, n + 1, used \cup {i})
<1> DEFINE g == [k \in 1..(n + 1) |-> IF k = n + 1 THEN i ELSE f[k]]
<1>1. /\ f \in [1..n -> DOMAIN ixs]
      /\ \A k, l \in 1..n : k # l => f[k] # f[l]
      /\ \A k \in 1..n :
             /\ ixs[f[k]].type = actions[k].action
             /\ program \in {"none", ixs[f[k]].program}
             /\ actions[k].action \in KnownActions =>
                    CompareFields(actions[k], ixs[f[k]].params) = {}
  BY DEF Assigns
<1>2. /\ g \in [1..(n + 1) -> DOMAIN ixs] /\ g[n + 1] = i
      /\ \A k \in 1..n : g[k] = f[k]
      /\ 1..(n + 1) = 1..n \cup {n + 1} /\ n + 1 \notin 1..n
  BY <1>1
<1> HIDE DEF g
<1>3. ASSUME NEW k \in 1..(n + 1), NEW l \in 1..(n + 1), k # l
      PROVE  g[k] # g[l]
  <2>1. \A j \in 1..n : f[j] # i
    BY DEF Uses
  <2>2. CASE k \in 1..n /\ l \in 1..n
    BY <1>1, <1>2, <1>3, <2>2
  <2>3. CASE k = n + 1
    BY <1>2, <1>3, <2>1, <2>3
  <2>4. CASE l = n + 1
    BY <1>2, <1>3, <2>1, <2>4
  <2> QED
    BY <1>2, <2>2, <2>3, <2>4
<1>4. ASSUME NEW k \in 1..(n + 1)
      PROVE  /\ ixs[g[k]].type = actions[k].action
             /\ program \in {"none", ixs[g[k]].program}
             /\ actions[k].action \in KnownActions =>
                    CompareFields(actions[k], ixs[g[k]].params) = {}
  <2>1. CASE k = n + 1
    BY <1>2, <2>1
  <2>2. CASE k \in 1..n
    BY <1>1, <1>2, <2>2
  <2> QED
    BY <1>2, <2>1, <2>2
<1>5. Uses(g, n + 1, used \cup {i})
  <2>1. used = {f[k] : k \in 1..n}
    BY DEF Uses
  <2>2. used \cup {i} = {g[k] : k \in 1..(n + 1)}
    BY <1>2, <2>1
  <2> QED
    BY <2>2 DEF Uses
<1>6. Assigns(g, n + 1, actions, ixs, program)
  BY <1>2, <1>3, <1>4 DEF Assigns
<1> QED
  BY <1>5, <1>6

\* If the matcher has nothing to say, every action has an instruction of its own.
LEMMA NoDiscrepancyAssigns ==
    ASSUME NEW n \in Nat, NEW M, NEW actions, NEW ixs, DOMAIN ixs \in SUBSET Nat,
           NEW errors, NEW program,
           MatchRuns(M, n, actions, ixs, errors, program), M[n].discrepancies = {}
    PROVE  /\ errors = {}
           /\ \E f : /\ Assigns(f, n, actions, ixs, program)
                     /\ Uses(f, n, M[n].used)
<1> DEFINE Good(k) == /\ errors = {}
                      /\ \E f : /\ Assigns(f, k, actions, ixs, program)
                                /\ Uses(f, k, M[k].used)
           T == {k \in Nat : k <= n /\ M[k].discrepancies = {} => Good(k)}
<1>1. 0 \in T
  <2>1. M[0].discrepancies = errors /\ M[0].used = {}
    BY DEF MatchRuns, NoMatch
  <2> DEFINE f == [k \in 1..0 |-> 0]
  <2>2. f \in [1..0 -> DOMAIN ixs] /\ \A k \in 1..0 : FALSE
    OBVIOUS
  <2>3. Assigns(f, 0, actions, ixs, program) /\ Uses(f, 0, {})
    BY <2>2 DEF Assigns, Uses
  <2> HIDE DEF f
  <2> QED
    BY <2>1, <2>3
<1>2. ASSUME NEW k \in T
      PROVE  k + 1 \in T
  <2> SUFFICES ASSUME k + 1 <= n, M[k + 1].discrepancies = {}
               PROVE  Good(k + 1)
    OBVIOUS
  <2> DEFINE m == M[k]
             action == actions[k + 1]
  <2>1. /\ k \in Nat /\ k < n /\ k \in 0..n /\ m \in Matches(ixs, errors)
        /\ M[k + 1] = MatchSingleAction(m, action, ixs, program)
    BY DEF MatchRuns
  <2>2. PICK i \in Free(m, action, ixs) :
            /\ M[k + 1].used = m.used \cup {i}
            /\ m.discrepancies = {}
            /\ program \in {"none", ixs[i].program}
            /\ action.action \in KnownActions => CompareFields(action, ixs[i].params) = {}
    <3> HIDE DEF m, action
    <3>1. MatchSingleAction(m, action, ixs, program).discrepancies = {}
      BY <2>1
    <3>2. \E i \in Free(m, action, ixs) :
              Takes(m, MatchSingleAction(m, action, ixs, program), i, action, ixs, program)
      BY <2>1, <3>1, MatchTakes
    <3> QED
      BY <2>1, <3>2 DEF Takes
  <2>3. Good(k)
    BY <2>1, <2>2
  <2>4. PICK f : Assigns(f, k, actions, ixs, program) /\ Uses(f, k, m.used)
    BY <2>3
  <2>5. i \in DOMAIN ixs /\ i \notin m.used /\ ixs[i].type = action.action
    BY <2>2 DEF Free
  <2>6. \E g : /\ Assigns(g, k + 1, actions, ixs, program)
               /\ Uses(g, k + 1, m.used \cup {i})
    <3>1. /\ ixs[i].type = actions[k + 1].action
          /\ program \in {"none", ixs[i].program}
          /\ actions[k + 1].action \in KnownActions =>
                 CompareFields(actions[k + 1], ixs[i].params) = {}
      BY <2>2, <2>5
    <3> HIDE DEF m
    <3> QED
      BY <2>1, <2>4, <2>5, <3>1, AssignsStep
  <2> QED
    BY <2>2, <2>3, <2>6
<1>3. T = Nat
  <2>1. T \in SUBSET Nat
    OBVIOUS
  <2> HIDE DEF T
  <2> QED
    BY <1>1, <1>2, <2>1, Induction
<1> QED
  BY <1>3

----------------------------------------------------------------------------
(* The verdict: what a full match and an answer to proceed stand for       *)

\* What the matcher is given of a transaction.
Seen(tx, meta) == [i \in DOMAIN tx.ixs |-> Generic(DecodeInstruction(tx.ixs[i], meta))]

\* What the matcher sees of a decoded instruction: its program, its type if it has one,
\* and the parameters of payments to the pool and of SOL.
LEMMA GenericOf ==
    ASSUME NEW ix, IsInstruction(ix), NEW meta
    PROVE  LET g == Generic(DecodeInstruction(ix, meta))
           IN  /\ g.program = ix.program
               /\ g.type # "none" => g.type = GenericType(ix)
               /\ g.type # "none" => ix.program \in DecodedPrograms
               /\ g.type \in AncillaryTypes => g.type = ix.op
               /\ ix.op = "create_transfer" =>
                      g.params = Renamed(DecodeHandshake(ix, meta)) ++ DecodeHandshake(ix, meta)
               /\ ix.op = "transfer" /\ ix.program = "system" /\ g.type # "none" =>
                      g.params = DecodeSystem(ix)
<1> DEFINE d == DecodeInstruction(ix, meta)
           g == Generic(d)
<1>1. /\ d.program = ix.program
      /\ d.known <=> ix.program \in DecodedPrograms
      /\ d.type \in {ix.op, "none"}
      /\ ix.op = "create_transfer" => d.type = ix.op /\ d.params = DecodeHandshake(ix, meta)
      /\ d.type = "transfer" /\ ix.program = "system" => d.params = DecodeSystem(ix)
  BY DecodedType
<1>2. d = [program |-> d.program, known |-> d.known, type |-> d.type, params |-> d.params]
  BY DEF DecodeInstruction
<1>3. d.type # "none" => d.known
  BY DEF DecodeInstruction
<1>4. ix.op # "none"
  BY DEF IsInstruction
<1> HIDE DEF d
<1>5. CASE d.type = "create_transfer"
  <2>1. /\ g.program = d.program /\ g.type = "transfer"
        /\ g.params = Renamed(d.params) ++ d.params
    BY <1>2, <1>5 DEF Generic
  <2>2. "transfer" \notin AncillaryTypes
    BY DEF AncillaryTypes
  <2> QED
    BY <1>1, <1>3, <1>5, <2>1, <2>2 DEF GenericType, d
<1>6. CASE d.type # "create_transfer"
  <2>1. g = d
    BY <1>6 DEF Generic
  <2>2. ix.op # "create_transfer"
    BY <1>1, <1>6
  <2> QED
    BY <1>1, <1>3, <1>4, <1>6, <2>1, <2>2 DEF GenericType, AncillaryTypes, d
<1> QED
  BY <1>5, <1>6

\* What the verifier of intents says, if it says nothing against them.
LEMMA SilentVerifier ==
    ASSUME NEW analysis, NEW intent, VerifyIntent(analysis, intent).discrepancies = {}
    PROVE  LET ixs == [i \in DOMAIN analysis.ixs |-> Generic(analysis.ixs[i])]
           IN  VerifyIntent(analysis, intent)
               = MatchIntent(intent.actions, ixs, analysis.errors, intent.strict,
                             ExpectedProgram(intent))
  BY DEF VerifyIntent

\* What is sent by a payment that the matcher gave to an action with a sender.
LEMMA SenderMatches ==
    ASSUME NEW ix, IsInstruction(ix), NEW meta, NEW action, "from" \in DOMAIN action,
           NEW g, g = Generic(DecodeInstruction(ix, meta)), g.type = "transfer",
           CompareFields(action, g.params) = {}, ix.program # "token",
           NEW p \in Payments(ix)
    PROVE  p.from = action.from
<1>1. /\ GenericType(ix) = "transfer"
      /\ ix.op = "create_transfer" =>
             g.params = Renamed(DecodeHandshake(ix, meta)) ++ DecodeHandshake(ix, meta)
      /\ ix.op = "transfer" /\ ix.program = "system" => g.params = DecodeSystem(ix)
  BY GenericOf
<1>2. "from" \in DOMAIN g.params => action.from = g.params.from
  <2>1. ~Differs(action, "from", g.params, "from")
    <3>1. If(Differs(action, "from", g.params, "from"), "from") = {}
      BY DEF CompareFields
    <3> QED
      BY <3>1, IfNothing
  <2> QED
    BY <2>1 DEF Differs
<1>3. CASE ix.op = "create_transfer"
  <2>1. ~ix.short /\ p.from = ix.accounts[1]
    BY <1>3, CreationPayments
  <2> DEFINE params == DecodeHandshake(ix, meta)
  <2>2. "sender" \in DOMAIN params /\ params.sender = ix.accounts[1]
    BY <1>3, <2>1, DecodedCreation
  <2> HIDE DEF params
  <2>3. "from" \in DOMAIN Renamed(params) /\ Renamed(params).from = params.sender
    BY <2>2 DEF Renamed, ++
  <2>4. "from" \in DOMAIN g.params /\ g.params.from = Renamed(params).from
    <3>1. g.params = Renamed(params) ++ params
      BY <1>1, <1>3 DEF params
    <3> QED
      BY <2>3, <3>1 DEF ++
  <2> QED
    BY <1>2, <2>1, <2>2, <2>3, <2>4
<1>4. CASE ix.op = "transfer"
  <2>1. ix.program # "handshake"
    BY <1>4 DEF IsInstruction, HandshakeAccounts
  <2>2. ix.program = "system"
    BY <1>4, <2>1 DEF Payments
  <2>3. p.from = ix.accounts[1]
    BY <1>4, <2>2 DEF Payments
  <2>4. Len(ix.accounts) >= 2 /\ ix.accounts[1] \in Wallets /\ Len(ix.accounts) \in Nat
    BY <1>4, <2>2 DEF IsInstruction
  <2> DEFINE named == Named(ix, SystemAccounts[ix.op])
  <2>5. "from" \in DOMAIN named /\ named.from = ix.accounts[1]
    BY <1>4, <2>4, WalletResolves DEF Named, SystemAccounts
  <2>6. "from" \in DOMAIN DecodeSystem(ix) /\ DecodeSystem(ix).from = named.from
    <3> DEFINE rest == IF ix.op \in {"transfer", "create_account"}
                       THEN [lamports |-> ix.args.amount,
                             sol |-> FormatUnits(ix.args.amount, SolDecimals)]
                       ELSE <<>>
    <3>1. DecodeSystem(ix) = named ++ rest
      BY DEF DecodeSystem
    <3> HIDE DEF named, rest
    <3> QED
      BY <2>5, <3>1 DEF ++
  <2> QED
    BY <1>1, <1>2, <1>4, <2>2, <2>3, <2>5, <2>6
<1> QED
  BY <1>1, <1>3, <1>4 DEF GenericType

\* A silent verifier found an instruction for every action.
LEMMA SilentAssigns ==
    ASSUME NEW tx, IsTransaction(tx), NEW intent, IsIntent(intent), NEW meta,
           VerifyIntent(AnalyzeTransaction(tx, meta), intent).discrepancies = {}
    PROVE  \E f :
               /\ Assigns(f, Len(intent.actions), intent.actions, Seen(tx, meta),
                          ExpectedProgram(intent))
               /\ intent.strict =>
                      \A i \in DOMAIN tx.ixs : \/ \E k \in 1..Len(intent.actions) : f[k] = i
                                               \/ IsAncillary(Seen(tx, meta)[i])
<1> DEFINE a == AnalyzeTransaction(tx, meta)
           ixs == Seen(tx, meta)
           actions == intent.actions
           n == Len(actions)
           program == ExpectedProgram(intent)
           errors == a.errors
<1>1. ixs = [i \in DOMAIN a.ixs |-> Generic(a.ixs[i])]
  BY Analysed DEF Seen
<1>2. /\ VerifyIntent(a, intent) = MatchIntent(actions, ixs, errors, intent.strict, program)
      /\ VerifyIntent(a, intent).discrepancies = {}
  BY <1>1, SilentVerifier
<1>3. n \in Nat /\ DOMAIN ixs = DOMAIN tx.ixs /\ DOMAIN ixs \in SUBSET Nat
  BY DEF IsTransaction, IsIntent, Seen
<1> HIDE DEF a, ixs, actions, n, program, errors
<1>4. PICK M : /\ MatchRuns(M, n, actions, ixs, errors, program)
               /\ MatchIntent(actions, ixs, errors, intent.strict, program)
                  = Verdict(M[n], ixs, intent.strict)
  BY <1>3, MatchIntentRuns DEF n
<1>5. Verdict(M[n], ixs, intent.strict).discrepancies = {}
  BY <1>2, <1>4
<1>6. /\ M[n].discrepancies = {}
      /\ intent.strict => \A i \in DOMAIN ixs : i \in M[n].used \/ IsAncillary(ixs[i])
  <2> DEFINE extra == {i \in DOMAIN ixs \ M[n].used : ~IsAncillary(ixs[i])}
  <2>1. M[n].discrepancies \cup If(intent.strict /\ extra # {}, "strict") = {}
    BY <1>5 DEF Verdict
  <2>2. ~(intent.strict /\ extra # {})
    BY <2>1, IfNothing
  <2> QED
    BY <2>1, <2>2
<1>7. PICK f : Assigns(f, n, actions, ixs, program) /\ Uses(f, n, M[n].used)
  BY <1>3, <1>4, <1>6, NoDiscrepancyAssigns
<1>8. M[n].used = {f[k] : k \in 1..n}
  BY <1>7 DEF Uses
<1>9. intent.strict => \A i \in DOMAIN ixs : (\E k \in 1..n : f[k] = i) \/ IsAncillary(ixs[i])
  BY <1>6, <1>8
<1> QED
  BY <1>3, <1>7, <1>9 DEF n, actions, ixs, program

\* A verifier of intents that finds no fault has given each action an instruction of its
\* own: the greedy loop of the matcher assigns, whatever the order of the instructions.
LEMMA MatchSound ==
    ASSUME NEW tx, IsTransaction(tx), NEW intent, IsIntent(intent), NEW meta,
           VerifyIntent(AnalyzeTransaction(tx, meta), intent).discrepancies = {}
    PROVE  IsAssigned(intent, tx.ixs)
<1> DEFINE ixs == Seen(tx, meta)
           actions == intent.actions
           n == Len(actions)
           program == ExpectedProgram(intent)
<1>1. /\ \A i \in DOMAIN tx.ixs : IsInstruction(tx.ixs[i]) /\ i \in Nat
      /\ n \in Nat /\ DOMAIN actions = 1..n
      /\ \A k \in 1..n : actions[k].action # "none"
  BY DEF IsTransaction, IsIntent
<1>2. /\ DOMAIN ixs = DOMAIN tx.ixs
      /\ \A i \in DOMAIN tx.ixs : ixs[i] = Generic(DecodeInstruction(tx.ixs[i], meta))
  BY DEF Seen
<1>3. PICK f : /\ Assigns(f, n, actions, ixs, program)
               /\ intent.strict => \A i \in DOMAIN tx.ixs :
                                       (\E k \in 1..n : f[k] = i) \/ IsAncillary(ixs[i])
  BY SilentAssigns
<1> HIDE DEF ixs, actions, n, program
<1>4. /\ f \in [1..n -> DOMAIN ixs]
      /\ \A k, l \in 1..n : k # l => f[k] # f[l]
  BY <1>3 DEF Assigns
<1>5. ASSUME NEW k \in 1..n
      PROVE  MayTake(intent, actions[k], tx.ixs[f[k]])
  <2> DEFINE action == actions[k]
             ix == tx.ixs[f[k]]
             g == ixs[f[k]]
  <2>1. /\ g.type = action.action /\ program \in {"none", g.program}
        /\ action.action \in KnownActions => CompareFields(action, g.params) = {}
    BY <1>3 DEF Assigns
  <2>2. f[k] \in DOMAIN tx.ixs /\ IsInstruction(ix)
        /\ g = Generic(DecodeInstruction(ix, meta)) /\ action.action # "none"
    BY <1>1, <1>2, <1>4
  <2> HIDE DEF action, ix, g
  <2>3. g.program = ix.program /\ GenericType(ix) = action.action
    BY <2>1, <2>2, GenericOf
  <2>4. ASSUME "from" \in DOMAIN action, action.action = "transfer", NEW p \in Payments(ix),
               ix.program # "token"
        PROVE  p.from = action.from
    <3>1. CompareFields(action, g.params) = {} /\ g.type = "transfer"
      BY <2>1, <2>4 DEF KnownActions
    <3> QED
      BY <2>2, <2>4, <3>1, SenderMatches
  <2>5. MayTake(intent, action, ix)
    BY <2>1, <2>3, <2>4 DEF MayTake, program
  <2> QED
    BY <2>5 DEF action, ix
<1>6. ASSUME intent.strict, NEW i \in DOMAIN tx.ixs
      PROVE  \/ \E k \in 1..n : f[k] = i
             \/ tx.ixs[i].program \in {"budget", "memo", "listedAta"}
  <2>1. CASE IsAncillary(ixs[i])
    <3> DEFINE ix == tx.ixs[i]
               g == ixs[i]
    <3>1. g.type \in AncillaryTypes /\ IsInstruction(ix) /\ g = Generic(DecodeInstruction(ix, meta))
      BY <1>1, <1>2, <2>1 DEF IsAncillary
    <3>2. g.type # "none"
      BY <3>1 DEF AncillaryTypes
    <3>3. ix.op \in AncillaryTypes /\ ix.program \in DecodedPrograms
      BY <3>1, <3>2, GenericOf
    <3>4. ix.program \in {"budget", "memo", "ata", "listedAta"}
      BY <3>1, <3>3 DEF IsInstruction
    <3> QED
      BY <3>3, <3>4 DEF DecodedPrograms
  <2> QED
    BY <1>3, <1>6, <2>1
<1> QED
  BY <1>1, <1>2, <1>4, <1>5, <1>6 DEF IsAssigned, actions

\* The payment of an instruction the matcher gave to a transfer, if the metadata was read.
LEMMA PaymentMatches ==
    ASSUME NEW tx, IsTransaction(tx), NEW i \in DOMAIN tx.ixs,
           tx.ixs[i].op = "create_transfer", ~tx.ixs[i].short,
           NEW action, IsTransferAction(action),
           CompareFields(action, Seen(tx, FetchedMeta(tx, TRUE))[i].params) = {}
    PROVE  \E p \in PaidBy(tx) : Satisfies(p, action)
<1> DEFINE ix == tx.ixs[i]
           meta == FetchedMeta(tx, TRUE)
           params == DecodeHandshake(ix, meta)
           seen == Seen(tx, meta)[i].params
           p == [mint |-> ix.accounts[3].name[1], from |-> ix.accounts[1],
                 to |-> ix.args.recipient, units |-> ix.args.amount]
<1>1. IsInstruction(ix) /\ ix.op = "create_transfer" /\ ~ix.short
  BY DEF IsTransaction
<1>2. p \in PaidBy(tx)
  <2>1. Payments(ix) = {p}
    BY <1>1, CreationPayments
  <2> QED
    BY <2>1 DEF PaidBy
<1>3. seen = Renamed(params) ++ params
  BY <1>1, GenericOf DEF Seen
<1>4. /\ {"sender", "recipient", "amountHuman"} \subseteq DOMAIN params
      /\ params.sender = ix.accounts[1]
      /\ params.recipient = ix.args.recipient
      /\ params.amountHuman.value = FormatUnits(ix.args.amount, GetDecimals(MintAt(ix, 3), meta))
  BY <1>1, DecodedCreation
<1> HIDE DEF params, seen, ix, meta
<1>5. /\ {"from", "to"} = DOMAIN Renamed(params)
      /\ Renamed(params).from = ix.accounts[1]
      /\ Renamed(params).to = ix.args.recipient
  BY <1>4 DEF Renamed, ++
<1>6. /\ {"from", "to", "amountHuman"} \subseteq DOMAIN seen
      /\ seen.from = ix.accounts[1]
      /\ seen.to = ix.args.recipient
      /\ seen.amountHuman = params.amountHuman
  BY <1>3, <1>4, <1>5 DEF ++
<1>7. /\ ~Differs(action, "from", seen, "from")
      /\ ~Differs(action, "to", seen, "to")
      /\ "amount" \in DOMAIN action =>
             EvaluateConstraint(action.amount, seen.amountHuman.value)
  <2>1. /\ If(Differs(action, "from", seen, "from"), "from") = {}
        /\ If(Differs(action, "to", seen, "to"), "to") = {}
        /\ If(/\ "amount" \in DOMAIN action /\ "amountHuman" \in DOMAIN seen
              /\ ~EvaluateConstraint(action.amount, seen.amountHuman.value), "amount") = {}
    <3>1. CompareFields(action, seen) = {}
      BY DEF seen, meta
    <3> QED
      BY <3>1 DEF CompareFields
  <2> QED
    BY <1>6, <2>1, IfNothing
<1>8. /\ "from" \in DOMAIN action => p.from = action.from
      /\ "to" \in DOMAIN action => p.to = action.to
  BY <1>6, <1>7 DEF Differs
<1>9. ASSUME Resolved(p)
      PROVE  EvaluateConstraint(action.amount, FormatUnits(p.units, UnitDecimals(p.mint)))
  <2>1. ix.accounts[3] # Unresolved
    BY <1>9 DEF Resolved
  <2>2. /\ ix.accounts[3].name[1] \in Mints
        /\ MintAt(ix, 3) = ix.accounts[3].name[1]
        /\ GetDecimals(ix.accounts[3].name[1], meta) = TrueDecimals[ix.accounts[3].name[1]]
    BY <2>1, DecimalsRead DEF ix, meta
  <2>3. UnitDecimals(p.mint) = TrueDecimals[p.mint]
    BY <2>2 DEF UnitDecimals, Mints
  <2>4. seen.amountHuman.value = FormatUnits(p.units, UnitDecimals(p.mint))
    BY <1>4, <1>6, <2>2, <2>3
  <2>5. "amount" \in DOMAIN action
    BY DEF IsTransferAction
  <2> QED
    BY <1>7, <2>4, <2>5
<1>10. Satisfies(p, action)
  <2> HIDE DEF p
  <2> QED
    BY <1>8, <1>9 DEF Satisfies
<1> QED
  BY <1>2, <1>10

\* A full match comes from a silent verifier, and only a full match is told to proceed.
LEMMA FullIsSilent ==
    ASSUME NEW tx, NEW intent, NEW reads, Matching(tx, intent, reads) = "full"
    PROVE  VerifyIntent(AnalyzeTransaction(tx, FetchedMeta(tx, reads.second)), intent).discrepancies
           = {}
  BY DEF Matching, InferMatchLevel

\* The analyzer tells only a full match to proceed.
LEMMA ProceedIsFull ==
    ASSUME NEW c, NEW tx, NEW intent, NEW reads,
           Analyze(c, tx, intent, reads).verdict = "proceed"
    PROVE  Matching(tx, intent, reads) = "full"
<1>1. DeriveVerdict(Matching(tx, intent, reads), Risk(tx, intent, reads),
                    Viability(c, intent, reads)) = "proceed"
  BY DEF Analyze
<1>2. Matching(tx, intent, reads) \notin {"none", "partial"}
  BY <1>1 DEF DeriveVerdict
<1>3. Matching(tx, intent, reads) \in {"full", "none", "partial"}
  BY DEF Matching, InferMatchLevel
<1> QED
  BY <1>2, <1>3

\* If a transaction that pays by the pool only is told to proceed, one of its payments is
\* what the first action of the intent asks.
LEMMA ProceedSound ==
    ASSUME NEW c, NEW tx, IsTransaction(tx), NEW intent, IsIntent(intent), NEW reads, reads.second,
           Analyze(c, tx, intent, reads).verdict = "proceed",
           IsAction(intent, "transfer"),
           \A i \in DOMAIN tx.ixs : tx.ixs[i].op \in {"transfer", "create_transfer"} =>
               tx.ixs[i].program = "handshake" /\ ~tx.ixs[i].short
    PROVE  \E p \in PaidBy(tx) : Satisfies(p, intent.actions[1])
<1> DEFINE meta == FetchedMeta(tx, TRUE)
           ixs == Seen(tx, meta)
           actions == intent.actions
           program == ExpectedProgram(intent)
<1>1. VerifyIntent(AnalyzeTransaction(tx, meta), intent).discrepancies = {}
  <2>1. reads.second \in BOOLEAN => FetchedMeta(tx, reads.second) = meta
    BY DEF FetchedMeta
  <2>2. FetchedMeta(tx, reads.second) = meta
    BY DEF FetchedMeta
  <2> QED
    BY <2>2, ProceedIsFull, FullIsSilent
<1>2. /\ Len(actions) = 1
      /\ actions[1].action = "transfer"
      /\ IsTransferAction(actions[1])
  BY DEF IsIntent, IsAction, Single
<1> HIDE DEF meta, ixs, actions, program
<1>3. PICK f : Assigns(f, 1, actions, ixs, program)
  <2>1. \E f : Assigns(f, Len(actions), actions, ixs, program)
    BY <1>1, SilentAssigns DEF actions, ixs, program
  <2> QED
    BY <1>2, <2>1
<1> DEFINE i == f[1]
<1>4. /\ i \in DOMAIN tx.ixs
      /\ ixs[i].type = "transfer"
      /\ CompareFields(actions[1], ixs[i].params) = {}
  <2>1. /\ f \in [1..1 -> DOMAIN ixs]
        /\ \A k \in 1..1 : /\ ixs[f[k]].type = actions[k].action
                           /\ actions[k].action \in KnownActions =>
                                  CompareFields(actions[k], ixs[f[k]].params) = {}
    BY <1>3 DEF Assigns
  <2>2. DOMAIN ixs = DOMAIN tx.ixs
    BY DEF ixs, Seen
  <2>3. 1 \in 1..1 /\ "transfer" \in KnownActions
    BY DEF KnownActions
  <2> QED
    BY <1>2, <2>1, <2>2, <2>3
<1> HIDE DEF i
<1>5. /\ IsInstruction(tx.ixs[i])
      /\ ixs[i] = Generic(DecodeInstruction(tx.ixs[i], meta))
  BY <1>4 DEF IsTransaction, ixs, Seen
<1>6. GenericType(tx.ixs[i]) = "transfer"
  BY <1>4, <1>5, GenericOf
<1>7. tx.ixs[i].program = "handshake" /\ ~tx.ixs[i].short
  BY <1>4, <1>6 DEF GenericType
<1>8. tx.ixs[i].op = "create_transfer"
  BY <1>5, <1>6, <1>7 DEF GenericType, IsInstruction, HandshakeAccounts
<1> QED
  BY <1>2, <1>4, <1>7, <1>8, PaymentMatches DEF actions, ixs, meta

(* The invariant                                                           *)

----------------------------------------------------------------------------
(* The inductive invariant                                                 *)

\* The chain as requests read it.
ChainOK(c) ==
    /\ c = [f \in ChainFields |-> c[f]]
    /\ c.pool \in Pools
    /\ c.tokens \in [DOMAIN c.tokens -> Nat]

\* The rows of tokens and of the pool, each token with its decimals.
RowsOK(r) ==
    /\ r = [decimals |-> r.decimals, pool |-> r.pool]
    /\ r.decimals \in [DOMAIN r.decimals -> Nat]
    /\ DOMAIN r.decimals \subseteq Mints
    /\ r.pool \in Mints \cup {"none"}

\* The fields of a request being served, which is one of the requests once it has begun.
JobOK(j) ==
    /\ j = [pc |-> j.pc, request |-> j.request, mint |-> j.mint, units |-> j.units,
            sender |-> j.sender, ixs |-> j.ixs, tx |-> j.tx, result |-> j.result,
            metaRead |-> j.metaRead]
    /\ j.pc \in {"idle", "destination", "pool", "assemble", "token", "create", "persist",
                 "settle", "built", "answered", "failed"}
    /\ j.pc = "idle" => j = Idle
    /\ j.pc # "idle" => j.request \in Requests
    /\ j.units \in Nat

\* The pool is still the one a request read first.
PoolKept(mint, c, changed) == mint \in Mints /\ (~changed => c.pool = mint)

\* The builder the endpoint chooses for a request.
Builder(request) == ResolveBuilderName(request.intent)

\* The mint the token of a request resolves to on its network.
MintOf(request) == ResolveMint(Action(request), request.intent.network)

\* A transfer of SOL, of a token, or by the pool, that its builder takes.
PaysSol(request) ==
    /\ Builder(request) = "native" /\ Payable(request)
    /\ MintOf(request) = "none" /\ FitsPrecision(Action(request).amount.eq, SolDecimals)

\* The native builder transfers a token it knows the decimals of.
PaysToken(request) ==
    /\ Builder(request) = "native" /\ Payable(request)
    /\ MintOf(request) \in Mints
    /\ FitsPrecision(Action(request).amount.eq, TrueDecimals[MintOf(request)])

\* The handshake builder pays into the pool it read, in the units the decimals of that
\* pool's mint give.
PaysPool(j) ==
    /\ Builder(j.request) = "handshake" /\ Payable(j.request)
    /\ j.mint \in Mints
    /\ FitsPrecision(Action(j.request).amount.eq, TrueDecimals[j.mint])
    /\ j.units = ToBaseUnits(Action(j.request).amount.eq, TrueDecimals[j.mint])

\* The swap builder has taken the request.
Swaps(request) == Builder(request) = "jupiter" /\ Swappable(request.intent)

\* What the builder of the request makes of it; another pool may have been read last.
Draft(j, changed, ixs) ==
    LET action == Action(j.request)
    IN  \/ PaysSol(j.request) /\ ixs = <<SolTransferIx(action)>>
        \/ /\ PaysToken(j.request)
           /\ \E has \in BOOLEAN : ixs = TokenTransferIxs(action, MintOf(j.request), has)
        \/ /\ PaysPool(j)
           /\ \E m \in Mints : (~changed => m = j.mint) /\ ixs = HandshakeIxs(action, j.units, m)
        \/ Swaps(j.request) /\ \E s, in, out : ixs = JupiterIxs(s, in, out)

\* What is known of a build at each stage: the builder that drafts took the request, what
\* it drafted so far is a draft of the request, and the transaction holds such a draft.
BuildOK(j, c, changed) ==
    /\ Buildable(j.request)
    /\ j.pc \in {"destination", "pool", "assemble", "built", "answered"}
    /\ j.pc = "destination" => PaysToken(j.request) /\ j.mint = MintOf(j.request)
    /\ j.pc = "pool" => PaysPool(j)
    /\ j.pc = "assemble" => Draft(j, changed, j.ixs)
    /\ j.pc \in {"built", "answered"} =>
           \E ixs : Draft(j, changed, ixs) /\ j.tx.ixs = BuildInstructionList(ixs, TRUE)
    /\ Builder(j.request) = "handshake" => PoolKept(j.mint, c, changed)

\* The payment of a request for a transfer.
PaymentOf(j) ==
    [sender |-> j.request.sender, recipient |-> j.request.recipient, memo |-> j.request.memo,
     pda |-> TransferPda(j.request.sender, j.request.recipient, "n"), amount |-> j.units]

\* What is known of the transfer endpoint at each stage: the units are those of the row it
\* found, and what it built is the creation of that payment in the pool it read last.
TransferOK(j, c, r, changed) ==
    /\ j.pc \in {"token", "create", "persist", "built", "answered"}
    /\ j.request.amount.digits > 0
    /\ j.request.by # "pool" => r.pool = j.request.by
    /\ PoolKept(j.mint, c, changed)
    /\ j.pc # "token" =>
           /\ j.mint \in DOMAIN r.decimals
           /\ j.units \in AmountRaw(j.request.amount, r.decimals[j.mint])
    /\ j.pc \in {"persist", "built", "answered"} =>
           \E m \in Mints : /\ ~changed => m = j.mint
                            /\ j.ixs = <<CreateTransferIx(PaymentOf(j), m)>>
    /\ j.pc \in {"built", "answered"} => j.tx.ixs = j.ixs

\* A transaction that is only analyzed or verified is kept as it was received.
ReceivedOK(j) == j.pc \in {"built", "answered"} /\ j.tx = j.request.tx

\* The answer is that of the analyzer, or of the verifier.
AnswerOK(j) ==
    IF j.request.kind \in {"build", "analyze"}
    THEN \E reads \in Reads :
             /\ j.metaRead = (reads.first /\ reads.second)
             /\ j.result.match = Matching(j.tx, j.request.intent, reads)
             /\ \E c : j.result.verdict = Analyze(c, j.tx, j.request.intent, reads).verdict
    ELSE \E rpcUp \in BOOLEAN :
             /\ j.metaRead = rpcUp
             /\ j.result.verdict = "unanswered"
             /\ j.result.match = "verified" =>
                    VerifyInstruction(AnalyzeTransaction(j.tx, FetchedMeta(j.tx, rpcUp)),
                                      AskedIntent(j.request)).verified

\* The stages of a build and those of the transfer endpoint belong to these alone.
KindOK(j) ==
    /\ j.pc \in {"destination", "pool", "assemble"} => j.request.kind = "build"
    /\ j.pc \in {"token", "create", "persist"} => j.request.kind = "transfer"

\* What is known of a request between its first step and its failure, by its kind.
StageOK(j, c, r, changed) ==
    j.pc \notin {"idle", "failed"} =>
        /\ KindOK(j)
        /\ j.request.kind = "build" => BuildOK(j, c, changed)
        /\ j.request.kind = "transfer" => TransferOK(j, c, r, changed)
        /\ j.request.kind \in {"analyze", "verify"} => ReceivedOK(j)
        /\ j.pc = "answered" => AnswerOK(j)

\* The inductive invariant of Intents: types, and at every stage what the request being
\* served has read, drafted and answered so far, with the pool it read unless that was
\* replaced since.
IInv ==
    /\ ChainOK(chain) /\ RowsOK(rows) /\ JobOK(job)
    /\ moves \in 0..MaxMoves /\ replaced \in BOOLEAN
    /\ StageOK(job, chain, rows, replaced)

(* Amounts in base units                                                   *)

----------------------------------------------------------------------------
(* Amounts and requests                                                    *)

\* A power of ten is a number, and not zero.
LEMMA PowersPositive ==
    \A n \in Nat : PowerOf10[n] \in Nat /\ PowerOf10[n] >= 1
<1> DEFINE T == {n \in Nat : PowerOf10[n] >= 1}
<1>1. 0 \in T
  BY PowersOf10
<1>2. ASSUME NEW n \in T
      PROVE  n + 1 \in T
  <2>1. PowerOf10[n] \in Nat /\ PowerOf10[n] >= 1 /\ PowerOf10[n + 1] = 10 * PowerOf10[n]
    BY PowersOf10
  <2> QED
    BY <2>1
<1>3. T = Nat
  <2>1. T \in SUBSET Nat
    OBVIOUS
  <2> HIDE DEF T
  <2> QED
    BY <1>1, <1>2, <2>1, Induction
<1> QED
  BY <1>3, PowersOf10

\* Division with remainder.
LEMMA Divided ==
    ASSUME NEW a \in Int, NEW b \in Nat, b >= 1
    PROVE  /\ a \div b \in Int /\ a % b \in Int
           /\ a = b * (a \div b) + (a % b)
           /\ 0 <= a % b /\ a % b < b
<1>1. a \div b \in Int /\ a % b \in Int
  OBVIOUS
<1>2. a = b * (a \div b) + (a % b)
  OBVIOUS
<1>3. 0 <= a % b /\ a % b < b
  OBVIOUS
<1> QED
  BY <1>1, <1>2, <1>3

\* An amount that fits the precision of its mint has base units, and no more digits after
\* the point than the mint has decimals.
LEMMA ExactUnits ==
    ASSUME NEW constraint, IsExactAmount(constraint),
           constraint.eq \in DecimalStrings, NEW decimals \in Nat,
           FitsPrecision(constraint.eq, decimals)
    PROVE  /\ constraint.eq.digits \in Nat /\ constraint.eq.frac \in 0..decimals
           /\ ToBaseUnits(constraint.eq, decimals) \in Nat
<1> DEFINE a == constraint.eq
<1>1. a.digits \in Nat /\ a.frac \in Nat /\ a.frac <= decimals
  BY DEF IsExactAmount, IsDecimal, DecimalStrings, Malformed, FitsPrecision
<1>2. decimals - a.frac \in Nat
  BY <1>1
<1>3. PowerOf10[decimals - a.frac] \in Nat
  BY <1>2, PowersPositive
<1> HIDE DEF a
<1>4. a.digits * PowerOf10[decimals - a.frac] \in Nat
  BY <1>1, <1>3
<1> QED
  BY <1>1, <1>4 DEF ToBaseUnits, a

\* The floating point of the transfer endpoint gives whole units that are not above the
\* amount and less than two below it.
LEMMA RawUnits ==
    ASSUME NEW amount \in [digits : Int, frac : Nat], amount.digits > 0, NEW decimals \in Nat,
           NEW units \in AmountRaw(amount, decimals)
    PROVE  /\ units \in Nat
           /\ LET asked == amount.digits * PowerOf10[decimals]
                  made == units * PowerOf10[amount.frac]
              IN  asked - 2 * PowerOf10[amount.frac] < made /\ made <= asked
<1> DEFINE asked == amount.digits * PowerOf10[decimals]
           unit == PowerOf10[amount.frac]
           whole == asked \div unit
<1>1. amount.digits \in Nat /\ amount.frac \in Nat
  OBVIOUS
<1>2. /\ PowerOf10[decimals] \in Nat
      /\ unit \in Nat /\ unit >= 1
  BY <1>1, PowersPositive
<1>3. asked \in Nat
  BY <1>1, <1>2
<1>4. /\ \/ units = whole
         \/ units = whole - 1 /\ whole > 0 /\ asked % unit = 0
  BY DEF AmountRaw
<1> HIDE DEF asked, unit
<1>5. PICK rest : /\ whole \in Int /\ rest \in Nat /\ rest < unit /\ rest = asked % unit
                   /\ asked = unit * whole + rest
  <2>1. /\ asked \div unit \in Int /\ asked % unit \in Int
        /\ asked = unit * (asked \div unit) + (asked % unit)
        /\ 0 <= asked % unit /\ asked % unit < unit
    BY <1>2, <1>3, Divided
  <2> QED
    BY <2>1
<1> HIDE DEF whole
<1>6. whole \in Nat
  <2>1. SUFFICES ASSUME whole <= -1
                 PROVE  FALSE
    BY <1>5
  <2>2. unit * whole <= unit * (-1)
    BY <1>2, <1>5, <2>1
  <2>3. unit * whole + rest < 0
    <3>1. unit * whole \in Int
      BY <1>2, <1>5
    <3> DEFINE product == unit * whole
    <3> HIDE DEF product
    <3>2. product \in Int /\ product <= -unit
      BY <1>2, <2>2, <3>1 DEF product
    <3>3. product + rest < 0
      BY <1>2, <1>5, <3>2
    <3> QED
      BY <3>3 DEF product
  <2> QED
    BY <1>3, <1>5, <2>3
<1>7. units \in Nat
  BY <1>4, <1>6
<1>8. asked - 2 * unit < units * unit /\ units * unit <= asked
  <2>1. CASE units = whole
    <3>1. units * unit = unit * whole
      BY <1>2, <1>6, <2>1
    <3> DEFINE product == unit * whole
    <3>2. product \in Nat
      BY <1>2, <1>6
    <3> HIDE DEF product
    <3>3. units * unit = product /\ asked = product + rest
      BY <1>5, <3>1 DEF product
    <3> QED
      BY <1>2, <1>5, <3>2, <3>3
  <2>2. CASE units = whole - 1 /\ whole > 0 /\ asked % unit = 0
    <3>1. units * unit = unit * whole - unit
      BY <1>2, <1>6, <2>2
    <3> DEFINE product == unit * whole
    <3>2. product \in Nat
      BY <1>2, <1>6
    <3> HIDE DEF product
    <3>3. units * unit = product - unit /\ asked = product
      BY <1>5, <2>2, <3>1, <3>2 DEF product
    <3> QED
      BY <1>2, <3>2, <3>3
  <2> QED
    BY <1>4, <2>1, <2>2
<1> QED
  BY <1>7, <1>8 DEF asked, unit

(* What is known of requests                                               *)

\* What the checks before building establish: one action, on Solana, a transfer between
\* wallets unless a swap is built.
LEMMA BuildRequest ==
    ASSUME ConstantsAssumption, NEW request \in Requests, request.kind = "build", Buildable(request)
    PROVE  /\ IsIntent(request.intent)
           /\ Builder(request) \in Builders
           /\ "chain" \in DOMAIN request.intent /\ request.intent.chain = "solana"
           /\ ~request.intent.compound /\ Len(request.intent.actions) = 1
           /\ Action(request).action = (IF Builder(request) = "jupiter" THEN "swap" ELSE "transfer")
           /\ Builder(request) # "jupiter" =>
                  /\ IsTransferAction(Action(request))
                  /\ Action(request).from \in Wallets /\ Action(request).to \in Wallets
                  /\ {"from", "to"} \subseteq DOMAIN Action(request)
<1>1. /\ IsIntent(request.intent)
      /\ \A k \in DOMAIN request.intent.actions :
             request.intent.actions[k].action = "transfer" =>
                 {"from", "to"} \subseteq DOMAIN request.intent.actions[k]
  BY DEF ConstantsAssumption, IsRequest
<1>2. /\ "chain" \in DOMAIN request.intent /\ request.intent.chain = "solana"
      /\ ~request.intent.compound
      /\ Builder(request) \in Builders
      /\ Action(request).action = (IF Builder(request) = "jupiter" THEN "swap" ELSE "transfer")
  BY DEF Buildable, Builder, Action
<1>3. /\ Len(request.intent.actions) = 1
      /\ 1 \in DOMAIN request.intent.actions
  <2>1. ~request.intent.compound => Len(request.intent.actions) = 1
    BY <1>1 DEF IsIntent
  <2>2. DOMAIN request.intent.actions = 1..Len(request.intent.actions)
    BY <1>1 DEF IsIntent
  <2> QED
    <3>1. Len(request.intent.actions) = 1
      BY <1>2, <2>1
    <3>2. 1 \in 1..Len(request.intent.actions)
      BY <3>1
    <3> QED
      BY <2>2, <3>1, <3>2
<1>4. Builder(request) # "jupiter" =>
          /\ {"from", "to"} \subseteq DOMAIN Action(request)
          /\ IsTransferAction(Action(request))
  BY <1>1, <1>2, <1>3 DEF IsIntent, Action
<1>5. Builder(request) # "jupiter" =>
          Action(request).from \in Wallets /\ Action(request).to \in Wallets
  BY <1>4 DEF IsTransferAction
<1> QED
  BY <1>1, <1>2, <1>3, <1>4, <1>5

\* The units of a payment to the pool.
LEMMA PoolUnits ==
    ASSUME ConstantsAssumption, NEW request \in Requests, request.kind = "build", Buildable(request),
           Payable(request), Builder(request) # "jupiter", NEW decimals \in Nat,
           FitsPrecision(Action(request).amount.eq, decimals)
    PROVE  /\ Action(request).amount.eq.digits \in Nat
           /\ Action(request).amount.eq.frac \in 0..decimals
           /\ ToBaseUnits(Action(request).amount.eq, decimals) \in Nat
<1> DEFINE constraint == Action(request).amount
<1>1. IsExactAmount(constraint)
  BY DEF Payable, Action
<1>2. "eq" \in DOMAIN constraint
  BY <1>1 DEF IsExactAmount
<1>3. constraint.eq \in DecimalStrings
  BY <1>2, BuildRequest DEF IsTransferAction
<1> HIDE DEF constraint
<1> QED
  BY <1>1, <1>3, ExactUnits DEF constraint

\* Every mint has decimals, and a name of its own.
LEMMA MintDecimals ==
    \A m \in Mints : TrueDecimals[m] \in Nat /\ m # "none"
  BY DEF Mints, TrueDecimals

(* What the others do, and the rows of a request of one's own, keep what   *)
(* is known of the request being served                                    *)

----------------------------------------------------------------------------
(* What the others leave of a request                                      *)

\* A draft stays one when the pool is replaced later.
LEMMA DraftKept ==
    ASSUME NEW j, NEW changed, NEW after, changed => after, NEW ixs, Draft(j, changed, ixs)
    PROVE  Draft(j, after, ixs)
  BY DEF Draft

\* What is known of a request survives what others do: the chain moving, the pool being
\* replaced, and rows being added.
LEMMA StageKept ==
    ASSUME NEW j, NEW c, NEW r, NEW changed, NEW d, NEW s, NEW after,
           StageOK(j, c, r, changed),
           changed => after, ~after => d.pool = c.pool,
           s.pool = r.pool,
           \A m \in DOMAIN r.decimals : m \in DOMAIN s.decimals /\ s.decimals[m] = r.decimals[m]
    PROVE  StageOK(j, d, s, after)
<1>1. ASSUME BuildOK(j, c, changed)
      PROVE  BuildOK(j, d, after)
  <2>1. /\ j.pc = "assemble" => Draft(j, after, j.ixs)
        /\ j.pc \in {"built", "answered"} =>
               \E ixs : Draft(j, after, ixs) /\ j.tx.ixs = BuildInstructionList(ixs, TRUE)
    BY <1>1, DraftKept DEF BuildOK
  <2>2. Builder(j.request) = "handshake" => PoolKept(j.mint, d, after)
    BY <1>1 DEF BuildOK, PoolKept
  <2> QED
    BY <1>1, <2>1, <2>2 DEF BuildOK
<1>2. ASSUME TransferOK(j, c, r, changed)
      PROVE  TransferOK(j, d, s, after)
  BY <1>2 DEF TransferOK, PoolKept
<1> QED
  BY <1>1, <1>2 DEF StageOK

\* Finding or creating the row of a token leaves the rows of the others.
LEMMA TokenRow ==
    ASSUME NEW r, RowsOK(r), r = rows, NEW m \in Mints
    PROVE  /\ RowsOK(GetOrCreateToken(m))
           /\ GetOrCreateToken(m).pool = r.pool
           /\ m \in DOMAIN GetOrCreateToken(m).decimals
           /\ \A x \in DOMAIN r.decimals : /\ x \in DOMAIN GetOrCreateToken(m).decimals
                                           /\ GetOrCreateToken(m).decimals[x] = r.decimals[x]
<1> DEFINE s == GetOrCreateToken(m)
           more == r.decimals ++ [x \in {m} |-> DefaultDecimals]
<1>1. CASE m \in DOMAIN r.decimals
  <2>1. s = r
    BY <1>1 DEF GetOrCreateToken
  <2> QED
    BY <1>1, <2>1
<1>2. CASE m \notin DOMAIN r.decimals
  <2>1. s = [r EXCEPT !.decimals = more]
    BY <1>2 DEF GetOrCreateToken
  <2>2. r = [decimals |-> r.decimals, pool |-> r.pool]
    BY DEF RowsOK
  <2>3. /\ more \in [DOMAIN r.decimals \cup {m} -> Nat]
        /\ \A x \in DOMAIN r.decimals : more[x] = r.decimals[x]
    BY DEF ++, RowsOK, DefaultDecimals
  <2> HIDE DEF s, more
  <2>4. s = [decimals |-> more, pool |-> r.pool]
    BY <2>1, <2>2
  <2>5. DOMAIN more = DOMAIN r.decimals \cup {m}
    BY <2>3
  <2> QED
    BY <2>3, <2>4, <2>5 DEF RowsOK, s
<1> QED
  BY <1>1, <1>2

(* The list of instructions of a built transaction                         *)

----------------------------------------------------------------------------
(* The list of instructions, and what is drafted                           *)

\* The elements of a list.
Elements(ixs) == {ixs[l] : l \in 1..Len(ixs)}

\* s is what the assembler keeps of the first k instructions.
Keeps(s, ixs, k) ==
    /\ s \in Seq(Elements(ixs))
    /\ \A l \in 1..k : ixs[l].program # "budget" => \E x \in 1..Len(s) : s[x] = ixs[l]
    /\ (\A l \in 1..Len(ixs) : ixs[l].program # "budget") =>
           Len(s) = k /\ \A l \in 1..k : s[l] = ixs[l]

\* The two instructions of the budget program that the assembler puts first.
Price == Ix("budget", "set_compute_unit_price", <<>>, <<>>)

Limit == Ix("budget", "set_compute_unit_limit", <<>>, <<>>)

\* The assembler's loop over one instruction more: kept, unless it is the budget's.
LEMMA KeepsMore ==
    ASSUME NEW E, NEW ixs \in Seq(E), NEW k \in Nat, k < Len(ixs), NEW s, Keeps(s, ixs, k)
    PROVE  Keeps(IF ixs[k + 1].program = "budget" THEN s ELSE Append(s, ixs[k + 1]), ixs, k + 1)
<1>1. /\ s \in Seq(Elements(ixs))
      /\ \A l \in 1..k : ixs[l].program # "budget" => \E x \in 1..Len(s) : s[x] = ixs[l]
      /\ (\A l \in 1..Len(ixs) : ixs[l].program # "budget") =>
             Len(s) = k /\ \A l \in 1..k : s[l] = ixs[l]
  BY DEF Keeps
<1>2. /\ Len(ixs) \in Nat /\ k + 1 \in 1..Len(ixs)
      /\ 1..(k + 1) = 1..k \cup {k + 1}
      /\ ixs[k + 1] \in Elements(ixs)
  BY DEF Elements
<1>3. CASE ixs[k + 1].program = "budget"
  <2>1. ~ \A l \in 1..Len(ixs) : ixs[l].program # "budget"
    BY <1>2, <1>3
  <2>2. \A l \in 1..(k + 1) : ixs[l].program # "budget" => \E x \in 1..Len(s) : s[x] = ixs[l]
    BY <1>1, <1>2, <1>3
  <2> QED
    BY <1>1, <1>3, <2>1, <2>2 DEF Keeps
<1>4. CASE ixs[k + 1].program # "budget"
  <2> DEFINE t == Append(s, ixs[k + 1])
  <2>1. /\ t \in Seq(Elements(ixs)) /\ Len(t) = Len(s) + 1 /\ Len(s) \in Nat
        /\ t[Len(s) + 1] = ixs[k + 1]
        /\ \A x \in 1..Len(s) : t[x] = s[x]
    BY <1>1, <1>2
  <2> HIDE DEF t
  <2>2. ASSUME NEW l \in 1..(k + 1), ixs[l].program # "budget"
        PROVE  \E x \in 1..Len(t) : t[x] = ixs[l]
    <3>1. CASE l = k + 1
      <4>1. Len(s) + 1 \in 1..Len(t)
        BY <2>1
      <4> QED
        BY <2>1, <3>1, <4>1
    <3>2. CASE l \in 1..k
      <4>1. PICK x \in 1..Len(s) : s[x] = ixs[l]
        BY <1>1, <2>2, <3>2
      <4>2. x \in 1..Len(t)
        BY <2>1
      <4> QED
        BY <2>1, <4>1, <4>2
    <3> QED
      BY <1>2, <3>1, <3>2
  <2>3. ASSUME \A l \in 1..Len(ixs) : ixs[l].program # "budget"
        PROVE  Len(t) = k + 1 /\ \A l \in 1..(k + 1) : t[l] = ixs[l]
    <3>1. Len(s) = k /\ \A l \in 1..k : s[l] = ixs[l]
      BY <1>1, <2>3
    <3> QED
      BY <1>2, <2>1, <3>1
  <2>4. Keeps(t, ixs, k + 1)
    BY <2>1, <2>2, <2>3 DEF Keeps
  <2> QED
    BY <1>4, <2>4 DEF t
<1> QED
  BY <1>3, <1>4

\* The instructions of the transaction: the two of the budget, then what was kept.
LEMMA InstructionList ==
    ASSUME NEW E, NEW ixs \in Seq(E)
    PROVE  \E others : /\ Keeps(others, ixs, Len(ixs))
                       /\ BuildInstructionList(ixs, TRUE) = <<Price>> \o <<Limit>> \o others
<1> DEFINE n == Len(ixs)
           S == Seq(Elements(ixs))
           Next1(k, s) == IF ixs[k].program = "budget" THEN s ELSE Append(s, ixs[k])
           next == [k \in Nat |-> [s \in S |-> IF k \in 1..n THEN Next1(k, s) ELSE s]]
           Eq(g) == g = [k \in 0..n |->
                            IF k = 0 THEN <<>>
                            ELSE IF ixs[k].program = "budget" THEN g[k - 1]
                            ELSE Append(g[k - 1], ixs[k])]
           M == CHOOSE g : Eq(g)
<1>1. n \in Nat /\ <<>> \in S
  OBVIOUS
<1>2. Iteration(S, <<>>, next)
  <2>1. ASSUME NEW k \in 1..n, NEW s \in S
        PROVE  Next1(k, s) \in S
    <3>1. ixs[k] \in Elements(ixs)
      BY DEF Elements
    <3> QED
      BY <3>1
  <2> HIDE DEF S, Next1, n
  <2>2. \A k \in Nat, s \in S : (IF k \in 1..n THEN Next1(k, s) ELSE s) \in S
    BY <2>1
  <2> QED
    BY <1>1, <2>2 DEF Iteration
<1>3. PICK f : Runs(f, n, S, <<>>, next)
  <2> HIDE DEF S, next, n
  <2> QED
    BY <1>1, <1>2, RunsExist
<1>4. /\ f \in [0..n -> S] /\ f[0] = <<>>
      /\ \A k \in Nat : k < n => f[k + 1] = Next1(k + 1, f[k])
  <2>1. \A k \in Nat, s \in S : k + 1 \in 1..n => next[k + 1][s] = Next1(k + 1, s)
    OBVIOUS
  <2> HIDE DEF S, next, Next1
  <2>2. /\ f \in [0..n -> S] /\ f[0] = <<>>
        /\ \A k \in Nat : k < n => f[k + 1] = next[k + 1][f[k]]
    BY <1>3 DEF Runs
  <2>3. ASSUME NEW k \in Nat, k < n
        PROVE  f[k + 1] = Next1(k + 1, f[k])
    <3>1. k \in 0..n /\ k + 1 \in 1..n
      BY <1>1, <2>3
    <3>2. f[k] \in S
      BY <2>2, <3>1
    <3> HIDE DEF n
    <3> QED
      BY <2>1, <2>2, <2>3, <3>1, <3>2
  <2> QED
    BY <2>2, <2>3
<1>5. Eq(f)
  <2>1. ASSUME NEW k \in 0..n, k # 0
        PROVE  f[k] = Next1(k, f[k - 1])
    <3>1. k - 1 \in Nat /\ k - 1 < n /\ k - 1 + 1 = k
      BY <2>1
    <3> HIDE DEF Next1
    <3> QED
      BY <1>4, <3>1
  <2>2. f = [k \in 0..n |-> f[k]] /\ f[0] = <<>>
    BY <1>4
  <2> QED
    BY <2>1, <2>2
<1>6. Eq(M)
  <2> HIDE DEF Eq
  <2> QED
    BY <1>5
<1>7. BuildInstructionList(ixs, TRUE) = <<Price>> \o <<Limit>> \o M[n]
  BY DEF BuildInstructionList, Price, Limit
<1> HIDE DEF M
<1>8. /\ M[0] = <<>>
      /\ \A k \in Nat : k < n => M[k + 1] = Next1(k + 1, M[k])
  <2>1. \A k \in 0..n : M[k] = IF k = 0 THEN <<>> ELSE Next1(k, M[k - 1])
    BY <1>6
  <2>2. ASSUME NEW k \in Nat, k < n
        PROVE  M[k + 1] = Next1(k + 1, M[k])
    <3>1. k + 1 \in 0..n /\ k + 1 # 0 /\ k + 1 - 1 = k
      BY <1>1, <2>2
    <3> HIDE DEF Next1, n, Eq
    <3> QED
      BY <2>1, <3>1
  <2>3. 0 \in 0..n
    BY <1>1
  <2> QED
    BY <2>1, <2>2, <2>3
<1>9. Keeps(M[n], ixs, n)
  <2> DEFINE T == {k \in Nat : k <= n => Keeps(M[k], ixs, k)}
  <2>1. 0 \in T
    <3>1. Keeps(<<>>, ixs, 0)
      BY DEF Keeps
    <3> QED
      BY <1>8, <3>1
  <2>2. ASSUME NEW k \in T
        PROVE  k + 1 \in T
    <3> SUFFICES ASSUME k + 1 <= n
                 PROVE  Keeps(M[k + 1], ixs, k + 1)
      OBVIOUS
    <3>1. k < n /\ Keeps(M[k], ixs, k)
      BY <1>1
    <3>2. M[k + 1] = Next1(k + 1, M[k])
      BY <1>8, <3>1
    <3>3. Keeps(Next1(k + 1, M[k]), ixs, k + 1)
      BY <3>1, KeepsMore
    <3> QED
      BY <3>2, <3>3
  <2>3. T = Nat
    <3>1. T \in SUBSET Nat
      OBVIOUS
    <3> HIDE DEF T
    <3> QED
      BY <2>1, <2>2, <3>1, Induction
  <2> QED
    BY <1>1, <2>3
<1> QED
  BY <1>7, <1>9

\* Without a budget instruction everything is kept as it is.
LEMMA AllKept ==
    ASSUME NEW E, NEW ixs \in Seq(E), \A l \in 1..Len(ixs) : ixs[l].program # "budget"
    PROVE  BuildInstructionList(ixs, TRUE) = <<Price>> \o <<Limit>> \o ixs
<1>1. PICK others : /\ Keeps(others, ixs, Len(ixs))
                    /\ BuildInstructionList(ixs, TRUE) = <<Price>> \o <<Limit>> \o others
  BY InstructionList
<1>2. /\ others \in Seq(Elements(ixs)) /\ Len(others) = Len(ixs)
      /\ \A l \in 1..Len(ixs) : others[l] = ixs[l]
  BY <1>1 DEF Keeps
<1>3. others = ixs
  BY <1>2
<1> QED
  BY <1>1, <1>3

(* What the builders write are transactions                                *)

\* What an instruction is, kept opaque.
IsIx(ix) == IsInstruction(ix)

\* Both are instructions of the budget program.
LEMMA BudgetIxs ==
    IsIx(Price) /\ IsIx(Limit) /\ Price.program = "budget" /\ Limit.program = "budget"
  BY DEF IsIx, IsInstruction, Price, Limit, Ix, AncillaryTypes

\* The instruction that transfers SOL.
LEMMA SolIx ==
    ASSUME NEW action, action.from \in Wallets,
           NEW ix, ix = SolTransferIx(action)
    PROVE  /\ IsIx(ix) /\ ix.program = "system" /\ ix.op = "transfer" /\ ~ix.short
           /\ Len(ix.accounts) = 2 /\ ix.accounts[1] = action.from /\ ix.accounts[2] = action.to
           /\ DOMAIN ix.accounts = 1..2
           /\ ix.args.amount = ToBaseUnits(action.amount.eq, SolDecimals)
<1>1. ix = [program |-> "system", op |-> "transfer", accounts |-> <<action.from, action.to>>,
            args |-> [amount |-> ToBaseUnits(action.amount.eq, SolDecimals)], short |-> FALSE]
  BY DEF SolTransferIx, Ix
<1> QED
  BY <1>1 DEF IsIx, IsInstruction, AncillaryTypes

\* The instructions that transfer a token, and that make the account it goes to.
TokenIx(action, mint) ==
    Ix("token", "transfer", <<Ata(mint, action.from), Ata(mint, action.to), action.from>>,
       [amount |-> ToBaseUnits(action.amount.eq, TrueDecimals[mint])])

AtaIx(action, mint) ==
    Ix("ata", "create",
       <<action.from, Ata(mint, action.to), action.to, Key(mint), Key("system"), Key("token")>>,
       <<>>)

\* The native builder transfers the token, and makes the recipient's account first if it
\* found none.
LEMMA TokenIxs ==
    ASSUME NEW action, NEW mint, NEW has \in BOOLEAN
    PROVE  /\ TokenTransferIxs(action, mint, has)
              = IF has THEN <<TokenIx(action, mint)>>
                ELSE <<AtaIx(action, mint), TokenIx(action, mint)>>
           /\ IsIx(TokenIx(action, mint)) /\ IsIx(AtaIx(action, mint))
           /\ AtaIx(action, mint).program = "ata"
<1>1. IsIx(AtaIx(action, mint)) /\ AtaIx(action, mint).program = "ata"
  BY DEF IsIx, IsInstruction, AtaIx, Ix, AncillaryTypes
<1>2. IsIx(TokenIx(action, mint))
  BY DEF IsIx, IsInstruction, TokenIx, Ix, AncillaryTypes
<1>3. TokenTransferIxs(action, mint, has)
      = (IF has THEN <<>> ELSE <<AtaIx(action, mint)>>) \o <<TokenIx(action, mint)>>
  BY DEF TokenTransferIxs, AtaIx, TokenIx
<1> QED
  BY <1>1, <1>2, <1>3

\* The fields of the transfer of a token.
LEMMA TokenIxFields ==
    ASSUME NEW action, NEW mint, NEW ix, ix = TokenIx(action, mint)
    PROVE  /\ ix.program = "token" /\ ix.op = "transfer" /\ ~ix.short
           /\ Len(ix.accounts) = 3
           /\ ix.accounts[1] = Ata(mint, action.from) /\ ix.accounts[2] = Ata(mint, action.to)
           /\ ix.accounts[3] = action.from
           /\ ix.args.amount = ToBaseUnits(action.amount.eq, TrueDecimals[mint])
  BY DEF TokenIx, Ix

\* The instruction that pays into the pool, for its recipient to claim.
LEMMA CreateIx ==
    ASSUME NEW t, t.sender \in Wallets, t.amount \in Nat, NEW m \in Mints,
           NEW ix, ix = CreateTransferIx(t, m)
    PROVE  /\ IsIx(ix) /\ ix.program = "handshake" /\ ix.op = "create_transfer" /\ ~ix.short
           /\ ix.accounts[1] = t.sender /\ ix.accounts[3] = Key(m)
           /\ ix.args = [recipient |-> t.recipient, amount |-> t.amount, memo |-> t.memo]
<1>1. /\ ix.program = "handshake" /\ ix.op = "create_transfer" /\ ix.short = FALSE
      /\ ix.accounts = <<t.sender, PoolPda, Key(m), Ata(m, PoolPda), Ata(m, t.sender), t.pda,
                         Key("token"), Key("system"), Key("ata")>>
      /\ ix.args = [recipient |-> t.recipient, amount |-> t.amount, memo |-> t.memo]
  BY DEF CreateTransferIx, Ix
<1>2. Len(ix.accounts) = 9 /\ DOMAIN ix.accounts = 1..9
      /\ ix.accounts[1] = t.sender /\ ix.accounts[3] = Key(m)
  BY <1>1
<1>3. IsIx(ix)
  <2>1. ix.op \notin AncillaryTypes /\ ix.op \in DOMAIN HandshakeAccounts
    BY <1>1 DEF AncillaryTypes, HandshakeAccounts
  <2>2. ix.accounts[3] \in {Key(x) : x \in Mints}
    BY <1>2
  <2>3. ix.args.amount \in Nat
    BY <1>1
  <2>4. ix.op # "none" /\ ix.short \in BOOLEAN
    BY <1>1
  <2>5. Len(ix.accounts) \in Nat /\ DOMAIN ix.accounts = 1..Len(ix.accounts)
        /\ Len(ix.accounts) >= 3 /\ ix.accounts[1] \in Wallets
    BY <1>2
  <2>6. ix.program # "system"
    BY <1>1
  <2> QED
    BY <1>1, <2>1, <2>2, <2>3, <2>4, <2>5, <2>6 DEF IsIx, IsInstruction
<1> QED
  BY <1>1, <1>2, <1>3

\* The instructions of a swap: its third one is the swap itself.
LEMMA SwapIxs ==
    ASSUME NEW s, NEW in, NEW out, NEW ixs, ixs = JupiterIxs(s, in, out)
    PROVE  /\ ixs \in Seq({ixs[1], ixs[2], ixs[3], ixs[4]})
           /\ Len(ixs) \in {3, 4}
           /\ \A l \in 1..Len(ixs) : IsIx(ixs[l])
           /\ ixs[3].program = "jupiter"
<1> DEFINE b == Ix("budget", "set_compute_unit_limit", <<>>, <<>>)
           a == Ix("ata", "create_idempotent",
                   <<s, Ata(out, s), s, Key(out), Key("system"), Key("token")>>, <<>>)
           r == Ix("jupiter", "route",
                   <<Key("token"), s, Ata(in, s), Ata(out, s), Key("jupiter"), Key(out)>>, <<>>)
           c == Ix("token", "close_account", <<Ata(SolMint, s), s, s>>, <<>>)
<1>1. ixs = <<b, a, r>> \o (IF SolMint \in {in, out} THEN <<c>> ELSE <<>>)
  BY DEF JupiterIxs
<1>2. IsIx(b)
  BY DEF IsIx, IsInstruction, Ix, AncillaryTypes
<1>3. IsIx(a)
  BY DEF IsIx, IsInstruction, Ix, AncillaryTypes
<1>4. IsIx(r) /\ r.program = "jupiter"
  BY DEF IsIx, IsInstruction, Ix, AncillaryTypes
<1>5. IsIx(c)
  BY DEF IsIx, IsInstruction, Ix, AncillaryTypes
<1> HIDE DEF a, b, c, r
<1>6. ixs = <<b, a, r>> \/ ixs = <<b, a, r>> \o <<c>>
  <2>1. CASE SolMint \in {in, out}
    BY <1>1, <2>1
  <2>2. CASE SolMint \notin {in, out}
    <3>1. ixs = <<b, a, r>> \o <<>>
      BY <1>1, <2>2
    <3> QED
      BY <3>1
  <2> QED
    BY <2>1, <2>2
<1>7. CASE ixs = <<b, a, r>>
  <2>1. Len(ixs) = 3 /\ ixs[1] = b /\ ixs[2] = a /\ ixs[3] = r
    BY <1>7
  <2>2. ixs \in Seq({ixs[1], ixs[2], ixs[3], ixs[4]})
    BY <1>7, <2>1
  <2>3. \A l \in 1..3 : l \in {1, 2, 3}
    OBVIOUS
  <2> QED
    BY <1>2, <1>3, <1>4, <2>1, <2>2, <2>3
<1>8. CASE ixs = <<b, a, r>> \o <<c>>
  <2> DEFINE S == {b, a, r, c}
  <2>1. /\ <<b, a, r>> \in Seq(S) /\ <<c>> \in Seq(S)
        /\ Len(<<b, a, r>>) = 3 /\ Len(<<c>>) = 1
    OBVIOUS
  <2>2. /\ ixs \in Seq(S) /\ Len(ixs) = 4
        /\ \A l \in 1..4 : ixs[l] = IF l <= 3 THEN <<b, a, r>>[l] ELSE <<c>>[l - 3]
    <3> HIDE DEF S
    <3>1. /\ ixs \in Seq(S) /\ Len(ixs) = Len(<<b, a, r>>) + Len(<<c>>)
          /\ \A l \in 1..(Len(<<b, a, r>>) + Len(<<c>>)) :
                 ixs[l] = IF l <= Len(<<b, a, r>>) THEN <<b, a, r>>[l]
                          ELSE <<c>>[l - Len(<<b, a, r>>)]
      BY <1>8, <2>1, ConcatProperties
    <3> QED
      BY <2>1, <3>1
  <2>3. ixs[1] = b /\ ixs[2] = a /\ ixs[3] = r /\ ixs[4] = c
    BY <2>2
  <2>4. ixs \in Seq({ixs[1], ixs[2], ixs[3], ixs[4]})
    BY <2>2, <2>3
  <2>5. \A l \in 1..4 : l \in {1, 2, 3, 4}
    OBVIOUS
  <2> QED
    BY <1>2, <1>3, <1>4, <1>5, <2>2, <2>3, <2>4, <2>5
<1> QED
  BY <1>6, <1>7, <1>8

\* A list behind the two instructions of the budget.
LEMMA BudgetFirst ==
    ASSUME NEW E, NEW others \in Seq(E), NEW list, list = <<Price>> \o <<Limit>> \o others
    PROVE  /\ Len(list) = Len(others) + 2 /\ Len(others) \in Nat
           /\ DOMAIN list = 1..Len(list)
           /\ list[1] = Price /\ list[2] = Limit
           /\ \A k \in 3..Len(list) : k - 2 \in 1..Len(others) /\ list[k] = others[k - 2]
<1> DEFINE F == E \cup {Price, Limit}
           P == <<Price>>
           L == <<Limit>>
           front == P \o L
<1>1. /\ P \in Seq(F) /\ L \in Seq(F)
      /\ Len(P) = 1 /\ P[1] = Price /\ Len(L) = 1 /\ L[1] = Limit
  <2>1. Price \in F /\ Limit \in F
    OBVIOUS
  <2> HIDE DEF F
  <2> QED
    BY <2>1
<1>2. others \in Seq(F) /\ Len(others) \in Nat
  <2>1. E \subseteq F
    OBVIOUS
  <2> HIDE DEF F
  <2> QED
    BY <2>1, SeqMonotonic
<1>3. list = front \o others
  OBVIOUS
<1> HIDE DEF F, P, L
<1>4. /\ front \in Seq(F) /\ Len(front) = Len(P) + Len(L)
      /\ \A i \in 1..(Len(P) + Len(L)) :
             front[i] = IF i <= Len(P) THEN P[i] ELSE L[i - Len(P)]
  BY <1>1, ConcatProperties
<1> HIDE DEF front
<1>5. /\ front \in Seq(F) /\ Len(front) = 2 /\ front[1] = Price /\ front[2] = Limit
  BY <1>1, <1>4
<1>6. /\ list \in Seq(F) /\ Len(list) = Len(front) + Len(others)
      /\ \A i \in 1..(Len(front) + Len(others)) :
             list[i] = IF i <= Len(front) THEN front[i] ELSE others[i - Len(front)]
  <2>1. /\ front \o others \in Seq(F) /\ Len(front \o others) = Len(front) + Len(others)
        /\ \A i \in 1..(Len(front) + Len(others)) :
               (front \o others)[i] = IF i <= Len(front) THEN front[i] ELSE others[i - Len(front)]
    BY <1>2, <1>5, ConcatProperties
  <2> QED
    BY <1>3, <2>1
<1>7. DOMAIN list = 1..Len(list)
  BY <1>6
<1> DEFINE n == Len(others)
<1> HIDE DEF n
<1>8. /\ n \in Nat /\ Len(list) = n + 2
      /\ \A i \in 1..(n + 2) : list[i] = IF i <= 2 THEN front[i] ELSE others[i - 2]
  <2>1. n \in Nat /\ Len(front) = 2
    BY <1>2, <1>5 DEF n
  <2>2. /\ Len(list) = Len(front) + n
        /\ \A i \in 1..(Len(front) + n) :
               list[i] = IF i <= Len(front) THEN front[i] ELSE others[i - Len(front)]
    BY <1>6 DEF n
  <2>3. Len(list) = n + 2
    BY <2>1, <2>2
  <2>4. ASSUME NEW i \in 1..(n + 2)
        PROVE  list[i] = IF i <= 2 THEN front[i] ELSE others[i - 2]
    <3>1. i \in 1..(Len(front) + n)
      BY <2>1
    <3>2. list[i] = IF i <= Len(front) THEN front[i] ELSE others[i - Len(front)]
      BY <2>2, <3>1
    <3> QED
      BY <2>1, <3>2
  <2> QED
    BY <2>1, <2>3, <2>4
<1>9. list[1] = Price /\ list[2] = Limit
  BY <1>5, <1>8
<1>10. ASSUME NEW k \in 3..(n + 2)
       PROVE  k - 2 \in 1..n /\ list[k] = others[k - 2]
  BY <1>8
<1> QED
  BY <1>7, <1>8, <1>9, <1>10 DEF n

\* Instructions make a transaction, with those of the budget put before them.
LEMMA ListOfIxs ==
    ASSUME NEW E, NEW ixs \in Seq(E), \A l \in 1..Len(ixs) : IsIx(ixs[l]),
           NEW tx, tx.ixs = BuildInstructionList(ixs, TRUE)
    PROVE  IsTransaction(tx)
<1>1. PICK others : /\ Keeps(others, ixs, Len(ixs))
                    /\ tx.ixs = <<Price>> \o <<Limit>> \o others
  BY InstructionList
<1>2. others \in Seq(Elements(ixs))
  BY <1>1 DEF Keeps
<1>3. \A k \in 1..Len(others) : IsIx(others[k])
  BY <1>2 DEF Elements
<1>4. /\ Len(tx.ixs) = Len(others) + 2 /\ Len(others) \in Nat
      /\ DOMAIN tx.ixs = 1..Len(tx.ixs)
      /\ tx.ixs[1] = Price /\ tx.ixs[2] = Limit
      /\ \A k \in 3..Len(tx.ixs) : k - 2 \in 1..Len(others) /\ tx.ixs[k] = others[k - 2]
  BY <1>1, <1>2, BudgetFirst
<1> DEFINE n == Len(tx.ixs)
<1>5. n \in Nat
  <2>1. n = Len(others) + 2 /\ Len(others) \in Nat
    BY <1>4
  <2> HIDE DEF n
  <2> QED
    BY <2>1
<1>6. ASSUME NEW k \in 1..n
      PROVE  IsIx(tx.ixs[k])
  <2> HIDE DEF n
  <2>1. k \in {1, 2} \/ k \in 3..n
    BY <1>5
  <2> QED
    BY <1>3, <1>4, <2>1, BudgetIxs DEF n
<1> QED
  BY <1>4, <1>5, <1>6 DEF IsTransaction, IsIx

\* The list of one instruction.
LEMMA SingleIx ==
    ASSUME NEW ix, IsIx(ix)
    PROVE  /\ <<ix>> \in Seq({ix}) /\ Len(<<ix>>) = 1 /\ <<ix>>[1] = ix
           /\ \A l \in 1..Len(<<ix>>) : IsIx(<<ix>>[l])
<1>1. Len(<<ix>>) = 1 /\ <<ix>>[1] = ix
  OBVIOUS
<1>2. \A l \in 1..1 : l = 1
  OBVIOUS
<1> QED
  BY <1>1, <1>2

\* The list of two instructions.
LEMMA DoubleIx ==
    ASSUME NEW a, NEW b, IsIx(a), IsIx(b)
    PROVE  /\ <<a, b>> \in Seq({a, b}) /\ Len(<<a, b>>) = 2 /\ <<a, b>>[1] = a /\ <<a, b>>[2] = b
           /\ \A l \in 1..Len(<<a, b>>) : IsIx(<<a, b>>[l])
<1>1. Len(<<a, b>>) = 2 /\ <<a, b>>[1] = a /\ <<a, b>>[2] = b
  OBVIOUS
<1>2. \A l \in 1..2 : l = 1 \/ l = 2
  OBVIOUS
<1> QED
  BY <1>1, <1>2

\* What is drafted for a transfer, as a list.
LEMMA Drafted ==
    ASSUME ConstantsAssumption, NEW j, j.request \in Requests, j.request.kind = "build",
           Buildable(j.request), j.units \in Nat, NEW changed, NEW ixs, Draft(j, changed, ixs)
    PROVE  /\ ixs \in Seq(Elements(ixs))
           /\ \A l \in 1..Len(ixs) : IsIx(ixs[l])
<1> DEFINE action == Action(j.request)
           mint == MintOf(j.request)
<1>1. Builder(j.request) # "jupiter" => action.from \in Wallets
  BY BuildRequest
<1>2. CASE PaysSol(j.request) /\ ixs = <<SolTransferIx(action)>>
  <2>1. IsIx(SolTransferIx(action))
    BY <1>1, <1>2, SolIx DEF PaysSol
  <2> DEFINE ix == SolTransferIx(action)
  <2> HIDE DEF ix
  <2> QED
    BY <1>2, <2>1, SingleIx DEF Elements, ix
<1>3. CASE PaysToken(j.request) /\ \E has \in BOOLEAN : ixs = TokenTransferIxs(action, mint, has)
  <2>1. PICK has \in BOOLEAN : ixs = TokenTransferIxs(action, mint, has)
    BY <1>3
  <2> DEFINE a == AtaIx(action, mint)
             t == TokenIx(action, mint)
  <2>2. ixs = (IF has THEN <<t>> ELSE <<a, t>>) /\ IsIx(t) /\ IsIx(a)
    BY <2>1, TokenIxs
  <2> HIDE DEF a, t
  <2>3. CASE has
    BY <2>2, <2>3, SingleIx DEF Elements
  <2>4. CASE ~has
    <3>1. ixs = <<a, t>>
      BY <2>2, <2>4
    <3>2. /\ ixs \in Seq({a, t}) /\ Len(ixs) = 2 /\ ixs[1] = a /\ ixs[2] = t
          /\ \A l \in 1..Len(ixs) : IsIx(ixs[l])
      <4>1. IsIx(a) /\ IsIx(t)
        BY <2>2
      <4>2. /\ <<a, t>> \in Seq({a, t}) /\ Len(<<a, t>>) = 2
            /\ <<a, t>>[1] = a /\ <<a, t>>[2] = t
            /\ \A l \in 1..Len(<<a, t>>) : IsIx(<<a, t>>[l])
        BY <4>1, DoubleIx
      <4> QED
        BY <3>1, <4>2
    <3>3. {a, t} \subseteq Elements(ixs)
      BY <3>2 DEF Elements
    <3> QED
      BY <3>2, <3>3, SeqMonotonic
  <2> QED
    BY <2>3, <2>4
<1>4. CASE /\ PaysPool(j)
           /\ \E m \in Mints : (~changed => m = j.mint) /\ ixs = HandshakeIxs(action, j.units, m)
  <2>1. PICK m \in Mints : ixs = HandshakeIxs(action, j.units, m)
    BY <1>4
  <2> DEFINE t == [sender |-> action.from, recipient |-> action.to,
                   pda |-> TransferPda(action.from, action.to, "n"), amount |-> j.units,
                   memo |-> IF "memo" \in DOMAIN action THEN action.memo ELSE ""]
             ix == CreateTransferIx(t, m)
  <2>2. ixs = <<ix>>
    BY <2>1 DEF HandshakeIxs
  <2>3. t.sender \in Wallets /\ t.amount \in Nat
    BY <1>1, <1>4 DEF PaysPool
  <2> HIDE DEF t
  <2>4. IsIx(ix)
    BY <2>3, CreateIx
  <2> HIDE DEF ix
  <2> QED
    BY <2>2, <2>4, SingleIx DEF Elements
<1>5. CASE Swaps(j.request) /\ \E s, in, out : ixs = JupiterIxs(s, in, out)
  <2>1. PICK s, in, out : ixs = JupiterIxs(s, in, out)
    BY <1>5
  <2>2. /\ ixs \in Seq({ixs[1], ixs[2], ixs[3], ixs[4]})
        /\ Len(ixs) \in {3, 4} /\ \A l \in 1..Len(ixs) : IsIx(ixs[l])
    BY <2>1, SwapIxs
  <2>3. ixs \in Seq(Elements(ixs))
    <3> DEFINE n == Len(ixs)
    <3>1. n \in Nat /\ ixs = [l \in 1..n |-> ixs[l]]
      BY <2>2, LenProperties
    <3>2. \A l \in 1..n : ixs[l] \in Elements(ixs)
      BY DEF Elements
    <3> HIDE DEF n
    <3>3. ixs \in [1..n -> Elements(ixs)]
      BY <3>1, <3>2
    <3> QED
      BY <3>1, <3>3, SeqDef
  <2> QED
    BY <2>2, <2>3
<1> QED
  BY <1>2, <1>3, <1>4, <1>5 DEF Draft

\* What is assembled from a draft is a transaction.
LEMMA DraftTransaction ==
    ASSUME ConstantsAssumption, NEW j, j.request \in Requests, j.request.kind = "build",
           Buildable(j.request), j.units \in Nat, NEW changed, NEW ixs, Draft(j, changed, ixs),
           NEW tx, tx.ixs = BuildInstructionList(ixs, TRUE)
    PROVE  IsTransaction(tx)
  BY Drafted, ListOfIxs

\* What the transfer endpoint builds is a transaction.
LEMMA PaidTransaction ==
    ASSUME ConstantsAssumption, NEW j, j.request \in Requests, j.request.kind = "transfer",
           j.units \in Nat, NEW m \in Mints, NEW tx,
           tx.ixs = <<CreateTransferIx(PaymentOf(j), m)>>
    PROVE  IsTransaction(tx)
<1> DEFINE ix == CreateTransferIx(PaymentOf(j), m)
<1>1. PaymentOf(j).sender \in Wallets /\ PaymentOf(j).amount \in Nat
  BY DEF ConstantsAssumption, IsRequest, PaymentOf
<1>2. IsIx(ix)
  BY <1>1, CreateIx
<1> HIDE DEF ix
<1>3. tx.ixs = <<ix>>
  BY DEF ix
<1> QED
  BY <1>2, <1>3, SingleIx DEF IsTransaction, IsIx

(* The steps of a build                                                    *)

----------------------------------------------------------------------------
(* The steps of a build                                                    *)

\* The first step of a build: the checks of the endpoint and of the builder it chooses,
\* with what that builder reads first.
LEMMA BeginsBuild ==
    ASSUME ConstantsAssumption, IInv, NEW request \in Requests, BeginBuild(request)
    PROVE  JobOK(job') /\ StageOK(job', chain, rows, replaced)
<1>1. job = Idle /\ JobOK(job) /\ request.kind = "build" /\ Buildable(request)
  BY DEF IInv, JobOK, BeginBuild, Serving
<1>2. ChainOK(chain)
  BY DEF IInv
<1> DEFINE action == Action(request)
           builder == Builder(request)
<1>3. CASE builder = "native" /\ BeginNative(request)
  <2> DEFINE mint == MintOf(request)
  <2>1. Payable(request)
    BY <1>3 DEF BeginNative
  <2>2. CASE /\ mint = "none" /\ FitsPrecision(action.amount.eq, SolDecimals)
             /\ job' = [Becomes("assemble", request) EXCEPT !.ixs = <<SolTransferIx(action)>>]
    <3>1. /\ JobOK(job') /\ job'.pc = "assemble" /\ job'.request = request
          /\ job'.ixs = <<SolTransferIx(action)>>
      BY <1>1, <2>2 DEF JobOK, Becomes
    <3>2. PaysSol(request)
      BY <1>3, <2>1, <2>2 DEF PaysSol
    <3> HIDE <2>2
    <3>3. Draft(job', replaced, job'.ixs)
      BY <3>1, <3>2 DEF Draft
    <3>4. BuildOK(job', chain, replaced)
      BY <1>1, <1>3, <3>1, <3>3 DEF BuildOK
    <3> QED
      BY <1>1, <3>1, <3>4 DEF StageOK, KindOK
  <2>3. CASE /\ mint \in Mints /\ FitsPrecision(action.amount.eq, TrueDecimals[mint])
             /\ job' = [Becomes("destination", request) EXCEPT !.mint = mint]
    <3>1. /\ JobOK(job') /\ job'.pc = "destination" /\ job'.request = request
          /\ job'.mint = mint
      BY <1>1, <2>3 DEF JobOK, Becomes
    <3>2. PaysToken(request)
      BY <1>3, <2>1, <2>3 DEF PaysToken
    <3> HIDE <2>3
    <3>3. BuildOK(job', chain, replaced)
      BY <1>1, <1>3, <3>1, <3>2 DEF BuildOK
    <3> QED
      BY <1>1, <3>1, <3>3 DEF StageOK, KindOK
  <2> QED
    BY <1>3, <2>2, <2>3 DEF BeginNative, MintOf
<1>4. CASE builder = "handshake" /\ BeginHandshake(request)
  <2> DEFINE amount == action.amount
             units == ToBaseUnits(amount.eq, TrueDecimals[chain.pool])
  <2>1. /\ Payable(request) /\ chain.pool # "none"
        /\ FitsPrecision(amount.eq, TrueDecimals[chain.pool])
        /\ job' = [Becomes("pool", request) EXCEPT !.mint = chain.pool, !.units = units]
    BY <1>4 DEF BeginHandshake
  <2>2. chain.pool \in Mints
    BY <1>2, <2>1 DEF ChainOK, ConstantsAssumption
  <2>3. units \in Nat
    BY <1>1, <1>4, <2>1, <2>2, PoolUnits, MintDecimals
  <2> HIDE DEF units
  <2>4. /\ JobOK(job') /\ job'.pc = "pool" /\ job'.request = request
        /\ job'.mint = chain.pool /\ job'.units = units
    BY <1>1, <2>1, <2>3 DEF JobOK, Becomes
  <2>5. PaysPool(job')
    BY <1>4, <2>1, <2>2, <2>4 DEF PaysPool, units
  <2>6. PoolKept(job'.mint, chain, replaced)
    BY <2>2, <2>4 DEF PoolKept
  <2>7. BuildOK(job', chain, replaced)
    BY <1>1, <2>4, <2>5, <2>6 DEF BuildOK
  <2> QED
    BY <1>1, <2>4, <2>7 DEF StageOK, KindOK
<1>5. CASE builder = "jupiter" /\ BeginJupiter(request)
  <2>1. PICK s, in, out :
            job' = [Becomes("assemble", request) EXCEPT !.ixs = JupiterIxs(s, in, out)]
    BY <1>5 DEF BeginJupiter
  <2>2. /\ JobOK(job') /\ job'.pc = "assemble" /\ job'.request = request
        /\ job'.ixs = JupiterIxs(s, in, out)
    BY <1>1, <2>1 DEF JobOK, Becomes
  <2>3. Swaps(request)
    BY <1>5 DEF Swaps, BeginJupiter
  <2>4. Draft(job', replaced, job'.ixs)
    BY <2>2, <2>3 DEF Draft
  <2>5. BuildOK(job', chain, replaced)
    BY <1>1, <1>5, <2>2, <2>4 DEF BuildOK
  <2> QED
    BY <1>1, <2>2, <2>5 DEF StageOK, KindOK
<1> QED
  BY <1>3, <1>4, <1>5 DEF BeginBuild, Builder

\* A job at a stage of a build is the job of a build.
LEMMA AtBuild ==
    ASSUME IInv, job.pc \in {"destination", "pool", "assemble"}
    PROVE  /\ JobOK(job) /\ job.request \in Requests
           /\ job.request.kind = "build" /\ BuildOK(job, chain, replaced)
<1>1. JobOK(job) /\ StageOK(job, chain, rows, replaced)
  BY DEF IInv
<1>2. job.request \in Requests
  BY <1>1 DEF JobOK
<1>3. job.request.kind = "build" /\ BuildOK(job, chain, replaced)
  BY <1>1 DEF StageOK, KindOK
<1> QED
  BY <1>1, <1>2, <1>3

\* Reading the account of the recipient drafts the transfer of a token.
LEMMA ReadsDestination ==
    ASSUME ConstantsAssumption, IInv, ReadDestination
    PROVE  JobOK(job') /\ StageOK(job', chain, rows, replaced)
<1>1. job.pc = "destination"
  BY DEF ReadDestination, Serving
<1>2. /\ JobOK(job) /\ job.request \in Requests
      /\ job.request.kind = "build" /\ BuildOK(job, chain, replaced)
  BY <1>1, AtBuild
<1>3. PICK has \in BOOLEAN :
          job' = [job EXCEPT !.pc = "assemble",
                             !.ixs = TokenTransferIxs(Action(job.request), job.mint, has)]
  BY DEF ReadDestination
<1>4. /\ JobOK(job') /\ job'.pc = "assemble" /\ job'.request = job.request
      /\ job'.mint = job.mint
      /\ job'.ixs = TokenTransferIxs(Action(job.request), job.mint, has)
  BY <1>1, <1>2, <1>3 DEF JobOK
<1>5. BuildOK(job', chain, replaced)
  <2>1. PaysToken(job.request) /\ job.mint = MintOf(job.request) /\ Buildable(job.request)
    BY <1>1, <1>2 DEF BuildOK
  <2>2. Draft(job', replaced, job'.ixs)
    BY <1>4, <2>1 DEF Draft
  <2> QED
    BY <1>2, <1>4, <2>1, <2>2 DEF BuildOK
<1> QED
  BY <1>2, <1>4, <1>5 DEF StageOK, KindOK

\* The handshake builder reads the pool again to draft.
LEMMA ReadsPoolAgain ==
    ASSUME ConstantsAssumption, IInv, ReadPoolAgain
    PROVE  JobOK(job') /\ StageOK(job', chain, rows, replaced)
<1>1. job.pc = "pool" /\ chain.pool # "none"
      /\ job' = [job EXCEPT !.pc = "assemble",
                            !.ixs = HandshakeIxs(Action(job.request), job.units, chain.pool)]
  BY DEF ReadPoolAgain, Serving
<1>2. /\ JobOK(job) /\ job.request \in Requests
      /\ job.request.kind = "build" /\ BuildOK(job, chain, replaced)
  BY <1>1, AtBuild
<1>3. /\ JobOK(job') /\ job'.pc = "assemble" /\ job'.request = job.request
      /\ job'.mint = job.mint /\ job'.units = job.units
      /\ job'.ixs = HandshakeIxs(Action(job.request), job.units, chain.pool)
  BY <1>1, <1>2 DEF JobOK
<1>4. chain.pool \in Mints
  BY <1>1 DEF IInv, ChainOK, ConstantsAssumption
<1>5. BuildOK(job', chain, replaced)
  <2>1. PaysPool(job) /\ Buildable(job.request) /\ PoolKept(job.mint, chain, replaced)
    BY <1>1, <1>2 DEF BuildOK, PaysPool
  <2>2. PaysPool(job')
    BY <1>3, <2>1 DEF PaysPool
  <2>3. Draft(job', replaced, job'.ixs)
    BY <1>3, <1>4, <2>1, <2>2 DEF Draft, PoolKept
  <2> QED
    BY <1>3, <2>1, <2>3 DEF BuildOK
<1> QED
  BY <1>2, <1>3, <1>5 DEF StageOK, KindOK

\* A draft depends on the request, the mint and the units alone.
LEMMA DraftOf ==
    ASSUME NEW j, NEW k, k.request = j.request, k.mint = j.mint, k.units = j.units,
           NEW changed, NEW ixs, Draft(j, changed, ixs)
    PROVE  Draft(k, changed, ixs)
  BY DEF Draft, PaysPool

\* Assembling the transaction of a draft.
LEMMA Assembles ==
    ASSUME ConstantsAssumption, IInv, Assemble
    PROVE  JobOK(job') /\ StageOK(job', chain, rows, replaced)
<1>1. job.pc = "assemble"
  BY DEF Assemble, Serving
<1>2. /\ JobOK(job) /\ job.request \in Requests
      /\ job.request.kind = "build" /\ BuildOK(job, chain, replaced)
  BY <1>1, AtBuild
<1>3. PICK payer : job' = Built(job, payer, BuildInstructionList(job.ixs, TRUE))
  BY DEF Assemble
<1>4. /\ JobOK(job') /\ job'.pc = "built" /\ job'.request = job.request
      /\ job'.mint = job.mint /\ job'.units = job.units
      /\ job'.tx.ixs = BuildInstructionList(job.ixs, TRUE)
  BY <1>1, <1>2, <1>3 DEF JobOK, Built, Tx
<1>5. BuildOK(job', chain, replaced)
  <2>1. /\ Draft(job, replaced, job.ixs) /\ Buildable(job.request)
        /\ Builder(job.request) = "handshake" => PoolKept(job.mint, chain, replaced)
    BY <1>1, <1>2 DEF BuildOK
  <2>2. Draft(job', replaced, job.ixs)
    BY <1>4, <2>1, DraftOf
  <2> QED
    BY <1>4, <2>1, <2>2 DEF BuildOK
<1> QED
  BY <1>2, <1>4, <1>5 DEF StageOK, KindOK

(* The steps of a transfer                                                 *)

----------------------------------------------------------------------------
(* The steps of the transfer endpoint                                      *)

\* The first step of the transfer endpoint: which pool is asked for.
LEMMA BeginsTransfer ==
    ASSUME ConstantsAssumption, IInv, NEW request \in Requests, BeginTransfer(request)
    PROVE  JobOK(job') /\ StageOK(job', chain, rows, replaced)
<1>1. /\ job = Idle /\ JobOK(job) /\ ChainOK(chain)
      /\ request.kind = "transfer" /\ request.amount.digits > 0 /\ ResolvePool(request.by)
      /\ chain.pool # "none"
      /\ job' = [Becomes("token", request) EXCEPT !.mint = chain.pool]
  BY DEF IInv, JobOK, BeginTransfer, Serving
<1>2. /\ JobOK(job') /\ job'.pc = "token" /\ job'.request = request /\ job'.mint = chain.pool
  BY <1>1 DEF JobOK, Becomes
<1>3. PoolKept(job'.mint, chain, replaced)
  BY <1>1, <1>2 DEF PoolKept, ChainOK, ConstantsAssumption
<1>4. TransferOK(job', chain, rows, replaced)
  BY <1>1, <1>2, <1>3 DEF TransferOK, ResolvePool
<1> QED
  BY <1>1, <1>2, <1>4 DEF StageOK, KindOK

\* What is known at the stages of the transfer endpoint.
LEMMA AtTransfer ==
    ASSUME IInv, job.pc \in {"token", "create", "persist"}
    PROVE  /\ JobOK(job) /\ job.request \in Requests
           /\ job.request.kind = "transfer" /\ TransferOK(job, chain, rows, replaced)
<1>1. JobOK(job) /\ StageOK(job, chain, rows, replaced)
  BY DEF IInv
<1>2. job.request \in Requests
  BY <1>1 DEF JobOK
<1>3. job.request.kind = "transfer" /\ TransferOK(job, chain, rows, replaced)
  BY <1>1 DEF StageOK, KindOK
<1> QED
  BY <1>1, <1>2, <1>3

\* The fields of a request for a transfer.
LEMMA TransferRequest ==
    ASSUME ConstantsAssumption, NEW request \in Requests, request.kind = "transfer"
    PROVE  /\ {request.sender, request.recipient} \subseteq Wallets
           /\ request.amount \in [digits : Int, frac : Nat]
           /\ request.by \in Mints \cup {"pool"}
  BY DEF ConstantsAssumption, IsRequest

\* The transfer endpoint finds or creates the row of the token and computes the units.
LEMMA ReadsToken ==
    ASSUME ConstantsAssumption, IInv, ReadToken
    PROVE  RowsOK(rows') /\ JobOK(job') /\ StageOK(job', chain, rows', replaced)
<1>1. /\ job.pc = "token" /\ rows' = GetOrCreateToken(job.mint)
      /\ \E units \in AmountRaw(job.request.amount, rows'.decimals[job.mint]) :
             job' = [job EXCEPT !.pc = "create", !.units = units]
  BY DEF ReadToken, Serving
<1>2. /\ JobOK(job) /\ job.request \in Requests
      /\ job.request.kind = "transfer" /\ TransferOK(job, chain, rows, replaced)
  BY <1>1, AtTransfer
<1>3. RowsOK(rows)
  BY DEF IInv
<1>4. PICK units \in AmountRaw(job.request.amount, rows'.decimals[job.mint]) :
          job' = [job EXCEPT !.pc = "create", !.units = units]
  BY <1>1
<1>6. /\ RowsOK(rows') /\ rows'.pool = rows.pool
      /\ job.mint \in Mints /\ job.mint \in DOMAIN rows'.decimals
  BY <1>1, <1>2, <1>3, TokenRow DEF TransferOK, PoolKept
<1>7. rows'.decimals[job.mint] \in Nat
  BY <1>6 DEF RowsOK
<1>8. units \in Nat
  <2>1. job.request.amount \in [digits : Int, frac : Nat] /\ job.request.amount.digits > 0
    BY <1>2, TransferRequest DEF TransferOK
  <2> QED
    BY <1>4, <1>7, <2>1, RawUnits
<1>9. /\ JobOK(job') /\ job'.pc = "create" /\ job'.request = job.request
      /\ job'.mint = job.mint /\ job'.units = units
  BY <1>1, <1>2, <1>4, <1>8 DEF JobOK
<1>10. TransferOK(job', chain, rows', replaced)
  BY <1>2, <1>6, <1>9 DEF TransferOK
<1> QED
  BY <1>2, <1>6, <1>9, <1>10 DEF StageOK, KindOK

\* The transfer endpoint reads the pool again and builds the payment.
LEMMA CreatesTransfer ==
    ASSUME ConstantsAssumption, IInv, CreateTransfer
    PROVE  JobOK(job') /\ StageOK(job', chain, rows, replaced)
<1>1. job.pc = "create" /\ chain.pool # "none"
      /\ job' = [job EXCEPT !.pc = "persist", !.ixs = <<CreateTransferIx(PaymentOf(job), chain.pool)>>]
  BY DEF CreateTransfer, Serving, PaymentOf
<1>2. /\ JobOK(job) /\ job.request \in Requests
      /\ job.request.kind = "transfer" /\ TransferOK(job, chain, rows, replaced)
  BY <1>1, AtTransfer
<1>3. /\ JobOK(job') /\ job'.pc = "persist" /\ job'.request = job.request
      /\ job'.mint = job.mint /\ job'.units = job.units
      /\ job'.ixs = <<CreateTransferIx(PaymentOf(job), chain.pool)>>
  BY <1>1, <1>2 DEF JobOK
<1>4. chain.pool \in Mints /\ (~replaced => chain.pool = job.mint)
  BY <1>1, <1>2 DEF IInv, ChainOK, ConstantsAssumption, TransferOK, PoolKept
<1>5. PaymentOf(job') = PaymentOf(job)
  BY <1>3 DEF PaymentOf
<1>6. TransferOK(job', chain, rows, replaced)
  BY <1>1, <1>2, <1>3, <1>4, <1>5 DEF TransferOK
<1> QED
  BY <1>2, <1>3, <1>6 DEF StageOK, KindOK

\* The transfer endpoint stores the row of the pool and has built its transaction.
LEMMA PersistsTransfer ==
    ASSUME ConstantsAssumption, IInv, PersistTransfer
    PROVE  RowsOK(rows') /\ JobOK(job') /\ StageOK(job', chain, rows', replaced)
<1>1. /\ job.pc = "persist" /\ (rows.pool = "none" => chain.pool # "none")
      /\ rows' = IF rows.pool # "none" THEN rows ELSE EnsurePool(chain.pool)
      /\ job' = Built(job, job.request.sender, job.ixs)
  BY DEF PersistTransfer, Serving
<1>2. /\ JobOK(job) /\ job.request \in Requests
      /\ job.request.kind = "transfer" /\ TransferOK(job, chain, rows, replaced)
  BY <1>1, AtTransfer
<1>3. ChainOK(chain) /\ RowsOK(rows)
  BY DEF IInv
<1>4. /\ RowsOK(rows')
      /\ rows.pool # "none" => rows'.pool = rows.pool
      /\ \A m \in DOMAIN rows.decimals :
             m \in DOMAIN rows'.decimals /\ rows'.decimals[m] = rows.decimals[m]
  <2>1. CASE rows.pool # "none"
    BY <1>1, <1>3, <2>1
  <2>2. CASE rows.pool = "none"
    <3>1. chain.pool \in Mints
      BY <1>1, <1>3, <2>2 DEF ChainOK, ConstantsAssumption
    <3> DEFINE r == GetOrCreateToken(chain.pool)
    <3>2. /\ RowsOK(r)
          /\ \A m \in DOMAIN rows.decimals :
                 m \in DOMAIN r.decimals /\ r.decimals[m] = rows.decimals[m]
      BY <1>3, <3>1, TokenRow
    <3>3. rows' = [r EXCEPT !.pool = chain.pool]
      BY <1>1, <2>2 DEF EnsurePool
    <3> HIDE DEF r
    <3>4. rows' = [decimals |-> r.decimals, pool |-> chain.pool]
      BY <3>2, <3>3 DEF RowsOK
    <3> QED
      BY <2>2, <3>1, <3>2, <3>4 DEF RowsOK
  <2> QED
    BY <2>1, <2>2
<1>5. /\ JobOK(job') /\ job'.pc = "built" /\ job'.request = job.request
      /\ job'.mint = job.mint /\ job'.units = job.units
      /\ job'.ixs = job.ixs /\ job'.tx.ixs = job.ixs
  BY <1>1, <1>2 DEF JobOK, Built, Tx
<1>6. PaymentOf(job') = PaymentOf(job)
  BY <1>5 DEF PaymentOf
<1>7. job.request.by # "pool" => rows'.pool = job.request.by
  <2>1. job.request.by \in Mints \cup {"pool"}
    BY <1>2, TransferRequest
  <2>2. job.request.by # "pool" => rows.pool = job.request.by /\ rows.pool # "none"
    BY <1>2, <2>1, MintDecimals DEF TransferOK
  <2> QED
    BY <1>4, <2>2
<1>8. TransferOK(job', chain, rows', replaced)
  <2>1. /\ job.request.amount.digits > 0 /\ PoolKept(job.mint, chain, replaced)
        /\ job.mint \in DOMAIN rows.decimals
        /\ job.units \in AmountRaw(job.request.amount, rows.decimals[job.mint])
        /\ \E m \in Mints : /\ ~replaced => m = job.mint
                            /\ job.ixs = <<CreateTransferIx(PaymentOf(job), m)>>
    BY <1>1, <1>2 DEF TransferOK
  <2>2. /\ job.mint \in DOMAIN rows'.decimals
        /\ job.units \in AmountRaw(job.request.amount, rows'.decimals[job.mint])
    BY <1>4, <2>1
  <2> QED
    BY <1>5, <1>6, <1>7, <2>1, <2>2 DEF TransferOK
<1> QED
  BY <1>2, <1>4, <1>5, <1>8 DEF StageOK, KindOK

(* The other requests                                                      *)

----------------------------------------------------------------------------
(* The other requests, and the answers                                     *)

\* The kinds of requests whose transaction is neither analyzed nor verified.
OtherKinds == {"claim", "cancel", "create", "deposit", "spend", "close", "pause", "add", "remove"}

\* Nothing is kept of them but the request.
LEMMA OtherStage ==
    ASSUME NEW j, NEW c, NEW r, NEW changed, j.request.kind \in OtherKinds,
           j.pc \in {"settle", "built", "failed"}
    PROVE  StageOK(j, c, r, changed)
  BY DEF OtherKinds, StageOK, KindOK

\* The first step of a claim or a cancellation.
LEMMA BeginsSettle ==
    ASSUME IInv, NEW request \in Requests, BeginSettle(request)
    PROVE  JobOK(job') /\ StageOK(job', chain, rows, replaced)
<1>1. /\ job = Idle /\ JobOK(job) /\ request.kind \in {"claim", "cancel"}
      /\ job' = [Becomes("settle", request) EXCEPT !.sender = chain.transfer.sender]
  BY DEF IInv, JobOK, BeginSettle, Serving
<1>2. JobOK(job') /\ job'.pc = "settle" /\ job'.request = request
  BY <1>1 DEF JobOK, Becomes
<1> QED
  BY <1>1, <1>2 DEF StageOK, KindOK

\* A claim or a cancellation is built.
LEMMA Settles ==
    ASSUME IInv, Settle
    PROVE  JobOK(job') /\ StageOK(job', chain, rows, replaced)
<1>1. /\ job.pc = "settle" /\ JobOK(job) /\ StageOK(job, chain, rows, replaced)
      /\ \E payer, ixs : job' = Built(job, payer, ixs)
  BY DEF IInv, Settle, Serving
<1>2. PICK payer, ixs : job' = Built(job, payer, ixs)
  BY <1>1
<1>3. JobOK(job') /\ job'.pc = "built" /\ job'.request = job.request
  BY <1>1, <1>2 DEF JobOK, Built
<1>4. job.request.kind \notin {"build", "transfer", "analyze", "verify"}
  BY <1>1 DEF StageOK, BuildOK, TransferOK, ReceivedOK
<1> QED
  BY <1>3, <1>4 DEF StageOK, KindOK

\* The requests about an account: each is built in the steps of its endpoint.
LEMMA ManagesAccount ==
    ASSUME IInv, NEW request \in Requests,
           CreateAccount(request) \/ ReadAccount(request) \/ ManageAccount(request)
    PROVE  JobOK(job') /\ StageOK(job', chain, rows, replaced)
<1>1. /\ job = Idle /\ JobOK(job) /\ request.kind \in OtherKinds
      /\ \E payer, ixs : job' = Built(Becomes("built", request), payer, ixs)
  BY DEF IInv, JobOK, CreateAccount, ReadAccount, ManageAccount, Serving, OtherKinds
<1>2. PICK payer, ixs : job' = Built(Becomes("built", request), payer, ixs)
  BY <1>1
<1>3. JobOK(job') /\ job'.pc = "built" /\ job'.request = request
  BY <1>1, <1>2 DEF JobOK, Built, Becomes
<1> QED
  BY <1>1, <1>3, OtherStage

\* A transaction to be analyzed or verified comes in.
LEMMA Receives ==
    ASSUME IInv, NEW request \in Requests, Receive(request)
    PROVE  JobOK(job') /\ StageOK(job', chain, rows, replaced)
<1>1. /\ job = Idle /\ JobOK(job) /\ request.kind \in {"analyze", "verify"}
      /\ job' = [Becomes("built", request) EXCEPT !.tx = request.tx]
  BY DEF IInv, JobOK, Receive, Serving
<1>2. JobOK(job') /\ job'.pc = "built" /\ job'.request = request /\ job'.tx = request.tx
  BY <1>1 DEF JobOK, Becomes
<1> QED
  BY <1>1, <1>2 DEF StageOK, KindOK, ReceivedOK

\* A request fails, or its answer is given and the next one may begin.
LEMMA FailsOrFinishes ==
    ASSUME IInv, Fail \/ Finish
    PROVE  JobOK(job') /\ StageOK(job', chain, rows, replaced)
<1>1. JobOK(job)
  BY DEF IInv
<1>2. CASE Fail
  <2>1. JobOK(job') /\ job'.pc = "failed"
    BY <1>1, <1>2 DEF Fail, JobOK
  <2> QED
    BY <2>1 DEF StageOK
<1>3. CASE Finish
  <2>1. JobOK(job') /\ job'.pc = "idle"
    BY <1>3 DEF Finish, JobOK, Idle
  <2> QED
    BY <2>1 DEF StageOK
<1> QED
  BY <1>2, <1>3

(* The answers                                                             *)

\* The answer of the analyzer is about the transaction at hand.
LEMMA Analyzes ==
    ASSUME ConstantsAssumption, IInv, AnalyzeBuilt
    PROVE  JobOK(job') /\ StageOK(job', chain, rows, replaced)
<1>1. /\ job.pc = "built" /\ JobOK(job) /\ StageOK(job, chain, rows, replaced)
      /\ job.request.kind \in {"build", "analyze"}
  BY DEF IInv, AnalyzeBuilt, Serving
<1>2. PICK reads \in Reads :
          job' = IF AnalyzeThrows(job.tx, job.request.intent, reads)
                 THEN [job EXCEPT !.pc = "failed"]
                 ELSE [job EXCEPT !.pc = "answered",
                           !.metaRead = reads.first /\ reads.second,
                           !.result = Analyze(chain, job.tx, job.request.intent, reads)]
  BY DEF AnalyzeBuilt
<1>3. CASE AnalyzeThrows(job.tx, job.request.intent, reads)
  <2>1. JobOK(job') /\ job'.pc = "failed"
    BY <1>1, <1>2, <1>3 DEF JobOK
  <2> QED
    BY <2>1 DEF StageOK
<1>4. CASE ~AnalyzeThrows(job.tx, job.request.intent, reads)
  <2> DEFINE answer == Analyze(chain, job.tx, job.request.intent, reads)
  <2>1. answer.match = Matching(job.tx, job.request.intent, reads)
    BY DEF Analyze
  <2> HIDE DEF answer
  <2>2. job' = [job EXCEPT !.pc = "answered", !.metaRead = reads.first /\ reads.second,
                           !.result = answer]
    BY <1>2, <1>4 DEF answer
  <2>3. /\ JobOK(job') /\ job'.pc = "answered" /\ job'.request = job.request
        /\ job'.mint = job.mint /\ job'.units = job.units
        /\ job'.tx = job.tx /\ job'.result = answer
        /\ job'.metaRead = (reads.first /\ reads.second)
    BY <1>1, <2>2 DEF JobOK
  <2>4. AnswerOK(job')
    <3>1. \E c : answer.verdict = Analyze(c, job.tx, job.request.intent, reads).verdict
      BY DEF answer
    <3> QED
      BY <1>1, <2>1, <2>3, <3>1 DEF AnswerOK
  <2>5. ASSUME job.request.kind = "build"
        PROVE  BuildOK(job', chain, replaced)
    <3>1. /\ Buildable(job.request)
          /\ Builder(job.request) = "handshake" => PoolKept(job.mint, chain, replaced)
      BY <1>1, <2>5 DEF StageOK, BuildOK
    <3>2. PICK ixs : /\ Draft(job, replaced, ixs)
                     /\ job.tx.ixs = BuildInstructionList(ixs, TRUE)
      BY <1>1, <2>5 DEF StageOK, BuildOK
    <3>3. Draft(job', replaced, ixs)
      BY <2>3, <3>2, DraftOf
    <3>4. \E x : Draft(job', replaced, x) /\ job'.tx.ixs = BuildInstructionList(x, TRUE)
      BY <2>3, <3>2, <3>3
    <3> QED
      BY <2>3, <3>1, <3>4 DEF BuildOK
  <2>6. ASSUME job.request.kind = "analyze"
        PROVE  ReceivedOK(job')
    BY <1>1, <2>3, <2>6 DEF StageOK, ReceivedOK
  <2> QED
    BY <1>1, <2>3, <2>4, <2>5, <2>6 DEF StageOK, KindOK
<1> QED
  BY <1>3, <1>4

\* The answer of the SDK's verifier is about the transaction at hand.
LEMMA Verifies ==
    ASSUME IInv, VerifyBuilt
    PROVE  JobOK(job') /\ StageOK(job', chain, rows, replaced)
<1>1. /\ job.pc = "built" /\ JobOK(job) /\ StageOK(job, chain, rows, replaced)
      /\ job.request.kind \in {"transfer", "claim", "cancel", "verify"}
  BY DEF IInv, VerifyBuilt, Serving
<1> DEFINE Answer(rpcUp) ==
               VerifyInstruction(AnalyzeTransaction(job.tx, FetchedMeta(job.tx, rpcUp)),
                                 AskedIntent(job.request))
           Verified(rpcUp) == Answer(rpcUp).verified
<1>2. PICK rpcUp \in BOOLEAN :
          job' = [job EXCEPT
                      !.pc = "answered", !.metaRead = rpcUp,
                      !.result = [match |-> IF Verified(rpcUp) THEN "verified" ELSE "refused",
                                  verdict |-> "unanswered"]]
  BY DEF VerifyBuilt
<1> DEFINE verified == Verified(rpcUp)
<1>3. job' = [job EXCEPT !.pc = "answered", !.metaRead = rpcUp,
                  !.result = [match |-> IF verified THEN "verified" ELSE "refused",
                              verdict |-> "unanswered"]]
  BY <1>2
<1> HIDE DEF verified
<1>4. /\ JobOK(job') /\ job'.pc = "answered" /\ job'.request = job.request
      /\ job'.mint = job.mint /\ job'.units = job.units
      /\ job'.tx = job.tx /\ job'.ixs = job.ixs /\ job'.metaRead = rpcUp
      /\ job'.result.match = "verified" => verified
      /\ job'.result.verdict = "unanswered"
  BY <1>1, <1>3 DEF JobOK
<1>5. AnswerOK(job')
  BY <1>1, <1>4 DEF AnswerOK, verified
<1>6. ASSUME job.request.kind = "transfer"
      PROVE  TransferOK(job', chain, rows, replaced)
  <2>1. TransferOK(job, chain, rows, replaced)
    BY <1>1, <1>6 DEF StageOK
  <2>2. PaymentOf(job') = PaymentOf(job)
    BY <1>4 DEF PaymentOf
  <2> QED
    BY <1>1, <1>4, <2>1, <2>2 DEF TransferOK
<1>7. ASSUME job.request.kind = "verify"
      PROVE  ReceivedOK(job')
  BY <1>1, <1>4, <1>7 DEF StageOK, ReceivedOK
<1> QED
  BY <1>1, <1>4, <1>5, <1>6, <1>7 DEF StageOK, KindOK

(* The other users                                                         *)

----------------------------------------------------------------------------
(* Every step keeps the invariant                                          *)

\* What happens between the steps of a request leaves what is known of it.
LEMMA OthersMove ==
    ASSUME ConstantsAssumption, IInv,
           \/ ReplacePool \/ ReplaceAccount \/ MakeTokenAccount \/ EmptyTokenAccount
           \/ SettleTransfer \/ AddRow
    PROVE  IInv'
<1>1. /\ ChainOK(chain) /\ RowsOK(rows) /\ JobOK(job) /\ StageOK(job, chain, rows, replaced)
      /\ moves \in 0..MaxMoves /\ replaced \in BOOLEAN /\ MaxMoves \in Nat
  BY DEF IInv, ConstantsAssumption
<1>2. job' = job /\ moves < MaxMoves /\ moves' = moves + 1
  BY DEF ReplacePool, ReplaceAccount, MakeTokenAccount, EmptyTokenAccount, SettleTransfer,
     AddRow, Moves
<1>3. moves' \in 0..MaxMoves /\ JobOK(job')
  BY <1>1, <1>2
<1>4. chain = [f \in ChainFields |-> chain[f]] /\ DOMAIN chain = ChainFields
  BY <1>1 DEF ChainOK
<1>5. /\ ChainOK(chain') /\ RowsOK(rows') /\ replaced' \in BOOLEAN
      /\ replaced => replaced'
      /\ ~replaced' => chain'.pool = chain.pool
      /\ rows'.pool = rows.pool
      /\ \A m \in DOMAIN rows.decimals :
             m \in DOMAIN rows'.decimals /\ rows'.decimals[m] = rows.decimals[m]
  <2>1. CASE ReplacePool
    <3>1. PICK mint \in Pools : chain' = [chain EXCEPT !.pool = mint]
      BY <2>1 DEF ReplacePool
    <3>2. ChainOK(chain')
      BY <1>1, <1>4, <3>1 DEF ChainOK, ChainFields
    <3> QED
      BY <1>1, <2>1, <3>2 DEF ReplacePool
  <2>2. CASE ReplaceAccount
    <3>1. PICK account : chain' = [chain EXCEPT !.account = account, !.stats = TRUE]
      BY <2>2 DEF ReplaceAccount
    <3>2. ChainOK(chain')
      BY <1>1, <1>4, <3>1 DEF ChainOK, ChainFields
    <3> QED
      BY <1>1, <2>2, <3>2 DEF ReplaceAccount
  <2>3. CASE MakeTokenAccount
    <3>1. PICK a : chain' = [chain EXCEPT !.tokens = @ ++ [x \in {a} |-> 0]]
      BY <2>3 DEF MakeTokenAccount
    <3> DEFINE tokens == chain.tokens ++ [x \in {a} |-> 0]
    <3>2. tokens \in [DOMAIN tokens -> Nat]
      BY <1>1 DEF ChainOK, ++
    <3> HIDE DEF tokens
    <3>3. chain' = [chain EXCEPT !.tokens = tokens]
      BY <3>1 DEF tokens
    <3>4. ChainOK(chain') /\ chain'.pool = chain.pool
      BY <1>1, <1>4, <3>2, <3>3 DEF ChainOK, ChainFields
    <3> QED
      BY <1>1, <2>3, <3>4 DEF MakeTokenAccount
  <2>4. CASE EmptyTokenAccount
    <3>1. PICK a \in DOMAIN chain.tokens : chain' = [chain EXCEPT !.tokens[a] = 0]
      BY <2>4 DEF EmptyTokenAccount
    <3> DEFINE tokens == [chain.tokens EXCEPT ![a] = 0]
    <3>2. tokens \in [DOMAIN tokens -> Nat]
      BY <1>1 DEF ChainOK
    <3>3. chain' = [chain EXCEPT !.tokens = tokens]
      BY <3>1
    <3> HIDE DEF tokens
    <3>4. ChainOK(chain') /\ chain'.pool = chain.pool
      BY <1>1, <1>4, <3>2, <3>3 DEF ChainOK, ChainFields
    <3> QED
      BY <1>1, <2>4, <3>4 DEF EmptyTokenAccount
  <2>5. CASE SettleTransfer
    <3>1. chain' = [chain EXCEPT !.transfer = <<>>]
      BY <2>5 DEF SettleTransfer
    <3>2. ChainOK(chain') /\ chain'.pool = chain.pool
      BY <1>1, <1>4, <3>1 DEF ChainOK, ChainFields
    <3> QED
      BY <1>1, <2>5, <3>2 DEF SettleTransfer
  <2>6. CASE AddRow
    <3>1. chain.pool \in Mints /\ rows' = GetOrCreateToken(chain.pool)
      BY <1>1, <2>6 DEF AddRow, ChainOK, ConstantsAssumption
    <3>2. /\ RowsOK(rows') /\ rows'.pool = rows.pool
          /\ \A m \in DOMAIN rows.decimals :
                 m \in DOMAIN rows'.decimals /\ rows'.decimals[m] = rows.decimals[m]
      BY <1>1, <3>1, TokenRow
    <3> QED
      BY <1>1, <2>6, <3>2 DEF AddRow
  <2> QED
    BY <2>1, <2>2, <2>3, <2>4, <2>5, <2>6
<1>6. StageOK(job', chain', rows', replaced')
  BY <1>1, <1>2, <1>5, StageKept
<1> QED
  BY <1>3, <1>5, <1>6 DEF IInv

(* The invariant is one                                                    *)

\* The invariant holds at first.
LEMMA InitIInv ==
    ASSUME ConstantsAssumption, Init
    PROVE  IInv
<1>1. ChainOK(chain) /\ RowsOK(rows)
  BY DEF Init, ConstantsAssumption, ChainOK, RowsOK
<1>2. JobOK(job) /\ job.pc = "idle"
  BY DEF Init, JobOK, Idle
<1>3. moves = 0 /\ replaced = FALSE
  BY DEF Init
<1>4. MaxMoves \in Nat
  BY DEF ConstantsAssumption
<1>5. moves \in 0..MaxMoves
  BY <1>3, <1>4
<1>6. replaced \in BOOLEAN
  BY <1>3
<1> QED
  BY <1>1, <1>2, <1>5, <1>6 DEF IInv, StageOK

\* A step of the request being served, with what it leaves alone.
LEMMA ServingStep ==
    ASSUME IInv, UNCHANGED <<chain, moves, replaced>>, RowsOK(rows'),
           JobOK(job'), StageOK(job', chain, rows', replaced)
    PROVE  IInv'
  BY DEF IInv

\* Every step keeps it, those of requests and those of the world around them.
LEMMA NextIInv ==
    ASSUME ConstantsAssumption, IInv, [Next]_vars
    PROVE  IInv'
<1>1. ASSUME NEW request \in Requests, BeginBuild(request)
      PROVE  IInv'
  BY <1>1, BeginsBuild, ServingStep DEF BeginBuild, Serving, IInv
<1>2. ASSUME NEW request \in Requests, BeginTransfer(request)
      PROVE  IInv'
  BY <1>2, BeginsTransfer, ServingStep DEF BeginTransfer, Serving, IInv
<1>3. ASSUME NEW request \in Requests, BeginSettle(request)
      PROVE  IInv'
  BY <1>3, BeginsSettle, ServingStep DEF BeginSettle, Serving, IInv
<1>4. ASSUME NEW request \in Requests,
             CreateAccount(request) \/ ReadAccount(request) \/ ManageAccount(request)
      PROVE  IInv'
  BY <1>4, ManagesAccount, ServingStep
     DEF CreateAccount, ReadAccount, ManageAccount, Serving, IInv
<1>5. ASSUME NEW request \in Requests, Receive(request)
      PROVE  IInv'
  BY <1>5, Receives, ServingStep DEF Receive, Serving, IInv
<1>6. CASE ReadDestination
  BY <1>6, ReadsDestination, ServingStep DEF ReadDestination, Serving, IInv
<1>7. CASE ReadPoolAgain
  BY <1>7, ReadsPoolAgain, ServingStep DEF ReadPoolAgain, Serving, IInv
<1>8. CASE Assemble
  BY <1>8, Assembles, ServingStep DEF Assemble, Serving, IInv
<1>9. CASE ReadToken
  BY <1>9, ReadsToken, ServingStep DEF ReadToken, Serving
<1>10. CASE CreateTransfer
  BY <1>10, CreatesTransfer, ServingStep DEF CreateTransfer, Serving, IInv
<1>11. CASE PersistTransfer
  BY <1>11, PersistsTransfer, ServingStep DEF PersistTransfer, Serving
<1>12. CASE Settle
  BY <1>12, Settles, ServingStep DEF Settle, Serving, IInv
<1>13. CASE AnalyzeBuilt
  BY <1>13, Analyzes, ServingStep DEF AnalyzeBuilt, Serving, IInv
<1>14. CASE VerifyBuilt
  BY <1>14, Verifies, ServingStep DEF VerifyBuilt, Serving, IInv
<1>15. CASE Fail \/ Finish
  BY <1>15, FailsOrFinishes, ServingStep DEF Fail, Finish, IInv
<1>16. CASE \/ ReplacePool \/ ReplaceAccount \/ MakeTokenAccount \/ EmptyTokenAccount
            \/ SettleTransfer \/ AddRow
  BY <1>16, OthersMove
<1>17. CASE UNCHANGED vars
  BY <1>17 DEF IInv, vars
<1> QED
  BY <1>1, <1>2, <1>3, <1>4, <1>5, <1>6, <1>7, <1>8, <1>9, <1>10, <1>11, <1>12, <1>13, <1>14,
     <1>15, <1>16, <1>17 DEF Next

\* IInv is an invariant of Intents: whatever steps of the world come between those of a
\* request, what it has read, drafted and answered stays consistent with what it asked.
THEOREM AlwaysIInv == Spec => []IInv
<1>1. Init => IInv
  BY InitIInv, ConstantsAssumption
<1>2. IInv /\ [Next]_vars => IInv'
  BY NextIInv, ConstantsAssumption
<1> QED
  BY <1>1, <1>2, PTL DEF Spec

----------------------------------------------------------------------------
(* What the invariant says of answers                                      *)

\* The types follow from the invariant.
LEMMA TypeHolds ==
    ASSUME ConstantsAssumption, IInv
    PROVE  TypeOK
<1>1. DOMAIN chain = {"pool", "tokens", "sol", "account", "stats", "transfer"}
  BY DEF IInv, ChainOK, ChainFields
<1>2. chain.pool \in Pools /\ \A a \in DOMAIN chain.tokens : chain.tokens[a] \in Nat
  BY DEF IInv, ChainOK
<1>3. DOMAIN rows.decimals \subseteq Mints /\ rows.pool \in Mints \cup {"none"}
  BY DEF IInv, RowsOK
<1>4. /\ job.pc \in {"idle", "destination", "pool", "assemble", "token", "create", "persist",
                     "settle", "built", "answered", "failed"}
      /\ job.pc # "idle" => job.request \in Requests
      /\ job.units \in Nat
  BY DEF IInv, JobOK
<1>5. moves \in 0..MaxMoves
  BY DEF IInv
<1> QED
  BY <1>1, <1>2, <1>3, <1>4, <1>5 DEF TypeOK

\* TypeOK is an invariant: the state of the requests is always of its type.
THEOREM AlwaysTypeOK == Spec => []TypeOK
  BY AlwaysIInv, TypeHolds, ConstantsAssumption, PTL

\* What was answered for is a transaction.
LEMMA AnsweredTransaction ==
    ASSUME ConstantsAssumption, NEW j, NEW c, NEW r, NEW changed,
           JobOK(j), StageOK(j, c, r, changed), j.pc = "answered",
           j.request.kind \in {"build", "transfer", "analyze", "verify"}
    PROVE  IsTransaction(j.tx)
<1>1. j.request \in Requests /\ j.units \in Nat /\ IsRequest(j.request)
  BY DEF JobOK, ConstantsAssumption
<1>2. CASE j.request.kind = "build"
  <2>1. PICK ixs : Draft(j, changed, ixs) /\ j.tx.ixs = BuildInstructionList(ixs, TRUE)
    BY <1>2 DEF StageOK, BuildOK
  <2>2. Buildable(j.request)
    BY <1>2 DEF StageOK, BuildOK
  <2> QED
    BY <1>1, <1>2, <2>1, <2>2, DraftTransaction
<1>3. CASE j.request.kind = "transfer"
  <2>1. PICK m \in Mints : j.ixs = <<CreateTransferIx(PaymentOf(j), m)>>
    BY <1>3 DEF StageOK, TransferOK
  <2>2. j.tx.ixs = j.ixs
    BY <1>3 DEF StageOK, TransferOK
  <2>3. j.tx.ixs = <<CreateTransferIx(PaymentOf(j), m)>>
    BY <2>1, <2>2
  <2> QED
    BY <1>1, <1>3, <2>3, PaidTransaction
<1>4. CASE j.request.kind \in {"analyze", "verify"}
  <2>1. j.tx = j.request.tx
    BY <1>4 DEF StageOK, ReceivedOK
  <2>2. IsTransaction(j.request.tx)
    BY <1>1, <1>4 DEF IsRequest
  <2> QED
    BY <2>1, <2>2
<1> QED
  BY <1>2, <1>3, <1>4

\* A request answered by the analyzer had an intent.
LEMMA AnsweredIntent ==
    ASSUME ConstantsAssumption, NEW j, JobOK(j), j.pc = "answered",
           j.request.kind \in {"build", "analyze"}
    PROVE  IsIntent(j.request.intent)
<1>1. IsRequest(j.request)
  BY DEF JobOK, ConstantsAssumption
<1> QED
  BY <1>1 DEF IsRequest

\* A full match is an assignment, by what is known of answers.
LEMMA MatchHolds ==
    ASSUME ConstantsAssumption, IInv
    PROVE  MatchIsAssignment
<1> SUFFICES ASSUME job.pc = "answered", AnalyzedIntent(job.request), job.result.match = "full"
             PROVE  IsAssigned(job.request.intent, job.tx.ixs)
  BY DEF MatchIsAssignment
<1>1. /\ job.request.kind \in {"build", "analyze"} /\ JobOK(job)
      /\ StageOK(job, chain, rows, replaced) /\ AnswerOK(job)
  BY DEF AnalyzedIntent, IInv, StageOK
<1>2. PICK reads \in Reads : job.result.match = Matching(job.tx, job.request.intent, reads)
  BY <1>1 DEF AnswerOK
<1>3. IsTransaction(job.tx)
  BY <1>1, AnsweredTransaction
<1>4. IsIntent(job.request.intent)
  BY <1>1, AnsweredIntent
<1>5. VerifyIntent(AnalyzeTransaction(job.tx, FetchedMeta(job.tx, reads.second)),
                   job.request.intent).discrepancies = {}
  BY <1>2, FullIsSilent
<1> QED
  BY <1>3, <1>4, <1>5, MatchSound

\* MatchIsAssignment is an invariant: whenever a full match is answered, every action of
\* the intent has an instruction of its own, of its type and program, and under strict no
\* other that matters is left (the matcher of verify-intent, called by the endpoints).
THEOREM MatchAlwaysAssigns == Spec => []MatchIsAssignment
  BY AlwaysIInv, MatchHolds, ConstantsAssumption, PTL

\* An answer to proceed is about a payment that was asked for.
LEMMA ProceedHolds ==
    ASSUME ConstantsAssumption, IInv
    PROVE  ProceedIsIntended
<1> DEFINE transfers == {i \in DOMAIN job.tx.ixs :
                            job.tx.ixs[i].op \in {"transfer", "create_transfer"}}
<1> SUFFICES ASSUME job.pc = "answered", job.result.verdict = "proceed", job.metaRead,
                    IsAction(job.request.intent, "transfer"),
                    \A i \in transfers :
                        job.tx.ixs[i].program = "handshake" /\ ~job.tx.ixs[i].short
             PROVE  \E p \in PaidBy(job.tx) : Satisfies(p, Action(job.request))
  BY DEF ProceedIsIntended
<1>1. JobOK(job) /\ StageOK(job, chain, rows, replaced) /\ AnswerOK(job)
  BY DEF IInv, StageOK
<1>2. job.request.kind \in {"build", "analyze"}
  BY <1>1 DEF AnswerOK
<1>3. PICK reads \in Reads :
          /\ job.metaRead = (reads.first /\ reads.second)
          /\ \E c : job.result.verdict = Analyze(c, job.tx, job.request.intent, reads).verdict
  BY <1>1, <1>2 DEF AnswerOK
<1>4. PICK c : Analyze(c, job.tx, job.request.intent, reads).verdict = "proceed"
  BY <1>3
<1>5. IsTransaction(job.tx)
  BY <1>1, <1>2, AnsweredTransaction
<1>6. IsIntent(job.request.intent)
  BY <1>1, <1>2, AnsweredIntent
<1>7. reads.second
  BY <1>3 DEF Reads
<1>8. \A i \in DOMAIN job.tx.ixs : job.tx.ixs[i].op \in {"transfer", "create_transfer"} =>
          job.tx.ixs[i].program = "handshake" /\ ~job.tx.ixs[i].short
  OBVIOUS
<1>9. \E p \in PaidBy(job.tx) : Satisfies(p, job.request.intent.actions[1])
  BY <1>4, <1>5, <1>6, <1>7, <1>8, ProceedSound
<1> QED
  BY <1>9 DEF Action

\* ProceedIsIntended is an invariant: a transaction the analyzer tells the caller to
\* proceed with, and whose transfers are all Handshake's, makes the payment that the first
\* action of its intent asks for.
THEOREM ProceedAlwaysIntended == Spec => []ProceedIsIntended
  BY AlwaysIInv, ProceedHolds, ConstantsAssumption, PTL

\* What the SDK asks the verifier for has the fields it compares.
LEMMA AskedFields ==
    ASSUME NEW request, request.kind = "transfer"
    PROVE  {"sender", "recipient", "amount"} \subseteq DOMAIN AskedIntent(request)
<1> DEFINE base == [type |-> "create_transfer", sender |-> request.sender,
                    recipient |-> request.recipient, amount |-> request.amount,
                    memo |-> request.memo]
           more == IF request.by = "pool" THEN <<>> ELSE [tokenAddress |-> Key(request.by)]
<1>1. AskedIntent(request) = base ++ more
  BY DEF AskedIntent
<1>2. {"sender", "recipient", "amount"} \subseteq DOMAIN base
  OBVIOUS
<1> HIDE DEF base, more
<1>3. DOMAIN (base ++ more) = DOMAIN base \cup DOMAIN more
  BY Merged
<1> QED
  BY <1>1, <1>2, <1>3

\* A transaction that was verified does what was asked.
LEMMA VerifiedHolds ==
    ASSUME ConstantsAssumption, IInv
    PROVE  VerifiedDoesAsked
<1> DEFINE asked == AskedIntent(job.request)
           created == {i \in DOMAIN job.tx.ixs : job.tx.ixs[i].op = "create_transfer"}
           first == CHOOSE i \in created : \A j \in created : i <= j
<1> DEFINE Goal == /\ created # {}
                   /\ \A p \in Payments(job.tx.ixs[first]) :
                      /\ p.from = asked.sender
                      /\ p.to = asked.recipient
                      /\ Resolved(p) =>
                         /\ "tokenAddress" \in DOMAIN asked => Key(p.mint) = asked.tokenAddress
                         /\ WithinRelativeTolerance(ParseDecimal(asked.amount),
                                ParseDecimal(FormatUnits(p.units, UnitDecimals(p.mint))),
                                DefaultTolerance)
<1> SUFFICES ASSUME job.pc = "answered", job.result.match = "verified", job.metaRead,
                    job.request.kind \in {"transfer", "verify"}, asked.type = "create_transfer"
             PROVE  Goal
  BY DEF VerifiedDoesAsked
<1>1. JobOK(job) /\ StageOK(job, chain, rows, replaced) /\ AnswerOK(job)
  BY DEF IInv, StageOK
<1>2. PICK rpcUp \in BOOLEAN :
          /\ job.metaRead = rpcUp
          /\ VerifyInstruction(AnalyzeTransaction(job.tx, FetchedMeta(job.tx, rpcUp)),
                               asked).verified
  BY <1>1 DEF AnswerOK
<1>3. rpcUp = TRUE
  BY <1>2
<1>4. VerifyInstruction(AnalyzeTransaction(job.tx, FetchedMeta(job.tx, TRUE)), asked).verified
  BY <1>2, <1>3
<1>5. IsTransaction(job.tx)
  BY <1>1, AnsweredTransaction
<1>6. {"sender", "recipient", "amount"} \subseteq DOMAIN asked
  <2>1. CASE job.request.kind = "transfer"
    BY <2>1, AskedFields
  <2>2. CASE job.request.kind = "verify"
    <3>1. IsRequest(job.request)
      BY <1>1 DEF JobOK, ConstantsAssumption
    <3>2. asked = job.request.intent
      BY <2>2 DEF AskedIntent
    <3> QED
      BY <2>2, <3>1, <3>2 DEF IsRequest
  <2> QED
    BY <2>1, <2>2
<1>7. asked.type = "create_transfer"
  OBVIOUS
<1> HIDE DEF asked
<1> QED
  BY <1>4, <1>5, <1>6, <1>7, VerifiedSound

\* VerifiedDoesAsked is an invariant: a transaction the SDK's verifier accepted for a
\* transfer, built here or received from elsewhere, pays first what was asked: its sender,
\* its recipient, its mint and, to the tolerance, its amount.
THEOREM VerifiedAlwaysDoesAsked == Spec => []VerifiedDoesAsked
  BY AlwaysIInv, VerifiedHolds, ConstantsAssumption, PTL

----------------------------------------------------------------------------
(* What a built transaction pays                                           *)

\* Powers of ten multiply as their exponents add.
LEMMA PowersMultiply ==
    \A m, n \in Nat : PowerOf10[m + n] = PowerOf10[m] * PowerOf10[n]
<1> DEFINE T == {m \in Nat : \A n \in Nat : PowerOf10[m + n] = PowerOf10[m] * PowerOf10[n]}
<1>1. 0 \in T
  <2>1. ASSUME NEW n \in Nat
        PROVE  PowerOf10[0 + n] = PowerOf10[0] * PowerOf10[n]
    <3>1. 0 + n = n /\ PowerOf10[n] \in Nat /\ PowerOf10[0] = 1
      BY PowersOf10
    <3> QED
      BY <3>1
  <2> QED
    BY <2>1
<1>2. ASSUME NEW m \in T
      PROVE  m + 1 \in T
  <2>1. ASSUME NEW n \in Nat
        PROVE  PowerOf10[(m + 1) + n] = PowerOf10[m + 1] * PowerOf10[n]
    <3> DEFINE a == PowerOf10[m]  b == PowerOf10[n]
    <3>1. a \in Nat /\ b \in Nat /\ PowerOf10[m + n] = a * b
      BY PowersOf10
    <3>2. (m + 1) + n = (m + n) + 1 /\ m + n \in Nat
      OBVIOUS
    <3>3. PowerOf10[(m + n) + 1] = 10 * PowerOf10[m + n]
      BY <3>2, PowersOf10
    <3>4. PowerOf10[m + 1] = 10 * a
      BY PowersOf10
    <3>5. 10 * (a * b) = (10 * a) * b
      <4> HIDE DEF a, b
      <4> QED
        BY <3>1
    <3> QED
      BY <3>1, <3>2, <3>3, <3>4, <3>5
  <2> QED
    BY <2>1
<1>3. T = Nat
  <2>1. T \in SUBSET Nat /\ \A n \in T : n + 1 \in T
    BY <1>2
  <2> HIDE DEF T
  <2> QED
    BY <1>1, <2>1, Induction
<1> QED
  BY <1>3

\* Base units are the amount.
LEMMA UnitsExact ==
    ASSUME NEW amount, amount.digits \in Nat, NEW decimals \in Nat, amount.frac \in 0..decimals
    PROVE  ToBaseUnits(amount, decimals) * PowerOf10[amount.frac]
           = amount.digits * PowerOf10[decimals]
<1> DEFINE d == amount.digits
           f == amount.frac
           a == PowerOf10[decimals - f]
           b == PowerOf10[f]
<1>1. f \in Nat /\ decimals - f \in Nat /\ (decimals - f) + f = decimals
  OBVIOUS
<1>2. PowerOf10[decimals] = a * b /\ a \in Nat /\ b \in Nat
  <2>1. PowerOf10[(decimals - f) + f] = PowerOf10[decimals - f] * PowerOf10[f]
    BY <1>1, PowersMultiply
  <2> QED
    BY <1>1, <2>1, PowersOf10
<1>3. (d * a) * b = d * (a * b)
  <2>1. d \in Nat
    OBVIOUS
  <2> HIDE DEF a, b, d
  <2> QED
    BY <1>2, <2>1
<1> QED
  BY <1>2, <1>3 DEF ToBaseUnits

\* Only the i-th instruction of a list pays, and which it is.
OnlyPays(list, i, ix) ==
    /\ i \in DOMAIN list /\ list[i] = ix
    /\ Payments(ix) # {}
    /\ \A l \in DOMAIN list : l # i => Payments(list[l]) = {}

\* No instruction of the list is the budget's.
NoBudget(ixs) == \A l \in 1..Len(ixs) : ixs[l].program # "budget"

\* Putting the budget's instructions first moves the paying one two places on.
LEMMA PaysOnce ==
    ASSUME NEW E, NEW ixs \in Seq(E), NoBudget(ixs), NEW k \in Nat, NEW ix, OnlyPays(ixs, k, ix)
    PROVE  OnlyPays(BuildInstructionList(ixs, TRUE), k + 2, ix)
<1> DEFINE list == BuildInstructionList(ixs, TRUE)
<1>1. list = <<Price>> \o <<Limit>> \o ixs
  BY AllKept DEF NoBudget
<1> HIDE DEF list
<1>2. /\ Len(list) = Len(ixs) + 2 /\ Len(ixs) \in Nat
      /\ DOMAIN list = 1..Len(list)
      /\ list[1] = Price /\ list[2] = Limit
      /\ \A i \in 3..Len(list) : i - 2 \in 1..Len(ixs) /\ list[i] = ixs[i - 2]
  BY <1>1, BudgetFirst
<1>3. Payments(list[1]) = {} /\ Payments(list[2]) = {}
  <2>1. ASSUME NEW other, other.program = "budget"
        PROVE  Payments(other) = {}
    BY <2>1 DEF Payments
  <2> QED
    BY <1>2, <2>1, BudgetIxs
<1> DEFINE n == Len(ixs)
           size == Len(list)
<1>4. n \in Nat /\ size = n + 2 /\ DOMAIN list = 1..size
  BY <1>2
<1>5. \A i \in 3..size : i - 2 \in 1..n /\ list[i] = ixs[i - 2]
  BY <1>2
<1>6. k \in 1..n /\ k \in Nat /\ ixs[k] = ix /\ Payments(ix) # {}
  BY LenProperties DEF OnlyPays
<1>7. \A l \in 1..n : l # k => Payments(ixs[l]) = {}
  BY LenProperties DEF OnlyPays
<1> HIDE DEF n, size
<1>8. k + 2 \in 3..size /\ (k + 2) - 2 = k /\ k + 2 \in 1..size
  BY <1>4, <1>6
<1>9. list[k + 2] = ixs[k] /\ k + 2 \in DOMAIN list
  BY <1>4, <1>5, <1>8
<1>10. ASSUME NEW i \in 1..size, i # k + 2
       PROVE  Payments(list[i]) = {}
  <2>1. CASE i \in {1, 2}
    BY <1>3, <2>1
  <2>2. CASE i \in 3..size
    <3>1. i - 2 \in 1..n /\ list[i] = ixs[i - 2]
      BY <1>5, <2>2
    <3>2. i - 2 # k
      BY <1>6, <1>10, <2>2
    <3> QED
      BY <1>7, <3>1, <3>2
  <2>3. i \in {1, 2} \/ i \in 3..size
    BY <1>4
  <2> QED
    BY <2>1, <2>2, <2>3
<1>11. OnlyPays(list, k + 2, ix)
  BY <1>4, <1>6, <1>9, <1>10 DEF OnlyPays
<1> QED
  BY <1>11 DEF list

\* The token account of a wallet is the wallet's, in the mint it is for.
LEMMA OwnerOf ==
    ASSUME NEW w \in Wallets, NEW mint
    PROVE  /\ Ata(mint, w).mint = mint
           /\ Owner(Ata(mint, w)) = w
  BY WalletResolves DEF Ata, Owner

\* The payment of each builder's instruction.
LEMMA SolPayment ==
    ASSUME NEW action, action.from \in Wallets, NEW ix, ix = SolTransferIx(action)
    PROVE  Payments(ix) = {[mint |-> "lamports", from |-> action.from, to |-> action.to,
                            units |-> ToBaseUnits(action.amount.eq, SolDecimals)]}
  BY SolIx DEF Payments

\* The transfer of a token moves the base units of the amount between the two wallets.
LEMMA TokenPayment ==
    ASSUME NEW action, action.from \in Wallets, action.to \in Wallets, NEW mint, NEW ix,
           ix = TokenIx(action, mint)
    PROVE  Payments(ix) = {[mint |-> mint, from |-> action.from, to |-> action.to,
                            units |-> ToBaseUnits(action.amount.eq, TrueDecimals[mint])]}
<1>1. /\ ix.program = "token" /\ ix.op = "transfer" /\ ~ix.short
      /\ ix.accounts[1] = Ata(mint, action.from) /\ ix.accounts[2] = Ata(mint, action.to)
      /\ ix.accounts[3] = action.from
      /\ ix.args.amount = ToBaseUnits(action.amount.eq, TrueDecimals[mint])
  BY TokenIxFields
<1>2. /\ ix.accounts[1].mint = mint /\ Owner(ix.accounts[2]) = action.to
  BY <1>1, OwnerOf
<1>3. Payments(ix) = {[mint |-> ix.accounts[1].mint, from |-> ix.accounts[3],
                       to |-> Owner(ix.accounts[2]), units |-> ix.args.amount]}
  BY <1>1 DEF Payments
<1> QED
  BY <1>1, <1>2, <1>3

\* Paying into the pool moves the units of the payment.
LEMMA CreatePayment ==
    ASSUME NEW t, t.sender \in Wallets, t.amount \in Nat, NEW m \in Mints,
           NEW ix, ix = CreateTransferIx(t, m)
    PROVE  Payments(ix) = {[mint |-> m, from |-> t.sender, to |-> t.recipient,
                            units |-> t.amount]}
<1>1. /\ IsIx(ix) /\ ix.program = "handshake" /\ ix.op = "create_transfer" /\ ~ix.short
      /\ ix.accounts[1] = t.sender /\ ix.accounts[3] = Key(m)
      /\ ix.args = [recipient |-> t.recipient, amount |-> t.amount, memo |-> t.memo]
  BY CreateIx
<1>2. Payments(ix) = {[mint |-> ix.accounts[3].name[1], from |-> ix.accounts[1],
                       to |-> ix.args.recipient, units |-> ix.args.amount]}
  BY <1>1, CreationPayments DEF IsIx
<1>3. Key(m).name[1] = m
  BY DEF Key
<1> QED
  BY <1>1, <1>2, <1>3

\* In a transaction of one drafted instruction only that one pays.
LEMMA OneInstruction ==
    ASSUME NEW ix, IsIx(ix), ix.program # "budget", Payments(ix) # {},
           NEW tx, tx.ixs = BuildInstructionList(<<ix>>, TRUE)
    PROVE  OnlyPays(tx.ixs, 3, ix)
<1> DEFINE ixs == <<ix>>
<1>1. ixs \in Seq({ix}) /\ Len(ixs) = 1 /\ ixs[1] = ix
  BY SingleIx
<1>2. tx.ixs = BuildInstructionList(ixs, TRUE)
  OBVIOUS
<1> HIDE DEF ixs
<1>3. DOMAIN ixs = 1..1
  BY <1>1, LenProperties
<1>4. NoBudget(ixs) /\ OnlyPays(ixs, 1, ix)
  BY <1>1, <1>3 DEF NoBudget, OnlyPays
<1>5. PICK k \in Nat : k = 1
  OBVIOUS
<1>6. OnlyPays(BuildInstructionList(ixs, TRUE), k + 2, ix)
  BY <1>1, <1>4, <1>5, PaysOnce
<1>7. k + 2 = 3
  BY <1>5
<1> QED
  BY <1>2, <1>6, <1>7

\* In one that makes the recipient's account first, only the second one pays.
LEMMA TwoInstructions ==
    ASSUME NEW a, IsIx(a), a.program = "ata",
           NEW ix, IsIx(ix), ix.program # "budget", Payments(ix) # {},
           NEW tx, tx.ixs = BuildInstructionList(<<a, ix>>, TRUE)
    PROVE  OnlyPays(tx.ixs, 4, ix)
<1> DEFINE ixs == <<a, ix>>
<1>1. ixs \in Seq({a, ix}) /\ Len(ixs) = 2 /\ ixs[1] = a /\ ixs[2] = ix
  BY DoubleIx
<1>2. tx.ixs = BuildInstructionList(ixs, TRUE)
  OBVIOUS
<1> HIDE DEF ixs
<1>3. DOMAIN ixs = 1..2 /\ Payments(a) = {}
  BY <1>1, LenProperties DEF Payments
<1>4. \A l \in 1..2 : l = 1 \/ l = 2
  OBVIOUS
<1>5. NoBudget(ixs) /\ OnlyPays(ixs, 2, ix)
  BY <1>1, <1>3, <1>4 DEF NoBudget, OnlyPays
<1>6. PICK k \in Nat : k = 2
  OBVIOUS
<1>7. OnlyPays(BuildInstructionList(ixs, TRUE), k + 2, ix)
  BY <1>1, <1>5, <1>6, PaysOnce
<1>8. k + 2 = 4
  BY <1>6
<1> QED
  BY <1>2, <1>7, <1>8

\* A payment of the base units of the amount is the payment the action asks for.
LEMMA AmountAsked ==
    ASSUME NEW request, request.kind = "build", NEW p, NEW decimals \in Nat,
           p.from = Action(request).from, p.to = Action(request).to,
           p.mint = AskedMint(request), UnitDecimals(p.mint) = decimals,
           Action(request).amount.eq.digits \in Nat,
           Action(request).amount.eq.frac \in 0..decimals,
           p.units = ToBaseUnits(Action(request).amount.eq, decimals)
    PROVE  PaysAsAsked(p, request)
<1>1. ToBaseUnits(Action(request).amount.eq, decimals) * PowerOf10[Action(request).amount.eq.frac]
      = Action(request).amount.eq.digits * PowerOf10[decimals]
  BY UnitsExact
<1> QED
  BY <1>1 DEF PaysAsAsked

\* The decimals payments are told in.
LEMMA UnitsOf ==
    /\ SolDecimals \in Nat /\ UnitDecimals("lamports") = SolDecimals
    /\ \A m \in Mints : TrueDecimals[m] \in Nat /\ UnitDecimals(m) = TrueDecimals[m]
<1>1. \A m \in Mints : m # "lamports"
  BY DEF Mints
<1> QED
  BY <1>1, MintDecimals DEF UnitDecimals, SolDecimals

\* The three ways a transfer is built, and the third only if the pool was kept.
LEMMA TransferDrafts ==
    ASSUME ConstantsAssumption, NEW j, j.request \in Requests, j.request.kind = "build",
           Buildable(j.request), Action(j.request).action = "transfer", j.units \in Nat,
           NEW ixs, Draft(j, FALSE, ixs)
    PROVE  LET action == Action(j.request)
               mint == MintOf(j.request)
               eq == action.amount.eq
           IN  /\ action.from \in Wallets /\ action.to \in Wallets
               /\ eq.digits \in Nat
               /\ \/ /\ PaysSol(j.request) /\ ixs = <<SolTransferIx(action)>>
                     /\ eq.frac \in 0..SolDecimals
                  \/ /\ PaysToken(j.request)
                     /\ \/ ixs = <<TokenIx(action, mint)>>
                        \/ ixs = <<AtaIx(action, mint), TokenIx(action, mint)>>
                     /\ eq.frac \in 0..TrueDecimals[mint]
                  \/ /\ PaysPool(j) /\ ixs = HandshakeIxs(action, j.units, j.mint)
                     /\ eq.frac \in 0..TrueDecimals[j.mint]
<1> DEFINE action == Action(j.request)
           mint == MintOf(j.request)
           eq == action.amount.eq
<1>1. /\ Builder(j.request) # "jupiter"
      /\ action.from \in Wallets /\ action.to \in Wallets
  BY BuildRequest
<1>2. \/ PaysSol(j.request) /\ ixs = <<SolTransferIx(action)>>
      \/ /\ PaysToken(j.request)
         /\ \E has \in BOOLEAN : ixs = TokenTransferIxs(action, mint, has)
      \/ PaysPool(j) /\ ixs = HandshakeIxs(action, j.units, j.mint)
  BY <1>1 DEF Draft, Swaps
<1>3. CASE PaysSol(j.request) /\ ixs = <<SolTransferIx(action)>>
  <2>1. eq.digits \in Nat /\ eq.frac \in 0..SolDecimals
    BY <1>1, <1>3, PoolUnits, UnitsOf DEF PaysSol
  <2> QED
    BY <1>1, <1>3, <2>1
<1>4. CASE PaysToken(j.request) /\ \E has \in BOOLEAN : ixs = TokenTransferIxs(action, mint, has)
  <2>1. eq.digits \in Nat /\ eq.frac \in 0..TrueDecimals[mint]
    <3>1. mint \in Mints /\ TrueDecimals[mint] \in Nat
      BY <1>4, UnitsOf DEF PaysToken
    <3> QED
      BY <1>1, <1>4, <3>1, PoolUnits DEF PaysToken
  <2>2. \/ ixs = <<TokenIx(action, mint)>>
        \/ ixs = <<AtaIx(action, mint), TokenIx(action, mint)>>
    BY <1>4, TokenIxs
  <2> QED
    BY <1>1, <1>4, <2>1, <2>2
<1>5. CASE PaysPool(j) /\ ixs = HandshakeIxs(action, j.units, j.mint)
  <2>1. eq.digits \in Nat /\ eq.frac \in 0..TrueDecimals[j.mint]
    <3>1. j.mint \in Mints /\ TrueDecimals[j.mint] \in Nat
      BY <1>5, UnitsOf DEF PaysPool
    <3> QED
      BY <1>1, <1>5, <3>1, PoolUnits DEF PaysPool
  <2> QED
    BY <1>1, <1>5, <2>1
<1> QED
  BY <1>2, <1>3, <1>4, <1>5

\* The instruction of the handshake builder.
LEMMA PoolIx ==
    ASSUME NEW action, action.from \in Wallets, NEW units \in Nat, NEW m \in Mints
    PROVE  \E ix, memo :
              /\ HandshakeIxs(action, units, m) = <<ix>>
              /\ IsIx(ix) /\ ix.program = "handshake" /\ ix.op = "create_transfer" /\ ~ix.short
              /\ ix.accounts[1] = action.from /\ ix.accounts[3] = Key(m)
              /\ ix.args = [recipient |-> action.to, amount |-> units, memo |-> memo]
              /\ "memo" \in DOMAIN action => memo = action.memo
              /\ Payments(ix) = {[mint |-> m, from |-> action.from, to |-> action.to,
                                  units |-> units]}
<1> DEFINE memo == IF "memo" \in DOMAIN action THEN action.memo ELSE ""
           t == [sender |-> action.from, recipient |-> action.to,
                 pda |-> TransferPda(action.from, action.to, "n"), amount |-> units,
                 memo |-> memo]
           ix == CreateTransferIx(t, m)
<1>1. HandshakeIxs(action, units, m) = <<ix>>
  BY DEF HandshakeIxs
<1>2. /\ t.sender = action.from /\ t.recipient = action.to /\ t.amount = units /\ t.memo = memo
      /\ t.sender \in Wallets /\ t.amount \in Nat
  OBVIOUS
<1>3. "memo" \in DOMAIN action => memo = action.memo
  OBVIOUS
<1> HIDE DEF t, ix, memo
<1>4. ix = CreateTransferIx(t, m)
  BY DEF ix
<1>5. /\ IsIx(ix) /\ ix.program = "handshake" /\ ix.op = "create_transfer" /\ ~ix.short
      /\ ix.accounts[1] = t.sender /\ ix.accounts[3] = Key(m)
      /\ ix.args = [recipient |-> t.recipient, amount |-> t.amount, memo |-> t.memo]
  BY <1>2, <1>4, CreateIx
<1>6. Payments(ix) = {[mint |-> m, from |-> t.sender, to |-> t.recipient, units |-> t.amount]}
  BY <1>2, <1>4, CreatePayment
<1> QED
  BY <1>1, <1>2, <1>3, <1>5, <1>6

\* What is assembled from the draft of a transfer has exactly one instruction that pays,
\* and pays what was asked.
LEMMA BuiltPays ==
    ASSUME ConstantsAssumption, NEW j, j.request \in Requests, j.request.kind = "build",
           Buildable(j.request), Action(j.request).action = "transfer", j.units \in Nat,
           Builder(j.request) = "handshake" => PoolKept(j.mint, chain, FALSE),
           NEW ixs, Draft(j, FALSE, ixs), j.tx.ixs = BuildInstructionList(ixs, TRUE)
    PROVE  \E i, ix : /\ OnlyPays(j.tx.ixs, i, ix)
                      /\ \A p \in Payments(ix) : PaysAsAsked(p, j.request)
<1> DEFINE action == Action(j.request)
           mint == MintOf(j.request)
           eq == action.amount.eq
<1>1. /\ action.from \in Wallets /\ action.to \in Wallets
      /\ eq.digits \in Nat
      /\ \/ /\ PaysSol(j.request) /\ ixs = <<SolTransferIx(action)>>
            /\ eq.frac \in 0..SolDecimals
         \/ /\ PaysToken(j.request)
            /\ \/ ixs = <<TokenIx(action, mint)>>
               \/ ixs = <<AtaIx(action, mint), TokenIx(action, mint)>>
            /\ eq.frac \in 0..TrueDecimals[mint]
         \/ /\ PaysPool(j) /\ ixs = HandshakeIxs(action, j.units, j.mint)
            /\ eq.frac \in 0..TrueDecimals[j.mint]
  BY TransferDrafts
<1>2. CASE PaysSol(j.request) /\ ixs = <<SolTransferIx(action)>> /\ eq.frac \in 0..SolDecimals
  <2> DEFINE p == [mint |-> "lamports", from |-> action.from, to |-> action.to,
                   units |-> ToBaseUnits(eq, SolDecimals)]
  <2>1. PICK ix : ix = SolTransferIx(action)
    OBVIOUS
  <2>2. IsIx(ix) /\ ix.program # "budget" /\ Payments(ix) = {p}
    BY <1>1, <2>1, SolIx, SolPayment
  <2>3. OnlyPays(j.tx.ixs, 3, ix)
    <3>1. j.tx.ixs = BuildInstructionList(<<ix>>, TRUE)
      BY <1>2, <2>1
    <3> HIDE DEF p
    <3> QED
      BY <2>2, <3>1, OneInstruction
  <2>4. PaysAsAsked(p, j.request)
    <3>1. AskedMint(j.request) = "lamports"
      BY <1>2 DEF PaysSol, AskedMint, Builder, MintOf
    <3>2. /\ p.from = action.from /\ p.to = action.to /\ p.mint = "lamports"
          /\ p.units = ToBaseUnits(eq, SolDecimals)
      OBVIOUS
    <3> HIDE DEF p
    <3>3. SolDecimals \in Nat /\ UnitDecimals(p.mint) = SolDecimals
      BY <3>2, UnitsOf
    <3> QED
      BY <1>1, <1>2, <3>1, <3>2, <3>3, AmountAsked
  <2> HIDE DEF p
  <2> QED
    BY <2>2, <2>3, <2>4
<1>3. CASE /\ PaysToken(j.request)
           /\ \/ ixs = <<TokenIx(action, mint)>>
              \/ ixs = <<AtaIx(action, mint), TokenIx(action, mint)>>
           /\ eq.frac \in 0..TrueDecimals[mint]
  <2> DEFINE p == [mint |-> mint, from |-> action.from, to |-> action.to,
                   units |-> ToBaseUnits(eq, TrueDecimals[mint])]
  <2>1. PICK ix, a : ix = TokenIx(action, mint) /\ a = AtaIx(action, mint)
    OBVIOUS
  <2>2. /\ IsIx(ix) /\ ix.program # "budget" /\ Payments(ix) = {p}
        /\ IsIx(a) /\ a.program = "ata"
    <3>1. ix.program = "token"
      BY <2>1, TokenIxFields
    <3>2. Payments(ix) = {p}
      BY <1>1, <2>1, TokenPayment
    <3>3. IsIx(ix) /\ IsIx(a) /\ a.program = "ata"
      BY <2>1, TokenIxs
    <3> QED
      BY <3>1, <3>2, <3>3
  <2>3. \E i : OnlyPays(j.tx.ixs, i, ix)
    <3>1. \/ j.tx.ixs = BuildInstructionList(<<ix>>, TRUE)
          \/ j.tx.ixs = BuildInstructionList(<<a, ix>>, TRUE)
      BY <1>3, <2>1
    <3> HIDE DEF p
    <3> QED
      BY <2>2, <3>1, OneInstruction, TwoInstructions
  <2>4. PaysAsAsked(p, j.request)
    <3>1. /\ mint \in Mints /\ AskedMint(j.request) = mint
      BY <1>3, MintDecimals DEF PaysToken, AskedMint, Builder, MintOf
    <3>2. /\ p.from = action.from /\ p.to = action.to /\ p.mint = mint
          /\ p.units = ToBaseUnits(eq, TrueDecimals[mint])
      OBVIOUS
    <3> HIDE DEF p
    <3>3. TrueDecimals[mint] \in Nat /\ UnitDecimals(p.mint) = TrueDecimals[mint]
      BY <3>1, <3>2, UnitsOf
    <3> QED
      BY <1>1, <1>3, <3>1, <3>2, <3>3, AmountAsked
  <2> HIDE DEF p
  <2> QED
    BY <2>2, <2>3, <2>4
<1>4. CASE /\ PaysPool(j) /\ ixs = HandshakeIxs(action, j.units, j.mint)
           /\ eq.frac \in 0..TrueDecimals[j.mint]
  <2> DEFINE p == [mint |-> j.mint, from |-> action.from, to |-> action.to, units |-> j.units]
  <2>1. j.mint \in Mints
    BY <1>4 DEF PaysPool
  <2>2. PICK ix : /\ ixs = <<ix>> /\ IsIx(ix) /\ ix.program = "handshake"
                  /\ Payments(ix) = {p}
    <3>1. \E ix, memo :
              /\ HandshakeIxs(action, j.units, j.mint) = <<ix>>
              /\ IsIx(ix) /\ ix.program = "handshake" /\ ix.op = "create_transfer" /\ ~ix.short
              /\ ix.accounts[1] = action.from /\ ix.accounts[3] = Key(j.mint)
              /\ ix.args = [recipient |-> action.to, amount |-> j.units, memo |-> memo]
              /\ "memo" \in DOMAIN action => memo = action.memo
              /\ Payments(ix) = {[mint |-> j.mint, from |-> action.from, to |-> action.to,
                                  units |-> j.units]}
      BY <1>1, <2>1, PoolIx
    <3> QED
      BY <1>4, <3>1
  <2>3. OnlyPays(j.tx.ixs, 3, ix)
    <3>1. j.tx.ixs = BuildInstructionList(<<ix>>, TRUE)
      BY <2>2
    <3> HIDE DEF p
    <3> QED
      BY <2>2, <3>1, OneInstruction
  <2>4. PaysAsAsked(p, j.request)
    <3>1. AskedMint(j.request) = j.mint
      BY <1>4 DEF PaysPool, AskedMint, Builder, PoolKept
    <3>2. /\ p.from = action.from /\ p.to = action.to /\ p.mint = j.mint
          /\ p.units = ToBaseUnits(eq, TrueDecimals[j.mint])
      BY <1>4 DEF PaysPool
    <3> HIDE DEF p
    <3>3. TrueDecimals[j.mint] \in Nat /\ UnitDecimals(p.mint) = TrueDecimals[j.mint]
      BY <2>1, <3>2, UnitsOf
    <3> QED
      BY <1>1, <1>4, <3>1, <3>2, <3>3, AmountAsked
  <2> HIDE DEF p
  <2> QED
    BY <2>2, <2>3, <2>4
<1> QED
  BY <1>1, <1>2, <1>3, <1>4

\* A transaction of the transfer endpoint.
LEMMA EndpointPays ==
    ASSUME ConstantsAssumption, NEW j, j.request \in Requests, j.request.kind = "transfer",
           j.units \in Nat, TransferOK(j, chain, rows, FALSE), RowsOK(rows),
           j.pc \in {"built", "answered"}, rows.pool = chain.pool
    PROVE  \E i, ix : /\ OnlyPays(j.tx.ixs, i, ix)
                      /\ \A p \in Payments(ix) : PaysAsAsked(p, j.request)
<1>1. PICK m \in Mints : m = j.mint /\ j.ixs = <<CreateTransferIx(PaymentOf(j), m)>>
  BY DEF TransferOK
<1>2. PICK ix : ix = CreateTransferIx(PaymentOf(j), m)
  OBVIOUS
<1>3. j.tx.ixs = <<ix>>
  BY <1>1, <1>2 DEF TransferOK
<1> DEFINE t == PaymentOf(j)
           p == [mint |-> m, from |-> t.sender, to |-> t.recipient, units |-> t.amount]
<1>4. /\ t.sender = j.request.sender /\ t.recipient = j.request.recipient /\ t.amount = j.units
  BY DEF PaymentOf
<1>5. /\ j.request.sender \in Wallets
      /\ j.request.amount \in [digits : Int, frac : Nat]
  BY DEF ConstantsAssumption, IsRequest
<1>6. Payments(ix) = {p}
  BY <1>2, <1>4, <1>5, CreatePayment
<1>7. OnlyPays(j.tx.ixs, 1, ix)
  <2>1. <<ix>>[1] = ix /\ DOMAIN <<ix>> = {1}
    OBVIOUS
  <2> HIDE DEF p
  <2> QED
    BY <1>3, <1>6, <2>1 DEF OnlyPays
<1>8. /\ p.from = j.request.sender /\ p.to = j.request.recipient /\ p.mint = m
      /\ p.units = j.units
  BY <1>4
<1>9. AskedMint(j.request) = m
  BY <1>1 DEF TransferOK, PoolKept, AskedMint
<1>10. ASSUME rows.decimals[m] = TrueDecimals[m]
       PROVE  About(j.units, j.request.amount, m)
  <2>1. TrueDecimals[m] \in Nat /\ UnitDecimals(m) = TrueDecimals[m]
    BY UnitsOf
  <2>2. j.units \in AmountRaw(j.request.amount, TrueDecimals[m])
    BY <1>1, <1>10 DEF TransferOK
  <2>3. j.request.amount.digits > 0
    BY DEF TransferOK
  <2>4. LET asked == j.request.amount.digits * PowerOf10[TrueDecimals[m]]
            made == j.units * PowerOf10[j.request.amount.frac]
        IN  asked - 2 * PowerOf10[j.request.amount.frac] < made /\ made <= asked
    BY <1>5, <2>1, <2>2, <2>3, RawUnits
  <2> QED
    BY <2>1, <2>4 DEF About
<1>11. PaysAsAsked(p, j.request)
  <2> HIDE DEF p
  <2> QED
    BY <1>8, <1>9, <1>10 DEF PaysAsAsked
<1> HIDE DEF p
<1> QED
  BY <1>6, <1>7, <1>11

\* If only one instruction pays, it is the one.
LEMMA PayingOne ==
    ASSUME NEW list, NEW i, NEW ix, OnlyPays(list, i, ix)
    PROVE  i \in DOMAIN list /\ {l \in DOMAIN list : Payments(list[l]) # {}} = {i}
  BY DEF OnlyPays

\* Every instruction of a draft that is none of the budget program is in the list.
LEMMA ListKeeps ==
    ASSUME NEW E, NEW ixs \in Seq(E), NEW k \in 1..Len(ixs), ixs[k].program # "budget"
    PROVE  \E i \in DOMAIN BuildInstructionList(ixs, TRUE) :
               BuildInstructionList(ixs, TRUE)[i] = ixs[k]
<1>1. PICK others : /\ Keeps(others, ixs, Len(ixs))
                    /\ BuildInstructionList(ixs, TRUE) = <<Price>> \o <<Limit>> \o others
  BY InstructionList
<1>2. others \in Seq(Elements(ixs)) /\ \E x \in 1..Len(others) : others[x] = ixs[k]
  BY <1>1 DEF Keeps
<1>3. PICK x \in 1..Len(others) : others[x] = ixs[k]
  BY <1>2
<1> DEFINE list == BuildInstructionList(ixs, TRUE)
<1> HIDE DEF list
<1>4. list = <<Price>> \o <<Limit>> \o others
  BY <1>1 DEF list
<1>5. /\ Len(list) = Len(others) + 2 /\ Len(others) \in Nat
      /\ DOMAIN list = 1..Len(list)
      /\ \A l \in 3..Len(list) : list[l] = others[l - 2]
  BY <1>2, <1>4, BudgetFirst
<1>6. PICK l : l = x + 2
  OBVIOUS
<1>7. l \in 3..Len(list) /\ l - 2 = x /\ l \in 1..Len(list)
  BY <1>5, <1>6
<1>8. l \in DOMAIN list /\ list[l] = ixs[k]
  BY <1>3, <1>5, <1>7
<1> QED
  BY <1>8 DEF list

\* Swaps are built on mainnet only.
LEMMA SwapNetwork ==
    ASSUME NEW intent, Swappable(intent)
    PROVE  intent.network = "mainnet"
  BY DEF Swappable

\* The program the answer names is called by a draft.
LEMMA DraftCalls ==
    ASSUME ConstantsAssumption, NEW j, j.request \in Requests, j.request.kind = "build",
           Buildable(j.request), j.units \in Nat, Field(j.request.intent, "program") = "none",
           NEW changed, NEW ixs, Draft(j, changed, ixs)
    PROVE  \E k \in 1..Len(ixs) :
               /\ ixs[k].program = MetadataProgram(j.request.intent, Builder(j.request))
               /\ ixs[k].program # "budget"
<1> DEFINE action == Action(j.request)
           mint == MintOf(j.request)
           network == j.request.intent.network
           builder == Builder(j.request)
           called == MetadataProgram(j.request.intent, builder)
<1>1. /\ network \in {"mainnet", "devnet"}
      /\ j.request.intent.actions[1] = action
      /\ builder # "jupiter" => action.from \in Wallets /\ action.to \in Wallets
  BY BuildRequest DEF IsIntent, BundledPrograms, Action
<1>2. builder \in BundledPrograms[network] => called = builder
  BY DEF MetadataProgram
<1>3. builder = "native" =>
          called = IF \/ "token" \in DOMAIN action
                      \/ Field(action, "tokenSymbol") \notin {"none", "SOL"}
                   THEN "token" ELSE "system"
  BY <1>1 DEF MetadataProgram, BundledPrograms
<1>4. CASE PaysSol(j.request) /\ ixs = <<SolTransferIx(action)>>
  <2>1. called = "system"
    <3>1. mint = "none" /\ builder = "native"
      BY <1>4 DEF PaysSol
    <3>2. mint = ResolveMint(action, network)
      BY DEF MintOf
    <3>3. /\ "token" \notin DOMAIN action
          /\ Field(action, "tokenSymbol") \in {"none", "SOL"}
      <4>1. "token" \in DOMAIN action => action.token \in Mints
        BY <3>1, BuildRequest DEF IsTransferAction
      <4>2. "none" \notin Mints
        BY DEF Mints
      <4>3. ASSUME "token" \notin DOMAIN action,
                   Field(action, "tokenSymbol") \notin {"none", "SOL"}
            PROVE  ResolveMint(action, network) # "none"
        BY <1>1, <4>3 DEF ResolveMint, ResolveSymbol, BundledTokens
      <4>4. "token" \in DOMAIN action => ResolveMint(action, network) = action.token
        BY DEF ResolveMint
      <4> QED
        BY <3>1, <3>2, <4>1, <4>2, <4>3, <4>4
    <3> QED
      BY <1>3, <3>1, <3>3
  <2>2. PICK ix : ix = SolTransferIx(action)
    OBVIOUS
  <2>3. ix.program = "system" /\ ixs[1] = ix /\ Len(ixs) = 1
    BY <1>4, <2>2 DEF SolTransferIx, Ix
  <2>4. 1 \in 1..Len(ixs)
    BY <2>3
  <2> QED
    BY <2>1, <2>3, <2>4
<1>5. CASE PaysToken(j.request) /\ \E has \in BOOLEAN : ixs = TokenTransferIxs(action, mint, has)
  <2>1. called = "token"
    <3>1. mint \in Mints /\ builder = "native"
      BY <1>5 DEF PaysToken
    <3>2. mint = ResolveMint(action, network) /\ mint # "none"
      BY <3>1 DEF MintOf, Mints
    <3>3. "token" \in DOMAIN action \/ Field(action, "tokenSymbol") \notin {"none", "SOL"}
      BY <3>2 DEF ResolveMint
    <3> QED
      BY <1>3, <3>1, <3>3
  <2>2. PICK ix, a : ix = TokenIx(action, mint) /\ a = AtaIx(action, mint)
    OBVIOUS
  <2>3. ix.program = "token"
    BY <2>2, TokenIxFields
  <2>4. ixs = <<ix>> \/ ixs = <<a, ix>>
    BY <1>5, <2>2, TokenIxs
  <2>5. CASE ixs = <<ix>>
    <3>1. ixs[1] = ix /\ Len(ixs) = 1
      BY <2>5
    <3>2. 1 \in 1..Len(ixs)
      BY <3>1
    <3> QED
      BY <2>1, <2>3, <3>1, <3>2
  <2>6. CASE ixs = <<a, ix>>
    <3>1. ixs[2] = ix /\ Len(ixs) = 2
      BY <2>6
    <3>2. 2 \in 1..Len(ixs)
      BY <3>1
    <3> QED
      BY <2>1, <2>3, <3>1, <3>2
  <2> QED
    BY <2>4, <2>5, <2>6
<1>6. CASE PaysPool(j) /\ \E m \in Mints : ixs = HandshakeIxs(action, j.units, m)
  <2>1. called = "handshake"
    <3>1. builder = "handshake"
      BY <1>6 DEF PaysPool
    <3> QED
      BY <1>1, <1>2, <3>1 DEF BundledPrograms
  <2>2. PICK ix : ixs = <<ix>> /\ ix.program = "handshake"
    <3>1. PICK m \in Mints : ixs = HandshakeIxs(action, j.units, m)
      BY <1>6
    <3> DEFINE memo == IF "memo" \in DOMAIN action THEN action.memo ELSE ""
               t == [sender |-> action.from, recipient |-> action.to,
                     pda |-> TransferPda(action.from, action.to, "n"), amount |-> j.units,
                     memo |-> memo]
    <3>2. ixs = <<CreateTransferIx(t, m)>>
      BY <3>1 DEF HandshakeIxs
    <3> HIDE DEF t
    <3>3. CreateTransferIx(t, m).program = "handshake"
      BY DEF CreateTransferIx, Ix
    <3> QED
      BY <3>2, <3>3
  <2>3. ixs[1] = ix /\ Len(ixs) = 1
    BY <2>2
  <2>4. 1 \in 1..Len(ixs)
    BY <2>3
  <2> QED
    BY <2>1, <2>2, <2>3, <2>4
<1>7. CASE Swaps(j.request) /\ \E s, in, out : ixs = JupiterIxs(s, in, out)
  <2>1. called = "jupiter"
    <3>1. builder = "jupiter" /\ network = "mainnet"
      <4>1. builder = "jupiter" /\ Swappable(j.request.intent)
        BY <1>7 DEF Swaps
      <4>2. Swappable(j.request.intent) => j.request.intent.network = "mainnet"
        BY SwapNetwork
      <4> QED
        BY <4>1, <4>2
    <3> QED
      BY <1>2, <3>1 DEF BundledPrograms
  <2>2. Len(ixs) \in {3, 4} /\ ixs[3].program = "jupiter"
    BY <1>7, SwapIxs
  <2>3. 3 \in 1..Len(ixs)
    BY <2>2
  <2> QED
    BY <2>1, <2>2, <2>3
<1> QED
  BY <1>4, <1>5, <1>6, <1>7 DEF Draft

\* What is built does what was asked.
LEMMA BuiltHolds ==
    ASSUME ConstantsAssumption, IInv
    PROVE  BuiltDoesAsked
<1> DEFINE request == job.request
           Pays == \E i, ix : /\ OnlyPays(job.tx.ixs, i, ix)
                              /\ \A p \in Payments(ix) : PaysAsAsked(p, job.request)
           Calls == \E i \in DOMAIN job.tx.ixs :
                       job.tx.ixs[i].program
                       = MetadataProgram(request.intent, ResolveBuilderName(request.intent))
<1> SUFFICES ASSUME job.pc = "built"
             PROVE  /\ ~replaced /\ (IsTransfer(request)
                                    \/ (request.kind = "transfer" /\ rows.pool = chain.pool))
                       => Pays
                    /\ request.kind = "build" /\ Field(request.intent, "program") = "none"
                       => Calls
  <2>1. Pays => \E i \in DOMAIN job.tx.ixs :
                    /\ {l \in DOMAIN job.tx.ixs : Payments(job.tx.ixs[l]) # {}} = {i}
                    /\ \A p \in Payments(job.tx.ixs[i]) : PaysAsAsked(p, job.request)
    BY PayingOne DEF OnlyPays
  <2> HIDE DEF Pays
  <2> QED
    BY <2>1 DEF BuiltDoesAsked
<1>1. /\ JobOK(job) /\ StageOK(job, chain, rows, replaced) /\ RowsOK(rows)
      /\ replaced \in BOOLEAN /\ job.request \in Requests /\ job.units \in Nat
  BY DEF IInv, JobOK
<1>2. ASSUME ~replaced, IsTransfer(request)
      PROVE  Pays
  <2>1. request.kind = "build" /\ Action(request).action = "transfer"
    BY <1>2 DEF IsTransfer
  <2>2. BuildOK(job, chain, FALSE)
    BY <1>1, <1>2, <2>1 DEF StageOK
  <2>3. PICK ixs : Draft(job, FALSE, ixs) /\ job.tx.ixs = BuildInstructionList(ixs, TRUE)
    BY <2>2 DEF BuildOK
  <2>4. Buildable(request) /\ (Builder(request) = "handshake" => PoolKept(job.mint, chain, FALSE))
    BY <2>2 DEF BuildOK
  <2> QED
    BY <1>1, <2>1, <2>3, <2>4, BuiltPays
<1>3. ASSUME ~replaced, request.kind = "transfer", rows.pool = chain.pool
      PROVE  Pays
  <2>1. TransferOK(job, chain, rows, FALSE)
    BY <1>1, <1>3 DEF StageOK
  <2> QED
    BY <1>1, <1>3, <2>1, EndpointPays
<1>4. ASSUME request.kind = "build", Field(request.intent, "program") = "none"
      PROVE  Calls
  <2>1. BuildOK(job, chain, replaced)
    BY <1>1, <1>4 DEF StageOK
  <2>2. PICK ixs : Draft(job, replaced, ixs) /\ job.tx.ixs = BuildInstructionList(ixs, TRUE)
    BY <2>1 DEF BuildOK
  <2>3. Buildable(request)
    BY <2>1 DEF BuildOK
  <2>4. ixs \in Seq(Elements(ixs))
    BY <1>1, <1>4, <2>2, <2>3, Drafted
  <2>5. PICK k \in 1..Len(ixs) :
            /\ ixs[k].program = MetadataProgram(request.intent, Builder(request))
            /\ ixs[k].program # "budget"
    BY <1>1, <1>4, <2>2, <2>3, DraftCalls
  <2>6. \E i \in DOMAIN BuildInstructionList(ixs, TRUE) :
            BuildInstructionList(ixs, TRUE)[i] = ixs[k]
    BY <2>4, <2>5, ListKeeps
  <2> QED
    BY <2>2, <2>5, <2>6 DEF Builder
<1> QED
  BY <1>2, <1>3, <1>4

\* BuiltDoesAsked is an invariant: with the pool not replaced meanwhile, whatever else
\* happens between the reads, a built transfer has one instruction that pays, and it pays
\* the sender's amount to the recipient in the mint asked for; and the transaction calls
\* the program that the answer names (the three builders and the transfer endpoint).
THEOREM BuiltAlwaysDoesAsked == Spec => []BuiltDoesAsked
  BY AlwaysIInv, BuiltHolds, ConstantsAssumption, PTL

(* Equal decimals                                                          *)

----------------------------------------------------------------------------
(* An amount is read as the one written                                    *)

\* The scaled integer stands for the decimal string.
IsValue(d, a) ==
    /\ d.int \in Int /\ d.scale \in 0..a.frac
    /\ d.int * PowerOf10[a.frac - d.scale] = a.digits

\* Parsing a decimal string loses nothing of its value.
LEMMA Parsed ==
    ASSUME NEW a, a.digits \in Int, a.frac \in Nat
    PROVE  IsValue(ParseDecimal(a), a)
<1> DEFINE Exact(s) == a.digits % PowerOf10[a.frac - s] = 0
           Least(s) == Exact(s) /\ \A r \in 0..(s - 1) : ~Exact(r)
           T == {s \in 0..a.frac : Exact(s)}
           s == CHOOSE x \in 0..a.frac : Least(x)
<1>1. a.frac \in T
  <2>1. a.frac - a.frac = 0 /\ PowerOf10[0] = 1 /\ a.digits % 1 = 0
    BY PowersOf10
  <2> QED
    BY <2>1
<1>2. \E x \in 0..a.frac : Least(x)
  <2>1. T \in SUBSET Nat
    OBVIOUS
  <2>2. PICK x \in T : \A y \in T : x <= y
    <3> HIDE DEF T
    <3> QED
      BY <1>1, <2>1, LeastNumber
  <2>3. x \in 0..a.frac /\ Exact(x)
    BY <2>2
  <2>4. ASSUME NEW r \in 0..(x - 1)
        PROVE  ~Exact(r)
    <3>1. r \in 0..a.frac /\ ~(x <= r)
      BY <2>3
    <3> HIDE DEF Exact
    <3> QED
      BY <2>2, <3>1
  <2> HIDE DEF Exact
  <2> QED
    BY <2>3, <2>4
<1>3. s \in 0..a.frac /\ Exact(s)
  <2>1. s \in 0..a.frac /\ Least(s)
    <3> HIDE DEF Least
    <3> QED
      BY <1>2
  <2> HIDE DEF s
  <2> QED
    BY <2>1
<1>4. ParseDecimal(a) = [int |-> a.digits \div PowerOf10[a.frac - s], scale |-> s]
  BY DEF ParseDecimal
<1> HIDE DEF s
<1> DEFINE b == PowerOf10[a.frac - s]
<1>5. a.frac - s \in Nat
  BY <1>3
<1>6. b \in Nat /\ b >= 1 /\ a.digits % b = 0
  BY <1>3, <1>5, PowersPositive
<1> HIDE DEF b
<1> DEFINE q == a.digits \div b
<1>7. q \in Int /\ a.digits = b * q + (a.digits % b)
  BY <1>6, Divided
<1>8. q * b = a.digits
  <2> HIDE DEF q
  <2>1. q * b = b * q
    BY <1>6, <1>7
  <2>2. b * q \in Int
    BY <1>6, <1>7
  <2> DEFINE product == b * q
  <2> HIDE DEF product
  <2>3. a.digits = product + (a.digits % b) /\ product \in Int
    BY <1>7, <2>2 DEF product
  <2>4. a.digits = product
    BY <1>6, <2>3
  <2> QED
    BY <2>1, <2>4 DEF product
<1>9. ParseDecimal(a).int = q /\ ParseDecimal(a).scale = s
  BY <1>4 DEF b
<1> HIDE DEF q
<1> QED
  BY <1>3, <1>7, <1>8, <1>9 DEF IsValue, b

\* Products of powers, kept opaque.
LEMMA Cancel ==
    ASSUME NEW x \in Int, NEW y \in Int, NEW b \in Nat, b >= 1, x * b = y * b
    PROVE  x = y
  OBVIOUS

\* Products, rearranged.
LEMMA Rearranged ==
    ASSUME NEW i \in Int, NEW p \in Int, NEW q \in Int
    PROVE  (i * p) * q = (i * q) * p
  OBVIOUS

\* A value at a scale, times the power of its fraction.
LEMMA ScaledValue ==
    ASSUME NEW d, NEW a, a.digits \in Int, a.frac \in Nat, IsValue(d, a),
           NEW scale \in Nat, d.scale <= scale
    PROVE  /\ ScaleDecimal(d, scale) \in Int
           /\ ScaleDecimal(d, scale) * PowerOf10[a.frac] = a.digits * PowerOf10[scale]
<1> DEFINE i == d.int
           t == d.scale
           p == PowerOf10[scale - t]
           q == PowerOf10[a.frac - t]
           r == PowerOf10[t]
<1>1. i \in Int /\ t \in Nat /\ scale - t \in Nat /\ a.frac - t \in Nat
  BY DEF IsValue
<1>2. i * q = a.digits
  BY DEF IsValue
<1>3. p \in Int /\ q \in Int /\ r \in Int
  BY <1>1, PowersOf10
<1>4. PowerOf10[a.frac] = q * r
  <2>1. (a.frac - t) + t = a.frac
    BY <1>1
  <2>2. PowerOf10[(a.frac - t) + t] = PowerOf10[a.frac - t] * PowerOf10[t]
    BY <1>1, PowersMultiply
  <2> QED
    BY <2>1, <2>2
<1>5. PowerOf10[scale] = p * r
  <2>1. (scale - t) + t = scale
    BY <1>1
  <2>2. PowerOf10[(scale - t) + t] = PowerOf10[scale - t] * PowerOf10[t]
    BY <1>1, PowersMultiply
  <2> QED
    BY <2>1, <2>2
<1>6. ScaleDecimal(d, scale) = i * p
  BY DEF ScaleDecimal
<1> HIDE DEF i, p, q, r
<1>7. (i * p) * (q * r) = (i * q) * (p * r)
  BY <1>1, <1>3
<1>8. i * p \in Int
  BY <1>1, <1>3
<1> QED
  BY <1>2, <1>4, <1>5, <1>6, <1>7, <1>8

\* The same amount with more digits after the point.
LEMMA SameValue ==
    ASSUME NEW a, a.digits \in Int, a.frac \in Nat, NEW b, b.digits \in Int, b.frac \in Nat,
           NEW k \in Nat, b.frac = a.frac + k, b.digits = a.digits * PowerOf10[k],
           NEW scale \in Nat, NEW d, NEW e, IsValue(d, a), IsValue(e, b),
           d.scale <= scale, e.scale <= scale
    PROVE  /\ ScaleDecimal(d, scale) \in Int
           /\ ScaleDecimal(d, scale) = ScaleDecimal(e, scale)
<1> DEFINE x == ScaleDecimal(d, scale)
           y == ScaleDecimal(e, scale)
           f == PowerOf10[a.frac]
           g == PowerOf10[b.frac]
           h == PowerOf10[k]
           s == PowerOf10[scale]
           n == a.digits
<1>1. x \in Int /\ x * f = n * s
  BY ScaledValue
<1>2. y \in Int /\ y * g = (n * h) * s
  BY ScaledValue
<1>3. g = f * h
  BY PowersMultiply
<1>4. /\ f \in Nat /\ g \in Nat /\ g >= 1 /\ h \in Nat /\ s \in Nat /\ n \in Int
  BY PowersPositive
<1> HIDE DEF x, y, f, g, h, s, n
<1>5. x * (f * h) = (x * f) * h
  BY <1>1, <1>4
<1>6. (n * s) * h = (n * h) * s
  BY <1>4, Rearranged
<1>7. x * g = y * g
  BY <1>1, <1>2, <1>3, <1>5, <1>6
<1>8. x = y
  BY <1>1, <1>2, <1>4, <1>7, Cancel
<1> QED
  BY <1>1, <1>8 DEF x, y

\* The same amount written with more digits is within any tolerance.
LEMMA SameTolerated ==
    ASSUME NEW a, a.digits \in Int, a.frac \in Nat, NEW b, b.digits \in Int, b.frac \in Nat,
           NEW k \in Nat, b.frac = a.frac + k, b.digits = a.digits * PowerOf10[k]
    PROVE  WithinRelativeTolerance(ParseDecimal(a), ParseDecimal(b), DefaultTolerance)
<1> DEFINE d == ParseDecimal(a)
           e == ParseDecimal(b)
           scale == Larger(d.scale, e.scale)
           x == ScaleDecimal(d, scale)
           y == ScaleDecimal(e, scale)
<1>1. IsValue(d, a) /\ IsValue(e, b)
  BY Parsed
<1> HIDE DEF d, e
<1>2. d.scale \in Nat /\ e.scale \in Nat
  BY <1>1 DEF IsValue
<1>3. scale \in Nat /\ d.scale <= scale /\ e.scale <= scale
  BY <1>2 DEF Larger
<1> HIDE DEF scale
<1>4. x \in Int /\ x = y
  BY <1>1, <1>3, SameValue
<1> HIDE DEF x, y
<1>5. DefaultTolerance.int = 1 /\ DefaultTolerance.scale = 4 /\ PowerOf10[4] \in Nat
  BY PowersOf10 DEF DefaultTolerance
<1>6. /\ y - x = 0 /\ Abs(0) = 0 /\ 0 * PowerOf10[4] = 0 /\ 0 <= Abs(x) * 1
  BY <1>4, <1>5 DEF Abs
<1>7. /\ DefaultTolerance.int >= 0
      /\ IF x = 0 THEN y = 0
         ELSE Abs(y - x) * PowerOf10[DefaultTolerance.scale]
              <= Abs(x) * DefaultTolerance.int
  BY <1>4, <1>5, <1>6
<1> QED
  BY <1>7 DEF WithinRelativeTolerance, x, y, scale, d, e

(* What the matcher finds in the instructions of a built transfer          *)

----------------------------------------------------------------------------
(* A built instruction is read as what was asked                           *)

\* The fields compared by name.
ComparedFieldNames == {"from", "to", "owner", "spender", "validator", "memo"}

\* Nothing in params speaks against action.
Agrees(action, params) ==
    /\ \A f \in ComparedFieldNames : ~Differs(action, f, params, f)
    /\ "amount" \in DOMAIN action /\ "amountHuman" \in DOMAIN params =>
           EvaluateConstraint(action.amount, params.amountHuman.value)

\* Where nothing speaks against the action, no discrepancy is given.
LEMMA AgreesEmpty ==
    ASSUME NEW action, NEW params, Agrees(action, params)
    PROVE  CompareFields(action, params) = {}
<1>1. \A f \in ComparedFieldNames : If(Differs(action, f, params, f), f) = {}
  BY DEF Agrees, If
<1>2. If(/\ "amount" \in DOMAIN action /\ "amountHuman" \in DOMAIN params
         /\ ~EvaluateConstraint(action.amount, params.amountHuman.value), "amount") = {}
  BY DEF Agrees, If
<1>3. UNION {If(Differs(action, f, params, f), f) :
                 f \in {"from", "to", "owner", "spender", "validator", "memo"}} = {}
  BY <1>1 DEF ComparedFieldNames
<1> QED
  BY <1>2, <1>3 DEF CompareFields

\* The instruction is read as a transfer by its program, and as the one asked for.
ReadAsAsked(ix, meta, action) ==
    LET g == Generic(DecodeInstruction(ix, meta))
    IN  /\ DecodeInstruction(ix, meta).known
        /\ g.type = "transfer" /\ g.program = ix.program
        /\ CompareFields(action, g.params) = {}

\* The budget's instructions are read as such, and are ancillary.
LEMMA BudgetRead ==
    ASSUME NEW ix \in {Price, Limit}, NEW meta
    PROVE  /\ DecodeInstruction(ix, meta).known
           /\ DecodeInstruction(ix, meta).program = "budget"
           /\ Generic(DecodeInstruction(ix, meta)).type \in AncillaryTypes \ {"transfer"}
<1>1. /\ ix.program = "budget" /\ ix.op \in {"set_compute_unit_price", "set_compute_unit_limit"}
      /\ ~ix.short
  BY DEF Price, Limit, Ix
<1> DEFINE d == DecodeInstruction(ix, meta)
<1>2. d.known /\ d.program = "budget" /\ d.type = ix.op
  BY <1>1 DEF DecodeInstruction, DecodedPrograms
<1> HIDE DEF d
<1>3. Generic(d) = d
  BY <1>1, <1>2 DEF Generic
<1> QED
  BY <1>1, <1>2, <1>3 DEF AncillaryTypes, d

\* The transfer of SOL is read as the one asked for.
LEMMA SolRead ==
    ASSUME NEW action, action.from \in Wallets, action.to \in Wallets, NEW meta,
           NEW ix, ix = SolTransferIx(action)
    PROVE  /\ ReadAsAsked(ix, meta, action)
           /\ DecodeInstruction(ix, meta).params.to = ix.accounts[2]
<1>1. /\ ix.program = "system" /\ ix.op = "transfer" /\ ~ix.short
      /\ Len(ix.accounts) = 2 /\ ix.accounts[1] = action.from /\ ix.accounts[2] = action.to
  BY SolIx
<1> DEFINE d == DecodeInstruction(ix, meta)
<1>2. /\ d.known /\ d.program = "system" /\ d.type = "transfer" /\ d.params = DecodeSystem(ix)
  BY <1>1 DEF DecodeInstruction, DecodedPrograms, DecodeParams
<1> HIDE DEF d
<1>3. Generic(d) = d
  BY <1>2 DEF Generic
<1> DEFINE named == Named(ix, SystemAccounts[ix.op])
           rest == [lamports |-> ix.args.amount, sol |-> FormatUnits(ix.args.amount, SolDecimals)]
<1>4. DecodeSystem(ix) = named ++ rest
  BY <1>1 DEF DecodeSystem
<1>5. /\ DOMAIN named = {"from", "to"}
      /\ named.from = action.from /\ named.to = action.to
  <2>1. action.from # Unresolved /\ action.to # Unresolved
    BY WalletResolves
  <2>2. SystemAccounts[ix.op] = [from |-> 1, to |-> 2]
    BY <1>1 DEF SystemAccounts
  <2> QED
    BY <1>1, <2>1, <2>2 DEF Named
<1>6. DOMAIN rest = {"lamports", "sol"}
  OBVIOUS
<1> HIDE DEF named, rest
<1> DEFINE params == named ++ rest
<1>7. /\ DOMAIN params = {"from", "to", "lamports", "sol"}
      /\ params.from = action.from /\ params.to = action.to
  BY <1>5, <1>6 DEF ++
<1> HIDE DEF params
<1>8. Agrees(action, params)
  BY <1>7 DEF Agrees, Differs, ComparedFieldNames
<1>9. CompareFields(action, params) = {}
  BY <1>8, AgreesEmpty
<1>10. d.params = params
  BY <1>2, <1>4 DEF params
<1> QED
  BY <1>1, <1>2, <1>3, <1>7, <1>9, <1>10 DEF ReadAsAsked, d

\* The transfer of a token, whose mint its instruction does not tell, is read so too.
LEMMA TokenRead ==
    ASSUME NEW action, NEW mint, NEW meta, NEW ix, ix = TokenIx(action, mint)
    PROVE  ReadAsAsked(ix, meta, action)
<1>1. ix.program = "token" /\ ix.op = "transfer" /\ ~ix.short
  BY TokenIxFields
<1> DEFINE d == DecodeInstruction(ix, meta)
<1>2. /\ d.known /\ d.program = "token" /\ d.type = "transfer" /\ d.params = DecodeSplToken(ix)
  BY <1>1 DEF DecodeInstruction, DecodedPrograms, DecodeParams
<1> HIDE DEF d
<1>3. Generic(d) = d
  BY <1>2 DEF Generic
<1> DEFINE named == Named(ix, TokenAccounts[ix.op])
           rest == [amount |-> ix.args.amount]
<1>4. DecodeSplToken(ix) = named ++ rest
  BY <1>1 DEF DecodeSplToken, PlainAmount
<1>5. DOMAIN named \subseteq {"source", "destination", "authority"}
  <2>1. TokenAccounts[ix.op] = [source |-> 1, destination |-> 2, authority |-> 3]
    BY <1>1 DEF TokenAccounts
  <2> QED
    BY <2>1 DEF Named
<1>6. DOMAIN rest = {"amount"}
  OBVIOUS
<1> HIDE DEF named, rest
<1> DEFINE params == named ++ rest
<1>7. DOMAIN params \subseteq {"source", "destination", "authority", "amount"}
  BY <1>5, <1>6 DEF ++
<1> HIDE DEF params
<1>8. Agrees(action, params)
  BY <1>7 DEF Agrees, Differs, ComparedFieldNames
<1>9. CompareFields(action, params) = {}
  BY <1>8, AgreesEmpty
<1>10. d.params = params
  BY <1>2, <1>4 DEF params
<1> QED
  BY <1>1, <1>2, <1>3, <1>9, <1>10 DEF ReadAsAsked, d

\* The names of what the decoder makes of a payment to the pool.
LEMMA CreationFields ==
    ASSUME NEW ix, IsInstruction(ix), ix.op = "create_transfer", ~ix.short, NEW meta
    PROVE  LET params == DecodeHandshake(ix, meta)
           IN  /\ DOMAIN params \subseteq {"sender", "pool", "mint", "recipient", "memo", "amount",
                                           "amountHuman"}
               /\ "memo" \in DOMAIN params => params.memo = ix.args.memo
<1> DEFINE named == Named(ix, [sender |-> 1, pool |-> 2, mint |-> 3])
           first == [recipient |-> ix.args.recipient]
           memo == IF ix.args.memo = "" THEN <<>> ELSE [memo |-> ix.args.memo]
           amounts == AmountParams(MintAt(ix, 3), ix.args.amount, GetDecimals(MintAt(ix, 3), meta))
           front == first ++ memo
           arguments == front ++ amounts
           params == DecodeHandshake(ix, meta)
<1>1. params = named ++ arguments
  BY DEF DecodeHandshake, HandshakeAccounts
<1>2. DOMAIN named \subseteq {"sender", "pool", "mint"}
  BY DEF Named
<1>3. DOMAIN amounts = {"amount", "amountHuman"}
  BY DEF AmountParams
<1>4. DOMAIN first = {"recipient"}
  OBVIOUS
<1>5. DOMAIN memo \subseteq {"memo"} /\ ("memo" \in DOMAIN memo => memo.memo = ix.args.memo)
  <2>1. DOMAIN <<>> = {}
    OBVIOUS
  <2> QED
    BY <2>1
<1> HIDE DEF named, first, memo, amounts, params
<1>6. /\ DOMAIN front \subseteq {"recipient", "memo"}
      /\ "memo" \in DOMAIN front => front.memo = ix.args.memo
  BY <1>4, <1>5 DEF ++
<1> HIDE DEF front
<1>7. /\ DOMAIN arguments \subseteq {"recipient", "memo", "amount", "amountHuman"}
      /\ "memo" \in DOMAIN arguments => arguments.memo = ix.args.memo
  BY <1>3, <1>6 DEF ++
<1> HIDE DEF arguments
<1>8. /\ DOMAIN params = DOMAIN named \cup DOMAIN arguments
      /\ \A f \in DOMAIN arguments : f \notin DOMAIN named => params[f] = arguments[f]
  BY <1>1, Merged
<1>9. "memo" \notin DOMAIN named
  BY <1>2
<1> QED
  BY <1>2, <1>7, <1>8, <1>9 DEF params

\* The amount a builder makes of a decimal is read as that decimal.
LEMMA AmountRead ==
    ASSUME NEW constraint, IsExactAmount(constraint), constraint.eq.digits \in Nat,
           NEW decimals \in Nat, constraint.eq.frac \in 0..decimals,
           NEW units, units = ToBaseUnits(constraint.eq, decimals)
    PROVE  EvaluateConstraint(constraint, FormatUnits(units, decimals))
<1> DEFINE a == constraint.eq
           b == FormatUnits(units, decimals)
           k == decimals - a.frac
<1>1. b.digits = units /\ b.frac = decimals
  BY DEF FormatUnits
<1>2. k \in Nat /\ a.frac \in Nat /\ decimals = a.frac + k
  OBVIOUS
<1>3. units = a.digits * PowerOf10[k] /\ units \in Int
  <2>1. units = a.digits * PowerOf10[k]
    BY DEF ToBaseUnits
  <2>2. PowerOf10[k] \in Nat /\ a.digits \in Nat
    BY <1>2, PowersOf10
  <2> QED
    BY <2>1, <2>2
<1> HIDE DEF a, b, k
<1>4. WithinRelativeTolerance(ParseDecimal(a), ParseDecimal(b), DefaultTolerance)
  <2>1. a.digits \in Int
    BY DEF a
  <2> QED
    BY <1>1, <1>2, <1>3, <2>1, SameTolerated
<1>5. DOMAIN constraint = {"eq"} /\ IsDecimal(constraint.eq)
  BY DEF IsExactAmount
<1>6. IsDecimal(b)
  BY <1>1 DEF IsDecimal
<1> QED
  BY <1>4, <1>5, <1>6 DEF EvaluateConstraint, a, b

\* The payment into the pool is read as the transfer asked for, if the metadata of its
\* mint was read.
LEMMA CreationRead ==
    ASSUME NEW action, action.from \in Wallets, IsExactAmount(action.amount),
           action.amount.eq.digits \in Nat, NEW m \in Mints,
           action.amount.eq.frac \in 0..TrueDecimals[m],
           NEW ix, IsIx(ix), ix.program = "handshake", ix.op = "create_transfer", ~ix.short,
           ix.accounts[1] = action.from, ix.accounts[3] = Key(m), NEW memo,
           ix.args = [recipient |-> action.to,
                      amount |-> ToBaseUnits(action.amount.eq, TrueDecimals[m]), memo |-> memo],
           "memo" \in DOMAIN action => memo = action.memo,
           NEW meta, GetDecimals(MintAt(ix, 3), meta) = TrueDecimals[m]
    PROVE  ReadAsAsked(ix, meta, action)
<1> DEFINE d == DecodeInstruction(ix, meta)
           g == Generic(d)
           params == DecodeHandshake(ix, meta)
           renamed == Renamed(params)
           all == renamed ++ params
<1>1. /\ ix.args.recipient = action.to /\ ix.args.memo = memo
      /\ ix.args.amount = ToBaseUnits(action.amount.eq, TrueDecimals[m])
  OBVIOUS
<1>2. /\ {"sender", "recipient", "amountHuman"} \subseteq DOMAIN params
      /\ params.sender = action.from
      /\ params.recipient = action.to
      /\ params.amountHuman.value = FormatUnits(ix.args.amount, TrueDecimals[m])
  BY <1>1, DecodedCreation DEF IsIx
<1>3. /\ DOMAIN params \subseteq {"sender", "pool", "mint", "recipient", "memo", "amount",
                                  "amountHuman"}
      /\ "memo" \in DOMAIN params => params.memo = memo
  BY <1>1, CreationFields DEF IsIx
<1>4. /\ d.known /\ d.program = "handshake" /\ d.type = "create_transfer" /\ d.params = params
      /\ d = [program |-> d.program, known |-> d.known, type |-> d.type, params |-> d.params]
  BY DEF DecodeInstruction, DecodedPrograms, DecodeParams
<1> HIDE DEF d, params
<1>5. g.type = "transfer" /\ g.program = "handshake" /\ g.params = all
  BY <1>4 DEF Generic
<1>6. /\ DOMAIN renamed = {"from", "to"}
      /\ renamed.from = action.from /\ renamed.to = action.to
  BY <1>2 DEF Renamed, ++
<1> HIDE DEF renamed, g
<1>7. /\ DOMAIN all \subseteq {"from", "to", "sender", "pool", "mint", "recipient", "memo",
                               "amount", "amountHuman"}
      /\ "from" \in DOMAIN all /\ all.from = action.from
      /\ "to" \in DOMAIN all /\ all.to = action.to
      /\ "memo" \in DOMAIN all => all.memo = memo
      /\ "amountHuman" \in DOMAIN all /\ all.amountHuman = params.amountHuman
  BY <1>2, <1>3, <1>6 DEF ++
<1> HIDE DEF all
<1>8. EvaluateConstraint(action.amount, all.amountHuman.value)
  <2>1. TrueDecimals[m] \in Nat
    BY MintDecimals
  <2>2. EvaluateConstraint(action.amount, FormatUnits(ix.args.amount, TrueDecimals[m]))
    BY <1>1, <2>1, AmountRead
  <2> QED
    BY <1>2, <1>7, <2>2
<1>9. \A f \in ComparedFieldNames : ~Differs(action, f, all, f)
  BY <1>7 DEF Differs, ComparedFieldNames
<1>10. CompareFields(action, all) = {}
  BY <1>8, <1>9, AgreesEmpty DEF Agrees
<1> QED
  BY <1>4, <1>5, <1>10 DEF ReadAsAsked, g, d

----------------------------------------------------------------------------
(* A built transfer is a full match of its intent                          *)

\* A list of one instruction behind those of the budget.
IsSingle(tx, ix) ==
    /\ DOMAIN tx.ixs = 1..3
    /\ tx.ixs[1] = Price /\ tx.ixs[2] = Limit /\ tx.ixs[3] = ix

\* One drafted instruction makes such a list.
LEMMA SingleList ==
    ASSUME NEW ix, IsIx(ix), ix.program # "budget",
           NEW tx, tx.ixs = BuildInstructionList(<<ix>>, TRUE)
    PROVE  IsSingle(tx, ix)
<1> DEFINE ixs == <<ix>>
<1>1. ixs \in Seq({ix}) /\ Len(ixs) = 1 /\ ixs[1] = ix
  BY SingleIx
<1>2. PICK list : list = tx.ixs
  OBVIOUS
<1>3. list = BuildInstructionList(ixs, TRUE)
  BY <1>2
<1> HIDE DEF ixs
<1>4. \A l \in 1..Len(ixs) : ixs[l].program # "budget"
  BY <1>1
<1>5. list = <<Price>> \o <<Limit>> \o ixs
  BY <1>1, <1>3, <1>4, AllKept
<1>6. /\ DOMAIN list = 1..Len(list) /\ Len(list) = Len(ixs) + 2
      /\ list[1] = Price /\ list[2] = Limit
      /\ \A i \in 3..Len(list) : list[i] = ixs[i - 2]
  BY <1>1, <1>5, BudgetFirst
<1>7. Len(list) = 3
  BY <1>1, <1>6
<1>8. 3 \in 3..Len(list) /\ 3 - 2 = 1
  BY <1>7
<1>9. list[3] = ix
  BY <1>1, <1>6, <1>8
<1> QED
  BY <1>2, <1>6, <1>7, <1>9 DEF IsSingle

\* No flag is raised: all programs are known, and a transfer of SOL names its recipient.
LEMMA NoFlags ==
    ASSUME NEW tx, NEW ix, IsSingle(tx, ix), NEW meta, DecodeInstruction(ix, meta).known,
           ix.program = "system" => /\ 2 \in DOMAIN ix.accounts
                                    /\ DecodeInstruction(ix, meta).params.to = ix.accounts[2]
    PROVE  AnalyzeTransaction(tx, meta).errors = {}
<1> DEFINE ixs == [i \in DOMAIN tx.ixs |-> DecodeInstruction(tx.ixs[i], meta)]
<1>1. AnalyzeTransaction(tx, meta).errors = ErrorFlags(tx, ixs)
  BY DEF AnalyzeTransaction
<1>2. /\ DOMAIN ixs = {1, 2, 3}
      /\ ixs[1] = DecodeInstruction(Price, meta) /\ ixs[2] = DecodeInstruction(Limit, meta)
      /\ ixs[3] = DecodeInstruction(ix, meta)
  BY DEF IsSingle
<1>3. /\ ixs[1].known /\ ixs[1].program = "budget"
      /\ ixs[2].known /\ ixs[2].program = "budget"
  BY <1>2, BudgetRead
<1>4. ixs[3].program = ix.program
  BY <1>2 DEF DecodeInstruction
<1>5. ix.program = "system" => ixs[3].params.to \in TxAddresses(tx)
  <2>1. 3 \in DOMAIN tx.ixs /\ tx.ixs[3] = ix
    BY DEF IsSingle
  <2>2. ix.program = "system" => ix.accounts[2] \in TxAddresses(tx)
    BY <2>1 DEF TxAddresses
  <2> QED
    BY <1>2, <2>2
<1> HIDE DEF ixs
<1>6. \A i \in DOMAIN ixs : ixs[i].known
  BY <1>2, <1>3
<1>7. \A i \in DOMAIN ixs : ixs[i].program = "system" => ixs[i].params.to \in TxAddresses(tx)
  BY <1>2, <1>3, <1>4, <1>5
<1> DEFINE unknown == {i \in DOMAIN ixs : ~ixs[i].known}
           drained == {i \in DOMAIN ixs : /\ ixs[i].program = "system" /\ ixs[i].type = "transfer"
                                          /\ "to" \in DOMAIN ixs[i].params
                                          /\ ixs[i].params.to \notin TxAddresses(tx)}
<1>8. unknown = {} /\ drained = {}
  BY <1>6, <1>7
<1>9. ErrorFlags(tx, ixs) = {"UNKNOWN_PROGRAM" : i \in unknown}
                            \cup {"UNEXPECTED_SOL_DRAIN" : i \in drained}
  BY DEF ErrorFlags
<1> HIDE DEF unknown, drained
<1> QED
  BY <1>1, <1>8, <1>9

\* The first free instruction is taken if nothing speaks against it.
LEMMA MatchFirst ==
    ASSUME NEW ixs, DOMAIN ixs \in SUBSET Nat, NEW errors, NEW m \in Matches(ixs, errors),
           NEW action, NEW program, NEW i \in Free(m, action, ixs),
           \A j \in Free(m, action, ixs) : i <= j,
           m.discrepancies = {}, program \in {"none", ixs[i].program},
           action.action \in KnownActions, CompareFields(action, ixs[i].params) = {}
    PROVE  MatchSingleAction(m, action, ixs, program)
           = [used |-> m.used \cup {i}, confidence |-> m.confidence, discrepancies |-> {}]
  BY MatchStep

\* One action, and one instruction that is read as it.
ReadsOne(actions, ixs, errors, program) ==
    /\ Len(actions) = 1 /\ actions[1].action = "transfer"
    /\ DOMAIN ixs = 1..3 /\ errors = {}
    /\ ixs[1].type \in AncillaryTypes \ {"transfer"}
    /\ ixs[2].type \in AncillaryTypes \ {"transfer"}
    /\ ixs[3].type = "transfer" /\ program \in {"none", ixs[3].program}
    /\ CompareFields(actions[1], ixs[3].params) = {}

\* One action and one instruction that is read as it are a match.
LEMMA OneMatch ==
    ASSUME NEW actions, NEW ixs, NEW errors, NEW program, NEW strict,
           ReadsOne(actions, ixs, errors, program)
    PROVE  /\ MatchIntent(actions, ixs, errors, strict, program).matched
           /\ MatchIntent(actions, ixs, errors, strict, program).discrepancies = {}
<1>1. Len(actions) \in Nat /\ DOMAIN ixs \in SUBSET Nat
  BY DEF ReadsOne
<1>2. PICK M : /\ MatchRuns(M, Len(actions), actions, ixs, errors, program)
               /\ MatchIntent(actions, ixs, errors, strict, program)
                  = Verdict(M[Len(actions)], ixs, strict)
  BY <1>1, MatchIntentRuns
<1> DEFINE m == M[0]
           a == actions[1]
<1>3. m = NoMatch(errors) /\ m \in Matches(ixs, errors)
  <2>1. 0 \in 0..Len(actions)
    BY <1>1
  <2> QED
    BY <1>2, <2>1 DEF MatchRuns
<1>4. M[1] = MatchSingleAction(m, a, ixs, program)
  <2>1. M[0 + 1] = MatchSingleAction(M[0], actions[0 + 1], ixs, program)
    <3>1. 0 < Len(actions)
      BY DEF ReadsOne
    <3> QED
      BY <1>2, <3>1 DEF MatchRuns
  <2>2. 0 + 1 = 1
    OBVIOUS
  <2> QED
    BY <2>1, <2>2
<1>5. m.used = {} /\ m.confidence = "full" /\ m.discrepancies = {}
  BY <1>3 DEF NoMatch, ReadsOne
<1> HIDE DEF m
<1>6. 3 \in Free(m, a, ixs) /\ \A i \in Free(m, a, ixs) : 3 <= i
  <2>1. Free(m, a, ixs) = {3}
    BY <1>5 DEF Free, ReadsOne
  <2> QED
    BY <2>1
<1>7. a.action \in KnownActions
  BY DEF KnownActions, ReadsOne
<1>8. M[1] = [used |-> {3}, confidence |-> "full", discrepancies |-> {}]
  <2>1. MatchSingleAction(m, a, ixs, program)
        = [used |-> m.used \cup {3}, confidence |-> m.confidence, discrepancies |-> {}]
    <3>1. program \in {"none", ixs[3].program} /\ CompareFields(a, ixs[3].params) = {}
      BY DEF ReadsOne
    <3>2. PICK i : i = 3
      OBVIOUS
    <3>3. i \in Free(m, a, ixs) /\ \A j \in Free(m, a, ixs) : i <= j
      BY <1>6, <3>2
    <3> DEFINE n == MatchSingleAction(m, a, ixs, program)
    <3>4. /\ m.discrepancies = {} /\ program \in {"none", ixs[i].program}
          /\ CompareFields(a, ixs[i].params) = {}
      BY <1>5, <3>1, <3>2
    <3> HIDE DEF a
    <3>5. n = [used |-> m.used \cup {i}, confidence |-> m.confidence, discrepancies |-> {}]
      BY <1>1, <1>3, <1>7, <3>3, <3>4, MatchFirst
    <3> QED
      BY <3>2, <3>5
  <2> QED
    BY <1>4, <1>5, <2>1
<1>9. PICK r : r = M[1]
  OBVIOUS
<1>10. r.used = {3} /\ r.confidence = "full" /\ r.discrepancies = {}
  BY <1>8, <1>9
<1> DEFINE extra == {i \in DOMAIN ixs \ r.used : ~IsAncillary(ixs[i])}
<1>11. extra = {}
  BY <1>10 DEF IsAncillary, ReadsOne
<1>12. Verdict(r, ixs, strict).discrepancies = r.discrepancies \cup If(strict /\ extra # {}, "strict")
  BY DEF Verdict
<1>13. Verdict(r, ixs, strict).matched
       = (Verdict(r, ixs, strict).discrepancies = {} /\ r.confidence # "unverified")
  BY DEF Verdict
<1> HIDE DEF extra
<1>14. If(strict /\ extra # {}, "strict") = {}
  BY <1>11 DEF If
<1>15. Verdict(r, ixs, strict).discrepancies = {} /\ Verdict(r, ixs, strict).matched
  BY <1>10, <1>12, <1>13, <1>14
<1>16. Len(actions) = 1
  BY DEF ReadsOne
<1> QED
  BY <1>2, <1>9, <1>15, <1>16

\* The builder took the program of the intent, or there is none, and so do the checks.
LEMMA ProgramsFit ==
    ASSUME ConstantsAssumption, NEW request \in Requests, request.kind = "build",
           Buildable(request), Action(request).action = "transfer", NEW ix,
           \/ Builder(request) = "native" /\ ix.program \in {"system", "token"}
           \/ Builder(request) = "handshake" /\ ix.program = "handshake",
           \/ Field(request.intent, "program") = "none"
           \/ request.intent.program \in {"budget", ix.program},
           NEW ixs, 3 \in DOMAIN ixs, ixs[3].program = ix.program
    PROVE  /\ ~ProgramClash(request.intent)
           /\ ExpectedProgram(request.intent) \in {"none", ix.program}
           /\ ApplyProgramChecks(request.intent, ixs) = {}
<1> DEFINE intent == request.intent
           name == Field(intent, "programName")
           program == Field(intent, "program")
           expected == ExpectedProgram(intent)
           builder == ResolveBuilderName(intent)
<1>1. /\ intent.network \in {"mainnet", "devnet"} /\ builder = Builder(request)
      /\ intent.actions[1].action = "transfer" /\ builder \in Builders
  BY BuildRequest DEF IsIntent, BundledPrograms, Builder, Action, Buildable
<1>2. /\ builder # "error"
      /\ {"handshake", "jupiter"} \subseteq {"handshake", "silkysig", "jupiter"}
  BY <1>1 DEF Builders
<1>3. ~ProgramClash(intent)
  <2>1. ProgramClash(intent) => builder = "error"
    BY DEF ResolveBuilderName
  <2> QED
    BY <1>2, <2>1
<1>4. name # "none" => builder = name
  BY <1>3 DEF ResolveBuilderName
<1>5. "handshake" \in BundledPrograms[intent.network] /\ "native" \notin BundledPrograms[intent.network]
      /\ "none" \notin BundledPrograms[intent.network] /\ "budget" \notin BundledPrograms[intent.network]
  BY <1>1 DEF BundledPrograms
<1>6. CASE program = "none"
  <2>1. "program" \in DOMAIN intent => "programName" \notin DOMAIN intent
    <3>1. "program" \in DOMAIN intent => intent.program = "none"
      BY <1>6 DEF Field
    <3> QED
      BY <1>3, <1>5, <3>1 DEF ProgramClash, CrossCheckProgram
  <2>2. expected = IF name \in BundledPrograms[intent.network] THEN name ELSE "none"
    BY <1>5, <1>6, <2>1 DEF ExpectedProgram, Field
  <2>3. name \in {"none", "native", "handshake"}
    BY <1>1, <1>4
  <2>4. CASE name = "none"
    BY <1>3, <1>5, <1>6, <2>2, <2>4 DEF ApplyProgramChecks
  <2>5. CASE name = "native"
    <3>1. ix.program \in {"system", "token"} /\ expected = "none"
      BY <1>1, <1>4, <1>5, <2>2, <2>5
    <3>2. \E i \in DOMAIN ixs : ixs[i].program \in {"system", "token"}
      BY <3>1
    <3>3. ApplyProgramChecks(intent, ixs) = If(FALSE, "no native instruction")
      BY <1>3, <1>6, <2>5, <3>2 DEF ApplyProgramChecks
    <3> QED
      BY <1>3, <3>1, <3>3 DEF If
  <2>6. CASE name = "handshake"
    <3>1. ix.program = "handshake" /\ expected = "handshake"
      BY <1>1, <1>4, <1>5, <2>2, <2>6
    <3>2. \E i \in DOMAIN ixs : ixs[i].program \in {expected}
      BY <3>1
    <3>3. ApplyProgramChecks(intent, ixs) = If(FALSE, "program not called")
      BY <1>3, <1>6, <2>6, <3>1, <3>2 DEF ApplyProgramChecks
    <3> QED
      BY <1>3, <3>1, <3>3 DEF If
  <2> QED
    BY <2>3, <2>4, <2>5, <2>6
<1>7. CASE program # "none"
  <2>1. "program" \in DOMAIN intent /\ intent.program = program /\ expected = program
    BY <1>7 DEF Field, ExpectedProgram
  <2>2. program # "budget"
    <3>1. ASSUME program = "budget"
          PROVE  FALSE
      <4>1. CASE name = "none"
        <5>1. builder = "error"
          BY <1>3, <1>5, <2>1, <3>1, <4>1 DEF ResolveBuilderName
        <5> QED
          BY <1>2, <5>1
      <4>2. CASE name # "none"
        <5>1. "programName" \in DOMAIN intent /\ intent.programName = name
          BY <4>2 DEF Field
        <5>2. name = program
          BY <1>3, <2>1, <5>1 DEF ProgramClash, CrossCheckProgram
        <5> QED
          BY <1>3, <1>5, <2>1, <3>1, <5>1, <5>2 DEF ProgramClash, CrossCheckProgram
      <4> QED
        BY <4>1, <4>2
    <3> QED
      BY <3>1
  <2>3. expected = ix.program /\ expected # "none"
    BY <1>7, <2>1, <2>2
  <2>4. \E i \in DOMAIN ixs : ixs[i].program \in {expected}
    BY <2>3
  <2>5. ApplyProgramChecks(intent, ixs) = If(FALSE, "program not called")
    BY <1>3, <1>7, <2>3, <2>4 DEF ApplyProgramChecks
  <2> QED
    BY <1>3, <2>3, <2>5 DEF If
<1> QED
  BY <1>6, <1>7

\* A single instruction read as what was asked for is a full match.
LEMMA SingleMatches ==
    ASSUME ConstantsAssumption, NEW request \in Requests, request.kind = "build",
           Buildable(request), Action(request).action = "transfer",
           NEW tx, NEW ix, IsSingle(tx, ix), NEW meta, ReadAsAsked(ix, meta, Action(request)),
           ix.program = "system" => /\ 2 \in DOMAIN ix.accounts
                                    /\ DecodeInstruction(ix, meta).params.to = ix.accounts[2],
           \/ Builder(request) = "native" /\ ix.program \in {"system", "token"}
           \/ Builder(request) = "handshake" /\ ix.program = "handshake",
           \/ Field(request.intent, "program") = "none"
           \/ request.intent.program \in {"budget", ix.program},
           NEW reads, FetchedMeta(tx, reads.first) = meta, FetchedMeta(tx, reads.second) = meta
    PROVE  Matching(tx, request.intent, reads) = "full"
<1> DEFINE intent == request.intent
           a == AnalyzeTransaction(tx, meta)
           ixs == [i \in DOMAIN a.ixs |-> Generic(a.ixs[i])]
           v == VerifyIntent(a, intent)
<1>1. /\ DOMAIN a.ixs = DOMAIN tx.ixs
      /\ \A i \in DOMAIN tx.ixs : a.ixs[i] = DecodeInstruction(tx.ixs[i], meta)
  BY Analysed
<1>2. DOMAIN a.ixs = 1..3 /\ 3 \in DOMAIN a.ixs /\ a.ixs[3] = DecodeInstruction(ix, meta)
      /\ a.ixs[1] = DecodeInstruction(Price, meta) /\ a.ixs[2] = DecodeInstruction(Limit, meta)
  BY <1>1 DEF IsSingle
<1>3. a.errors = {}
  BY NoFlags DEF ReadAsAsked
<1>4. a.ixs[3].program = ix.program
  BY <1>2 DEF DecodeInstruction
<1> HIDE DEF a
<1>5. /\ ~ProgramClash(intent)
      /\ ExpectedProgram(intent) \in {"none", ix.program}
      /\ ApplyProgramChecks(intent, a.ixs) = {}
  BY <1>2, <1>4, ProgramsFit
<1>6. /\ "chain" \in DOMAIN intent /\ intent.chain = "solana" /\ ~intent.compound
      /\ Len(intent.actions) = 1 /\ intent.actions[1] = Action(request)
      /\ intent.actions[1].action = "transfer"
  BY BuildRequest DEF Action
<1>7. v = MatchIntent(intent.actions, ixs, a.errors, intent.strict, ExpectedProgram(intent))
  BY <1>5, <1>6 DEF VerifyIntent
<1>8. /\ DOMAIN ixs = 1..3 /\ ixs[1] = Generic(DecodeInstruction(Price, meta))
      /\ ixs[2] = Generic(DecodeInstruction(Limit, meta))
      /\ ixs[3] = Generic(DecodeInstruction(ix, meta))
  BY <1>2
<1> HIDE DEF ixs
<1>9. ReadsOne(intent.actions, ixs, a.errors, ExpectedProgram(intent))
  <2>1. /\ ixs[1].type \in AncillaryTypes \ {"transfer"}
        /\ ixs[2].type \in AncillaryTypes \ {"transfer"}
    BY <1>8, BudgetRead
  <2>2. /\ ixs[3].type = "transfer" /\ ixs[3].program = ix.program
        /\ CompareFields(Action(request), ixs[3].params) = {}
    BY <1>8 DEF ReadAsAsked
  <2> QED
    BY <1>3, <1>5, <1>6, <1>8, <2>1, <2>2 DEF ReadsOne
<1>10. v.matched /\ v.discrepancies = {}
  BY <1>7, <1>9, OneMatch
<1> HIDE DEF v
<1>11. ~IsAction(intent, "swap")
  BY <1>6 DEF IsAction
<1> DEFINE fallback == CheckNativeTransferFallback(intent, a.ixs, reads.mint)
           discrepancies ==
               v.discrepancies \cup ApplyProgramChecks(intent, a.ixs) \cup {}
               \cup (IF v.matched \/ fallback \in {"equal", "silent"} THEN {} ELSE {fallback})
           signal == v.matched \/ fallback = "equal" \/ (FALSE /\ {} = {})
<1>12. Matching(tx, intent, reads)
       = IF signal /\ discrepancies = {} THEN "full" ELSE InferMatchLevel(intent, a.ixs, signal)
  BY <1>11 DEF Matching, a, v
<1>13. signal /\ discrepancies = {}
  BY <1>5, <1>10
<1> HIDE DEF signal, discrepancies
<1> QED
  BY <1>12, <1>13

\* A built transfer that makes no token account is one instruction behind the budget's,
\* read as what was asked for if the metadata could be read.
LEMMA DraftRead ==
    ASSUME ConstantsAssumption, NEW j, j.request \in Requests, j.request.kind = "build",
           Buildable(j.request), Action(j.request).action = "transfer", j.units \in Nat,
           NEW ixs, Draft(j, FALSE, ixs), j.tx.ixs = BuildInstructionList(ixs, TRUE),
           IsTransaction(j.tx), \A i \in DOMAIN j.tx.ixs : j.tx.ixs[i].program # "ata",
           NEW meta, meta = FetchedMeta(j.tx, TRUE)
    PROVE  \E ix :
              /\ IsSingle(j.tx, ix)
              /\ ReadAsAsked(ix, meta, Action(j.request))
              /\ ix.program = "system" =>
                     /\ 2 \in DOMAIN ix.accounts
                     /\ DecodeInstruction(ix, meta).params.to = ix.accounts[2]
              /\ \/ Builder(j.request) = "native" /\ ix.program \in {"system", "token"}
                 \/ Builder(j.request) = "handshake" /\ ix.program = "handshake"
<1> DEFINE action == Action(j.request)
           mint == MintOf(j.request)
           eq == action.amount.eq
<1>1. /\ action.from \in Wallets /\ action.to \in Wallets
      /\ eq.digits \in Nat
      /\ \/ /\ PaysSol(j.request) /\ ixs = <<SolTransferIx(action)>>
            /\ eq.frac \in 0..SolDecimals
         \/ /\ PaysToken(j.request)
            /\ \/ ixs = <<TokenIx(action, mint)>>
               \/ ixs = <<AtaIx(action, mint), TokenIx(action, mint)>>
            /\ eq.frac \in 0..TrueDecimals[mint]
         \/ /\ PaysPool(j) /\ ixs = HandshakeIxs(action, j.units, j.mint)
            /\ eq.frac \in 0..TrueDecimals[j.mint]
  BY TransferDrafts
<1>2. CASE PaysSol(j.request) /\ ixs = <<SolTransferIx(action)>>
  <2>1. PICK ix : ix = SolTransferIx(action)
    OBVIOUS
  <2>2. IsIx(ix) /\ ix.program = "system" /\ DOMAIN ix.accounts = 1..2
    BY <1>1, <2>1, SolIx
  <2>3. IsSingle(j.tx, ix)
    <3>1. j.tx.ixs = BuildInstructionList(<<ix>>, TRUE)
      BY <1>2, <2>1
    <3> QED
      BY <2>2, <3>1, SingleList
  <2>4. /\ ReadAsAsked(ix, meta, action)
        /\ DecodeInstruction(ix, meta).params.to = ix.accounts[2]
    BY <1>1, <2>1, SolRead
  <2>5. 2 \in DOMAIN ix.accounts /\ Builder(j.request) = "native"
    BY <1>2, <2>2 DEF PaysSol
  <2> QED
    BY <2>2, <2>3, <2>4, <2>5
<1>3. CASE /\ PaysToken(j.request)
           /\ \/ ixs = <<TokenIx(action, mint)>>
              \/ ixs = <<AtaIx(action, mint), TokenIx(action, mint)>>
  <2>1. PICK ix, a : ix = TokenIx(action, mint) /\ a = AtaIx(action, mint)
    OBVIOUS
  <2>2. /\ IsIx(ix) /\ ix.program = "token" /\ IsIx(a) /\ a.program = "ata"
        /\ Payments(ix) # {}
    <3>1. ix.program = "token"
      BY <2>1, TokenIxFields
    <3>2. Payments(ix) = {[mint |-> mint, from |-> action.from, to |-> action.to,
                           units |-> ToBaseUnits(eq, TrueDecimals[mint])]}
      BY <1>1, <2>1, TokenPayment
    <3>3. IsIx(ix) /\ IsIx(a) /\ a.program = "ata"
      BY <2>1, TokenIxs
    <3> QED
      BY <3>1, <3>2, <3>3
  <2>3. IsSingle(j.tx, ix)
    <3>1. \/ j.tx.ixs = BuildInstructionList(<<ix>>, TRUE)
          \/ j.tx.ixs = BuildInstructionList(<<a, ix>>, TRUE)
      BY <1>3, <2>1
    <3>2. ASSUME j.tx.ixs = BuildInstructionList(<<a, ix>>, TRUE)
          PROVE  FALSE
      <4> DEFINE pair == <<a, ix>>
      <4>1. PICK list : list = j.tx.ixs
        OBVIOUS
      <4>2. pair \in Seq({a, ix}) /\ Len(pair) = 2 /\ pair[1] = a
        BY <2>2, DoubleIx
      <4>3. list = BuildInstructionList(pair, TRUE)
        BY <3>2, <4>1
      <4> HIDE DEF pair
      <4>4. PICK k \in 1..Len(pair) : k = 1
        BY <4>2
      <4>5. pair[k] = a /\ a.program # "budget"
        BY <2>2, <4>2, <4>4
      <4>6. \E i \in DOMAIN BuildInstructionList(pair, TRUE) :
                BuildInstructionList(pair, TRUE)[i] = pair[k]
        BY <4>2, <4>5, ListKeeps
      <4>7. \E i \in DOMAIN list : list[i] = a
        BY <4>3, <4>5, <4>6
      <4> QED
        BY <2>2, <4>1, <4>7
    <3> QED
      BY <2>2, <3>1, <3>2, SingleList
  <2>4. ReadAsAsked(ix, meta, action)
    BY <2>1, TokenRead
  <2>5. Builder(j.request) = "native"
    BY <1>3 DEF PaysToken
  <2> QED
    BY <2>2, <2>3, <2>4, <2>5
<1>4. CASE /\ PaysPool(j) /\ ixs = HandshakeIxs(action, j.units, j.mint)
           /\ eq.frac \in 0..TrueDecimals[j.mint]
  <2>1. /\ j.mint \in Mints /\ Builder(j.request) = "handshake"
        /\ j.units = ToBaseUnits(eq, TrueDecimals[j.mint])
        /\ IsExactAmount(action.amount)
    BY <1>4 DEF PaysPool, Payable, Action
  <2>2. \E ix, memo :
            /\ HandshakeIxs(action, j.units, j.mint) = <<ix>>
            /\ IsIx(ix) /\ ix.program = "handshake" /\ ix.op = "create_transfer" /\ ~ix.short
            /\ ix.accounts[1] = action.from /\ ix.accounts[3] = Key(j.mint)
            /\ ix.args = [recipient |-> action.to, amount |-> j.units, memo |-> memo]
            /\ "memo" \in DOMAIN action => memo = action.memo
            /\ Payments(ix) = {[mint |-> j.mint, from |-> action.from, to |-> action.to,
                                units |-> j.units]}
    BY <1>1, <2>1, PoolIx
  <2>3. PICK ix, memo :
            /\ ixs = <<ix>>
            /\ IsIx(ix) /\ ix.program = "handshake" /\ ix.op = "create_transfer" /\ ~ix.short
            /\ ix.accounts[1] = action.from /\ ix.accounts[3] = Key(j.mint)
            /\ ix.args = [recipient |-> action.to, amount |-> j.units, memo |-> memo]
            /\ "memo" \in DOMAIN action => memo = action.memo
    BY <1>4, <2>2
  <2>4. IsSingle(j.tx, ix)
    <3>1. j.tx.ixs = BuildInstructionList(<<ix>>, TRUE)
      BY <2>3
    <3> QED
      BY <2>3, <3>1, SingleList
  <2>5. GetDecimals(MintAt(ix, 3), meta) = TrueDecimals[j.mint]
    <3>1. Key(j.mint) # Unresolved /\ Key(j.mint).name[1] = j.mint
      <4>1. <<j.mint>> # <<"">>
        <5>1. j.mint # ""
          BY <2>1 DEF Mints
        <5> QED
          BY <5>1
      <4> QED
        BY <4>1 DEF Key, Unresolved
    <3>2. PICK i : i = 3
      OBVIOUS
    <3>3. i \in DOMAIN j.tx.ixs /\ j.tx.ixs[i] = ix
      <4>1. DOMAIN j.tx.ixs = 1..3 /\ j.tx.ixs[3] = ix
        BY <2>4 DEF IsSingle
      <4>2. i \in 1..3
        BY <3>2
      <4> QED
        BY <3>2, <4>1, <4>2
    <3>4. /\ MintAt(j.tx.ixs[i], 3) = j.tx.ixs[i].accounts[3].name[1]
          /\ GetDecimals(j.tx.ixs[i].accounts[3].name[1], FetchedMeta(j.tx, TRUE))
             = TrueDecimals[j.tx.ixs[i].accounts[3].name[1]]
      BY <2>3, <3>1, <3>3, DecimalsRead
    <3> QED
      BY <2>3, <3>1, <3>3, <3>4
  <2>6. ReadAsAsked(ix, meta, action)
    <3>1. ix.args = [recipient |-> action.to,
                     amount |-> ToBaseUnits(action.amount.eq, TrueDecimals[j.mint]),
                     memo |-> memo]
      BY <2>1, <2>3
    <3> QED
      BY <1>1, <1>4, <2>1, <2>3, <2>5, <3>1, CreationRead
  <2> QED
    BY <2>1, <2>3, <2>4, <2>6
<1> QED
  BY <1>1, <1>2, <1>3, <1>4

\* What is built is matched by the analyzer that checks it.
LEMMA BuiltMatchesHolds ==
    ASSUME ConstantsAssumption, IInv
    PROVE  BuiltMatches
<1> DEFINE intent == job.request.intent
<1> SUFFICES ASSUME job.pc = "answered", IsTransfer(job.request), job.metaRead, ~replaced,
                    \A i \in DOMAIN job.tx.ixs : job.tx.ixs[i].program # "ata",
                    \/ Field(intent, "program") = "none"
                    \/ \E i \in DOMAIN job.tx.ixs : job.tx.ixs[i].program = intent.program
             PROVE  job.result.match = "full"
  BY DEF BuiltMatches
<1>1. /\ JobOK(job) /\ StageOK(job, chain, rows, replaced) /\ AnswerOK(job)
      /\ job.request \in Requests /\ job.units \in Nat /\ replaced = FALSE
  BY DEF IInv, JobOK, StageOK
<1>2. job.request.kind = "build" /\ Action(job.request).action = "transfer"
  BY DEF IsTransfer
<1>3. BuildOK(job, chain, FALSE)
  BY <1>1, <1>2 DEF StageOK
<1>4. PICK ixs : Draft(job, FALSE, ixs) /\ job.tx.ixs = BuildInstructionList(ixs, TRUE)
  BY <1>1, <1>3 DEF BuildOK
<1>5. Buildable(job.request)
  BY <1>3 DEF BuildOK
<1>6. IsTransaction(job.tx)
  BY <1>1, <1>2, AnsweredTransaction
<1>7. PICK reads \in Reads :
          /\ job.metaRead = (reads.first /\ reads.second)
          /\ job.result.match = Matching(job.tx, intent, reads)
  BY <1>1, <1>2 DEF AnswerOK
<1>8. reads.first = TRUE /\ reads.second = TRUE
  BY <1>7 DEF Reads
<1>9. PICK meta : meta = FetchedMeta(job.tx, TRUE)
  OBVIOUS
<1>10. PICK ix :
          /\ IsSingle(job.tx, ix)
          /\ ReadAsAsked(ix, meta, Action(job.request))
          /\ ix.program = "system" =>
                 /\ 2 \in DOMAIN ix.accounts
                 /\ DecodeInstruction(ix, meta).params.to = ix.accounts[2]
          /\ \/ Builder(job.request) = "native" /\ ix.program \in {"system", "token"}
             \/ Builder(job.request) = "handshake" /\ ix.program = "handshake"
  BY <1>1, <1>2, <1>4, <1>5, <1>6, <1>9, DraftRead
<1>11. Field(intent, "program") = "none" \/ intent.program \in {"budget", ix.program}
  <2>1. \A i \in DOMAIN job.tx.ixs : job.tx.ixs[i].program \in {"budget", ix.program}
    BY <1>10, BudgetIxs DEF IsSingle
  <2> QED
    BY <2>1
<1>12. FetchedMeta(job.tx, reads.first) = meta /\ FetchedMeta(job.tx, reads.second) = meta
  BY <1>8, <1>9
<1>13. Matching(job.tx, intent, reads) = "full"
  BY <1>1, <1>2, <1>5, <1>10, <1>11, <1>12, SingleMatches
<1> QED
  BY <1>7, <1>13

\* BuiltMatches is an invariant: a transfer the endpoint has built, whose token account was
\* there and whose metadata could be read, is always a full match of its own intent. The
\* builders and the analyzer, written apart, agree on amounts, accounts and programs.
THEOREM BuiltAlwaysMatches == Spec => []BuiltMatches
  BY AlwaysIInv, BuiltMatchesHolds, ConstantsAssumption, PTL
==============================================================================
