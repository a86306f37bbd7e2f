-------------------------- MODULE OperatorsProofs --------------------------
(***************************************************************************)
(* Proofs about Operators: types whatever requests overlap, and rows that  *)
(* are exactly those of the account as long as each instruction since it   *)
(* was closed is indexed before the next one executes.                     *)
(***************************************************************************)
EXTENDS Operators, SequenceTheorems, FiniteSetTheorems, TLAPS

----------------------------------------------------------------------------
(* The inductive invariant                                                 *)

\* No two rows of a set belong to the same operator.
OnePerOperator(rows) == \A x, y \in rows : x.operator = y.operator => x = y

Distinct(slots) == \A i, j \in DOMAIN slots : slots[i] = slots[j] => i = j

DistinctSlots == chain # None => Distinct(chain)

SeenOnce == \A r \in Requests : OnePerOperator(req[r].seen)

\* What holds whatever overlaps.
Sane == TypeOK /\ OnePerOperator(operators) /\ DistinctSlots /\ SeenOnce

\* Without a row of the account there is nothing of it.
NoStray == status = None => operators = {} /\ \A r \in Requests : req[r].row = None

Rows == {x.operator : x \in operators}

\* The rows are those of the account.
Mirrored ==
    /\ chain = None <=> status # "ACTIVE"
    /\ Rows = (IF chain = None THEN {} ELSE Used(chain))

\* The rows are those of the account, or i is what they lack.
Due(i) ==
    CASE i.kind = "CreateAccount" ->
             Mirrored \/ (chain # None /\ status # "ACTIVE" /\ Rows = {})
      [] i.kind = "AddOperator" ->
             \/ Mirrored
             \/ /\ chain # None /\ chain # <<>> /\ status = "ACTIVE"
                /\ Used(chain) = Rows \cup {chain[Len(chain)]}
      [] i.kind = "RemoveOperator" ->
             \/ Mirrored
             \/ /\ chain # None /\ status = "ACTIVE"
                /\ i.operator \notin Used(chain)
                /\ Rows = Used(chain) \cup {i.operator}
      [] i.kind = "CloseAccount" -> chain = None /\ (status = None => operators = {})
      [] OTHER -> Mirrored

\* What request r has read is still so.
Faithful(r) ==
    /\ Due(req[r].instruction)
    /\ req[r].pc # "landed" => req[r].found = chain
    /\ req[r].pc \in {"located", "read"} => req[r].row = status /\ ~NothingThere(r)
    /\ req[r].pc = "read" => req[r].seen = operators

Quiet == \A r \in Requests : ~Indexing(r)

\* What holds while every instruction is indexed before the next one executes.
InOrder ==
    orderly =>
        /\ \A r, q \in Requests : Indexing(r) /\ Indexing(q) => r = q
        /\ Quiet => Mirrored
        /\ \A r \in Requests : Indexing(r) => Faithful(r)

----------------------------------------------------------------------------
(* Slots                                                                   *)

\* The used slots of an account are a sequence.
LEMMA SlotFacts ==
    ASSUME NEW s \in Slots
    PROVE  /\ s \in Seq(Wallets) /\ Len(s) \in 0..MaxOperators /\ Len(s) \in Nat
           /\ DOMAIN s = 1..Len(s) /\ s # None
           /\ \A k \in 1..Len(s) : s[k] \in Wallets
           /\ Used(s) \subseteq Wallets
           /\ \A k \in 1..Len(s) : s[k] \in Used(s)
           /\ \A w \in Used(s) : \E k \in 1..Len(s) : s[k] = w
<1>1. PICK n \in 0..MaxOperators : s \in [1..n -> Wallets]
  BY DEF Slots
<1>2. n \in Nat
  BY <1>1, ConstantsAssumption
<1>3. s \in Seq(Wallets)
  BY <1>1, <1>2, SeqDef
<1>4. Len(s) \in Nat /\ DOMAIN s = 1..Len(s) /\ DOMAIN s = 1..n
  BY <1>1, <1>3, LenProperties
<1>5. Len(s) = n
  <2>1. 1..Len(s) = 1..n
    BY <1>4
  <2>2. Len(s) <= n
    <3>1. CASE Len(s) = 0
      BY <1>2, <3>1
    <3>2. CASE Len(s) # 0
      <4>1. Len(s) \in 1..Len(s)
        BY <1>4, <3>2
      <4>2. Len(s) \in 1..n
        BY <2>1, <4>1
      <4> QED
        BY <1>2, <1>4, <4>2
    <3> QED
      BY <3>1, <3>2
  <2>3. n <= Len(s)
    <3>1. CASE n = 0
      BY <1>4, <3>1
    <3>2. CASE n # 0
      <4>1. n \in 1..n
        BY <1>2, <3>2
      <4>2. n \in 1..Len(s)
        BY <2>1, <4>1
      <4> QED
        BY <1>2, <1>4, <4>2
    <3> QED
      BY <3>1, <3>2
  <2>4. Len(s) \in Nat
    BY <1>4
  <2> QED
    BY <1>2, <2>2, <2>3, <2>4
<1>6. \A k \in 1..Len(s) : s[k] \in Wallets
  BY <1>1, <1>5
<1>7. Used(s) = {s[k] : k \in 1..Len(s)}
  BY <1>4 DEF Used
<1>8. s # None
  BY ConstantsAssumption
<1> QED
  BY <1>1, <1>3, <1>4, <1>5, <1>6, <1>7, <1>8

\* A sequence of wallets that fits is a list of used slots.
LEMMA SlotsAre ==
    ASSUME NEW s, NEW n \in 0..MaxOperators, s \in [1..n -> Wallets]
    PROVE  s \in Slots
  BY DEF Slots

\* An operator that is added gets the last slot.
LEMMA SlotAdded ==
    ASSUME NEW s \in Slots, NEW w \in Wallets, Len(s) < MaxOperators
    PROVE  /\ Append(s, w) \in Slots /\ Append(s, w) # <<>> /\ Append(s, w) # None
           /\ Append(s, w)[Len(Append(s, w))] = w
           /\ Used(Append(s, w)) = Used(s) \cup {w}
           /\ Distinct(s) /\ w \notin Used(s) => Distinct(Append(s, w))
<1> DEFINE t == Append(s, w)
           n == Len(s)
<1>1. /\ s \in Seq(Wallets) /\ n \in Nat /\ n \in 0..MaxOperators /\ DOMAIN s = 1..n
      /\ \A k \in 1..n : s[k] \in Used(s) /\ s[k] \in Wallets
      /\ \A x \in Used(s) : \E k \in 1..n : s[k] = x
  BY SlotFacts
<1>2. /\ t \in Seq(Wallets) /\ Len(t) = n + 1
      /\ \A k \in 1..n : t[k] = s[k]
      /\ t[n + 1] = w
  BY <1>1, AppendProperties
<1>3. t \in [1..(n + 1) -> Wallets] /\ DOMAIN t = 1..(n + 1)
  BY <1>2, LenProperties
<1>4. n + 1 \in 0..MaxOperators
  BY <1>1, ConstantsAssumption
<1>5. t \in Slots /\ t # None
  BY <1>3, <1>4, SlotsAre, SlotFacts
<1>6. t # <<>>
  BY <1>1, <1>2, EmptySeq
<1>7. Used(t) = Used(s) \cup {w}
  <2>1. \A x \in Used(t) : \E k \in 1..(n + 1) : t[k] = x
    BY <1>3 DEF Used
  <2>2. \A k \in 1..(n + 1) : t[k] \in Used(t)
    BY <1>3 DEF Used
  <2> HIDE DEF t, n
  <2>3. \A k \in 1..(n + 1) : k \in 1..n \/ k = n + 1
    BY <1>1
  <2>4. \A k \in 1..n : k \in 1..(n + 1)
    BY <1>1
  <2>5. n + 1 \in 1..(n + 1)
    BY <1>1
  <2>6. Used(t) \subseteq Used(s) \cup {w}
    BY <1>1, <1>2, <2>1, <2>3
  <2>7. Used(s) \cup {w} \subseteq Used(t)
    BY <1>1, <1>2, <2>2, <2>4, <2>5
  <2> QED
    BY <2>6, <2>7
<1>8. ASSUME Distinct(s), w \notin Used(s)
      PROVE  Distinct(t)
  <2> HIDE DEF t, n
  <2>1. \A i, j \in 1..n : s[i] = s[j] => i = j
    BY <1>1, <1>8 DEF Distinct
  <2>2. \A k \in 1..(n + 1) : k \in 1..n \/ k = n + 1
    BY <1>1
  <2>3. \A i, j \in 1..(n + 1) : t[i] = t[j] => i = j
    BY <1>1, <1>2, <1>8, <2>1, <2>2
  <2> QED
    BY <1>3, <2>3 DEF Distinct
<1> QED
  BY <1>2, <1>5, <1>6, <1>7, <1>8

\* An operator that is removed leaves every other in a slot.
LEMMA SlotRemoved ==
    ASSUME NEW s \in Slots, NEW w \in Used(s), Distinct(s)
    PROVE  /\ Without(s, w) \in Slots
           /\ Used(Without(s, w)) = Used(s) \ {w}
           /\ Distinct(Without(s, w))
<1> DEFINE t == Without(s, w)
           n == Len(s)
<1>1. /\ n \in Nat /\ n \in 0..MaxOperators /\ DOMAIN s = 1..n
      /\ \A k \in 1..n : s[k] \in Used(s) /\ s[k] \in Wallets
      /\ \A x \in Used(s) : \E k \in 1..n : s[k] = x
  BY SlotFacts
<1>2. PICK i \in 1..n : s[i] = w
  BY <1>1
<1>3. \A j, k \in 1..n : s[j] = s[k] => j = k
  BY <1>1 DEF Distinct
<1>4. t = [k \in 1..(n - 1) |-> IF s[k] = w THEN s[n] ELSE s[k]]
  BY DEF Without
<1> HIDE DEF t, n
<1>5. /\ n - 1 \in 0..MaxOperators /\ n \in 1..n
      /\ \A k \in 1..(n - 1) : k \in 1..n /\ k # n
      /\ \A k \in 1..n : k # n => k \in 1..(n - 1)
  BY <1>1, <1>2, ConstantsAssumption
<1>6. DOMAIN t = 1..(n - 1) /\ \A k \in 1..(n - 1) : t[k] = IF s[k] = w THEN s[n] ELSE s[k]
  BY <1>4
<1>7. t \in Slots
  <2>1. \A k \in 1..(n - 1) : (IF s[k] = w THEN s[n] ELSE s[k]) \in Wallets
    BY <1>1, <1>5
  <2>2. t \in [1..(n - 1) -> Wallets]
    BY <1>4, <2>1
  <2> QED
    BY <1>5, <2>2, SlotsAre
<1>8. Used(t) = {t[k] : k \in 1..(n - 1)}
  BY <1>6 DEF Used
<1>9. Used(t) \subseteq Used(s) \ {w}
  <2> SUFFICES ASSUME NEW k \in 1..(n - 1)
               PROVE  t[k] \in Used(s) /\ t[k] # w
    BY <1>8
  <2> QED
    BY <1>1, <1>2, <1>3, <1>5, <1>6
<1>10. Used(s) \ {w} \subseteq Used(t)
  <2> SUFFICES ASSUME NEW x \in Used(s), x # w
               PROVE  \E k \in 1..(n - 1) : t[k] = x
    BY <1>8
  <2>1. PICK k \in 1..n : s[k] = x
    BY <1>1
  <2>2. CASE k # n
    BY <1>5, <1>6, <2>1, <2>2
  <2>3. CASE k = n
    <3>1. i \in 1..(n - 1)
      BY <1>2, <1>5, <2>1, <2>3
    <3> QED
      BY <1>2, <1>6, <2>1, <2>3, <3>1
  <2> QED
    BY <2>2, <2>3
<1>11. Distinct(t)
  <2> SUFFICES ASSUME NEW j \in 1..(n - 1), NEW k \in 1..(n - 1), t[j] = t[k]
               PROVE  j = k
    BY <1>6 DEF Distinct
  <2> QED
    BY <1>2, <1>3, <1>5, <1>6
<1> QED
  BY <1>7, <1>9, <1>10, <1>11 DEF t

\* An account starts with no operator or with one.
LEMMA FewSlots ==
    /\ <<>> \in Slots /\ Used(<<>>) = {} /\ Distinct(<<>>)
    /\ \A w \in Wallets : <<w>> \in Slots /\ Used(<<w>>) = {w} /\ Distinct(<<w>>)
<1>1. 0 \in 0..MaxOperators /\ 1 \in 0..MaxOperators
  BY ConstantsAssumption
<1>2. <<>> \in [1..0 -> Wallets] /\ DOMAIN <<>> = {}
  OBVIOUS
<1>3. ASSUME NEW w \in Wallets
      PROVE  <<w>> \in [1..1 -> Wallets] /\ DOMAIN <<w>> = {1} /\ <<w>>[1] = w
  OBVIOUS
<1>4. <<>> \in Slots
  BY <1>1, <1>2, SlotsAre
<1>5. \A w \in Wallets : <<w>> \in Slots
  BY <1>1, <1>3, SlotsAre
<1>6. Used(<<>>) = {} /\ Distinct(<<>>)
  BY <1>2 DEF Used, Distinct
<1>7. ASSUME NEW w \in Wallets
      PROVE  Used(<<w>>) = {w} /\ Distinct(<<w>>)
  BY <1>3 DEF Used, Distinct
<1> QED
  BY <1>4, <1>5, <1>6, <1>7

\* The kinds of instructions and their operators.
LEMMA InstructionTypes ==
    ASSUME NEW i \in Instruction
    PROVE  /\ i.kind \in {"CreateAccount", "AddOperator", "RemoveOperator", "CloseAccount",
                          "Other"}
           /\ i.operator \in Wallets \cup {None}
           /\ i.kind \in {"AddOperator", "RemoveOperator"} => i.operator \in Wallets
  BY DEF Instruction

\* What an instruction that succeeds makes of the used slots.
LEMMA AfterInstruction ==
    ASSUME TypeOK, DistinctSlots, NEW i \in Instruction, Applies(i)
    PROVE  /\ After(i) \in Slots \cup {None}
           /\ After(i) # None => Distinct(After(i))
           /\ i.kind = "CreateAccount" => chain = None /\ After(i) # None
           /\ i.kind = "AddOperator" =>
                  /\ chain # None /\ After(i) # None /\ After(i) # <<>>
                  /\ After(i)[Len(After(i))] = i.operator
                  /\ Used(After(i)) = Used(chain) \cup {i.operator}
           /\ i.kind = "RemoveOperator" =>
                  /\ chain # None /\ After(i) # None /\ i.operator \in Used(chain)
                  /\ Used(After(i)) = Used(chain) \ {i.operator}
           /\ i.kind = "CloseAccount" => chain # None /\ After(i) = None
           /\ i.kind = "Other" => After(i) = chain
<1>1. chain \in Slots \cup {None}
  BY DEF TypeOK
<1>2. CASE i.kind = "CreateAccount"
  <2>1. chain = None
    BY <1>2 DEF Applies
  <2>2. After(i) = IF i.operator = None THEN <<>> ELSE <<i.operator>>
    BY <1>2 DEF After
  <2>3. After(i) \in Slots /\ Distinct(After(i))
    BY <2>2, InstructionTypes, FewSlots
  <2>4. After(i) # None
    BY <2>3, SlotFacts
  <2> QED
    BY <1>2, <2>1, <2>3, <2>4
<1>3. CASE i.kind = "AddOperator"
  <2>1. chain # None /\ Len(chain) < MaxOperators /\ i.operator \notin Used(chain)
    BY <1>3 DEF Applies
  <2>2. After(i) = Append(chain, i.operator)
    BY <1>3 DEF After
  <2>3. chain \in Slots /\ Distinct(chain) /\ i.operator \in Wallets
    BY <1>1, <1>3, <2>1, InstructionTypes DEF DistinctSlots
  <2>4. /\ After(i) \in Slots /\ After(i) # <<>> /\ After(i) # None
        /\ After(i)[Len(After(i))] = i.operator
        /\ Used(After(i)) = Used(chain) \cup {i.operator}
        /\ Distinct(After(i))
    BY <2>1, <2>2, <2>3, SlotAdded
  <2> QED
    BY <1>3, <2>1, <2>4
<1>4. CASE i.kind = "RemoveOperator"
  <2>1. chain # None /\ i.operator \in Used(chain)
    BY <1>4 DEF Applies
  <2>2. After(i) = Without(chain, i.operator)
    BY <1>4 DEF After
  <2>3. chain \in Slots /\ Distinct(chain)
    BY <1>1, <2>1 DEF DistinctSlots
  <2>4. /\ After(i) \in Slots
        /\ Used(After(i)) = Used(chain) \ {i.operator}
        /\ Distinct(After(i))
    BY <2>1, <2>2, <2>3, SlotRemoved
  <2>5. After(i) # None
    BY <2>4, SlotFacts
  <2> QED
    BY <1>4, <2>1, <2>4, <2>5
<1>5. CASE i.kind = "CloseAccount"
  <2>1. chain # None
    BY <1>5 DEF Applies
  <2>2. After(i) = None
    BY <1>5 DEF After
  <2> QED
    BY <1>5, <2>1, <2>2
<1>6. CASE i.kind = "Other"
  <2>1. chain # None
    BY <1>6 DEF Applies
  <2>2. After(i) = chain
    BY <1>6 DEF After
  <2> QED
    BY <1>1, <1>6, <2>1, <2>2 DEF DistinctSlots
<1> QED
  BY <1>2, <1>3, <1>4, <1>5, <1>6, InstructionTypes

----------------------------------------------------------------------------
(* One row each                                                            *)

\* A step of request r, which takes it to q.
LEMMA SaneFrame ==
    ASSUME Sane, NEW r \in Requests, NEW q \in Request, req' = [req EXCEPT ![r] = q],
           OnePerOperator(q.seen),
           chain' \in Slots \cup {None}, chain' # None => Distinct(chain'),
           status' \in {"ACTIVE", "CLOSED", None},
           operators' \subseteq OperatorRow, OnePerOperator(operators'),
           orderly' \in BOOLEAN
    PROVE  Sane'
<1>1. req' \in [Requests -> Request]
  BY DEF Sane, TypeOK
<1>2. \A x \in Requests : req'[x] = IF x = r THEN q ELSE req[x]
  BY DEF Sane, TypeOK
<1>3. SeenOnce'
  <2> SUFFICES ASSUME NEW x \in Requests PROVE OnePerOperator(req'[x].seen)
    BY DEF SeenOnce
  <2> QED
    BY <1>2 DEF Sane, SeenOnce
<1> QED
  BY <1>1, <1>3 DEF Sane, TypeOK, DistinctSlots

\* What is known of a request.
LEMMA RequestTypes ==
    ASSUME Sane, NEW r \in Requests
    PROVE  /\ req[r] \in Request /\ req[r].instruction \in Instruction
           /\ req[r].pc \in {"idle", "sent", "landed", "fetched", "located", "read"}
           /\ req[r].found \in Slots \cup {None}
           /\ req[r].row \in {"ACTIVE", "CLOSED", None}
           /\ req[r].seen \subseteq OperatorRow /\ OnePerOperator(req[r].seen)
           /\ OnePerOperator(operators) /\ operators \subseteq OperatorRow
           /\ chain \in Slots \cup {None} /\ (chain # None => Distinct(chain))
           /\ status \in {"ACTIVE", "CLOSED", None} /\ orderly \in BOOLEAN
           /\ req \in [Requests -> Request]
  BY DEF Sane, TypeOK, Request, SeenOnce, DistinctSlots

\* An id is free for an operator that has no row: there are more ids than requests
\* that may still hold one.
LEMMA FreshId ==
    ASSUME Sane, NEW w \in Wallets, \A x \in operators : x.operator # w
    PROVE  FreshRow(w) \in OperatorRow /\ FreshRow(w).operator = w
<1> DEFINE Ids == 1..(Cardinality(Requests) + 1)
           held == operators \cup UNION {req[q].seen : q \in Requests}
           Row(n) == [operator |-> w, id |-> n]
<1>1. \E n \in Ids : Row(n) \notin held
  <2> SUFFICES ASSUME \A n \in Ids : Row(n) \in held
               PROVE  FALSE
    OBVIOUS
  <2>1. \A n \in Ids : \E q \in Requests : Row(n) \in req[q].seen
    BY DEF Ids
  <2> DEFINE f == [n \in Ids |-> CHOOSE q \in Requests : Row(n) \in req[q].seen]
  <2>2. \A n \in Ids : f[n] \in Requests /\ Row(n) \in req[f[n]].seen
    BY <2>1
  <2>3. f \in [Ids -> Requests]
    BY <2>2
  <2>4. /\ IsFiniteSet(Requests) /\ Cardinality(Requests) \in Nat
    BY ConstantsAssumption, FS_CardinalityType
  <2>5. IsFiniteSet(Ids) /\ Cardinality(Ids) = Cardinality(Requests) + 1
    BY <2>4, FS_Interval
  <2>6. Cardinality(Requests) < Cardinality(Ids)
    BY <2>4, <2>5
  <2> HIDE DEF Ids, f
  <2>7. \E m, n \in Ids : m # n /\ f[m] = f[n]
    BY <2>3, <2>4, <2>5, <2>6, FS_PigeonHole
  <2>8. PICK m \in Ids, n \in Ids : m # n /\ f[m] = f[n]
    BY <2>7
  <2>9. Row(m) \in req[f[m]].seen /\ Row(n) \in req[f[m]].seen /\ f[m] \in Requests
    BY <2>2, <2>8
  <2>10. Row(m) = Row(n)
    BY <2>9 DEF Sane, SeenOnce, OnePerOperator
  <2> QED
    BY <2>8, <2>10
<1> DEFINE id == CHOOSE n \in Ids : Row(n) \notin held
<1>2. id \in Ids
  BY <1>1
<1>3. FreshRow(w) = Row(id)
  BY DEF FreshRow
<1> HIDE DEF id
<1> QED
  BY <1>2, <1>3 DEF OperatorRow

\* Sending: the request is only remembered.
LEMMA SendIsSane ==
    ASSUME Sane, NEW r \in Requests, NEW i \in Instruction, Send(r, i)
    PROVE  Sane'
<1> DEFINE q == [req[r] EXCEPT !.pc = "sent", !.instruction = i]
<1>1. req' = [req EXCEPT ![r] = q] /\ UNCHANGED <<chain, status, operators, orderly>>
  BY RequestTypes DEF Send
<1>2. q \in Request /\ q.seen = req[r].seen
  BY RequestTypes DEF Request
<1> HIDE DEF q
<1> QED
  BY <1>1, <1>2, RequestTypes, SaneFrame

\* The transaction executes, or fails.
LEMMA LandIsSane ==
    ASSUME Sane, NEW r \in Requests, Land(r)
    PROVE  Sane'
<1> DEFINE q == [req[r] EXCEPT !.pc = "landed"]
<1>1. /\ req' = [req EXCEPT ![r] = q] /\ UNCHANGED <<status, operators>>
      /\ chain' = chain \/ (Applies(req[r].instruction) /\ chain' = After(req[r].instruction))
      /\ orderly' \in BOOLEAN
  BY RequestTypes DEF Land
<1>2. q \in Request /\ q.seen = req[r].seen
  BY RequestTypes DEF Request
<1>3. chain' \in Slots \cup {None} /\ (chain' # None => Distinct(chain'))
  BY <1>1, RequestTypes, AfterInstruction DEF Sane
<1> HIDE DEF q
<1> QED
  BY <1>1, <1>2, <1>3, RequestTypes, SaneFrame

\* The account is read.
LEMMA FetchIsSane ==
    ASSUME Sane, NEW r \in Requests, Fetch(r)
    PROVE  Sane'
<1>1. PICK missed \in BOOLEAN :
        /\ req' = [req EXCEPT ![r].pc = "fetched",
                              ![r].found = IF missed THEN None ELSE chain]
        /\ orderly' = (orderly /\ (missed => chain = None))
  BY DEF Fetch
<1> DEFINE q == [req[r] EXCEPT !.pc = "fetched", !.found = IF missed THEN None ELSE chain]
<1>2. /\ req' = [req EXCEPT ![r] = q] /\ UNCHANGED <<chain, status, operators>>
  BY <1>1, RequestTypes DEF Fetch
<1>3. orderly' \in BOOLEAN
  BY <1>1, RequestTypes
<1>4. q \in Request /\ q.seen = req[r].seen
  BY RequestTypes DEF Request
<1> HIDE DEF q
<1> QED
  BY <1>2, <1>3, <1>4, RequestTypes, SaneFrame

\* A request that is not under way.
LEMMA IdleRequest == Idle \in Request /\ OnePerOperator(Idle.seen)
  BY DEF Idle, Request, Instruction, OnePerOperator

\* The row of the account is read.
LEMMA LocateIsSane ==
    ASSUME Sane, NEW r \in Requests, Locate(r)
    PROVE  Sane'
<1> DEFINE p == [req[r] EXCEPT !.pc = "located", !.row = status]
           q == IF NothingThere(r) THEN Idle ELSE p
<1>1. /\ req' = [req EXCEPT ![r] = q]
      /\ UNCHANGED <<chain, status, operators, orderly>>
  BY DEF Locate
<1>2. p \in Request /\ p.seen = req[r].seen
  BY RequestTypes DEF Request
<1>3. q \in Request /\ OnePerOperator(q.seen)
  <2> HIDE DEF p
  <2> QED
    BY <1>2, RequestTypes, IdleRequest
<1> HIDE DEF q
<1> QED
  BY <1>1, <1>3, RequestTypes, SaneFrame

\* The rows of the operators are read.
LEMMA ReadIsSane ==
    ASSUME Sane, NEW r \in Requests, ReadOperators(r)
    PROVE  Sane'
<1> DEFINE seen == IF req[r].row = None THEN {} ELSE operators
           q == [req[r] EXCEPT !.pc = "read", !.seen = seen]
<1>1. /\ req' = [req EXCEPT ![r] = q]
      /\ UNCHANGED <<chain, status, operators, orderly>>
  BY RequestTypes DEF ReadOperators
<1>2. seen \subseteq OperatorRow /\ OnePerOperator(seen)
  BY RequestTypes DEF OnePerOperator
<1>3. q \in Request /\ q.seen = seen
  <2> HIDE DEF seen
  <2> QED
    BY <1>2, RequestTypes DEF Request
<1> HIDE DEF q, seen
<1> QED
  BY <1>1, <1>2, <1>3, RequestTypes, SaneFrame

\* The operators a flush inserts are wallets.
LEMMA InsertTypes ==
    ASSUME Sane, NEW r \in Requests
    PROVE  Inserts(r) \subseteq Wallets
<1> DEFINE s == req[r].found
<1>1. s \in Slots \cup {None}
  BY RequestTypes
<1>2. CASE s = None
  BY <1>2 DEF Inserts
<1>3. CASE s # None
  <2>1. s \in Slots
    BY <1>1, <1>3
  <2>2. Used(s) \subseteq Wallets
    BY <2>1, SlotFacts
  <2>3. NewOperator(s) \subseteq Wallets
    <3>1. CASE s = <<>>
      BY <3>1 DEF NewOperator
    <3>2. CASE s # <<>>
      <4>1. Len(s) \in 1..Len(s)
        BY <2>1, <3>2, SlotFacts, EmptySeq
      <4>2. s[Len(s)] \in Wallets
        BY <2>1, <4>1, SlotFacts
      <4> QED
        BY <3>2, <4>2 DEF NewOperator
    <3> QED
      BY <3>1, <3>2
  <2> QED
    BY <2>2, <2>3 DEF Inserts
<1> QED
  BY <1>2, <1>3

\* All is saved at once, or nothing.
LEMMA FlushIsSane ==
    ASSUME Sane, NEW r \in Requests, Flush(r)
    PROVE  Sane'
<1>1. /\ req' = [req EXCEPT ![r] = Idle] /\ UNCHANGED <<chain, orderly>>
  BY DEF Flush
<1>2. CASE UNCHANGED <<status, operators>>
  BY <1>1, <1>2, IdleRequest, RequestTypes, SaneFrame
<1>3. CASE /\ ~Conflicts(r)
           /\ status' = IF NewStatus(r) # req[r].row THEN NewStatus(r) ELSE status
           /\ \E gone \in Deletes(r) :
                 operators' = (operators \ gone) \cup {FreshRow(w) : w \in Inserts(r)}
  <2>1. PICK gone \in Deletes(r) :
          operators' = (operators \ gone) \cup {FreshRow(w) : w \in Inserts(r)}
    BY <1>3
  <2>2. \A w \in Inserts(r) : \A x \in operators : x.operator # w
    BY <1>3 DEF Conflicts
  <2>3. \A w \in Inserts(r) : FreshRow(w) \in OperatorRow /\ FreshRow(w).operator = w
    BY <2>2, InsertTypes, FreshId
  <2>4. operators' \subseteq OperatorRow
    BY <2>1, <2>3, RequestTypes
  <2>5. OnePerOperator(operators')
    <3> SUFFICES ASSUME NEW x \in operators', NEW y \in operators', x.operator = y.operator
                 PROVE  x = y
      BY DEF OnePerOperator
    <3>1. CASE x \in operators /\ y \in operators
      BY <3>1, RequestTypes DEF OnePerOperator
    <3>2. CASE x \notin operators
      <4>1. PICK w \in Inserts(r) : x = FreshRow(w)
        BY <2>1, <3>2
      <4>2. y \notin operators
        BY <2>2, <2>3, <4>1
      <4> QED
        BY <2>1, <2>3, <4>1, <4>2
    <3>3. CASE y \notin operators
      <4>1. PICK w \in Inserts(r) : y = FreshRow(w)
        BY <2>1, <3>3
      <4>2. x \notin operators
        BY <2>2, <2>3, <4>1
      <4> QED
        BY <2>1, <2>3, <4>1, <4>2
    <3> QED
      BY <3>1, <3>2, <3>3
  <2>6. status' \in {"ACTIVE", "CLOSED", None}
    BY <1>3, RequestTypes DEF NewStatus
  <2> QED
    BY <1>1, <2>4, <2>5, <2>6, IdleRequest, RequestTypes, SaneFrame
<1> QED
  BY <1>2, <1>3 DEF Flush

\* A request that is lost.
LEMMA LoseIsSane ==
    ASSUME Sane, NEW r \in Requests, Lose(r)
    PROVE  Sane'
<1>1. /\ req' = [req EXCEPT ![r] = Idle] /\ UNCHANGED <<chain, status, operators>>
      /\ orderly' \in BOOLEAN
  BY RequestTypes DEF Lose
<1> QED
  BY <1>1, IdleRequest, RequestTypes, SaneFrame

\* What the owner does elsewhere.
LEMMA ElsewhereIsSane ==
    ASSUME Sane, NEW i \in Instruction, Elsewhere(i)
    PROVE  Sane'
<1>1. /\ chain' \in Slots \cup {None} /\ (chain' # None => Distinct(chain'))
  BY AfterInstruction DEF Sane, Elsewhere
<1>2. UNCHANGED <<status, operators, req>> /\ orderly' \in BOOLEAN
  BY DEF Elsewhere
<1> QED
  BY <1>1, <1>2 DEF Sane, TypeOK, OnePerOperator, DistinctSlots, SeenOnce

LEMMA NextIsSane == Sane /\ [Next]_vars => Sane'
<1>1. CASE UNCHANGED vars
  BY <1>1 DEF vars, Sane, TypeOK, OnePerOperator, DistinctSlots, SeenOnce
<1>2. CASE Next
  BY <1>2, ElsewhereIsSane, SendIsSane, LandIsSane, FetchIsSane, LocateIsSane, ReadIsSane,
     FlushIsSane, LoseIsSane DEF Next
<1> QED
  BY <1>1, <1>2

LEMMA SaneAtFirst == Init => Sane
<1> SUFFICES ASSUME Init PROVE Sane
  OBVIOUS
<1>1. req \in [Requests -> Request] /\ SeenOnce
  BY IdleRequest DEF Init, SeenOnce
<1> QED
  BY <1>1 DEF Init, Sane, TypeOK, OnePerOperator, DistinctSlots

THEOREM AlwaysSane == Spec => []Sane
  BY SaneAtFirst, NextIsSane, PTL DEF Spec

\* The state keeps its type, whatever requests overlap: every operator to insert has
\* an id free.
THEOREM TypeAlwaysOK == Spec => []TypeOK
  BY AlwaysSane, PTL DEF Sane

\* A row of the account, once there, stays.
LEMMA NextHasNoStray == Sane /\ NoStray /\ [Next]_vars => NoStray'
<1> SUFFICES ASSUME Sane, NoStray, [Next]_vars, status' = None
             PROVE  operators' = {} /\ \A x \in Requests : req'[x].row = None
  BY DEF NoStray
<1>1. \A r \in Requests : ~Flush(r) \/ (status' = status /\ operators' = operators)
  <2> SUFFICES ASSUME NEW r \in Requests,
                      status' = IF NewStatus(r) # req[r].row THEN NewStatus(r) ELSE status
               PROVE  FALSE
    BY DEF Flush
  <2>1. NewStatus(r) \in {"ACTIVE", "CLOSED"} \/ (NewStatus(r) = req[r].row /\ req[r].row # None)
    BY DEF NewStatus
  <2>2. status = None /\ NewStatus(r) = req[r].row /\ req[r].row # None
    BY <2>1, ConstantsAssumption
  <2> QED
    BY <2>2 DEF NoStray
<1>2. status' = status /\ operators' = operators
  BY <1>1 DEF Next, Elsewhere, Send, Land, Fetch, Locate, ReadOperators, Lose, vars
<1>3. operators = {} /\ status = None /\ \A x \in Requests : req[x].row = None
  BY <1>2 DEF NoStray
<1>4. Idle.row = None
  BY DEF Idle
<1>5. ASSUME NEW r \in Requests,
             \/ \E i \in Instruction : Send(r, i)
             \/ Land(r) \/ Fetch(r) \/ Locate(r) \/ ReadOperators(r) \/ Flush(r) \/ Lose(r)
      PROVE  \E q : req' = [req EXCEPT ![r] = q] /\ q.row = None
  <2>1. /\ req[r] \in Request /\ req \in [Requests -> Request] /\ req[r].row = None
    BY <1>3, RequestTypes
  <2>2. ASSUME NEW i \in Instruction, Send(r, i)
        PROVE  \E q : req' = [req EXCEPT ![r] = q] /\ q.row = None
    <3> DEFINE q == [req[r] EXCEPT !.pc = "sent", !.instruction = i]
    <3>1. req' = [req EXCEPT ![r] = q] /\ q.row = None
      BY <2>1, <2>2 DEF Send, Request
    <3> QED
      BY <3>1
  <2>3. CASE Land(r)
    <3> DEFINE q == [req[r] EXCEPT !.pc = "landed"]
    <3>1. req' = [req EXCEPT ![r] = q] /\ q.row = None
      BY <2>1, <2>3 DEF Land, Request
    <3> QED
      BY <3>1
  <2>4. CASE Fetch(r)
    <3>1. PICK missed \in BOOLEAN :
            req' = [req EXCEPT ![r].pc = "fetched",
                               ![r].found = IF missed THEN None ELSE chain]
      BY <2>4 DEF Fetch
    <3>2. PICK found : found = IF missed THEN None ELSE chain
      OBVIOUS
    <3> DEFINE q == [req[r] EXCEPT !.pc = "fetched", !.found = found]
    <3>3. req' = [req EXCEPT ![r] = q] /\ q.row = None
      BY <2>1, <3>1, <3>2 DEF Request
    <3> QED
      BY <3>3
  <2>5. CASE Locate(r)
    <3> DEFINE q == [req[r] EXCEPT !.pc = "located", !.row = status]
    <3>1. q.row = None
      BY <1>3, <2>1 DEF Request
    <3>2. req' = [req EXCEPT ![r] = q] \/ req' = [req EXCEPT ![r] = Idle]
      BY <2>5 DEF Locate
    <3> QED
      BY <1>4, <3>1, <3>2
  <2>6. CASE ReadOperators(r)
    <3>1. PICK seen : seen = IF req[r].row = None THEN {} ELSE operators
      OBVIOUS
    <3> DEFINE q == [req[r] EXCEPT !.pc = "read", !.seen = seen]
    <3>2. req' = [req EXCEPT ![r] = q] /\ q.row = None
      BY <2>1, <2>6, <3>1 DEF ReadOperators, Request
    <3> QED
      BY <3>2
  <2>7. CASE Flush(r) \/ Lose(r)
    BY <1>4, <2>7 DEF Flush, Lose
  <2> QED
    BY <1>5, <2>2, <2>3, <2>4, <2>5, <2>6, <2>7
<1>6. \A x \in Requests : req'[x].row = None
  <2>1. CASE req' = req
    BY <1>3, <2>1
  <2>2. CASE req' # req
    <3>1. PICK r \in Requests :
            \/ \E i \in Instruction : Send(r, i)
            \/ Land(r) \/ Fetch(r) \/ Locate(r) \/ ReadOperators(r) \/ Flush(r) \/ Lose(r)
      BY <2>2 DEF Next, Elsewhere, vars
    <3>2. PICK q : req' = [req EXCEPT ![r] = q] /\ q.row = None
      BY <1>5, <3>1
    <3>3. \A x \in Requests : req'[x] = IF x = r THEN q ELSE req[x]
      BY <3>2 DEF Sane, TypeOK
    <3> QED
      BY <1>3, <3>2, <3>3
  <2> QED
    BY <2>1, <2>2
<1> QED
  BY <1>2, <1>3, <1>6

LEMMA NoStrayAtFirst == Init => NoStray
  BY DEF Init, NoStray, Idle

----------------------------------------------------------------------------
(* In order                                                                *)

Busy(pc) == pc \in {"landed", "fetched", "located", "read"}

\* InOrder after a step, from what holds after it.
LEMMA InOrderNext ==
    ASSUME orderly' =>
               /\ \A x, y \in Requests : Busy(req'[x].pc) /\ Busy(req'[y].pc) => x = y
               /\ (\A x \in Requests : ~Busy(req'[x].pc)) => Mirrored'
               /\ \A x \in Requests : Busy(req'[x].pc) => Faithful(x)'
    PROVE  InOrder'
  BY DEF InOrder, Quiet, Indexing, Busy

\* InOrder in the terms of Busy.
LEMMA InOrderNow ==
    ASSUME InOrder, orderly
    PROVE  /\ \A x, y \in Requests : Busy(req[x].pc) /\ Busy(req[y].pc) => x = y
           /\ (\A x \in Requests : ~Busy(req[x].pc)) => Mirrored
           /\ \A x \in Requests : Busy(req[x].pc) => Faithful(x)
  BY DEF InOrder, Quiet, Indexing, Busy

\* What has not changed is as it was.
LEMMA SameMirror ==
    ASSUME UNCHANGED <<chain, status, operators>>
    PROVE  /\ Mirrored' <=> Mirrored
           /\ \A i \in Instruction : Due(i)' <=> Due(i)
<1>1. Rows' = Rows
  BY DEF Rows
<1>2. Mirrored' <=> Mirrored
  BY <1>1 DEF Mirrored
<1> QED
  BY <1>1, <1>2 DEF Due

\* A step that changes nothing that is being indexed.
LEMMA QuietStep ==
    ASSUME Sane, InOrder, UNCHANGED <<chain, status, operators>>, orderly' => orderly,
           \A x \in Requests : /\ Busy(req'[x].pc) <=> Busy(req[x].pc)
                               /\ Busy(req[x].pc) => req'[x] = req[x]
    PROVE  InOrder'
<1> SUFFICES ASSUME orderly'
             PROVE  /\ \A x, y \in Requests : Busy(req'[x].pc) /\ Busy(req'[y].pc) => x = y
                    /\ (\A x \in Requests : ~Busy(req'[x].pc)) => Mirrored'
                    /\ \A x \in Requests : Busy(req'[x].pc) => Faithful(x)'
  BY InOrderNext
<1>1. ASSUME NEW x \in Requests, Busy(req'[x].pc)
      PROVE  Faithful(x)'
  <2>1. req'[x] = req[x] /\ Faithful(x) /\ req[x].instruction \in Instruction
    BY <1>1, InOrderNow, RequestTypes
  <2> QED
    BY <2>1, SameMirror DEF Faithful, NothingThere
<1> QED
  BY <1>1, InOrderNow, SameMirror

\* Sending starts no indexing.
LEMMA SendInOrder ==
    ASSUME Sane, InOrder, NEW r \in Requests, NEW i \in Instruction, Send(r, i)
    PROVE  InOrder'
<1> DEFINE q == [req[r] EXCEPT !.pc = "sent", !.instruction = i]
<1>1. /\ req' = [req EXCEPT ![r] = q] /\ UNCHANGED <<chain, status, operators, orderly>>
      /\ req[r].pc = "idle"
  BY RequestTypes DEF Send
<1>2. q.pc = "sent"
  BY RequestTypes DEF Request
<1> HIDE DEF q
<1>3. \A x \in Requests : req'[x] = IF x = r THEN q ELSE req[x]
  BY <1>1, RequestTypes
<1> QED
  BY <1>1, <1>2, <1>3, QuietStep DEF Busy

\* An instruction executes when nothing is being indexed: it is what the rows lack; a
\* close makes do with any rows.
LEMMA LandInOrder ==
    ASSUME Sane, NoStray, InOrder, NEW r \in Requests, Land(r)
    PROVE  InOrder'
<1> SUFFICES ASSUME orderly' PROVE InOrder'
  BY DEF InOrder
<1> DEFINE q == [req[r] EXCEPT !.pc = "landed"]
<1>6. PICK i \in Instruction : i = req[r].instruction
  BY RequestTypes
<1>1. PICK ok \in BOOLEAN :
        /\ ok => Applies(i)
        /\ chain' = IF ok THEN After(i) ELSE chain
        /\ orderly' = (/\ \A x \in Requests : ~Indexing(x)
                       /\ IF i.kind = "CloseAccount" THEN ok ELSE orderly)
  BY <1>6 DEF Land
<1>2. /\ IF i.kind = "CloseAccount" THEN ok ELSE orderly
      /\ \A x \in Requests : ~Busy(req[x].pc)
  BY <1>1 DEF Indexing, Busy
<1>3. i.kind # "CloseAccount" => Mirrored
  BY <1>2, InOrderNow
<1>4. req' = [req EXCEPT ![r] = q] /\ status' = status /\ operators' = operators
  BY RequestTypes DEF Land
<1>5. q.pc = "landed" /\ q.instruction = i
  BY <1>6, RequestTypes DEF Request
<1>7. Rows' = Rows
  BY <1>4 DEF Rows
<1>8. Due(i)'
  <2>1. CASE ~ok
    <3>1. Mirrored' /\ i.kind # "CloseAccount"
      BY <1>1, <1>2, <1>3, <1>4, <2>1, SameMirror
    <3> QED
      BY <3>1, <1>6, InstructionTypes DEF Due
  <2>2. CASE ok
    <3>1. chain' = After(i) /\ Applies(i)
      BY <1>1, <2>2
    <3>2. /\ i.kind = "CreateAccount" => chain = None /\ chain' # None
          /\ i.kind = "AddOperator" =>
                 /\ chain # None /\ chain' # None /\ chain' # <<>>
                 /\ chain'[Len(chain')] = i.operator
                 /\ Used(chain') = Used(chain) \cup {i.operator}
          /\ i.kind = "RemoveOperator" =>
                 /\ chain # None /\ chain' # None /\ i.operator \in Used(chain)
                 /\ Used(chain') = Used(chain) \ {i.operator}
          /\ i.kind = "CloseAccount" => chain # None /\ chain' = None
          /\ i.kind = "Other" => chain' = chain
      BY <3>1, <1>6, AfterInstruction DEF Sane
    <3>3. CASE i.kind = "CreateAccount"
      BY <1>3, <1>4, <1>7, <3>2, <3>3 DEF Due, Mirrored
    <3>4. CASE i.kind = "AddOperator"
      BY <1>3, <1>4, <1>7, <3>2, <3>4 DEF Due, Mirrored
    <3>5. CASE i.kind = "RemoveOperator"
      BY <1>3, <1>4, <1>7, <3>2, <3>5 DEF Due, Mirrored
    <3>6. CASE i.kind = "CloseAccount"
      BY <1>4, <3>2, <3>6 DEF Due, NoStray
    <3>7. CASE i.kind = "Other"
      BY <1>3, <1>4, <1>7, <3>2, <3>7 DEF Due, Mirrored
    <3> QED
      BY <1>6, <3>3, <3>4, <3>5, <3>6, <3>7, InstructionTypes
  <2> QED
    BY <2>1, <2>2
<1> HIDE DEF q
<1>9. \A x \in Requests : req'[x] = IF x = r THEN q ELSE req[x]
  BY <1>4, RequestTypes
<1>10. \A x \in Requests : Busy(req'[x].pc) <=> x = r
  BY <1>2, <1>5, <1>9 DEF Busy
<1>11. Faithful(r)'
  BY <1>5, <1>8, <1>9 DEF Faithful
<1> QED
  BY <1>10, <1>11, InOrderNext

\* A step by which the one request that is being indexed reads on.
LEMMA ReadingOn ==
    ASSUME Sane, InOrder, NEW r \in Requests, NEW q, req' = [req EXCEPT ![r] = q],
           orderly, Busy(req[r].pc),
           Busy(q.pc) => Faithful(r)',
           ~Busy(q.pc) => Mirrored'
    PROVE  InOrder'
<1>1. \A x \in Requests : req'[x] = IF x = r THEN q ELSE req[x]
  BY RequestTypes
<1>2. \A x \in Requests : Busy(req'[x].pc) => x = r
  BY <1>1, InOrderNow
<1> QED
  BY <1>1, <1>2, InOrderNext

\* What is fetched is the account.
LEMMA FetchInOrder ==
    ASSUME Sane, InOrder, NEW r \in Requests, Fetch(r)
    PROVE  InOrder'
<1> SUFFICES ASSUME orderly' PROVE InOrder'
  BY DEF InOrder
<1>1. PICK missed \in BOOLEAN :
        /\ req' = [req EXCEPT ![r].pc = "fetched",
                              ![r].found = IF missed THEN None ELSE chain]
        /\ orderly' = (orderly /\ (missed => chain = None))
  BY DEF Fetch
<1>2. orderly /\ (IF missed THEN None ELSE chain) = chain
  BY <1>1
<1> DEFINE q == [req[r] EXCEPT !.pc = "fetched", !.found = chain]
<1>3. /\ req' = [req EXCEPT ![r] = q] /\ UNCHANGED <<chain, status, operators>>
      /\ Busy(req[r].pc)
  BY <1>1, <1>2, RequestTypes DEF Fetch, Busy
<1>4. q.pc = "fetched" /\ q.instruction = req[r].instruction /\ q.found = chain
  BY RequestTypes DEF Request
<1> HIDE DEF q
<1>5. PICK i \in Instruction : i = req[r].instruction
  BY RequestTypes
<1>6. Faithful(r) /\ req'[r] = q
  BY <1>2, <1>3, InOrderNow, RequestTypes
<1>7. Due(i)
  BY <1>5, <1>6 DEF Faithful
<1>8. Due(i)'
  BY <1>3, <1>7, SameMirror
<1>9. Faithful(r)'
  BY <1>3, <1>4, <1>5, <1>6, <1>8 DEF Faithful
<1> QED
  BY <1>2, <1>3, <1>4, <1>9, ReadingOn DEF Busy

\* Where nothing is there to index, the rows are right already; and there are rows
\* only under a row of the account.
LEMMA NothingIsRight ==
    ASSUME Sane, NEW i \in Instruction, Due(i)
    PROVE  /\ chain = None /\ (i.kind # "CloseAccount" \/ status = None) => Mirrored
           /\ status = None => operators = {}
<1>1. ASSUME chain = None, i.kind # "CloseAccount"
      PROVE  Mirrored
  BY <1>1, InstructionTypes DEF Due
<1>2. ASSUME i.kind = "CloseAccount", chain = None, status = None
      PROVE  Mirrored
  BY <1>2, ConstantsAssumption DEF Due, Mirrored, Rows
<1>3. ASSUME status = None
      PROVE  operators = {}
  <2>1. status # "ACTIVE"
    BY <1>3, ConstantsAssumption
  <2>2. CASE Mirrored
    <3>1. Rows = {}
      BY <2>1, <2>2 DEF Mirrored
    <3> QED
      BY <3>1 DEF Rows
  <2>3. CASE ~Mirrored
    BY <1>3, <2>1, <2>3, InstructionTypes DEF Due, Rows
  <2> QED
    BY <2>2, <2>3
<1> QED
  BY <1>1, <1>2, <1>3

\* The row that is read is the row of the account.
LEMMA LocateInOrder ==
    ASSUME Sane, InOrder, NEW r \in Requests, Locate(r)
    PROVE  InOrder'
<1> SUFFICES ASSUME orderly' PROVE InOrder'
  BY DEF InOrder
<1>1. /\ req[r].pc = "fetched" /\ Busy(req[r].pc) /\ orderly
      /\ UNCHANGED <<chain, status, operators>>
  BY DEF Locate, Busy
<1>2. PICK i \in Instruction : i = req[r].instruction
  BY RequestTypes
<1>3. Faithful(r) /\ Due(i) /\ req[r].found = chain
  BY <1>1, <1>2, InOrderNow DEF Faithful
<1>4. Due(i)'
  BY <1>1, <1>3, SameMirror
<1>5. CASE NothingThere(r)
  <2>1. req' = [req EXCEPT ![r] = Idle]
    BY <1>5 DEF Locate
  <2>2. Mirrored'
    BY <1>1, <1>2, <1>3, <1>5, NothingIsRight, SameMirror DEF NothingThere
  <2> QED
    BY <1>1, <2>1, <2>2, ReadingOn DEF Idle, Busy
<1>6. CASE ~NothingThere(r)
  <2> DEFINE q == [req[r] EXCEPT !.pc = "located", !.row = status]
  <2>1. req' = [req EXCEPT ![r] = q]
    BY <1>6 DEF Locate
  <2>2. /\ q.pc = "located" /\ q.instruction = i /\ q.found = chain /\ q.row = status
    BY <1>2, <1>3, RequestTypes DEF Request
  <2> HIDE DEF q
  <2>3. req'[r] = q
    BY <2>1, RequestTypes
  <2>4. ~(chain = None /\ (i.kind # "CloseAccount" \/ status = None))
    BY <1>2, <1>3, <1>6 DEF NothingThere
  <2>5. Faithful(r)'
    BY <1>1, <1>4, <2>2, <2>3, <2>4 DEF Faithful, NothingThere
  <2> QED
    BY <1>1, <2>1, <2>2, <2>5, ReadingOn DEF Busy
<1> QED
  BY <1>5, <1>6

\* The rows that are read are all the rows.
LEMMA ReadInOrder ==
    ASSUME Sane, InOrder, NEW r \in Requests, ReadOperators(r)
    PROVE  InOrder'
<1> SUFFICES ASSUME orderly' PROVE InOrder'
  BY DEF InOrder
<1>1. /\ req[r].pc = "located" /\ Busy(req[r].pc) /\ orderly
      /\ UNCHANGED <<chain, status, operators>>
  BY DEF ReadOperators, Busy
<1>2. PICK i \in Instruction : i = req[r].instruction
  BY RequestTypes
<1>3. /\ Faithful(r) /\ Due(i) /\ req[r].found = chain /\ req[r].row = status
      /\ ~NothingThere(r)
  BY <1>1, <1>2, InOrderNow DEF Faithful
<1>4. Due(i)'
  BY <1>1, <1>3, SameMirror
<1>5. (IF req[r].row = None THEN {} ELSE operators) = operators
  BY <1>3, NothingIsRight
<1> DEFINE q == [req[r] EXCEPT !.pc = "read", !.seen = operators]
<1>6. req' = [req EXCEPT ![r] = q]
  BY <1>5, RequestTypes DEF ReadOperators
<1>7. /\ q.pc = "read" /\ q.instruction = i /\ q.found = chain /\ q.row = status
      /\ q.seen = operators
  BY <1>2, <1>3, RequestTypes DEF Request
<1> HIDE DEF q
<1>8. req'[r] = q
  BY <1>6, RequestTypes
<1>9. ~(chain = None /\ (i.kind # "CloseAccount" \/ status = None))
  BY <1>2, <1>3 DEF NothingThere
<1>10. Faithful(r)'
  BY <1>1, <1>4, <1>7, <1>8, <1>9 DEF Faithful, NothingThere
<1> QED
  BY <1>1, <1>6, <1>7, <1>10, ReadingOn DEF Busy

\* What a flush that conflicts with nothing leaves.
LEMMA FlushedRows ==
    ASSUME Sane, NEW r \in Requests, ~Conflicts(r), NEW gone,
           operators' = (operators \ gone) \cup {FreshRow(w) : w \in Inserts(r)}
    PROVE  Rows' = {x.operator : x \in operators \ gone} \cup Inserts(r)
<1>1. \A w \in Inserts(r) : FreshRow(w).operator = w
  BY InsertTypes, FreshId DEF Conflicts
<1>2. Rows' = {x.operator : x \in operators'}
  BY DEF Rows
<1>3. {x.operator : x \in operators'} \subseteq
        {x.operator : x \in operators \ gone} \cup Inserts(r)
  BY <1>1
<1>4. {x.operator : x \in operators \ gone} \cup Inserts(r) \subseteq
        {x.operator : x \in operators'}
  <2>1. \A x \in operators \ gone : x \in operators'
    OBVIOUS
  <2>2. \A w \in Inserts(r) : FreshRow(w) \in operators'
    OBVIOUS
  <2> QED
    BY <1>1, <2>1, <2>2
<1> QED
  BY <1>2, <1>3, <1>4

\* The guesses from the slots are right: what a flush makes of the rows is what the
\* account is.
LEMMA FlushMirrors ==
    ASSUME Sane, NEW r \in Requests, Faithful(r), Flush(r)
    PROVE  Mirrored'
<1>1. PICK i \in Instruction : i = req[r].instruction
  BY RequestTypes
<1>2. /\ Due(i) /\ req[r].found = chain /\ req[r].row = status /\ req[r].seen = operators
      /\ ~(chain = None /\ (i.kind # "CloseAccount" \/ status = None))
      /\ chain' = chain
  BY <1>1 DEF Faithful, Flush, NothingThere
<1>3. ~Conflicts(r)
  <2>1. \A x \in operators : x.operator \notin Inserts(r)
    BY <1>2 DEF Inserts
  <2> QED
    BY <1>2, <2>1 DEF Conflicts
<1>4. /\ status' = IF NewStatus(r) # status THEN NewStatus(r) ELSE status
      /\ \E gone \in Deletes(r) :
            operators' = (operators \ gone) \cup {FreshRow(w) : w \in Inserts(r)}
  BY <1>2, <1>3 DEF Flush
<1>5. status' = NewStatus(r)
  BY <1>4
<1>6. PICK gone \in Deletes(r) :
        operators' = (operators \ gone) \cup {FreshRow(w) : w \in Inserts(r)}
  BY <1>4
<1>7. Rows' = {x.operator : x \in operators \ gone} \cup Inserts(r)
  BY <1>3, <1>6, FlushedRows
<1>8. Inserts(r) =
        IF chain = None THEN {}
        ELSE (CASE i.kind = "AddOperator" -> NewOperator(chain)
                [] i.kind = "CreateAccount" -> Used(chain)
                [] OTHER -> {}) \ Rows
  BY <1>1, <1>2 DEF Inserts, Rows
<1>9. gone = {} => {x.operator : x \in operators \ gone} = Rows
  BY DEF Rows
<1>10. CASE i.kind = "CreateAccount"
  <2>1. gone = {} /\ chain # None /\ NewStatus(r) = "ACTIVE"
    BY <1>1, <1>2, <1>10 DEF Deletes, NewStatus
  <2>2. Rows' = Rows \cup Used(chain)
    BY <1>7, <1>8, <1>9, <1>10, <2>1
  <2>3. Rows = Used(chain) \/ Rows = {}
    BY <1>2, <1>10, <2>1 DEF Due, Mirrored
  <2> QED
    BY <1>2, <1>5, <2>1, <2>2, <2>3 DEF Mirrored
<1>11. CASE i.kind = "AddOperator"
  <2>1. gone = {} /\ chain # None
    BY <1>1, <1>2, <1>11 DEF Deletes
  <2>2. status = "ACTIVE"
    BY <1>2, <1>11, <2>1 DEF Due, Mirrored
  <2>3. NewStatus(r) = "ACTIVE"
    BY <1>1, <1>2, <1>11, <2>2, ConstantsAssumption DEF NewStatus
  <2>4. Rows' = Rows \cup NewOperator(chain)
    BY <1>7, <1>8, <1>9, <1>11, <2>1
  <2>5. chain \in Slots
    BY <2>1, RequestTypes
  <2>6. Rows \cup NewOperator(chain) = Used(chain)
    <3>1. CASE Mirrored
      <4>1. Rows = Used(chain)
        BY <2>1, <3>1 DEF Mirrored
      <4>2. NewOperator(chain) \subseteq Used(chain)
        <5>1. CASE chain = <<>>
          BY <5>1 DEF NewOperator
        <5>2. CASE chain # <<>>
          <6>1. Len(chain) \in 1..Len(chain)
            BY <2>5, <5>2, SlotFacts, EmptySeq
          <6> QED
            BY <2>5, <5>2, <6>1, SlotFacts DEF NewOperator
        <5> QED
          BY <5>1, <5>2
      <4> QED
        BY <4>1, <4>2
    <3>2. CASE ~Mirrored
      BY <1>2, <1>11, <3>2 DEF Due, NewOperator
    <3> QED
      BY <3>1, <3>2
  <2> QED
    BY <1>2, <1>5, <2>1, <2>3, <2>4, <2>6 DEF Mirrored
<1>12. CASE i.kind = "RemoveOperator"
  <2>1. chain # None /\ Inserts(r) = {}
    BY <1>2, <1>8, <1>12
  <2>2. status = "ACTIVE"
    BY <1>2, <1>12, <2>1 DEF Due, Mirrored
  <2>3. NewStatus(r) = "ACTIVE"
    BY <1>1, <1>2, <1>12, <2>2, ConstantsAssumption DEF NewStatus
  <2> DEFINE removed == RemovedRows(operators, chain)
  <2>4. gone \in IF removed = {} THEN {{}} ELSE {{x} : x \in removed}
    BY <1>1, <1>2, <1>6, <1>12, <2>1 DEF Deletes
  <2>5. removed = {x \in operators : x.operator \notin Used(chain)}
    BY DEF RemovedRows
  <2> HIDE DEF removed
  <2>6. {x.operator : x \in operators \ gone} = Used(chain)
    <3>1. CASE Mirrored
      <4>1. Rows = Used(chain)
        BY <2>1, <3>1 DEF Mirrored
      <4>2. removed = {}
        BY <2>5, <4>1 DEF Rows
      <4>3. gone = {}
        BY <2>4, <4>2
      <4> QED
        BY <1>9, <4>1, <4>3
    <3>2. CASE ~Mirrored
      <4>1. i.operator \notin Used(chain) /\ Rows = Used(chain) \cup {i.operator}
        BY <1>2, <1>12, <3>2 DEF Due
      <4>2. PICK y \in operators : y.operator = i.operator
        BY <4>1 DEF Rows
      <4>3. y \in removed
        BY <2>5, <4>1, <4>2
      <4>4. PICK x \in removed : gone = {x}
        BY <2>4, <4>3
      <4>5. x.operator = i.operator
        BY <2>5, <4>1, <4>4 DEF Rows
      <4>6. \A z \in operators : z.operator = i.operator => z = x
        BY <2>5, <4>4, <4>5, RequestTypes DEF OnePerOperator
      <4>7. \A z \in operators \ gone : z.operator \in Used(chain)
        BY <4>1, <4>4, <4>6 DEF Rows
      <4>8. \A w \in Used(chain) : \E z \in operators \ gone : z.operator = w
        BY <4>1, <4>4, <4>5 DEF Rows
      <4> QED
        BY <4>7, <4>8
    <3> QED
      BY <3>1, <3>2
  <2> QED
    BY <1>2, <1>5, <1>7, <2>1, <2>3, <2>6 DEF Mirrored
<1>13. CASE i.kind = "CloseAccount"
  <2>1. chain = None
    BY <1>2, <1>13 DEF Due
  <2>2. NewStatus(r) = "CLOSED" /\ gone = operators /\ Inserts(r) = {}
    BY <1>1, <1>2, <1>6, <1>8, <1>13, <2>1 DEF Deletes, NewStatus
  <2>3. Rows' = {}
    BY <1>7, <2>2
  <2> QED
    BY <1>2, <1>5, <2>1, <2>2, <2>3 DEF Mirrored
<1>14. CASE i.kind = "Other"
  <2>1. gone = {} /\ chain # None /\ Inserts(r) = {}
    BY <1>1, <1>2, <1>6, <1>8, <1>14 DEF Deletes
  <2>2. Mirrored
    BY <1>2, <1>14 DEF Due
  <2>3. NewStatus(r) = "ACTIVE"
    BY <1>1, <1>2, <1>14, <2>1, <2>2, ConstantsAssumption DEF NewStatus, Mirrored
  <2>4. Rows' = Rows
    BY <1>7, <1>9, <2>1
  <2> QED
    BY <1>2, <1>5, <2>1, <2>2, <2>3, <2>4 DEF Mirrored
<1> QED
  BY <1>10, <1>11, <1>12, <1>13, <1>14, InstructionTypes

LEMMA FlushInOrder ==
    ASSUME Sane, InOrder, NEW r \in Requests, Flush(r)
    PROVE  InOrder'
<1> SUFFICES ASSUME orderly' PROVE InOrder'
  BY DEF InOrder
<1>1. orderly /\ Busy(req[r].pc) /\ req' = [req EXCEPT ![r] = Idle]
  BY DEF Flush, Busy
<1>2. Mirrored'
  BY <1>1, InOrderNow, FlushMirrors
<1> QED
  BY <1>1, <1>2, ReadingOn DEF Idle, Busy

\* A request that is lost while its instruction is indexed breaks the order.
LEMMA LoseInOrder ==
    ASSUME Sane, InOrder, NEW r \in Requests, Lose(r)
    PROVE  InOrder'
<1> SUFFICES ASSUME orderly' PROVE InOrder'
  BY DEF InOrder
<1>1. /\ req' = [req EXCEPT ![r] = Idle] /\ UNCHANGED <<chain, status, operators>>
      /\ orderly /\ ~Busy(req[r].pc)
  BY DEF Lose, Indexing, Busy
<1>2. \A x \in Requests : req'[x] = IF x = r THEN Idle ELSE req[x]
  BY <1>1, RequestTypes
<1>3. ~Busy(Idle.pc)
  BY DEF Idle, Busy
<1> QED
  BY <1>1, <1>2, <1>3, QuietStep

\* So does an instruction that is not indexed and changes the slots.
LEMMA ElsewhereInOrder ==
    ASSUME Sane, InOrder, NEW i \in Instruction, Elsewhere(i)
    PROVE  InOrder'
<1> SUFFICES ASSUME orderly' PROVE InOrder'
  BY DEF InOrder
<1>1. orderly /\ UNCHANGED <<chain, status, operators, req>>
  BY DEF Elsewhere
<1> QED
  BY <1>1, QuietStep

LEMMA NextInOrder == Sane /\ NoStray /\ InOrder /\ [Next]_vars => InOrder'
<1>1. ASSUME Sane, InOrder, UNCHANGED vars
      PROVE  InOrder'
  BY <1>1, QuietStep DEF vars
<1>2. ASSUME Sane, NoStray, InOrder, Next
      PROVE  InOrder'
  BY <1>2, ElsewhereInOrder, SendInOrder, LandInOrder, FetchInOrder, LocateInOrder,
     ReadInOrder, FlushInOrder, LoseInOrder DEF Next
<1> QED
  BY <1>1, <1>2

LEMMA InOrderAtFirst == Init => InOrder
<1> SUFFICES ASSUME Init PROVE InOrder
  OBVIOUS
<1>1. Mirrored
  BY ConstantsAssumption DEF Init, Mirrored, Rows
<1>2. \A r \in Requests : ~Indexing(r)
  BY DEF Init, Idle, Indexing
<1> QED
  BY <1>1, <1>2 DEF InOrder

\* As long as, since the account was last closed or from the beginning, every instruction
\* is indexed before the next one executes, none is lost and no close fails, the rows are
\* those of the account between any two of them, whatever the number of slots, wallets and
\* requests: the guesses of findNewOperator and findRemovedOperator from the slots are
\* right, and a close leaves nothing of what was wrong (account.service.ts:229-402).
THEOREM MirrorStaysExact == Spec => []MirrorExact
<1>1. Sane /\ InOrder => MirrorExact
  BY DEF InOrder, MirrorExact, Mirrored, Quiet, Rows
<1>2. Spec => []NoStray
  BY NoStrayAtFirst, NextHasNoStray, AlwaysSane, PTL DEF Spec
<1>3. Spec => []InOrder
  BY <1>2, InOrderAtFirst, NextInOrder, AlwaysSane, PTL DEF Spec
<1> QED
  BY <1>1, <1>3, AlwaysSane, PTL
=============================================================================
