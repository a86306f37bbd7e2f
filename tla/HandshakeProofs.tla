--------------------------- MODULE HandshakeProofs ---------------------------
(***************************************************************************)
(* Proofs about Handshake, for every value of its constants: its           *)
(* accounting, and that it implements Escrow, since the vaults and running *)
(* totals of the program are one way to keep each sender's tokens apart    *)
(* until they are claimed or refunded.                                     *)
(***************************************************************************)
EXTENDS Handshake, FiniteSetTheorems, TLAPS

----------------------------------------------------------------------------
(* Counting the units owed to open transfers                               *)

\* The open transfers, those of one pool and the units owed to them are finite.
LEMMA OpenFinite ==
    ASSUME TypeOK, NEW p
    PROVE  /\ IsFiniteSet(OpenIn(p))
           /\ IsFiniteSet(EscrowUnits(p))
           /\ Cardinality(OpenIn(p)) \in Nat
           /\ Cardinality(EscrowUnits(p)) \in Nat
<1>1. IsFiniteSet(OpenIn(p))
  BY ConstantsAssumption, FS_Subset DEF OpenIn, Open
<1>2. IsFiniteSet(1..U64Max)
  BY FS_Interval, ConstantsAssumption
<1>3. IsFiniteSet(OpenIn(p) \X (1..U64Max))
  BY <1>1, <1>2, FS_Product
<1>4. IsFiniteSet(EscrowUnits(p))
  BY <1>3, FS_Subset DEF EscrowUnits
<1> QED
  BY <1>1, <1>4, FS_CardinalityType

\* A transfer of amount n holds n units.
LEMMA UnitsOfOne ==
    ASSUME NEW k, NEW n \in Nat
    PROVE  /\ IsFiniteSet({k} \X (1..n))
           /\ Cardinality({k} \X (1..n)) = n
<1>1. IsFiniteSet({k}) /\ Cardinality({k}) = 1
  BY FS_Singleton
<1>2. IsFiniteSet(1..n) /\ Cardinality(1..n) = n
  BY FS_Interval
<1>3. /\ IsFiniteSet({k} \X (1..n))
      /\ Cardinality({k} \X (1..n)) = Cardinality({k}) * Cardinality(1..n)
  BY <1>1, <1>2, FS_Product
<1>4. 1 * n = n
  OBVIOUS
<1> QED
  BY <1>1, <1>2, <1>3, <1>4

\* n units of a key that has none yet add n to any finite set of units.
LEMMA UnitsAdd ==
    ASSUME NEW S, IsFiniteSet(S), NEW k, NEW n \in Nat,
           S \cap ({k} \X (1..n)) = {}
    PROVE  Cardinality(S \cup ({k} \X (1..n))) = Cardinality(S) + n
<1> DEFINE T == {k} \X (1..n)
<1>1. IsFiniteSet(T) /\ Cardinality(T) = n
  BY UnitsOfOne
<1>2. Cardinality(S \cup T) = Cardinality(S) + Cardinality(T) - Cardinality(S \cap T)
  <2> HIDE DEF T
  <2> QED
    BY <1>1, FS_Union
<1>3. Cardinality(S \cap T) = 0
  BY FS_EmptySet
<1>4. Cardinality(S) \in Nat
  BY FS_CardinalityType
<1> QED
  BY <1>1, <1>2, <1>3, <1>4

\* Opening transfer k with record r adds r.amount units and one transfer to its
\* pool and nothing to any other.
LEMMA OpenAdds ==
    ASSUME TypeOK,
           NEW k \in Keys, NEW r \in SecureTransfer,
           transfers[k] = NoTransfer,
           transfers' = [transfers EXCEPT ![k] = r],
           NEW q \in PoolIds
    PROVE  /\ Cardinality(OpenIn(q)') =
                  Cardinality(OpenIn(q)) + (IF q = r.pool THEN 1 ELSE 0)
           /\ Cardinality(EscrowUnits(q)') =
                  Cardinality(EscrowUnits(q)) + (IF q = r.pool THEN r.amount ELSE 0)
<1>a. r # NoTransfer /\ r.amount \in 1..U64Max /\ U64Max \in Nat
  BY ConstantsAssumption DEF SecureTransfer
<1>f. transfers \in [Keys -> SecureTransfer \cup {NoTransfer}]
  BY DEF TypeOK
<1>1. CASE q # r.pool
  <2>1. OpenIn(q)' = OpenIn(q)
    BY <1>1, <1>a, <1>f DEF OpenIn, Open
  <2>2. \A j \in OpenIn(q) : transfers'[j] = transfers[j]
    BY <1>1, <1>a, <1>f DEF OpenIn, Open
  <2>3. EscrowUnits(q)' = EscrowUnits(q)
    BY <2>1, <2>2 DEF EscrowUnits
  <2> QED
    BY <1>1, <2>1, <2>3, OpenFinite
<1>2. CASE q = r.pool
  <2>1. OpenIn(q)' = OpenIn(q) \cup {k} /\ k \notin OpenIn(q)
    BY <1>2, <1>a, <1>f DEF OpenIn, Open
  <2>2. \A j \in OpenIn(q) : transfers'[j] = transfers[j]
    BY <1>f, <2>1
  <2>3. transfers'[k] = r
    BY <1>f
  <2>4. EscrowUnits(q)' = EscrowUnits(q) \cup ({k} \X (1..r.amount))
    BY <2>1, <2>2, <2>3, <1>a DEF EscrowUnits
  <2>5. EscrowUnits(q) \cap ({k} \X (1..r.amount)) = {}
    BY <2>1 DEF EscrowUnits
  <2>n. r.amount \in Nat /\ IsFiniteSet(EscrowUnits(q))
    BY <1>a, OpenFinite
  <2>6. Cardinality(EscrowUnits(q) \cup ({k} \X (1..r.amount)))
            = Cardinality(EscrowUnits(q)) + r.amount
    BY <2>5, <2>n, UnitsAdd
  <2>7. Cardinality(OpenIn(q)') = Cardinality(OpenIn(q)) + 1
    BY <2>1, OpenFinite, FS_AddElement
  <2> QED
    BY <1>2, <2>4, <2>6, <2>7
<1> QED
  BY <1>1, <1>2

\* Settling transfer k takes its amount in units and one transfer off its pool
\* and nothing off any other.
LEMMA CloseRemoves ==
    ASSUME TypeOK,
           NEW k \in Keys,
           transfers[k] # NoTransfer,
           transfers' = [transfers EXCEPT ![k] = NoTransfer],
           NEW q \in PoolIds
    PROVE  /\ Cardinality(OpenIn(q)) =
                  Cardinality(OpenIn(q)') + (IF q = transfers[k].pool THEN 1 ELSE 0)
           /\ Cardinality(EscrowUnits(q)) =
                  Cardinality(EscrowUnits(q)') +
                      (IF q = transfers[k].pool THEN transfers[k].amount ELSE 0)
           /\ Cardinality(OpenIn(q)') \in Nat /\ Cardinality(EscrowUnits(q)') \in Nat
<1> DEFINE r == transfers[k]
<1>f. transfers \in [Keys -> SecureTransfer \cup {NoTransfer}]
  BY DEF TypeOK
<1>a. r \in SecureTransfer /\ r.amount \in 1..U64Max /\ U64Max \in Nat
  BY <1>f, ConstantsAssumption DEF SecureTransfer
<1>p. /\ IsFiniteSet(OpenIn(q)') /\ IsFiniteSet(EscrowUnits(q)')
      /\ Cardinality(OpenIn(q)') \in Nat /\ Cardinality(EscrowUnits(q)') \in Nat
  <2>1. OpenIn(q)' \subseteq OpenIn(q) /\ EscrowUnits(q)' \subseteq EscrowUnits(q)
    BY <1>f DEF OpenIn, Open, EscrowUnits
  <2> QED
    BY <2>1, OpenFinite, FS_Subset, FS_CardinalityType
<1>1. CASE q # r.pool
  <2>1. OpenIn(q)' = OpenIn(q)
    BY <1>1, <1>f DEF OpenIn, Open
  <2>2. \A j \in OpenIn(q) : transfers'[j] = transfers[j]
    BY <1>1, <1>f DEF OpenIn, Open
  <2>3. EscrowUnits(q)' = EscrowUnits(q)
    BY <2>1, <2>2 DEF EscrowUnits
  <2> QED
    BY <1>1, <2>1, <2>3, OpenFinite, <1>p
<1>2. CASE q = r.pool
  <2>1. OpenIn(q) = OpenIn(q)' \cup {k} /\ k \notin OpenIn(q)'
    BY <1>2, <1>f DEF OpenIn, Open
  <2>2. \A j \in OpenIn(q)' : transfers'[j] = transfers[j]
    BY <1>f, <2>1
  <2>4. EscrowUnits(q) = EscrowUnits(q)' \cup ({k} \X (1..r.amount))
    BY <2>1, <2>2, <1>a DEF EscrowUnits
  <2>5. EscrowUnits(q)' \cap ({k} \X (1..r.amount)) = {}
    BY <2>1 DEF EscrowUnits
  <2>n. r.amount \in Nat
    BY <1>a
  <2>6. Cardinality(EscrowUnits(q)' \cup ({k} \X (1..r.amount)))
            = Cardinality(EscrowUnits(q)') + r.amount
    BY <2>5, <2>n, <1>p, UnitsAdd
  <2>7. Cardinality(OpenIn(q)) = Cardinality(OpenIn(q)') + 1
    BY <2>1, <1>p, FS_AddElement
  <2> QED
    BY <1>2, <2>4, <2>6, <2>7, <1>p
<1> QED
  BY <1>1, <1>2, <1>p

----------------------------------------------------------------------------
(* Types                                                                   *)

\* The fee of an amount is a natural number and at most the amount: the checked
\* subtraction of the fee in claim_transfer never fails.
LEMMA FeeType ==
    ASSUME NEW pool \in Pool, NEW amount \in Nat
    PROVE  /\ TransferFee(pool, amount) \in Nat
           /\ TransferFee(pool, amount) <= amount
<1> DEFINE bps == pool.transfer_fee_bps
<1>1. bps \in Nat /\ bps <= 10000
  <2>1. bps \in 0..MaxBps
    BY DEF Pool
  <2> HIDE DEF bps
  <2> QED
    BY <2>1 DEF MaxBps
<1>2. amount * bps \in Nat /\ amount * bps <= amount * 10000
  <2> HIDE DEF bps
  <2> QED
    BY <1>1
<1>3. \A x \in Nat : /\ x \div 10000 \in Nat
                    /\ x <= amount * 10000 => x \div 10000 <= amount
  OBVIOUS
<1> QED
  BY <1>2, <1>3 DEF TransferFee, MaxBps

\* Setting totals to natural numbers leaves a pool record a pool record.
LEMMA PoolUpdate ==
    ASSUME NEW pool \in Pool, NEW x \in Nat, NEW y \in Nat, NEW z \in Nat
    PROVE  /\ [pool EXCEPT !.total_deposits = x, !.total_escrowed = y,
                            !.total_transfers_created = z] \in Pool
           /\ [pool EXCEPT !.total_withdrawals = x, !.total_escrowed = y,
                            !.total_transfers_resolved = z] \in Pool
  BY DEF Pool

\* So does adding to collected_fees, zeroing it, and zeroing every counter.
LEMMA FeesType ==
    ASSUME NEW pool \in Pool, NEW fee \in Nat
    PROVE  /\ AddCollectedFees(pool, fee) \in Pool
           /\ ResetCollectedFees(pool) \in Pool
           /\ ResetCounters(pool) \in Pool
<1>1. pool.collected_fees + fee \in Nat
  BY DEF Pool
<1>2. \A x \in Nat : [pool EXCEPT !.collected_fees = x] \in Pool
  BY DEF Pool
<1>3. ResetCounters(pool) \in Pool
  BY DEF Pool, ResetCounters
<1> QED
  BY <1>1, <1>2, <1>3 DEF AddCollectedFees, ResetCollectedFees

\* The two updates of the totals produce a pool record.
LEMMA TotalsType ==
    ASSUME NEW pool \in Pool, NEW amount \in Nat
    PROVE  /\ AddDeposit(pool, amount) \in Pool
           /\ CanAddWithdrawal(pool, amount) => AddWithdrawal(pool, amount) \in Pool
<1>1. /\ pool.total_deposits + amount \in Nat
      /\ pool.total_escrowed + amount \in Nat
      /\ pool.total_transfers_created + 1 \in Nat
      /\ pool.total_withdrawals + amount \in Nat
      /\ pool.total_transfers_resolved + 1 \in Nat
  BY DEF Pool
<1>2. CanAddWithdrawal(pool, amount) => pool.total_escrowed - amount \in Nat
  BY DEF Pool, CanAddWithdrawal
<1> QED
  BY <1>1, <1>2, PoolUpdate DEF AddDeposit, AddWithdrawal

\* What an open transfer and its pool look like.
LEMMA OpenType ==
    ASSUME TypeOK, NEW k \in Keys, transfers[k] # NoTransfer
    PROVE  /\ transfers[k] \in SecureTransfer
           /\ transfers[k].pool \in PoolIds
           /\ transfers[k].amount \in Nat \ {0}
           /\ transfers[k].amount <= U64Max
           /\ Sender(k) \in Wallets /\ Recipient(k) \in Wallets
           /\ pools[transfers[k].pool] # NoPool =>
                  /\ pools[transfers[k].pool] \in Pool
                  /\ pools[transfers[k].pool].mint \in Mints
<1>1. transfers[k] \in SecureTransfer
  BY DEF TypeOK
<1>2. k \in Wallets \X Wallets \X Nat
  BY ConstantsAssumption
<1>3. /\ transfers[k].pool \in PoolIds
      /\ transfers[k].amount \in Nat \ {0}
      /\ transfers[k].amount <= U64Max
  BY <1>1, ConstantsAssumption DEF SecureTransfer
<1>4. pools[transfers[k].pool] # NoPool => pools[transfers[k].pool] \in Pool
  BY <1>3 DEF TypeOK
<1> QED
  BY <1>1, <1>2, <1>3, <1>4 DEF Sender, Recipient, Pool

\* Adding tokens to a balance, or taking away no more than it has, keeps a
\* family of balances a family of natural numbers.
LEMMA MoveType ==
    ASSUME NEW A, NEW f \in [A -> Nat], NEW a \in A, NEW n \in Nat
    PROVE  /\ [f EXCEPT ![a] = @ + n] \in [A -> Nat]
           /\ f[a] >= n => [f EXCEPT ![a] = @ - n] \in [A -> Nat]
  OBVIOUS

\* A refund keeps the types.
LEMMA RefundType ==
    ASSUME TypeOK, NEW k \in Keys, transfers[k] # NoTransfer, Refund(k)
    PROVE  TypeOK'
<1> DEFINE t == transfers[k]
           p == t.pool
           m == pools[p].mint
<1>1. /\ p \in PoolIds /\ t.amount \in Nat /\ Sender(k) \in Wallets
      /\ pools[p] \in Pool /\ m \in Mints
  BY OpenType DEF Refund, CanRefund
<1>2. pools' \in [PoolIds -> Pool \cup {NoPool}]
  BY <1>1, TotalsType DEF Refund, CanRefund, TypeOK
<1>3. vault' \in [PoolIds \X Mints -> Nat] /\ balance' \in [Wallets \X Mints -> Nat]
  BY <1>1, MoveType DEF Refund, CanRefund, TypeOK
<1>4. transfers' \in [Keys -> SecureTransfer \cup {NoTransfer}]
  BY DEF Refund, TypeOK
<1> QED
  BY <1>2, <1>3, <1>4 DEF Refund, TypeOK

\* A claim keeps the types.
LEMMA ClaimType ==
    ASSUME TypeOK, NEW k \in Keys, NEW w \in Wallets, ClaimTransfer(w, k)
    PROVE  TypeOK'
<1> DEFINE t == transfers[k]
           p == t.pool
           m == pools[p].mint
           fee == TransferFee(pools[p], t.amount)
           net == t.amount - fee
<1>1. /\ p \in PoolIds /\ t.amount \in Nat
      /\ pools[p] \in Pool /\ m \in Mints
  BY OpenType DEF ClaimTransfer, CanClaim
<1>2. fee \in Nat
  BY <1>1, FeeType
<1>3. net \in Nat
  BY <1>1, <1>2 DEF ClaimTransfer, CanClaim
<1>4. AddWithdrawal(pools[p], t.amount) \in Pool
  BY <1>1, TotalsType DEF ClaimTransfer, CanClaim
<1>5. AddCollectedFees(AddWithdrawal(pools[p], t.amount), fee) \in Pool
  BY <1>2, <1>4, FeesType
<1>6. pools' \in [PoolIds -> Pool \cup {NoPool}]
  BY <1>1, <1>5 DEF ClaimTransfer, TypeOK
<1>7. vault' \in [PoolIds \X Mints -> Nat] /\ balance' \in [Wallets \X Mints -> Nat]
  BY <1>1, <1>3, MoveType DEF ClaimTransfer, CanClaim, TypeOK
<1>8. transfers' \in [Keys -> SecureTransfer \cup {NoTransfer}]
  BY DEF ClaimTransfer, TypeOK
<1> QED
  BY <1>6, <1>7, <1>8 DEF ClaimTransfer, TypeOK

\* Creating a transfer keeps the types.
LEMMA CreateType ==
    ASSUME TypeOK, NEW k \in Keys, NEW p \in PoolIds, NEW amount \in Amounts,
           NEW window \in Windows, CreateTransfer(k, p, amount, window)
    PROVE  TypeOK'
<1> DEFINE m == pools[p].mint
           r == [pool |-> p, amount |-> amount,
                 claimable_after |-> window[1], claimable_until |-> window[2]]
<1>1. pools[p] \in Pool /\ m \in Mints /\ amount \in Nat /\ Sender(k) \in Wallets
  BY ConstantsAssumption DEF CreateTransfer, TypeOK, Pool, Sender
<1>2. r \in SecureTransfer
  <2>1. amount \in 1..U64Max
    <3>1. pools[p].total_escrowed \in Nat
      BY <1>1 DEF Pool
    <3> QED
      BY <1>1, <3>1, ConstantsAssumption DEF CreateTransfer, CanAddDeposit
  <2>2. window[1] \in Nat /\ window[2] \in Nat
    BY ConstantsAssumption
  <2> QED
    BY <2>1, <2>2 DEF SecureTransfer
<1>3. pools' \in [PoolIds -> Pool \cup {NoPool}]
  BY <1>1, TotalsType DEF CreateTransfer, TypeOK
<1>4. vault' \in [PoolIds \X Mints -> Nat] /\ balance' \in [Wallets \X Mints -> Nat]
  BY <1>1, MoveType DEF CreateTransfer, TypeOK
<1>5. transfers' \in [Keys -> SecureTransfer \cup {NoTransfer}]
  BY <1>2 DEF CreateTransfer, TypeOK
<1> QED
  BY <1>3, <1>4, <1>5 DEF CreateTransfer, TypeOK

\* The instructions that manage a pool keep the types.
LEMMA PoolStepType ==
    ASSUME TypeOK, PoolStep
    PROVE  TypeOK'
<1>1. PICK w \in Wallets, p \in PoolIds :
        \/ \E m \in Mints, bps \in FeeBps : InitPool(w, p, m, bps)
        \/ \E paused \in BOOLEAN : PausePool(w, p, paused)
        \/ WithdrawFees(w, p)
        \/ ResetPool(w, p)
        \/ \E amount \in 0..U64Max : ClosePool(w, p, amount)
  BY DEF PoolStep
<1>t. IsOperator(w, p) =>
        pools[p] \in Pool /\ pools[p].mint \in Mints /\ pools[p].collected_fees \in Nat
  BY DEF IsOperator, TypeOK, Pool
<1>2. ASSUME NEW m \in Mints, NEW bps \in FeeBps, InitPool(w, p, m, bps)
      PROVE  TypeOK'
  <2>1. bps \in 0..MaxBps
    BY <1>2, ConstantsAssumption DEF InitPool, MaxBps
  <2>2. NewPool(w, m, bps) \in Pool
    BY <2>1 DEF NewPool, Pool
  <2> QED
    BY <1>2, <2>2 DEF InitPool, TypeOK
<1>3. ASSUME NEW paused \in BOOLEAN, PausePool(w, p, paused)
      PROVE  TypeOK'
  <2>1. [pools[p] EXCEPT !.is_paused = paused] \in Pool
    BY <1>3, <1>t DEF PausePool, Pool
  <2> QED
    BY <1>3, <2>1 DEF PausePool, TypeOK
<1>4. CASE WithdrawFees(w, p)
  <2>1. pools' \in [PoolIds -> Pool \cup {NoPool}]
    BY <1>4, <1>t, FeesType DEF WithdrawFees, TypeOK
  <2>2. vault' \in [PoolIds \X Mints -> Nat] /\ balance' \in [Wallets \X Mints -> Nat]
    BY <1>4, <1>t, MoveType DEF WithdrawFees, TypeOK
  <2> QED
    BY <1>4, <2>1, <2>2 DEF WithdrawFees, TypeOK
<1>5. CASE ResetPool(w, p)
  BY <1>5, <1>t, FeesType DEF ResetPool, TypeOK
<1>6. ASSUME NEW amount \in 0..U64Max, ClosePool(w, p, amount)
      PROVE  TypeOK'
  <2>1. amount \in Nat
    BY ConstantsAssumption
  <2>2. vault' \in [PoolIds \X Mints -> Nat] /\ balance' \in [Wallets \X Mints -> Nat]
    BY <1>6, <1>t, <2>1, MoveType DEF ClosePool, TypeOK
  <2> QED
    BY <1>6, <2>2 DEF ClosePool, TypeOK
<1> QED
  BY <1>1, <1>2, <1>3, <1>4, <1>5, <1>6

\* The environment keeps the types.
LEMMA EnvironmentStepType ==
    ASSUME TypeOK, EnvironmentStep
    PROVE  TypeOK'
<1>1. CASE Tick
  BY <1>1 DEF Tick, TypeOK
<1>2. ASSUME NEW w \in Wallets, NEW p \in PoolIds, NEW amount \in Donations,
             Donate(w, p, amount)
      PROVE  TypeOK'
  <2>1. amount \in Nat /\ pools[p].mint \in Mints
    BY <1>2, ConstantsAssumption DEF Donate, TypeOK, Pool
  <2>2. vault' \in [PoolIds \X Mints -> Nat] /\ balance' \in [Wallets \X Mints -> Nat]
    BY <1>2, <2>1, MoveType DEF Donate, TypeOK
  <2> QED
    BY <1>2, <2>2 DEF Donate, TypeOK
<1>3. ASSUME NEW w \in Wallets, NEW m \in Mints,
             CloseTokenAccount(w, m) \/ OpenTokenAccount(w, m)
      PROVE  TypeOK'
  BY <1>3 DEF CloseTokenAccount, OpenTokenAccount, TypeOK
<1> QED
  BY <1>1, <1>2, <1>3 DEF EnvironmentStep

\* Every step keeps the types.
LEMMA NextType ==
    ASSUME TypeOK, [Next]_vars
    PROVE  TypeOK'
<1>1. CASE PoolStep
  BY <1>1, PoolStepType
<1>2. CASE TransferStep
  <2>1. PICK k \in Keys :
          \/ \E p \in PoolIds, amount \in Amounts, window \in Windows :
                 CreateTransfer(k, p, amount, window)
          \/ \E w \in Wallets : ClaimTransfer(w, k)
          \/ transfers[k] # NoTransfer /\ Refund(k)
    BY <1>2 DEF TransferStep, ExpireTransfer, CancelTransfer, DeclineTransfer,
                RejectTransfer, DestroyTransfer
  <2> QED
    BY <2>1, CreateType, ClaimType, RefundType
<1>3. CASE EnvironmentStep
  BY <1>3, EnvironmentStepType
<1>4. CASE UNCHANGED vars
  BY <1>4 DEF vars, TypeOK
<1> QED
  BY <1>1, <1>2, <1>3, <1>4 DEF Next

\* Every reachable state is well typed: in particular no balance, vault or
\* total ever goes below zero.
THEOREM TypeCorrect == Spec => []TypeOK
<1>1. Init => TypeOK
  BY ConstantsAssumption DEF Init, TypeOK
<1>2. TypeOK /\ [Next]_vars => TypeOK'
  BY NextType
<1> QED
  BY <1>1, <1>2, PTL DEF Spec

----------------------------------------------------------------------------
(* Accounting                                                              *)

\* Accounting of a single pool.
PoolAccounts(p) ==
    /\ pools[p].total_transfers_created =
           pools[p].total_transfers_resolved + Cardinality(OpenIn(p))
    /\ pools[p].total_escrowed = Cardinality(EscrowUnits(p))
    /\ pools[p].total_deposits =
           pools[p].total_withdrawals + pools[p].total_escrowed
    /\ vault[<<p, pools[p].mint>>] >= pools[p].total_escrowed + pools[p].collected_fees
    /\ pools[p].total_deposits <= U64Max
    /\ pools[p].total_transfers_created <= U64Max
    /\ pools[p].collected_fees <= pools[p].total_withdrawals

\* The invariant, pool by pool.
LEMMA AccountingByPool ==
    /\ Accounting <=> TypeOK /\ NoOrphanTransfer /\ \A p \in Live : PoolAccounts(p)
    /\ Accounting' <=> TypeOK' /\ NoOrphanTransfer' /\ \A p \in Live' : PoolAccounts(p)'
  BY DEF Accounting, TotalsMatchTransfers, Solvent, WithinU64, PoolAccounts

\* A step that leaves the transfers alone leaves what is counted from them alone.
LEMMA SameTransfers ==
    ASSUME transfers' = transfers
    PROVE  \A p : OpenIn(p)' = OpenIn(p) /\ EscrowUnits(p)' = EscrowUnits(p)
  BY DEF OpenIn, Open, EscrowUnits

\* A pool none of whose transfers is open is owed nothing.
LEMMA NoneOpen ==
    ASSUME TypeOK, NEW p, OpenIn(p) = {}
    PROVE  Cardinality(OpenIn(p)) = 0 /\ Cardinality(EscrowUnits(p)) = 0
<1>1. EscrowUnits(p) = {}
  BY DEF EscrowUnits
<1> QED
  BY <1>1, FS_EmptySet

\* When the counters of a pool say nothing is outstanding, nothing is.
LEMMA NoneOutstanding ==
    ASSUME Accounting, NEW p \in Live, ~HasOutstandingTransfers(pools[p])
    PROVE  OpenIn(p) = {}
<1>1. pools[p] \in Pool
  BY DEF Accounting, TypeOK, Live
<1>2. PoolAccounts(p) /\ TypeOK
  BY AccountingByPool
<1>3. Cardinality(OpenIn(p)) \in Nat /\ IsFiniteSet(OpenIn(p))
  BY <1>2, OpenFinite
<1>4. Cardinality(OpenIn(p)) = 0
  BY <1>1, <1>2, <1>3 DEF HasOutstandingTransfers, PoolAccounts, Pool
<1> QED
  BY <1>3, <1>4, FS_EmptySet

\* What the updates of the totals do to each of the fields.
LEMMA TotalsFields ==
    ASSUME NEW pool \in Pool, NEW amount \in Nat
    PROVE  /\ LET q == AddDeposit(pool, amount)
              IN  /\ q.total_deposits = pool.total_deposits + amount
                  /\ q.total_withdrawals = pool.total_withdrawals
                  /\ q.total_escrowed = pool.total_escrowed + amount
                  /\ q.total_transfers_created = pool.total_transfers_created + 1
                  /\ q.total_transfers_resolved = pool.total_transfers_resolved
                  /\ q.collected_fees = pool.collected_fees
                  /\ q.mint = pool.mint
           /\ LET q == AddWithdrawal(pool, amount)
              IN  /\ q.total_deposits = pool.total_deposits
                  /\ q.total_withdrawals = pool.total_withdrawals + amount
                  /\ q.total_escrowed = pool.total_escrowed - amount
                  /\ q.total_transfers_created = pool.total_transfers_created
                  /\ q.total_transfers_resolved = pool.total_transfers_resolved + 1
                  /\ q.collected_fees = pool.collected_fees
                  /\ q.mint = pool.mint
  BY DEF AddDeposit, AddWithdrawal, Pool

\* What the updates of collected_fees do to each of the fields.
LEMMA FeesFields ==
    ASSUME NEW pool \in Pool, NEW q \in Pool, NEW x \in Nat,
           q = [pool EXCEPT !.collected_fees = x]
    PROVE  /\ q.total_deposits = pool.total_deposits
           /\ q.total_withdrawals = pool.total_withdrawals
           /\ q.total_escrowed = pool.total_escrowed
           /\ q.total_transfers_created = pool.total_transfers_created
           /\ q.total_transfers_resolved = pool.total_transfers_resolved
           /\ q.collected_fees = x
           /\ q.mint = pool.mint
  BY DEF Pool

\* Settling a transfer of amount a for a fee f, whoever is paid, keeps the books.
LEMMA SettleAccounting ==
    ASSUME Accounting, TypeOK',
           NEW k \in Keys, transfers[k] # NoTransfer,
           NEW q \in Pool, NEW f \in Nat, f <= transfers[k].amount,
           transfers' = [transfers EXCEPT ![k] = NoTransfer],
           pools' = [pools EXCEPT ![transfers[k].pool] = q],
           vault' = [vault EXCEPT ![<<transfers[k].pool, pools[transfers[k].pool].mint>>] =
                        @ - (transfers[k].amount - f)],
           q.total_deposits = pools[transfers[k].pool].total_deposits,
           q.total_withdrawals =
               pools[transfers[k].pool].total_withdrawals + transfers[k].amount,
           q.total_escrowed = pools[transfers[k].pool].total_escrowed - transfers[k].amount,
           q.total_transfers_created = pools[transfers[k].pool].total_transfers_created,
           q.total_transfers_resolved =
               pools[transfers[k].pool].total_transfers_resolved + 1,
           q.collected_fees = pools[transfers[k].pool].collected_fees + f,
           q.mint = pools[transfers[k].pool].mint
    PROVE  Accounting'
<1> DEFINE t == transfers[k]
           p == t.pool
           m == pools[p].mint
<1>t. TypeOK /\ NoOrphanTransfer /\ \A x \in Live : PoolAccounts(x)
  BY AccountingByPool
<1>1. /\ p \in PoolIds /\ t.amount \in Nat /\ k \in Open
      /\ pools[p] \in Pool /\ m \in Mints /\ p \in Live
  BY <1>t, OpenType DEF NoOrphanTransfer, Open, Live
<1>2. Live' = Live
  BY <1>t, <1>1, ConstantsAssumption DEF Live, TypeOK
<1>3. NoOrphanTransfer'
  BY <1>t, <1>1, ConstantsAssumption DEF NoOrphanTransfer, Open, TypeOK
<1>4. ASSUME NEW x \in Live
      PROVE  PoolAccounts(x)'
  <2>1. x \in PoolIds /\ pools[x] \in Pool /\ pools[x].mint \in Mints
    BY <1>t DEF Live, TypeOK, Pool
  <2>c. /\ Cardinality(OpenIn(x)) =
               Cardinality(OpenIn(x)') + (IF x = p THEN 1 ELSE 0)
        /\ Cardinality(EscrowUnits(x)) =
               Cardinality(EscrowUnits(x)') + (IF x = p THEN t.amount ELSE 0)
        /\ Cardinality(OpenIn(x)') \in Nat /\ Cardinality(EscrowUnits(x)') \in Nat
    BY <2>1, <1>t, CloseRemoves
  <2>2. CASE x # p
    <3>1. pools'[x] = pools[x]
      BY <2>1, <2>2, <1>1, <1>t DEF TypeOK
    <3>2. vault'[<<x, pools[x].mint>>] = vault[<<x, pools[x].mint>>]
      BY <2>1, <2>2, <1>1, <1>t DEF TypeOK
    <3> QED
      BY <3>1, <3>2, <2>2, <2>c, <1>t DEF PoolAccounts
  <2>3. CASE x = p
    <3>1. pools'[x] = q
      BY <2>3, <1>1, <1>t DEF TypeOK
    <3>2. vault'[<<p, m>>] = vault[<<p, m>>] - (t.amount - f)
      BY <1>1, <1>t DEF TypeOK
    <3>3. vault[<<p, m>>] \in Nat
      BY <1>1, <1>t DEF TypeOK
    <3>4. PoolAccounts(p)
      BY <1>1, <1>t
    <3> QED
      BY <3>1, <3>2, <3>3, <3>4, <2>3, <2>c, <1>1 DEF PoolAccounts, Pool
  <2> QED
    BY <2>2, <2>3
<1> QED
  BY <1>2, <1>3, <1>4, AccountingByPool

\* A refund keeps the books.
LEMMA RefundAccounting ==
    ASSUME Accounting, TypeOK', NEW k \in Keys, transfers[k] # NoTransfer, Refund(k)
    PROVE  Accounting'
<1> DEFINE t == transfers[k]
           p == t.pool
           q == AddWithdrawal(pools[p], t.amount)
<1>1. t.amount \in Nat /\ pools[p] \in Pool
  BY OpenType DEF Accounting, Refund, CanRefund
<1>2. q \in Pool
  BY <1>1, TotalsType DEF Refund, CanRefund
<1>3. /\ q.total_deposits = pools[p].total_deposits
      /\ q.total_withdrawals = pools[p].total_withdrawals + t.amount
      /\ q.total_escrowed = pools[p].total_escrowed - t.amount
      /\ q.total_transfers_created = pools[p].total_transfers_created
      /\ q.total_transfers_resolved = pools[p].total_transfers_resolved + 1
      /\ q.collected_fees = pools[p].collected_fees + 0
      /\ q.mint = pools[p].mint
  <2>1. pools[p].collected_fees + 0 = pools[p].collected_fees
    BY <1>1 DEF Pool
  <2> QED
    BY <1>1, <2>1, TotalsFields
<1>4. t.amount = t.amount - 0 /\ 0 <= t.amount
  BY <1>1
<1>5. /\ transfers' = [transfers EXCEPT ![k] = NoTransfer]
      /\ pools' = [pools EXCEPT ![p] = q]
      /\ vault' = [vault EXCEPT ![<<p, pools[p].mint>>] = @ - (t.amount - 0)]
  BY <1>4 DEF Refund
<1> QED
  <2> HIDE DEF q
  <2> QED
    BY <1>2, <1>3, <1>4, <1>5, SettleAccounting

\* A claim keeps the books: what leaves the vault and what becomes a fee add up
\* to what leaves the escrow.
LEMMA ClaimAccounting ==
    ASSUME Accounting, TypeOK', NEW k \in Keys, NEW w \in Wallets, ClaimTransfer(w, k)
    PROVE  Accounting'
<1> DEFINE t == transfers[k]
           p == t.pool
           fee == TransferFee(pools[p], t.amount)
           r == AddWithdrawal(pools[p], t.amount)
           q == AddCollectedFees(r, fee)
<1>1. t.amount \in Nat /\ pools[p] \in Pool /\ transfers[k] # NoTransfer
  BY OpenType DEF Accounting, ClaimTransfer, CanClaim
<1>2. fee \in Nat /\ fee <= t.amount
  BY <1>1, FeeType
<1>3. r \in Pool
  BY <1>1, TotalsType DEF ClaimTransfer, CanClaim
<1>4. q \in Pool /\ r.collected_fees + fee \in Nat
  <2> HIDE DEF r, fee
  <2> QED
    BY <1>2, <1>3, FeesType DEF Pool
<1>5. /\ q.total_deposits = r.total_deposits
      /\ q.total_withdrawals = r.total_withdrawals
      /\ q.total_escrowed = r.total_escrowed
      /\ q.total_transfers_created = r.total_transfers_created
      /\ q.total_transfers_resolved = r.total_transfers_resolved
      /\ q.collected_fees = r.collected_fees + fee
      /\ q.mint = r.mint
  <2> HIDE DEF r, fee
  <2> QED
    BY <1>3, <1>4, FeesFields DEF AddCollectedFees
<1>6. /\ q.total_deposits = pools[p].total_deposits
      /\ q.total_withdrawals = pools[p].total_withdrawals + t.amount
      /\ q.total_escrowed = pools[p].total_escrowed - t.amount
      /\ q.total_transfers_created = pools[p].total_transfers_created
      /\ q.total_transfers_resolved = pools[p].total_transfers_resolved + 1
      /\ q.collected_fees = pools[p].collected_fees + fee
      /\ q.mint = pools[p].mint
  <2> HIDE DEF fee, q
  <2> QED
    BY <1>1, <1>5, TotalsFields
<1>7. /\ transfers' = [transfers EXCEPT ![k] = NoTransfer]
      /\ pools' = [pools EXCEPT ![p] = q]
      /\ vault' = [vault EXCEPT ![<<p, pools[p].mint>>] = @ - (t.amount - fee)]
  BY DEF ClaimTransfer
<1> QED
  <2> HIDE DEF q, fee
  <2> QED
    BY <1>1, <1>2, <1>4, <1>6, <1>7, SettleAccounting

\* Creating a transfer keeps the books.
LEMMA CreateAccounting ==
    ASSUME Accounting, TypeOK', NEW k \in Keys, NEW p \in PoolIds,
           NEW amount \in Amounts, NEW window \in Windows,
           CreateTransfer(k, p, amount, window)
    PROVE  Accounting'
<1> DEFINE m == pools[p].mint
           q == AddDeposit(pools[p], amount)
           r == [pool |-> p, amount |-> amount,
                 claimable_after |-> window[1], claimable_until |-> window[2]]
<1>t. TypeOK /\ NoOrphanTransfer /\ \A x \in Live : PoolAccounts(x)
  BY AccountingByPool
<1>1. /\ pools[p] \in Pool /\ m \in Mints /\ amount \in Nat /\ p \in Live
      /\ vault[<<p, m>>] \in Nat
  BY <1>t, ConstantsAssumption DEF CreateTransfer, TypeOK, Pool, Live
<1>2. q \in Pool
  BY <1>1, TotalsType
<1>3. /\ transfers[k] = NoTransfer
      /\ transfers' = [transfers EXCEPT ![k] = r]
      /\ pools' = [pools EXCEPT ![p] = q]
      /\ vault' = [vault EXCEPT ![<<p, m>>] = @ + amount]
      /\ CanAddDeposit(pools[p], amount)
  BY DEF CreateTransfer
<1>4. r \in SecureTransfer /\ r # NoTransfer
  <2>1. transfers'[k] = r
    BY <1>t, <1>3 DEF TypeOK
  <2>2. r # NoTransfer => r \in SecureTransfer
    BY <2>1 DEF TypeOK
  <2>3. amount \in 1..U64Max
    <3>1. pools[p].total_escrowed \in Nat
      BY <1>1 DEF Pool
    <3> QED
      BY <1>1, <3>1, ConstantsAssumption DEF CreateTransfer, CanAddDeposit
  <2>4. r \in SecureTransfer
    BY <2>3, ConstantsAssumption DEF SecureTransfer
  <2> QED
    BY <2>4, ConstantsAssumption
<1>5. Live' = Live
  BY <1>t, <1>1, <1>2, <1>3, ConstantsAssumption DEF Live, TypeOK
<1>6. NoOrphanTransfer'
  BY <1>t, <1>1, <1>2, <1>3, <1>4, ConstantsAssumption DEF NoOrphanTransfer, Open, TypeOK
<1>7. ASSUME NEW x \in Live
      PROVE  PoolAccounts(x)'
  <2>1. x \in PoolIds /\ pools[x] \in Pool /\ pools[x].mint \in Mints
    BY <1>t DEF Live, TypeOK, Pool
  <2>c. /\ Cardinality(OpenIn(x)') =
               Cardinality(OpenIn(x)) + (IF x = p THEN 1 ELSE 0)
        /\ Cardinality(EscrowUnits(x)') =
               Cardinality(EscrowUnits(x)) + (IF x = p THEN amount ELSE 0)
        /\ Cardinality(OpenIn(x)) \in Nat /\ Cardinality(EscrowUnits(x)) \in Nat
    <3>1. r.pool = p /\ r.amount = amount
      OBVIOUS
    <3>2. TypeOK /\ r \in SecureTransfer /\ transfers[k] = NoTransfer
          /\ transfers' = [transfers EXCEPT ![k] = r] /\ x \in PoolIds
      BY <2>1, <1>t, <1>3, <1>4
    <3>3. Cardinality(OpenIn(x)) \in Nat /\ Cardinality(EscrowUnits(x)) \in Nat
      BY <1>t, OpenFinite
    <3> HIDE DEF r
    <3>4. /\ Cardinality(OpenIn(x)') =
                 Cardinality(OpenIn(x)) + (IF x = r.pool THEN 1 ELSE 0)
          /\ Cardinality(EscrowUnits(x)') =
                 Cardinality(EscrowUnits(x)) + (IF x = r.pool THEN r.amount ELSE 0)
      BY <3>2, OpenAdds
    <3> QED
      BY <3>1, <3>3, <3>4
  <2>2. CASE x # p
    <3>1. pools'[x] = pools[x]
      BY <2>1, <2>2, <1>1, <1>3, <1>t DEF TypeOK
    <3>2. vault'[<<x, pools[x].mint>>] = vault[<<x, pools[x].mint>>]
      BY <2>1, <2>2, <1>1, <1>3, <1>t DEF TypeOK
    <3> QED
      BY <3>1, <3>2, <2>2, <2>c, <1>t DEF PoolAccounts
  <2>3. CASE x = p
    <3>1. pools'[x] = q
      BY <2>3, <1>1, <1>3, <1>t DEF TypeOK
    <3>2. vault'[<<p, m>>] = vault[<<p, m>>] + amount
      BY <1>1, <1>3, <1>t DEF TypeOK
    <3>3. PoolAccounts(p)
      BY <1>1, <1>t
    <3>4. /\ q.total_deposits = pools[p].total_deposits + amount
          /\ q.total_withdrawals = pools[p].total_withdrawals
          /\ q.total_escrowed = pools[p].total_escrowed + amount
          /\ q.total_transfers_created = pools[p].total_transfers_created + 1
          /\ q.total_transfers_resolved = pools[p].total_transfers_resolved
          /\ q.collected_fees = pools[p].collected_fees
          /\ q.mint = m
      BY <1>1, TotalsFields
    <3>5. /\ pools[p].total_deposits + amount <= U64Max
          /\ pools[p].total_transfers_created + 1 <= U64Max
      BY <1>3 DEF CanAddDeposit
    <3>6. /\ pools[p].total_deposits \in Nat /\ pools[p].total_withdrawals \in Nat
          /\ pools[p].total_escrowed \in Nat /\ pools[p].collected_fees \in Nat
          /\ pools[p].total_transfers_created \in Nat
          /\ pools[p].total_transfers_resolved \in Nat
      BY <1>1 DEF Pool
    <3> HIDE DEF q
    <3> QED
      BY <3>1, <3>2, <3>3, <3>4, <3>5, <3>6, <2>3, <2>c, <1>1 DEF PoolAccounts
  <2> QED
    BY <2>2, <2>3
<1> QED
  BY <1>5, <1>6, <1>7, AccountingByPool

\* A step that leaves the transfers and every pool but p alone, and takes nothing
\* from another pool's vault, keeps the books if it keeps those of p.
LEMMA OnePoolAccounting ==
    ASSUME Accounting, TypeOK', NEW p \in PoolIds,
           transfers' = transfers,
           \A x \in PoolIds \ {p} : pools'[x] = pools[x],
           \A x \in PoolIds \ {p}, m \in Mints : vault'[<<x, m>>] = vault[<<x, m>>],
           pools'[p] # NoPool => PoolAccounts(p)',
           pools'[p] = NoPool => OpenIn(p) = {}
    PROVE  Accounting'
<1>t. TypeOK /\ NoOrphanTransfer /\ \A x \in Live : PoolAccounts(x)
  BY AccountingByPool
<1>1. NoOrphanTransfer'
  <2>1. SUFFICES ASSUME NEW k \in Open
                 PROVE  pools'[transfers[k].pool] # NoPool
    BY DEF NoOrphanTransfer, Open
  <2>2. transfers[k].pool \in PoolIds /\ k \in OpenIn(transfers[k].pool)
    BY <1>t, OpenType DEF Open, OpenIn
  <2>3. pools[transfers[k].pool] # NoPool
    BY <1>t DEF NoOrphanTransfer
  <2> QED
    BY <2>2, <2>3
<1>2. ASSUME NEW x \in Live', x # p
      PROVE  PoolAccounts(x)'
  <2>1. x \in PoolIds /\ pools'[x] = pools[x] /\ x \in Live /\ pools[x].mint \in Mints
    BY <1>2, <1>t DEF Live, TypeOK, Pool
  <2>2. vault'[<<x, pools[x].mint>>] = vault[<<x, pools[x].mint>>]
    BY <1>2, <2>1
  <2> QED
    BY <2>1, <2>2, <1>t, SameTransfers DEF PoolAccounts
<1>3. ASSUME p \in Live'
      PROVE  PoolAccounts(p)'
  BY <1>3 DEF Live
<1> QED
  BY <1>1, <1>2, <1>3, AccountingByPool

\* The instructions that manage a pool keep the books.
LEMMA PoolStepAccounting ==
    ASSUME Accounting, TypeOK', PoolStep
    PROVE  Accounting'
<1>t. TypeOK /\ NoOrphanTransfer /\ \A x \in Live : PoolAccounts(x)
  BY AccountingByPool
<1>1. PICK w \in Wallets, p \in PoolIds :
        \/ \E m \in Mints, bps \in FeeBps : InitPool(w, p, m, bps)
        \/ \E paused \in BOOLEAN : PausePool(w, p, paused)
        \/ WithdrawFees(w, p)
        \/ ResetPool(w, p)
        \/ \E amount \in 0..U64Max : ClosePool(w, p, amount)
  BY DEF PoolStep
<1>o. IsOperator(w, p) =>
        /\ p \in Live /\ pools[p] \in Pool /\ PoolAccounts(p)
        /\ pools[p].mint \in Mints /\ pools[p].collected_fees \in Nat
        /\ vault[<<p, pools[p].mint>>] \in Nat
  BY <1>t DEF IsOperator, TypeOK, Pool, Live
<1>n. OpenIn(p) = {} =>
        Cardinality(OpenIn(p)) = 0 /\ Cardinality(EscrowUnits(p)) = 0
  BY <1>t, NoneOpen
<1>2. ASSUME NEW m \in Mints, NEW bps \in FeeBps, InitPool(w, p, m, bps)
      PROVE  Accounting'
  <2>1. OpenIn(p) = {}
    BY <1>2, <1>t DEF InitPool, NoOrphanTransfer, OpenIn
  <2> DEFINE q == NewPool(w, m, bps)
  <2>2. pools'[p] = q /\ vault'[<<p, m>>] \in Nat
    BY <1>2, <1>t DEF InitPool, TypeOK
  <2>q. /\ q.total_deposits = 0 /\ q.total_withdrawals = 0 /\ q.total_escrowed = 0
        /\ q.total_transfers_created = 0 /\ q.total_transfers_resolved = 0
        /\ q.collected_fees = 0 /\ q.mint = m
    BY DEF NewPool
  <2>c. Cardinality(OpenIn(p)') = 0 /\ Cardinality(EscrowUnits(p)') = 0
    BY <1>2, <2>1, <1>n, SameTransfers DEF InitPool
  <2>3. PoolAccounts(p)'
    <3> HIDE DEF q
    <3> QED
      BY <2>2, <2>q, <2>c, ConstantsAssumption DEF PoolAccounts
  <2> QED
    BY <1>2, <2>1, <2>3, <1>t, OnePoolAccounting DEF InitPool, TypeOK
<1>3. ASSUME NEW paused \in BOOLEAN, PausePool(w, p, paused)
      PROVE  Accounting'
  <2>1. /\ pools'[p] = [pools[p] EXCEPT !.is_paused = paused]
        /\ pools[p] \in Pool /\ PoolAccounts(p)
    BY <1>3, <1>t, <1>o DEF PausePool, TypeOK
  <2>2. /\ pools'[p].total_deposits = pools[p].total_deposits
        /\ pools'[p].total_withdrawals = pools[p].total_withdrawals
        /\ pools'[p].total_escrowed = pools[p].total_escrowed
        /\ pools'[p].total_transfers_created = pools[p].total_transfers_created
        /\ pools'[p].total_transfers_resolved = pools[p].total_transfers_resolved
        /\ pools'[p].collected_fees = pools[p].collected_fees
        /\ pools'[p].mint = pools[p].mint
    BY <2>1 DEF Pool
  <2>3. PoolAccounts(p)'
    BY <1>3, <2>1, <2>2, SameTransfers DEF PausePool, PoolAccounts
  <2>4. pools'[p] # NoPool
    BY <1>3, <1>o, <2>1, ConstantsAssumption DEF PausePool, Pool
  <2> QED
    BY <1>3, <2>3, <2>4, <1>t, OnePoolAccounting DEF PausePool, TypeOK
<1>4. CASE WithdrawFees(w, p)
  <2> DEFINE m == pools[p].mint
             q == ResetCollectedFees(pools[p])
  <2>1. /\ pools'[p] = q
        /\ vault'[<<p, m>>] = vault[<<p, m>>] - pools[p].collected_fees
        /\ PoolAccounts(p) /\ pools[p] \in Pool /\ q \in Pool
    BY <1>4, <1>t, <1>o, FeesType DEF WithdrawFees, TypeOK
  <2>2. /\ q.total_deposits = pools[p].total_deposits
        /\ q.total_withdrawals = pools[p].total_withdrawals
        /\ q.total_escrowed = pools[p].total_escrowed
        /\ q.total_transfers_created = pools[p].total_transfers_created
        /\ q.total_transfers_resolved = pools[p].total_transfers_resolved
        /\ q.collected_fees = 0
        /\ q.mint = m
    BY <2>1, FeesFields DEF ResetCollectedFees
  <2>3. /\ vault[<<p, m>>] \in Nat /\ pools[p].collected_fees \in Nat
        /\ pools[p].total_escrowed \in Nat /\ pools[p].total_withdrawals \in Nat
    BY <1>4, <1>o, <2>1 DEF WithdrawFees, Pool
  <2>4. PoolAccounts(p)'
    <3> HIDE DEF q
    <3> QED
      BY <1>4, <2>1, <2>2, <2>3, SameTransfers DEF WithdrawFees, PoolAccounts
  <2>5. pools'[p] # NoPool
    BY <2>1, ConstantsAssumption
  <2> QED
    BY <1>4, <2>4, <2>5, <1>t, OnePoolAccounting DEF WithdrawFees, TypeOK
<1>5. CASE ResetPool(w, p)
  <2> DEFINE q == ResetCounters(pools[p])
  <2>1. OpenIn(p) = {}
    BY <1>5, <1>o, NoneOutstanding DEF ResetPool
  <2>2. pools'[p] = q /\ pools[p] \in Pool /\ q \in Pool
    BY <1>5, <1>t, <1>o, FeesType DEF ResetPool, TypeOK
  <2>3. /\ q.total_deposits = 0 /\ q.total_withdrawals = 0 /\ q.total_escrowed = 0
        /\ q.total_transfers_created = 0 /\ q.total_transfers_resolved = 0
        /\ q.collected_fees = 0 /\ q.mint = pools[p].mint
    BY <2>2 DEF ResetCounters, Pool
  <2>c. Cardinality(OpenIn(p)') = 0 /\ Cardinality(EscrowUnits(p)') = 0
    BY <1>5, <2>1, <1>n, SameTransfers DEF ResetPool
  <2>v. vault'[<<p, pools[p].mint>>] \in Nat
    BY <1>5, <1>o DEF ResetPool
  <2>4. PoolAccounts(p)'
    <3> HIDE DEF q
    <3> QED
      BY <2>2, <2>3, <2>c, <2>v, ConstantsAssumption DEF PoolAccounts
  <2>5. pools'[p] # NoPool
    BY <2>2, ConstantsAssumption
  <2> QED
    BY <1>5, <2>4, <2>5, <1>t, OnePoolAccounting DEF ResetPool, TypeOK
<1>6. ASSUME NEW amount \in 0..U64Max, ClosePool(w, p, amount)
      PROVE  Accounting'
  <2>1. OpenIn(p) = {}
    BY <1>6, <1>o, NoneOutstanding DEF ClosePool
  <2>2. pools'[p] = NoPool
    BY <1>6, <1>t DEF ClosePool, TypeOK
  <2> QED
    BY <1>6, <2>1, <2>2, <1>t, OnePoolAccounting DEF ClosePool, TypeOK
<1> QED
  BY <1>1, <1>2, <1>3, <1>4, <1>5, <1>6

\* The environment keeps the books.
LEMMA EnvironmentStepAccounting ==
    ASSUME Accounting, TypeOK', EnvironmentStep
    PROVE  Accounting'
<1>t. TypeOK /\ NoOrphanTransfer /\ \A x \in Live : PoolAccounts(x)
  BY AccountingByPool
<1>1. ASSUME UNCHANGED <<pools, transfers, vault>>
      PROVE  Accounting'
  <2>1. NoOrphanTransfer'
    BY <1>1, <1>t DEF NoOrphanTransfer, Open
  <2>2. \A x \in Live' : PoolAccounts(x)'
    BY <1>1, <1>t, SameTransfers DEF Live, PoolAccounts
  <2> QED
    BY <2>1, <2>2, AccountingByPool
<1>2. ASSUME NEW w \in Wallets, NEW p \in PoolIds, NEW amount \in Donations,
             Donate(w, p, amount)
      PROVE  Accounting'
  <2> DEFINE m == pools[p].mint
  <2>1. /\ amount \in Nat /\ p \in Live /\ pools[p] \in Pool
        /\ m \in Mints /\ vault[<<p, m>>] \in Nat
    BY <1>2, <1>t, ConstantsAssumption DEF Donate, TypeOK, Pool, Live
  <2>2. vault'[<<p, m>>] = vault[<<p, m>>] + amount /\ pools' = pools
    BY <1>2, <1>t, <2>1 DEF Donate, TypeOK
  <2>3. pools[p].total_escrowed + pools[p].collected_fees \in Nat
    BY <2>1 DEF Pool
  <2>4. PoolAccounts(p)'
    BY <1>2, <1>t, <2>1, <2>2, <2>3, SameTransfers DEF Donate, PoolAccounts
  <2>5. pools'[p] # NoPool
    BY <2>1, <2>2 DEF Live
  <2> QED
    BY <1>2, <2>4, <2>5, <1>t, OnePoolAccounting DEF Donate, TypeOK
<1> QED
  BY <1>1, <1>2 DEF EnvironmentStep, Tick, CloseTokenAccount, OpenTokenAccount

\* Every step keeps the books.
LEMMA NextAccounting ==
    ASSUME Accounting, [Next]_vars
    PROVE  Accounting'
<1>t. TypeOK /\ TypeOK'
  BY NextType DEF Accounting
<1>1. CASE PoolStep
  BY <1>1, <1>t, PoolStepAccounting
<1>2. CASE TransferStep
  <2>1. PICK k \in Keys :
          \/ \E p \in PoolIds, amount \in Amounts, window \in Windows :
                 CreateTransfer(k, p, amount, window)
          \/ \E w \in Wallets : ClaimTransfer(w, k)
          \/ transfers[k] # NoTransfer /\ Refund(k)
    BY <1>2 DEF TransferStep, ExpireTransfer, CancelTransfer, DeclineTransfer,
                RejectTransfer, DestroyTransfer
  <2> QED
    BY <2>1, <1>t, CreateAccounting, ClaimAccounting, RefundAccounting
<1>3. CASE EnvironmentStep
  BY <1>3, <1>t, EnvironmentStepAccounting
<1>4. CASE UNCHANGED vars
  <2>1. NoOrphanTransfer'
    BY <1>4 DEF vars, Accounting, NoOrphanTransfer, Open
  <2>2. \A x \in Live' : PoolAccounts(x)'
    BY <1>4, AccountingByPool, SameTransfers DEF vars, Live, PoolAccounts
  <2> QED
    BY <1>t, <2>1, <2>2, AccountingByPool
<1> QED
  BY <1>1, <1>2, <1>3, <1>4 DEF Next

\* Initially no pool and no transfer exists.
LEMMA InitAccounting == Init => Accounting
<1> SUFFICES ASSUME Init PROVE Accounting
  OBVIOUS
<1>1. TypeOK
  BY ConstantsAssumption DEF Init, TypeOK
<1>2. Live = {} /\ Open = {}
  BY DEF Init, Live, Open
<1> QED
  BY <1>1, <1>2, AccountingByPool DEF NoOrphanTransfer

\* The books are kept in every reachable state.
THEOREM AccountingAlways == Spec => []Accounting
<1>1. Accounting /\ [Next]_vars => Accounting'
  BY NextAccounting
<1> QED
  BY <1>1, InitAccounting, PTL DEF Spec

\* The totals of a pool match its open transfers, in every reachable state.
THEOREM TotalsAlwaysMatch == Spec => []TotalsMatchTransfers
  BY AccountingAlways, PTL DEF Accounting

\* Every pool is solvent, in every reachable state, whatever the fee, the
\* amounts, the windows and the donations.
THEOREM AlwaysSolvent == Spec => []Solvent
  BY AccountingAlways, PTL DEF Accounting

\* No transfer outlives its pool.
THEOREM NeverOrphaned == Spec => []NoOrphanTransfer
  BY AccountingAlways, PTL DEF Accounting

\* Under the invariant, the vault and the counters let every open transfer be
\* refunded.
LEMMA AccountingAllowsRefund == Accounting => FundsNeverStuck
<1> SUFFICES ASSUME Accounting, NEW k \in Open PROVE CanRefund(k)
  BY DEF FundsNeverStuck
<1> DEFINE t == transfers[k]
           p == t.pool
<1>t. TypeOK /\ NoOrphanTransfer /\ \A x \in Live : PoolAccounts(x)
  BY AccountingByPool
<1>1. /\ p \in PoolIds /\ t.amount \in Nat /\ t.amount <= U64Max /\ U64Max \in Nat
      /\ pools[p] \in Pool /\ p \in Live /\ pools[p].mint \in Mints
      /\ vault[<<p, pools[p].mint>>] \in Nat
  BY <1>t, OpenType, ConstantsAssumption DEF NoOrphanTransfer, Open, Live, TypeOK
<1>f. /\ IsFiniteSet(OpenIn(p)) /\ IsFiniteSet(EscrowUnits(p))
      /\ Cardinality(OpenIn(p)) \in Nat /\ Cardinality(EscrowUnits(p)) \in Nat
  BY <1>t, OpenFinite
<1>2. Cardinality(OpenIn(p)) >= 1
  <2>1. OpenIn(p) # {}
    BY DEF OpenIn
  <2> QED
    BY <2>1, <1>f, FS_EmptySet
<1>3. Cardinality(EscrowUnits(p)) >= t.amount
  <2> DEFINE T == {k} \X (1..t.amount)
  <2>1. T \in SUBSET EscrowUnits(p)
    BY <1>1 DEF EscrowUnits, OpenIn
  <2>2. Cardinality(T) = t.amount
    BY <1>1, UnitsOfOne
  <2> HIDE DEF T
  <2>3. Cardinality(T) <= Cardinality(EscrowUnits(p))
    BY <2>1, <1>f, FS_Subset
  <2> QED
    BY <2>2, <2>3, <1>1, <1>f
<1>4. /\ pools[p].total_deposits \in Nat /\ pools[p].total_withdrawals \in Nat
      /\ pools[p].total_escrowed \in Nat /\ pools[p].collected_fees \in Nat
      /\ pools[p].total_transfers_created \in Nat
      /\ pools[p].total_transfers_resolved \in Nat
  BY <1>1 DEF Pool
<1>5. PoolAccounts(p)
  BY <1>1, <1>t
<1>6. CanAddWithdrawal(pools[p], t.amount)
  BY <1>1, <1>2, <1>3, <1>4, <1>5, <1>f DEF PoolAccounts, CanAddWithdrawal
<1>7. vault[<<p, pools[p].mint>>] >= t.amount
  BY <1>1, <1>3, <1>4, <1>5, <1>f DEF PoolAccounts
<1> QED
  BY <1>1, <1>6, <1>7 DEF CanRefund, Live

\* In every reachable state every open transfer can be refunded: no sequence of
\* instructions empties the vault below it or wedges the checked arithmetic.
THEOREM RefundAlwaysPossible == Spec => []FundsNeverStuck
  BY AccountingAlways, AccountingAllowsRefund, PTL

\* Under the invariant, so is every open transfer claimable: the fees collected
\* since the last reset never exceed the withdrawals since then.
LEMMA AccountingAllowsClaim ==
    ASSUME Accounting, NEW k \in Open
    PROVE  CanClaim(k)
<1> DEFINE t == transfers[k]
           p == t.pool
           fee == TransferFee(pools[p], t.amount)
<1>t. TypeOK /\ NoOrphanTransfer /\ \A x \in Live : PoolAccounts(x)
  BY AccountingByPool
<1>1. /\ p \in PoolIds /\ t.amount \in Nat /\ U64Max \in Nat /\ p \in Live
      /\ pools[p] \in Pool /\ vault[<<p, pools[p].mint>>] \in Nat
  BY <1>t, OpenType, ConstantsAssumption DEF NoOrphanTransfer, Open, Live, TypeOK
<1>2. fee \in Nat /\ fee <= t.amount
  BY <1>1, FeeType
<1>3. CanRefund(k)
  BY AccountingAllowsRefund DEF FundsNeverStuck
<1>4. /\ pools[p].total_deposits \in Nat /\ pools[p].total_withdrawals \in Nat
      /\ pools[p].total_escrowed \in Nat /\ pools[p].collected_fees \in Nat
  BY <1>1 DEF Pool
<1>5. PoolAccounts(p)
  BY <1>1, <1>t
<1> HIDE DEF fee
<1>6. pools[p].collected_fees + fee <= U64Max
  BY <1>1, <1>2, <1>3, <1>4, <1>5 DEF PoolAccounts, CanRefund, CanAddWithdrawal
<1>7. vault[<<p, pools[p].mint>>] >= t.amount - fee
  BY <1>1, <1>2, <1>3 DEF CanRefund
<1> QED
  BY <1>1, <1>2, <1>3, <1>6, <1>7 DEF CanClaim, CanRefund, fee

\* In every reachable state, at any time from claimable_after on, an open transfer
\* can be either claimed or expired, and never both.
THEOREM AlwaysSettledOneWay == Spec => []SettledOneWay
<1>1. Accounting => SettledOneWay
  <2>1. SUFFICES ASSUME Accounting, NEW k \in Open,
                        clock >= transfers[k].claimable_after
                 PROVE  \/ InClaimWindow(transfers[k]) /\ CanClaim(k)
                              /\ ~IsExpired(transfers[k])
                        \/ IsExpired(transfers[k]) /\ CanRefund(k)
                              /\ ~InClaimWindow(transfers[k])
    BY DEF SettledOneWay
  <2>2. CanClaim(k) /\ CanRefund(k)
    BY <2>1, AccountingAllowsClaim, AccountingAllowsRefund DEF FundsNeverStuck
  <2>3. clock \in Nat /\ transfers[k].claimable_until \in Nat
    BY <2>1, OpenType DEF Accounting, TypeOK, Open, SecureTransfer
  <2> QED
    BY <2>1, <2>2, <2>3 DEF InClaimWindow, IsExpired
<1> QED
  BY <1>1, AccountingAlways, PTL

----------------------------------------------------------------------------
(* The refinement mapping, without the counting                            *)

\* What a pool record says is owed from its vault of mint m.
Owed(pool, m) == IF pool # NoPool /\ pool.mint = m THEN pool.total_escrowed ELSE 0

\* The free tokens of every vault v, going by the totals of the pools ps.
FreeOf(v, ps) == [pm \in PoolIds \X Mints |-> v[pm] - Owed(ps[pm[1]], pm[2])]

\* What is held by a transfer account t, given the pools ps.
HoldOf(t, ps) ==
    IF t # NoTransfer
    THEN [house |-> t.pool, mint |-> ps[t.pool].mint, amount |-> t.amount,
          after |-> t.claimable_after, until |-> t.claimable_until]
    ELSE NoTransfer

\* Since the totals always match the transfers, the free tokens are what
\* total_escrowed leaves of each vault: no instruction needs to count transfers.
LEMMA FreeByTotals ==
    /\ Accounting => FreeTokens = FreeOf(vault, pools)
    /\ Accounting' => FreeTokens' = FreeOf(vault', pools')
<1>1. ASSUME Accounting PROVE FreeTokens = FreeOf(vault, pools)
  <2>1. \A p \in Live : pools[p].total_escrowed = Cardinality(EscrowUnits(p))
    BY <1>1 DEF Accounting, TotalsMatchTransfers
  <2>2. \A p \in PoolIds : p \in Live <=> pools[p] # NoPool
    BY DEF Live
  <2>3. ASSUME NEW pm \in PoolIds \X Mints
        PROVE  (IF pm[1] \in Live /\ pools[pm[1]].mint = pm[2]
                THEN Cardinality(EscrowUnits(pm[1])) ELSE 0) = Owed(pools[pm[1]], pm[2])
    BY <2>1, <2>2 DEF Owed
  <2> QED
    BY <2>3 DEF FreeTokens, FreeOf
<1>2. ASSUME Accounting' PROVE FreeTokens' = FreeOf(vault', pools')
  <2>1. \A p \in Live' : pools'[p].total_escrowed = Cardinality(EscrowUnits(p)')
    BY <1>2 DEF Accounting, TotalsMatchTransfers
  <2>2. \A p \in PoolIds : p \in Live' <=> pools'[p] # NoPool
    BY DEF Live
  <2>3. ASSUME NEW pm \in PoolIds \X Mints
        PROVE  (IF pm[1] \in Live' /\ pools'[pm[1]].mint = pm[2]
                THEN Cardinality(EscrowUnits(pm[1])') ELSE 0) = Owed(pools'[pm[1]], pm[2])
    BY <2>1, <2>2 DEF Owed
  <2> QED
    BY <2>3 DEF FreeTokens, FreeOf
<1> QED
  BY <1>1, <1>2

\* A step on pool p, whose mint is m before and after it where it exists, changes
\* the free tokens of <<p, m>> alone.
LEMMA FreeMoves ==
    ASSUME NEW p \in PoolIds, NEW m \in Mints,
           \A x \in PoolIds \ {p} : pools'[x] = pools[x],
           \A pm \in (PoolIds \X Mints) \ {<<p, m>>} : vault'[pm] = vault[pm],
           pools[p] # NoPool => pools[p].mint = m,
           pools'[p] # NoPool => pools'[p].mint = m
    PROVE  FreeOf(vault', pools') =
               [FreeOf(vault, pools) EXCEPT
                    ![<<p, m>>] = vault'[<<p, m>>] - Owed(pools'[p], m)]
<1>1. ASSUME NEW pm \in PoolIds \X Mints, pm # <<p, m>>
      PROVE  vault'[pm] - Owed(pools'[pm[1]], pm[2])
                 = vault[pm] - Owed(pools[pm[1]], pm[2])
  <2>1. vault'[pm] = vault[pm]
    BY <1>1
  <2>2. CASE pm[1] # p
    BY <1>1, <2>1, <2>2
  <2>3. CASE pm[1] = p
    <3>1. pm[2] # m
      BY <1>1, <2>3
    <3>2. Owed(pools'[pm[1]], pm[2]) = Owed(pools[pm[1]], pm[2])
      BY <2>3, <3>1 DEF Owed
    <3> QED
      BY <2>1, <3>2
  <2> QED
    BY <2>2, <2>3
<1>2. <<p, m>> \in PoolIds \X Mints
  OBVIOUS
<1>3. \A pm \in PoolIds \X Mints :
        vault'[pm] - Owed(pools'[pm[1]], pm[2]) =
            IF pm = <<p, m>> THEN vault'[<<p, m>>] - Owed(pools'[p], m)
            ELSE FreeOf(vault, pools)[pm]
  BY <1>1, <1>2 DEF FreeOf
<1>4. FreeOf(vault, pools) = [pm \in PoolIds \X Mints |-> FreeOf(vault, pools)[pm]]
  BY DEF FreeOf
<1>5. FreeOf(vault', pools') =
        [pm \in PoolIds \X Mints |-> vault'[pm] - Owed(pools'[pm[1]], pm[2])]
  BY DEF FreeOf
<1> DEFINE F == FreeOf(vault, pools)
<1> HIDE DEF F
<1>6. FreeOf(vault', pools') =
        [pm \in PoolIds \X Mints |->
            IF pm = <<p, m>> THEN vault'[<<p, m>>] - Owed(pools'[p], m) ELSE F[pm]]
  BY <1>3, <1>5 DEF F
<1>7. F = [pm \in PoolIds \X Mints |-> F[pm]]
  BY <1>4 DEF F
<1> QED
  BY <1>6, <1>7, <1>2 DEF F

\* What is held, key by key.
LEMMA HoldByKey ==
    /\ EscrowHold = [k \in Keys |-> HoldOf(transfers[k], pools)]
    /\ EscrowHold' = [k \in Keys |-> HoldOf(transfers'[k], pools')]
  BY DEF EscrowHold, HoldOf, Open

\* Holds depend on no part of a pool but its mint.
LEMMA HoldFrame ==
    ASSUME NEW t, NEW ps, NEW qs,
           t # NoTransfer => qs[t.pool].mint = ps[t.pool].mint
    PROVE  HoldOf(t, qs) = HoldOf(t, ps)
  BY DEF HoldOf

\* A step that leaves the transfers alone, and the mint of every pool with an open
\* transfer, leaves the holds alone.
LEMMA HoldsStay ==
    ASSUME transfers' = transfers,
           \A k \in Open :
               pools'[transfers[k].pool].mint = pools[transfers[k].pool].mint
    PROVE  EscrowHold' = EscrowHold
<1>1. ASSUME NEW k \in Keys
      PROVE  HoldOf(transfers'[k], pools') = HoldOf(transfers[k], pools)
  BY HoldFrame DEF Open
<1> QED
  BY <1>1, HoldByKey

\* A step that changes transfer k alone, and no mint, changes the hold of k alone.
LEMMA HoldsMove ==
    ASSUME TypeOK, NEW k \in Keys, NEW r,
           transfers' = [transfers EXCEPT ![k] = r],
           \A j \in Open \ {k} :
               pools'[transfers[j].pool].mint = pools[transfers[j].pool].mint
    PROVE  EscrowHold' = [EscrowHold EXCEPT ![k] = HoldOf(r, pools')]
<1>1. transfers'[k] = r /\ \A j \in Keys \ {k} : transfers'[j] = transfers[j]
  BY DEF TypeOK
<1>2. ASSUME NEW j \in Keys \ {k}
      PROVE  HoldOf(transfers'[j], pools') = HoldOf(transfers[j], pools)
  BY <1>1, HoldFrame DEF Open
<1> QED
  BY <1>1, <1>2, HoldByKey

\* The hold of an open transfer.
LEMMA HoldOfOpen ==
    ASSUME Accounting, NEW k \in Keys, transfers[k] # NoTransfer
    PROVE  /\ EscrowHold[k] # NoTransfer
           /\ EscrowHold[k].house = transfers[k].pool
           /\ EscrowHold[k].mint = pools[transfers[k].pool].mint
           /\ EscrowHold[k].amount = transfers[k].amount
           /\ EscrowHold[k].after = transfers[k].claimable_after
           /\ EscrowHold[k].until = transfers[k].claimable_until
<1> DEFINE t == transfers[k]
           h == [house |-> t.pool, mint |-> pools[t.pool].mint, amount |-> t.amount,
                 after |-> t.claimable_after, until |-> t.claimable_until]
<1>1. t \in SecureTransfer /\ t.pool \in PoolIds /\ t.amount \in Nat
  BY OpenType DEF Accounting
<1>2. t.claimable_after \in Nat /\ t.claimable_until \in Nat
  BY <1>1 DEF SecureTransfer
<1>3. pools[t.pool].mint \in Mints
  BY OpenType DEF Accounting, NoOrphanTransfer, Open
<1>4. h \in [house : PoolIds, mint : Mints, amount : Nat, after : Nat, until : Nat]
  BY <1>1, <1>2, <1>3
<1>5. h # NoTransfer
  BY <1>4, HoldAssumption
<1>6. EscrowHold[k] = h
  BY HoldByKey DEF HoldOf
<1> QED
  BY <1>5, <1>6

----------------------------------------------------------------------------
(* The life of a transfer                                                  *)

\* create_transfer locks the sender's tokens: what enters the vault is owed from
\* that moment, so no house has a token more.
LEMMA CreateLocks ==
    ASSUME Accounting, Accounting', NEW k \in Keys, NEW p \in PoolIds,
           NEW amount \in Amounts, NEW window \in Windows,
           CreateTransfer(k, p, amount, window)
    PROVE  EscrowView!Lock(k, p, pools[p].mint, amount, window[1], window[2])
<1> DEFINE m == pools[p].mint
           q == AddDeposit(pools[p], amount)
           r == [pool |-> p, amount |-> amount,
                 claimable_after |-> window[1], claimable_until |-> window[2]]
           h == [house |-> p, mint |-> m, amount |-> amount,
                 after |-> window[1], until |-> window[2]]
<1>t. TypeOK /\ TypeOK'
  BY DEF Accounting
<1>1. /\ pools[p] \in Pool /\ pools[p] # NoPool /\ m \in Mints /\ amount \in Nat
      /\ vault[<<p, m>>] \in Nat /\ pools[p].total_escrowed \in Nat
  BY <1>t, ConstantsAssumption DEF CreateTransfer, TypeOK, Pool
<1>2. q \in Pool /\ q.mint = m /\ q.total_escrowed = pools[p].total_escrowed + amount
  BY <1>1, TotalsType, TotalsFields
<1>3. pools'[p] = q /\ \A x \in PoolIds \ {p} : pools'[x] = pools[x]
  BY <1>t DEF CreateTransfer, TypeOK
<1>4. /\ vault'[<<p, m>>] = vault[<<p, m>>] + amount
      /\ \A pm \in (PoolIds \X Mints) \ {<<p, m>>} : vault'[pm] = vault[pm]
  BY <1>1, <1>t DEF CreateTransfer, TypeOK
<1>5. r # NoTransfer
  <2>1. r = transfers'[k]
    BY <1>t DEF CreateTransfer, TypeOK
  <2>2. pools[p].total_escrowed + amount <= U64Max /\ amount > 0
    BY DEF CreateTransfer, CanAddDeposit
  <2>3. amount \in 1..U64Max
    BY <1>1, <2>2, ConstantsAssumption
  <2>4. r \in SecureTransfer
    BY <2>3, ConstantsAssumption DEF SecureTransfer
  <2> QED
    BY <2>4, ConstantsAssumption
<1>6. EscrowHold' = [EscrowHold EXCEPT ![k] = h]
  <2>1. transfers' = [transfers EXCEPT ![k] = r]
    BY DEF CreateTransfer
  <2>2. HoldOf(r, pools') = h
    BY <1>2, <1>3, <1>5 DEF HoldOf
  <2>3. \A j \in Open \ {k} :
          pools'[transfers[j].pool].mint = pools[transfers[j].pool].mint
    <3> HIDE DEF q
    <3> QED
      BY <1>t, <1>2, <1>3, OpenType DEF Open
  <2> HIDE DEF r, h
  <2> QED
    BY <1>t, <2>1, <2>2, <2>3, HoldsMove
<1>7. FreeTokens' = FreeTokens
  <2> HIDE DEF q
  <2>1. FreeOf(vault', pools') =
          [FreeOf(vault, pools) EXCEPT ![<<p, m>>] = vault'[<<p, m>>] - Owed(pools'[p], m)]
    BY <1>1, <1>2, <1>3, <1>4, FreeMoves
  <2>2. Owed(pools'[p], m) = pools[p].total_escrowed + amount
    BY <1>2, <1>3, ConstantsAssumption DEF Owed
  <2>3. FreeOf(vault, pools)[<<p, m>>] = vault[<<p, m>>] - pools[p].total_escrowed
    BY <1>1 DEF FreeOf, Owed
  <2>4. vault'[<<p, m>>] - Owed(pools'[p], m) = FreeOf(vault, pools)[<<p, m>>]
    BY <1>1, <1>4, <2>2, <2>3
  <2>5. FreeOf(vault', pools') = FreeOf(vault, pools)
    BY <2>1, <2>4 DEF FreeOf
  <2> QED
    BY <2>5, FreeByTotals
<1>8. EscrowHold[k] = NoTransfer
  BY HoldByKey DEF CreateTransfer, HoldOf
<1>9. window[2] > 0 => window[2] >= clock /\ window[1] < window[2]
  <2>1. window[1] \in Nat /\ window[2] \in Nat
    BY ConstantsAssumption
  <2> QED
    BY <2>1 DEF CreateTransfer, ValidWindow
<1> QED
  BY <1>6, <1>7, <1>8, <1>9 DEF CreateTransfer, Sender, EscrowView!Lock

\* Settling transfer k for a fee f, whoever is paid, ends its hold and leaves the
\* house the fee: the vault and total_escrowed differ by it afterwards.
LEMMA SettleEndsHold ==
    ASSUME Accounting, Accounting', NEW k \in Keys, transfers[k] # NoTransfer,
           NEW q \in Pool, NEW f \in Nat, f <= transfers[k].amount,
           transfers' = [transfers EXCEPT ![k] = NoTransfer],
           pools' = [pools EXCEPT ![transfers[k].pool] = q],
           vault' = [vault EXCEPT ![<<transfers[k].pool, pools[transfers[k].pool].mint>>] =
                        @ - (transfers[k].amount - f)],
           q.total_escrowed = pools[transfers[k].pool].total_escrowed - transfers[k].amount,
           q.mint = pools[transfers[k].pool].mint
    PROVE  /\ EscrowHold' = [EscrowHold EXCEPT ![k] = NoTransfer]
           /\ FreeTokens' =
                  [FreeTokens EXCEPT
                       ![<<transfers[k].pool, pools[transfers[k].pool].mint>>] = @ + f]
<1> DEFINE t == transfers[k]
           p == t.pool
           m == pools[p].mint
<1>t. TypeOK /\ TypeOK' /\ NoOrphanTransfer
  BY DEF Accounting
<1>1. /\ p \in PoolIds /\ t.amount \in Nat /\ pools[p] # NoPool
      /\ pools[p] \in Pool /\ m \in Mints
      /\ vault[<<p, m>>] \in Nat /\ pools[p].total_escrowed \in Nat
  <2>1. pools[p] # NoPool
    BY <1>t DEF NoOrphanTransfer, Open
  <2> QED
    BY <2>1, <1>t, OpenType DEF TypeOK, Pool
<1>2. pools'[p] = q /\ \A x \in PoolIds \ {p} : pools'[x] = pools[x]
  BY <1>t, <1>1 DEF TypeOK
<1>3. /\ vault'[<<p, m>>] = vault[<<p, m>>] - (t.amount - f)
      /\ \A pm \in (PoolIds \X Mints) \ {<<p, m>>} : vault'[pm] = vault[pm]
  BY <1>1, <1>t DEF TypeOK
<1>4. EscrowHold' = [EscrowHold EXCEPT ![k] = NoTransfer]
  <2>1. HoldOf(NoTransfer, pools') = NoTransfer
    BY DEF HoldOf
  <2>2. \A j \in Open \ {k} :
          pools'[transfers[j].pool].mint = pools[transfers[j].pool].mint
    BY <1>t, <1>2, OpenType DEF Open
  <2>3. transfers' = [transfers EXCEPT ![k] = NoTransfer]
    OBVIOUS
  <2>4. EscrowHold' = [EscrowHold EXCEPT ![k] = HoldOf(NoTransfer, pools')]
    BY ONLY <1>t, <2>2, <2>3, k \in Keys, HoldsMove
  <2> QED
    BY <2>1, <2>4
<1>5. FreeTokens' = [FreeTokens EXCEPT ![<<p, m>>] = @ + f]
  <2>1. FreeOf(vault', pools') =
          [FreeOf(vault, pools) EXCEPT ![<<p, m>>] = vault'[<<p, m>>] - Owed(pools'[p], m)]
    <3>1. pools[p].mint = m /\ pools'[p].mint = m
      BY <1>2
    <3> HIDE DEF m
    <3> HIDE DEF p
    <3> QED
      BY <1>1, <1>2, <1>3, <3>1, FreeMoves
  <2>2. Owed(pools'[p], m) = pools[p].total_escrowed - t.amount
    BY <1>2, ConstantsAssumption DEF Owed
  <2>3. FreeOf(vault, pools)[<<p, m>>] = vault[<<p, m>>] - pools[p].total_escrowed
    BY <1>1 DEF FreeOf, Owed
  <2>4. vault'[<<p, m>>] - Owed(pools'[p], m) = FreeOf(vault, pools)[<<p, m>>] + f
    BY <1>1, <1>3, <2>2, <2>3
  <2>5. FreeOf(vault', pools') = [FreeOf(vault, pools) EXCEPT ![<<p, m>>] = @ + f]
    BY <2>1, <2>4
  <2> QED
    BY <2>5, FreeByTotals
<1> QED
  BY <1>4, <1>5

\* claim_transfer releases the tokens of an open transfer to its recipient, inside
\* the window, less a fee that is never more than the amount.
LEMMA ClaimReleases ==
    ASSUME Accounting, Accounting', NEW k \in Keys, NEW w \in Wallets,
           ClaimTransfer(w, k)
    PROVE  /\ EscrowHold[k] # NoTransfer
           /\ \E fee \in 0..EscrowHold[k].amount : EscrowView!Release(k, fee)
<1> DEFINE t == transfers[k]
           p == t.pool
           m == pools[p].mint
           fee == TransferFee(pools[p], t.amount)
           r == AddWithdrawal(pools[p], t.amount)
           q == AddCollectedFees(r, fee)
<1>t. TypeOK
  BY DEF Accounting
<1>1. /\ t # NoTransfer /\ t.amount \in Nat /\ pools[p] \in Pool
      /\ CanAddWithdrawal(pools[p], t.amount)
  BY <1>t, OpenType DEF ClaimTransfer, CanClaim
<1>2. fee \in Nat /\ fee <= t.amount
  BY <1>1, FeeType
<1>3. r \in Pool /\ r.mint = m /\ r.total_escrowed = pools[p].total_escrowed - t.amount
  BY <1>1, TotalsType, TotalsFields
<1>4. q \in Pool /\ q.mint = r.mint /\ q.total_escrowed = r.total_escrowed
  <2> HIDE DEF r, fee
  <2>1. r.collected_fees + fee \in Nat
    BY <1>2, <1>3 DEF Pool
  <2>2. q \in Pool
    BY <1>2, <1>3, FeesType
  <2> QED
    BY <1>3, <2>1, <2>2, FeesFields DEF AddCollectedFees
<1>5. /\ transfers' = [transfers EXCEPT ![k] = NoTransfer]
      /\ pools' = [pools EXCEPT ![p] = q]
      /\ vault' = [vault EXCEPT ![<<p, m>>] = @ - (t.amount - fee)]
      /\ balance' = [balance EXCEPT ![<<k[2], m>>] = @ + (t.amount - fee)]
      /\ clock' = clock
      /\ InClaimWindow(t)
  BY DEF ClaimTransfer, Recipient
<1>6. /\ EscrowHold' = [EscrowHold EXCEPT ![k] = NoTransfer]
      /\ FreeTokens' = [FreeTokens EXCEPT ![<<p, m>>] = @ + fee]
  <2>1. q.mint = m /\ q.total_escrowed = pools[p].total_escrowed - t.amount
    BY <1>3, <1>4
  <2> HIDE DEF fee, q, r
  <2> QED
    BY <1>1, <1>2, <1>4, <1>5, <2>1, SettleEndsHold
<1>7. /\ EscrowHold[k] # NoTransfer /\ EscrowHold[k].house = p
      /\ EscrowHold[k].mint = m /\ EscrowHold[k].amount = t.amount
      /\ EscrowHold[k].after = t.claimable_after
      /\ EscrowHold[k].until = t.claimable_until
  BY <1>1, HoldOfOpen
<1>8. /\ clock >= EscrowHold[k].after
      /\ EscrowHold[k].until > 0 => clock <= EscrowHold[k].until
  <2>1. clock \in Nat /\ t.claimable_after \in Nat /\ t.claimable_until \in Nat
    BY <1>1, <1>t, OpenType DEF TypeOK, SecureTransfer
  <2> QED
    BY <1>5, <1>7, <2>1 DEF InClaimWindow
<1>9. EscrowView!Release(k, fee)
  <2> HIDE DEF fee
  <2> QED
    BY <1>2, <1>5, <1>6, <1>7, <1>8 DEF EscrowView!Release
<1>10. fee \in 0..EscrowHold[k].amount
  BY <1>1, <1>2, <1>7
<1> QED
  BY <1>7, <1>9, <1>10

\* The part the five refunding instructions share returns the whole amount to the
\* sender of an open transfer.
LEMMA RefundReturns ==
    ASSUME Accounting, Accounting', NEW k \in Keys, transfers[k] # NoTransfer, Refund(k)
    PROVE  EscrowView!Return(k)
<1> DEFINE t == transfers[k]
           p == t.pool
           m == pools[p].mint
           q == AddWithdrawal(pools[p], t.amount)
<1>t. TypeOK
  BY DEF Accounting
<1>1. /\ t.amount \in Nat /\ pools[p] \in Pool /\ p \in PoolIds /\ m \in Mints
      /\ CanAddWithdrawal(pools[p], t.amount)
  BY <1>t, OpenType DEF Refund, CanRefund
<1>2. q \in Pool /\ q.mint = m /\ q.total_escrowed = pools[p].total_escrowed - t.amount
  BY <1>1, TotalsType, TotalsFields
<1>3. 0 <= t.amount /\ t.amount = t.amount - 0
  BY <1>1
<1>4. /\ transfers' = [transfers EXCEPT ![k] = NoTransfer]
      /\ pools' = [pools EXCEPT ![p] = q]
      /\ vault' = [vault EXCEPT ![<<p, m>>] = @ - (t.amount - 0)]
  BY <1>3 DEF Refund
<1>5. /\ EscrowHold' = [EscrowHold EXCEPT ![k] = NoTransfer]
      /\ FreeTokens' = [FreeTokens EXCEPT ![<<p, m>>] = @ + 0]
  <2> HIDE DEF q
  <2> QED
    BY <1>2, <1>3, <1>4, SettleEndsHold
<1>6. FreeTokens' = FreeTokens
  <2>1. FreeTokens = FreeOf(vault, pools)
    BY FreeByTotals
  <2>2. <<p, m>> \in PoolIds \X Mints /\ vault[<<p, m>>] \in Nat
        /\ Owed(pools[p], m) \in Nat
    BY <1>1, <1>t DEF TypeOK, Owed, Pool
  <2>3. FreeTokens[<<p, m>>] + 0 = FreeTokens[<<p, m>>]
    BY <2>1, <2>2 DEF FreeOf
  <2> QED
    BY <1>5, <2>1, <2>3 DEF FreeOf
<1>7. /\ EscrowHold[k] # NoTransfer /\ EscrowHold[k].mint = m
      /\ EscrowHold[k].amount = t.amount
  BY HoldOfOpen
<1> QED
  BY <1>5, <1>6, <1>7 DEF Refund, Sender, EscrowView!Return

----------------------------------------------------------------------------
(* Pools and the environment                                               *)

\* Managing a pool none of whose transfers is open, or managing one without
\* touching its mint, leaves every hold alone.
LEMMA HoldsSurvivePool ==
    ASSUME TypeOK, NEW p \in PoolIds, transfers' = transfers,
           \A x \in PoolIds \ {p} : pools'[x] = pools[x],
           OpenIn(p) = {} \/ pools'[p].mint = pools[p].mint
    PROVE  EscrowHold' = EscrowHold
<1>1. ASSUME NEW k \in Open
      PROVE  pools'[transfers[k].pool].mint = pools[transfers[k].pool].mint
  <2>1. transfers[k].pool \in PoolIds
    BY OpenType DEF Open
  <2>2. transfers[k].pool = p => k \in OpenIn(p)
    BY DEF OpenIn
  <2> QED
    BY <2>1, <2>2
<1> QED
  BY <1>1, HoldsStay

\* init_pool makes no token and takes none: donations to the vault of a closed pool
\* are the new pool's.
LEMMA InitPoolStutters ==
    ASSUME Accounting, Accounting', NEW w \in Wallets, NEW p \in PoolIds,
           NEW m \in Mints, NEW bps \in FeeBps, InitPool(w, p, m, bps)
    PROVE  EscrowHold' = EscrowHold /\ FreeTokens' = FreeTokens
<1> DEFINE q == NewPool(w, m, bps)
<1>t. TypeOK /\ NoOrphanTransfer
  BY DEF Accounting
<1>1. /\ pools[p] = NoPool /\ transfers' = transfers /\ vault' = vault
      /\ pools'[p] = q /\ \A x \in PoolIds \ {p} : pools'[x] = pools[x]
  BY <1>t DEF InitPool, TypeOK
<1>2. q.mint = m /\ q.total_escrowed = 0
  BY DEF NewPool
<1>3. OpenIn(p) = {}
  BY <1>1, <1>t DEF NoOrphanTransfer, OpenIn
<1>4. EscrowHold' = EscrowHold
  BY <1>t, <1>1, <1>3, HoldsSurvivePool
<1>5. Owed(pools[p], m) = 0 /\ Owed(pools'[p], m) = 0
  BY <1>1, <1>2 DEF Owed
<1>6. FreeOf(vault', pools') = FreeOf(vault, pools)
  <2> HIDE DEF q
  <2>1. FreeOf(vault', pools') =
          [FreeOf(vault, pools) EXCEPT ![<<p, m>>] = vault'[<<p, m>>] - Owed(pools'[p], m)]
    BY <1>1, <1>2, FreeMoves
  <2>2. FreeOf(vault, pools)[<<p, m>>] = vault'[<<p, m>>] - Owed(pools'[p], m)
    BY <1>1, <1>5 DEF FreeOf
  <2> QED
    BY <2>1, <2>2 DEF FreeOf
<1> QED
  BY <1>4, <1>6, FreeByTotals

\* pause_pool and reset_pool move no token and change nothing that is owed: the
\* total_escrowed that reset_pool zeroes was zero.
LEMMA TotalsKeptStutters ==
    ASSUME Accounting, Accounting', NEW p \in Live, NEW q \in Pool,
           transfers' = transfers, vault' = vault,
           pools' = [pools EXCEPT ![p] = q],
           q.mint = pools[p].mint, q.total_escrowed = pools[p].total_escrowed
    PROVE  EscrowHold' = EscrowHold /\ FreeTokens' = FreeTokens
<1> DEFINE m == pools[p].mint
<1>t. TypeOK
  BY DEF Accounting
<1>1. /\ p \in PoolIds /\ pools[p] # NoPool /\ m \in Mints
      /\ pools'[p] = q /\ q # NoPool
      /\ \A x \in PoolIds \ {p} : pools'[x] = pools[x]
  BY <1>t, ConstantsAssumption DEF Live, TypeOK, Pool
<1>2. EscrowHold' = EscrowHold
  BY <1>t, <1>1, HoldsSurvivePool
<1>3. FreeOf(vault', pools') = FreeOf(vault, pools)
  <2>1. FreeOf(vault', pools') =
          [FreeOf(vault, pools) EXCEPT ![<<p, m>>] = vault'[<<p, m>>] - Owed(pools'[p], m)]
    <3>1. /\ \A pm \in (PoolIds \X Mints) \ {<<p, m>>} : vault'[pm] = vault[pm]
          /\ pools[p].mint = m /\ pools'[p].mint = m
      BY <1>1
    <3> HIDE DEF m
    <3> QED
      BY <1>1, <3>1, FreeMoves
  <2>2. FreeOf(vault, pools)[<<p, m>>] = vault'[<<p, m>>] - Owed(pools'[p], m)
    BY <1>1 DEF FreeOf, Owed
  <2> QED
    BY <2>1, <2>2 DEF FreeOf
<1> QED
  BY <1>2, <1>3, FreeByTotals

\* An operator who takes n tokens out of a vault with at least n beyond what is
\* owed collects from the house, and holds stay; a donor who adds some gives to it.
LEMMA VaultMoves ==
    ASSUME Accounting, Accounting', NEW p \in Live, NEW m, m = pools[p].mint,
           NEW d \in Int,
           transfers' = transfers,
           vault' = [vault EXCEPT ![<<p, m>>] = @ + d],
           \A x \in PoolIds \ {p} : pools'[x] = pools[x],
           OpenIn(p) = {} \/ pools'[p].mint = m,
           pools'[p] # NoPool => pools'[p].mint = m,
           Owed(pools'[p], m) = Owed(pools[p], m)
    PROVE  /\ EscrowHold' = EscrowHold
           /\ FreeTokens' = [FreeTokens EXCEPT ![<<p, m>>] = @ + d]
           /\ FreeTokens[<<p, m>>] = vault[<<p, m>>] - pools[p].total_escrowed
<1>t. TypeOK
  BY DEF Accounting
<1>1. /\ p \in PoolIds /\ pools[p] # NoPool /\ m \in Mints
      /\ vault[<<p, m>>] \in Nat /\ pools[p].total_escrowed \in Nat
  BY <1>t, ConstantsAssumption DEF Live, TypeOK, Pool
<1>2. /\ vault'[<<p, m>>] = vault[<<p, m>>] + d
      /\ \A pm \in (PoolIds \X Mints) \ {<<p, m>>} : vault'[pm] = vault[pm]
  BY <1>1, <1>t DEF TypeOK
<1>3. EscrowHold' = EscrowHold
  BY <1>t, <1>1, HoldsSurvivePool
<1>4. FreeOf(vault, pools)[<<p, m>>] = vault[<<p, m>>] - pools[p].total_escrowed
  BY <1>1 DEF FreeOf, Owed
<1>5. FreeOf(vault', pools') = [FreeOf(vault, pools) EXCEPT ![<<p, m>>] = @ + d]
  <2>1. FreeOf(vault', pools') =
          [FreeOf(vault, pools) EXCEPT ![<<p, m>>] = vault'[<<p, m>>] - Owed(pools'[p], m)]
    BY <1>1, <1>2, FreeMoves
  <2>2. Owed(pools[p], m) = pools[p].total_escrowed
    BY <1>1 DEF Owed
  <2>3. vault'[<<p, m>>] - Owed(pools'[p], m) = FreeOf(vault, pools)[<<p, m>>] + d
    BY <1>1, <1>2, <1>4, <2>2
  <2> QED
    BY <2>1, <2>3
<1> QED
  BY <1>3, <1>4, <1>5, FreeByTotals

\* withdraw_fees pays no more than the house has: the vault of a solvent pool holds
\* the collected fees beyond everything that is owed.
LEMMA WithdrawCollects ==
    ASSUME Accounting, Accounting', NEW w \in Wallets, NEW p \in PoolIds,
           WithdrawFees(w, p)
    PROVE  EscrowView!Next
<1> DEFINE m == pools[p].mint
           fees == pools[p].collected_fees
           q == ResetCollectedFees(pools[p])
<1>t. TypeOK /\ Solvent
  BY DEF Accounting
<1>1. /\ p \in Live /\ pools[p] \in Pool /\ m \in Mints /\ fees \in Nat
      /\ vault[<<p, m>>] \in Nat /\ pools[p].total_escrowed \in Nat /\ fees > 0
  BY <1>t DEF WithdrawFees, IsOperator, Live, TypeOK, Pool
<1>2. vault[<<p, m>>] - pools[p].total_escrowed >= fees
  BY <1>1, <1>t DEF Solvent
<1>3. q \in Pool /\ q.mint = m /\ q.total_escrowed = pools[p].total_escrowed
  <2>1. q \in Pool
    BY <1>1, FeesType
  <2> QED
    BY <1>1, <2>1, FeesFields DEF ResetCollectedFees
<1>4. pools'[p] = q /\ \A x \in PoolIds \ {p} : pools'[x] = pools[x]
  BY <1>t DEF WithdrawFees, TypeOK
<1>5. /\ vault' = [vault EXCEPT ![<<p, m>>] = @ - fees]
      /\ balance' = [balance EXCEPT ![<<w, m>>] = @ + fees]
      /\ transfers' = transfers /\ clock' = clock
  BY DEF WithdrawFees
<1>6. /\ EscrowHold' = EscrowHold
      /\ FreeTokens' = [FreeTokens EXCEPT ![<<p, m>>] = @ + (-fees)]
      /\ FreeTokens[<<p, m>>] = vault[<<p, m>>] - pools[p].total_escrowed
  <2>1. vault' = [vault EXCEPT ![<<p, m>>] = @ + (-fees)]
    <3>1. vault[<<p, m>>] - fees = vault[<<p, m>>] + (-fees)
      BY <1>1
    <3> QED
      BY <1>5, <3>1
  <2>2. Owed(pools'[p], m) = Owed(pools[p], m)
    BY <1>1, <1>3, <1>4, ConstantsAssumption DEF Owed
  <2>3. -fees \in Int
    BY <1>1
  <2>4. pools'[p].mint = m
    BY <1>3, <1>4
  <2> HIDE DEF q
  <2> QED
    BY <1>1, <1>4, <1>5, <2>1, <2>2, <2>3, <2>4, VaultMoves
<1>7. FreeTokens' = [FreeTokens EXCEPT ![<<p, m>>] = @ - fees]
  <2>1. FreeTokens[<<p, m>>] + (-fees) = FreeTokens[<<p, m>>] - fees
    BY <1>1, <1>6
  <2> QED
    BY <1>6, <2>1
<1>8. fees \in 1..FreeTokens[<<p, m>>] /\ fees <= FreeTokens[<<p, m>>]
  BY <1>1, <1>2, <1>6
<1>9. EscrowView!Collect(w, p, m, fees)
  BY <1>5, <1>6, <1>7, <1>8 DEF EscrowView!Collect
<1> QED
  BY <1>1, <1>8, <1>9 DEF EscrowView!Next

\* close_pool pays the house all it has, because nothing is owed when it passes its
\* check of two counters.
LEMMA CloseCollects ==
    ASSUME Accounting, Accounting', NEW w \in Wallets, NEW p \in PoolIds,
           NEW amount \in 0..U64Max, ClosePool(w, p, amount)
    PROVE  EscrowView!Next \/ UNCHANGED EscrowView!vars
<1> DEFINE m == pools[p].mint
<1>t. TypeOK /\ \A x \in Live : PoolAccounts(x)
  BY AccountingByPool DEF Accounting
<1>1. /\ p \in Live /\ pools[p] \in Pool /\ m \in Mints /\ amount \in Nat
      /\ vault[<<p, m>>] \in Nat
  BY <1>t, ConstantsAssumption DEF ClosePool, IsOperator, Live, TypeOK, Pool
<1>2. OpenIn(p) = {}
  BY <1>1, NoneOutstanding DEF ClosePool
<1>3. pools[p].total_escrowed = 0
  BY <1>1, <1>2, <1>t, NoneOpen DEF PoolAccounts
<1>4. pools'[p] = NoPool /\ \A x \in PoolIds \ {p} : pools'[x] = pools[x]
  BY <1>t DEF ClosePool, TypeOK
<1>5. /\ vault' = [vault EXCEPT ![<<p, m>>] = @ - amount]
      /\ balance' = [balance EXCEPT ![<<w, m>>] = @ + amount]
      /\ transfers' = transfers /\ clock' = clock
      /\ vault[<<p, m>>] - amount = 0
  BY DEF ClosePool
<1>6. /\ EscrowHold' = EscrowHold
      /\ FreeTokens' = [FreeTokens EXCEPT ![<<p, m>>] = @ + (-amount)]
      /\ FreeTokens[<<p, m>>] = vault[<<p, m>>] - pools[p].total_escrowed
  <2>1. vault' = [vault EXCEPT ![<<p, m>>] = @ + (-amount)]
    <3>1. vault[<<p, m>>] - amount = vault[<<p, m>>] + (-amount)
      BY <1>1
    <3> QED
      BY <1>5, <3>1
  <2>2. Owed(pools'[p], m) = Owed(pools[p], m)
    BY <1>3, <1>4 DEF Owed
  <2>3. -amount \in Int
    BY <1>1
  <2> QED
    BY <1>1, <1>2, <1>4, <1>5, <2>1, <2>2, <2>3, VaultMoves
<1>7. FreeTokens[<<p, m>>] = amount
  BY <1>1, <1>3, <1>5, <1>6
<1>8. FreeTokens' = [FreeTokens EXCEPT ![<<p, m>>] = @ - amount]
  <2>1. FreeTokens[<<p, m>>] + (-amount) = FreeTokens[<<p, m>>] - amount
    BY <1>1, <1>7
  <2> QED
    BY <1>6, <2>1
<1>9. CASE amount > 0
  <2>1. amount \in 1..FreeTokens[<<p, m>>] /\ amount <= FreeTokens[<<p, m>>]
    BY <1>1, <1>7, <1>9
  <2>2. EscrowView!Collect(w, p, m, amount)
    BY <1>5, <1>6, <1>8, <2>1 DEF EscrowView!Collect
  <2> QED
    BY <1>1, <2>1, <2>2 DEF EscrowView!Next
<1>10. CASE amount = 0
  <2>1. balance' = balance
    <3>1. balance \in [Wallets \X Mints -> Nat] /\ <<w, m>> \in Wallets \X Mints
      BY <1>1, <1>t DEF TypeOK
    <3>2. balance[<<w, m>>] + amount = balance[<<w, m>>]
      BY <3>1, <1>10
    <3> QED
      BY <1>5, <3>1, <3>2
  <2>2. FreeTokens' = FreeTokens
    <3>1. FreeTokens[<<p, m>>] - amount = FreeTokens[<<p, m>>]
      BY <1>7, <1>10
    <3>2. FreeTokens = [pm \in PoolIds \X Mints |-> FreeTokens[pm]]
      BY DEF FreeTokens
    <3> QED
      BY <1>8, <3>1, <3>2
  <2> QED
    BY <1>5, <1>6, <2>1, <2>2 DEF EscrowView!vars
<1> QED
  BY <1>1, <1>9, <1>10

\* Tokens sent straight to a vault become the house's.
LEMMA DonateGives ==
    ASSUME Accounting, Accounting', NEW w \in Wallets, NEW p \in PoolIds,
           NEW amount \in Donations, Donate(w, p, amount)
    PROVE  EscrowView!Next
<1> DEFINE m == pools[p].mint
<1>t. TypeOK
  BY DEF Accounting
<1>1. /\ p \in Live /\ m \in Mints /\ amount \in Nat \ {0} /\ p \in PoolIds
      /\ balance[<<w, m>>] \in Nat
  BY <1>t, ConstantsAssumption DEF Donate, Live, TypeOK, Pool
<1>2. /\ vault' = [vault EXCEPT ![<<p, m>>] = @ + amount]
      /\ balance' = [balance EXCEPT ![<<w, m>>] = @ - amount]
      /\ transfers' = transfers /\ pools' = pools /\ clock' = clock
      /\ amount <= balance[<<w, m>>]
  BY DEF Donate
<1>3. /\ EscrowHold' = EscrowHold
      /\ FreeTokens' = [FreeTokens EXCEPT ![<<p, m>>] = @ + amount]
      /\ FreeTokens[<<p, m>>] = vault[<<p, m>>] - pools[p].total_escrowed
  <2>1. /\ amount \in Int /\ m = pools[p].mint /\ pools'[p].mint = m
        /\ Owed(pools'[p], m) = Owed(pools[p], m)
        /\ \A x \in PoolIds \ {p} : pools'[x] = pools[x]
    BY <1>1, <1>2
  <2>2. /\ vault' = [vault EXCEPT ![<<p, m>>] = @ + amount]
        /\ transfers' = transfers /\ p \in Live
    BY <1>1, <1>2
  <2> QED
    BY <2>1, <2>2, VaultMoves
<1>4. EscrowView!Give(w, p, m, amount)
  BY <1>2, <1>3 DEF EscrowView!Give
<1>5. amount \in 1..balance[<<w, m>>]
  BY <1>1, <1>2
<1> QED
  BY <1>1, <1>4, <1>5 DEF EscrowView!Next

----------------------------------------------------------------------------
(* The refinement                                                          *)

\* A step that leaves the pools, the transfers and the vaults alone leaves what is
\* seen of them alone.
LEMMA SameView ==
    ASSUME UNCHANGED <<pools, transfers, vault>>
    PROVE  EscrowHold' = EscrowHold /\ FreeTokens' = FreeTokens
  BY DEF EscrowHold, FreeTokens, Open, Live, EscrowUnits, OpenIn

\* Every step of the program is a step of Escrow, or one it does not see.
LEMMA NextImplements ==
    ASSUME Accounting, Accounting', [Next]_vars
    PROVE  [EscrowView!Next]_(EscrowView!vars)
<1>s. ASSUME EscrowHold' = EscrowHold, FreeTokens' = FreeTokens,
             clock' = clock, balance' = balance
      PROVE  [EscrowView!Next]_(EscrowView!vars)
  BY <1>s DEF EscrowView!vars
<1>1. CASE PoolStep
  <2>1. PICK w \in Wallets, p \in PoolIds :
          \/ \E m \in Mints, bps \in FeeBps : InitPool(w, p, m, bps)
          \/ \E paused \in BOOLEAN : PausePool(w, p, paused)
          \/ WithdrawFees(w, p)
          \/ ResetPool(w, p)
          \/ \E amount \in 0..U64Max : ClosePool(w, p, amount)
    BY <1>1 DEF PoolStep
  <2>o. IsOperator(w, p) => p \in Live /\ pools[p] \in Pool /\ p \in PoolIds
    BY DEF IsOperator, Live, Accounting, TypeOK
  <2>2. ASSUME NEW m \in Mints, NEW bps \in FeeBps, InitPool(w, p, m, bps)
        PROVE  [EscrowView!Next]_(EscrowView!vars)
    BY <2>2, <1>s, InitPoolStutters DEF InitPool
  <2>3. ASSUME NEW paused \in BOOLEAN, PausePool(w, p, paused)
        PROVE  [EscrowView!Next]_(EscrowView!vars)
    <3> DEFINE q == [pools[p] EXCEPT !.is_paused = paused]
    <3>1. p \in Live /\ pools[p] \in Pool
      BY <2>3, <2>o DEF PausePool
    <3>2. /\ q \in Pool /\ q.mint = pools[p].mint
          /\ q.total_escrowed = pools[p].total_escrowed
      BY <3>1 DEF Pool
    <3>3. pools' = [pools EXCEPT ![p] = q]
      BY <2>3 DEF PausePool
    <3> HIDE DEF q
    <3> QED
      BY <2>3, <3>1, <3>2, <3>3, <1>s, TotalsKeptStutters DEF PausePool
  <2>4. CASE WithdrawFees(w, p)
    BY <2>4, WithdrawCollects
  <2>5. CASE ResetPool(w, p)
    <3> DEFINE q == ResetCounters(pools[p])
    <3>1. p \in Live /\ pools[p] \in Pool /\ PoolAccounts(p) /\ TypeOK
      BY <2>5, <2>o, AccountingByPool DEF ResetPool
    <3>2. pools[p].total_escrowed = 0
      BY <2>5, <3>1, NoneOutstanding, NoneOpen DEF ResetPool, PoolAccounts
    <3>3. q \in Pool /\ q.mint = pools[p].mint /\ q.total_escrowed = 0
      BY <3>1, FeesType DEF ResetCounters, Pool
    <3>4. pools' = [pools EXCEPT ![p] = q]
      BY <2>5 DEF ResetPool
    <3> HIDE DEF q
    <3> QED
      BY <2>5, <3>1, <3>2, <3>3, <3>4, <1>s, TotalsKeptStutters DEF ResetPool
  <2>6. ASSUME NEW amount \in 0..U64Max, ClosePool(w, p, amount)
        PROVE  [EscrowView!Next]_(EscrowView!vars)
    BY <2>6, CloseCollects
  <2> QED
    BY <2>1, <2>2, <2>3, <2>4, <2>5, <2>6
<1>2. CASE TransferStep
  <2>1. PICK k \in Keys :
          \/ \E p \in PoolIds, amount \in Amounts, window \in Windows :
                 CreateTransfer(k, p, amount, window)
          \/ \E w \in Wallets : ClaimTransfer(w, k)
          \/ transfers[k] # NoTransfer /\ Refund(k)
    BY <1>2 DEF TransferStep, ExpireTransfer, CancelTransfer, DeclineTransfer,
                RejectTransfer, DestroyTransfer
  <2>2. ASSUME NEW p \in PoolIds, NEW amount \in Amounts, NEW window \in Windows,
               CreateTransfer(k, p, amount, window)
        PROVE  [EscrowView!Next]_(EscrowView!vars)
    <3>1. EscrowView!Lock(k, p, pools[p].mint, amount, window[1], window[2])
      BY <2>2, CreateLocks
    <3>2. pools[p].mint \in Mints
      BY <2>2 DEF CreateTransfer, Accounting, TypeOK, Pool
    <3> QED
      BY <3>1, <3>2 DEF EscrowView!Next
  <2>3. ASSUME NEW w \in Wallets, ClaimTransfer(w, k)
        PROVE  [EscrowView!Next]_(EscrowView!vars)
    <3>1. /\ EscrowHold[k] # NoTransfer
          /\ \E fee \in 0..EscrowHold[k].amount : EscrowView!Release(k, fee)
      BY <2>3, ClaimReleases
    <3> QED
      BY <3>1 DEF EscrowView!Next
  <2>4. CASE transfers[k] # NoTransfer /\ Refund(k)
    <3>1. EscrowView!Return(k)
      BY <2>4, RefundReturns
    <3> QED
      BY <3>1 DEF EscrowView!Next
  <2> QED
    BY <2>1, <2>2, <2>3, <2>4
<1>3. CASE EnvironmentStep
  <2>1. CASE Tick
    <3>1. EscrowView!Tick
      BY <2>1, SameView DEF Tick, EscrowView!Tick
    <3> QED
      BY <3>1 DEF EscrowView!Next
  <2>2. ASSUME NEW w \in Wallets, NEW p \in PoolIds, NEW amount \in Donations,
               Donate(w, p, amount)
        PROVE  [EscrowView!Next]_(EscrowView!vars)
    BY <2>2, DonateGives
  <2>3. ASSUME NEW w \in Wallets, NEW m \in Mints,
               CloseTokenAccount(w, m) \/ OpenTokenAccount(w, m)
        PROVE  [EscrowView!Next]_(EscrowView!vars)
    BY <2>3, <1>s, SameView DEF CloseTokenAccount, OpenTokenAccount
  <2> QED
    BY <1>3, <2>1, <2>2, <2>3 DEF EnvironmentStep
<1>4. CASE UNCHANGED vars
  BY <1>4, <1>s, SameView DEF vars
<1> QED
  BY <1>1, <1>2, <1>3, <1>4 DEF Next

\* Initially nothing is held and no house has a token.
LEMMA InitImplements == Init => EscrowView!Init
<1> SUFFICES ASSUME Init PROVE EscrowView!Init
  OBVIOUS
<1>1. EscrowHold = [k \in Keys |-> NoTransfer]
  BY HoldByKey DEF Init, HoldOf
<1>2. FreeTokens = [pm \in PoolIds \X Mints |-> 0]
  <2>1. Accounting
    BY InitAccounting
  <2>2. \A pm \in PoolIds \X Mints : vault[pm] = 0 /\ Owed(pools[pm[1]], pm[2]) = 0
    BY DEF Init, Owed
  <2> QED
    BY <2>1, <2>2, FreeByTotals DEF FreeOf
<1>3. balance \in [Wallets \X Mints -> Nat]
  BY ConstantsAssumption DEF Init
<1> QED
  BY <1>1, <1>2, <1>3 DEF Init, EscrowView!Init

\* Every behaviour of the program is a behaviour of Escrow, whatever the pools,
\* mints, amounts, fees, windows and donations: a sender's tokens leave a transfer
\* once and whole, to the recipient in its window or back to the sender, and what
\* withdraw_fees and close_pool pay out was never owed to a transfer.
THEOREM HandshakeImplementsEscrow == Spec => ImplementsEscrow
<1>1. Accounting /\ Accounting' /\ [Next]_vars => [EscrowView!Next]_(EscrowView!vars)
  BY NextImplements
<1> QED
  BY <1>1, InitImplements, AccountingAlways, PTL
     DEF Spec, ImplementsEscrow, EscrowView!Spec
=============================================================================
