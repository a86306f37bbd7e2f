---------------------------- MODULE OrdersProofs ----------------------------
(***************************************************************************)
(* What the standing orders of a file may become, for any policies and any *)
(* number of orders: their types for overlapping commands, the rest while  *)
(* one command runs at a time.                                             *)
(***************************************************************************)
EXTENDS Orders, FiniteSetTheorems, SequenceTheorems, TLAPS

----------------------------------------------------------------------------
(* Orders and tasks                                                        *)

LEMMA OrderFields ==
    ASSUME NEW o \in Order
    PROVE  /\ o.id \in Seq(Nat) /\ o.status \in Statuses /\ o.attempts \in Nat
           /\ o.last \in Nat \cup {None} /\ o.policy \in Policy
           /\ o.policy.cooldown \in Nat /\ o.policy.remaining \in Nat \cup {None}
  BY DEF Order, Policy

\* What an evaluation or a cancellation makes of an order: the name and the policy stay.
LEMMA OrderChanges ==
    ASSUME NEW o \in Order
    PROVE  /\ \A status \in Statuses :
                  LET n == [o EXCEPT !.status = status]
                  IN  /\ n \in Order /\ n.id = o.id /\ n.policy = o.policy
                      /\ n.status = status /\ n.attempts = o.attempts /\ n.last = o.last
           /\ \A status \in Statuses, now \in Nat :
                  LET n == [o EXCEPT !.status = status, !.last = now]
                  IN  /\ n \in Order /\ n.id = o.id /\ n.policy = o.policy
                      /\ n.status = status /\ n.attempts = o.attempts /\ n.last = now
           /\ \A now \in Nat :
                  LET n == Attempted(o, now)
                  IN  /\ n \in Order /\ n.id = o.id /\ n.policy = o.policy
                      /\ n.status = "pending" /\ n.attempts = o.attempts + 1 /\ n.last = now
           /\ \A status \in Statuses, attempts \in Nat, last \in Nat \cup {None} :
                  LET n == [o EXCEPT !.status = status, !.attempts = attempts, !.last = last]
                  IN  /\ n \in Order /\ n.id = o.id /\ n.policy = o.policy
                      /\ n.status = status /\ n.attempts = attempts /\ n.last = last
<1>1. ASSUME NEW status \in Statuses
      PROVE  LET n == [o EXCEPT !.status = status]
             IN  /\ n \in Order /\ n.id = o.id /\ n.policy = o.policy
                 /\ n.status = status /\ n.attempts = o.attempts /\ n.last = o.last
  BY DEF Order
<1>2. ASSUME NEW status \in Statuses, NEW last \in Nat
      PROVE  LET n == [o EXCEPT !.status = status, !.last = last]
             IN  /\ n \in Order /\ n.id = o.id /\ n.policy = o.policy
                 /\ n.status = status /\ n.attempts = o.attempts /\ n.last = last
  BY DEF Order
<1>3. ASSUME NEW status \in Statuses, NEW attempts \in Nat, NEW last \in Nat \cup {None}
      PROVE  LET n == [o EXCEPT !.status = status, !.attempts = attempts, !.last = last]
             IN  /\ n \in Order /\ n.id = o.id /\ n.policy = o.policy
                 /\ n.status = status /\ n.attempts = attempts /\ n.last = last
  BY DEF Order
<1>4. ASSUME NEW now \in Nat
      PROVE  LET n == Attempted(o, now)
             IN  /\ n \in Order /\ n.id = o.id /\ n.policy = o.policy
                 /\ n.status = "pending" /\ n.attempts = o.attempts + 1 /\ n.last = now
  <2>1. Attempted(o, now) =
            [o EXCEPT !.status = "pending", !.attempts = o.attempts + 1, !.last = now]
    BY DEF Attempted, Order
  <2>2. o.attempts + 1 \in Nat /\ "pending" \in Statuses /\ now \in Nat \cup {None}
    BY OrderFields DEF Statuses
  <2>3. PICK a \in Nat : a = o.attempts + 1
    BY <2>2
  <2> DEFINE n == [o EXCEPT !.status = "pending", !.attempts = a, !.last = now]
  <2>4. /\ n \in Order /\ n.id = o.id /\ n.policy = o.policy
        /\ n.status = "pending" /\ n.attempts = a /\ n.last = now
    BY <2>2 DEF Order
  <2>5. Attempted(o, now) = n
    BY <2>1, <2>3
  <2> QED
    BY <2>3, <2>4, <2>5
<1> QED
  BY <1>1, <1>2, <1>3, <1>4

\* The clone of an order that recurs has one fill less to come.
LEMMA CloneFields ==
    ASSUME NEW o \in Order, NEW now \in Nat, Recurs(o)
    PROVE  LET n == Clone(o, now)
           IN  /\ n \in Order /\ n.id = Append(o.id, now) /\ n.status = "pending"
               /\ n.attempts = 0 /\ n.last = None
               /\ o.policy.remaining = None <=> n.policy.remaining = None
               /\ o.policy.remaining # None =>
                      /\ o.policy.remaining \in Nat /\ o.policy.remaining > 1
                      /\ n.policy.remaining = o.policy.remaining - 1
<1> DEFINE r == IF o.policy.remaining = None THEN None ELSE o.policy.remaining - 1
           policy == [o.policy EXCEPT !.remaining = r]
           n == Clone(o, now)
<1>1. o.policy.remaining # None => o.policy.remaining \in Nat /\ o.policy.remaining > 1
  BY OrderFields DEF Recurs
<1>2. r \in Nat \cup {None} /\ (o.policy.remaining = None <=> r = None)
  BY <1>1, ConstantsAssumption
<1>3. policy \in Policy /\ policy.remaining = r
  BY <1>2, OrderFields DEF Policy
<1>4. Append(o.id, now) \in Seq(Nat)
  BY OrderFields
<1>5. n = [id |-> Append(o.id, now), status |-> "pending", attempts |-> 0, last |-> None,
           policy |-> policy]
  <2>1. n = [o EXCEPT !.id = Append(o.id, now), !.status = "pending", !.attempts = 0,
                      !.last = None, !.policy = policy]
    BY DEF Clone, Order
  <2> QED
    BY <2>1 DEF Order
<1> HIDE DEF policy, r, n
<1>6. n \in Order /\ n.id = Append(o.id, now) /\ n.status = "pending" /\ n.attempts = 0
      /\ n.last = None /\ n.policy.remaining = r
  BY <1>3, <1>4, <1>5 DEF Order, Statuses
<1> QED
  BY <1>1, <1>2, <1>6 DEF n, r

LEMMA NewOrderFields ==
    ASSUME NEW k \in Nat, NEW policy \in Policies
    PROVE  LET n == NewOrder(k, policy)
           IN  /\ n \in Order /\ n.id = <<k>> /\ n.status = "pending" /\ n.attempts = 0
               /\ n.last = None /\ n.policy = policy /\ policy \in Policy
<1>1. policy \in Policy /\ <<k>> \in Seq(Nat)
  BY ConstantsAssumption
<1> QED
  BY <1>1 DEF NewOrder, Order, Statuses

LEMMA TaskFields ==
    ASSUME NEW t \in Task
    PROVE  /\ t.pc \in {"idle", "check", "submit", "cancel", "save", "write"}
           /\ t.store \in Seq(Order) /\ t.i \in Nat /\ t.now \in Nat
           /\ t.dryRun \in BOOLEAN /\ t.modified \in BOOLEAN
  BY DEF Task

LEMMA IdleFields ==
    /\ Idle \in Task /\ Idle.pc = "idle"
    /\ \A s \in Seq(Order) :
           Saving(s) \in Task /\ Saving(s).pc = "save" /\ Saving(s).store = s
<1>1. <<>> \in Seq(Order)
  OBVIOUS
<1>2. Idle \in Task /\ Idle.pc = "idle"
  BY <1>1 DEF Idle, Task
<1> QED
  BY <1>1, <1>2 DEF Saving, Idle, Task

\* Where a process is in its copy.
Placed(t) ==
    /\ t.pc = "cancel" => t.store # <<>>
    /\ t.pc = "check" => t.i >= 1
    /\ t.pc = "submit" => t.i \in DOMAIN t.store

Acting(p) == \A q \in Processes : q # p => task'[q] = task[q]

LEMMA TaskChanges ==
    ASSUME task \in [Processes -> Task], NEW p \in Processes, NEW u \in Task,
           task' = [task EXCEPT ![p] = u]
    PROVE  task' \in [Processes -> Task] /\ task'[p] = u /\ Acting(p)
  BY DEF Acting

\* The current order becomes m, and others join the copy.
LEMMA ContinueFields ==
    ASSUME task \in [Processes -> Task], NEW p \in Processes, task[p].i \in DOMAIN task[p].store,
           NEW m \in Order, NEW more \in Seq(Order), Continue(p, m, more)
    PROVE  LET t == task[p] u == task'[p]
           IN  /\ task' \in [Processes -> Task] /\ Acting(p)
               /\ u.pc = "check" /\ u.store = [t.store EXCEPT ![t.i] = m] \o more
               /\ u.i = t.i + 1 /\ u.now = t.now /\ u.modified
<1> DEFINE t == task[p]
           s == [t.store EXCEPT ![t.i] = m] \o more
           i == t.i + 1
           u == [t EXCEPT !.pc = "check", !.store = s, !.i = i, !.modified = TRUE]
<1>1. t \in Task
  OBVIOUS
<1>2. s \in Seq(Order) /\ i \in Nat
  <2>1. t.store \in Seq(Order) /\ t.i \in 1..Len(t.store)
    BY <1>1, TaskFields
  <2>2. [t.store EXCEPT ![t.i] = m] \in Seq(Order)
    BY <2>1, ExceptSeq
  <2> QED
    BY <2>1, <2>2, ConcatProperties
<1>3. task' = [task EXCEPT ![p] = u]
  BY DEF Continue
<1> HIDE DEF s, i
<1>4. u \in Task /\ u.pc = "check" /\ u.store = s /\ u.i = i /\ u.now = t.now /\ u.modified
  BY <1>1, <1>2 DEF Task
<1> HIDE DEF u
<1>5. task' \in [Processes -> Task] /\ task'[p] = u /\ Acting(p)
  BY <1>3, <1>4, TaskChanges
<1> QED
  BY <1>4, <1>5 DEF s, i

\* The order an evaluation looks at.
LEMMA CurrentFields ==
    ASSUME NEW t \in Task, Placed(t),
           (t.pc = "check" /\ t.i <= Len(t.store)) \/ t.pc = "submit"
    PROVE  t.i \in DOMAIN t.store /\ t.i \in 1..Len(t.store) /\ t.store[t.i] \in Order
<1>1. t.store \in Seq(Order) /\ t.i \in Nat
  BY TaskFields
<1>2. DOMAIN t.store = 1..Len(t.store) /\ Len(t.store) \in Nat
  BY <1>1
<1>3. t.i \in 1..Len(t.store)
  BY <1>1, <1>2 DEF Placed
<1> QED
  BY <1>1, <1>2, <1>3, ElementOfSeq

\* What an evaluation may decide about the order it looks at.
Decided(p, m) ==
    LET o == Current(p) now == task[p].now
    IN  \/ task[p].pc = "check" /\ Open(o) /\ m = [o EXCEPT !.status = "expired"]
        \/ /\ task[p].pc = "check" /\ Open(o)
           /\ m = [o EXCEPT !.status = "failed", !.last = now]
        \/ task[p].pc = "check" /\ Open(o) /\ m = Attempted(o, now)
        \/ task[p].pc = "submit" /\ m = Attempted(o, now)
        \/ task[p].pc = "submit" /\ m = [o EXCEPT !.status = "filled", !.last = now]

LEMMA DecidedFields ==
    ASSUME NEW p \in Processes, NEW m, task[p] \in Task, Current(p) \in Order, Decided(p, m)
    PROVE  LET o == Current(p) now == task[p].now
           IN  /\ m \in Order /\ m.id = o.id /\ m.policy = o.policy
               /\ task[p].pc \in {"check", "submit"}
               /\ \/ /\ m.status = "expired" /\ m.attempts = o.attempts /\ m.last = o.last
                     /\ task[p].pc = "check"
                  \/ /\ m.status = "failed" /\ m.attempts = o.attempts /\ m.last = now
                     /\ task[p].pc = "check"
                  \/ m.status = "pending" /\ m.attempts = o.attempts + 1 /\ m.last = now
                  \/ /\ m.status = "filled" /\ m.attempts = o.attempts /\ m.last = now
                     /\ task[p].pc = "submit"
               /\ task[p].pc = "check" => o.status = "pending"
<1> DEFINE o == Current(p)
           now == task[p].now
<1>1. now \in Nat /\ {"expired", "failed", "filled"} \subseteq Statuses
  BY TaskFields DEF Statuses
<1>2. o \in Order
  OBVIOUS
<1> HIDE DEF o, now
<1>3. \A status \in Statuses :
          LET n == [o EXCEPT !.status = status]
          IN  /\ n \in Order /\ n.id = o.id /\ n.policy = o.policy
              /\ n.status = status /\ n.attempts = o.attempts /\ n.last = o.last
  BY <1>2, OrderChanges
<1>4. \A status \in Statuses :
          LET n == [o EXCEPT !.status = status, !.last = now]
          IN  /\ n \in Order /\ n.id = o.id /\ n.policy = o.policy
              /\ n.status = status /\ n.attempts = o.attempts /\ n.last = now
  BY <1>1, <1>2 DEF Order
<1>5. LET n == Attempted(o, now)
      IN  /\ n \in Order /\ n.id = o.id /\ n.policy = o.policy
          /\ n.status = "pending" /\ n.attempts = o.attempts + 1 /\ n.last = now
  <2>1. \A time \in Nat :
            LET n == Attempted(o, time)
            IN  /\ n \in Order /\ n.id = o.id /\ n.policy = o.policy
                /\ n.status = "pending" /\ n.attempts = o.attempts + 1 /\ n.last = time
    BY <1>2, OrderChanges
  <2> QED
    BY <1>1, <2>1
<1>6. \/ task[p].pc = "check" /\ Open(o) /\ m = [o EXCEPT !.status = "expired"]
      \/ /\ task[p].pc = "check" /\ Open(o)
         /\ m = [o EXCEPT !.status = "failed", !.last = now]
      \/ task[p].pc = "check" /\ Open(o) /\ m = Attempted(o, now)
      \/ task[p].pc = "submit" /\ m = Attempted(o, now)
      \/ task[p].pc = "submit" /\ m = [o EXCEPT !.status = "filled", !.last = now]
  BY DEF Decided, o, now
<1>7. CASE task[p].pc = "check" /\ Open(o) /\ m = [o EXCEPT !.status = "expired"]
  <2>1. /\ m \in Order /\ m.id = o.id /\ m.policy = o.policy
        /\ m.status = "expired" /\ m.attempts = o.attempts /\ m.last = o.last
    BY <1>1, <1>3, <1>7
  <2> QED
    BY <1>7, <2>1 DEF Open, o, now
<1>8. CASE /\ task[p].pc = "check" /\ Open(o)
           /\ m = [o EXCEPT !.status = "failed", !.last = now]
  <2>1. /\ m \in Order /\ m.id = o.id /\ m.policy = o.policy
        /\ m.status = "failed" /\ m.attempts = o.attempts /\ m.last = now
    BY <1>1, <1>4, <1>8
  <2> QED
    BY <1>8, <2>1 DEF Open, o, now
<1>9. CASE m = Attempted(o, now)
  <2>1. /\ m \in Order /\ m.id = o.id /\ m.policy = o.policy
        /\ m.status = "pending" /\ m.attempts = o.attempts + 1 /\ m.last = now
    BY <1>5, <1>9
  <2>2. task[p].pc \in {"check", "submit"} /\ (task[p].pc = "check" => Open(o))
    BY <1>6
  <2> QED
    BY <2>1, <2>2 DEF Open, o, now
<1>10. CASE task[p].pc = "submit" /\ m = [o EXCEPT !.status = "filled", !.last = now]
  <2>1. /\ m \in Order /\ m.id = o.id /\ m.policy = o.policy
        /\ m.status = "filled" /\ m.attempts = o.attempts /\ m.last = now
    BY <1>1, <1>4, <1>10
  <2> QED
    BY <1>10, <2>1 DEF o, now
<1> QED
  BY <1>6, <1>7, <1>8, <1>9, <1>10

\* One order of the copy is decided on; a clone may join, and a transaction may land.
Evaluated(p, m, more) ==
    /\ task[p].i \in DOMAIN task[p].store /\ Current(p) \in Order
    /\ Decided(p, m) /\ Continue(p, m, more)
    /\ more = <<>> \/ (m.status = "filled" /\ Recurs(m) /\ more = <<Clone(m, task[p].now)>>)
    /\ landed' = landed
       \/ (task[p].pc = "submit" /\ landed' = landed (+) SetToBag({Current(p).id}))
    /\ UNCHANGED <<file, clock, created, crashes>>

\* It closes the order, or goes by an attempt at it.
ClosesOrTried(p, m) == Final(m) \/ Refuse(p) \/ task[p].pc = "submit"

LEMMA EvaluationDecides ==
    ASSUME NEW p \in Processes, task[p] \in Task, Placed(task[p]),
           Expire(p) \/ GiveUp(p) \/ Refuse(p) \/ Fail(p) \/ Fill(p)
    PROVE  \E m, more : Evaluated(p, m, more) /\ ClosesOrTried(p, m)
<1>1. task[p].i \in DOMAIN task[p].store /\ Current(p) \in Order
  <2>1. (task[p].pc = "check" /\ task[p].i <= Len(task[p].store)) \/ task[p].pc = "submit"
    BY DEF Expire, GiveUp, Refuse, Fail, Fill, Checking
  <2> QED
    BY <2>1, CurrentFields DEF Current
<1>2. CASE Expire(p)
  <2>1. Evaluated(p, [Current(p) EXCEPT !.status = "expired"], <<>>)
    BY <1>1, <1>2 DEF Expire, Checking, Evaluated, Decided
  <2>2. Final([Current(p) EXCEPT !.status = "expired"])
    BY <1>1 DEF Final, Order
  <2> QED
    BY <2>1, <2>2 DEF ClosesOrTried
<1>3. CASE GiveUp(p)
  <2>1. Evaluated(p, [Current(p) EXCEPT !.status = "failed", !.last = task[p].now], <<>>)
    BY <1>1, <1>3 DEF GiveUp, Checking, Evaluated, Decided
  <2>2. Final([Current(p) EXCEPT !.status = "failed", !.last = task[p].now])
    BY <1>1 DEF Final, Order
  <2> QED
    BY <2>1, <2>2 DEF ClosesOrTried
<1>4. CASE Refuse(p)
  <2>1. Evaluated(p, Attempted(Current(p), task[p].now), <<>>)
    BY <1>1, <1>4 DEF Refuse, Checking, Due, Evaluated, Decided
  <2> QED
    BY <1>4, <2>1 DEF ClosesOrTried
<1>5. CASE Fail(p)
  <2>1. Evaluated(p, Attempted(Current(p), task[p].now), <<>>)
    BY <1>1, <1>5 DEF Fail, MayLand, Evaluated, Decided
  <2> QED
    BY <1>5, <2>1 DEF Fail, ClosesOrTried
<1>6. CASE Fill(p)
  <2> DEFINE filled == [Current(p) EXCEPT !.status = "filled", !.last = task[p].now]
             more == IF Recurs(filled) THEN <<Clone(filled, task[p].now)>> ELSE <<>>
  <2>1. filled.status = "filled"
    BY <1>1 DEF Order
  <2>2. /\ task[p].pc = "submit" /\ MayLand(p) /\ Continue(p, filled, more)
        /\ UNCHANGED <<file, clock, created, crashes>>
    BY <1>6 DEF Fill
  <2>3. Decided(p, filled)
    BY <2>2 DEF Decided
  <2>4. more = <<>> \/ (filled.status = "filled" /\ Recurs(filled)
                            /\ more = <<Clone(filled, task[p].now)>>)
    BY <2>1
  <2> HIDE DEF filled, more
  <2>5. Evaluated(p, filled, more)
    BY <1>1, <2>2, <2>3, <2>4 DEF MayLand, Evaluated
  <2> QED
    BY <2>2, <2>5 DEF ClosesOrTried
<1> QED
  BY <1>2, <1>3, <1>4, <1>5, <1>6

\* What becomes of the copy then.
LEMMA EvaluatedFields ==
    ASSUME task \in [Processes -> Task], NEW p \in Processes, NEW m, NEW more,
           Evaluated(p, m, more)
    PROVE  LET t == task[p] u == task'[p]
           IN  /\ task' \in [Processes -> Task] /\ Acting(p)
               /\ u.pc = "check" /\ u.i = t.i + 1 /\ u.now = t.now /\ u.modified
               /\ more \in Seq(Order) /\ u.store = [t.store EXCEPT ![t.i] = m] \o more
<1>1. /\ m \in Order /\ task[p].now \in Nat
  BY DecidedFields, TaskFields DEF Evaluated
<1>2. more \in Seq(Order)
  <2>1. CASE more = <<>>
    BY <2>1
  <2>2. CASE Recurs(m) /\ more = <<Clone(m, task[p].now)>>
    <3>1. Clone(m, task[p].now) \in Order
      BY <1>1, <2>2, CloneFields
    <3> QED
      BY <2>2, <3>1
  <2> QED
    BY <2>1, <2>2 DEF Evaluated
<1> QED
  BY <1>1, <1>2, ContinueFields DEF Evaluated

\* Adding one to a bag.
Copies(d, bag) == IF BagIn(d, bag) THEN bag[d] ELSE 0

LEMMA BagGrows ==
    ASSUME NEW bag, IsABag(bag), NEW d
    PROVE  LET b == bag (+) SetToBag({d})
           IN  /\ IsABag(b) /\ BagToSet(b) = BagToSet(bag) \cup {d}
               /\ Copies(d, b) = Copies(d, bag) + 1
               /\ \A e : e # d => Copies(e, b) = Copies(e, bag)
               /\ \A e : Copies(e, bag) \in Nat
<1> DEFINE b == bag (+) SetToBag({d})
<1>1. bag \in [DOMAIN bag -> {n \in Nat : n > 0}]
  BY DEF IsABag
<1>2. b = [e \in DOMAIN bag \cup {d} |->
              (IF e \in DOMAIN bag THEN bag[e] ELSE 0) + (IF e = d THEN 1 ELSE 0)]
  <2>1. DOMAIN SetToBag({d}) = {d} /\ SetToBag({d})[d] = 1
    BY DEF SetToBag
  <2> QED
    BY <2>1 DEF (+)
<1> HIDE DEF b
<1>3. DOMAIN b = DOMAIN bag \cup {d}
  BY <1>2
<1>4. \A e \in DOMAIN b : b[e] = (IF e \in DOMAIN bag THEN bag[e] ELSE 0) + (IF e = d THEN 1 ELSE 0)
  BY <1>2
<1>5. \A e \in DOMAIN bag : bag[e] \in Nat /\ bag[e] > 0
  BY <1>1
<1>6. \A e \in DOMAIN b : b[e] \in Nat /\ b[e] > 0
  BY <1>3, <1>4, <1>5
<1>7. IsABag(b)
  <2>1. b = [e \in DOMAIN b |-> b[e]]
    BY <1>2
  <2> QED
    BY <1>6, <2>1 DEF IsABag
<1> QED
  BY <1>3, <1>4, <1>5, <1>7 DEF Copies, BagIn, BagToSet, b

\* A function over the first numbers is a sequence.
LEMMA IsSequence ==
    ASSUME NEW S, NEW n \in Nat, NEW f \in [1..n -> S]
    PROVE  f \in Seq(S) /\ Len(f) = n
  OBVIOUS

LEMMA LoadedFields ==
    ASSUME TypeOK
    PROVE  /\ Loaded \in Seq(Order) /\ file.orders \in Seq(Order)
           /\ Loaded = <<>> \/ Loaded = file.orders
           /\ Entries(Loaded) \subseteq Entries(file.orders)
           /\ \A o \in Entries(Loaded) : o \in Order
<1>1. file.orders \in Seq(Order)
  BY DEF TypeOK
<1>2. Loaded \in Seq(Order) /\ (Loaded = <<>> \/ Loaded = file.orders)
  BY <1>1 DEF Loaded
<1>3. Entries(<<>>) = {}
  BY DEF Entries
<1> QED
  BY <1>1, <1>2, <1>3, ElementOfSeq DEF Entries

LEMMA CreateFields ==
    ASSUME TypeOK, NEW p \in Processes, NEW policy \in Policies, Create(p, policy)
    PROVE  LET u == task'[p]
           IN  /\ task' \in [Processes -> Task] /\ Acting(p)
               /\ u.pc = "save" /\ u.store = Append(Loaded, NewOrder(created + 1, policy))
               /\ created' = created + 1 /\ created' \in 0..MaxCreated
<1>1. created' = created + 1 /\ created + 1 \in Nat /\ created' \in 0..MaxCreated
  BY ConstantsAssumption DEF Create, TypeOK
<1>2. Append(Loaded, NewOrder(created + 1, policy)) \in Seq(Order)
  <2>1. NewOrder(created + 1, policy) \in Order
    BY <1>1, NewOrderFields
  <2> QED
    BY <2>1, LoadedFields
<1>3. task' = [task EXCEPT ![p] = Saving(Append(Loaded, NewOrder(created + 1, policy)))]
  BY DEF Create
<1> QED
  BY <1>1, <1>2, <1>3, IdleFields, TaskChanges DEF TypeOK

LEMMA BeginCancelFields ==
    ASSUME TypeOK, NEW p \in Processes, NEW order \in Entries(Loaded), BeginCancel(p, order)
    PROVE  LET u == task'[p]
           IN  /\ task' \in [Processes -> Task] /\ Acting(p)
               /\ u.pc = "cancel" /\ u.store = <<order>>
<1> DEFINE s == <<order>>
           u == [Idle EXCEPT !.pc = "cancel", !.store = s]
<1>1. s \in Seq(Order)
  BY LoadedFields
<1>2. task' = [task EXCEPT ![p] = u]
  BY DEF BeginCancel
<1> HIDE DEF s
<1>3. u \in Task /\ u.pc = "cancel" /\ u.store = s
  BY <1>1, IdleFields DEF Task
<1> HIDE DEF u
<1> QED
  BY <1>2, <1>3, TaskChanges DEF TypeOK, s

\* The cancelled order takes its place, with the history that was found first.
LEMMA CancelFields ==
    ASSUME TypeOK, NEW p \in Processes, task[p].store # <<>>, Cancel(p)
    PROVE  LET u == task'[p] seen == task[p].store[1]
           IN  /\ task' \in [Processes -> Task] /\ Acting(p)
               /\ \/ u = Idle
                  \/ /\ u.pc = "save" /\ Len(u.store) = Len(Loaded)
                     /\ \A k \in DOMAIN Loaded :
                            u.store[k] = IF Loaded[k].id = seen.id
                                         THEN [Loaded[k] EXCEPT !.status = "cancelled",
                                                  !.attempts = seen.attempts, !.last = seen.last]
                                         ELSE Loaded[k]
<1> DEFINE seen == task[p].store[1]
           Cancelled(o) == [o EXCEPT !.status = "cancelled",
                                     !.attempts = seen.attempts, !.last = seen.last]
           found == {k \in DOMAIN Loaded : Loaded[k].id = seen.id}
           s == [k \in DOMAIN Loaded |-> IF k \in found THEN Cancelled(Loaded[k]) ELSE Loaded[k]]
<1>1. seen \in Order
  <2>1. task[p].store \in Seq(Order)
    BY TaskFields DEF TypeOK
  <2>2. 1 \in 1..Len(task[p].store)
    BY <2>1
  <2> QED
    BY <2>1, <2>2, ElementOfSeq
<1>2. Loaded \in Seq(Order) /\ Len(Loaded) \in Nat /\ DOMAIN Loaded = 1..Len(Loaded)
  BY LoadedFields
<1>3. ASSUME NEW k \in DOMAIN Loaded
      PROVE  Cancelled(Loaded[k]) \in Order /\ Loaded[k] \in Order
  <2>1. Loaded[k] \in Order
    BY <1>2, ElementOfSeq
  <2>2. PICK a \in Nat, l \in Nat \cup {None} : a = seen.attempts /\ l = seen.last
    BY <1>1, OrderFields
  <2>3. [Loaded[k] EXCEPT !.status = "cancelled", !.attempts = a, !.last = l] \in Order
    BY <2>1 DEF Order, Statuses
  <2> QED
    BY <2>1, <2>2, <2>3
<1>4. s \in Seq(Order) /\ Len(s) = Len(Loaded)
  <2>1. s \in [1..Len(Loaded) -> Order]
    BY <1>2, <1>3
  <2> QED
    BY <1>2, <2>1, IsSequence
<1>5. \A k \in DOMAIN Loaded :
          s[k] = IF Loaded[k].id = seen.id THEN Cancelled(Loaded[k]) ELSE Loaded[k]
  OBVIOUS
<1>6. task' = [task EXCEPT ![p] = Idle] \/ task' = [task EXCEPT ![p] = Saving(s)]
  BY DEF Cancel
<1> HIDE DEF s
<1>7. CASE task' = [task EXCEPT ![p] = Idle]
  BY <1>7, IdleFields, TaskChanges DEF TypeOK
<1>8. CASE task' = [task EXCEPT ![p] = Saving(s)]
  <2>1. task' \in [Processes -> Task] /\ Acting(p) /\ task'[p] = Saving(s)
    BY <1>4, <1>8, IdleFields, TaskChanges DEF TypeOK
  <2>2. task'[p].pc = "save" /\ task'[p].store = s
    BY <1>4, <2>1, IdleFields
  <2> QED
    BY <1>4, <1>5, <2>1, <2>2
<1> QED
  BY <1>6, <1>7, <1>8

LEMMA EvaluateFields ==
    ASSUME TypeOK, NEW p \in Processes, NEW dryRun \in BOOLEAN, Evaluate(p, dryRun)
    PROVE  LET u == task'[p]
           IN  /\ task' \in [Processes -> Task] /\ Acting(p)
               /\ u.pc = "check" /\ u.store = Loaded /\ u.i = 1
<1> DEFINE u == [pc |-> "check", store |-> Loaded, i |-> 1, now |-> clock,
                 dryRun |-> dryRun, modified |-> FALSE]
<1>1. Loaded \in Seq(Order) /\ clock \in Nat
  BY LoadedFields DEF TypeOK
<1>2. u \in Task /\ u.pc = "check" /\ u.store = Loaded /\ u.i = 1
  BY <1>1 DEF Task
<1>3. task' = [task EXCEPT ![p] = u]
  BY DEF Evaluate
<1> HIDE DEF u
<1> QED
  BY <1>2, <1>3, TaskChanges DEF TypeOK

LEMMA OfferFields ==
    ASSUME TypeOK, NEW p \in Processes, Placed(task[p]), Offer(p)
    PROVE  LET t == task[p] u == task'[p] o == Current(p)
           IN  /\ task' \in [Processes -> Task] /\ Acting(p)
               /\ t.i \in DOMAIN t.store /\ o \in Order
               /\ u.pc = "submit" /\ u.i = t.i /\ u.now = t.now
               /\ u.store = [t.store EXCEPT ![t.i] = [o EXCEPT !.status = "executing"]]
               /\ [o EXCEPT !.status = "executing"] \in Order
<1> DEFINE t == task[p]
           o == Current(p)
           m == [o EXCEPT !.status = "executing"]
           s == [t.store EXCEPT ![t.i] = m]
           u == [t EXCEPT !.pc = "submit", !.modified = TRUE, !.store = s]
<1>1. t \in Task /\ t.store \in Seq(Order) /\ t.i \in Nat
  BY TaskFields DEF TypeOK
<1>2. t.i \in DOMAIN t.store /\ t.i \in 1..Len(t.store) /\ o \in Order
  BY <1>1, CurrentFields DEF Offer, Checking, Current
<1>3. m \in Order
  BY <1>2, OrderChanges DEF Statuses
<1>4. s \in Seq(Order)
  BY <1>1, <1>2, <1>3, ExceptSeq
<1>5. task' = [task EXCEPT ![p] = u]
  BY DEF Offer
<1> HIDE DEF s
<1>6. u \in Task /\ u.pc = "submit" /\ u.store = s /\ u.i = t.i /\ u.now = t.now
  BY <1>1, <1>4 DEF Task
<1> HIDE DEF u
<1>7. task' \in [Processes -> Task] /\ Acting(p) /\ task'[p] = u
  BY <1>5, <1>6, TaskChanges DEF TypeOK
<1> QED
  BY <1>2, <1>3, <1>6, <1>7 DEF s

\* The steps that change neither the copy nor the history.
LEMMA OtherFields ==
    ASSUME TypeOK, NEW p \in Processes, Placed(task[p])
    PROVE  LET t == task[p] u == task'[p]
           IN  /\ Truncate(p) \/ Write(p) \/ Skip(p) \/ Finish(p) \/ Crash(p) =>
                      task' \in [Processes -> Task] /\ Acting(p)
               /\ Truncate(p) => u.pc = "write" /\ u.store = t.store
               /\ Write(p) \/ Crash(p) => u = Idle
               /\ Skip(p) => u.pc = "check" /\ u.i = t.i + 1 /\ u.store = t.store /\ u.now = t.now
               /\ Skip(p) => t.pc = "check" /\ (u.modified <=> t.modified)
               /\ Finish(p) => /\ t.pc = "check"
                              /\ \/ ~t.modified /\ u = Idle
                                 \/ u.pc = "save" /\ u.store = t.store
<1> DEFINE t == task[p]
<1>1. t \in Task /\ t.store \in Seq(Order) /\ t.i \in Nat /\ task \in [Processes -> Task]
  BY TaskFields DEF TypeOK
<1>2. ASSUME Truncate(p)
      PROVE  /\ task' \in [Processes -> Task] /\ Acting(p)
             /\ task'[p].pc = "write" /\ task'[p].store = t.store
  <2> DEFINE u == [t EXCEPT !.pc = "write"]
  <2>1. u \in Task /\ u.pc = "write" /\ u.store = t.store
    BY <1>1 DEF Task
  <2>2. task' = [task EXCEPT ![p] = u]
    BY <1>1, <1>2 DEF Truncate
  <2> HIDE DEF u
  <2> QED
    BY <1>1, <2>1, <2>2, TaskChanges
<1>3. ASSUME Write(p) \/ Crash(p)
      PROVE  task' \in [Processes -> Task] /\ Acting(p) /\ task'[p] = Idle
  <2>1. task' = [task EXCEPT ![p] = Idle]
    BY <1>3 DEF Write, Crash
  <2> QED
    BY <1>1, <2>1, IdleFields, TaskChanges
<1>4. ASSUME Skip(p)
      PROVE  /\ task' \in [Processes -> Task] /\ Acting(p)
             /\ task'[p].pc = "check" /\ task'[p].i = t.i + 1 /\ task'[p].store = t.store
             /\ task'[p].now = t.now
             /\ t.pc = "check" /\ (task'[p].modified <=> t.modified)
  <2>1. PICK i \in Nat : i = t.i + 1
    BY <1>1
  <2> DEFINE u == [t EXCEPT !.i = i]
  <2>2. /\ u \in Task /\ u.pc = "check" /\ u.store = t.store /\ u.i = t.i + 1 /\ u.now = t.now
        /\ t.pc = "check" /\ u.modified = t.modified
    BY <1>1, <1>4, <2>1 DEF Task, Skip, Checking
  <2>3. task' = [task EXCEPT ![p] = u]
    BY <1>1, <1>4, <2>1 DEF Skip
  <2> HIDE DEF u
  <2> QED
    BY <1>1, <2>2, <2>3, TaskChanges
<1>5. ASSUME Finish(p)
      PROVE  /\ task' \in [Processes -> Task] /\ Acting(p)
             /\ t.pc = "check"
             /\ \/ ~t.modified /\ task'[p] = Idle
                \/ task'[p].pc = "save" /\ task'[p].store = t.store
  <2>0. t.pc = "check"
    BY <1>5 DEF Finish
  <2>1. CASE task' = [task EXCEPT ![p] = Idle] /\ ~t.modified
    BY <1>1, <2>0, <2>1, IdleFields, TaskChanges
  <2>2. CASE task' = [task EXCEPT ![p] = Saving(t.store)]
    BY <1>1, <2>0, <2>2, IdleFields, TaskChanges
  <2> QED
    BY <1>1, <1>5, <2>1, <2>2 DEF Finish
<1> QED
  BY <1>2, <1>3, <1>4, <1>5

----------------------------------------------------------------------------
(* Types                                                                   *)

TypeInv == TypeOK /\ \A p \in Processes : Placed(task[p])

LEMMA IdlePlaced == Placed(Idle)
  BY IdleFields DEF Placed

\* Each step of a process leaves it somewhere in its copy.
LEMMA ProcessTyped ==
    ASSUME TypeInv, NEW p \in Processes,
           \/ \E policy \in Policies : Create(p, policy)
           \/ \E order \in Entries(Loaded) : BeginCancel(p, order)
           \/ \E dryRun \in BOOLEAN : Evaluate(p, dryRun)
           \/ Proceed(p)
           \/ Crash(p)
    PROVE  task' \in [Processes -> Task] /\ Acting(p) /\ Placed(task'[p])
<1>1. TypeOK /\ Placed(task[p]) /\ task[p] \in Task /\ task \in [Processes -> Task]
  BY DEF TypeInv, TypeOK
<1>2. ASSUME NEW policy \in Policies, Create(p, policy)
      PROVE  task' \in [Processes -> Task] /\ Acting(p) /\ Placed(task'[p])
  BY <1>1, <1>2, CreateFields DEF Placed
<1>3. ASSUME NEW order \in Entries(Loaded), BeginCancel(p, order)
      PROVE  task' \in [Processes -> Task] /\ Acting(p) /\ Placed(task'[p])
  BY <1>1, <1>3, BeginCancelFields DEF Placed
<1>4. ASSUME NEW dryRun \in BOOLEAN, Evaluate(p, dryRun)
      PROVE  task' \in [Processes -> Task] /\ Acting(p) /\ Placed(task'[p])
  BY <1>1, <1>4, EvaluateFields DEF Placed
<1>5. CASE Cancel(p)
  <2>1. task[p].store # <<>>
    BY <1>1, <1>5 DEF Cancel, Placed
  <2> QED
    BY <1>1, <1>5, <2>1, CancelFields, IdlePlaced DEF Placed
<1>6. CASE Truncate(p) \/ Write(p) \/ Skip(p) \/ Finish(p) \/ Crash(p)
  <2>1. task' \in [Processes -> Task] /\ Acting(p)
    BY <1>1, <1>6, OtherFields
  <2>2. CASE Truncate(p)
    BY <1>1, <2>2, OtherFields DEF Placed
  <2>3. CASE Write(p) \/ Crash(p)
    BY <1>1, <2>3, OtherFields, IdlePlaced
  <2>4. CASE Skip(p)
    BY <1>1, <2>4, OtherFields, TaskFields DEF Placed
  <2>5. CASE Finish(p)
    BY <1>1, <2>5, OtherFields, IdlePlaced DEF Placed
  <2> QED
    BY <1>6, <2>1, <2>2, <2>3, <2>4, <2>5
<1>7. CASE Offer(p)
  <2>1. task[p].i \in 1..Len(task[p].store) /\ task[p].store \in Seq(Order)
    BY <1>1, <1>7, CurrentFields, TaskFields DEF Offer, Checking
  <2>2. /\ task' \in [Processes -> Task] /\ Acting(p)
        /\ task'[p].pc = "submit" /\ task'[p].i = task[p].i
        /\ DOMAIN task'[p].store = DOMAIN task[p].store
    BY <1>1, <1>7, OfferFields
  <2> QED
    BY <2>1, <2>2 DEF Placed
<1>8. CASE Expire(p) \/ GiveUp(p) \/ Refuse(p) \/ Fail(p) \/ Fill(p)
  <2>1. PICK m, more : Evaluated(p, m, more)
    BY <1>1, <1>8, EvaluationDecides
  <2>2. /\ task' \in [Processes -> Task] /\ Acting(p)
        /\ task'[p].pc = "check" /\ task'[p].i = task[p].i + 1 /\ task[p].i \in Nat
    BY <1>1, <2>1, EvaluatedFields, TaskFields
  <2> QED
    BY <2>2 DEF Placed
<1> QED
  BY <1>2, <1>3, <1>4, <1>5, <1>6, <1>7, <1>8 DEF Proceed

\* The history of attempts.
TriedTyped(h) ==
    /\ DOMAIN h \subseteq Seq(Nat)
    /\ \A id \in DOMAIN h : h[id] \in [at : Nat, crashes : 0..MaxCrashes]

LEMMA NoteTyped ==
    ASSUME TypeOK, NEW id \in Seq(Nat), NEW now \in Nat, Note(id, now)
    PROVE  TriedTyped(tried')
<1>1. DOMAIN tried' = DOMAIN tried \cup {id}
  BY DEF Note
<1>2. \A d \in DOMAIN tried' :
          tried'[d] = IF d = id THEN [at |-> now, crashes |-> crashes] ELSE tried[d]
  BY DEF Note
<1>3. [at |-> now, crashes |-> crashes] \in [at : Nat, crashes : 0..MaxCrashes]
  BY DEF TypeOK
<1> QED
  BY <1>1, <1>2, <1>3 DEF TypeOK, TriedTyped

\* Every step keeps the types.
LEMMA StepTyped ==
    ASSUME TypeInv, [Next]_vars
    PROVE  TypeInv'
<1>1. TypeOK
  BY DEF TypeInv
<1>2. ASSUME NEW p \in Processes,
             \/ \E policy \in Policies : Create(p, policy)
             \/ \E order \in Entries(Loaded) : BeginCancel(p, order)
             \/ \E dryRun \in BOOLEAN : Evaluate(p, dryRun)
             \/ Proceed(p)
             \/ Crash(p)
      PROVE  TypeInv'
  <2>1. task' \in [Processes -> Task] /\ Acting(p) /\ Placed(task'[p])
    BY <1>2, ProcessTyped
  <2>2. \A q \in Processes : Placed(task'[q])
    BY <2>1 DEF Acting, TypeInv
  <2>3. task[p] \in Task /\ Placed(task[p]) /\ task[p].store \in Seq(Order)
    BY <1>1, TaskFields DEF TypeInv, TypeOK
  <2>4. clock' = clock
    BY <1>2 DEF Create, BeginCancel, Evaluate, Proceed, Truncate, Write, Cancel, Skip, Expire,
                GiveUp, Refuse, Offer, Fail, Fill, Finish, Crash
  <2>5. file' \in [orders : Seq(Order), torn : BOOLEAN]
    <3>1. CASE Truncate(p)
      <4>1. file' = [file EXCEPT !.torn = TRUE]
        BY <3>1 DEF Truncate
      <4> QED
        BY <1>1, <4>1 DEF TypeOK
    <3>2. CASE Write(p)
      BY <2>3, <3>2 DEF Write
    <3>3. CASE ~Truncate(p) /\ ~Write(p)
      <4>1. file' = file
        BY <1>2, <3>3 DEF Create, BeginCancel, Evaluate, Proceed, Cancel, Skip, Expire,
                          GiveUp, Refuse, Offer, Fail, Fill, Finish, Crash
      <4> QED
        BY <1>1, <4>1 DEF TypeOK
    <3> QED
      BY <3>1, <3>2, <3>3
  <2>6. IsABag(landed') /\ BagToSet(landed') \subseteq Seq(Nat)
    <3>1. CASE Expire(p) \/ GiveUp(p) \/ Refuse(p) \/ Fail(p) \/ Fill(p)
      <4>1. PICK m, more : Evaluated(p, m, more)
        BY <2>3, <3>1, EvaluationDecides
      <4>2. PICK d \in Seq(Nat) : d = Current(p).id
        BY <4>1, OrderFields DEF Evaluated
      <4>3. landed' = landed \/ landed' = landed (+) SetToBag({d})
        BY <4>1, <4>2 DEF Evaluated
      <4>4. IsABag(landed) /\ BagToSet(landed) \subseteq Seq(Nat)
        BY <1>1 DEF TypeOK
      <4>5. /\ IsABag(landed (+) SetToBag({d}))
            /\ BagToSet(landed (+) SetToBag({d})) = BagToSet(landed) \cup {d}
        BY <4>4, BagGrows
      <4> QED
        BY <4>3, <4>4, <4>5
    <3>2. CASE ~(Expire(p) \/ GiveUp(p) \/ Refuse(p) \/ Fail(p) \/ Fill(p))
      <4>1. landed' = landed
        BY <1>2, <3>2 DEF Create, BeginCancel, Evaluate, Proceed, Truncate, Write, Cancel, Skip,
                          Offer, Finish, Crash
      <4> QED
        BY <1>1, <4>1 DEF TypeOK
    <3> QED
      BY <3>1, <3>2
  <2>7. created' \in 0..MaxCreated
    <3>1. CASE \E policy \in Policies : Create(p, policy)
      BY <1>1, <3>1, CreateFields
    <3>2. CASE ~\E policy \in Policies : Create(p, policy)
      <4>1. created' = created
        BY <1>2, <3>2 DEF BeginCancel, Evaluate, Proceed, Truncate, Write, Cancel, Skip, Expire,
                          GiveUp, Refuse, Offer, Fail, Fill, Finish, Crash
      <4> QED
        BY <1>1, <4>1 DEF TypeOK
    <3> QED
      BY <3>1, <3>2
  <2>8. crashes' \in 0..MaxCrashes
    <3>1. CASE Crash(p)
      BY <1>1, <3>1, ConstantsAssumption DEF Crash, TypeOK
    <3>2. CASE ~Crash(p)
      <4>1. crashes' = crashes
        BY <1>2, <3>2 DEF Create, BeginCancel, Evaluate, Proceed, Truncate, Write, Cancel, Skip,
                          Expire, GiveUp, Refuse, Offer, Fail, Fill, Finish
      <4> QED
        BY <1>1, <4>1 DEF TypeOK
    <3> QED
      BY <3>1, <3>2
  <2>9. TriedTyped(tried')
    <3>1. CASE Refuse(p) \/ Offer(p)
      <4>1. /\ Current(p).id \in Seq(Nat) /\ task[p].now \in Nat
            /\ Note(Current(p).id, task[p].now)
        BY <2>3, <3>1, CurrentFields, OrderFields, TaskFields
           DEF Refuse, Offer, Checking, Current
      <4> QED
        BY <1>1, <4>1, NoteTyped
    <3>2. CASE ~(Refuse(p) \/ Offer(p))
      <4>1. tried' = tried
        BY <1>2, <3>2 DEF Create, BeginCancel, Evaluate, Proceed, Truncate, Write, Cancel, Skip,
                          Expire, GiveUp, Fail, Fill, Finish, Crash
      <4> QED
        BY <1>1, <4>1 DEF TypeOK, TriedTyped
    <3> QED
      BY <3>1, <3>2
  <2> QED
    BY <1>1, <2>1, <2>2, <2>4, <2>5, <2>6, <2>7, <2>8, <2>9 DEF TypeInv, TypeOK, TriedTyped
<1>3. CASE Tick
  <2>1. clock' \in 0..MaxTime
    BY <1>1, <1>3, ConstantsAssumption DEF Tick, TypeOK
  <2> QED
    BY <1>1, <1>3, <2>1 DEF Tick, TypeInv, TypeOK
<1>4. CASE UNCHANGED vars
  BY <1>4 DEF vars, TypeInv, TypeOK
<1> QED
  BY <1>2, <1>3, <1>4 DEF Next

LEMMA TypedAtFirst ==
    ASSUME Init
    PROVE  TypeInv
<1>1. IsABag(EmptyBag) /\ BagToSet(EmptyBag) = {}
  BY DEF IsABag, EmptyBag, SetToBag, BagToSet
<1>2. <<>> \in Seq(Order)
  OBVIOUS
<1> QED
  BY <1>1, <1>2, IdleFields, IdlePlaced, ConstantsAssumption DEF Init, TypeInv, TypeOK

\* The file, the copies of the processes and the counters keep their types, however many
\* commands overlap (orders/types.ts, evaluate.ts:73-194).
THEOREM TypeAlwaysOK == Spec => []TypeOK
<1>1. Init => TypeInv
  BY TypedAtFirst
<1>2. TypeInv /\ [Next]_vars => TypeInv'
  BY StepTyped
<1>3. TypeInv => TypeOK
  BY DEF TypeInv
<1> QED
  BY <1>1, <1>2, <1>3, PTL DEF Spec

----------------------------------------------------------------------------
(* What is known of a store                                                *)

\* Every order descends from one that was created.
Rooted(s, n) == \A k \in DOMAIN s : s[k].id # <<>> /\ s[k].id[1] \in 1..n

\* Of two orders of one family the later has the longer name, the earlier is closed, and
\* has as many fills more to its count.
Kin(o, n) ==
    /\ Len(o.id) < Len(n.id) => Final(o)
    /\ o.policy.remaining = None <=> n.policy.remaining = None
    /\ o.policy.remaining # None =>
           o.policy.remaining + Len(o.id) = n.policy.remaining + Len(n.id)

Chained(s) ==
    \A j, k \in DOMAIN s : s[j].id[1] = s[k].id[1] =>
        Kin(s[j], s[k]) /\ (Len(s[j].id) = Len(s[k].id) => j = k)

\* A clone is made while there is a fill to come.
ToCome(s) == \A k \in DOMAIN s : Len(s[k].id) > 1 => s[k].policy.remaining # 0

WellKept(s, n) == Rooted(s, n) /\ Chained(s) /\ ToCome(s)

\* The transactions of the bag are in the history of the store, but for c of each order;
\* those of orders lost, whose family is still there, are no more than c.
Spent(s, bag, c) ==
    /\ \A k \in DOMAIN s : Copies(s[k].id, bag) <= Recorded(s[k]) + c
    /\ \A k \in DOMAIN s, d \in Seq(Nat) :
           d # <<>> /\ d[1] = s[k].id[1] /\ (\A j \in DOMAIN s : s[j].id # d) =>
               Copies(d, bag) <= c

----------------------------------------------------------------------------
(* How the copy of a process is related to the file                        *)

\* What an evaluation may make of the order o.
Follows(o, n) ==
    /\ n.id = o.id /\ n.policy = o.policy
    /\ Final(o) => n = o
    /\ Recorded(n) <= Recorded(o) + 1

\* The copy has the orders of the file, in their places, and then new ones.
Extends(f, s) ==
    /\ Len(f) <= Len(s)
    /\ \A k \in DOMAIN f : Follows(f[k], s[k])
    /\ \A k \in DOMAIN s : k > Len(f) => Recorded(s[k]) <= 1

\* From i on an evaluation has not looked at the orders yet.
Untouched(f, s, i) ==
    \A k \in DOMAIN s : k >= i =>
        IF k <= Len(f) THEN Recorded(s[k]) = Recorded(f[k]) ELSE Recorded(s[k]) = 0

\* The file was unreadable, and the copy has nothing of it.
Disjoint(f, s) == \A j \in DOMAIN f, k \in DOMAIN s : f[j].id[1] # s[k].id[1]

\* A process t that is alone over the file f, with c crashes.
Work(t, f, bag, c) ==
    /\ t.pc \in {"idle", "cancel"} => Spent(f, bag, c)
    /\ t.pc = "cancel" => t.store[1] \in Entries(f) /\ t.store[1].status = "pending"
    /\ t.pc \in {"check", "submit", "save", "write"} => Spent(t.store, bag, c)
    /\ t.pc = "check" /\ ~t.modified => Spent(f, bag, c)
    /\ t.pc \in {"check", "submit"} =>
           IF t.store = <<>> THEN Spent(f, bag, c)
           ELSE Extends(f, t.store) /\ Untouched(f, t.store, t.i)
    /\ t.pc \in {"save", "write"} =>
           Extends(f, t.store) \/ (Disjoint(f, t.store) /\ Spent(f, bag, c))

----------------------------------------------------------------------------
(* Deciding on an order                                                    *)

LEMMA RecordedIsNat ==
    ASSUME NEW o \in Order
    PROVE  Recorded(o) \in Nat
<1>1. o.attempts \in Nat
  BY OrderFields
<1> QED
  BY <1>1 DEF Recorded

LEMMA StoreFields ==
    ASSUME NEW s \in Seq(Order)
    PROVE  /\ Len(s) \in Nat /\ DOMAIN s = 1..Len(s)
           /\ \A k \in DOMAIN s : s[k] \in Order /\ s[k].id \in Seq(Nat) /\ Len(s[k].id) \in Nat
<1>1. \A k \in DOMAIN s : s[k] \in Order
  BY ElementOfSeq
<1>2. \A k \in DOMAIN s : s[k].id \in Seq(Nat)
  BY <1>1, OrderFields
<1> QED
  BY <1>1, <1>2

\* One order of a store becomes another of the same name and policy.
Decides(s, i, m) == m \in Order /\ m.id = s[i].id /\ m.policy = s[i].policy

LEMMA DecidedStore ==
    ASSUME NEW s \in Seq(Order), NEW i \in DOMAIN s, NEW m, Decides(s, i, m)
    PROVE  LET r == [s EXCEPT ![i] = m]
           IN  /\ r \in Seq(Order) /\ Len(r) = Len(s) /\ DOMAIN r = DOMAIN s /\ r[i] = m
               /\ \A k \in DOMAIN s : k # i => r[k] = s[k]
               /\ \A k \in DOMAIN s : r[k].id = s[k].id /\ r[k].policy = s[k].policy
<1> DEFINE r == [s EXCEPT ![i] = m]
<1>1. i \in 1..Len(s) /\ m \in Order /\ DOMAIN s = 1..Len(s)
  BY DEF Decides
<1>2. /\ r \in Seq(Order) /\ Len(r) = Len(s)
      /\ \A k \in 1..Len(s) : r[k] = IF k = i THEN m ELSE s[k]
  BY <1>1, ExceptSeq
<1> HIDE DEF r
<1>3. DOMAIN r = DOMAIN s
  BY <1>1, <1>2
<1> QED
  BY <1>1, <1>2, <1>3 DEF Decides, r

LEMMA DecidedKeeps ==
    ASSUME NEW s \in Seq(Order), NEW i \in DOMAIN s, NEW m, Decides(s, i, m), NEW n \in Nat,
           WellKept(s, n), Final(s[i]) => Final(m)
    PROVE  WellKept([s EXCEPT ![i] = m], n)
<1> DEFINE r == [s EXCEPT ![i] = m]
<1>1. /\ DOMAIN r = DOMAIN s
      /\ \A k \in DOMAIN s : k # i => r[k] = s[k]
      /\ \A k \in DOMAIN s : r[k].id = s[k].id /\ r[k].policy = s[k].policy
  BY DecidedStore
<1> HIDE DEF r
<1>2. Rooted(r, n)
  BY <1>1 DEF WellKept, Rooted
<1>3. Chained(r)
  <2> SUFFICES ASSUME NEW j \in DOMAIN s, NEW k \in DOMAIN s, s[j].id[1] = s[k].id[1]
               PROVE  Kin(r[j], r[k]) /\ (Len(s[j].id) = Len(s[k].id) => j = k)
    BY <1>1 DEF Chained
  <2>1. Kin(s[j], s[k]) /\ (Len(s[j].id) = Len(s[k].id) => j = k)
    BY DEF WellKept, Chained
  <2>2. Len(s[j].id) < Len(s[k].id) => Final(r[j])
    <3>1. r[i] = m
      BY DecidedStore DEF r
    <3> QED
      BY <1>1, <2>1, <3>1 DEF Kin
  <2> QED
    BY <1>1, <2>1, <2>2 DEF Kin
<1>4. ToCome(r)
  BY <1>1 DEF WellKept, ToCome
<1> QED
  BY <1>2, <1>3, <1>4 DEF WellKept, r

\* What lands for the order is in the history it then has.
LEMMA DecidedSpent ==
    ASSUME NEW s \in Seq(Order), NEW i \in DOMAIN s, NEW m, Decides(s, i, m), NEW n \in Nat,
           WellKept(s, n), NEW bag, IsABag(bag), NEW c \in Nat, Spent(s, bag, c), NEW after,
           \/ after = bag /\ Recorded(m) >= Recorded(s[i])
           \/ after = bag (+) SetToBag({s[i].id}) /\ Recorded(m) = Recorded(s[i]) + 1
    PROVE  Spent([s EXCEPT ![i] = m], after, c)
<1> DEFINE r == [s EXCEPT ![i] = m]
           d == s[i].id
<1>1. /\ DOMAIN r = DOMAIN s /\ r[i] = m
      /\ \A k \in DOMAIN s : k # i => r[k] = s[k]
      /\ \A k \in DOMAIN s : r[k].id = s[k].id
  BY DecidedStore
<1> HIDE DEF r
<1>2. \A k \in DOMAIN s : k # i => s[k].id # d
  BY DEF WellKept, Chained
<1>3. /\ \A e : e # d => Copies(e, after) = Copies(e, bag)
      /\ Copies(d, after) - Copies(d, bag) <= Recorded(m) - Recorded(s[i])
      /\ Copies(d, after) \in Nat /\ Copies(d, bag) \in Nat
  <2>1. Recorded(m) \in Nat /\ Recorded(s[i]) \in Nat
    BY RecordedIsNat, StoreFields DEF Decides
  <2>2. LET b == bag (+) SetToBag({d})
        IN  /\ Copies(d, b) = Copies(d, bag) + 1
            /\ \A e : e # d => Copies(e, b) = Copies(e, bag)
            /\ \A e : Copies(e, bag) \in Nat
    BY BagGrows
  <2>3. CASE after = bag /\ Recorded(m) >= Recorded(s[i])
    BY <2>1, <2>2, <2>3
  <2>4. CASE after = bag (+) SetToBag({d}) /\ Recorded(m) = Recorded(s[i]) + 1
    <3>1. /\ Copies(d, after) = Copies(d, bag) + 1 /\ Copies(d, bag) \in Nat
          /\ \A e : e # d => Copies(e, after) = Copies(e, bag)
      BY <2>2, <2>4
    <3>2. PICK x \in Nat, y \in Nat : x = Copies(d, bag) /\ y = Recorded(s[i])
      BY <2>1, <3>1
    <3>3. Copies(d, after) = x + 1 /\ Recorded(m) = y + 1
      BY <2>4, <3>1, <3>2
    <3>4. (x + 1) - x <= (y + 1) - y /\ x + 1 \in Nat
      OBVIOUS
    <3> QED
      BY <3>1, <3>2, <3>3, <3>4
  <2> QED
    BY <2>3, <2>4
<1>4. ASSUME NEW k \in DOMAIN s
      PROVE  Copies(r[k].id, after) <= Recorded(r[k]) + c
  <2>1. Copies(s[k].id, bag) <= Recorded(s[k]) + c
    BY DEF Spent
  <2>2. Recorded(m) \in Nat /\ Recorded(s[i]) \in Nat
    BY RecordedIsNat, StoreFields DEF Decides
  <2>3. CASE k = i
    BY <1>1, <1>3, <2>1, <2>2, <2>3
  <2>4. CASE k # i
    BY <1>1, <1>2, <1>3, <2>1, <2>4
  <2> QED
    BY <2>3, <2>4
<1>5. ASSUME NEW k \in DOMAIN s, NEW e \in Seq(Nat),
             e # <<>>, e[1] = r[k].id[1], \A j \in DOMAIN s : r[j].id # e
      PROVE  Copies(e, after) <= c
  <2>1. e # d /\ Copies(e, bag) <= c
    BY <1>1, <1>5 DEF Spent
  <2> QED
    BY <1>3, <2>1
<1> QED
  BY <1>1, <1>4, <1>5 DEF Spent, r

\* An order that was still open, and not in its cooldown if its history grows, follows
\* the one in the file.
LEMMA DecidedExtends ==
    ASSUME NEW f \in Seq(Order), NEW s \in Seq(Order), NEW i \in DOMAIN s, NEW m,
           Decides(s, i, m), Extends(f, s), Untouched(f, s, i), ~Final(s[i]),
           Recorded(m) <= Recorded(s[i]) + 1
    PROVE  Extends(f, [s EXCEPT ![i] = m]) /\ Untouched(f, [s EXCEPT ![i] = m], i + 1)
<1> DEFINE r == [s EXCEPT ![i] = m]
<1>1. /\ DOMAIN r = DOMAIN s /\ r[i] = m /\ Len(r) = Len(s)
      /\ \A k \in DOMAIN s : k # i => r[k] = s[k]
  BY DecidedStore
<1> HIDE DEF r
<1>2. /\ DOMAIN s = 1..Len(s) /\ DOMAIN f = 1..Len(f) /\ Len(s) \in Nat /\ Len(f) \in Nat
      /\ i \in Nat /\ s[i] \in Order /\ m \in Order
  <2>1. /\ DOMAIN s = 1..Len(s) /\ DOMAIN f = 1..Len(f) /\ Len(s) \in Nat /\ Len(f) \in Nat
        /\ s[i] \in Order /\ m \in Order
    BY StoreFields DEF Decides
  <2> QED
    BY <2>1
<1>3. CASE i <= Len(f)
  <2>1. i \in DOMAIN f /\ Follows(f[i], s[i]) /\ f[i] \in Order
    BY <1>2, <1>3, StoreFields DEF Extends
  <2>2. Recorded(s[i]) = Recorded(f[i])
    BY <1>2, <1>3 DEF Untouched
  <2>3. ~Final(f[i])
    BY <2>1 DEF Follows
  <2>5. Follows(f[i], m)
    BY <2>1, <2>2, <2>3 DEF Follows, Decides
  <2>6. Extends(f, r)
    BY <1>1, <1>2, <1>3, <2>5 DEF Extends
  <2>7. Untouched(f, r, i + 1)
    BY <1>1, <1>2 DEF Untouched
  <2> QED
    BY <2>6, <2>7 DEF r
<1>4. CASE i > Len(f)
  <2>1. Recorded(s[i]) = 0 /\ Recorded(m) <= 1
    BY <1>2, <1>4 DEF Untouched
  <2>2. Extends(f, r)
    BY <1>1, <1>2, <1>4, <2>1 DEF Extends
  <2>3. Untouched(f, r, i + 1)
    BY <1>1, <1>2 DEF Untouched
  <2> QED
    BY <2>2, <2>3 DEF r
<1> QED
  BY <1>2, <1>3, <1>4

----------------------------------------------------------------------------
(* Orders that join a store                                                *)

LEMMA AppendFields ==
    ASSUME NEW s \in Seq(Order), NEW x \in Order
    PROVE  LET r == Append(s, x) last == Len(s) + 1
           IN  /\ r \in Seq(Order) /\ Len(r) = last /\ DOMAIN r = DOMAIN s \cup {last}
               /\ last \notin DOMAIN s /\ r[last] = x /\ \A k \in DOMAIN s : r[k] = s[k]
<1> DEFINE r == Append(s, x)
<1>1. DOMAIN s = 1..Len(s) /\ Len(s) \in Nat
  OBVIOUS
<1>2. /\ r \in Seq(Order) /\ Len(r) = Len(s) + 1 /\ r[Len(s) + 1] = x
      /\ \A k \in 1..Len(s) : r[k] = s[k]
  BY AppendProperties
<1> HIDE DEF r
<1>3. DOMAIN r = 1..(Len(s) + 1)
  BY <1>2
<1>4. 1..(Len(s) + 1) = (1..Len(s)) \cup {Len(s) + 1} /\ Len(s) + 1 \notin 1..Len(s)
  BY <1>1
<1> QED
  BY <1>1, <1>2, <1>3, <1>4 DEF r

\* The clone of the youngest of a family that was filled joins it.
LEMMA CloneJoins ==
    ASSUME NEW s \in Seq(Order), NEW n \in Nat, WellKept(s, n), NEW i \in DOMAIN s,
           Final(s[i]), Recurs(s[i]), NEW now \in Nat,
           \A k \in DOMAIN s : s[k].id[1] = s[i].id[1] => Len(s[k].id) <= Len(s[i].id)
    PROVE  WellKept(Append(s, Clone(s[i], now)), n)
<1> DEFINE c == Clone(s[i], now)
           r == Append(s, c)
           last == Len(s) + 1
<1>1. s[i] \in Order /\ s[i].id \in Seq(Nat) /\ s[i].id # <<>> /\ s[i].id[1] \in 1..n
  BY StoreFields DEF WellKept, Rooted
<1>2. /\ c \in Order /\ c.id = Append(s[i].id, now)
      /\ s[i].policy.remaining = None <=> c.policy.remaining = None
      /\ s[i].policy.remaining # None =>
             /\ s[i].policy.remaining \in Nat /\ s[i].policy.remaining > 1
             /\ c.policy.remaining = s[i].policy.remaining - 1
  BY <1>1, CloneFields
<1> HIDE DEF c
<1>3. /\ DOMAIN r = DOMAIN s \cup {last} /\ last \notin DOMAIN s /\ r[last] = c
      /\ \A k \in DOMAIN s : r[k] = s[k]
  BY <1>2, AppendFields
<1> HIDE DEF r, last
<1>4. c.id # <<>> /\ c.id[1] = s[i].id[1] /\ Len(c.id) = Len(s[i].id) + 1
      /\ Len(s[i].id) \in Nat
  <2>1. 1 \in 1..Len(s[i].id)
    BY <1>1
  <2> QED
    BY <1>1, <1>2, <2>1, AppendProperties
<1>5. \A k \in DOMAIN s : Len(s[k].id) \in Nat /\ s[k].policy.remaining \in Nat \cup {None}
  BY StoreFields, OrderFields
<1>6. \A j, k \in DOMAIN s : s[j].id[1] = s[k].id[1] =>
          Kin(s[j], s[k]) /\ (Len(s[j].id) = Len(s[k].id) => j = k)
  BY DEF WellKept, Chained
<1>7. Rooted(r, n)
  BY <1>1, <1>3, <1>4 DEF WellKept, Rooted
<1>8. ASSUME NEW k \in DOMAIN s, s[k].id[1] = c.id[1]
      PROVE  Kin(s[k], c) /\ Kin(c, s[k]) /\ Len(s[k].id) # Len(c.id)
  <2>1. Kin(s[k], s[i]) /\ Kin(s[i], s[k]) /\ (Len(s[k].id) = Len(s[i].id) => k = i)
    BY <1>4, <1>6, <1>8
  <2>2. Len(s[k].id) <= Len(s[i].id) /\ Len(s[k].id) < Len(c.id)
    BY <1>4, <1>5, <1>8
  <2>3. Final(s[k])
    <3>1. CASE Len(s[k].id) = Len(s[i].id)
      BY <2>1, <3>1
    <3>2. CASE Len(s[k].id) < Len(s[i].id)
      BY <2>1, <3>2 DEF Kin
    <3> QED
      BY <1>5, <2>2, <3>1, <3>2
  <2>4. s[k].policy.remaining = None <=> c.policy.remaining = None
    BY <1>2, <2>1 DEF Kin
  <2>5. s[k].policy.remaining # None =>
            s[k].policy.remaining + Len(s[k].id) = c.policy.remaining + Len(c.id)
    <3> SUFFICES ASSUME s[k].policy.remaining # None
                 PROVE  s[k].policy.remaining + Len(s[k].id) = c.policy.remaining + Len(c.id)
      OBVIOUS
    <3>1. s[i].policy.remaining # None
      BY <1>2, <2>4
    <3>2. s[k].policy.remaining + Len(s[k].id) = s[i].policy.remaining + Len(s[i].id)
      BY <2>1 DEF Kin
    <3>3. PICK x \in Nat, y \in Nat : x = s[i].policy.remaining /\ y = Len(s[i].id)
      BY <1>2, <1>4, <3>1
    <3>4. c.policy.remaining = x - 1 /\ Len(c.id) = y + 1
      BY <1>2, <1>4, <3>1, <3>3
    <3>5. (x - 1) + (y + 1) = x + y
      OBVIOUS
    <3> QED
      BY <3>2, <3>3, <3>4, <3>5
  <2> QED
    BY <1>4, <1>5, <2>2, <2>3, <2>4, <2>5 DEF Kin
<1>9. Kin(c, c)
  BY <1>4 DEF Kin
<1>10. Chained(r)
  <2> SUFFICES ASSUME NEW j \in DOMAIN r, NEW k \in DOMAIN r, r[j].id[1] = r[k].id[1]
               PROVE  Kin(r[j], r[k]) /\ (Len(r[j].id) = Len(r[k].id) => j = k)
    BY DEF Chained
  <2>1. CASE j \in DOMAIN s /\ k \in DOMAIN s
    BY <1>3, <1>6, <2>1
  <2>2. CASE j \in DOMAIN s /\ k = last
    BY <1>3, <1>8, <2>2
  <2>3. CASE j = last /\ k \in DOMAIN s
    BY <1>3, <1>8, <2>3
  <2>4. CASE j = last /\ k = last
    BY <1>3, <1>9, <2>4
  <2> QED
    BY <1>3, <2>1, <2>2, <2>3, <2>4
<1>11. ToCome(r)
  <2>1. c.policy.remaining # 0
    <3>1. CASE s[i].policy.remaining = None
      BY <1>2, <3>1, ConstantsAssumption
    <3>2. CASE s[i].policy.remaining # None
      BY <1>2, <3>2
    <3> QED
      BY <3>1, <3>2
  <2> QED
    BY <1>3, <2>1 DEF WellKept, ToCome
<1> QED
  BY <1>7, <1>10, <1>11 DEF WellKept, r, c

LEMMA KeptMore ==
    ASSUME NEW s \in Seq(Order), NEW n \in Nat, WellKept(s, n)
    PROVE  WellKept(s, n + 1)
<1>1. 1..n \subseteq 1..(n + 1)
  OBVIOUS
<1>2. Rooted(s, n + 1)
  BY <1>1 DEF WellKept, Rooted
<1> QED
  BY <1>2 DEF WellKept

\* A new order starts a family.
LEMMA NewJoins ==
    ASSUME NEW s \in Seq(Order), NEW n \in Nat, WellKept(s, n), NEW policy \in Policies
    PROVE  WellKept(Append(s, NewOrder(n + 1, policy)), n + 1)
<1> DEFINE x == NewOrder(n + 1, policy)
           r == Append(s, x)
           last == Len(s) + 1
<1>1. x \in Order /\ x.id = <<n + 1>> /\ n + 1 \in Nat
  BY NewOrderFields
<1> HIDE DEF x
<1>2. /\ DOMAIN r = DOMAIN s \cup {last} /\ last \notin DOMAIN s /\ r[last] = x
      /\ \A k \in DOMAIN s : r[k] = s[k]
  BY <1>1, AppendFields
<1> HIDE DEF r, last
<1>3. x.id # <<>> /\ x.id[1] = n + 1 /\ Len(x.id) = 1 /\ n + 1 \in 1..(n + 1)
  BY <1>1
<1>4. Rooted(s, n + 1) /\ Chained(s) /\ ToCome(s)
  BY KeptMore DEF WellKept
<1>5. \A k \in DOMAIN s : s[k].id[1] # x.id[1]
  BY <1>3 DEF WellKept, Rooted
<1>6. Rooted(r, n + 1)
  BY <1>2, <1>3, <1>4 DEF Rooted
<1>7. Kin(x, x)
  BY <1>3 DEF Kin
<1>8. Chained(r)
  BY <1>2, <1>4, <1>5, <1>7 DEF Chained
<1>9. ToCome(r)
  <2>1. ~(Len(x.id) > 1)
    BY <1>3
  <2> QED
    BY <1>2, <1>4, <2>1 DEF ToCome
<1> QED
  BY <1>6, <1>8, <1>9 DEF WellKept, r, x

----------------------------------------------------------------------------
(* Families, whatever overlaps                                             *)

\* The copy a process goes on with.
Kept(t, n) ==
    /\ t.pc \in {"check", "submit", "save", "write"} => WellKept(t.store, n)
    /\ t.pc = "submit" => t.store[t.i].status = "executing"

KeptInv ==
    /\ TypeInv
    /\ WellKept(file.orders, created)
    /\ \A p \in Processes : Kept(task[p], created)

LEMMA EmptyKept ==
    ASSUME NEW n
    PROVE  WellKept(<<>>, n)
  BY DEF WellKept, Rooted, Chained, ToCome

LEMMA IdleKept ==
    ASSUME NEW n
    PROVE  Kept(Idle, n)
  BY IdleFields DEF Kept

LEMMA LoadedKept ==
    ASSUME KeptInv
    PROVE  WellKept(Loaded, created)
  BY EmptyKept DEF KeptInv, Loaded

\* The order found first, cancelled, takes the place of the one of its name.
LEMMA CancelDecides ==
    ASSUME TypeOK, NEW p \in Processes, task[p].store # <<>>, WellKept(Loaded, created), Cancel(p)
    PROVE  LET u == task'[p] seen == task[p].store[1]
           IN  \/ u = Idle
               \/ u.pc = "save" /\ u.store = Loaded
               \/ \E k \in DOMAIN Loaded, m \in Order :
                      /\ u.pc = "save" /\ u.store = [Loaded EXCEPT ![k] = m]
                      /\ Loaded[k].id = seen.id /\ Decides(Loaded, k, m) /\ m.status = "cancelled"
                      /\ m.attempts = seen.attempts /\ m.last = seen.last
<1> DEFINE u == task'[p]
           seen == task[p].store[1]
           f == Loaded
<1>1. /\ u \in Task
      /\ \/ u = Idle
         \/ /\ u.pc = "save" /\ Len(u.store) = Len(f)
            /\ \A k \in DOMAIN f :
                   u.store[k] = IF f[k].id = seen.id
                                THEN [f[k] EXCEPT !.status = "cancelled",
                                         !.attempts = seen.attempts, !.last = seen.last]
                                ELSE f[k]
  BY CancelFields
<1>2. f \in Seq(Order) /\ u.store \in Seq(Order) /\ DOMAIN f = 1..Len(f)
  <2>1. u.store \in Seq(Order)
    BY <1>1 DEF Task
  <2>2. f \in Seq(Order)
    BY LoadedFields
  <2> QED
    BY <2>1, <2>2
<1>3. seen \in Order
  <2>1. task[p].store \in Seq(Order)
    BY TaskFields DEF TypeOK
  <2> QED
    BY <2>1, ElementOfSeq
<1>4. \A j, k \in DOMAIN f : f[j].id = f[k].id => j = k
  BY DEF WellKept, Chained
<1>5. CASE u.pc = "save" /\ \A k \in DOMAIN f : f[k].id # seen.id
  <2>1. Len(u.store) = Len(f) /\ \A k \in 1..Len(f) : u.store[k] = f[k]
    BY <1>1, <1>2, <1>5, IdleFields
  <2>2. u.store = f
    BY <1>2, <2>1, SeqEqual
  <2> QED
    BY <1>5, <2>2
<1>6. ASSUME u.pc = "save", NEW k \in DOMAIN f, f[k].id = seen.id
      PROVE  \E m \in Order :
                 /\ u.store = [f EXCEPT ![k] = m]
                 /\ Decides(f, k, m) /\ m.status = "cancelled"
                 /\ m.attempts = seen.attempts /\ m.last = seen.last
  <2> DEFINE m == [f[k] EXCEPT !.status = "cancelled", !.attempts = seen.attempts, !.last = seen.last]
             r == [f EXCEPT ![k] = m]
  <2>1. /\ m \in Order /\ m.id = f[k].id /\ m.policy = f[k].policy
        /\ m.status = "cancelled" /\ m.attempts = seen.attempts /\ m.last = seen.last
    <3>1. f[k] \in Order /\ seen.attempts \in Nat /\ seen.last \in Nat \cup {None}
      BY <1>2, <1>3, StoreFields, OrderFields
    <3>2. "cancelled" \in Statuses
      BY DEF Statuses
    <3>3. PICK o \in Order, a \in Nat, l \in Nat \cup {None} :
              o = f[k] /\ a = seen.attempts /\ l = seen.last
      BY <3>1
    <3>4. LET n == [o EXCEPT !.status = "cancelled", !.attempts = a, !.last = l]
          IN  /\ n \in Order /\ n.id = o.id /\ n.policy = o.policy
              /\ n.status = "cancelled" /\ n.attempts = a /\ n.last = l
      BY <3>2 DEF Order
    <3> QED
      BY <3>3, <3>4
  <2>2. \A j \in DOMAIN f : u.store[j] = IF j = k THEN m ELSE f[j]
    <3>1. \A j \in DOMAIN f :
              u.store[j] = IF f[j].id = seen.id
                           THEN [f[j] EXCEPT !.status = "cancelled",
                                    !.attempts = seen.attempts, !.last = seen.last]
                           ELSE f[j]
      BY <1>1, <1>6, IdleFields
    <3>2. \A j \in DOMAIN f : f[j].id = seen.id <=> j = k
      BY <1>4, <1>6
    <3>3. u.store[k] = m
      BY <3>1, <3>2
    <3> HIDE DEF m
    <3> QED
      BY <3>1, <3>2, <3>3
  <2> HIDE DEF m
  <2>3. Decides(f, k, m)
    BY <2>1 DEF Decides
  <2>4. r \in Seq(Order) /\ Len(r) = Len(f) /\ r[k] = m /\ \A j \in DOMAIN f : j # k => r[j] = f[j]
    BY <1>2, <2>3, DecidedStore
  <2> HIDE DEF r
  <2>5. Len(u.store) = Len(f)
    BY <1>1, <1>6, IdleFields
  <2>6. \A j \in 1..Len(r) : u.store[j] = r[j]
    BY <1>2, <2>2, <2>4
  <2>7. u.store = r
    BY <1>2, <2>4, <2>5, <2>6, SeqEqual
  <2> QED
    BY <2>1, <2>3, <2>7 DEF r
<1> QED
  BY <1>1, <1>5, <1>6

\* The copy after an evaluation decided on an order.
LEMMA EvaluatedStore ==
    ASSUME TypeInv, NEW p \in Processes, Kept(task[p], created), NEW m, NEW more,
           Evaluated(p, m, more)
    PROVE  LET t == task[p] u == task'[p] s == t.store r == [s EXCEPT ![t.i] = m]
           IN  /\ s \in Seq(Order) /\ t.i \in DOMAIN s /\ Decides(s, t.i, m) /\ ~Final(s[t.i])
               /\ WellKept(s, created) /\ r \in Seq(Order) /\ WellKept(r, created) /\ r[t.i] = m
               /\ \/ u.store = r
                  \/ /\ u.store = Append(r, Clone(m, t.now)) /\ Final(m) /\ Recurs(m)
                     /\ \A k \in DOMAIN r : r[k].id[1] = m.id[1] => Len(r[k].id) <= Len(m.id)
<1> DEFINE t == task[p]
           s == t.store
           i == t.i
           r == [s EXCEPT ![i] = m]
<1>1. t \in Task /\ t.now \in Nat /\ s \in Seq(Order) /\ created \in Nat
      /\ i \in DOMAIN s /\ s[i] \in Order /\ s[i] = Current(p)
  BY TaskFields, ConstantsAssumption DEF TypeInv, TypeOK, Evaluated, Current
<1>2. /\ m \in Order /\ m.id = s[i].id /\ m.policy = s[i].policy
      /\ t.pc \in {"check", "submit"}
      /\ t.pc = "check" => s[i].status = "pending"
  BY <1>1, DecidedFields DEF Evaluated
<1>3. Decides(s, i, m)
  BY <1>2 DEF Decides
<1>4. ~Final(s[i]) /\ WellKept(s, created)
  BY <1>2 DEF Kept, Final
<1>5. /\ r \in Seq(Order) /\ DOMAIN r = DOMAIN s /\ r[i] = m /\ WellKept(r, created)
      /\ \A k \in DOMAIN s : r[k].id = s[k].id
  <2>1. WellKept(r, created)
    BY <1>1, <1>3, <1>4, DecidedKeeps
  <2> QED
    BY <1>1, <1>3, <2>1, DecidedStore
<1>6. \A k \in DOMAIN s : s[k].id[1] = s[i].id[1] => Len(s[k].id) <= Len(s[i].id)
  <2> SUFFICES ASSUME NEW k \in DOMAIN s, s[k].id[1] = s[i].id[1]
               PROVE  Len(s[k].id) <= Len(s[i].id)
    OBVIOUS
  <2>1. Kin(s[i], s[k])
    BY <1>1, <1>4 DEF WellKept, Chained
  <2>2. Len(s[i].id) \in Nat /\ Len(s[k].id) \in Nat
    BY <1>1, StoreFields
  <2> QED
    BY <1>4, <2>1, <2>2 DEF Kin
<1>7. task'[p].store = r \o more
  BY EvaluatedFields DEF TypeInv, TypeOK
<1>8. \A k \in DOMAIN r : r[k].id[1] = m.id[1] => Len(r[k].id) <= Len(m.id)
  BY <1>2, <1>5, <1>6
<1> HIDE DEF r
<1>9. CASE more = <<>>
  <2>1. task'[p].store = r
    BY <1>5, <1>7, <1>9, ConcatEmptySeq
  <2> QED
    BY <1>1, <1>3, <1>4, <1>5, <2>1 DEF r
<1>10. CASE m.status = "filled" /\ Recurs(m) /\ more = <<Clone(m, t.now)>>
  <2>1. Clone(m, t.now) \in Order
    BY <1>1, <1>2, <1>10, CloneFields
  <2>2. task'[p].store = Append(r, Clone(m, t.now))
    BY <1>5, <1>7, <1>10, <2>1, AppendIsConcat
  <2>3. Final(m)
    BY <1>10 DEF Final
  <2> QED
    BY <1>1, <1>3, <1>4, <1>5, <1>8, <1>10, <2>2, <2>3 DEF r
<1> QED
  BY <1>9, <1>10 DEF Evaluated

LEMMA EvaluatedKept ==
    ASSUME TypeInv, NEW p \in Processes, Kept(task[p], created), NEW m, NEW more,
           Evaluated(p, m, more)
    PROVE  WellKept(task'[p].store, created)
<1> DEFINE t == task[p]
           r == [t.store EXCEPT ![t.i] = m]
<1>1. /\ t.store \in Seq(Order) /\ t.i \in DOMAIN t.store /\ Decides(t.store, t.i, m)
      /\ r \in Seq(Order) /\ WellKept(r, created) /\ r[t.i] = m
      /\ \/ task'[p].store = r
         \/ /\ task'[p].store = Append(r, Clone(m, t.now)) /\ Final(m) /\ Recurs(m)
            /\ \A k \in DOMAIN r : r[k].id[1] = m.id[1] => Len(r[k].id) <= Len(m.id)
  BY EvaluatedStore
<1>2. t.i \in DOMAIN r /\ t.now \in Nat /\ created \in Nat
  BY <1>1, DecidedStore, TaskFields, ConstantsAssumption DEF TypeInv, TypeOK
<1> HIDE DEF r
<1>3. ASSUME Final(m), Recurs(m),
             \A k \in DOMAIN r : r[k].id[1] = m.id[1] => Len(r[k].id) <= Len(m.id)
      PROVE  WellKept(Append(r, Clone(m, t.now)), created)
  BY <1>1, <1>2, <1>3, CloneJoins
<1> QED
  BY <1>1, <1>3

\* Every step of a process leaves it with a store that is well kept.
LEMMA ProcessKept ==
    ASSUME KeptInv, NEW p \in Processes,
           \/ \E order \in Entries(Loaded) : BeginCancel(p, order)
           \/ \E dryRun \in BOOLEAN : Evaluate(p, dryRun)
           \/ Proceed(p)
           \/ Crash(p)
    PROVE  Kept(task'[p], created)
<1>1. TypeInv /\ TypeOK /\ Placed(task[p]) /\ task[p] \in Task /\ Kept(task[p], created)
      /\ WellKept(Loaded, created) /\ created \in Nat /\ Loaded \in Seq(Order)
  BY LoadedKept, LoadedFields, ConstantsAssumption DEF KeptInv, TypeInv, TypeOK
<1>2. ASSUME NEW order \in Entries(Loaded), BeginCancel(p, order)
      PROVE  Kept(task'[p], created)
  BY <1>1, <1>2, BeginCancelFields DEF Kept
<1>3. ASSUME NEW dryRun \in BOOLEAN, Evaluate(p, dryRun)
      PROVE  Kept(task'[p], created)
  BY <1>1, <1>3, EvaluateFields DEF Kept
<1>4. CASE Truncate(p)
  <2>1. task[p].pc = "save" /\ task'[p].pc = "write" /\ task'[p].store = task[p].store
    BY <1>1, <1>4, OtherFields DEF Truncate
  <2> QED
    BY <1>1, <2>1 DEF Kept
<1>5. CASE Write(p) \/ Crash(p)
  BY <1>1, <1>5, OtherFields, IdleKept
<1>6. CASE Cancel(p)
  <2>1. task[p].store # <<>>
    BY <1>1, <1>6 DEF Cancel, Placed
  <2>2. \/ task'[p] = Idle
        \/ task'[p].pc = "save" /\ task'[p].store = Loaded
        \/ \E k \in DOMAIN Loaded, m \in Order :
               /\ task'[p].pc = "save" /\ task'[p].store = [Loaded EXCEPT ![k] = m]
               /\ Decides(Loaded, k, m) /\ m.status = "cancelled"
    BY <1>1, <1>6, <2>1, CancelDecides
  <2>3. ASSUME NEW k \in DOMAIN Loaded, NEW m \in Order,
               task'[p].pc = "save", task'[p].store = [Loaded EXCEPT ![k] = m],
               Decides(Loaded, k, m), m.status = "cancelled"
        PROVE  Kept(task'[p], created)
    <3>1. Final(m)
      BY <2>3 DEF Final
    <3>2. WellKept([Loaded EXCEPT ![k] = m], created)
      BY <1>1, <2>3, <3>1, DecidedKeeps
    <3> QED
      BY <2>3, <3>2 DEF Kept
  <2>4. CASE task'[p] = Idle
    BY <2>4, IdleKept
  <2>5. CASE task'[p].pc = "save" /\ task'[p].store = Loaded
    BY <1>1, <2>5 DEF Kept
  <2> QED
    BY <2>2, <2>3, <2>4, <2>5
<1>7. CASE Skip(p)
  <2>1. task[p].pc = "check" /\ task'[p].pc = "check" /\ task'[p].store = task[p].store
    BY <1>1, <1>7, OtherFields
  <2> QED
    BY <1>1, <2>1 DEF Kept
<1>8. CASE Finish(p)
  <2>1. task[p].pc = "check"
        /\ (task'[p] = Idle \/ (task'[p].pc = "save" /\ task'[p].store = task[p].store))
    BY <1>1, <1>8, OtherFields
  <2>2. CASE task'[p] = Idle
    BY <2>2, IdleKept
  <2>3. CASE task'[p].pc = "save" /\ task'[p].store = task[p].store
    BY <1>1, <2>1, <2>3 DEF Kept
  <2> QED
    BY <2>1, <2>2, <2>3
<1>9. CASE Offer(p)
  <2> DEFINE t == task[p]
             o == t.store[t.i]
             m == [o EXCEPT !.status = "executing"]
  <2>1. /\ t.i \in DOMAIN t.store /\ o \in Order
        /\ task'[p].pc = "submit" /\ task'[p].i = t.i
        /\ task'[p].store = [t.store EXCEPT ![t.i] = m]
    BY <1>1, <1>9, OfferFields DEF Current
  <2>2. t.pc = "check" /\ o.status = "pending" /\ t.store \in Seq(Order)
    BY <1>1, <1>9, TaskFields DEF Offer, Checking, Due, Open, Current
  <2>3. m \in Order /\ m.id = o.id /\ m.policy = o.policy /\ m.status = "executing"
    BY <2>1 DEF Order, Statuses
  <2> HIDE DEF m
  <2>4. Decides(t.store, t.i, m) /\ ~Final(o) /\ WellKept(t.store, created)
    BY <1>1, <2>2, <2>3 DEF Decides, Final, Kept
  <2>5. WellKept([t.store EXCEPT ![t.i] = m], created) /\ [t.store EXCEPT ![t.i] = m][t.i] = m
    BY <1>1, <2>1, <2>2, <2>4, DecidedKeeps, DecidedStore
  <2> QED
    BY <2>1, <2>3, <2>5 DEF Kept
<1>10. CASE Expire(p) \/ GiveUp(p) \/ Refuse(p) \/ Fail(p) \/ Fill(p)
  <2>1. PICK m, more : Evaluated(p, m, more)
    BY <1>1, <1>10, EvaluationDecides
  <2>2. task'[p].pc = "check"
    BY <1>1, <2>1, EvaluatedFields DEF TypeOK
  <2>3. WellKept(task'[p].store, created)
    BY <1>1, <2>1, EvaluatedKept
  <2> QED
    BY <2>2, <2>3 DEF Kept
<1> QED
  BY <1>2, <1>3, <1>4, <1>5, <1>6, <1>7, <1>8, <1>9, <1>10 DEF Proceed

LEMMA KeptLater ==
    ASSUME NEW t \in Task, NEW n \in Nat, Kept(t, n)
    PROVE  Kept(t, n + 1)
<1>1. t.store \in Seq(Order)
  BY TaskFields
<1>2. WellKept(t.store, n) => WellKept(t.store, n + 1)
  BY <1>1, KeptMore
<1> QED
  BY <1>2 DEF Kept

LEMMA StepKept ==
    ASSUME KeptInv, [Next]_vars
    PROVE  KeptInv'
<1>1. TypeInv' /\ TypeInv /\ TypeOK /\ task \in [Processes -> Task] /\ created \in Nat
  BY StepTyped, ConstantsAssumption DEF KeptInv, TypeInv, TypeOK
<1>2. ASSUME NEW p \in Processes, NEW policy \in Policies, Create(p, policy)
      PROVE  KeptInv'
  <2>1. /\ Acting(p) /\ task'[p].pc = "save" /\ created' = created + 1
        /\ task'[p].store = Append(Loaded, NewOrder(created + 1, policy)) /\ file' = file
    BY <1>1, <1>2, CreateFields DEF Create
  <2>2. Loaded \in Seq(Order) /\ file.orders \in Seq(Order)
    BY <1>1, LoadedFields
  <2>3. WellKept(Loaded, created) /\ WellKept(file.orders, created)
    BY LoadedKept DEF KeptInv
  <2>4. WellKept(file'.orders, created')
    BY <1>1, <2>1, <2>2, <2>3, KeptMore
  <2>5. Kept(task'[p], created')
    <3>1. WellKept(Append(Loaded, NewOrder(created + 1, policy)), created + 1)
      BY <1>1, <2>2, <2>3, NewJoins
    <3> QED
      BY <2>1, <3>1 DEF Kept
  <2>6. ASSUME NEW q \in Processes, q # p
        PROVE  Kept(task'[q], created')
    <3>1. Kept(task[q], created + 1)
      BY <1>1, KeptLater DEF KeptInv
    <3> QED
      BY <2>1, <2>6, <3>1 DEF Acting
  <2> QED
    BY <1>1, <2>4, <2>5, <2>6 DEF KeptInv
<1>3. ASSUME NEW p \in Processes,
             \/ \E order \in Entries(Loaded) : BeginCancel(p, order)
             \/ \E dryRun \in BOOLEAN : Evaluate(p, dryRun)
             \/ Proceed(p)
             \/ Crash(p)
      PROVE  KeptInv'
  <2>1. Acting(p)
    BY <1>1, <1>3, ProcessTyped
  <2>2. created' = created
    BY <1>3 DEF BeginCancel, Evaluate, Proceed, Truncate, Write, Cancel, Skip, Expire,
                GiveUp, Refuse, Offer, Fail, Fill, Finish, Crash
  <2>3. Kept(task'[p], created)
    BY <1>3, ProcessKept
  <2>4. \A q \in Processes : Kept(task'[q], created)
    BY <2>1, <2>3 DEF Acting, KeptInv
  <2>5. WellKept(file'.orders, created)
    <3>1. CASE Write(p)
      <4>1. file'.orders = task[p].store /\ WellKept(task[p].store, created)
        BY <3>1 DEF Write, KeptInv, Kept
      <4> QED
        BY <4>1
    <3>2. CASE Truncate(p)
      <4>1. file'.orders = file.orders
        BY <1>1, <3>2 DEF Truncate, TypeOK
      <4> QED
        BY <4>1 DEF KeptInv
    <3>3. CASE ~Write(p) /\ ~Truncate(p)
      <4>1. file' = file
        BY <1>3, <3>3 DEF BeginCancel, Evaluate, Proceed, Cancel, Skip, Expire,
                          GiveUp, Refuse, Offer, Fail, Fill, Finish, Crash
      <4> QED
        BY <4>1 DEF KeptInv
    <3> QED
      BY <3>1, <3>2, <3>3
  <2> QED
    BY <1>1, <2>2, <2>4, <2>5 DEF KeptInv
<1>4. CASE Tick \/ UNCHANGED vars
  <2>1. file' = file /\ task' = task /\ created' = created
    BY <1>4 DEF Tick, vars
  <2> QED
    BY <1>1, <2>1 DEF KeptInv
<1> QED
  BY <1>2, <1>3, <1>4 DEF Next

LEMMA KeptAtFirst ==
    ASSUME Init
    PROVE  KeptInv
<1>1. TypeInv
  BY TypedAtFirst
<1>2. file.orders = <<>> /\ \A p \in Processes : task[p] = Idle
  BY DEF Init
<1> QED
  BY <1>1, <1>2, EmptyKept, IdleKept DEF KeptInv

\* In a store that is well kept the names of a family have as many different lengths as it
\* has orders, none longer than what remained at first.
LEMMA FamilyBounded ==
    ASSUME NEW s \in Seq(Order), NEW n \in Nat, WellKept(s, n),
           NEW i \in DOMAIN s, Len(s[i].id) = 1, s[i].policy.remaining \in Nat \ {0}
    PROVE  Cardinality({k \in DOMAIN s : s[k].id[1] = s[i].id[1]}) <= s[i].policy.remaining
<1> DEFINE family == {k \in DOMAIN s : s[k].id[1] = s[i].id[1]}
           age == [k \in family |-> Len(s[k].id)]
<1>1. PICK r \in Nat : r = s[i].policy.remaining /\ r >= 1
  OBVIOUS
<1>2. ASSUME NEW k \in family
      PROVE  Len(s[k].id) \in 1..r
  <2>1. /\ s[k] \in Order /\ Len(s[k].id) \in Nat /\ Len(s[k].id) >= 1
        /\ s[k].policy.remaining \in Nat \cup {None}
    <3>1. s[k] \in Order /\ s[k].id \in Seq(Nat) /\ s[k].id # <<>>
      BY StoreFields DEF WellKept, Rooted
    <3> QED
      BY <3>1, OrderFields
  <2>2. Kin(s[i], s[k])
    BY DEF WellKept, Chained
  <2>3. s[k].policy.remaining \in Nat /\ r + 1 = s[k].policy.remaining + Len(s[k].id)
    BY <1>1, <2>1, <2>2, ConstantsAssumption DEF Kin
  <2>4. Len(s[k].id) > 1 => s[k].policy.remaining # 0
    BY DEF WellKept, ToCome
  <2> QED
    BY <1>1, <2>1, <2>3, <2>4
<1>3. \A j, k \in family : Len(s[j].id) = Len(s[k].id) => j = k
  BY DEF WellKept, Chained
<1> HIDE DEF family
<1>4. age \in Injection(family, 1..r)
  <2>1. age \in [family -> 1..r]
    BY <1>2
  <2>2. \A j, k \in family : age[j] = age[k] => j = k
    BY <1>3
  <2> HIDE DEF age
  <2> QED
    BY <2>1, <2>2 DEF Injection, IsInjective
<1>5. IsFiniteSet(1..r) /\ Cardinality(1..r) = r
  <2>1. 1 \in Int /\ r \in Int /\ ~(1 > r) /\ (r - 1) + 1 = r
    BY <1>1
  <2>2. IsFiniteSet(1..r) /\ Cardinality(1..r) = IF 1 > r THEN 0 ELSE (r - 1) + 1
    BY <2>1, FS_Interval
  <2> QED
    BY <2>1, <2>2
<1> HIDE DEF age
<1>6. Cardinality(family) <= r
  BY <1>4, <1>5, FS_Injection
<1> QED
  BY <1>1, <1>6 DEF family

\* However many commands overlap, and wherever they die, an order and its clones are no
\* more than its repetitions (cloneForRecurrence, evaluate.ts:46-66): a fill makes a clone of
\* an order no other was cloned from, and a cancellation closes what it finds.
THEOREM FamilyStaysWithinRemaining == Spec => []FamilyWithinRemaining
<1>1. Init => KeptInv
  BY KeptAtFirst
<1>2. KeptInv /\ [Next]_vars => KeptInv'
  BY StepKept
<1>3. KeptInv => FamilyWithinRemaining
  <2> SUFFICES ASSUME KeptInv, NEW i \in DOMAIN file.orders, Len(file.orders[i].id) = 1,
                      file.orders[i].policy.remaining \in Nat \ {0}
               PROVE  Cardinality({k \in DOMAIN file.orders :
                                       file.orders[k].id[1] = file.orders[i].id[1]})
                          <= file.orders[i].policy.remaining
    BY DEF FamilyWithinRemaining, Entries
  <2>1. file.orders \in Seq(Order) /\ created \in Nat /\ WellKept(file.orders, created)
    BY ConstantsAssumption DEF KeptInv, TypeInv, TypeOK
  <2> QED
    BY <2>1, FamilyBounded
<1> QED
  BY <1>1, <1>2, <1>3, PTL DEF Spec

----------------------------------------------------------------------------
(* Histories, while no two commands overlap                                *)

LEMMA CopiesAreNat ==
    ASSUME NEW bag, IsABag(bag), NEW d
    PROVE  Copies(d, bag) \in Nat
  BY BagGrows

\* An order of a new name joins, and no more than c of its transactions are known.
LEMMA JoinSpent ==
    ASSUME NEW s \in Seq(Order), NEW x \in Order, NEW bag, IsABag(bag), NEW c \in Nat,
           Spent(s, bag, c), x.id # <<>>, Recorded(x) = 0, \A k \in DOMAIN s : s[k].id # x.id,
           \A d \in Seq(Nat) : d # <<>> /\ d[1] = x.id[1] /\ (\A k \in DOMAIN s : s[k].id # d) =>
               Copies(d, bag) <= c
    PROVE  Spent(Append(s, x), bag, c)
<1> DEFINE r == Append(s, x)
           last == Len(s) + 1
<1>1. /\ DOMAIN r = DOMAIN s \cup {last} /\ last \notin DOMAIN s /\ r[last] = x
      /\ \A k \in DOMAIN s : r[k] = s[k]
  BY AppendFields
<1> HIDE DEF r, last
<1>2. x.id \in Seq(Nat)
  BY OrderFields
<1>3. Copies(x.id, bag) <= Recorded(x) + c
  <2>1. Copies(x.id, bag) <= c
    BY <1>2
  <2> QED
    BY <2>1
<1>4. \A k \in DOMAIN r : Copies(r[k].id, bag) <= Recorded(r[k]) + c
  BY <1>1, <1>3 DEF Spent
<1>5. ASSUME NEW k \in DOMAIN r, NEW d \in Seq(Nat),
             d # <<>>, d[1] = r[k].id[1], \A j \in DOMAIN r : r[j].id # d
      PROVE  Copies(d, bag) <= c
  <2>1. \A j \in DOMAIN s : s[j].id # d
    BY <1>1, <1>5
  <2>2. CASE k \in DOMAIN s
    BY <1>1, <1>5, <2>1, <2>2 DEF Spent
  <2>3. CASE k = last
    BY <1>1, <1>5, <2>1, <2>3
  <2> QED
    BY <1>1, <2>2, <2>3
<1> QED
  BY <1>4, <1>5 DEF Spent, r

LEMMA JoinExtends ==
    ASSUME NEW f \in Seq(Order), NEW s \in Seq(Order), NEW x \in Order, NEW i \in Nat,
           Extends(f, s), Untouched(f, s, i), Recorded(x) = 0
    PROVE  Extends(f, Append(s, x)) /\ Untouched(f, Append(s, x), i)
<1> DEFINE r == Append(s, x)
           last == Len(s) + 1
<1>1. /\ DOMAIN r = DOMAIN s \cup {last} /\ Len(r) = last /\ r[last] = x
      /\ \A k \in DOMAIN s : r[k] = s[k]
  BY AppendFields
<1>2. /\ Len(s) \in Nat /\ Len(f) \in Nat /\ DOMAIN s = 1..Len(s) /\ DOMAIN f = 1..Len(f)
      /\ Len(f) <= Len(s)
  BY StoreFields DEF Extends
<1> HIDE DEF r
<1>3. Len(f) <= Len(r) /\ last > Len(f) /\ last \notin DOMAIN f /\ DOMAIN f \subseteq DOMAIN s
  BY <1>1, <1>2
<1> HIDE DEF last
<1>4. Extends(f, r)
  BY <1>1, <1>3 DEF Extends
<1>5. Untouched(f, r, i)
  <2>1. ~(last <= Len(f))
    BY <1>1, <1>2, <1>3 DEF last
  <2> QED
    BY <1>1, <2>1 DEF Untouched
<1> QED
  BY <1>4, <1>5 DEF r

LEMMA ExtendsSelf ==
    ASSUME NEW f \in Seq(Order), NEW i \in Nat
    PROVE  Extends(f, f) /\ Untouched(f, f, i)
<1>1. \A k \in DOMAIN f : Recorded(f[k]) \in Nat
  BY StoreFields, RecordedIsNat
<1>2. \A k \in DOMAIN f : Follows(f[k], f[k])
  BY <1>1 DEF Follows
<1>3. Len(f) \in Nat /\ DOMAIN f = 1..Len(f)
  BY StoreFields
<1> QED
  BY <1>2, <1>3 DEF Extends, Untouched

\* When the copy is lost, what it recorded beyond the file is at most one of each order.
LEMMA LostSpent ==
    ASSUME NEW f \in Seq(Order), NEW s \in Seq(Order), Extends(f, s),
           NEW bag, IsABag(bag), NEW c \in Nat, Spent(s, bag, c)
    PROVE  Spent(f, bag, c + 1)
<1>1. /\ Len(s) \in Nat /\ Len(f) \in Nat /\ DOMAIN s = 1..Len(s) /\ DOMAIN f = 1..Len(f)
      /\ Len(f) <= Len(s)
  BY StoreFields DEF Extends
<1>2. /\ \A k \in DOMAIN f : Recorded(f[k]) \in Nat /\ f[k].id \in Seq(Nat)
      /\ \A k \in DOMAIN s : Recorded(s[k]) \in Nat
  BY StoreFields, RecordedIsNat
<1>3. \A d : Copies(d, bag) \in Nat
  BY CopiesAreNat
<1>4. \A k \in DOMAIN f : k \in DOMAIN s /\ s[k].id = f[k].id /\ Recorded(s[k]) <= Recorded(f[k]) + 1
  BY <1>1 DEF Extends, Follows
<1>5. ASSUME NEW k \in DOMAIN f
      PROVE  Copies(f[k].id, bag) <= Recorded(f[k]) + (c + 1)
  <2>1. Copies(s[k].id, bag) <= Recorded(s[k]) + c
    BY <1>4 DEF Spent
  <2>2. PICK x \in Nat, y \in Nat, z \in Nat :
            x = Copies(f[k].id, bag) /\ y = Recorded(f[k]) /\ z = Recorded(s[k])
    BY <1>2, <1>3, <1>4
  <2>3. x <= z + c /\ z <= y + 1
    BY <1>4, <2>1, <2>2
  <2>4. x <= y + (c + 1)
    BY <2>3
  <2> QED
    BY <2>2, <2>4
<1>6. ASSUME NEW k \in DOMAIN f, NEW d \in Seq(Nat),
             d # <<>>, d[1] = f[k].id[1], \A j \in DOMAIN f : f[j].id # d
      PROVE  Copies(d, bag) <= c + 1
  <2>1. d[1] = s[k].id[1] /\ k \in DOMAIN s
    BY <1>4, <1>6
  <2>2. CASE \A j \in DOMAIN s : s[j].id # d
    <3>1. Copies(d, bag) <= c
      BY <1>6, <2>1, <2>2 DEF Spent
    <3> QED
      BY <1>3, <3>1
  <2>3. ASSUME NEW j \in DOMAIN s, s[j].id = d
        PROVE  Copies(d, bag) <= c + 1
    <3>1. j \notin DOMAIN f
      BY <1>4, <1>6, <2>3
    <3>2. j > Len(f)
      BY <1>1, <3>1
    <3>3. Recorded(s[j]) <= 1
      BY <3>2 DEF Extends
    <3>4. Copies(d, bag) <= Recorded(s[j]) + c
      BY <2>3 DEF Spent
    <3>5. PICK x \in Nat, z \in Nat : x = Copies(d, bag) /\ z = Recorded(s[j])
      BY <1>2, <1>3
    <3>6. x <= z + c /\ z <= 1
      BY <3>3, <3>4, <3>5
    <3>7. x <= c + 1
      BY <3>6
    <3> QED
      BY <3>5, <3>7
  <2> QED
    BY <2>2, <2>3
<1> QED
  BY <1>5, <1>6 DEF Spent

LEMMA MoreSpent ==
    ASSUME NEW s \in Seq(Order), NEW bag, IsABag(bag), NEW c \in Nat, Spent(s, bag, c)
    PROVE  Spent(s, bag, c + 1)
<1>1. \A d : Copies(d, bag) \in Nat
  BY CopiesAreNat
<1>2. \A k \in DOMAIN s : Recorded(s[k]) \in Nat
  BY StoreFields, RecordedIsNat
<1>3. \A x, z \in Nat : x <= z + c => x <= z + (c + 1)
  OBVIOUS
<1>4. \A x \in Nat : x <= c => x <= c + 1
  OBVIOUS
<1>5. \A k \in DOMAIN s : Copies(s[k].id, bag) <= Recorded(s[k]) + (c + 1)
  BY <1>1, <1>2, <1>3 DEF Spent
<1> QED
  BY <1>1, <1>4, <1>5 DEF Spent

LEMMA EmptySpent ==
    ASSUME NEW bag, NEW c
    PROVE  Spent(<<>>, bag, c)
  BY DEF Spent

\* What landed is of orders that were created.
Known(bag, n) == \A d \in BagToSet(bag) : d # <<>> /\ d[1] <= n

InOrder ==
    /\ KeptInv
    /\ Known(landed, created)
    /\ \A p \in Processes : Work(task[p], file.orders, landed, crashes)

LEMMA InOrderFields ==
    ASSUME InOrder, NEW p \in Processes
    PROVE  /\ TypeOK /\ TypeInv /\ task \in [Processes -> Task] /\ task[p] \in Task
           /\ Placed(task[p]) /\ Kept(task[p], created)
           /\ Work(task[p], file.orders, landed, crashes) /\ Known(landed, created)
           /\ task[p].store \in Seq(Order) /\ task[p].i \in Nat /\ task[p].now \in Nat
           /\ file.orders \in Seq(Order) /\ WellKept(file.orders, created)
           /\ WellKept(Loaded, created)
           /\ Loaded \in Seq(Order) /\ (Loaded = <<>> \/ Loaded = file.orders)
           /\ IsABag(landed) /\ created \in Nat /\ crashes \in Nat
<1>1. TypeOK /\ TypeInv /\ KeptInv
  BY DEF InOrder, KeptInv, TypeInv
<1>2. /\ task \in [Processes -> Task] /\ task[p] \in Task /\ IsABag(landed)
      /\ created \in Nat /\ crashes \in Nat
  BY <1>1, ConstantsAssumption DEF TypeOK
<1>3. Placed(task[p]) /\ Kept(task[p], created) /\ WellKept(file.orders, created)
  BY <1>1 DEF KeptInv, TypeInv
<1>4. task[p].store \in Seq(Order) /\ task[p].i \in Nat /\ task[p].now \in Nat
  BY <1>2, TaskFields
<1> QED
  BY <1>1, <1>2, <1>3, <1>4, LoadedFields, LoadedKept DEF InOrder

LEMMA CreateWorks ==
    ASSUME InOrder, NEW p \in Processes, NEW policy \in Policies, Create(p, policy)
    PROVE  Work(task'[p], file.orders, landed, crashes)
<1> DEFINE f == file.orders
           x == NewOrder(created + 1, policy)
           s == Append(Loaded, x)
<1>1. /\ task'[p].pc = "save" /\ task'[p].store = s /\ task[p].pc = "idle"
  BY InOrderFields, CreateFields DEF Create
<1>2. Spent(f, landed, crashes) /\ Known(landed, created)
  BY <1>1, InOrderFields DEF Work
<1>3. /\ f \in Seq(Order) /\ Loaded \in Seq(Order) /\ IsABag(landed) /\ crashes \in Nat
      /\ created \in Nat /\ (Loaded = <<>> \/ Loaded = f)
      /\ WellKept(f, created) /\ WellKept(Loaded, created)
  BY InOrderFields
<1>4. x \in Order /\ x.id = <<created + 1>> /\ x.status = "pending" /\ x.attempts = 0
  <2>1. created \in Nat
    BY <1>3
  <2>2. created + 1 \in Nat
    BY <2>1
  <2> HIDE DEF f, s
  <2> QED
    BY <2>2, NewOrderFields
<1>5. x.id # <<>> /\ x.id[1] = created + 1 /\ Recorded(x) = 0
  BY <1>4 DEF Recorded
<1> HIDE DEF x
<1>6. Spent(Loaded, landed, crashes)
  BY <1>2, <1>3, EmptySpent
<1>7. \A k \in DOMAIN Loaded : Loaded[k].id # x.id
  BY <1>3, <1>5 DEF WellKept, Rooted
<1>8. ASSUME NEW d, d # <<>>, d[1] = x.id[1]
      PROVE  Copies(d, landed) <= crashes
  <2>1. ~BagIn(d, landed)
    BY <1>2, <1>3, <1>5, <1>8 DEF Known, BagIn, BagToSet
  <2> QED
    BY <1>3, <2>1 DEF Copies
<1>9. Spent(s, landed, crashes)
  BY <1>3, <1>4, <1>5, <1>6, <1>7, <1>8, JoinSpent
<1>10. CASE Loaded = f
  <2>1. Extends(f, f) /\ Untouched(f, f, 1)
    BY <1>3, ExtendsSelf
  <2>2. Extends(f, s)
    BY <1>3, <1>4, <1>5, <1>10, <2>1, JoinExtends
  <2> QED
    BY <1>1, <1>9, <2>2 DEF Work
<1>11. CASE Loaded = <<>>
  <2>1. /\ DOMAIN s = DOMAIN Loaded \cup {Len(Loaded) + 1} /\ s[Len(Loaded) + 1] = x
    BY <1>3, <1>4, AppendFields
  <2>2. \A k \in DOMAIN s : s[k] = x
    BY <1>11, <2>1
  <2>3. Disjoint(f, s)
    BY <1>3, <1>5, <2>2 DEF Disjoint, WellKept, Rooted
  <2> QED
    BY <1>1, <1>2, <1>9, <2>3 DEF Work
<1> QED
  BY <1>3, <1>10, <1>11

LEMMA CancelWorks ==
    ASSUME InOrder, NEW p \in Processes, Cancel(p)
    PROVE  Work(task'[p], file.orders, landed, crashes)
<1> DEFINE f == file.orders
           seen == task[p].store[1]
<1>1. /\ task[p].pc = "cancel" /\ Spent(f, landed, crashes)
      /\ seen \in Entries(f) /\ seen.status = "pending"
  BY InOrderFields DEF Work, Cancel
<1>2. /\ f \in Seq(Order) /\ IsABag(landed) /\ crashes \in Nat /\ created \in Nat
      /\ (Loaded = <<>> \/ Loaded = f) /\ WellKept(f, created)
  BY InOrderFields
<1>3. Spent(Loaded, landed, crashes)
  BY <1>1, <1>2, EmptySpent
<1>4. \/ task'[p] = Idle
      \/ task'[p].pc = "save" /\ task'[p].store = Loaded
      \/ \E k \in DOMAIN Loaded, m \in Order :
             /\ task'[p].pc = "save" /\ task'[p].store = [Loaded EXCEPT ![k] = m]
             /\ Loaded[k].id = seen.id /\ Decides(Loaded, k, m) /\ m.status = "cancelled"
             /\ m.attempts = seen.attempts /\ m.last = seen.last
  <2>1. TypeOK /\ task[p].store # <<>> /\ WellKept(Loaded, created)
    BY <1>1, InOrderFields DEF Placed
  <2> QED
    BY <2>1, CancelDecides
<1>5. CASE task'[p] = Idle
  BY <1>1, <1>5, IdleFields DEF Work
<1>6. CASE task'[p].pc = "save" /\ task'[p].store = Loaded
  <2>1. CASE Loaded = f
    <3>1. Extends(f, f)
      BY <1>2, ExtendsSelf
    <3> QED
      BY <1>3, <1>6, <2>1, <3>1 DEF Work
  <2>2. CASE Loaded = <<>>
    <3>1. Disjoint(f, Loaded)
      BY <2>2 DEF Disjoint
    <3> QED
      BY <1>1, <1>3, <1>6, <3>1 DEF Work
  <2> QED
    BY <1>2, <2>1, <2>2
<1>7. ASSUME NEW k \in DOMAIN Loaded, NEW m \in Order,
             task'[p].pc = "save", task'[p].store = [Loaded EXCEPT ![k] = m],
             Loaded[k].id = seen.id, Decides(Loaded, k, m), m.status = "cancelled",
             m.attempts = seen.attempts, m.last = seen.last
      PROVE  Work(task'[p], f, landed, crashes)
  <2>1. Loaded = f
    BY <1>2, <1>7
  <2>2. seen = f[k]
    <3>1. PICK j \in DOMAIN f : seen = f[j]
      BY <1>1 DEF Entries
    <3>2. j = k
      BY <1>2, <1>7, <2>1, <3>1 DEF WellKept, Chained
    <3> QED
      BY <3>1, <3>2
  <2>3. Recorded(m) = Recorded(f[k]) /\ Recorded(f[k]) \in Nat
    <3>1. f[k] \in Order
      BY <1>2, <1>7, <2>1, StoreFields
    <3> QED
      BY <1>1, <1>7, <2>2, <3>1, RecordedIsNat DEF Recorded
  <2>4. Spent([f EXCEPT ![k] = m], landed, crashes)
    <3>1. k \in DOMAIN f /\ Decides(f, k, m) /\ Recorded(m) >= Recorded(f[k])
      BY <1>7, <2>1, <2>3
    <3> QED
      BY <1>1, <1>2, <3>1, DecidedSpent
  <2>5. ~Final(f[k])
    BY <1>1, <2>2 DEF Final
  <2>6. Extends(f, [f EXCEPT ![k] = m])
    <3>1. Extends(f, f) /\ Untouched(f, f, k)
      BY <1>2, <1>7, <2>1, ExtendsSelf, StoreFields
    <3>2. Recorded(m) <= Recorded(f[k]) + 1
      BY <2>3
    <3> QED
      BY <1>2, <1>7, <2>1, <2>5, <3>1, <3>2, DecidedExtends
  <2> QED
    BY <1>7, <2>1, <2>4, <2>6 DEF Work
<1> QED
  BY <1>4, <1>5, <1>6, <1>7

LEMMA EvaluateWorks ==
    ASSUME InOrder, NEW p \in Processes, NEW dryRun \in BOOLEAN, Evaluate(p, dryRun)
    PROVE  Work(task'[p], file.orders, landed, crashes)
<1> DEFINE f == file.orders
<1>1. task'[p].pc = "check" /\ task'[p].store = Loaded /\ task'[p].i = 1 /\ task[p].pc = "idle"
  BY InOrderFields, EvaluateFields DEF Evaluate
<1>2. /\ f \in Seq(Order) /\ (Loaded = <<>> \/ Loaded = f) /\ Spent(f, landed, crashes)
  BY <1>1, InOrderFields DEF Work
<1>3. Spent(Loaded, landed, crashes)
  BY <1>2, EmptySpent
<1>4. Loaded # <<>> => Extends(f, Loaded) /\ Untouched(f, Loaded, 1)
  BY <1>2, ExtendsSelf
<1> QED
  BY <1>1, <1>2, <1>3, <1>4 DEF Work

\* The steps of a process that leave its copy as it is.
LEMMA OtherWorks ==
    ASSUME InOrder, NEW p \in Processes,
           \/ \E order \in Entries(Loaded) : BeginCancel(p, order)
           \/ Truncate(p) \/ Skip(p) \/ Finish(p)
    PROVE  Work(task'[p], file.orders, landed, crashes)
<1> DEFINE f == file.orders
           t == task[p]
           u == task'[p]
<1>1. /\ TypeOK /\ Placed(t) /\ Work(t, f, landed, crashes) /\ t.store \in Seq(Order)
      /\ Entries(Loaded) \subseteq Entries(f) /\ t.i \in Nat
  BY InOrderFields, LoadedFields
<1>2. ASSUME NEW order \in Entries(Loaded), BeginCancel(p, order)
      PROVE  Work(u, f, landed, crashes)
  <2>1. u.pc = "cancel" /\ u.store = <<order>> /\ t.pc = "idle" /\ order.status = "pending"
    BY <1>1, <1>2, BeginCancelFields DEF BeginCancel
  <2>2. u.store[1] = order
    BY <2>1
  <2> QED
    BY <1>1, <2>1, <2>2 DEF Work
<1>3. CASE Truncate(p)
  <2>1. t.pc = "save" /\ u.pc = "write" /\ u.store = t.store
    BY <1>1, <1>3, OtherFields DEF Truncate
  <2> QED
    BY <1>1, <2>1 DEF Work
<1>4. CASE Skip(p)
  <2>1. /\ t.pc = "check" /\ u.pc = "check" /\ u.i = t.i + 1 /\ u.store = t.store
        /\ u.modified <=> t.modified
    BY <1>1, <1>4, OtherFields
  <2>2. Untouched(f, t.store, t.i) => Untouched(f, t.store, u.i)
    <3>1. \A k \in DOMAIN t.store : k >= t.i + 1 => k >= t.i
      BY <1>1
    <3> QED
      BY <2>1, <3>1 DEF Untouched
  <2> QED
    BY <1>1, <2>1, <2>2 DEF Work
<1>5. CASE Finish(p)
  <2>1. /\ t.pc = "check"
        /\ \/ ~t.modified /\ u = Idle
           \/ u.pc = "save" /\ u.store = t.store
    BY <1>1, <1>5, OtherFields
  <2>2. CASE ~t.modified /\ u = Idle
    BY <1>1, <2>1, <2>2, IdleFields DEF Work
  <2>3. CASE u.pc = "save" /\ u.store = t.store
    <3>1. t.store = <<>> => Disjoint(f, t.store)
      BY DEF Disjoint
    <3> QED
      BY <1>1, <2>1, <2>3, <3>1 DEF Work
  <2> QED
    BY <2>1, <2>2, <2>3
<1> QED
  BY <1>2, <1>3, <1>4, <1>5

LEMMA OfferWorks ==
    ASSUME InOrder, NEW p \in Processes, Offer(p)
    PROVE  Work(task'[p], file.orders, landed, crashes)
<1> DEFINE f == file.orders
           t == task[p]
           s == t.store
           i == t.i
           o == s[i]
           m == [o EXCEPT !.status = "executing"]
           r == [s EXCEPT ![i] = m]
<1>1. /\ i \in DOMAIN s /\ o \in Order /\ t.pc = "check"
      /\ task'[p].pc = "submit" /\ task'[p].i = i /\ task'[p].store = r /\ task'[p].now = t.now
  BY InOrderFields, OfferFields DEF Offer, Checking, Current
<1>2. o.status = "pending"
  BY DEF Offer, Due, Open, Current
<1>3. /\ s \in Seq(Order) /\ f \in Seq(Order) /\ i \in Nat /\ t.now \in Nat
      /\ IsABag(landed) /\ crashes \in Nat /\ created \in Nat
      /\ Work(t, f, landed, crashes) /\ Kept(t, created)
  BY InOrderFields
<1>4. /\ Spent(s, landed, crashes) /\ s # <<>> /\ WellKept(s, created)
      /\ Extends(f, s) /\ Untouched(f, s, i)
  BY <1>1, <1>3 DEF Work, Kept
<1>5. /\ m \in Order /\ m.id = o.id /\ m.policy = o.policy /\ m.status = "executing"
      /\ m.attempts = o.attempts
  BY <1>1 DEF Order, Statuses
<1> HIDE DEF m
<1>6. Decides(s, i, m) /\ Recorded(m) = Recorded(o) /\ Recorded(o) \in Nat /\ ~Final(o)
  BY <1>1, <1>2, <1>5, RecordedIsNat DEF Decides, Recorded, Final
<1>8. Spent(r, landed, crashes)
  <2>1. Recorded(m) >= Recorded(s[i])
    BY <1>6
  <2> QED
    BY <1>1, <1>3, <1>4, <1>6, <2>1, DecidedSpent
<1>9. Extends(f, r)
  <2>1. Recorded(m) <= Recorded(s[i]) + 1
    BY <1>6
  <2> QED
    BY <1>1, <1>3, <1>4, <1>5, <1>6, <2>1, DecidedExtends
<1>10. DOMAIN r = DOMAIN s /\ r[i] = m /\ \A k \in DOMAIN s : k # i => r[k] = s[k]
  BY <1>1, <1>3, <1>6, DecidedStore
<1> HIDE DEF r
<1>11. Untouched(f, r, i)
  <2>1. \A k \in DOMAIN s : Recorded(r[k]) = Recorded(s[k])
    BY <1>6, <1>10
  <2> QED
    BY <1>4, <1>10, <2>1 DEF Untouched
<1>12. r # <<>>
  BY <1>1, <1>10
<1> QED
  BY <1>1, <1>8, <1>9, <1>10, <1>11, <1>12 DEF Work

\* A transaction that lands is in the history the copy then has.
LEMMA EvaluationWorks ==
    ASSUME InOrder, NEW p \in Processes, NEW m, NEW more, Evaluated(p, m, more)
    PROVE  Work(task'[p], file.orders, landed', crashes) /\ Known(landed', created)
<1> DEFINE f == file.orders
           t == task[p]
           s == t.store
           i == t.i
           o == s[i]
           r == [s EXCEPT ![i] = m]
           x == Clone(m, t.now)
           u == task'[p]
<1>1. /\ s \in Seq(Order) /\ f \in Seq(Order) /\ i \in Nat /\ t.now \in Nat /\ t \in Task
      /\ IsABag(landed) /\ crashes \in Nat /\ created \in Nat /\ TypeInv
      /\ Work(t, f, landed, crashes) /\ Kept(t, created) /\ Known(landed, created)
  BY InOrderFields
<1>2. /\ i \in DOMAIN s /\ Decides(s, i, m) /\ ~Final(o) /\ WellKept(s, created)
      /\ r \in Seq(Order) /\ WellKept(r, created) /\ r[i] = m
      /\ \/ u.store = r
         \/ /\ u.store = Append(r, x) /\ Final(m) /\ Recurs(m)
            /\ \A k \in DOMAIN r : r[k].id[1] = m.id[1] => Len(r[k].id) <= Len(m.id)
  BY <1>1, EvaluatedStore
<1>3. /\ u.pc = "check" /\ u.i = i + 1 /\ u.modified
  BY <1>1, EvaluatedFields DEF TypeInv, TypeOK
<1>4. /\ o \in Order /\ o = Current(p) /\ m \in Order /\ m.id = o.id /\ t.pc \in {"check", "submit"}
      /\ \/ m.status = "expired" /\ m.attempts = o.attempts /\ m.last = o.last /\ t.pc = "check"
         \/ m.status = "failed" /\ m.attempts = o.attempts /\ m.last = t.now /\ t.pc = "check"
         \/ m.status = "pending" /\ m.attempts = o.attempts + 1 /\ m.last = t.now
         \/ m.status = "filled" /\ m.attempts = o.attempts /\ m.last = t.now /\ t.pc = "submit"
  BY <1>1, DecidedFields DEF Evaluated, Current
<1>5. /\ Spent(s, landed, crashes) /\ s # <<>> /\ Extends(f, s) /\ Untouched(f, s, i)
  BY <1>1, <1>2, <1>4 DEF Work
<1>6. /\ Recorded(o) \in Nat /\ Recorded(m) \in Nat
      /\ Recorded(m) = Recorded(o) \/ Recorded(m) = Recorded(o) + 1
      /\ t.pc = "submit" => Recorded(m) = Recorded(o) + 1
  <2>1. Recorded(o) = o.attempts /\ o.attempts \in Nat
    BY <1>2, <1>4, OrderFields DEF Recorded, Final
  <2>2. Recorded(m) = m.attempts + (IF m.status = "filled" THEN 1 ELSE 0)
    BY DEF Recorded
  <2> QED
    BY <1>4, <2>1, <2>2
<1>8. landed' = landed \/ (t.pc = "submit" /\ landed' = landed (+) SetToBag({o.id}))
  BY <1>4 DEF Evaluated
<1>9. /\ IsABag(landed (+) SetToBag({o.id}))
      /\ BagToSet(landed (+) SetToBag({o.id})) = BagToSet(landed) \cup {o.id}
  BY <1>1, BagGrows
<1>10. IsABag(landed')
  BY <1>1, <1>8, <1>9
<1>11. Known(landed', created)
  <2>1. o.id # <<>> /\ o.id[1] <= created
    BY <1>1, <1>2 DEF WellKept, Rooted
  <2> QED
    BY <1>1, <1>8, <1>9, <2>1 DEF Known
<1> DEFINE after == landed'
<1>12. Spent(r, after, crashes)
  <2>1. \/ after = landed /\ Recorded(m) >= Recorded(s[i])
        \/ after = landed (+) SetToBag({s[i].id}) /\ Recorded(m) = Recorded(s[i]) + 1
    BY <1>6, <1>8
  <2> HIDE DEF after
  <2> QED
    BY <1>1, <1>2, <1>5, <2>1, DecidedSpent
<1>13. Extends(f, r) /\ Untouched(f, r, i + 1)
  <2>1. Recorded(m) <= Recorded(s[i]) + 1
    BY <1>6
  <2> QED
    BY <1>1, <1>2, <1>5, <2>1, DecidedExtends
<1>14. r # <<>> /\ DOMAIN r = DOMAIN s
  <2>1. DOMAIN r = DOMAIN s
    BY <1>1, <1>2, DecidedStore
  <2> QED
    BY <1>2, <2>1
<1> HIDE DEF after, r
<1>15. CASE u.store = r
  BY <1>3, <1>11, <1>12, <1>13, <1>14, <1>15 DEF Work, after
<1>16. CASE /\ u.store = Append(r, x) /\ Final(m) /\ Recurs(m)
            /\ \A k \in DOMAIN r : r[k].id[1] = m.id[1] => Len(r[k].id) <= Len(m.id)
  <2>1. /\ x \in Order /\ x.id = Append(m.id, t.now) /\ x.status = "pending" /\ x.attempts = 0
    BY <1>1, <1>4, <1>16, CloneFields
  <2>2. Recorded(x) = 0
    BY <2>1 DEF Recorded
  <2> HIDE DEF x
  <2>3. x.id # <<>> /\ x.id[1] = m.id[1] /\ Len(x.id) = Len(m.id) + 1 /\ Len(m.id) \in Nat
    <3>1. m.id \in Seq(Nat) /\ m.id # <<>>
      BY <1>2, <1>4, OrderFields DEF WellKept, Rooted
    <3>2. 1 \in 1..Len(m.id)
      BY <3>1
    <3>3. PICK d \in Seq(Nat), now \in Nat : d = m.id /\ now = t.now /\ 1 \in 1..Len(d)
      BY <1>1, <3>1, <3>2
    <3>4. /\ Append(d, now) # <<>> /\ Len(Append(d, now)) = Len(d) + 1
          /\ Append(d, now)[1] = d[1]
      BY <3>3, AppendProperties
    <3> QED
      BY <2>1, <3>3, <3>4
  <2>4. ASSUME NEW k \in DOMAIN r
        PROVE  r[k].id # x.id
    <3>1. SUFFICES ASSUME r[k].id = x.id
                   PROVE  FALSE
      OBVIOUS
    <3>2. Len(x.id) <= Len(m.id)
      BY <1>16, <2>3, <3>1
    <3> QED
      BY <2>3, <3>2
  <2>5. \A d \in Seq(Nat) : d # <<>> /\ d[1] = x.id[1] /\ (\A k \in DOMAIN r : r[k].id # d) =>
            Copies(d, after) <= crashes
    <3>1. i \in DOMAIN r /\ r[i].id[1] = x.id[1]
      BY <1>2, <1>14, <2>3
    <3> QED
      BY <1>12, <3>1 DEF Spent
  <2>6. IsABag(after)
    BY <1>10 DEF after
  <2>7. Spent(Append(r, x), after, crashes)
    BY <1>1, <1>2, <1>12, <2>1, <2>2, <2>3, <2>4, <2>5, <2>6, JoinSpent
  <2>8. Extends(f, Append(r, x)) /\ Untouched(f, Append(r, x), i + 1)
    <3>1. i + 1 \in Nat
      BY <1>1
    <3> QED
      BY <1>1, <1>2, <1>13, <2>1, <2>2, <3>1, JoinExtends
  <2>9. Append(r, x) # <<>>
    BY <1>2, <2>1, AppendProperties
  <2> QED
    BY <1>3, <1>11, <1>16, <2>7, <2>8, <2>9 DEF Work, after
<1> QED
  BY <1>2, <1>15, <1>16

LEMMA WriteWorks ==
    ASSUME InOrder, NEW p \in Processes, Write(p)
    PROVE  Work(task'[p], file'.orders, landed, crashes)
<1>1. /\ task'[p] = Idle /\ task[p].pc = "write" /\ file'.orders = task[p].store
  BY InOrderFields, OtherFields DEF Write
<1>2. Spent(task[p].store, landed, crashes)
  BY <1>1, InOrderFields DEF Work
<1> QED
  BY <1>1, <1>2, IdleFields DEF Work

LEMMA CrashWorks ==
    ASSUME InOrder, NEW p \in Processes, Crash(p)
    PROVE  Work(task'[p], file.orders, landed, crashes + 1)
<1> DEFINE f == file.orders
           t == task[p]
<1>1. /\ task'[p] = Idle /\ t.pc # "idle"
  BY InOrderFields, OtherFields DEF Crash
<1>2. /\ t \in Task /\ t.store \in Seq(Order) /\ f \in Seq(Order) /\ IsABag(landed)
      /\ crashes \in Nat /\ Work(t, f, landed, crashes)
  BY InOrderFields
<1>3. Spent(f, landed, crashes) \/ (Extends(f, t.store) /\ Spent(t.store, landed, crashes))
  <2>1. t.pc \in {"cancel", "check", "submit", "save", "write"}
    BY <1>1, <1>2, TaskFields
  <2> QED
    BY <1>2, <2>1 DEF Work
<1>4. Spent(f, landed, crashes + 1)
  BY <1>2, <1>3, LostSpent, MoreSpent
<1> QED
  BY <1>1, <1>4, IdleFields DEF Work

\* A step of the only process.
LEMMA StepInOrder ==
    ASSUME NEW p, Processes = {p}, InOrder, [Next]_vars
    PROVE  InOrder'
<1>1. KeptInv' /\ p \in Processes
  BY StepKept DEF InOrder
<1>2. /\ TypeInv /\ created \in Nat /\ Placed(task[p]) /\ task[p] \in Task
      /\ Known(landed, created) /\ Work(task[p], file.orders, landed, crashes)
  BY <1>1, InOrderFields
<1>3. SUFFICES Known(landed', created') /\ Work(task'[p], file'.orders, landed', crashes')
  BY <1>1 DEF InOrder
<1>4. ASSUME NEW policy \in Policies, Create(p, policy)
      PROVE  Known(landed', created') /\ Work(task'[p], file'.orders, landed', crashes')
  <2>1. /\ file' = file /\ landed' = landed /\ crashes' = crashes /\ created' = created + 1
    BY <1>4 DEF Create
  <2>2. Work(task'[p], file.orders, landed, crashes)
    BY <1>1, <1>4, CreateWorks
  <2>3. Known(landed, created + 1)
    <3>1. \A d \in BagToSet(landed) : d # <<>> /\ d[1] \in Nat
      <4>1. BagToSet(landed) \subseteq Seq(Nat)
        BY <1>2 DEF TypeInv, TypeOK
      <4>2. \A d \in BagToSet(landed) : d # <<>> /\ d \in Seq(Nat)
        BY <1>2, <4>1 DEF Known
      <4>3. ASSUME NEW d \in Seq(Nat), d # <<>>
            PROVE  d[1] \in Nat
        <5>1. 1 \in 1..Len(d)
          BY <4>3
        <5> QED
          BY <5>1
      <4> QED
        BY <4>2, <4>3
    <3> QED
      BY <1>2, <3>1 DEF Known
  <2> QED
    BY <2>1, <2>2, <2>3
<1>5. CASE \/ \E order \in Entries(Loaded) : BeginCancel(p, order)
           \/ \E dryRun \in BOOLEAN : Evaluate(p, dryRun)
           \/ Truncate(p) \/ Skip(p) \/ Finish(p) \/ Cancel(p) \/ Offer(p)
  <2>1. /\ file'.orders = file.orders /\ landed' = landed /\ crashes' = crashes
        /\ created' = created
    <3>1. CASE Truncate(p)
      BY <1>2, <3>1 DEF Truncate, TypeInv, TypeOK
    <3> QED
      BY <1>5, <3>1 DEF BeginCancel, Evaluate, Skip, Finish, Cancel, Offer
  <2>2. Work(task'[p], file.orders, landed, crashes)
    BY <1>1, <1>5, OtherWorks, EvaluateWorks, CancelWorks, OfferWorks
  <2> QED
    BY <1>2, <2>1, <2>2
<1>6. CASE Write(p)
  <2>1. Work(task'[p], file'.orders, landed, crashes)
    BY <1>1, <1>6, WriteWorks
  <2> QED
    BY <1>2, <1>6, <2>1 DEF Write
<1>7. CASE Expire(p) \/ GiveUp(p) \/ Refuse(p) \/ Fail(p) \/ Fill(p)
  <2>1. PICK m, more : Evaluated(p, m, more)
    BY <1>1, <1>2, <1>7, EvaluationDecides
  <2>2. Work(task'[p], file.orders, landed', crashes) /\ Known(landed', created)
    BY <1>1, <2>1, EvaluationWorks
  <2> QED
    BY <2>1, <2>2 DEF Evaluated
<1>8. CASE Crash(p)
  <2>1. Work(task'[p], file.orders, landed, crashes + 1)
    BY <1>1, <1>8, CrashWorks
  <2> QED
    BY <1>2, <1>8, <2>1 DEF Crash
<1>9. CASE Tick \/ UNCHANGED vars
  BY <1>2, <1>9 DEF Tick, vars
<1> QED
  BY <1>4, <1>5, <1>6, <1>7, <1>8, <1>9 DEF Next, Proceed

LEMMA InOrderAtFirst ==
    ASSUME Init
    PROVE  InOrder
<1>1. KeptInv
  BY KeptAtFirst
<1>2. Known(landed, created)
  BY DEF Init, Known, EmptyBag, SetToBag, BagToSet
<1>3. \A p \in Processes : Work(task[p], file.orders, landed, crashes)
  <2>1. Work(Idle, <<>>, landed, crashes)
    BY EmptySpent, IdleFields DEF Work
  <2> QED
    BY <2>1 DEF Init
<1> QED
  BY <1>1, <1>2, <1>3 DEF InOrder

\* While no two commands overlap: when none runs, the transactions an order had executed
\* are all in its history but for one for each process that died (evaluate.ts:73-194).
THEOREM SpendingStaysRecorded ==
    ASSUME NEW p, Processes = {p}
    PROVE  Spec => []SpendingRecorded
<1>1. Init => InOrder
  BY InOrderAtFirst
<1>2. InOrder /\ [Next]_vars => InOrder'
  BY StepInOrder
<1>3. InOrder => SpendingRecorded
  <2> SUFFICES ASSUME InOrder, task[p].pc = "idle", NEW o \in Entries(file.orders)
               PROVE  Executed(o.id) <= Recorded(o) + crashes
    BY DEF SpendingRecorded
  <2>1. Work(task[p], file.orders, landed, crashes)
    BY InOrderFields
  <2>2. Spent(file.orders, landed, crashes)
    BY <2>1 DEF Work
  <2>3. PICK k \in DOMAIN file.orders : o = file.orders[k]
    BY DEF Entries
  <2>4. Copies(o.id, landed) <= Recorded(o) + crashes
    BY <2>2, <2>3 DEF Spent
  <2> QED
    BY <2>4 DEF Executed, Copies
<1> QED
  BY <1>1, <1>2, <1>3, PTL DEF Spec

\* Of two orders of one name the later is what an evaluation or a cancellation may have made
\* of the earlier.
LEMMA OrdersFollow ==
    ASSUME NEW p, Processes = {p}, InOrder, [Next]_vars,
           NEW o \in Entries(file.orders), NEW n \in Entries(file'.orders), o.id = n.id
    PROVE  n = o \/ Follows(o, n)
<1> DEFINE f == file.orders
<1>1. PICK j \in DOMAIN f : o = f[j]
  BY DEF Entries
<1>2. PICK g : g = file'.orders
  OBVIOUS
<1>3. PICK k \in DOMAIN g : n = g[k]
  BY <1>2 DEF Entries
<1>4. p \in Processes
  OBVIOUS
<1>5. /\ f \in Seq(Order) /\ WellKept(f, created) /\ TypeOK
      /\ task[p].store \in Seq(Order) /\ Work(task[p], f, landed, crashes)
      /\ Kept(task[p], created)
  BY <1>4, InOrderFields
<1>6. CASE Write(p)
  <2> DEFINE s == task[p].store
  <2>1. g = s /\ task[p].pc = "write"
    BY <1>2, <1>6 DEF Write
  <2>2. WellKept(s, created) /\ (Extends(f, s) \/ Disjoint(f, s))
    BY <1>5, <2>1 DEF Kept, Work
  <2>3. ~Disjoint(f, s)
    BY <1>1, <1>3, <2>1 DEF Disjoint
  <2>4. j \in DOMAIN s /\ s[j].id = f[j].id /\ Follows(f[j], s[j])
    <3>1. DOMAIN f = 1..Len(f) /\ DOMAIN s = 1..Len(s) /\ Len(f) <= Len(s)
          /\ Len(f) \in Nat /\ Len(s) \in Nat
      BY <1>5, <2>2, <2>3, StoreFields DEF Extends
    <3>2. j \in DOMAIN s
      BY <3>1
    <3> QED
      BY <2>2, <2>3, <3>2 DEF Extends, Follows
  <2>5. j = k
    BY <1>1, <1>3, <2>1, <2>2, <2>4 DEF WellKept, Chained
  <2> QED
    BY <1>1, <1>3, <2>1, <2>4, <2>5
<1>7. CASE ~Write(p)
  <2>1. g = f
    <3>1. CASE Truncate(p)
      BY <1>2, <1>5, <3>1 DEF Truncate, TypeOK
    <3>2. CASE ~Truncate(p)
      <4>1. file' = file
        BY <1>7, <3>2 DEF Next, Create, BeginCancel, Evaluate, Proceed, Cancel, Skip, Expire,
                          GiveUp, Refuse, Offer, Fail, Fill, Finish, Crash, Tick, vars
      <4> QED
        BY <1>2, <4>1
    <3> QED
      BY <3>1, <3>2
  <2>2. j = k
    BY <1>1, <1>3, <1>5, <2>1 DEF WellKept, Chained
  <2> QED
    BY <1>1, <1>3, <2>1, <2>2
<1> QED
  BY <1>6, <1>7

\* While no two commands overlap, an order that was closed stays as it was written.
THEOREM FinalStaysFinal ==
    ASSUME NEW p, Processes = {p}
    PROVE  Spec => FinalIsFinal
<1>1. Init => InOrder
  BY InOrderAtFirst
<1>2. InOrder /\ [Next]_vars => InOrder'
  BY StepInOrder
<1>3. InOrder /\ [Next]_vars =>
          [\A o \in Entries(file.orders), n \in Entries(file.orders') :
               o.id = n.id /\ Final(o) => n = o]_vars
  BY OrdersFollow DEF Follows
<1> QED
  BY <1>1, <1>2, <1>3, PTL DEF Spec, FinalIsFinal

----------------------------------------------------------------------------
(* Attempts, recorded or not                                               *)

\* What a store remembers of the attempts h made since the last of c crashes, but for the
\* order at i: until an order is closed, the time of the last attempt at it; and of a family
\* that is still there, every order that was tried.
RemembersBut(i, s, h, c) ==
    \A d \in DOMAIN h : h[d].crashes = c =>
        /\ \A k \in DOMAIN s : s[k].id = d /\ k # i => Final(s[k]) \/ s[k].last = h[d].at
        /\ (\E k \in DOMAIN s : s[k].id[1] = d[1]) => (\E k \in DOMAIN s : s[k].id = d)

Remembers(s, h, c) == RemembersBut(0, s, h, c)

\* A process t that is alone, over a file that reads as f and is unreadable if torn.
Tracks(t, f, torn, h, c) ==
    /\ t.pc \in {"idle", "cancel"} => Remembers(f, h, c)
    /\ t.pc \in {"check", "save", "write"} => Remembers(t.store, h, c)
    /\ t.pc = "check" /\ ~t.modified => t.store = f
    /\ t.pc = "submit" => RemembersBut(t.i, t.store, h, c)
    /\ t.pc = "submit" /\ t.store[t.i].id \in DOMAIN h /\ h[t.store[t.i].id].crashes = c =>
           h[t.store[t.i].id].at = t.now
    /\ t.pc = "write" => torn

\* What was tried was created, before or after the last crash.
TriedKnown(h, n, c) == \A d \in DOMAIN h : d # <<>> /\ d[1] <= n /\ h[d].crashes <= c

Tracked ==
    /\ InOrder
    /\ TriedKnown(tried, created, crashes)
    /\ \A p \in Processes : Tracks(task[p], Loaded, file.torn, tried, crashes)

LEMMA RemembersMost ==
    ASSUME NEW s \in Seq(Order), NEW h, NEW c, NEW i, Remembers(s, h, c)
    PROVE  RemembersBut(i, s, h, c)
<1>1. 0 \notin DOMAIN s
  BY StoreFields
<1> QED
  BY <1>1 DEF Remembers, RemembersBut

LEMMA EmptyRemembers ==
    ASSUME NEW h, NEW c
    PROVE  Remembers(<<>>, h, c)
  BY DEF Remembers, RemembersBut

\* After a crash there is nothing to remember.
LEMMA CrashForgets ==
    ASSUME NEW s, NEW h, NEW n, NEW c \in Nat, TriedTyped(h), TriedKnown(h, n, c)
    PROVE  Remembers(s, h, c + 1)
<1>1. \A d \in DOMAIN h : h[d].crashes \in Nat /\ h[d].crashes <= c
  BY ConstantsAssumption DEF TriedTyped, TriedKnown
<1>2. \A d \in DOMAIN h : h[d].crashes # c + 1
  BY <1>1
<1> QED
  BY <1>2 DEF Remembers, RemembersBut

\* Deciding on an order, the one not remembered or with the time of its last attempt.
LEMMA DecidedRemembers ==
    ASSUME NEW s \in Seq(Order), NEW i \in DOMAIN s, NEW m, Decides(s, i, m),
           NEW h, NEW c, RemembersBut(i, s, h, c)
    PROVE  LET r == [s EXCEPT ![i] = m]
           IN  /\ RemembersBut(i, r, h, c)
               /\ (m.id \in DOMAIN h /\ h[m.id].crashes = c => Final(m) \/ m.last = h[m.id].at)
                      => Remembers(r, h, c)
<1> DEFINE r == [s EXCEPT ![i] = m]
<1>1. /\ DOMAIN r = DOMAIN s /\ r[i] = m /\ \A k \in DOMAIN s : k # i => r[k] = s[k]
      /\ \A k \in DOMAIN s : r[k].id = s[k].id
  BY DecidedStore
<1> HIDE DEF r
<1>2. ASSUME NEW d \in DOMAIN h, h[d].crashes = c, \E k \in DOMAIN r : r[k].id[1] = d[1]
      PROVE  \E k \in DOMAIN r : r[k].id = d
  BY <1>1, <1>2 DEF RemembersBut
<1>3. ASSUME NEW d \in DOMAIN h, h[d].crashes = c, NEW k \in DOMAIN r, r[k].id = d, k # i
      PROVE  Final(r[k]) \/ r[k].last = h[d].at
  BY <1>1, <1>3 DEF RemembersBut
<1>4. RemembersBut(i, r, h, c)
  BY <1>2, <1>3 DEF RemembersBut
<1>5. ASSUME m.id \in DOMAIN h /\ h[m.id].crashes = c => Final(m) \/ m.last = h[m.id].at
      PROVE  Remembers(r, h, c)
  <2>1. ASSUME NEW d \in DOMAIN h, h[d].crashes = c, NEW k \in DOMAIN r, r[k].id = d
        PROVE  Final(r[k]) \/ r[k].last = h[d].at
    <3>1. CASE k = i
      BY <1>1, <1>5, <2>1, <3>1
    <3> QED
      BY <1>3, <2>1, <3>1
  <2> QED
    BY <1>2, <2>1 DEF Remembers, RemembersBut
<1> QED
  BY <1>4, <1>5 DEF r

\* An order that was never tried joins, and of its family none that was tried is missing.
LEMMA JoinRemembers ==
    ASSUME NEW s \in Seq(Order), NEW x \in Order, NEW h, NEW c, Remembers(s, h, c),
           \A d \in DOMAIN h : h[d].crashes = c =>
               d # x.id /\ (d[1] = x.id[1] => \E k \in DOMAIN s : s[k].id = d)
    PROVE  Remembers(Append(s, x), h, c)
<1> DEFINE r == Append(s, x)
           last == Len(s) + 1
<1>1. DOMAIN r = DOMAIN s \cup {last} /\ r[last] = x /\ \A k \in DOMAIN s : r[k] = s[k]
  BY AppendFields
<1> HIDE DEF r, last
<1>2. ASSUME NEW d \in DOMAIN h, h[d].crashes = c, NEW k \in DOMAIN r, r[k].id = d
      PROVE  Final(r[k]) \/ r[k].last = h[d].at
  <2>1. k \in DOMAIN s /\ r[k] = s[k] /\ k # 0
    <3>1. k \in DOMAIN s /\ r[k] = s[k]
      BY <1>1, <1>2
    <3> QED
      BY <3>1, StoreFields
  <2> QED
    BY <1>2, <2>1 DEF Remembers, RemembersBut
<1>3. ASSUME NEW d \in DOMAIN h, h[d].crashes = c, NEW k \in DOMAIN r, r[k].id[1] = d[1]
      PROVE  \E j \in DOMAIN r : r[j].id = d
  <2>1. \E j \in DOMAIN s : s[j].id = d
    <3>1. CASE k \in DOMAIN s
      BY <1>1, <1>3, <3>1 DEF Remembers, RemembersBut
    <3>2. CASE k = last
      BY <1>1, <1>3, <3>2
    <3> QED
      BY <1>1, <3>1, <3>2
  <2> QED
    BY <1>1, <2>1
<1> QED
  BY <1>2, <1>3 DEF Remembers, RemembersBut, r

\* An attempt at the order at i is noted.
LEMMA NoteRemembers ==
    ASSUME Tracked, NEW s \in Seq(Order), NEW i \in DOMAIN s, WellKept(s, created),
           Remembers(s, tried, crashes), NEW now \in Nat, Note(s[i].id, now)
    PROVE  /\ RemembersBut(i, s, tried', crashes)
           /\ tried'[s[i].id] = [at |-> now, crashes |-> crashes]
           /\ TriedKnown(tried', created, crashes)
<1> DEFINE id == s[i].id
<1>1. /\ DOMAIN tried' = DOMAIN tried \cup {id} /\ tried'[id].at = now
      /\ tried'[id] = [at |-> now, crashes |-> crashes] /\ tried'[id].crashes = crashes
      /\ \A d \in DOMAIN tried : d # id => tried'[d] = tried[d]
  BY DEF Note
<1>2. \A k \in DOMAIN s : s[k].id = id => k = i
  BY DEF WellKept, Chained
<1>3. id # <<>> /\ id[1] <= created
  <2>1. created \in Nat
    BY ConstantsAssumption DEF Tracked, InOrder, KeptInv, TypeInv, TypeOK
  <2> QED
    BY <2>1 DEF WellKept, Rooted
<1> HIDE DEF id
<1>4. TriedKnown(tried', created, crashes)
  <2>1. crashes <= crashes
    BY ConstantsAssumption DEF Tracked, InOrder, KeptInv, TypeInv, TypeOK
  <2> QED
    BY <1>1, <1>3, <2>1 DEF Tracked, TriedKnown
<1>5. ASSUME NEW d \in DOMAIN tried', tried'[d].crashes = crashes
      PROVE  /\ \A k \in DOMAIN s : s[k].id = d /\ k # i => Final(s[k]) \/ s[k].last = tried'[d].at
             /\ (\E k \in DOMAIN s : s[k].id[1] = d[1]) => (\E k \in DOMAIN s : s[k].id = d)
  <2>1. CASE d = id
    BY <1>2, <2>1 DEF id
  <2>2. CASE d # id
    <3>1. d \in DOMAIN tried /\ tried'[d] = tried[d] /\ 0 \notin DOMAIN s
      BY <1>1, <2>2, StoreFields
    <3> QED
      BY <1>5, <3>1 DEF Remembers, RemembersBut
  <2> QED
    BY <2>1, <2>2
<1> QED
  BY <1>1, <1>4, <1>5 DEF RemembersBut, id

LEMMA TrackedFields ==
    ASSUME Tracked, NEW p \in Processes
    PROVE  /\ InOrder /\ KeptInv /\ TypeOK /\ TypeInv /\ TriedTyped(tried)
           /\ TriedKnown(tried, created, crashes)
           /\ Tracks(task[p], Loaded, file.torn, tried, crashes)
  BY DEF Tracked, InOrder, KeptInv, TypeInv, TypeOK, TriedTyped

----------------------------------------------------------------------------
\* A new order: its family is new.
LEMMA CreateTracks ==
    ASSUME Tracked, NEW p \in Processes, NEW policy \in Policies, Create(p, policy)
    PROVE  /\ Tracks(task'[p], Loaded, file.torn, tried, crashes)
           /\ TriedKnown(tried, created + 1, crashes)
<1> DEFINE x == NewOrder(created + 1, policy)
<1>1. /\ task'[p].pc = "save" /\ task'[p].store = Append(Loaded, x) /\ task[p].pc = "idle"
      /\ Loaded \in Seq(Order) /\ created \in Nat
  BY TrackedFields, InOrderFields, CreateFields DEF Create
<1>2. x \in Order /\ x.id = <<created + 1>>
  BY <1>1, NewOrderFields
<1> HIDE DEF x
<1>3. \A d \in DOMAIN tried : d # <<>> /\ d[1] \in Nat /\ d[1] <= created
  <2>1. ASSUME NEW d \in DOMAIN tried
        PROVE  d # <<>> /\ d[1] \in Nat /\ d[1] <= created
    <3>1. d \in Seq(Nat) /\ d # <<>> /\ d[1] <= created
      BY TrackedFields DEF TriedTyped, TriedKnown
    <3>2. 1 \in 1..Len(d)
      BY <3>1
    <3> QED
      BY <3>1, <3>2
  <2> QED
    BY <2>1
<1>4. TriedKnown(tried, created + 1, crashes)
  BY <1>1, <1>3, TrackedFields DEF TriedKnown
<1>5. \A d \in DOMAIN tried : d # x.id /\ d[1] # x.id[1]
  BY <1>1, <1>2, <1>3
<1>6. Remembers(Loaded, tried, crashes)
  BY <1>1, TrackedFields DEF Tracks
<1>7. Remembers(Append(Loaded, x), tried, crashes)
  BY <1>1, <1>2, <1>5, <1>6, JoinRemembers
<1> QED
  BY <1>1, <1>4, <1>7 DEF Tracks

\* The steps of a process that leave the store and what was tried as they are.
LEMMA OtherTracks ==
    ASSUME Tracked, NEW p \in Processes,
           \/ \E order \in Entries(Loaded) : BeginCancel(p, order)
           \/ \E dryRun \in BOOLEAN : Evaluate(p, dryRun)
           \/ Skip(p) \/ Finish(p)
    PROVE  Tracks(task'[p], Loaded, file.torn, tried, crashes)
<1> DEFINE t == task[p]
           u == task'[p]
<1>1. /\ TypeOK /\ Placed(t) /\ Tracks(t, Loaded, file.torn, tried, crashes)
  BY TrackedFields, InOrderFields
<1>2. ASSUME NEW order \in Entries(Loaded), BeginCancel(p, order)
      PROVE  Tracks(u, Loaded, file.torn, tried, crashes)
  <2>1. u.pc = "cancel" /\ t.pc = "idle"
    BY <1>1, <1>2, BeginCancelFields DEF BeginCancel
  <2> QED
    BY <1>1, <2>1 DEF Tracks
<1>3. ASSUME NEW dryRun \in BOOLEAN, Evaluate(p, dryRun)
      PROVE  Tracks(u, Loaded, file.torn, tried, crashes)
  <2>1. u.pc = "check" /\ u.store = Loaded /\ t.pc = "idle"
    BY <1>1, <1>3, EvaluateFields DEF Evaluate
  <2> QED
    BY <1>1, <2>1 DEF Tracks
<1>4. CASE Skip(p)
  <2>1. t.pc = "check" /\ u.pc = "check" /\ u.store = t.store /\ (u.modified <=> t.modified)
    BY <1>1, <1>4, OtherFields
  <2> QED
    BY <1>1, <2>1 DEF Tracks
<1>5. CASE Finish(p)
  <2>1. t.pc = "check" /\ ((~t.modified /\ u = Idle) \/ (u.pc = "save" /\ u.store = t.store))
    BY <1>1, <1>5, OtherFields
  <2> QED
    BY <1>1, <2>1, IdleFields DEF Tracks
<1> QED
  BY <1>2, <1>3, <1>4, <1>5

LEMMA CancelTracks ==
    ASSUME Tracked, NEW p \in Processes, Cancel(p)
    PROVE  Tracks(task'[p], Loaded, file.torn, tried, crashes)
<1>1. /\ TypeOK /\ Placed(task[p]) /\ task[p].pc = "cancel" /\ Loaded \in Seq(Order)
      /\ WellKept(Loaded, created) /\ task[p].store # <<>>
  BY TrackedFields, InOrderFields DEF Cancel, Placed
<1>2. Remembers(Loaded, tried, crashes)
  BY <1>1, TrackedFields DEF Tracks
<1>3. \/ task'[p] = Idle
      \/ task'[p].pc = "save" /\ task'[p].store = Loaded
      \/ \E k \in DOMAIN Loaded, m \in Order :
             /\ task'[p].pc = "save" /\ task'[p].store = [Loaded EXCEPT ![k] = m]
             /\ Decides(Loaded, k, m) /\ m.status = "cancelled"
  BY <1>1, CancelDecides
<1>4. CASE task'[p] = Idle
  BY <1>2, <1>4, IdleFields DEF Tracks
<1>5. CASE task'[p].pc = "save" /\ task'[p].store = Loaded
  BY <1>2, <1>5 DEF Tracks
<1>6. ASSUME NEW k \in DOMAIN Loaded, NEW m \in Order,
             task'[p].pc = "save", task'[p].store = [Loaded EXCEPT ![k] = m],
             Decides(Loaded, k, m), m.status = "cancelled"
      PROVE  Tracks(task'[p], Loaded, file.torn, tried, crashes)
  <2>1. Final(m) /\ RemembersBut(k, Loaded, tried, crashes)
    BY <1>1, <1>2, <1>6, RemembersMost DEF Final
  <2>2. Remembers([Loaded EXCEPT ![k] = m], tried, crashes)
    BY <1>1, <1>6, <2>1, DecidedRemembers
  <2> QED
    BY <1>6, <2>2 DEF Tracks
<1> QED
  BY <1>3, <1>4, <1>5, <1>6

\* Opening the file loses it, until the copy is written.
LEMMA SaveTracks ==
    ASSUME Tracked, NEW p \in Processes, Truncate(p) \/ Write(p)
    PROVE  Tracks(task'[p], Loaded', file'.torn, tried, crashes)
<1>1. TypeOK /\ Placed(task[p]) /\ Tracks(task[p], Loaded, file.torn, tried, crashes)
  BY TrackedFields, InOrderFields
<1>2. CASE Truncate(p)
  <2>1. /\ task[p].pc = "save" /\ task'[p].pc = "write" /\ task'[p].store = task[p].store
        /\ file'.torn
    BY <1>1, <1>2, OtherFields DEF Truncate, TypeOK
  <2> QED
    BY <1>1, <2>1 DEF Tracks
<1>3. CASE Write(p)
  <2>1. task'[p] = Idle /\ task[p].pc = "write"
    BY <1>1, <1>3, OtherFields DEF Write
  <2>2. file.torn /\ Remembers(task[p].store, tried, crashes)
    BY <1>1, <2>1 DEF Tracks
  <2>3. Loaded' = task[p].store
    BY <1>3, <2>2 DEF Write, Loaded
  <2> QED
    BY <2>1, <2>2, <2>3, IdleFields DEF Tracks
<1> QED
  BY <1>2, <1>3

LEMMA CrashTracks ==
    ASSUME Tracked, NEW p \in Processes, Crash(p)
    PROVE  /\ Tracks(task'[p], Loaded, file.torn, tried, crashes + 1)
           /\ TriedKnown(tried, created, crashes + 1)
<1>1. task'[p] = Idle /\ crashes \in Nat /\ TriedTyped(tried) /\ TriedKnown(tried, created, crashes)
  BY TrackedFields, InOrderFields, OtherFields
<1>2. Remembers(Loaded, tried, crashes + 1)
  BY <1>1, CrashForgets
<1>3. TriedKnown(tried, created, crashes + 1)
  <2>1. \A d \in DOMAIN tried : tried[d].crashes \in Nat
    BY <1>1, ConstantsAssumption DEF TriedTyped
  <2> QED
    BY <1>1, <2>1 DEF TriedKnown
<1> QED
  BY <1>1, <1>2, <1>3, IdleFields DEF Tracks

\* The order an evaluation looks at, before and after an attempt at it is noted.
LEMMA AttemptTracks ==
    ASSUME Tracked, NEW p \in Processes, Refuse(p) \/ Offer(p)
    PROVE  LET t == task[p] s == t.store i == t.i
           IN  /\ t.pc = "check" /\ s \in Seq(Order) /\ i \in DOMAIN s /\ Current(p) = s[i]
               /\ s[i].status = "pending" /\ WellKept(s, created)
               /\ Remembers(s, tried, crashes) /\ RemembersBut(i, s, tried', crashes)
               /\ tried'[s[i].id] = [at |-> t.now, crashes |-> crashes]
               /\ TriedKnown(tried', created, crashes)
<1> DEFINE t == task[p]
           s == t.store
           i == t.i
<1>1. /\ t.pc = "check" /\ i <= Len(s) /\ Current(p).status = "pending"
      /\ Note(Current(p).id, t.now)
  BY DEF Refuse, Offer, Checking, Due, Open
<1>2. /\ t \in Task /\ Placed(t) /\ Kept(t, created) /\ s \in Seq(Order) /\ t.now \in Nat
      /\ Tracks(t, Loaded, file.torn, tried, crashes)
  BY TrackedFields, InOrderFields
<1>3. i \in DOMAIN s /\ Current(p) = s[i]
  BY <1>1, <1>2, CurrentFields DEF Current
<1>4. WellKept(s, created) /\ Remembers(s, tried, crashes)
  BY <1>1, <1>2 DEF Kept, Tracks
<1>5. Note(s[i].id, t.now)
  BY <1>1, <1>3
<1>6. /\ RemembersBut(i, s, tried', crashes) /\ TriedKnown(tried', created, crashes)
      /\ tried'[s[i].id] = [at |-> t.now, crashes |-> crashes]
  BY <1>2, <1>3, <1>4, <1>5, NoteRemembers
<1> QED
  BY <1>1, <1>2, <1>3, <1>4, <1>6

LEMMA OfferTracks ==
    ASSUME Tracked, NEW p \in Processes, Offer(p)
    PROVE  /\ Tracks(task'[p], Loaded, file.torn, tried', crashes)
           /\ TriedKnown(tried', created, crashes)
<1> DEFINE t == task[p]
           u == task'[p]
           s == t.store
           i == t.i
           m == [s[i] EXCEPT !.status = "executing"]
<1>1. /\ s \in Seq(Order) /\ i \in DOMAIN s /\ Current(p) = s[i]
      /\ RemembersBut(i, s, tried', crashes)
      /\ tried'[s[i].id] = [at |-> t.now, crashes |-> crashes]
      /\ TriedKnown(tried', created, crashes)
  BY AttemptTracks
<1>2. /\ u.pc = "submit" /\ u.i = i /\ u.now = t.now /\ u.store = [s EXCEPT ![i] = m]
      /\ s[i] \in Order /\ m \in Order
  BY <1>1, TrackedFields, InOrderFields, OfferFields
<1>3. m.id = s[i].id /\ m.policy = s[i].policy
  BY <1>2 DEF Order
<1> HIDE DEF m
<1>4. Decides(s, i, m)
  BY <1>2, <1>3 DEF Decides
<1>5. RemembersBut(i, [s EXCEPT ![i] = m], tried', crashes) /\ [s EXCEPT ![i] = m][i] = m
  BY <1>1, <1>4, DecidedRemembers, DecidedStore
<1>6. tried'[u.store[u.i].id].at = u.now
  BY <1>1, <1>2, <1>3, <1>5
<1> QED
  BY <1>1, <1>2, <1>5, <1>6 DEF Tracks

\* An order is decided on, with the time of the last attempt or for good; its clone was never
\* tried.
LEMMA EvaluatedRemembers ==
    ASSUME Tracked, NEW p \in Processes, NEW m, NEW more, Evaluated(p, m, more),
           NEW h, RemembersBut(task[p].i, task[p].store, h, crashes),
           m.id \in DOMAIN h /\ h[m.id].crashes = crashes => Final(m) \/ m.last = h[m.id].at
    PROVE  Remembers(task'[p].store, h, crashes)
<1> DEFINE t == task[p]
           s == t.store
           i == t.i
           r == [s EXCEPT ![i] = m]
           x == Clone(m, t.now)
<1>1. /\ TypeInv /\ Kept(t, created) /\ t.now \in Nat
  BY TrackedFields, InOrderFields
<1>2. /\ s \in Seq(Order) /\ i \in DOMAIN s /\ Decides(s, i, m)
      /\ r \in Seq(Order) /\ WellKept(r, created) /\ r[i] = m
      /\ \/ task'[p].store = r
         \/ /\ task'[p].store = Append(r, x) /\ Recurs(m)
            /\ \A k \in DOMAIN r : r[k].id[1] = m.id[1] => Len(r[k].id) <= Len(m.id)
  BY <1>1, EvaluatedStore
<1>3. Remembers(r, h, crashes) /\ i \in DOMAIN r
  BY <1>2, DecidedRemembers, DecidedStore
<1> HIDE DEF r
<1>4. CASE task'[p].store = r
  BY <1>3, <1>4
<1>5. CASE /\ task'[p].store = Append(r, x) /\ Recurs(m)
           /\ \A k \in DOMAIN r : r[k].id[1] = m.id[1] => Len(r[k].id) <= Len(m.id)
  <2>1. x \in Order /\ x.id = Append(m.id, t.now) /\ m.id \in Seq(Nat) /\ m.id # <<>>
    <3>1. m \in Order /\ m.id # <<>>
      BY <1>2, <1>3 DEF Decides, WellKept, Rooted
    <3> QED
      BY <1>1, <1>5, <3>1, CloneFields, OrderFields
  <2> HIDE DEF x
  <2>2. x.id[1] = m.id[1] /\ Len(x.id) = Len(m.id) + 1 /\ Len(m.id) \in Nat
    <3>1. 1 \in 1..Len(m.id)
      BY <2>1
    <3>2. PICK d \in Seq(Nat), now \in Nat : d = m.id /\ now = t.now /\ 1 \in 1..Len(d)
      BY <1>1, <2>1, <3>1
    <3>3. Len(Append(d, now)) = Len(d) + 1 /\ Append(d, now)[1] = d[1]
      BY <3>2, AppendProperties
    <3> QED
      BY <2>1, <3>2, <3>3
  <2>3. ASSUME NEW d \in DOMAIN h, h[d].crashes = crashes, d[1] = x.id[1]
        PROVE  d # x.id /\ \E k \in DOMAIN r : r[k].id = d
    <3>1. r[i].id[1] = d[1]
      BY <1>2, <2>2, <2>3
    <3>2. PICK k \in DOMAIN r : r[k].id = d
      BY <1>3, <2>3, <3>1 DEF Remembers, RemembersBut
    <3>3. Len(d) <= Len(m.id)
      BY <1>5, <2>2, <2>3, <3>2
    <3> QED
      BY <2>2, <3>2, <3>3
  <2>4. \A d \in DOMAIN h : h[d].crashes = crashes =>
            d # x.id /\ (d[1] = x.id[1] => \E k \in DOMAIN r : r[k].id = d)
    BY <2>3
  <2>5. Remembers(Append(r, x), h, crashes)
    BY <1>2, <1>3, <2>1, <2>4, JoinRemembers
  <2> QED
    BY <1>5, <2>5
<1> QED
  BY <1>2, <1>4, <1>5

LEMMA EvaluationTracks ==
    ASSUME Tracked, NEW p \in Processes,
           Expire(p) \/ GiveUp(p) \/ Refuse(p) \/ Fail(p) \/ Fill(p)
    PROVE  /\ Tracks(task'[p], Loaded, file.torn, tried', crashes)
           /\ TriedKnown(tried', created, crashes)
<1> DEFINE t == task[p]
           s == t.store
           i == t.i
<1>1. /\ TypeOK /\ t \in Task /\ Placed(t) /\ s \in Seq(Order)
      /\ Tracks(t, Loaded, file.torn, tried, crashes) /\ TriedKnown(tried, created, crashes)
  BY TrackedFields, InOrderFields
<1>2. PICK m, more : Evaluated(p, m, more) /\ ClosesOrTried(p, m)
  BY <1>1, EvaluationDecides
<1>3. task'[p].pc = "check" /\ task'[p].modified
  BY <1>1, <1>2, EvaluatedFields DEF TypeOK
<1>4. m.id = s[i].id /\ (Final(m) \/ m.last = t.now) /\ t.pc \in {"check", "submit"}
  <2>1. Current(p) = s[i] /\ Current(p) \in Order /\ Decided(p, m)
    BY <1>2 DEF Evaluated, Current
  <2> QED
    BY <1>1, <2>1, DecidedFields DEF Final
<1>5. CASE Refuse(p)
  <2>1. /\ RemembersBut(i, s, tried', crashes) /\ TriedKnown(tried', created, crashes)
        /\ tried'[s[i].id] = [at |-> t.now, crashes |-> crashes]
    BY <1>5, AttemptTracks
  <2>2. Final(m) \/ m.last = tried'[m.id].at
    BY <1>4, <2>1
  <2>3. Remembers(task'[p].store, tried', crashes)
    BY <1>2, <2>1, <2>2, EvaluatedRemembers
  <2> QED
    BY <1>3, <2>1, <2>3 DEF Tracks
<1>6. CASE ~Refuse(p)
  <2>1. tried' = tried
    BY <1>6 DEF Expire, GiveUp, Fail, Fill
  <2>2. RemembersBut(i, s, tried, crashes)
    BY <1>1, <1>4, RemembersMost DEF Tracks
  <2>3. m.id \in DOMAIN tried /\ tried[m.id].crashes = crashes =>
            Final(m) \/ m.last = tried[m.id].at
    BY <1>1, <1>2, <1>4, <1>6 DEF Tracks, ClosesOrTried
  <2>4. Remembers(task'[p].store, tried, crashes)
    BY <1>2, <2>2, <2>3, EvaluatedRemembers
  <2> QED
    BY <1>1, <1>3, <2>1, <2>4 DEF Tracks
<1> QED
  BY <1>5, <1>6

\* A step of the only process, or of none.
LEMMA StepTracked ==
    ASSUME NEW p, Processes = {p}, Tracked, [Next]_vars
    PROVE  Tracked'
<1>1. InOrder /\ InOrder' /\ p \in Processes /\ TriedKnown(tried, created, crashes)
      /\ Tracks(task[p], Loaded, file.torn, tried, crashes)
  BY StepInOrder, TrackedFields DEF Tracked
<1>2. SUFFICES /\ TriedKnown(tried', created', crashes')
               /\ Tracks(task'[p], Loaded', file'.torn, tried', crashes')
  BY <1>1 DEF Tracked
<1>3. ASSUME NEW policy \in Policies, Create(p, policy)
      PROVE  /\ TriedKnown(tried', created', crashes')
             /\ Tracks(task'[p], Loaded', file'.torn, tried', crashes')
  <2>1. /\ file' = file /\ tried' = tried /\ crashes' = crashes /\ created' = created + 1
        /\ Loaded' = Loaded
    BY <1>3 DEF Create, Loaded
  <2> QED
    BY <1>1, <1>3, <2>1, CreateTracks
<1>4. CASE \/ \E order \in Entries(Loaded) : BeginCancel(p, order)
           \/ \E dryRun \in BOOLEAN : Evaluate(p, dryRun)
           \/ Skip(p) \/ Finish(p) \/ Cancel(p)
  <2>1. /\ file' = file /\ tried' = tried /\ crashes' = crashes /\ created' = created
        /\ Loaded' = Loaded
    BY <1>4 DEF BeginCancel, Evaluate, Skip, Finish, Cancel, Loaded
  <2>2. Tracks(task'[p], Loaded, file.torn, tried, crashes)
    BY <1>1, <1>4, OtherTracks, CancelTracks
  <2> QED
    BY <1>1, <2>1, <2>2
<1>5. CASE Truncate(p) \/ Write(p)
  <2>1. tried' = tried /\ crashes' = crashes /\ created' = created
    BY <1>5 DEF Truncate, Write
  <2> QED
    BY <1>1, <1>5, <2>1, SaveTracks
<1>6. CASE Expire(p) \/ GiveUp(p) \/ Refuse(p) \/ Fail(p) \/ Fill(p) \/ Offer(p)
  <2>1. file' = file /\ crashes' = crashes /\ created' = created /\ Loaded' = Loaded
    BY <1>6 DEF Expire, GiveUp, Refuse, Fail, Fill, Offer, Loaded
  <2>2. /\ Tracks(task'[p], Loaded, file.torn, tried', crashes)
        /\ TriedKnown(tried', created, crashes)
    BY <1>1, <1>6, EvaluationTracks, OfferTracks
  <2> QED
    BY <2>1, <2>2
<1>7. CASE Crash(p)
  <2>1. /\ file' = file /\ tried' = tried /\ crashes' = crashes + 1 /\ created' = created
        /\ Loaded' = Loaded
    BY <1>7 DEF Crash, Loaded
  <2> QED
    BY <1>1, <1>7, <2>1, CrashTracks
<1>8. CASE Tick \/ UNCHANGED vars
  <2>1. /\ file' = file /\ tried' = tried /\ crashes' = crashes /\ created' = created
        /\ Loaded' = Loaded /\ task' = task
    BY <1>8 DEF Tick, vars, Loaded
  <2> QED
    BY <1>1, <2>1
<1> QED
  BY <1>3, <1>4, <1>5, <1>6, <1>7, <1>8 DEF Next, Proceed

LEMMA TrackedAtFirst ==
    ASSUME Init
    PROVE  Tracked
<1>1. InOrder /\ TriedKnown(tried, created, crashes)
  BY InOrderAtFirst DEF Init, TriedKnown
<1>2. Loaded = <<>> /\ \A p \in Processes : task[p] = Idle
  BY DEF Init, Loaded
<1>3. Tracks(Idle, <<>>, file.torn, tried, crashes)
  BY EmptyRemembers, IdleFields DEF Tracks
<1> QED
  BY <1>1, <1>2, <1>3 DEF Tracked

\* While no two commands overlap, two attempts at an order, also those of which nothing was
\* saved, are its cooldown apart, unless a process died in between (evaluate.ts:86-87, 191-194).
THEOREM CooldownStaysKept ==
    ASSUME NEW cli, Processes = {cli}
    PROVE  Spec => CooldownKept
<1>1. Init => Tracked
  BY TrackedAtFirst
<1>2. Tracked /\ [Next]_vars => Tracked'
  BY StepTracked
<1>3. Tracked /\ [Next]_vars =>
          [\A p \in Processes :
               (Refuse(p) \/ Offer(p)) /\ Current(p).id \in DOMAIN tried =>
                   LET last == tried[Current(p).id]
                   IN  \/ task[p].now - last.at >= Current(p).policy.cooldown
                       \/ crashes > last.crashes]_vars
  <2> SUFFICES ASSUME Tracked, NEW q \in Processes, Refuse(q) \/ Offer(q),
                      Current(q).id \in DOMAIN tried
               PROVE  \/ task[q].now - tried[Current(q).id].at >= Current(q).policy.cooldown
                      \/ crashes > tried[Current(q).id].crashes
    OBVIOUS
  <2> DEFINE o == Current(q)
             last == tried[o.id]
             now == task[q].now
  <2>1. /\ task[q].store \in Seq(Order) /\ task[q].i \in DOMAIN task[q].store
        /\ o = task[q].store[task[q].i] /\ o.status = "pending"
        /\ Remembers(task[q].store, tried, crashes)
    BY AttemptTracks
  <2>2. ~IsInCooldown(o, now)
    BY DEF Refuse, Offer, Due
  <2>3. /\ last.at \in Nat /\ last.crashes \in Nat /\ last.crashes <= crashes
        /\ crashes \in Nat /\ now \in Nat
    BY TrackedFields, InOrderFields, ConstantsAssumption DEF TriedTyped, TriedKnown
  <2>4. o.policy.cooldown \in Nat /\ task[q].i # 0 /\ ~Final(o)
    BY <2>1, StoreFields, OrderFields DEF Final
  <2>5. CASE last.crashes = crashes
    <3>1. o.last = last.at
      BY <2>1, <2>4, <2>5 DEF Remembers, RemembersBut
    <3>2. o.last # None
      BY <2>3, <3>1, ConstantsAssumption
    <3> QED
      BY <2>2, <2>3, <2>4, <3>1, <3>2 DEF IsInCooldown
  <2>6. CASE last.crashes # crashes
    <3>1. crashes > last.crashes
      BY <2>3, <2>6
    <3> QED
      BY <3>1
  <2> QED
    BY <2>5, <2>6
<1> QED
  BY <1>1, <1>2, <1>3, PTL DEF Spec, CooldownKept
=============================================================================
