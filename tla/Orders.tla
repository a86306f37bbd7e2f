------------------------------- MODULE Orders -------------------------------
(***************************************************************************)
(* Standing orders of the SDK (packages/sdk/src/orders and the `orders`    *)
(* commands): a file, orders.json, that the commands create, cancel and    *)
(* evaluate read whole and write back whole.  The agent evaluates on each  *)
(* heartbeat; the server answers whether an order can be executed and with *)
(* which transaction, which the SDK verifies, signs and submits.           *)
(*                                                                         *)
(* A process is one run of the CLI.  Nothing locks the file: other         *)
(* processes run between its reads and writes, and a write first empties   *)
(* the file.  Evaluation is one step for each order up to the answer of    *)
(* the server and one for what follows; the saved file and the landed      *)
(* transactions are all that its finer steps would show to anyone.         *)
(***************************************************************************)
EXTENDS Integers, Sequences, FiniteSets, Bags

CONSTANTS
    Processes,      \* runs of the CLI that may overlap
    Policies,       \* the policies orders are created with
    None,           \* an optional field left out
    MaxCreated,     \* bound on the orders created, clones apart
    MaxTime,        \* bound on the clock
    MaxCrashes      \* bound on processes killed

VARIABLES
    file,           \* orders.json: what was last written, and whether it is unreadable
    task,           \* what each process is doing
    clock,
    landed,         \* the executed transactions of each order, a bag of ids
    created,        \* orders created so far
    crashes,        \* processes killed so far
    tried           \* history: the last attempt at each order, recorded or not

vars == <<file, task, clock, landed, created, crashes, tried>>

Statuses == {"pending", "executing", "filled", "cancelled", "expired", "failed"}

\* cooldown in units of the clock; maxAttempts and expiresAt may be left out.  An
\* order without recurrence has remaining 1: neither is repeated.  None repeats for
\* ever.  The interval of a recurrence is left out: nothing reads it.
Policy == [cooldown : Nat, maxAttempts : Nat \cup {None},
           expiresAt : Nat \cup {None}, remaining : Nat \cup {None}]

\* The history is kept as the number of its "attempted" events and the time of its
\* last event of type attempted, filled or failed.  An id is that of the first order
\* with the times at which clone after clone was made.
Order == [id : Seq(Nat), status : Statuses, attempts : Nat, last : Nat \cup {None},
          policy : Policy]

\* The steps of a process: looking at order i of its copy of the store, about to
\* submit its transaction, cancelling the one order in store, about to save, and
\* with the file emptied.
Task == [pc : {"idle", "check", "submit", "cancel", "save", "write"}, store : Seq(Order),
         i : Nat, now : Nat, dryRun : BOOLEAN, modified : BOOLEAN]

Idle == [pc |-> "idle", store |-> <<>>, i |-> 0, now |-> 0,
         dryRun |-> FALSE, modified |-> FALSE]

ASSUME ConstantsAssumption ==
    /\ Policies \subseteq Policy
    /\ MaxCreated \in Nat /\ MaxTime \in Nat /\ MaxCrashes \in Nat
    /\ None \notin Nat

TypeOK ==
    /\ file \in [orders : Seq(Order), torn : BOOLEAN]
    /\ task \in [Processes -> Task]
    /\ clock \in 0..MaxTime
    /\ IsABag(landed) /\ BagToSet(landed) \subseteq Seq(Nat)
    /\ created \in 0..MaxCreated
    /\ crashes \in 0..MaxCrashes
    /\ DOMAIN tried \subseteq Seq(Nat)
    /\ \A id \in DOMAIN tried : tried[id] \in [at : Nat, crashes : 0..MaxCrashes]

Init ==
    /\ file = [orders |-> <<>>, torn |-> FALSE]
    /\ task = [p \in Processes |-> Idle]
    /\ clock = 0
    /\ landed = EmptyBag
    /\ created = 0
    /\ crashes = 0
    /\ tried = <<>>

Entries(s) == {s[k] : k \in DOMAIN s}

----------------------------------------------------------------------------
(* The file (orders/store.ts)                                              *)

\* Whatever cannot be read or parsed counts as no orders.
Loaded == IF file.torn THEN <<>> ELSE file.orders

Saving(store) == [Idle EXCEPT !.pc = "save", !.store = store]

\* saveOrders, the file opened: it is empty, and nobody can parse it.
Truncate(p) ==
    /\ task[p].pc = "save"
    /\ file' = [file EXCEPT !.torn = TRUE]
    /\ task' = [task EXCEPT ![p].pc = "write"]
    /\ UNCHANGED <<clock, landed, created, crashes, tried>>

\* saveOrders, the store written.  Over what another process wrote since the file was
\* opened, a shorter text leaves the end of the longer one.
Write(p) ==
    /\ task[p].pc = "write"
    /\ \E torn \in BOOLEAN :
        /\ torn => ~file.torn
        /\ file' = [orders |-> task[p].store, torn |-> torn]
    /\ task' = [task EXCEPT ![p] = Idle]
    /\ UNCHANGED <<clock, landed, created, crashes, tried>>

----------------------------------------------------------------------------
(* orders create and orders cancel (commands/orders.ts)                    *)

NewOrder(n, policy) ==
    [id |-> <<n>>, status |-> "pending", attempts |-> 0, last |-> None, policy |-> policy]

\* ordersCreate: addOrder
Create(p, policy) ==
    /\ task[p].pc = "idle"
    /\ created < MaxCreated
    /\ created' = created + 1
    /\ task' = [task EXCEPT ![p] = Saving(Append(Loaded, NewOrder(created + 1, policy)))]
    /\ UNCHANGED <<file, clock, landed, crashes, tried>>

\* ordersCancel, up to its check of the order getOrder found
BeginCancel(p, order) ==
    /\ task[p].pc = "idle"
    /\ order.status = "pending"
    /\ task' = [task EXCEPT ![p] = [Idle EXCEPT !.pc = "cancel", !.store = <<order>>]]
    /\ UNCHANGED <<file, clock, landed, created, crashes, tried>>

\* ordersCancel: updateOrder reads the file again, and puts back the history found
\* first; it throws when the order is no longer there.
Cancel(p) ==
    LET seen == task[p].store[1]
        Cancelled(order) == [order EXCEPT !.status = "cancelled",
                                          !.attempts = seen.attempts, !.last = seen.last]
        found == {k \in DOMAIN Loaded : Loaded[k].id = seen.id}
    IN  /\ task[p].pc = "cancel"
        /\ task' = [task EXCEPT ![p] =
               IF found = {} THEN Idle
               ELSE Saving([k \in DOMAIN Loaded |->
                        IF k \in found THEN Cancelled(Loaded[k]) ELSE Loaded[k]])]
        /\ UNCHANGED <<file, clock, landed, created, crashes, tried>>

----------------------------------------------------------------------------
(* orders evaluate (orders/evaluate.ts)                                    *)

\* Faulty variant: cancelled orders are looked at too.
OpenUnlessFilled(order) == order.status # "filled"

Open(order) == order.status = "pending"

IsExpired(order, now) == order.policy.expiresAt # None /\ order.policy.expiresAt <= now

IsInCooldown(order, now) == order.last # None /\ now - order.last < order.policy.cooldown

OutOfAttempts(order) ==
    order.policy.maxAttempts # None /\ order.attempts >= order.policy.maxAttempts

\* Faulty variant: the attempt is not logged.
Unlogged(order, now) == [order EXCEPT !.status = "pending", !.last = now]

\* Faulty variant: the status is left as it is, and may be "executing".
LeftExecuting(order, now) == [order EXCEPT !.attempts = @ + 1, !.last = now]

\* Back to pending, with an attempt in the history.
Attempted(order, now) ==
    [order EXCEPT !.status = "pending", !.attempts = @ + 1, !.last = now]

\* Faulty variant: the clone has as many fills to come as the order had.
CloneForEver(order, now) ==
    [order EXCEPT !.id = Append(@, now), !.status = "pending", !.attempts = 0, !.last = None]

\* The order to come after this one was filled.
Clone(order, now) ==
    [order EXCEPT !.id = Append(@, now), !.status = "pending", !.attempts = 0, !.last = None,
                  !.policy.remaining = IF @ = None THEN None ELSE @ - 1]

\* Faulty variant: what remains is counted down and never looked at.
RecursAlways(order) == TRUE

Recurs(order) == order.policy.remaining = None \/ order.policy.remaining > 1

\* evaluateOrders, the copy of the store it works on and the one time it goes by.
Evaluate(p, dryRun) ==
    /\ task[p].pc = "idle"
    /\ task' = [task EXCEPT ![p] = [pc |-> "check", store |-> Loaded, i |-> 1, now |-> clock,
                                    dryRun |-> dryRun, modified |-> FALSE]]
    /\ UNCHANGED <<file, clock, landed, created, crashes, tried>>

Current(p) == task[p].store[task[p].i]

Checking(p) == task[p].pc = "check" /\ task[p].i <= Len(task[p].store)

\* Faulty variant: what happened to the order is not marked to be saved.
ContinueUnsaved(p, order, more) ==
    LET t == task[p]
    IN  task' = [task EXCEPT ![p] =
            [t EXCEPT !.pc = "check", !.store = [t.store EXCEPT ![t.i] = order] \o more,
                      !.i = t.i + 1]]

\* The current order becomes `order`, `more` orders join the store and the loop goes on.
\* It gets to those as well.
Continue(p, order, more) ==
    LET t == task[p]
    IN  task' = [task EXCEPT ![p] =
            [t EXCEPT !.pc = "check", !.store = [t.store EXCEPT ![t.i] = order] \o more,
                      !.i = t.i + 1, !.modified = TRUE]]

\* Neither closed, expired, too recent nor out of attempts.
Due(p) ==
    LET order == Current(p) now == task[p].now
    IN  Open(order) /\ ~IsExpired(order, now) /\ ~IsInCooldown(order, now)
            /\ ~OutOfAttempts(order)

Skip(p) ==
    /\ Checking(p)
    /\ \/ ~Open(Current(p))
       \/ ~IsExpired(Current(p), task[p].now) /\ IsInCooldown(Current(p), task[p].now)
       \/ Due(p) /\ task[p].dryRun
    /\ task' = [task EXCEPT ![p].i = @ + 1]
    /\ UNCHANGED <<file, clock, landed, created, crashes, tried>>

Expire(p) ==
    /\ Checking(p)
    /\ Open(Current(p))
    /\ IsExpired(Current(p), task[p].now)
    /\ Continue(p, [Current(p) EXCEPT !.status = "expired"], <<>>)
    /\ UNCHANGED <<file, clock, landed, created, crashes, tried>>

\* maxAttempts reached
GiveUp(p) ==
    /\ Checking(p)
    /\ Open(Current(p))
    /\ ~IsExpired(Current(p), task[p].now)
    /\ ~IsInCooldown(Current(p), task[p].now)
    /\ OutOfAttempts(Current(p))
    /\ Continue(p, [Current(p) EXCEPT !.status = "failed", !.last = task[p].now], <<>>)
    /\ UNCHANGED <<file, clock, landed, created, crashes, tried>>

\* An attempt at the order, by an evaluation that goes by the time `now`; what the
\* process knows of it is lost if it dies.
Note(id, now) ==
    tried' = [other \in DOMAIN tried \cup {id} |->
                 IF other = id THEN [at |-> now, crashes |-> crashes] ELSE tried[other]]

\* The server cannot execute the order now, or does not answer.
Refuse(p) ==
    /\ Checking(p)
    /\ Due(p) /\ ~task[p].dryRun
    /\ Continue(p, Attempted(Current(p), task[p].now), <<>>)
    /\ Note(Current(p).id, task[p].now)
    /\ UNCHANGED <<file, clock, landed, created, crashes>>

\* The server sends a transaction.
Offer(p) ==
    LET t == task[p]
        executing == [Current(p) EXCEPT !.status = "executing"]
    IN  /\ Checking(p)
        /\ Due(p) /\ ~t.dryRun
        /\ task' = [task EXCEPT ![p] =
               [t EXCEPT !.pc = "submit", !.modified = TRUE,
                         !.store = [t.store EXCEPT ![t.i] = executing]]]
        /\ Note(Current(p).id, t.now)
        /\ UNCHANGED <<file, clock, landed, created, crashes>>

\* What is submitted may land or not, whatever the answer: the server does not look
\* at the error of a confirmed transaction, and its answer may be lost.
MayLand(p) ==
    \/ landed' = landed
    \/ landed' = landed (+) SetToBag({Current(p).id})

\* Verification fails, or submitting throws.
Fail(p) ==
    /\ task[p].pc = "submit"
    /\ MayLand(p)
    /\ Continue(p, Attempted(Current(p), task[p].now), <<>>)
    /\ UNCHANGED <<file, clock, created, crashes, tried>>

\* The server answers the submission with a txid.
Fill(p) ==
    LET filled == [Current(p) EXCEPT !.status = "filled", !.last = task[p].now]
    IN  /\ task[p].pc = "submit"
        /\ MayLand(p)
        /\ Continue(p, filled,
                    IF Recurs(filled) THEN <<Clone(filled, task[p].now)>> ELSE <<>>)
        /\ UNCHANGED <<file, clock, created, crashes, tried>>

\* The loop is over: the store is saved if anything changed.
Finish(p) ==
    /\ task[p].pc = "check"
    /\ task[p].i > Len(task[p].store)
    /\ task' = [task EXCEPT ![p] = IF @.modified THEN Saving(@.store) ELSE Idle]
    /\ UNCHANGED <<file, clock, landed, created, crashes, tried>>

----------------------------------------------------------------------------
\* The process dies, with all it has not written.
Crash(p) ==
    /\ task[p].pc # "idle"
    /\ crashes < MaxCrashes
    /\ crashes' = crashes + 1
    /\ task' = [task EXCEPT ![p] = Idle]
    /\ UNCHANGED <<file, clock, landed, created, tried>>

Tick ==
    /\ clock < MaxTime
    /\ clock' = clock + 1
    /\ UNCHANGED <<file, task, landed, created, crashes, tried>>

Proceed(p) ==
    \/ Truncate(p) \/ Write(p) \/ Cancel(p)
    \/ Skip(p) \/ Expire(p) \/ GiveUp(p) \/ Refuse(p) \/ Offer(p)
    \/ Fail(p) \/ Fill(p) \/ Finish(p)

Next ==
    \/ \E p \in Processes :
        \/ \E policy \in Policies : Create(p, policy)
        \/ \E order \in Entries(Loaded) : BeginCancel(p, order)
        \/ \E dryRun \in BOOLEAN : Evaluate(p, dryRun)
        \/ Proceed(p)
        \/ Crash(p)
    \/ Tick

\* There is always another heartbeat, whatever else the CLI is used for; a command,
\* once started, gets its answers or a timeout; time passes.
Fairness ==
    /\ \A p \in Processes : SF_vars(Evaluate(p, FALSE)) /\ WF_vars(Proceed(p))
    /\ WF_vars(Tick)

Spec == Init /\ [][Next]_vars /\ Fairness

----------------------------------------------------------------------------
(* Properties                                                              *)

Final(order) == order.status \in {"filled", "cancelled", "expired", "failed"}

\* An order that was filled, cancelled, expired or given up stays exactly as it was
\* written, whatever commands follow, as long as they do not overlap.
FinalIsFinal ==
    [][\A o \in Entries(file.orders), n \in Entries(file.orders') :
           o.id = n.id /\ Final(o) => n = o]_vars

Recorded(order) == order.attempts + (IF order.status = "filled" THEN 1 ELSE 0)

\* The executed transactions of an order.
Executed(id) == IF BagIn(id, landed) THEN landed[id] ELSE 0

\* When no command runs, the transactions an order had executed are all in its
\* history, but for one for each process that died: with maxAttempts an order spends
\* at most that many times, and once more for each crash.
SpendingRecorded ==
    (\A p \in Processes : task[p].pc = "idle") =>
        \A o \in Entries(file.orders) : Executed(o.id) <= Recorded(o) + crashes

\* A recurring order has no more clones than it had repetitions left: an order and
\* its clones are filled at most `remaining` times, however evaluations end.
FamilyWithinRemaining ==
    \A o \in Entries(file.orders) :
        Len(o.id) = 1 /\ o.policy.remaining \in Nat \ {0} =>
            Cardinality({k \in DOMAIN file.orders : file.orders[k].id[1] = o.id[1]})
                <= o.policy.remaining

\* Two attempts at an order, recorded or not, are made by evaluations that started at
\* least its cooldown apart, through any number of reads and writes of the file.  Only
\* a process that died in between lets an attempt be made too soon.
CooldownKept ==
    [][\A p \in Processes :
           (Refuse(p) \/ Offer(p)) /\ Current(p).id \in DOMAIN tried =>
               LET last == tried[Current(p).id]
               IN  \/ task[p].now - last.at >= Current(p).policy.cooldown
                   \/ crashes > last.crashes]_vars

\* An order with an expiry, and every clone of it, ends up closed, or lost with the
\* file to a crash in the middle of a write.
OrdersSettle ==
    \A n \in 1..MaxCreated :
        <>[](\A o \in Entries(Loaded) :
                 o.id[1] = n /\ o.policy.expiresAt # None => Final(o))
=============================================================================
