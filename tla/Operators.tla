----------------------------- MODULE Operators -----------------------------
(***************************************************************************)
(* How the backend mirrors a Silk account and its operators into its       *)
(* database (apps/backend/src/api/service/account.service.ts).             *)
(*                                                                         *)
(* After a transaction is confirmed, indexSilkysigTx reads the account as  *)
(* it is by then and guesses from its slots which operator came or went.   *)
(* Every await lets the chain and other requests move on.  One account:    *)
(* the address is the owner's, so it is the same when the account is       *)
(* created again.  Limits and the log of events are left out.              *)
(***************************************************************************)
EXTENDS Integers, Sequences, FiniteSets

CONSTANTS
    Wallets,        \* who may be an operator
    MaxOperators,   \* slots of an account
    Requests,       \* POST /api/tx/submit requests that may overlap
    None            \* no account, no row, no operator

VARIABLES
    chain,          \* the used slots of the account, in order, or None
    status,         \* the status of the SilkAccount row, or None
    operators,      \* the SilkAccountOperator rows
    req,            \* the progress of each request
    orderly         \* history: since the account was closed, every transaction was indexed
                    \* before the next was executed

vars == <<chain, status, operators, req, orderly>>

\* create_account may bring the first operator along; "Other" are the instructions
\* that leave the slots alone.
Instruction ==
    [kind : {"CreateAccount"}, operator : Wallets \cup {None}]
        \cup [kind : {"AddOperator", "RemoveOperator"}, operator : Wallets]
        \cup [kind : {"CloseAccount", "Other"}, operator : {None}]

Slots == UNION {[1..n -> Wallets] : n \in 0..MaxOperators}

\* A row is told apart from a later one for the same operator by its id.
OperatorRow == [operator : Wallets, id : 1..(Cardinality(Requests) + 1)]

\* pc: "idle", "sent", "landed" (confirmed), "fetched" (account read), "located" (its
\* row read), "read" (the rows of its operators read).
Request ==
    [pc : {"idle", "sent", "landed", "fetched", "located", "read"},
     instruction : Instruction, found : Slots \cup {None},
     row : {"ACTIVE", "CLOSED", None}, seen : SUBSET OperatorRow]

Idle == [pc |-> "idle", instruction |-> [kind |-> "Other", operator |-> None],
         found |-> None, row |-> None, seen |-> {}]

ASSUME ConstantsAssumption ==
    /\ MaxOperators \in Nat \ {0}
    /\ IsFiniteSet(Requests)
    /\ None \notin Wallets \cup Slots \cup {"ACTIVE", "CLOSED"}

TypeOK ==
    /\ chain \in Slots \cup {None}
    /\ status \in {"ACTIVE", "CLOSED", None}
    /\ operators \subseteq OperatorRow
    /\ req \in [Requests -> Request]
    /\ orderly \in BOOLEAN

Init ==
    /\ chain = None
    /\ status = None
    /\ operators = {}
    /\ req = [r \in Requests |-> Idle]
    /\ orderly = TRUE

Used(slots) == {slots[k] : k \in DOMAIN slots}

Indexing(r) == req[r].pc \in {"landed", "fetched", "located", "read"}

----------------------------------------------------------------------------
(* The chain                                                               *)

\* The instruction succeeds on the account as it is.
Applies(i) ==
    CASE i.kind = "CreateAccount" -> chain = None
      [] i.kind = "AddOperator" ->
             /\ chain # None
             /\ Len(chain) < MaxOperators
             /\ i.operator \notin Used(chain)
      [] i.kind = "RemoveOperator" -> chain # None /\ i.operator \in Used(chain)
      [] OTHER -> chain # None

\* Removing moves the last slot into the one that is freed.
Without(slots, w) ==
    [k \in 1..(Len(slots) - 1) |-> IF slots[k] = w THEN slots[Len(slots)] ELSE slots[k]]

After(i) ==
    CASE i.kind = "CreateAccount" -> IF i.operator = None THEN <<>> ELSE <<i.operator>>
      [] i.kind = "AddOperator" -> Append(chain, i.operator)
      [] i.kind = "RemoveOperator" -> Without(chain, i.operator)
      [] i.kind = "CloseAccount" -> None
      [] OTHER -> chain

----------------------------------------------------------------------------
(* A request                                                               *)

\* submitSignedTx: preflight refuses what does not apply now.
Send(r, i) ==
    /\ req[r].pc = "idle"
    /\ Applies(i)
    /\ req' = [req EXCEPT ![r].pc = "sent", ![r].instruction = i]
    /\ UNCHANGED <<chain, status, operators, orderly>>

\* Executed and confirmed; by now it may fail, which nobody looks at.  A failed close
\* is taken for a close, so it is not orderly; a close makes up for all that was not.
Land(r) ==
    /\ req[r].pc = "sent"
    /\ req' = [req EXCEPT ![r].pc = "landed"]
    /\ \E ok \in BOOLEAN :
        /\ ok => Applies(req[r].instruction)
        /\ chain' = IF ok THEN After(req[r].instruction) ELSE chain
        /\ orderly' = (/\ \A q \in Requests : ~Indexing(q)
                       /\ IF req[r].instruction.kind = "CloseAccount" THEN ok ELSE orderly)
    /\ UNCHANGED <<status, operators>>

\* fetchAccount, for each account of the transaction: one that is gone and a call
\* that fails look the same.
Fetch(r) ==
    /\ req[r].pc = "landed"
    /\ \E missed \in BOOLEAN :
        /\ req' = [req EXCEPT ![r].pc = "fetched", ![r].found = IF missed THEN None ELSE chain]
        /\ orderly' = (orderly /\ (missed => chain = None))
    /\ UNCHANGED <<chain, status, operators>>

\* Nothing to index: no account, and no row that a close would need.
NothingThere(r) ==
    req[r].found = None /\ (req[r].instruction.kind # "CloseAccount" \/ status = None)

\* findOne on the SilkAccount table
Locate(r) ==
    /\ req[r].pc = "fetched"
    /\ req' = [req EXCEPT ![r] = IF NothingThere(r) THEN Idle
                                 ELSE [@ EXCEPT !.pc = "located", !.row = status]]
    /\ UNCHANGED <<chain, status, operators, orderly>>

\* find and findOne on the SilkAccountOperator table; a row of the account that is not
\* saved yet has none.
ReadOperators(r) ==
    /\ req[r].pc = "located"
    /\ req' = [req EXCEPT ![r].pc = "read",
                          ![r].seen = IF req[r].row = None THEN {} ELSE operators]
    /\ UNCHANGED <<chain, status, operators, orderly>>

\* Faulty variant: one too far, the empty slot after the last used one, which has no
\* operator.
EmptySlot(slots) == IF Len(slots) = MaxOperators THEN {} ELSE {None}

\* findNewOperator: the last used slot.
NewOperator(slots) == IF slots = <<>> THEN {} ELSE {slots[Len(slots)]}

\* Faulty variant: any row is taken for the removed one.
AnyRow(seen, slots) == seen

\* findRemovedOperator: one of the rows whose operator has no slot.
RemovedRows(seen, slots) == {x \in seen : x.operator \notin Used(slots)}

\* The operators to insert: the newest, or all of a new account, without those that
\* have a row.
Inserts(r) ==
    LET i == req[r].instruction
        candidates == CASE i.kind = "AddOperator" -> NewOperator(req[r].found)
                        [] i.kind = "CreateAccount" -> Used(req[r].found)
                        [] OTHER -> {}
    IN  IF req[r].found = None THEN {}
        ELSE candidates \ {x.operator : x \in req[r].seen}

\* The sets of rows that may be deleted: all on a close, one on a removal.
Deletes(r) ==
    CASE req[r].instruction.kind = "CloseAccount" -> {req[r].seen}
      [] req[r].instruction.kind = "RemoveOperator" /\ req[r].found # None ->
             LET removed == RemovedRows(req[r].seen, req[r].found)
             IN  IF removed = {} THEN {{}} ELSE {{x} : x \in removed}
      [] OTHER -> {{}}

\* The status the row gets; a new row is active.
NewStatus(r) ==
    CASE req[r].instruction.kind = "CreateAccount" -> "ACTIVE"
      [] req[r].instruction.kind = "CloseAccount" -> "CLOSED"
      [] OTHER -> IF req[r].row = None THEN "ACTIVE" ELSE req[r].row

\* An id no row of the operator has, nor one some request still holds.
FreshRow(w) ==
    LET held == operators \cup UNION {req[q].seen : q \in Requests}
    IN  [operator |-> w,
         id |-> CHOOSE n \in 1..(Cardinality(Requests) + 1) : [operator |-> w, id |-> n] \notin held]

\* The unique address of an account and the unique operator of an account.
Conflicts(r) ==
    \/ req[r].row = None /\ status # None
    \/ \E x \in operators : x.operator \in Inserts(r)

\* flush: all in one transaction, and of the status only a change against what was
\* read.  A conflict fails it, which is logged.
Flush(r) ==
    /\ req[r].pc = "read"
    /\ req' = [req EXCEPT ![r] = Idle]
    /\ \/ /\ Conflicts(r)
          /\ UNCHANGED <<status, operators>>
       \/ /\ ~Conflicts(r)
          /\ status' = IF NewStatus(r) # req[r].row THEN NewStatus(r) ELSE status
          /\ \E gone \in Deletes(r) :
                operators' = (operators \ gone) \cup {FreshRow(w) : w \in Inserts(r)}
    /\ UNCHANGED <<chain, orderly>>

\* An error or a restart: nothing retries.
Lose(r) ==
    /\ req[r].pc # "idle"
    /\ req' = [req EXCEPT ![r] = Idle]
    /\ orderly' = (orderly /\ ~Indexing(r))
    /\ UNCHANGED <<chain, status, operators>>

\* The owner uses the program without this backend.
Elsewhere(i) ==
    /\ Applies(i)
    /\ chain' = After(i)
    /\ orderly' = (orderly /\ chain' = chain)
    /\ UNCHANGED <<status, operators, req>>

----------------------------------------------------------------------------
Next ==
    \/ \E i \in Instruction : Elsewhere(i)
    \/ \E r \in Requests :
        \/ \E i \in Instruction : Send(r, i)
        \/ Land(r) \/ Fetch(r) \/ Locate(r) \/ ReadOperators(r) \/ Flush(r) \/ Lose(r)

Spec == Init /\ [][Next]_vars

----------------------------------------------------------------------------
(* Properties                                                              *)

\* As long as every instruction is indexed before the next one executes, none is lost
\* and no close fails, the rows are those of the account, through any additions,
\* removals, failed transactions, closings and re-creations: the guesses from the slots
\* are right.  Whatever overlapped or was lost before, one close indexed on its own
\* leaves nothing of it behind.
MirrorExact ==
    orderly /\ (\A r \in Requests : ~Indexing(r)) =>
        /\ chain = None <=> status # "ACTIVE"
        /\ {x.operator : x \in operators} = (IF chain = None THEN {} ELSE Used(chain))
=============================================================================
