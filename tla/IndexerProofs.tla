--------------------------- MODULE IndexerProofs ---------------------------
(***************************************************************************)
(* Proofs about Indexer: a transaction that succeeded is told as it was,   *)
(* for any number of transfers and of requests, however these overlap,     *)
(* miss an account or are lost.                                            *)
(***************************************************************************)
EXTENDS Indexer, TLAPS

\* A request that is not sent yet has read no row, and a row that one read is still there.
RowsStay ==
    \A r \in Requests :
        /\ req[r].pc = "idle" => req[r].row = NoRow
        /\ req[r].row # NoRow => rows[req[r].key] # NoRow

\* A settlement that succeeded is how the transfer was settled, from then on.
SettledOnce ==
    \A r \in Requests :
        (/\ req[r].pc \in {"landed", "fetched", "read"} /\ req[r].ok
         /\ req[r].instruction \in Settling)
            => chain[req[r].key] = req[r].instruction

Kept == TypeOK /\ RowsStay /\ SettledOnce

----------------------------------------------------------------------------
(* Statuses                                                                *)

\* An open or a new transfer is not settled, and no terminal status is that of a
\* living transfer.
LEMMA StatusFacts ==
    /\ "new" \notin Settling /\ "open" \notin Settling /\ Creating \notin Settling
    /\ "ACTIVE" \notin Terminal /\ "PENDING" \notin Terminal
    /\ DOMAIN InstructionMap \subseteq Settling
    /\ \A i \in DOMAIN InstructionMap : InstructionMap[i] \in Terminal
<1>1. DOMAIN InstructionMap =
        {"ClaimTransfer", "CancelTransfer", "RejectTransfer", "DeclineTransfer",
         "ExpireTransfer"}
  BY DEF InstructionMap
<1>2. /\ InstructionMap["ClaimTransfer"] = "CLAIMED"
      /\ InstructionMap["CancelTransfer"] = "CANCELLED"
      /\ InstructionMap["RejectTransfer"] = "REJECTED"
      /\ InstructionMap["DeclineTransfer"] = "DECLINED"
      /\ InstructionMap["ExpireTransfer"] = "EXPIRED"
  BY DEF InstructionMap
<1>3. "ACTIVE" \notin Terminal /\ "PENDING" \notin Terminal
  BY <1>1, <1>2 DEF Terminal
<1>4. \A i \in DOMAIN InstructionMap : InstructionMap[i] \in Terminal
  BY DEF Terminal
<1> QED
  BY <1>1, <1>3, <1>4 DEF Settling, Creating

\* What is known of a request.
LEMMA RequestTypes ==
    ASSUME Kept, NEW r \in Requests
    PROVE  /\ req \in [Requests -> Request] /\ req[r] \in Request
           /\ req[r].key \in Keys /\ req[r].instruction \in Instructions
           /\ req[r].ok \in BOOLEAN /\ req[r].found \in BOOLEAN
           /\ req[r].row \in Row \cup {NoRow}
           /\ chain \in [Keys -> {"new", "open"} \cup Settling]
           /\ rows \in [Keys -> Row \cup {NoRow}]
  BY DEF Kept, TypeOK, Request

\* A step of request r that leaves rows and chain alone.
LEMMA RequestStep ==
    ASSUME Kept, NEW r \in Requests, NEW q \in Request, req' = [req EXCEPT ![r] = q],
           UNCHANGED <<chain, rows>>,
           q.pc = "idle" => q.row = NoRow,
           q.row # NoRow => rows[q.key] # NoRow,
           q.pc \in {"landed", "fetched", "read"} /\ q.ok /\ q.instruction \in Settling
               => chain[q.key] = q.instruction
    PROVE  Kept'
<1>1. \A x \in Requests : req'[x] = IF x = r THEN q ELSE req[x]
  BY DEF Kept, TypeOK
<1>2. TypeOK'
  BY DEF Kept, TypeOK
<1>3. RowsStay'
  BY <1>1 DEF Kept, RowsStay
<1>4. SettledOnce'
  BY <1>1 DEF Kept, SettledOnce
<1> QED
  BY <1>2, <1>3, <1>4 DEF Kept

\* What is settled stays as it was settled, whoever sends what.
LEMMA ChainMoves ==
    ASSUME Kept, NEW k \in Keys, NEW i \in Instructions, Applies(k, i)
    PROVE  /\ [chain EXCEPT ![k] = After(i)] \in [Keys -> {"new", "open"} \cup Settling]
           /\ chain[k] \notin Settling
  BY StatusFacts DEF Kept, TypeOK, Applies, After, Instructions

LEMMA ElsewhereKeeps ==
    ASSUME Kept, NEW k \in Keys, NEW i \in Instructions, Elsewhere(k, i)
    PROVE  Kept'
<1>1. /\ chain' = [chain EXCEPT ![k] = After(i)] /\ Applies(k, i)
      /\ rows' = rows /\ req' = req
  BY DEF Elsewhere
<1>2. chain' \in [Keys -> {"new", "open"} \cup Settling] /\ chain[k] \notin Settling
  BY <1>1, ChainMoves
<1>3. TypeOK' /\ RowsStay'
  BY <1>1, <1>2 DEF Kept, TypeOK, RowsStay
<1>4. \A x \in Keys : chain[x] \in Settling => chain'[x] = chain[x]
  BY <1>1, <1>2 DEF Kept, TypeOK
<1>5. SettledOnce'
  BY <1>1, <1>4, RequestTypes DEF Kept, SettledOnce
<1> QED
  BY <1>3, <1>5 DEF Kept

LEMMA BuildKeeps ==
    ASSUME Kept, NEW k \in Keys, Build(k)
    PROVE  Kept'
<1> DEFINE row == [status |-> "PENDING", createTxid |-> NoTx]
<1>1. rows' = [rows EXCEPT ![k] = row] /\ UNCHANGED <<chain, req>>
  BY DEF Build
<1>2. row \in Row /\ row # NoRow
  BY RowAssumption DEF Row
<1> HIDE DEF row
<1>3. TypeOK'
  BY <1>1, <1>2 DEF Kept, TypeOK
<1>4. \A x \in Keys : rows[x] # NoRow => rows'[x] # NoRow
  BY <1>1, <1>2 DEF Kept, TypeOK
<1>5. RowsStay' /\ SettledOnce'
  BY <1>1, <1>4, RequestTypes DEF Kept, RowsStay, SettledOnce
<1> QED
  BY <1>3, <1>5 DEF Kept

LEMMA SendKeeps ==
    ASSUME Kept, NEW r \in Requests, NEW k \in Keys, NEW i \in Instructions, Send(r, k, i)
    PROVE  Kept'
<1> DEFINE q == [req[r] EXCEPT !.pc = "sent", !.key = k, !.instruction = i]
<1>1. /\ req' = [req EXCEPT ![r] = q] /\ UNCHANGED <<chain, rows>> /\ req[r].pc = "idle"
  BY RequestTypes DEF Send
<1>2. q \in Request /\ q.pc = "sent" /\ q.row = req[r].row
  BY RequestTypes DEF Request
<1>3. q.row = NoRow
  BY <1>1, <1>2 DEF Kept, RowsStay
<1> HIDE DEF q
<1> QED
  BY <1>1, <1>2, <1>3, RequestStep

LEMMA LandKeeps ==
    ASSUME Kept, NEW r \in Requests, Land(r)
    PROVE  Kept'
<1> PICK k \in Keys, i \in Instructions : k = req[r].key /\ i = req[r].instruction
  BY RequestTypes
<1>1. PICK ok \in BOOLEAN :
        /\ ok => Applies(k, i)
        /\ req' = [req EXCEPT ![r].pc = "landed", ![r].ok = ok]
        /\ chain' = [chain EXCEPT ![k] = IF ok THEN After(i) ELSE @]
  BY DEF Land
<1> DEFINE q == [req[r] EXCEPT !.pc = "landed", !.ok = ok]
<1>2. req' = [req EXCEPT ![r] = q] /\ rows' = rows /\ req[r].pc = "sent"
  BY <1>1, RequestTypes DEF Land
<1>3. /\ q \in Request /\ q.pc = "landed" /\ q.ok = ok /\ q.row = req[r].row
      /\ q.key = k /\ q.instruction = i
  BY RequestTypes DEF Request
<1> HIDE DEF q
<1>4. \A x \in Requests : req'[x] = IF x = r THEN q ELSE req[x]
  BY <1>2, RequestTypes
<1>5. /\ chain' \in [Keys -> {"new", "open"} \cup Settling]
      /\ \A x \in Keys : chain[x] \in Settling => chain'[x] = chain[x]
      /\ ok => chain'[k] = After(i)
  <2>1. CASE ok
    BY <1>1, <2>1, ChainMoves, RequestTypes
  <2>2. CASE ~ok
    BY <1>1, <2>2, RequestTypes
  <2> QED
    BY <2>1, <2>2
<1>6. TypeOK'
  BY <1>2, <1>3, <1>5, RequestTypes DEF Kept, TypeOK
<1>7. RowsStay'
  BY <1>2, <1>3, <1>4 DEF Kept, RowsStay
<1>8. i \in Settling => After(i) = i
  BY StatusFacts DEF After
<1>9. SettledOnce'
  <2> SUFFICES ASSUME NEW x \in Requests, req'[x].pc \in {"landed", "fetched", "read"},
                      req'[x].ok, req'[x].instruction \in Settling
               PROVE  chain'[req'[x].key] = req'[x].instruction
    BY DEF SettledOnce
  <2>1. CASE x = r
    BY <1>3, <1>4, <1>5, <1>8, <2>1
  <2>2. CASE x # r
    <3>1. chain[req[x].key] = req[x].instruction /\ req'[x] = req[x]
      BY <1>4, <2>2 DEF Kept, SettledOnce
    <3> QED
      BY <1>5, <3>1, RequestTypes
  <2> QED
    BY <2>1, <2>2
<1> QED
  BY <1>6, <1>7, <1>9 DEF Kept

LEMMA FetchKeeps ==
    ASSUME Kept, NEW r \in Requests, Fetch(r)
    PROVE  Kept'
<1>1. PICK missed \in BOOLEAN :
        req' = [req EXCEPT ![r].pc = "fetched", ![r].missed = missed,
                           ![r].found = ~missed /\ chain[req[r].key] = "open"]
  BY DEF Fetch
<1> DEFINE found == ~missed /\ chain[req[r].key] = "open"
           q == [req[r] EXCEPT !.pc = "fetched", !.missed = missed, !.found = found]
<1>2. req' = [req EXCEPT ![r] = q] /\ UNCHANGED <<chain, rows>> /\ req[r].pc = "landed"
  BY <1>1, RequestTypes DEF Fetch
<1>3. found \in BOOLEAN
  OBVIOUS
<1> HIDE DEF found
<1>4. /\ q \in Request /\ q.pc = "fetched" /\ q.ok = req[r].ok /\ q.row = req[r].row
      /\ q.key = req[r].key /\ q.instruction = req[r].instruction
  BY <1>3, RequestTypes DEF Request
<1> HIDE DEF q
<1>5. /\ q.row # NoRow => rows[q.key] # NoRow
      /\ q.pc \in {"landed", "fetched", "read"} /\ q.ok /\ q.instruction \in Settling
           => chain[q.key] = q.instruction
  BY <1>2, <1>4 DEF Kept, RowsStay, SettledOnce
<1> QED
  BY <1>2, <1>4, <1>5, RequestStep

LEMMA ReadKeeps ==
    ASSUME Kept, NEW r \in Requests, Read(r)
    PROVE  Kept'
<1> DEFINE q == [req[r] EXCEPT !.pc = "read", !.row = rows[req[r].key]]
<1>1. req' = [req EXCEPT ![r] = q] /\ UNCHANGED <<chain, rows>> /\ req[r].pc = "fetched"
  BY RequestTypes DEF Read
<1>2. /\ q \in Request /\ q.pc = "read" /\ q.ok = req[r].ok
      /\ q.row = rows[req[r].key]
      /\ q.key = req[r].key /\ q.instruction = req[r].instruction
  BY RequestTypes DEF Request
<1> HIDE DEF q
<1>3. q.pc \in {"landed", "fetched", "read"} /\ q.ok /\ q.instruction \in Settling
           => chain[q.key] = q.instruction
  BY <1>1, <1>2 DEF Kept, SettledOnce
<1> QED
  BY <1>1, <1>2, <1>3, RequestStep

LEMMA LoseKeeps ==
    ASSUME Kept, NEW r \in Requests, Lose(r)
    PROVE  Kept'
<1> DEFINE q == [req[r] EXCEPT !.pc = "lost"]
<1>1. req' = [req EXCEPT ![r] = q] /\ UNCHANGED <<chain, rows>>
  BY RequestTypes DEF Lose
<1>2. q \in Request /\ q.pc = "lost" /\ q.row = req[r].row /\ q.key = req[r].key
  BY RequestTypes DEF Request
<1> HIDE DEF q
<1>3. q.row # NoRow => rows[q.key] # NoRow
  BY <1>2 DEF Kept, RowsStay
<1> QED
  BY <1>1, <1>2, <1>3, RequestStep

\* What a flush makes of the row: of its status only what the account or the logs tell.
LEMMA WrittenRow ==
    ASSUME Kept, NEW r \in Requests, Write(r)
    PROVE  /\ rows' = [rows EXCEPT ![req[r].key] = rows'[req[r].key]]
           /\ rows'[req[r].key] \in Row \cup {NoRow}
           /\ rows[req[r].key] # NoRow => rows'[req[r].key] # NoRow
           /\ rows'[req[r].key] # NoRow =>
                \/ rows'[req[r].key].status = "ACTIVE"
                \/ /\ rows[req[r].key] # NoRow
                   /\ rows'[req[r].key].status = rows[req[r].key].status
                \/ /\ req[r].instruction \in DOMAIN InstructionMap
                   /\ rows'[req[r].key].status = InstructionMap[req[r].instruction]
<1> PICK k \in Keys, row \in Row \cup {NoRow} : k = req[r].key /\ row = req[r].row
  BY RequestTypes
<1> PICK current \in Row \cup {NoRow} : current = rows[k]
  BY RequestTypes
<1> DEFINE new == IF row # NoRow THEN Updated(r, current)
                  ELSE IF current = NoRow /\ req[r].found
                  THEN [status |-> "ACTIVE", createTxid |-> r]
                  ELSE current
<1>1. rows' = [rows EXCEPT ![k] = new]
  BY DEF Write
<1>2. /\ new \in Row \cup {NoRow}
      /\ current # NoRow => new # NoRow
      /\ new # NoRow =>
           \/ new.status = "ACTIVE"
           \/ current # NoRow /\ new.status = current.status
           \/ /\ req[r].instruction \in DOMAIN InstructionMap
              /\ new.status = InstructionMap[req[r].instruction]
  <2>1. CASE row # NoRow
    <3>1. current # NoRow
      BY <2>1 DEF Kept, RowsStay
    <3>2. row \in Row /\ current \in Row
      BY <2>1, <3>1
    <3>3. /\ row.status \in {"PENDING", "ACTIVE"} \cup Terminal
          /\ current.status \in {"PENDING", "ACTIVE"} \cup Terminal
          /\ current.createTxid \in Requests \cup {NoTx}
      BY <3>2 DEF Row
    <3>4. \/ NewStatus(r) = "ACTIVE"
          \/ NewStatus(r) = row.status
          \/ /\ req[r].instruction \in DOMAIN InstructionMap
             /\ NewStatus(r) = InstructionMap[req[r].instruction]
      BY RequestTypes DEF NewStatus
    <3>5. NewStatus(r) \in {"PENDING", "ACTIVE"} \cup Terminal
      BY <3>3, <3>4, StatusFacts
    <3> DEFINE status == IF NewStatus(r) # row.status THEN NewStatus(r) ELSE current.status
               txid == IF req[r].found /\ row.createTxid = NoTx THEN r ELSE current.createTxid
    <3>6. new = [status |-> status, createTxid |-> txid]
      BY <2>1 DEF Updated
    <3>7. status \in {"PENDING", "ACTIVE"} \cup Terminal /\ txid \in Requests \cup {NoTx}
      BY <3>3, <3>5
    <3>8. \/ status = "ACTIVE"
          \/ status = current.status
          \/ /\ req[r].instruction \in DOMAIN InstructionMap
             /\ status = InstructionMap[req[r].instruction]
      BY <3>4
    <3> HIDE DEF status, txid
    <3>9. new \in Row /\ new.status = status
      BY <3>6, <3>7 DEF Row
    <3> HIDE DEF new
    <3> QED
      BY <3>1, <3>8, <3>9, RowAssumption
  <2>2. CASE row = NoRow /\ current = NoRow /\ req[r].found
    <3>1. new = [status |-> "ACTIVE", createTxid |-> r]
      BY <2>2
    <3>2. new \in Row /\ new.status = "ACTIVE"
      BY <3>1 DEF Row
    <3> HIDE DEF new
    <3> QED
      BY <2>2, <3>2
  <2>3. CASE row = NoRow /\ ~(current = NoRow /\ req[r].found)
    BY <2>3
  <2> QED
    BY <2>1, <2>2, <2>3
<1> HIDE DEF new
<1>3. rows'[k] = new /\ rows' = [rows EXCEPT ![k] = rows'[k]]
  BY <1>1, RequestTypes
<1> QED
  BY <1>2, <1>3

LEMMA WriteKeeps ==
    ASSUME Kept, NEW r \in Requests, Write(r)
    PROVE  Kept'
<1> DEFINE q == [req[r] EXCEPT !.pc = "done"]
<1>1. req' = [req EXCEPT ![r] = q] /\ chain' = chain
  BY RequestTypes DEF Write
<1>2. /\ q \in Request /\ q.pc = "done" /\ q.row = req[r].row /\ q.key = req[r].key
  BY RequestTypes DEF Request
<1> HIDE DEF q
<1>3. \A x \in Requests : req'[x] = IF x = r THEN q ELSE req[x]
  BY <1>1, RequestTypes
<1>4. /\ rows' \in [Keys -> Row \cup {NoRow}]
      /\ \A x \in Keys : rows[x] # NoRow => rows'[x] # NoRow
  <2>1. /\ rows' = [rows EXCEPT ![req[r].key] = rows'[req[r].key]]
        /\ rows'[req[r].key] \in Row \cup {NoRow}
        /\ rows[req[r].key] # NoRow => rows'[req[r].key] # NoRow
    BY WrittenRow
  <2> QED
    BY <2>1, RequestTypes
<1>5. TypeOK'
  BY <1>1, <1>2, <1>4, RequestTypes DEF Kept, TypeOK
<1>6. RowsStay'
  BY <1>2, <1>3, <1>4, RequestTypes DEF Kept, RowsStay
<1>7. SettledOnce'
  BY <1>1, <1>2, <1>3 DEF Kept, SettledOnce
<1> QED
  BY <1>5, <1>6, <1>7 DEF Kept

LEMMA NextKeeps == Kept /\ [Next]_vars => Kept'
<1>1. ASSUME Kept, UNCHANGED vars
      PROVE  Kept'
  BY <1>1 DEF vars, Kept, TypeOK, RowsStay, SettledOnce
<1>2. ASSUME Kept, Next
      PROVE  Kept'
  BY <1>2, ElsewhereKeeps, BuildKeeps, SendKeeps, LandKeeps, FetchKeeps, ReadKeeps,
     WriteKeeps, LoseKeeps DEF Next, Proceed
<1> QED
  BY <1>1, <1>2

LEMMA KeptAtFirst == Init => Kept
<1> SUFFICES ASSUME Init PROVE Kept
  OBVIOUS
<1>1. ASSUME NEW r \in Requests
      PROVE  req[r] \in Request /\ req[r].pc = "idle" /\ req[r].row = NoRow
  <2>1. PICK k \in Keys :
          req[r] = [pc |-> "idle", key |-> k, instruction |-> Creating,
                    ok |-> FALSE, missed |-> FALSE, found |-> FALSE, row |-> NoRow]
    BY DEF Init
  <2> QED
    BY <2>1 DEF Request, Instructions
<1>2. req \in [Requests -> Request]
  BY <1>1 DEF Init
<1>3. TypeOK
  BY <1>2 DEF Init, TypeOK
<1> QED
  BY <1>1, <1>3 DEF Kept, RowsStay, SettledOnce

THEOREM AlwaysKept == Spec => []Kept
  BY KeptAtFirst, NextKeeps, PTL DEF Spec

\* The state keeps its type: an update always finds the row it was made for.
THEOREM TypeAlwaysOK == Spec => []TypeOK
  BY AlwaysKept, PTL DEF Kept

----------------------------------------------------------------------------
(* What the database is told                                               *)

\* In one step: a row gets a terminal status only from the instruction of the request
\* that writes it, and one that succeeded is how the transfer was settled.
LEMMA StepTells ==
    ASSUME Kept, Next, NEW k \in Keys, Closed(k)', ~Told(k)',
           rows[k] = NoRow \/ rows[k].status # rows'[k].status
    PROVE  \E r \in Requests :
               req[r].key = k /\ ~req[r].ok /\ req[r].pc = "read" /\ req'[r].pc = "done"
<1>1. rows'[k] # NoRow /\ rows'[k].status \in Terminal
  BY DEF Closed
<1>2. rows' # rows
  BY <1>1
<1>3. ASSUME NEW x \in Keys, Build(x)
      PROVE  FALSE
  <2>1. rows' = [rows EXCEPT ![x] = [status |-> "PENDING", createTxid |-> NoTx]]
    BY <1>3 DEF Build
  <2>2. rows'[k].status = "PENDING" \/ rows'[k] = rows[k]
    BY <2>1 DEF Kept, TypeOK
  <2> QED
    BY <1>1, <2>2, StatusFacts
<1>4. PICK r \in Requests : Write(r)
  BY <1>2, <1>3 DEF Next, Elsewhere, Send, Land, Proceed, Fetch, Read, Lose
<1>5. req[r].pc = "read" /\ req'[r].pc = "done" /\ chain' = chain
  BY <1>4, RequestTypes DEF Write, Request
<1>6. rows' = [rows EXCEPT ![req[r].key] = rows'[req[r].key]]
  BY <1>4, WrittenRow
<1>7. req[r].key = k
  <2>1. req[r].key # k => rows'[k] = rows[k]
    BY <1>6, RequestTypes
  <2> QED
    BY <1>1, <2>1
<1>8. /\ req[r].instruction \in DOMAIN InstructionMap
      /\ rows'[k].status = InstructionMap[req[r].instruction]
  BY <1>1, <1>4, <1>7, WrittenRow, StatusFacts
<1>9. ~req[r].ok
  <2> SUFFICES ASSUME req[r].ok PROVE FALSE
    OBVIOUS
  <2>1. chain[k] = req[r].instruction
    BY <1>5, <1>7, <1>8, StatusFacts DEF Kept, SettledOnce
  <2> QED
    BY <1>5, <1>8, <2>1 DEF Told
<1> QED
  BY <1>5, <1>7, <1>9

\* A row gets a terminal status that is not how its transfer was settled only when a
\* transaction that failed on chain is indexed, for any number of transfers and of
\* requests, in whatever order the awaits of submitSignedTx resolve.
THEOREM SuccessIsToldAsItWas == Spec => OnlyFailedMisreport
<1>1. Kept /\ [Next]_vars =>
        [\A k \in Keys :
            (/\ Closed(k)' /\ ~Told(k)'
             /\ rows[k] = NoRow \/ rows[k].status # rows'[k].status)
                => \E r \in Requests :
                       req[r].key = k /\ ~req[r].ok /\ req[r].pc = "read"
                           /\ req'[r].pc = "done"]_vars
  BY StepTells
<1> QED
  BY <1>1, AlwaysKept, PTL DEF Spec, OnlyFailedMisreport
=============================================================================
