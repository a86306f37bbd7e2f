------------------------------ MODULE Indexer ------------------------------
(***************************************************************************)
(* How the backend mirrors transfers into its database                     *)
(* (apps/backend/src/api/service/tx.service.ts).                           *)
(*                                                                         *)
(* A request to submit a signed transaction sends it, waits for it to be   *)
(* confirmed and then indexes it: it reads back the logs, the transfer     *)
(* account and the row of the transfer, and writes the row.  Every await   *)
(* lets the chain and the other requests move on, so each of these reads   *)
(* is a step of its own.  What the chain does with a transfer is reduced   *)
(* to what the indexer can see: it is created once and settled once.       *)
(***************************************************************************)
EXTENDS Integers

CONSTANTS
    Keys,           \* transfer PDAs
    Requests,       \* POST /api/tx/submit requests
    NoRow,          \* a PDA with no row in the Transfer table
    NoTx            \* a transaction id not recorded

VARIABLES
    chain,          \* of each PDA: "new", "open", or the instruction that settled it
    rows,           \* the Transfer row of each PDA
    req             \* the progress of each request

vars == <<chain, rows, req>>

Creating == "CreateTransfer"

\* The settling instructions of the program and, for those parseTerminalStatus
\* knows, the status they set.
InstructionMap ==
    [ClaimTransfer |-> "CLAIMED", CancelTransfer |-> "CANCELLED",
     RejectTransfer |-> "REJECTED", DeclineTransfer |-> "DECLINED",
     ExpireTransfer |-> "EXPIRED"]

Settling == DOMAIN InstructionMap \cup {"DestroyTransfer"}

Instructions == {Creating} \cup Settling

Terminal == {InstructionMap[i] : i \in DOMAIN InstructionMap}

Row ==
    [status : {"PENDING", "ACTIVE"} \cup Terminal, createTxid : Requests \cup {NoTx}]

\* No row is the value that stands for none.
ASSUME RowAssumption == NoRow \notin Row

\* pc: "idle", "sent" (accepted by a validator), "landed" (confirmed), "fetched"
\* (account read), "read" (row read), "done", or "lost" to an error or a restart.
Request ==
    [pc : {"idle", "sent", "landed", "fetched", "read", "done", "lost"},
     key : Keys, instruction : Instructions,
     ok : BOOLEAN,          \* whether the transaction succeeded
     missed : BOOLEAN,      \* whether reading the transfer account failed
     found : BOOLEAN,       \* whether the transfer account seemed to be there
     row : Row \cup {NoRow}]    \* the row as it was read

TypeOK ==
    /\ chain \in [Keys -> {"new", "open"} \cup Settling]
    /\ rows \in [Keys -> Row \cup {NoRow}]
    /\ req \in [Requests -> Request]

Init ==
    /\ chain = [k \in Keys |-> "new"]
    /\ rows = [k \in Keys |-> NoRow]
    /\ req \in [Requests ->
           {[pc |-> "idle", key |-> k, instruction |-> Creating,
             ok |-> FALSE, missed |-> FALSE, found |-> FALSE, row |-> NoRow] : k \in Keys}]

----------------------------------------------------------------------------
(* The chain                                                               *)

\* The instruction applies to the transfer as it is.
Applies(k, i) ==
    IF i = Creating THEN chain[k] = "new" ELSE chain[k] = "open"

After(i) == IF i = Creating THEN "open" ELSE i

\* Someone settles or creates a transfer without this backend.
Elsewhere(k, i) ==
    /\ Applies(k, i)
    /\ chain' = [chain EXCEPT ![k] = After(i)]
    /\ UNCHANGED <<rows, req>>

----------------------------------------------------------------------------
(* A request                                                               *)

\* buildCreateTransfer: a new nonce, so a new PDA; the row is there before the
\* transaction is signed.
Build(k) ==
    /\ rows[k] = NoRow
    /\ chain[k] = "new"
    /\ rows' = [rows EXCEPT ![k] = [status |-> "PENDING", createTxid |-> NoTx]]
    /\ UNCHANGED <<chain, req>>

\* submitSignedTx up to the send: the preflight simulation refuses what does not
\* apply now.
Send(r, k, i) ==
    /\ req[r].pc = "idle"
    /\ Applies(k, i)
    /\ req' = [req EXCEPT ![r].pc = "sent", ![r].key = k, ![r].instruction = i]
    /\ UNCHANGED <<chain, rows>>

\* The transaction is executed and confirmed.  It may fail by then, since another
\* was faster or the claim window is over: the error in the result of
\* confirmTransaction is not looked at.
Land(r) ==
    LET k == req[r].key
        i == req[r].instruction
    IN  /\ req[r].pc = "sent"
        /\ \E ok \in BOOLEAN :
            /\ ok => Applies(k, i)
            /\ req' = [req EXCEPT ![r].pc = "landed", ![r].ok = ok]
            /\ chain' = [chain EXCEPT ![k] = IF ok THEN After(i) ELSE @]
        /\ UNCHANGED rows

\* indexFromTx: fetchTransfer answers null when the account is gone and also when
\* the call fails.
Fetch(r) ==
    /\ req[r].pc = "landed"
    /\ \E missed \in BOOLEAN :
        req' = [req EXCEPT ![r].pc = "fetched", ![r].missed = missed,
                           ![r].found = ~missed /\ chain[req[r].key] = "open"]
    /\ UNCHANGED <<chain, rows>>

\* findOne on the Transfer table, in upsertTransfer or for a terminal status.
Read(r) ==
    /\ req[r].pc = "fetched"
    /\ req' = [req EXCEPT ![r].pc = "read", ![r].row = rows[req[r].key]]
    /\ UNCHANGED <<chain, rows>>

\* Faulty variant: the row takes the name of the instruction for its status.
WriteInstruction(r) ==
    IF req[r].found THEN "ACTIVE" ELSE req[r].instruction

\* Faulty variant: a transfer that is gone counts as claimed.
WriteClaimed(r) ==
    CASE req[r].found -> "ACTIVE"
      [] ~req[r].found /\ req[r].instruction \in DOMAIN InstructionMap -> "CLAIMED"
      [] OTHER -> req[r].row.status

\* Faulty variant: the account is created but the row stays pending.
WriteNothingOnCreate(r) ==
    CASE req[r].found /\ req[r].instruction # Creating -> "ACTIVE"
      [] ~req[r].found /\ req[r].instruction \in DOMAIN InstructionMap ->
             InstructionMap[req[r].instruction]
      [] OTHER -> req[r].row.status

\* Faulty variant: claims are left out of the instruction map.
WriteNothingOnClaim(r) ==
    CASE req[r].found -> "ACTIVE"
      [] ~req[r].found /\ req[r].instruction \in DOMAIN InstructionMap \ {"ClaimTransfer"} ->
             InstructionMap[req[r].instruction]
      [] OTHER -> req[r].row.status

\* The status to write over the row that was read: that of the account, which is
\* always active, or the one the logs tell, whether or not the transaction failed.
NewStatus(r) ==
    CASE req[r].found -> "ACTIVE"
      [] ~req[r].found /\ req[r].instruction \in DOMAIN InstructionMap ->
             InstructionMap[req[r].instruction]
      [] OTHER -> req[r].row.status

\* flush: an UPDATE of the columns that differ from the row as it was read.
Updated(r, current) ==
    LET row == req[r].row
    IN  [status |-> IF NewStatus(r) # row.status THEN NewStatus(r) ELSE current.status,
         createTxid |-> IF req[r].found /\ row.createTxid = NoTx THEN r
                        ELSE current.createTxid]

\* A row that was not there is inserted, unless another request did so first: the
\* unique PDA makes this insertion fail.
Write(r) ==
    LET k == req[r].key
    IN  /\ req[r].pc = "read"
        /\ req' = [req EXCEPT ![r].pc = "done"]
        /\ rows' = [rows EXCEPT ![k] =
               IF req[r].row # NoRow THEN Updated(r, @)
               ELSE IF @ = NoRow /\ req[r].found
               THEN [status |-> "ACTIVE", createTxid |-> r]
               ELSE @]
        /\ UNCHANGED chain

\* A send, a confirmation, an RPC call or a query fails, or the server restarts:
\* nothing retries.
Lose(r) ==
    /\ req[r].pc \in {"sent", "landed", "fetched", "read"}
    /\ req' = [req EXCEPT ![r].pc = "lost"]
    /\ UNCHANGED <<chain, rows>>

----------------------------------------------------------------------------
Proceed(r) == Fetch(r) \/ Read(r) \/ Write(r)

Next ==
    \/ \E k \in Keys : Build(k) \/ \E i \in Instructions : Elsewhere(k, i)
    \/ \E r \in Requests :
        \/ \E k \in Keys, i \in Instructions : Send(r, k, i)
        \/ Land(r) \/ Proceed(r) \/ Lose(r)

\* A request whose transaction is confirmed goes on to its end, unless it is lost:
\* each step is the continuation of an await the runtime runs when it resolves.
Spec == Init /\ [][Next]_vars /\ \A r \in Requests : WF_vars(Proceed(r))

----------------------------------------------------------------------------
(* Properties                                                              *)

\* The database shows the transfer as settled.
Closed(k) == rows[k] # NoRow /\ rows[k].status \in Terminal

\* The row's terminal status is that of the instruction that settled the transfer.
Told(k) ==
    /\ chain[k] \in DOMAIN InstructionMap
    /\ rows[k].status = InstructionMap[chain[k]]

\* A row gets a terminal status that is not how the transfer was settled only when
\* a transaction that failed on chain is indexed: whatever requests overlap, miss
\* an account or are lost halfway, a transaction that succeeded is told as it was.
OnlyFailedMisreport ==
    [][\A k \in Keys :
           (/\ Closed(k)' /\ ~Told(k)'
            /\ rows[k] = NoRow \/ rows[k].status # rows'[k].status)
               => \E r \in Requests :
                      req[r].key = k /\ ~req[r].ok /\ req[r].pc = "read" /\ req'[r].pc = "done"]_vars

\* Nothing more comes of request r.
Dropped(r) == req[r].pc = "lost" \/ req[r].missed

\* A confirmed create_transfer shows up: its row leaves PENDING for good, unless the
\* request is dropped or the transfer is settled before it is indexed.
CreationShows ==
    \A r \in Requests :
        (req[r].pc = "landed" /\ req[r].ok /\ req[r].instruction = Creating)
            ~> [](\/ Dropped(r)
                  \/ chain[req[r].key] \in Settling
                  \/ rows[req[r].key] # NoRow /\ rows[req[r].key].status # "PENDING")

\* A request for k found the account open and is yet to write what it found.
Stale(k) ==
    \E q \in Requests :
        req[q].key = k /\ req[q].pc \in {"fetched", "read"} /\ req[q].found

\* A confirmed settlement of a transfer the database knows shows up for good: from
\* some time on the row has a terminal status and keeps it, whatever other requests
\* write, unless the request is lost.  A request that read the open account before
\* and writes after is the one that can undo it, for good.
SettlementShows ==
    \A r \in Requests :
        (/\ req[r].pc \in {"landed", "fetched"} /\ req[r].ok
         /\ req[r].instruction \in DOMAIN InstructionMap
         /\ rows[req[r].key] # NoRow /\ ~Stale(req[r].key))
            ~> [](req[r].pc = "lost" \/ Closed(req[r].key))
=============================================================================
