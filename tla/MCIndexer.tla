----------------------------- MODULE MCIndexer -----------------------------
(* Bounded instances of Indexer for TLC. *)
EXTENDS Indexer

\* tx.service.ts:236: terminal operations close the account, "we need the logs to
\* know which status to set": a terminal status is that of the instruction that
\* settled the transfer.
StatusTellsSettlement == \A k \in Keys : Closed(k) => Told(k)
=============================================================================
