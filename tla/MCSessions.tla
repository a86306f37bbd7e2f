----------------------------- MODULE MCSessions -----------------------------
(* A bounded instance of Sessions for TLC. *)
EXTENDS Sessions, TLC

Numbered == 1..(2 * MaxCommands + 2)

\* Processes of the command line differ only in time.
Alike == Permutations(Clients)
=============================================================================
