---------------------------- MODULE MCOperators ----------------------------
(* A bounded instance of Operators for TLC. *)
EXTENDS Operators, TLC

\* Operators differ in nothing the backend looks at, and requests only in time.
Alike == Permutations(Wallets) \cup Permutations(Requests)
=============================================================================
