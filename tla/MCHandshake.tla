---------------------------- MODULE MCHandshake ----------------------------
(* Bounded instances of Handshake for TLC. *)
EXTENDS Handshake

CONSTANTS alice, bob, op

\* Two transfers that race for one pool: alice to bob, and bob to the operator.
TwoKeys == {<<alice, bob, 1>>, <<bob, op, 1>>}

\* One key, shared by every pool.
OneKey == {<<alice, bob, 1>>}

\* No window, an empty one that create_transfer refuses, and a window with both ends.
SomeWindows == {<<0, 0>>, <<2, 2>>, <<2, 3>>}

\* The comment on collected_fees (state/pool.rs:37): the fees that accumulated in
\* the vault can be withdrawn by the operator, that is, withdraw_fees would pay
\* all that the vault holds beyond the escrow (no donations in this run).
FeesStayWithdrawable ==
    \A p \in Live :
        vault[<<p, pools[p].mint>>] - pools[p].total_escrowed = pools[p].collected_fees
=============================================================================
