----------------------------- MODULE MCSilkysig -----------------------------
(* Bounded instances of Silkysig for TLC. *)
EXTENDS Silkysig, TLC, FiniteSets

CONSTANTS alice, bob, carol

\* The two owners differ in nothing the program looks at.
OwnersAlike == Permutations({alice, bob})

\* Bound: once both owners have an account, or an address that was paid to, no
\* account is paused and there are at most two operators and Drift users together.
SlotsInUse == {s \in Live \X (1..MaxOperators) : s[2] <= accounts[s[1]].operator_count}

SecondAccountBound ==
    opened \cup driftUsers = Owners =>
        /\ \A o \in Live : ~accounts[o].is_paused
        /\ Cardinality(SlotsInUse) + Cardinality(driftUsers) <= 2

\* docs/design/yield.md:81: a transfer of more than the principal spends yield, and
\* "that's fine": the owner can transfer whatever Drift holds for the account.
YieldSpendable ==
    \A o \in Live :
        accounts[o].drift_user /\ drift[o] > 0 => CanTransfer(o, drift[o])
=============================================================================
