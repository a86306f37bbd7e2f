------------------------------ MODULE MCOrders ------------------------------
(* Bounded instances of Orders for TLC. *)
EXTENDS Orders

\* An order with few attempts, and a recurring one that expires.
OrderPolicies ==
    {[cooldown |-> 1, maxAttempts |-> 2, expiresAt |-> None, remaining |-> 1],
     [cooldown |-> 2, maxAttempts |-> None, expiresAt |-> 2, remaining |-> 2]}

\* lifecycle.test.ts:121, "cancel sets status to cancelled": an order that was
\* cancelled stays so, even if an evaluation overlaps the command.
CancelSticks ==
    [][\A o \in Entries(file.orders), n \in Entries(file.orders') :
           o.id = n.id /\ o.status = "cancelled" => n.status = "cancelled"]_vars
=============================================================================
