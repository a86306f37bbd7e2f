------------------------------- MODULE Escrow -------------------------------
(***************************************************************************)
(* What the Handshake program promises, with no account of how its pools   *)
(* keep track of it: a sender's tokens are held for one transfer, and      *)
(* leave it once, either to the recipient inside the claim window, less a  *)
(* fee, or back to the sender in full.  A house (a pool) owns what is left *)
(* in its keeping beyond the held tokens, and can pay out no more.         *)
(***************************************************************************)
EXTENDS Integers

CONSTANTS Wallets, Houses, Mints, Keys, Amounts, Windows, NoHold

VARIABLES
    clock,
    hold,       \* the tokens held under each key, or NoHold
    purse,      \* tokens of each <<wallet, mint>>
    house       \* free tokens of each <<house, mint>>

vars == <<clock, hold, purse, house>>

Init ==
    /\ clock = 1
    /\ hold = [k \in Keys |-> NoHold]
    /\ purse \in [Wallets \X Mints -> Nat]
    /\ house = [hm \in Houses \X Mints |-> 0]

\* The sender's tokens become held under a free key, with a window not yet over.
Lock(k, h, m, amount, after, until) ==
    /\ hold[k] = NoHold
    /\ amount > 0 /\ purse[<<k[1], m>>] >= amount
    /\ until > 0 => until >= clock /\ after < until
    /\ hold' = [hold EXCEPT ![k] =
           [house |-> h, mint |-> m, amount |-> amount, after |-> after, until |-> until]]
    /\ purse' = [purse EXCEPT ![<<k[1], m>>] = @ - amount]
    /\ UNCHANGED <<clock, house>>

\* Held tokens go to the recipient, but for a fee, only inside the window.
Release(k, fee) ==
    LET t == hold[k]
    IN  /\ t # NoHold
        /\ clock >= t.after
        /\ t.until > 0 => clock <= t.until
        /\ fee <= t.amount
        /\ purse' = [purse EXCEPT ![<<k[2], t.mint>>] = @ + (t.amount - fee)]
        /\ house' = [house EXCEPT ![<<t.house, t.mint>>] = @ + fee]
        /\ hold' = [hold EXCEPT ![k] = NoHold]
        /\ UNCHANGED clock

\* Held tokens go back to the sender, all of them.
Return(k) ==
    LET t == hold[k]
    IN  /\ t # NoHold
        /\ purse' = [purse EXCEPT ![<<k[1], t.mint>>] = @ + t.amount]
        /\ hold' = [hold EXCEPT ![k] = NoHold]
        /\ UNCHANGED <<clock, house>>

\* A house pays out of its free tokens, or is given some.
Collect(w, h, m, n) ==
    /\ n <= house[<<h, m>>]
    /\ house' = [house EXCEPT ![<<h, m>>] = @ - n]
    /\ purse' = [purse EXCEPT ![<<w, m>>] = @ + n]
    /\ UNCHANGED <<clock, hold>>

Give(w, h, m, n) ==
    /\ n <= purse[<<w, m>>]
    /\ purse' = [purse EXCEPT ![<<w, m>>] = @ - n]
    /\ house' = [house EXCEPT ![<<h, m>>] = @ + n]
    /\ UNCHANGED <<clock, hold>>

Tick == clock' = clock + 1 /\ UNCHANGED <<hold, purse, house>>

Next ==
    \/ Tick
    \/ \E k \in Keys :
        \/ \E h \in Houses, m \in Mints :
            \E amount \in Amounts, window \in Windows :
                Lock(k, h, m, amount, window[1], window[2])
        \/ Return(k)
        \/ hold[k] # NoHold /\ \E fee \in 0..hold[k].amount : Release(k, fee)
    \/ \E w \in Wallets, h \in Houses, m \in Mints :
        \/ \E n \in 1..house[<<h, m>>] : Collect(w, h, m, n)
        \/ \E n \in 1..purse[<<w, m>>] : Give(w, h, m, n)

Spec == Init /\ [][Next]_vars
=============================================================================
