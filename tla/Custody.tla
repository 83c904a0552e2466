------------------------------- MODULE Custody -------------------------------
(***************************************************************************)
(* What a contract that keeps other people's ETH promises, with every rule *)
(* about who may do what taken away: what is held for a key grows only by  *)
(* what is paid in with it, shrinks only by what leaves or is given up,    *)
(* and nothing else takes from the pot.                                    *)
(***************************************************************************)
EXTENDS Integers, FiniteSets, Tally

CONSTANT Keys

VARIABLES held,  \* key -> amount kept for it
          pot    \* the contract's ETH

Init ==
  /\ held = [k \in Keys |-> 0]
  /\ pot = 0

Deposit(k) ==
  /\ pot' \in Nat /\ pot' >= pot
  /\ held' = [held EXCEPT ![k] = @ + (pot' - pot)]

Release(k) ==
  /\ pot' \in Nat /\ pot' <= pot
  /\ pot - pot' <= held[k]
  /\ held' = [held EXCEPT ![k] = @ - (pot - pot')]

(* The contract pays itself: the amount stays, for nobody. *)
Forfeit(k) ==
  /\ held'[k] \in 0 .. held[k]
  /\ held' = [held EXCEPT ![k] = held'[k]]
  /\ UNCHANGED pot

Gift == pot' \in Nat /\ pot' >= pot /\ UNCHANGED held

Next == (\E k \in Keys : Deposit(k) \/ Release(k) \/ Forfeit(k)) \/ Gift

Spec == Init /\ [][Next]_<<held, pot>>

(* The pot backs everything that is held. *)
Backed == pot >= Total(held, Keys)
===============================================================================
