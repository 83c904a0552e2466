----------------------------- MODULE FeeEscrow -----------------------------
(***************************************************************************)
(* What AIVMInferenceV2 promises about requesters' fees, with the protocol *)
(* taken away: each fee is held from the moment it is paid in, leaves the  *)
(* contract once and whole, released or refunded, and the pot backs every  *)
(* fee still held.                                                         *)
(***************************************************************************)
EXTENDS Integers, FiniteSets, Tally

CONSTANT Ids

VARIABLES
  phase,   \* id -> "none", "held", "released" or "refunded"
  held,    \* id -> the fee
  pot      \* ETH not committed to bonds

escrowVars == <<phase, held, pot>>

Init ==
  /\ phase = [id \in Ids |-> "none"]
  /\ held = [id \in Ids |-> 0]
  /\ pot = 0

Open(id) ==
  LET fee == held'[id] IN
  /\ phase[id] = "none"
  /\ phase' = [phase EXCEPT ![id] = "held"]
  /\ fee \in Nat
  /\ held' = [held EXCEPT ![id] = fee]
  /\ pot' = pot + fee

Close(id) ==
  /\ phase[id] = "held"
  /\ \E end \in {"released", "refunded"} : phase' = [phase EXCEPT ![id] = end]
  /\ held' = [held EXCEPT ![id] = 0]
  /\ pot' = pot - held[id]

Gift ==
  /\ pot' \in Nat /\ pot' > pot
  /\ UNCHANGED <<phase, held>>

Next == (\E id \in Ids : Open(id) \/ Close(id)) \/ Gift

Spec == Init /\ [][Next]_escrowVars

(* The pot backs the fees that are held. *)
Backed == pot >= Total(held, Ids)
=============================================================================
