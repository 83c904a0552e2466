------------------------ MODULE MCAIVMModelRegistry ------------------------
(***************************************************************************)
(* An instance of AIVMModelRegistry for TLC: two variants, whose trainer   *)
(* is also their validator and may challenge them, and an outside          *)
(* challenger.  The owner may drop the challenge window and restore it.    *)
(***************************************************************************)
EXTENDS AIVMModelRegistry, TLC

PolicyWithWindow(time) ==
  [trainerStakeMin |-> 1, validatorStakeMin |-> 1, challengeWindow |-> time]
TwoPolicies == {PolicyWithWindow(0), PolicyWithWindow(1)}

Alike == Permutations(Variants)
=============================================================================
