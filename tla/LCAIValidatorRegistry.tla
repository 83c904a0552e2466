----------------------- MODULE LCAIValidatorRegistry -----------------------
(***************************************************************************)
(* LCAIValidatorRegistry.sol: the validator set whose isActive flag gates  *)
(* PoI attestations.  A validator registers itself with a stake and is     *)
(* active at once; from then on anybody may flip its flag or overwrite its *)
(* recorded stake.  There is no withdrawal.                                *)
(***************************************************************************)
EXTENDS Naturals, Sequences, FiniteSets

CONSTANTS
  Validators,   \* addresses that may register
  Stakes        \* stake values used by registerValidator and updateStake

VARIABLES
  validators,       \* address -> [registered, stake, isActive]
  validatorList,    \* addresses in the order of their registration
  registryBalance   \* ETH held by the registry

Validator == [registered : BOOLEAN, stake : Nat, isActive : BOOLEAN]

TypeOK ==
  /\ validators \in [Validators -> Validator]
  /\ validatorList \in Seq(Validators)
  /\ registryBalance \in Nat

Init ==
  /\ validators = [v \in Validators |->
                     [registered |-> FALSE, stake |-> 0, isActive |-> FALSE]]
  /\ validatorList = <<>>
  /\ registryBalance = 0

(* For comparison: an address may register again. *)
RegisterTwice(v, value) ==
  /\ value > 0
  /\ validators' = [validators EXCEPT ![v] =
                      [registered |-> TRUE, stake |-> value, isActive |-> TRUE]]
  /\ validatorList' = Append(validatorList, v)
  /\ registryBalance' = registryBalance + value

RegisterValidator(v, value) ==
  /\ ~validators[v].registered
  /\ value > 0
  /\ validators' = [validators EXCEPT ![v] =
                      [registered |-> TRUE, stake |-> value, isActive |-> TRUE]]
  /\ validatorList' = Append(validatorList, v)
  /\ registryBalance' = registryBalance + value

ActivateValidator(v) ==
  /\ validators[v].registered
  /\ validators' = [validators EXCEPT ![v].isActive = TRUE]
  /\ UNCHANGED <<validatorList, registryBalance>>

DeactivateValidator(v) ==
  /\ validators[v].registered
  /\ validators' = [validators EXCEPT ![v].isActive = FALSE]
  /\ UNCHANGED <<validatorList, registryBalance>>

UpdateStake(v, newStake) ==
  /\ validators[v].registered
  /\ validators' = [validators EXCEPT ![v].stake = newStake]
  /\ UNCHANGED <<validatorList, registryBalance>>

Next ==
  \E v \in Validators :
    \/ \E s \in Stakes : RegisterValidator(v, s) \/ UpdateStake(v, s)
    \/ ActivateValidator(v)
    \/ DeactivateValidator(v)
-----------------------------------------------------------------------------
(* getActiveValidators: a pass that counts the active entries of the list,   *)
(* and one that stores each at index, the number of active entries before it.*)
ActiveEntries == {i \in DOMAIN validatorList : validators[validatorList[i]].isActive}
Stored(i)     == Cardinality({h \in ActiveEntries : h <= i})
GetActiveValidators ==
  [j \in 1 .. Cardinality(ActiveEntries) |->
     validatorList[CHOOSE i \in ActiveEntries : Stored(i) = j]]
=============================================================================
