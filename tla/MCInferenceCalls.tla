-------------------------- MODULE MCInferenceCalls --------------------------
(***************************************************************************)
(* AIVMInferenceV2Calls with payees that call back: the fee of 2 is split  *)
(* in half, so that treasury and worker are both paid; the bond and the    *)
(* dispute bond are 1; the owner changes the quorum, inside the calls too. *)
(***************************************************************************)
EXTENDS MCAIVMInferenceV2, AIVMInferenceV2Calls

CallsSettings == Deployed(0, 0, 1, 5000, 1, 1)
CallsFunds    == requester :> 3 @@ worker :> 1 @@ other :> 1
CallsTuned    == [Fixed EXCEPT !.poiQuorum = {1, 2}]
=============================================================================
