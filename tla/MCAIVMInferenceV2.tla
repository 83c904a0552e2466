------------------------ MODULE MCAIVMInferenceV2 ------------------------
(***************************************************************************)
(* Instances of AIVMInferenceV2 for TLC.  Sets the configurations refer to.*)
(***************************************************************************)
EXTENDS AIVMInferenceV2Properties, TLC

CONSTANTS requester, worker, other, h1, h2, t1, v1, v2, v3

(* One ETH is one unit of money; one timeout is one block. *)
Deployed(minFee, maxPending, minBond, bps, quorum, minChallenge) ==
  [minRequestFeeWei |-> minFee, maxPendingPerRequester |-> maxPending,
   minWorkerBondWei |-> minBond, protocolFeeBps |-> bps,
   commitTimeoutSecs |-> 1, revealTimeoutSecs |-> 1, finalizeTimeoutSecs |-> 1,
   poiQuorum |-> quorum, minChallengeBondWei |-> minChallenge,
   treasury |-> other, resolver |-> other, registry |-> "deployed"]

Fixed ==
  [minRequestFeeWei |-> {}, maxPendingPerRequester |-> {}, minWorkerBondWei |-> {},
   protocolFeeBps |-> {}, timeouts |-> {}, poiQuorum |-> {},
   minChallengeBondWei |-> {}, treasury |-> {}, resolver |-> {}, registry |-> {}]
-----------------------------------------------------------------------------
(* One request under every interleaving of its parties: quorum 2, fee split   *)
(* in half, bond and dispute bond of 1.                                       *)
OneSettings == Deployed(0, 0, 1, 5000, 2, 1)
OneFunds    == requester :> 2 @@ worker :> 1 @@ other :> 1

(* Two requests of one requester, served by workers that share their bond     *)
(* across requests; any account may also be worker of its own request.        *)
TwoSettings == Deployed(1, 0, 1, 2500, 1, 0)
TwoFunds    == requester :> 2 @@ worker :> 2 @@ other :> 0

(* The owner retunes fees, bonds and roles while a request is under way; one   *)
(* payee rejects ETH.                                                          *)
TunedSettings == Deployed(0, 0, 0, 5000, 1, 0)
TunedFunds    == requester :> 1 @@ worker :> 1 @@ other :> 0
MoneyTuned ==
  [Fixed EXCEPT !.minRequestFeeWei = {0}, !.maxPendingPerRequester = {1},
     !.minWorkerBondWei = {0, 1}, !.protocolFeeBps = {10000, 10001},
     !.minChallengeBondWei = {1}, !.treasury = {worker}, !.resolver = {worker}]

(* The owner retunes deadlines and quorum, and replaces the registry by one    *)
(* with another active validator.                                              *)
PoITuned ==
  [Fixed EXCEPT !.timeouts = {<<2, 1, 1>>, <<0, 1, 1>>}, !.poiQuorum = {0, 1, 2},
     !.registry = {"replacement"}]

OnlyQuorumTuned == [Fixed EXCEPT !.poiQuorum = {1, 2}]
=============================================================================
