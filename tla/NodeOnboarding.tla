---------------------------- MODULE NodeOnboarding ----------------------------
(***************************************************************************)
(* contracts/NodeOnboarding.sol: validators and workers register, are      *)
(* attested and judged, and leave after an unbonding period.  The stake is *)
(* kept by NodeStaking, whose balances are only read here.                 *)
(*                                                                         *)
(* Whether a quote is genuine and its enclave and TCB level are accepted   *)
(* is the verifier's and the policy's decision: a transaction they refuse  *)
(* reverts and is no step.                                                 *)
(***************************************************************************)
EXTENDS Integers

CONSTANTS
  Accounts,           \* addresses that may have stake
  Nodes,              \* those that may register
  Minimums,           \* settings of minValidatorStake and minWorkerStake
  Periods,            \* settings of unbondingPeriod
  Timeouts,           \* settings of heartbeatTimeout; 0: disabled
  MaxTime             \* bound on the clock

ASSUME OnboardingAssumption ==
  /\ Nodes \subseteq Accounts
  /\ Minimums \subseteq Nat /\ Periods \subseteq Nat /\ Timeouts \subseteq Nat /\ MaxTime \in Nat

VARIABLES
  nodes,              \* address -> Node: nodeTypes, validators and workers
  minStake,           \* minValidatorStake and minWorkerStake
  unbondingPeriod, heartbeatTimeout,
  hasVerifier,        \* attestationVerifier is set
  balances,           \* NodeStaking's balances
  now                 \* block.timestamp

settings == <<minStake, unbondingPeriod, heartbeatTimeout, hasVerifier>>

Types == {"Validator", "Worker"}
Node == [type : Types \cup {"None"}, attested : BOOLEAN, verified : BOOLEAN, modelsReady : BOOLEAN,
         exitEpoch : Nat, lastHeartbeat : Nat]

Unregistered == [type |-> "None", attested |-> FALSE, verified |-> FALSE, modelsReady |-> FALSE,
                 exitEpoch |-> 0, lastHeartbeat |-> 0]

OnboardingInit ==
  /\ nodes = [a \in Accounts |-> Unregistered]
  /\ minStake \in [Types -> Minimums]
  /\ unbondingPeriod \in Periods
  /\ heartbeatTimeout \in Timeouts
  /\ hasVerifier = FALSE
  /\ now = 1

Is(n, type) == nodes[n].type = type
Registered(n) == nodes[n].type \in Types

Update(n, node) == nodes' = [nodes EXCEPT ![n] = node] /\ UNCHANGED <<settings, now>>

(* registerValidator and registerWorker: without a verifier a node joins     *)
(* unattested, with one its quote has to be good.                            *)
Register(n, type) ==
  /\ Is(n, "None")
  /\ balances[n] >= minStake[type]
  /\ Update(n, [Unregistered EXCEPT !.type = type, !.attested = hasVerifier, !.lastHeartbeat = now])
RegisterValidator(n) == Register(n, "Validator")
RegisterWorker(n) == Register(n, "Worker")

(* verifyValidatorAttestation, verifyWorkerAttestation. *)
VerifyAttestation(n) ==
  Registered(n) /\ hasVerifier /\ Update(n, [nodes[n] EXCEPT !.attested = TRUE])

SetAttestationStatus(n, isAttested) ==
  Registered(n) /\ Update(n, [nodes[n] EXCEPT !.attested = isAttested])

VerifyWorker(n, isValid) ==
  Is(n, "Worker") /\ Update(n, [nodes[n] EXCEPT !.verified = isValid])
SetWorkerModelsReady(n, isReady) ==
  Is(n, "Worker") /\ Update(n, [nodes[n] EXCEPT !.modelsReady = isReady])
UpdateWorkerModels(n) ==
  Is(n, "Worker") /\ Update(n, [nodes[n] EXCEPT !.modelsReady = FALSE])

Heartbeat(n) == Registered(n) /\ Update(n, [nodes[n] EXCEPT !.lastHeartbeat = now])

InitiateExit(n) ==
  /\ Registered(n) /\ nodes[n].exitEpoch = 0
  /\ Update(n, [nodes[n] EXCEPT !.exitEpoch = now + unbondingPeriod])

IsSafeToWithdraw(n) ==
  Registered(n) => nodes[n].exitEpoch # 0 /\ now >= nodes[n].exitEpoch

(* For comparison: an exit is finalized once it has been asked for. *)
FinalizeExitAtOnce(n) ==
  Registered(n) /\ nodes[n].exitEpoch # 0 /\ Update(n, Unregistered)

FinalizeExit(n) == Registered(n) /\ IsSafeToWithdraw(n) /\ Update(n, Unregistered)

SetRequirements ==
  /\ minStake' \in [Types -> Minimums] /\ unbondingPeriod' \in Periods
  /\ UNCHANGED <<nodes, heartbeatTimeout, hasVerifier, now>>
SetHeartbeatTimeout ==
  /\ heartbeatTimeout' \in Timeouts
  /\ UNCHANGED <<nodes, minStake, unbondingPeriod, hasVerifier, now>>
SetAttestationVerifier ==
  /\ hasVerifier' = ~hasVerifier
  /\ UNCHANGED <<nodes, minStake, unbondingPeriod, heartbeatTimeout, now>>

Tick == now < MaxTime /\ now' = now + 1 /\ UNCHANGED <<nodes, settings>>

OnboardingStep ==
  \/ \E n \in Nodes :
       \/ RegisterValidator(n) \/ RegisterWorker(n) \/ VerifyAttestation(n)
       \/ \E b \in BOOLEAN :
            SetAttestationStatus(n, b) \/ VerifyWorker(n, b) \/ SetWorkerModelsReady(n, b)
       \/ UpdateWorkerModels(n) \/ Heartbeat(n) \/ InitiateExit(n) \/ FinalizeExit(n)
  \/ SetRequirements \/ SetHeartbeatTimeout \/ SetAttestationVerifier
  \/ Tick

(* isValidatorActive, isWorkerActive: whom the network relies on. *)
IsActive(n) ==
  /\ Registered(n)
  /\ nodes[n].attested /\ nodes[n].exitEpoch = 0
  /\ Is(n, "Worker") => nodes[n].verified /\ nodes[n].modelsReady
  /\ balances[n] >= minStake[nodes[n].type]
  /\ heartbeatTimeout # 0 => now <= nodes[n].lastHeartbeat + heartbeatTimeout
===============================================================================
