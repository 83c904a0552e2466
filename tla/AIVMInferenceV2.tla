-------------------------- MODULE AIVMInferenceV2 --------------------------
(***************************************************************************)
(* AIVMInferenceV2.sol: a requester escrows a fee for an inference, a      *)
(* worker commits to a response (locking bond) and reveals it, validators  *)
(* attest the response, and the request ends exactly one way: finalized    *)
(* (fee to worker and treasury), cancelled or timed out (fee back to the   *)
(* requester), with a bonded dispute in between.                           *)
(*                                                                         *)
(* One action is one accepted transaction of the EVM; a transaction that   *)
(* reverts changes nothing and is no step.  Arithmetic is checked in       *)
(* Solidity 0.8: an underflow would revert.  The model does not guard      *)
(* against it; TypeOK shows that no subtraction ever goes below zero.      *)
(***************************************************************************)
EXTENDS Integers, FiniteSets, Tally

CONSTANTS
  Accounts,     \* addresses that hold ETH
  Requesters, Workers, Challengers,   \* the accounts that play each role
  Rejecting,    \* accounts that revert when they are sent ETH
  Validators, Stakes,   \* of LCAIValidatorRegistry
  Hashes,       \* response and result hashes
  Transcripts,  \* transcript hashes, the zero hash NoHash included
  Slots,        \* consensus slots, 0 included
  NoAddr, NoHash,   \* address(0), bytes32(0)
  Unopenable,   \* a commitment its sender cannot open (garbage or copied)
  Values,       \* values sent by payable calls and asked back from bonds
  Tunable,      \* setter arguments: one set per field of settings
  InitialSettings, InitialFunds,
  ReplacementActive,  \* active validators of the registry set instead
  MaxRequests, MaxTime,   \* bounds of a run
  TimeModulus   \* deadlines are cast to uint64: 2^64

RequestIds == 1 .. MaxRequests
Live       == {"Requested", "Committed", "Revealed", "Disputed"}
Ended      == {"Finalized", "Cancelled", "TimedOut"}
BpsBase    == 10000

Settings ==
  [minRequestFeeWei : Nat, maxPendingPerRequester : Nat,
   minWorkerBondWei : Nat, protocolFeeBps : 0 .. BpsBase,
   commitTimeoutSecs : Nat, revealTimeoutSecs : Nat, finalizeTimeoutSecs : Nat,
   poiQuorum : Nat \ {0}, minChallengeBondWei : Nat,
   treasury : Accounts, resolver : Accounts,
   registry : {"deployed", "replacement"}]

ASSUME ConstantsAssumption ==
  /\ Requesters \subseteq Accounts /\ Workers \subseteq Accounts
  /\ Challengers \subseteq Accounts /\ Rejecting \subseteq Accounts
  /\ NoAddr \notin Accounts
  /\ NoHash \notin Hashes /\ Unopenable \notin Hashes /\ Unopenable # NoHash
  /\ Slots \subseteq Nat /\ Values \subseteq Nat /\ Stakes \subseteq Nat
  /\ InitialSettings \in Settings
  /\ InitialFunds \in [Accounts -> Nat]
  /\ MaxRequests \in Nat \ {0} /\ MaxTime \in Nat \ {0}
  /\ TimeModulus \in Nat \ {0}
  /\ IsFiniteSet(Accounts) /\ IsFiniteSet(Validators)

ASSUME TunableAssumption ==
  /\ Tunable.minRequestFeeWei \subseteq Nat
  /\ Tunable.maxPendingPerRequester \subseteq Nat
  /\ Tunable.minWorkerBondWei \subseteq Nat
  /\ Tunable.protocolFeeBps \subseteq Nat
  /\ Tunable.timeouts \subseteq Nat \X Nat \X Nat
  /\ Tunable.poiQuorum \subseteq Nat
  /\ Tunable.minChallengeBondWei \subseteq Nat
  /\ Tunable.treasury \subseteq Accounts
  /\ Tunable.resolver \subseteq Accounts
  /\ Tunable.registry \subseteq {"deployed", "replacement"}

VARIABLES
  now,               \* block.timestamp
  nextRequestId,
  requests,          \* id -> request
  challenges,        \* id -> challenge
  pendingByRequester,
  workerBond, workerBondLocked,   \* worker -> deposited, locked part of it
  requestBondLocked, \* id -> bond locked for the request
  poi,               \* task -> what the validators attested
  settings,          \* owner-tunable parameters
  balance,           \* ETH held by the contract
  wallet,            \* account -> ETH outside the contract
  validators, validatorList, registryBalance   \* LCAIValidatorRegistry

(* The registry contract, whose transactions interleave with this one's. *)
Registry == INSTANCE LCAIValidatorRegistry

registryVars == <<validators, validatorList, registryBalance>>
moneyVars == <<pendingByRequester, workerBond, workerBondLocked,
               requestBondLocked, balance, wallet>>
vars == <<now, nextRequestId, requests, challenges, poi, settings, moneyVars,
          registryVars>>

Request ==
  [requester : Accounts \cup {NoAddr}, fee : Nat, commitDeadline : Nat,
   revealDeadline : Nat, finalizeDeadline : Nat,
   status : {"None"} \cup Live \cup Ended, worker : Accounts \cup {NoAddr},
   commitment : Hashes \cup {NoHash, Unopenable},
   responseHash : Hashes \cup {NoHash}, finalizedAt : Nat]

Challenge ==
  [challenger : Accounts \cup {NoAddr}, bond : Nat, resolved : BOOLEAN,
   upheld : BOOLEAN]

PoI ==
  [result : Hashes \cup {NoHash}, transcript : Transcripts \cup {NoHash},
   slot : Nat, count : Nat, attested : SUBSET Validators]

TypeOK ==
  /\ now \in 1 .. MaxTime
  /\ nextRequestId \in 1 .. MaxRequests + 1
  /\ requests \in [RequestIds -> Request]
  /\ challenges \in [RequestIds -> Challenge]
  /\ pendingByRequester \in [Accounts -> Nat]
  /\ workerBond \in [Accounts -> Nat]
  /\ workerBondLocked \in [Accounts -> Nat]
  /\ requestBondLocked \in [RequestIds -> Nat]
  /\ poi \in [RequestIds -> PoI]
  /\ settings \in Settings
  /\ balance \in Nat
  /\ wallet \in [Accounts -> Nat]
  /\ Registry!TypeOK

NoRequest ==
  [requester |-> NoAddr, fee |-> 0, commitDeadline |-> 0, revealDeadline |-> 0,
   finalizeDeadline |-> 0, status |-> "None", worker |-> NoAddr,
   commitment |-> NoHash, responseHash |-> NoHash, finalizedAt |-> 0]
NoChallenge ==
  [challenger |-> NoAddr, bond |-> 0, resolved |-> FALSE, upheld |-> FALSE]
NoPoI ==
  [result |-> NoHash, transcript |-> NoHash, slot |-> 0, count |-> 0,
   attested |-> {}]

Init ==
  /\ now = 1
  /\ nextRequestId = 1
  /\ requests = [id \in RequestIds |-> NoRequest]
  /\ challenges = [id \in RequestIds |-> NoChallenge]
  /\ pendingByRequester = [a \in Accounts |-> 0]
  /\ workerBond = [a \in Accounts |-> 0]
  /\ workerBondLocked = [a \in Accounts |-> 0]
  /\ requestBondLocked = [id \in RequestIds |-> 0]
  /\ poi = [id \in RequestIds |-> NoPoI]
  /\ settings = InitialSettings
  /\ balance = 0
  /\ wallet = InitialFunds
  /\ Registry!Init
-----------------------------------------------------------------------------
(* Helpers of the contract. *)

(* _isActiveValidator: the flag in whichever registry is configured. *)
IsActiveValidator(v) ==
  IF settings.registry = "deployed" THEN validators[v].isActive
                                    ELSE v \in ReplacementActive

(* For comparison: the last request is not found. *)
RequestIdByTaskIdOffByOne(t) == IF t + 1 < nextRequestId THEN t ELSE 0

(* A task identifier is a hash of the request identifier: an injection, so  *)
(* tasks are named by it.  requestIdByTaskId is 0 until the request exists. *)
RequestIdByTaskId(t) == IF t < nextRequestId THEN t ELSE 0

(* The challenge of id was opened and is not resolved. *)
OpenChallenge(id) ==
  challenges[id].challenger # NoAddr /\ ~challenges[id].resolved

(* call{value: amount} to an account; skipped by the code when amount is 0. *)
CanPay(to, amount) == amount = 0 \/ to \notin Rejecting
Pay(purse, to, amount) == [purse EXCEPT ![to] = @ + amount]

(* msg.value moves from the caller into the contract. *)
PaidBy(caller, amount) ==
  /\ wallet[caller] >= amount
  /\ wallet' = [wallet EXCEPT ![caller] = @ - amount]
  /\ balance' = balance + amount

(* For comparison: the worker's share is rounded too. *)
WorkerShareRoundedDown(fee) == (fee * (BpsBase - settings.protocolFeeBps)) \div BpsBase

(* The two shares of a fee at finalization. *)
ProtocolFee(fee) == (fee * settings.protocolFeeBps) \div BpsBase
WorkerShare(fee) == fee - ProtocolFee(fee)

(* A request that ends without finalizing, its fee zeroed for the refund. *)
EndAs(r, status) == [r EXCEPT !.status = status, !.fee = 0]

LessPending(a) == [pendingByRequester EXCEPT ![a] = @ - 1]

(* For comparison: a locked bond may be withdrawn. *)
FreeBondIgnoringLocks(w) == workerBond[w]

(* The part of a worker's bond that no request has locked. *)
FreeBond(w) == workerBond[w] - workerBondLocked[w]

(* For comparison: a revealed request may not be reclaimed. *)
ReclaimableUnlessRevealed == {"Committed", "Requested"}

Reclaimable == {"Revealed", "Committed", "Requested"}

(* For comparison: the status is not looked at. *)
FinalizableAnyStatus(r, open, p) ==
  /\ r.finalizedAt = 0
  /\ ~open
  /\ now <= r.finalizeDeadline
  /\ p.result # NoHash /\ p.result = r.responseHash
  /\ p.count >= settings.poiQuorum

(* For comparison: one attestation short of the quorum is enough. *)
FinalizableOneShort(r, open, p) ==
  /\ r.status = "Revealed"
  /\ ~open
  /\ now <= r.finalizeDeadline
  /\ p.result # NoHash /\ p.result = r.responseHash
  /\ p.count + 1 >= settings.poiQuorum

(* The test of _tryFinalize, on a request r, the state of its challenge and *)
(* the attestations p as the calling transaction has left them.             *)
Finalizable(r, open, p) ==
  /\ r.status = "Revealed"
  /\ r.finalizedAt = 0
  /\ ~open
  /\ now <= r.finalizeDeadline
  /\ p.result # NoHash /\ p.result = r.responseHash
  /\ p.count >= settings.poiQuorum

(* What _tryFinalize records of the request r it finalizes, and of one that   *)
(* it leaves as the calling transaction has made it.                          *)
Finalize(id, r) ==
  /\ requests' = [requests EXCEPT ![id] =
       [r EXCEPT !.status = "Finalized", !.finalizedAt = now, !.fee = 0]]
  /\ pendingByRequester' = LessPending(r.requester)
  /\ requestBondLocked' = [requestBondLocked EXCEPT ![id] = 0]
  /\ workerBondLocked' = [workerBondLocked EXCEPT ![r.worker] = @ - requestBondLocked[id]]
Unfinalized(id, r) ==
  /\ requests' = [requests EXCEPT ![id] = r]
  /\ UNCHANGED <<pendingByRequester, requestBondLocked, workerBondLocked>>

(* _tryFinalize, at the end of the transactions that may complete a request: *)
(* money and purse are balance and wallet as the caller has left them.  The  *)
(* whole transaction reverts when a payee rejects its payment.               *)
TryFinalize(id, r, open, p, money, purse) ==
  IF Finalizable(r, open, p)
  THEN LET protocolFee == ProtocolFee(r.fee)
           workerPaid  == WorkerShare(r.fee)
       IN  /\ CanPay(settings.treasury, protocolFee)
           /\ CanPay(r.worker, workerPaid)
           /\ Finalize(id, r)
           /\ balance' = money - (protocolFee + workerPaid)
           /\ wallet' = Pay(Pay(purse, settings.treasury, protocolFee),
                            r.worker, workerPaid)
  ELSE /\ Unfinalized(id, r)
       /\ balance' = money
       /\ wallet' = purse

(* For comparison: the worker's whole deposit is taken. *)
SlashWholeBond(id) ==
  LET w == requests[id].worker IN
  /\ requestBondLocked' = [requestBondLocked EXCEPT ![id] = 0]
  /\ workerBondLocked' = [workerBondLocked EXCEPT ![w] = @ - requestBondLocked[id]]
  /\ workerBond' = [workerBond EXCEPT ![w] = 0]

(* For comparison: only the lock is released. *)
SlashWithoutDeposit(id) ==
  LET w == requests[id].worker IN
  /\ requestBondLocked' = [requestBondLocked EXCEPT ![id] = 0]
  /\ workerBondLocked' = [workerBondLocked EXCEPT ![w] = @ - requestBondLocked[id]]
  /\ UNCHANGED workerBond

(* The bond locked for id leaves its worker's deposit. *)
SlashBond(id) ==
  LET w == requests[id].worker
      b == requestBondLocked[id]
  IN  IF b = 0
      THEN UNCHANGED <<requestBondLocked, workerBondLocked, workerBond>>
      ELSE /\ requestBondLocked' = [requestBondLocked EXCEPT ![id] = 0]
           /\ workerBondLocked' = [workerBondLocked EXCEPT ![w] = @ - b]
           /\ workerBond' = [workerBond EXCEPT ![w] = @ - b]
-----------------------------------------------------------------------------
(* Request lifecycle. *)

RequestInferenceV2(a, value) ==
  LET s == settings
      c == now + s.commitTimeoutSecs
  IN
  /\ nextRequestId <= MaxRequests
  /\ value >= s.minRequestFeeWei
  /\ s.maxPendingPerRequester # 0 => pendingByRequester[a] < s.maxPendingPerRequester
  /\ PaidBy(a, value)
  /\ requests' = [requests EXCEPT ![nextRequestId] =
       [NoRequest EXCEPT !.requester = a, !.fee = value, !.status = "Requested",
          !.commitDeadline = c % TimeModulus,
          !.revealDeadline = (c + s.revealTimeoutSecs) % TimeModulus,
          !.finalizeDeadline =
             (c + s.revealTimeoutSecs + s.finalizeTimeoutSecs) % TimeModulus]]
  /\ nextRequestId' = nextRequestId + 1
  /\ pendingByRequester' = [pendingByRequester EXCEPT ![a] = @ + 1]
  /\ UNCHANGED <<now, challenges, poi, settings, workerBond, workerBondLocked,
                 requestBondLocked, registryVars>>

DepositWorkerBond(w, value) ==
  /\ value # 0
  /\ PaidBy(w, value)
  /\ workerBond' = [workerBond EXCEPT ![w] = @ + value]
  /\ UNCHANGED <<now, nextRequestId, requests, challenges, poi, settings,
                 pendingByRequester, workerBondLocked, requestBondLocked, registryVars>>

WithdrawWorkerBond(w, amount) ==
  /\ amount # 0
  /\ FreeBond(w) >= amount
  /\ w \notin Rejecting
  /\ workerBond' = [workerBond EXCEPT ![w] = @ - amount]
  /\ balance' = balance - amount
  /\ wallet' = Pay(wallet, w, amount)
  /\ UNCHANGED <<now, nextRequestId, requests, challenges, poi, settings,
                 pendingByRequester, workerBondLocked, requestBondLocked, registryVars>>

(* commitment names the response it opens to for this request and worker. *)
CommitInference(w, id, commitment) ==
  LET need == settings.minWorkerBondWei IN
  /\ requests[id].status = "Requested"
  /\ now <= requests[id].commitDeadline
  /\ need # 0 => FreeBond(w) >= need
  /\ workerBondLocked' = [workerBondLocked EXCEPT ![w] = @ + need]
  /\ requestBondLocked' =
       IF need # 0 THEN [requestBondLocked EXCEPT ![id] = need] ELSE requestBondLocked
  /\ requests' = [requests EXCEPT ![id].status = "Committed", ![id].worker = w,
                                  ![id].commitment = commitment]
  /\ UNCHANGED <<now, nextRequestId, challenges, poi, settings,
                 pendingByRequester, workerBond, balance, wallet, registryVars>>

RevealInference(w, id, response) ==
  /\ requests[id].status = "Committed"
  /\ requests[id].worker = w
  /\ now <= requests[id].revealDeadline
  /\ ~OpenChallenge(id)
  /\ requests[id].commitment = response
  /\ TryFinalize(id, [requests[id] EXCEPT !.status = "Revealed", !.responseHash = response],
                 FALSE, poi[id], balance, wallet)
  /\ UNCHANGED <<now, nextRequestId, challenges, poi, settings, workerBond, registryVars>>

(* The refund is sent even when it is 0. *)
CancelExpired(a, id) ==
  LET r == requests[id] IN
  /\ r.status = "Requested"
  /\ r.requester = a
  /\ now > r.commitDeadline
  /\ a \notin Rejecting
  /\ requests' = [requests EXCEPT ![id] = EndAs(@, "Cancelled")]
  /\ pendingByRequester' = LessPending(a)
  /\ balance' = balance - r.fee
  /\ wallet' = Pay(wallet, a, r.fee)
  /\ UNCHANGED <<now, nextRequestId, challenges, poi, settings, workerBond,
                 workerBondLocked, requestBondLocked, registryVars>>

(* Called by anybody. *)
TimeoutReveal(id) ==
  LET r == requests[id] IN
  /\ r.status = "Committed"
  /\ now > r.revealDeadline
  /\ CanPay(r.requester, r.fee + requestBondLocked[id])
  /\ requests' = [requests EXCEPT ![id] = EndAs(@, "TimedOut")]
  /\ pendingByRequester' = LessPending(r.requester)
  /\ SlashBond(id)
  /\ balance' = balance - (r.fee + requestBondLocked[id])
  /\ wallet' = Pay(wallet, r.requester, r.fee + requestBondLocked[id])
  /\ UNCHANGED <<now, nextRequestId, challenges, poi, settings, registryVars>>
-----------------------------------------------------------------------------
(* Disputes. *)

OpenDispute(a, id, value) ==
  /\ requests[id].status = "Revealed"
  /\ requests[id].finalizedAt = 0
  /\ value >= settings.minChallengeBondWei
  /\ challenges[id].challenger = NoAddr
  /\ PaidBy(a, value)
  /\ challenges' = [challenges EXCEPT ![id] =
       [challenger |-> a, bond |-> value, resolved |-> FALSE, upheld |-> FALSE]]
  /\ requests' = [requests EXCEPT ![id].status = "Disputed"]
  /\ UNCHANGED <<now, nextRequestId, poi, settings, pendingByRequester, workerBond,
                 workerBondLocked, requestBondLocked, registryVars>>

(* resolveChallenge(id, true): the worker keeps the response and takes the  *)
(* challenger's bond; finalization is tried again.                          *)
UpholdWorker(a, id) ==
  LET r == requests[id]
      c == challenges[id]
  IN
  /\ a = settings.resolver
  /\ OpenChallenge(id)
  /\ CanPay(r.worker, c.bond)
  /\ challenges' = [challenges EXCEPT ![id] =
       [c EXCEPT !.resolved = TRUE, !.upheld = TRUE, !.bond = 0]]
  /\ TryFinalize(id, [r EXCEPT !.status = "Revealed"], FALSE, poi[id],
                 balance - c.bond, Pay(wallet, r.worker, c.bond))
  /\ UNCHANGED <<now, nextRequestId, poi, settings, workerBond, registryVars>>

(* resolveChallenge(id, false): the challenger takes its bond back, the      *)
(* requester the fee and the worker's bond.                                  *)
RejectWorker(a, id) ==
  LET r == requests[id]
      c == challenges[id]
      b == requestBondLocked[id]
  IN
  /\ a = settings.resolver
  /\ OpenChallenge(id)
  /\ CanPay(c.challenger, c.bond)
  /\ CanPay(r.requester, r.fee + b)
  /\ challenges' = [challenges EXCEPT ![id] = [c EXCEPT !.resolved = TRUE, !.bond = 0]]
  /\ SlashBond(id)
  /\ requests' = [requests EXCEPT ![id] = EndAs(@, "Cancelled")]
  /\ pendingByRequester' = LessPending(r.requester)
  /\ balance' = balance - (c.bond + r.fee + b)
  /\ wallet' = Pay(Pay(wallet, c.challenger, c.bond), r.requester, r.fee + b)
  /\ UNCHANGED <<now, nextRequestId, poi, settings, registryVars>>
-----------------------------------------------------------------------------
(* PoI attestations. *)

(* A recorded transcript or slot must be repeated; one still unset (none)    *)
(* takes the attested value, so an unset value may be followed by a set one. *)
Agrees(recorded, attested, none) == recorded = none \/ recorded = attested

Attested(p, v, result, transcript, slot) ==
  [result |-> result, transcript |-> transcript, slot |-> slot,
   count |-> p.count + 1, attested |-> p.attested \cup {v}]

(* Submitted by anybody with the signature of v over task t, which may have  *)
(* no request yet.  A second attestation of v returns early: no step.        *)
SubmitPoIAttestation(v, t, result, transcript, slot) ==
  LET p == poi[t]
      q == Attested(p, v, result, transcript, slot)
  IN
  /\ IsActiveValidator(v)
  /\ v \notin p.attested
  /\ Agrees(p.result, result, NoHash)
  /\ Agrees(p.transcript, transcript, NoHash)
  /\ Agrees(p.slot, slot, 0)
  /\ poi' = [poi EXCEPT ![t] = q]
  /\ IF RequestIdByTaskId(t) # 0
     THEN TryFinalize(t, requests[t], OpenChallenge(t), q, balance, wallet)
     ELSE UNCHANGED <<requests, pendingByRequester, requestBondLocked,
                      workerBondLocked, balance, wallet>>
  /\ UNCHANGED <<now, nextRequestId, challenges, settings, workerBond, registryVars>>

ReclaimAfterFinalizeTimeout(a, id) ==
  LET r == requests[id] IN
  /\ r.requester = a
  /\ r.finalizedAt = 0
  /\ now > r.finalizeDeadline
  /\ ~OpenChallenge(id)
  /\ r.status \in Reclaimable
  /\ CanPay(a, r.fee)
  /\ requests' = [requests EXCEPT ![id] = EndAs(@, "Cancelled")]
  /\ pendingByRequester' = LessPending(a)
  /\ balance' = balance - r.fee
  /\ wallet' = Pay(wallet, a, r.fee)
  /\ UNCHANGED <<now, nextRequestId, challenges, poi, settings, workerBond,
                 workerBondLocked, requestBondLocked, registryVars>>

(* receive(): a plain transfer to the contract. *)
ReceiveEther(a, value) ==
  /\ value # 0
  /\ PaidBy(a, value)
  /\ UNCHANGED <<now, nextRequestId, requests, challenges, poi, settings,
                 pendingByRequester, workerBond, workerBondLocked,
                 requestBondLocked, registryVars>>
-----------------------------------------------------------------------------
(* Owner's setters, one parameter (or group of them) at a time. *)

Tune(newSettings) ==
  /\ settings' = newSettings
  /\ UNCHANGED <<now, nextRequestId, requests, challenges, poi, moneyVars, registryVars>>

SetTreasury(a) == Tune([settings EXCEPT !.treasury = a])
SetResolver(a) == Tune([settings EXCEPT !.resolver = a])
SetSpamControls(fee, pending) ==
  Tune([settings EXCEPT !.minRequestFeeWei = fee, !.maxPendingPerRequester = pending])
SetWorkerBondParams(bond) == Tune([settings EXCEPT !.minWorkerBondWei = bond])
SetProtocolFee(bps) ==
  /\ bps <= BpsBase
  /\ Tune([settings EXCEPT !.protocolFeeBps = bps])
SetTimeouts(t) ==
  /\ t[1] # 0 /\ t[2] # 0 /\ t[3] # 0
  /\ Tune([settings EXCEPT !.commitTimeoutSecs = t[1], !.revealTimeoutSecs = t[2],
                           !.finalizeTimeoutSecs = t[3]])
SetPoIQuorum(q) ==
  /\ q # 0
  /\ Tune([settings EXCEPT !.poiQuorum = q])
SetValidatorRegistry(r) == Tune([settings EXCEPT !.registry = r])
SetChallengeBond(bond) == Tune([settings EXCEPT !.minChallengeBondWei = bond])

OwnerTunes ==
  \/ \E a \in Tunable.treasury : SetTreasury(a)
  \/ \E a \in Tunable.resolver : SetResolver(a)
  \/ \E f \in Tunable.minRequestFeeWei, p \in Tunable.maxPendingPerRequester :
       SetSpamControls(f, p)
  \/ \E b \in Tunable.minWorkerBondWei : SetWorkerBondParams(b)
  \/ \E b \in Tunable.protocolFeeBps : SetProtocolFee(b)
  \/ \E t \in Tunable.timeouts : SetTimeouts(t)
  \/ \E q \in Tunable.poiQuorum : SetPoIQuorum(q)
  \/ \E r \in Tunable.registry : SetValidatorRegistry(r)
  \/ \E b \in Tunable.minChallengeBondWei : SetChallengeBond(b)
-----------------------------------------------------------------------------
(* Blocks are produced: time passes, up to the bound of the run. *)
Tick ==
  /\ now < MaxTime
  /\ now' = now + 1
  /\ UNCHANGED <<nextRequestId, requests, challenges, poi, settings, moneyVars,
                 registryVars>>

RegistryStep ==
  /\ Registry!Next
  /\ UNCHANGED <<now, nextRequestId, requests, challenges, poi, settings, moneyVars>>

RequesterStep ==
  \E a \in Requesters :
    \/ \E v \in Values : RequestInferenceV2(a, v)
    \/ \E id \in RequestIds :
         CancelExpired(a, id) \/ ReclaimAfterFinalizeTimeout(a, id)

WorkerStep ==
  \E w \in Workers :
    \/ \E v \in Values : DepositWorkerBond(w, v) \/ WithdrawWorkerBond(w, v)
    \/ \E id \in RequestIds, h \in Hashes \cup {Unopenable} : CommitInference(w, id, h)
    \/ \E id \in RequestIds, h \in Hashes : RevealInference(w, id, h)

ChallengerStep ==
  \E a \in Challengers, id \in RequestIds, v \in Values : OpenDispute(a, id, v)

ResolverStep ==
  \E a \in Accounts, id \in RequestIds : UpholdWorker(a, id) \/ RejectWorker(a, id)

AttestationStep ==
  \E v \in Validators, t \in RequestIds, h \in Hashes, x \in Transcripts, s \in Slots :
    SubmitPoIAttestation(v, t, h, x, s)

Next ==
  \/ RequesterStep \/ WorkerStep \/ ChallengerStep \/ ResolverStep
  \/ AttestationStep \/ OwnerTunes \/ RegistryStep \/ Tick
  \/ \E id \in RequestIds : TimeoutReveal(id)
  \/ \E a \in Accounts, v \in Values : ReceiveEther(a, v)

Spec == Init /\ [][Next]_vars
=============================================================================
