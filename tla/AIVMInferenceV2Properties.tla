---------------------- MODULE AIVMInferenceV2Properties ----------------------
(***************************************************************************)
(* What AIVMInferenceV2 must guarantee, and the escrow it implements.      *)
(***************************************************************************)
EXTENDS AIVMInferenceV2

(* What the contract owes: escrowed fees, deposited bonds, dispute bonds. *)
Fees           == [id \in RequestIds |-> requests[id].fee]
ChallengeBonds == [id \in RequestIds |-> challenges[id].bond]
Owed == Total(Fees, RequestIds) + Total(workerBond, Accounts)
                                + Total(ChallengeBonds, RequestIds)

(* The bonds locked for the requests that w committed to. *)
LocksOf(w) ==
  [id \in RequestIds |-> IF requests[id].worker = w THEN requestBondLocked[id] ELSE 0]

PendingOf(a) ==
  {id \in RequestIds : requests[id].requester = a /\ requests[id].status \in Live}

(* Every settlement path pays out of the one pool of ETH, so paying one party *)
(* twice would be paid by another.  The contract always holds what it owes,   *)
(* whichever way fees, worker bonds and challenge bonds have been paid out.   *)
Solvent == balance >= Owed

(* workerBondLocked is kept per worker and requestBondLocked per request, by  *)
(* five functions.  The first is the sum of the second over the worker's      *)
(* requests, and within its deposit, so that no slash can underflow.          *)
LocksMatch ==
  \A w \in Accounts : /\ workerBondLocked[w] = Total(LocksOf(w), RequestIds)
                      /\ workerBondLocked[w] <= workerBond[w]

(* pendingByRequester counts the requester's live requests, on every path on  *)
(* which one ends: a missed decrement would lock a requester out for good at  *)
(* maxPendingPerRequester, one too many would revert a settlement.            *)
PendingMatches ==
  \A a \in Accounts : pendingByRequester[a] = Cardinality(PendingOf(a))

(* resolveChallenge checks no status and challenge, reclaim and _tryFinalize  *)
(* each check the other record: a request is Disputed exactly when its        *)
(* challenge is open, and only a live request can hold a fee or a dispute bond.*)
DisputeMatch(id) ==
  /\ requests[id].status = "Disputed" <=> OpenChallenge(id)
  /\ requests[id].status \notin Live => requests[id].fee = 0
  /\ ~OpenChallenge(id) => challenges[id].bond = 0
DisputeMatches == \A id \in RequestIds : DisputeMatch(id)

(* Which fields are set in which state: what every function relies on when it *)
(* reads worker, requester or finalizedAt of a request it has found by status,*)
(* and that only a worker's commitment locks bond.                            *)
Shape(id) ==
  LET r == requests[id] IN
  /\ r.status = "None" <=> id >= nextRequestId
  /\ r.status # "None" => r.requester \in Accounts
  /\ r.status \in {"None", "Requested"} => r.worker = NoAddr /\ requestBondLocked[id] = 0
  /\ r.status \in {"Committed", "Revealed", "Disputed"} => r.worker \in Accounts
  /\ r.finalizedAt # 0 <=> r.status = "Finalized"
  /\ challenges[id].challenger # NoAddr =>
       r.status \in {"Revealed", "Disputed", "Finalized", "Cancelled"}
RequestShape == \A id \in RequestIds : Shape(id)

(* Step 5 of the contract's header: "once quorum reached and responseHash     *)
(* matches, request finalizes".  No revealed, undisputed request in time is   *)
(* left behind with a full quorum, whichever of reveal, attestation and       *)
(* dispute resolution came last.                                              *)
QuorumFinalizes ==
  \A id \in RequestIds : ~Finalizable(requests[id], OpenChallenge(id), poi[id])

(* Line 698: reclaimAfterFinalizeTimeout "Leaves any worker bond locked  *)
(* until a dispute/challenge is resolved, or until operator slashes": a bond  *)
(* is locked only while some transaction can still unlock or slash it.        *)
LockCanStillEnd ==
  \A id \in RequestIds :
    requestBondLocked[id] > 0 => requests[id].status \in Live

(* getActiveValidators walks validatorList, isActive lives in the mapping and *)
(* _isActiveValidator reads that: in any order of registrations and flag      *)
(* changes the array returned has every active validator of the mapping, once.*)
ActiveListExact ==
  LET listed == Registry!GetActiveValidators IN
  /\ {listed[j] : j \in DOMAIN listed} = {v \in Validators : validators[v].isActive}
  /\ \A i, j \in DOMAIN listed : listed[i] = listed[j] => i = j

Ends(id, status) == requests[id].status \in Live /\ requests'[id].status = status

(* A fee is released to a worker only on the word of a quorum of distinct     *)
(* validators for exactly the response the worker had committed to, in time   *)
(* and with no dispute open.                                                  *)
FinalizedByQuorum ==
  [][\A id \in RequestIds : Ends(id, "Finalized") =>
       /\ Cardinality(poi'[id].attested) >= settings.poiQuorum
       /\ poi'[id].result = requests[id].commitment
       /\ now <= requests[id].finalizeDeadline
       /\ ~OpenChallenge(id)']_vars

(* A request that has ended stays as it ended: no late reveal, attestation,   *)
(* dispute, timeout or reclaim reopens it or moves its money again.           *)
EndedForever ==
  [][\A id \in RequestIds : requests[id].status \in Ended =>
       /\ requests'[id] = requests[id]
       /\ challenges'[id] = challenges[id]]_vars

(* When a request ends, the fee goes out whole and to the right party: back   *)
(* to the requester, or shared between worker and treasury to the last wei.   *)
SettledInFull ==
  [][\A id \in RequestIds :
       LET r       == requests[id]
           Gain(a) == wallet'[a] - wallet[a]
           cut     == (r.fee * settings.protocolFeeBps) \div BpsBase
       IN  /\ Ends(id, "Cancelled") \/ Ends(id, "TimedOut") => Gain(r.requester) >= r.fee
           /\ Ends(id, "Finalized") =>
                /\ Gain(r.worker) >= r.fee - cut
                /\ Gain(settings.treasury) >= cut
                /\ r.worker = settings.treasury => Gain(r.worker) >= r.fee]_vars

(* A bond is lost only by a worker that missed its reveal deadline or lost a  *)
(* dispute, only as much as was locked for that request, and to its requester;*)
(* any other decrease is the worker's own withdrawal of unlocked bond.        *)
SlashJustified ==
  [][\A w \in Accounts : workerBond'[w] < workerBond[w] =>
       LET lost == workerBond[w] - workerBond'[w]
       IN  \/ /\ wallet'[w] = wallet[w] + lost
              /\ UNCHANGED <<requests, workerBondLocked>>
           \/ \E id \in RequestIds :
                LET r == requests[id] IN
                /\ r.worker = w
                /\ lost = requestBondLocked[id]
                /\ wallet'[r.requester] >= wallet[r.requester] + lost
                /\ \/ r.status = "Committed" /\ now > r.revealDeadline
                   \/ OpenChallenge(id) /\ challenges'[id].resolved
                                        /\ ~challenges'[id].upheld]_vars
-----------------------------------------------------------------------------
(* Fairness.  Time passes; a requester whose money is refundable asks for it  *)
(* (cancelExpired, reclaimAfterFinalizeTimeout are its own calls); the        *)
(* resolver, a role of the operator, decides the disputes before it.  Workers,*)
(* validators and challengers owe nobody anything.                            *)
RequesterRefund(id) ==
  \E a \in Requesters : CancelExpired(a, id) \/ ReclaimAfterFinalizeTimeout(a, id)
Resolve(id) == \E a \in Accounts : UpholdWorker(a, id) \/ RejectWorker(a, id)

FairSpec ==
  /\ Spec
  /\ WF_vars(Tick)
  /\ \A id \in RequestIds : WF_vars(RequesterRefund(id)) /\ WF_vars(Resolve(id))

(* No sequence of transactions can keep a requester's money in the contract:  *)
(* every request ends, once its last deadline is inside the run.              *)
EveryRequestEnds ==
  \A id \in RequestIds :
    (requests[id].status \in Live /\ requests[id].finalizeDeadline < MaxTime)
      ~> requests[id].status \in Ended
-----------------------------------------------------------------------------
(* The escrow of fees that all this implements: bonds are set aside, and a    *)
(* request is held, released or refunded.                                     *)
Phase(id) ==
  CASE requests[id].status = "None"      -> "none"
    [] requests[id].status \in Live      -> "held"
    [] requests[id].status = "Finalized" -> "released"
    [] OTHER                             -> "refunded"

Escrow == INSTANCE FeeEscrow WITH
  Ids   <- RequestIds,
  phase <- [id \in RequestIds |-> Phase(id)],
  held  <- Fees,
  pot   <- balance - Total(workerBond, Accounts) - Total(ChallengeBonds, RequestIds)

(* Each transaction is an escrow step or leaves the escrow alone: no path     *)
(* pays a fee twice, in part, or out of the bonds, and none strands it.       *)
ImplementsEscrow == Escrow!Spec
=============================================================================
