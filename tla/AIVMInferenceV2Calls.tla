------------------------ MODULE AIVMInferenceV2Calls ------------------------
(***************************************************************************)
(* AIVMInferenceV2 with the transactions that send ETH taken apart at their*)
(* calls.  A payee is a contract that may call back while it is paid: the  *)
(* functions that are nonReentrant refuse it, requestInferenceV2,          *)
(* depositWorkerBond, commitInference, challenge, receive, the owner's     *)
(* setters and the registry do not.  An action is what runs from one call  *)
(* to the next.                                                            *)
(*                                                                         *)
(* A call with nothing after it is no step of its own: what its payee does *)
(* in it, it could do just after the transaction.  A transaction some      *)
(* payment of which is refused reverts with all that was nested in it, and *)
(* is no step; that of a decision's treasury is known only when the        *)
(* transaction gets there, and its beginning then has no end.              *)
(***************************************************************************)
EXTENDS AIVMInferenceV2Properties

VARIABLE call  \* the transaction that is under way

callVars == <<vars, call>>

Deciding == {"conclude", "punish", "refund", "close"}

(* What it does next and for which request, the share of a finalized fee it  *)
(* has still to pay, and whether the amount just sent made a payee run.      *)
Call ==
  [next : {"nothing", "payWorker", "slash"} \cup Deciding,
   id : RequestIds \cup {0}, due : Nat, payeeRuns : BOOLEAN]

NoCall == [next |-> "nothing", id |-> 0, due |-> 0, payeeRuns |-> FALSE]

Sent(amount, next, id, due) ==
  call' = [next |-> next, id |-> id, due |-> due, payeeRuns |-> amount # 0]

CallsInit == Init /\ call = NoCall
-----------------------------------------------------------------------------
(* _tryFinalize, up to the payment of the treasury and then of the worker.   *)
TryFinalizeCalling(id, r, open, p) ==
  IF Finalizable(r, open, p)
  THEN LET protocolFee == ProtocolFee(r.fee)
           workerPaid  == WorkerShare(r.fee)
       IN  /\ CanPay(settings.treasury, protocolFee)
           /\ CanPay(r.worker, workerPaid)
           /\ Finalize(id, r)
           /\ balance' = balance - protocolFee
           /\ wallet' = Pay(wallet, settings.treasury, protocolFee)
           /\ Sent(protocolFee, "payWorker", id, workerPaid)
  ELSE /\ Unfinalized(id, r)
       /\ UNCHANGED <<balance, wallet>>
       /\ call' = NoCall

PayWorker ==
  /\ call.next = "payWorker"
  /\ balance' = balance - call.due
  /\ wallet' = Pay(wallet, requests[call.id].worker, call.due)
  /\ call' = NoCall
  /\ UNCHANGED <<now, nextRequestId, requests, challenges, poi, settings,
                 pendingByRequester, workerBond, workerBondLocked,
                 requestBondLocked, registryVars>>

BeginReveal(w, id, response) ==
  /\ call = NoCall
  /\ requests[id].status = "Committed"
  /\ requests[id].worker = w
  /\ now <= requests[id].revealDeadline
  /\ ~OpenChallenge(id)
  /\ requests[id].commitment = response
  /\ TryFinalizeCalling(id,
       [requests[id] EXCEPT !.status = "Revealed", !.responseHash = response], FALSE, poi[id])
  /\ UNCHANGED <<now, nextRequestId, challenges, poi, settings, workerBond, registryVars>>

BeginAttestation(v, t, result, transcript, slot) ==
  LET p == poi[t]
      q == Attested(p, v, result, transcript, slot)
  IN
  /\ call = NoCall
  /\ IsActiveValidator(v)
  /\ v \notin p.attested
  /\ Agrees(p.result, result, NoHash)
  /\ Agrees(p.transcript, transcript, NoHash)
  /\ Agrees(p.slot, slot, 0)
  /\ poi' = [poi EXCEPT ![t] = q]
  /\ IF RequestIdByTaskId(t) # 0
     THEN TryFinalizeCalling(t, requests[t], OpenChallenge(t), q)
     ELSE /\ UNCHANGED <<requests, pendingByRequester, requestBondLocked,
                         workerBondLocked, balance, wallet>>
          /\ call' = NoCall
  /\ UNCHANGED <<now, nextRequestId, challenges, settings, workerBond, registryVars>>
-----------------------------------------------------------------------------
(* timeoutReveal: the fee, then the worker's bond, to the requester. *)
BeginTimeout(id) ==
  LET r == requests[id] IN
  /\ call = NoCall
  /\ r.status = "Committed"
  /\ now > r.revealDeadline
  /\ CanPay(r.requester, r.fee + requestBondLocked[id])
  /\ requests' = [requests EXCEPT ![id] = EndAs(@, "TimedOut")]
  /\ pendingByRequester' = LessPending(r.requester)
  /\ balance' = balance - r.fee
  /\ wallet' = Pay(wallet, r.requester, r.fee)
  /\ Sent(r.fee, "slash", id, 0)
  /\ UNCHANGED <<now, nextRequestId, challenges, poi, settings, workerBond,
                 workerBondLocked, requestBondLocked, registryVars>>

(* The lock is read after the call that came before. *)
PaySlashed ==
  LET id == call.id
      b  == requestBondLocked[id]
  IN
  /\ call.next \in {"slash", "punish"}
  /\ SlashBond(id)
  /\ balance' = balance - b
  /\ wallet' = Pay(wallet, requests[id].requester, b)
  /\ \/ call.next = "slash" /\ call' = NoCall
     \/ call.next = "punish" /\ Sent(b, "refund", id, 0)
  /\ UNCHANGED <<now, nextRequestId, requests, challenges, poi, settings,
                 pendingByRequester, registryVars>>
-----------------------------------------------------------------------------
(* resolveChallenge: the winner takes the challenger's bond while the request *)
(* is still Disputed and its challenge already resolved.                      *)
Winner(id, uphold) ==
  IF uphold THEN requests[id].worker ELSE challenges[id].challenger

(* For comparison: the dispute is cleared away before the bond is paid. *)
BeginDecisionClearing(a, id, uphold) ==
  LET bond == challenges[id].bond IN
  /\ call = NoCall
  /\ a = settings.resolver
  /\ OpenChallenge(id)
  /\ CanPay(Winner(id, uphold), bond)
  /\ challenges' = [challenges EXCEPT ![id] = NoChallenge]
  /\ requests' = [requests EXCEPT ![id].status = "Revealed"]
  /\ balance' = balance - bond
  /\ wallet' = Pay(wallet, Winner(id, uphold), bond)
  /\ Sent(bond, IF uphold THEN "conclude" ELSE "punish", id, 0)
  /\ UNCHANGED <<now, nextRequestId, poi, settings, pendingByRequester,
                 workerBond, workerBondLocked, requestBondLocked, registryVars>>

BeginDecision(a, id, uphold) ==
  LET r    == requests[id]
      bond == challenges[id].bond
  IN
  /\ call = NoCall
  /\ a = settings.resolver
  /\ OpenChallenge(id)
  /\ CanPay(Winner(id, uphold), bond)
  /\ uphold \/ CanPay(r.requester, r.fee + requestBondLocked[id])
  /\ challenges' = [challenges EXCEPT ![id] =
       [@ EXCEPT !.resolved = TRUE, !.upheld = uphold, !.bond = 0]]
  /\ balance' = balance - bond
  /\ wallet' = Pay(wallet, Winner(id, uphold), bond)
  /\ Sent(bond, IF uphold THEN "conclude" ELSE "punish", id, 0)
  /\ UNCHANGED <<now, nextRequestId, requests, poi, settings, pendingByRequester,
                 workerBond, workerBondLocked, requestBondLocked, registryVars>>

(* For comparison: the quorum is not looked at again. *)
ConcludeUnchecked ==
  LET id == call.id
      r  == requests[id]
  IN
  /\ call.next = "conclude"
  /\ Finalize(id, r)
  /\ balance' = balance - ProtocolFee(r.fee)
  /\ wallet' = Pay(wallet, settings.treasury, ProtocolFee(r.fee))
  /\ Sent(ProtocolFee(r.fee), "payWorker", id, WorkerShare(r.fee))
  /\ UNCHANGED <<now, nextRequestId, challenges, poi, settings, workerBond, registryVars>>

(* Upheld: finalization is tried under the settings the payee has left. *)
Conclude ==
  LET id == call.id IN
  /\ call.next = "conclude"
  /\ TryFinalizeCalling(id, [requests[id] EXCEPT !.status = "Revealed"], FALSE, poi[id])
  /\ UNCHANGED <<now, nextRequestId, challenges, poi, settings, workerBond, registryVars>>

(* For comparison: the fee is zeroed once it has been sent. *)
RefundFeeThenZero ==
  LET r == requests[call.id] IN
  /\ call.next = "refund"
  /\ balance' = balance - r.fee
  /\ wallet' = Pay(wallet, r.requester, r.fee)
  /\ Sent(r.fee, "close", call.id, 0)
  /\ UNCHANGED <<now, nextRequestId, requests, challenges, poi, settings, pendingByRequester,
                 workerBond, workerBondLocked, requestBondLocked, registryVars>>

(* Rejected: after PaySlashed the fee goes back; the request ends last. *)
RefundFee ==
  LET r == requests[call.id] IN
  /\ call.next = "refund"
  /\ requests' = [requests EXCEPT ![call.id].fee = 0]
  /\ balance' = balance - r.fee
  /\ wallet' = Pay(wallet, r.requester, r.fee)
  /\ Sent(r.fee, "close", call.id, 0)
  /\ UNCHANGED <<now, nextRequestId, challenges, poi, settings, pendingByRequester,
                 workerBond, workerBondLocked, requestBondLocked, registryVars>>

(* For comparison: the pending counter is not decremented. *)
CloseStillPending ==
  /\ call.next = "close"
  /\ requests' = [requests EXCEPT ![call.id].status = "Cancelled"]
  /\ call' = NoCall
  /\ UNCHANGED <<now, nextRequestId, challenges, poi, settings, moneyVars, registryVars>>

CloseRejected ==
  /\ call.next = "close"
  /\ requests' = [requests EXCEPT ![call.id].status = "Cancelled"]
  /\ pendingByRequester' = LessPending(requests[call.id].requester)
  /\ call' = NoCall
  /\ UNCHANGED <<now, nextRequestId, challenges, poi, settings, workerBond,
                 workerBondLocked, requestBondLocked, balance, wallet, registryVars>>
-----------------------------------------------------------------------------
(* The functions without a lock: at any time, or by a payee. *)
Unlocked ==
  \/ \E a \in Requesters, v \in Values : RequestInferenceV2(a, v)
  \/ \E w \in Workers, v \in Values : DepositWorkerBond(w, v)
  \/ \E w \in Workers, id \in RequestIds, h \in Hashes \cup {Unopenable} :
       CommitInference(w, id, h)
  \/ ChallengerStep \/ OwnerTunes \/ RegistryStep
  \/ \E a \in Accounts, v \in Values : ReceiveEther(a, v)

UnlockedStep ==
  /\ call = NoCall \/ call.payeeRuns
  /\ Unlocked
  /\ UNCHANGED call

(* The nonReentrant transactions that pay once, at their end, and the clock. *)
LockedStep ==
  /\ call = NoCall
  /\ \/ \E w \in Workers, v \in Values : WithdrawWorkerBond(w, v)
     \/ \E a \in Requesters, id \in RequestIds :
          CancelExpired(a, id) \/ ReclaimAfterFinalizeTimeout(a, id)
     \/ Tick
  /\ UNCHANGED call

BeginStep ==
  \/ \E w \in Workers, id \in RequestIds, h \in Hashes : BeginReveal(w, id, h)
  \/ \E v \in Validators, t \in RequestIds, h \in Hashes, x \in Transcripts, s \in Slots :
       BeginAttestation(v, t, h, x, s)
  \/ \E id \in RequestIds : BeginTimeout(id)
  \/ \E a \in Accounts, id \in RequestIds, uphold \in BOOLEAN : BeginDecision(a, id, uphold)

ResumeStep == PayWorker \/ PaySlashed \/ Conclude \/ RefundFee \/ CloseRejected

CallsNext == UnlockedStep \/ LockedStep \/ BeginStep \/ ResumeStep

CallsSpec == CallsInit /\ [][CallsNext]_callVars
-----------------------------------------------------------------------------
(* Whatever a payee does before the transaction that pays it goes on, the    *)
(* contract holds all it owes, the share of a fee still to be paid included. *)
Covered == balance >= Owed + call.due

(* A transaction resumes on what it reads from storage.  Until then no payee  *)
(* can touch the request it settles, the request's challenge or the bond      *)
(* locked for it: the status left behind stops every function without a lock. *)
Undisturbed ==
  [][call.next # "nothing" /\ UNCHANGED call =>
       /\ requests'[call.id] = requests[call.id]
       /\ challenges'[call.id] = challenges[call.id]
       /\ requestBondLocked'[call.id] = requestBondLocked[call.id]]_callVars

(* Between its calls resolveChallenge leaves a Disputed request with no open  *)
(* challenge, or one with no fee that counts as pending: no other request is  *)
(* ever seen in such a state, and nothing of it is left when it returns.      *)
WholeAtRest ==
  /\ \A id \in RequestIds :
       DisputeMatch(id) \/ (call.next \in Deciding /\ id = call.id)
  /\ LocksMatch /\ PendingMatches

(* The escrow of fees, a payee's nested transactions included: a fee is still *)
(* refunded once and whole, though the request ends a call later, and         *)
(* released once and whole, though in two payments.                           *)
CallPhase(id) ==
  IF call.next = "close" /\ call.id = id THEN "refunded" ELSE Phase(id)

EscrowCalling == INSTANCE FeeEscrow WITH
  Ids   <- RequestIds,
  phase <- [id \in RequestIds |-> CallPhase(id)],
  held  <- Fees,
  pot   <- balance - call.due - Total(workerBond, Accounts) - Total(ChallengeBonds, RequestIds)

CallsImplementEscrow == EscrowCalling!Spec
=============================================================================
