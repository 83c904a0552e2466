--------------------- MODULE AIVMInferenceV2Settlements ---------------------
(***************************************************************************)
(* How requests end and who is paid, for every number of accounts, requests*)
(* and validators and every choice of amounts, settings and deadlines.     *)
(*                                                                         *)
(* The first part: a request is finalized on the word of a quorum, and     *)
(* ends for good in every case.  On top of the inductive invariant this    *)
(* needs that attestations are counted by validator, and that a revealed   *)
(* response is the one committed to.                                       *)
(*                                                                         *)
(* The second part: fees are settled in full and as FeeEscrow has it, and  *)
(* bonds are lost for cause.  Each transaction moves the money of one      *)
(* request and one worker at most (Moves); the inductive invariant gives   *)
(* the types and that a live request's parties are accounts.               *)
(*                                                                         *)
(* The third part: no complete quorum is left behind, unless the owner     *)
(* lowers the quorum; and the list of the registry is exact.               *)
(*                                                                         *)
(* The fourth part: the same contract with its transactions taken apart at *)
(* their calls.  The invariant and most of its lemmas were stated for what *)
(* holds there too: a dispute being decided, a share still to be paid.  On *)
(* it rest what a payee cannot reach, that all owed is always held, and    *)
(* the quorum, the ends and the escrow of the first two parts once more.   *)
(***************************************************************************)
EXTENDS AIVMInferenceV2Proofs, AIVMInferenceV2Calls, Sequences

(* The running count of attestations, which is what is compared with the     *)
(* quorum, is the number of distinct validators that attested.               *)
Counted(t) == poi[t].count = Cardinality(poi[t].attested)

Answered(id) ==
  requests[id].status \in {"Revealed", "Disputed"} =>
    requests[id].responseHash = requests[id].commitment

Backed == \A id \in RequestIds : Counted(id) /\ Answered(id)

SInv == IInv /\ Backed

(* What the lemmas need of this, and of the invariant of the fourth part. *)
Grounds == TypeOK /\ RequestShape /\ Backed

(* The two action properties, for one request. *)
StaysEnded(id) == requests[id].status \in Ended =>
  requests'[id] = requests[id] /\ challenges'[id] = challenges[id]

ByQuorum(id) ==
  /\ Cardinality(poi'[id].attested) >= settings.poiQuorum
  /\ poi'[id].result = requests[id].commitment
  /\ now <= requests[id].finalizeDeadline
  /\ ~OpenChallenge(id)'

(* What _tryFinalize records, whichever way it pays. *)
Tries(id, r, open, p) ==
  IF Finalizable(r, open, p) THEN Finalize(id, r) ELSE Unfinalized(id, r)

Good(id) == Answered(id)' /\ StaysEnded(id) /\ (Ends(id, "Finalized") => ByQuorum(id))

LEMMA SInvGrounds == SInv => Grounds
BY DEF SInv, IInv, Grounds

LEMMA TryTries ==
  ASSUME NEW id, NEW r, NEW open, NEW p, NEW money, NEW purse,
         TryFinalize(id, r, open, p, money, purse)
  PROVE  Tries(id, r, open, p)
BY Zenon DEF TryFinalize, Tries

LEMMA InitBacked == Init => Backed
<1>1. Cardinality({}) = 0  BY FS_EmptySet
<1> SUFFICES ASSUME Init, NEW id \in RequestIds PROVE Counted(id) /\ Answered(id)
  BY DEF Backed
<1>2. poi[id] = NoPoI /\ requests[id] = NoRequest  BY DEF Init
<1>3. NoPoI.count = 0 /\ NoPoI.attested = {}  BY DEF NoPoI
<1>4. NoRequest.status = "None"  BY DEF NoRequest
<1>5. Counted(id)  BY <1>1, <1>2, <1>3 DEF Counted
<1>6. Answered(id)  BY <1>2, <1>4 DEF Answered
<1> QED  BY <1>5, <1>6

(* A step that leaves requests and challenges alone. *)
LEMMA QuietGood ==
  ASSUME Grounds, UNCHANGED <<requests, challenges>>, NEW id \in RequestIds
  PROVE  Good(id)
BY DEF Grounds, Backed, Good, Answered, StaysEnded, Ends, Live

(* A step of one live request that does not finalize it. *)
LEMMA OneGood ==
  ASSUME Grounds, NEW id \in RequestIds, NEW r,
         requests' = [requests EXCEPT ![id] = r],
         requests[id].status \notin Ended, r.status # "Finalized",
         r.status \in {"Revealed", "Disputed"} => r.responseHash = r.commitment,
         \A u \in RequestIds \ {id} : challenges'[u] = challenges[u],
         NEW u \in RequestIds
  PROVE  Good(u)
<1>1. requests'[u] = IF u = id THEN r ELSE requests[u]  BY DEF Grounds, TypeOK
<1>2. Answered(u)  BY DEF Grounds, Backed
<1> QED  BY <1>1, <1>2 DEF Good, Answered, StaysEnded, Ends, Live

(* A step that ends with the attempt to finalize. *)
LEMMA TryGood ==
  ASSUME Grounds, NEW id \in RequestIds, NEW r \in Request, NEW open \in BOOLEAN, NEW p \in PoI,
         Tries(id, r, open, p), poi'[id] = p, p.count = Cardinality(p.attested),
         open <=> OpenChallenge(id)',
         r.status \in {"Revealed", "Disputed"} => r.responseHash = r.commitment,
         r.commitment = requests[id].commitment \/ r.status # "Revealed",
         r.finalizeDeadline = requests[id].finalizeDeadline,
         r.status # "Finalized" \/ requests[id].status \notin Live,
         requests[id].status \in Ended => r = requests[id] /\ challenges'[id] = challenges[id],
         \A u \in RequestIds \ {id} : challenges'[u] = challenges[u],
         NEW u \in RequestIds
  PROVE  Good(u)
<1>1. Answered(u)  BY DEF Grounds, Backed
<1>2. CASE Finalizable(r, open, p)
  <2> DEFINE f == [r EXCEPT !.status = "Finalized", !.finalizedAt = now, !.fee = 0]
  <2>1. requests' = [requests EXCEPT ![id] = f]  BY <1>2 DEF Tries, Finalize
  <2>2. requests'[u] = IF u = id THEN f ELSE requests[u]
    BY <2>1 DEF Grounds, TypeOK
  <2>3. f.status = "Finalized"  BY DEF Request
  <2>4. requests[id].status \notin Ended  BY <1>2 DEF Finalizable, Ended
  <2>5. r.status = "Revealed" /\ ~open /\ now <= r.finalizeDeadline /\ p.result = r.responseHash /\ p.count >= settings.poiQuorum
    BY <1>2 DEF Finalizable
  <2>6. ByQuorum(id)  BY <2>5 DEF ByQuorum
  <2> HIDE DEF f
  <2> QED  BY <1>1, <2>2, <2>3, <2>4, <2>6 DEF Good, Answered, StaysEnded, Ends, Live
<1>3. CASE ~Finalizable(r, open, p)
  <2>1. requests' = [requests EXCEPT ![id] = r]  BY <1>3 DEF Tries, Unfinalized
  <2>2. requests'[u] = IF u = id THEN r ELSE requests[u]
    BY <2>1 DEF Grounds, TypeOK
  <2>3. Answered(u)'
    BY <1>1, <2>2 DEF Answered
  <2>4. StaysEnded(u)
    BY <2>2 DEF StaysEnded
  <2>5. ~Ends(u, "Finalized")
    BY <2>2 DEF Ends, Live
  <2> QED  BY <2>3, <2>4, <2>5 DEF Good
<1> QED  BY <1>2, <1>3
-----------------------------------------------------------------------------
(* One lemma per transaction that moves a request. *)
LEMMA RequestGood ==
  ASSUME Grounds, NEW a \in Requesters, NEW value \in Values, RequestInferenceV2(a, value), NEW u \in RequestIds
  PROVE  Good(u)
<1> DEFINE id == nextRequestId
           c == now + settings.commitTimeoutSecs
           r == [NoRequest EXCEPT !.requester = a, !.fee = value, !.status = "Requested",
                   !.commitDeadline = c % TimeModulus,
                   !.revealDeadline = (c + settings.revealTimeoutSecs) % TimeModulus,
                   !.finalizeDeadline =
                     (c + settings.revealTimeoutSecs + settings.finalizeTimeoutSecs) % TimeModulus]
<1>1. requests' = [requests EXCEPT ![id] = r] /\ UNCHANGED challenges
  BY DEF RequestInferenceV2
<1>2. r.status = "Requested"  BY DEF NoRequest
<1>3. id \in RequestIds
  BY ConstantsAssumption DEF RequestInferenceV2, Grounds, TypeOK, RequestIds
<1>4. requests[id].status = "None"
  BY <1>3 DEF Grounds, TypeOK, RequestShape, Shape
<1> HIDE DEF r, id
<1> QED  BY <1>1, <1>2, <1>3, <1>4, OneGood DEF Ended

LEMMA CommitGood ==
  ASSUME Grounds, NEW w \in Workers, NEW id \in RequestIds, NEW h, CommitInference(w, id, h), NEW u \in RequestIds
  PROVE  Good(u)
<1> DEFINE r == [requests[id] EXCEPT !.status = "Committed", !.worker = w, !.commitment = h]
<1>1. requests' = [requests EXCEPT ![id] = r] /\ UNCHANGED challenges /\ requests[id].status = "Requested"
  BY DEF CommitInference, Grounds, TypeOK, Request
<1>2. r.status = "Committed"  BY DEF Grounds, TypeOK, Request
<1> HIDE DEF r
<1> QED  BY <1>1, <1>2, OneGood DEF Ended

LEMMA EndGood ==
  ASSUME Grounds, NEW id \in RequestIds, NEW status \in {"Cancelled", "TimedOut"},
         requests[id].status \notin Ended,
         requests' = [requests EXCEPT ![id] = EndAs(@, status)],
         \A u \in RequestIds \ {id} : challenges'[u] = challenges[u],
         NEW u \in RequestIds
  PROVE  Good(u)
<1> DEFINE r == EndAs(requests[id], status)
<1>1. requests' = [requests EXCEPT ![id] = r]  OBVIOUS
<1>2. r.status = status  BY DEF EndAs, Grounds, TypeOK, Request
<1> HIDE DEF r
<1> QED  BY <1>1, <1>2, OneGood

LEMMA CancelGood ==
  ASSUME Grounds, NEW a \in Requesters, NEW id \in RequestIds,
         CancelExpired(a, id) \/ ReclaimAfterFinalizeTimeout(a, id), NEW u \in RequestIds
  PROVE  Good(u)
BY EndGood DEF CancelExpired, ReclaimAfterFinalizeTimeout, Reclaimable, Ended

LEMMA TimeoutGood ==
  ASSUME Grounds, NEW id \in RequestIds, TimeoutReveal(id), NEW u \in RequestIds
  PROVE  Good(u)
BY EndGood DEF TimeoutReveal, Ended

LEMMA RejectGood ==
  ASSUME SInv, NEW a \in Accounts, NEW id \in RequestIds, RejectWorker(a, id), NEW u \in RequestIds
  PROVE  Good(u)
<1>1. requests[id].status = "Disputed"
  BY DEF RejectWorker, SInv, IInv, DisputeMatches, DisputeMatch
<1>2. \A k \in RequestIds \ {id} : challenges'[k] = challenges[k]
  BY DEF RejectWorker, SInv, IInv, TypeOK
<1>3. requests' = [requests EXCEPT ![id] = EndAs(@, "Cancelled")]
  BY DEF RejectWorker
<1> QED  BY <1>1, <1>2, <1>3, SInvGrounds, EndGood DEF Ended

LEMMA DisputeGood ==
  ASSUME Grounds, NEW a \in Challengers, NEW id \in RequestIds, NEW value \in Values, OpenDispute(a, id, value),
         NEW u \in RequestIds
  PROVE  Good(u)
<1> DEFINE r == [requests[id] EXCEPT !.status = "Disputed"]
<1>1. requests' = [requests EXCEPT ![id] = r] /\ requests[id].status = "Revealed"
  BY DEF OpenDispute, Grounds, TypeOK
<1>2. /\ r.status = "Disputed" /\ r.responseHash = requests[id].responseHash
      /\ r.commitment = requests[id].commitment
  BY DEF Grounds, TypeOK, Request
<1>3. requests[id].responseHash = requests[id].commitment
  BY <1>1 DEF Grounds, Backed, Answered
<1>4. \A k \in RequestIds \ {id} : challenges'[k] = challenges[k]
  BY DEF OpenDispute, Grounds, TypeOK
<1> HIDE DEF r
<1> QED  BY <1>1, <1>2, <1>3, <1>4, OneGood DEF Ended

LEMMA RevealTried ==
  ASSUME Grounds, NEW id \in RequestIds, NEW h \in Hashes,
         requests[id].status = "Committed", requests[id].commitment = h, ~OpenChallenge(id),
         Tries(id, [requests[id] EXCEPT !.status = "Revealed", !.responseHash = h], FALSE, poi[id]),
         UNCHANGED <<challenges, poi>>,
         NEW u \in RequestIds
  PROVE  Good(u)
<1> DEFINE r == [requests[id] EXCEPT !.status = "Revealed", !.responseHash = h]
<1>1. requests[id] \in Request /\ poi[id] \in PoI  BY DEF Grounds, TypeOK
<1>2. /\ r \in Request /\ r.status = "Revealed" /\ r.responseHash = h
      /\ r.commitment = requests[id].commitment /\ r.finalizeDeadline = requests[id].finalizeDeadline
  BY <1>1 DEF Request, Live
<1>3. poi[id].count = Cardinality(poi[id].attested)  BY DEF Grounds, Backed, Counted
<1>4. ~OpenChallenge(id)'  BY DEF OpenChallenge
<1> HIDE DEF r
<1> QED  BY <1>1, <1>2, <1>3, <1>4, TryGood DEF Ended, r

LEMMA RevealGood ==
  ASSUME Grounds, NEW w \in Workers, NEW id \in RequestIds, NEW h \in Hashes, RevealInference(w, id, h),
         NEW u \in RequestIds
  PROVE  Good(u)
<1>1. TryFinalize(id, [requests[id] EXCEPT !.status = "Revealed", !.responseHash = h], FALSE,
                  poi[id], balance, wallet)
  BY DEF RevealInference
<1> QED  BY <1>1, TryTries, RevealTried DEF RevealInference

(* The decision for the worker, its challenge resolved before or with it. *)
LEMMA ConcludeTried ==
  ASSUME Grounds, NEW id \in RequestIds, requests[id].status = "Disputed",
         Tries(id, [requests[id] EXCEPT !.status = "Revealed"], FALSE, poi[id]),
         UNCHANGED poi, ~OpenChallenge(id)',
         \A k \in RequestIds \ {id} : challenges'[k] = challenges[k],
         NEW u \in RequestIds
  PROVE  Good(u)
<1> DEFINE r == [requests[id] EXCEPT !.status = "Revealed"]
<1>1. requests[id] \in Request /\ poi[id] \in PoI  BY DEF Grounds, TypeOK
<1>2. /\ r \in Request /\ r.status = "Revealed" /\ r.responseHash = requests[id].responseHash
      /\ r.commitment = requests[id].commitment /\ r.finalizeDeadline = requests[id].finalizeDeadline
  BY <1>1 DEF Request, Live
<1>3. requests[id].responseHash = requests[id].commitment  BY DEF Grounds, Backed, Answered
<1>4. poi[id].count = Cardinality(poi[id].attested)  BY DEF Grounds, Backed, Counted
<1> HIDE DEF r
<1> QED  BY <1>1, <1>2, <1>3, <1>4, TryGood DEF Ended, r

LEMMA UpholdGood ==
  ASSUME SInv, NEW a \in Accounts, NEW id \in RequestIds, UpholdWorker(a, id), NEW u \in RequestIds
  PROVE  Good(u)
<1> DEFINE r == [requests[id] EXCEPT !.status = "Revealed"]
           c == [challenges[id] EXCEPT !.resolved = TRUE, !.upheld = TRUE, !.bond = 0]
           money == balance - challenges[id].bond
           purse == Pay(wallet, requests[id].worker, challenges[id].bond)
<1>1. /\ TryFinalize(id, r, FALSE, poi[id], money, purse) /\ UNCHANGED poi
      /\ challenges' = [challenges EXCEPT ![id] = c] /\ OpenChallenge(id)
  BY DEF UpholdWorker
<1>2. requests[id].status = "Disputed"
  BY <1>1 DEF SInv, IInv, DisputeMatches, DisputeMatch
<1>3. c.resolved  BY DEF SInv, IInv, TypeOK, Challenge
<1>4. challenges'[id] = c /\ \A k \in RequestIds \ {id} : challenges'[k] = challenges[k]
  BY <1>1 DEF SInv, IInv, TypeOK
<1>5. ~OpenChallenge(id)'  BY <1>3, <1>4 DEF OpenChallenge
<1>6. Tries(id, r, FALSE, poi[id])  BY <1>1, TryTries
<1> QED  BY <1>1, <1>2, <1>4, <1>5, <1>6, SInvGrounds, ConcludeTried

(* An attestation counts its validator, once. *)
LEMMA AttestationCounts ==
  ASSUME Grounds, NEW v \in Validators, NEW t \in RequestIds, NEW h \in Hashes,
         NEW x \in Transcripts, NEW n \in Slots, v \notin poi[t].attested
  PROVE  LET q == Attested(poi[t], v, h, x, n)
         IN  q \in PoI /\ q.count = Cardinality(q.attested)
<1> DEFINE q == Attested(poi[t], v, h, x, n)
<1>1. poi[t] \in PoI /\ n \in Nat  BY ConstantsAssumption DEF Grounds, TypeOK
<1>2. q \in PoI /\ q.count = poi[t].count + 1 /\ q.attested = poi[t].attested \cup {v}
  BY <1>1 DEF PoI, Attested
<1>3. IsFiniteSet(poi[t].attested)
  BY <1>1, ConstantsAssumption, FS_Subset DEF PoI
<1>4. Cardinality(poi[t].attested \cup {v}) = Cardinality(poi[t].attested) + 1
  BY <1>3, FS_AddElement
<1>5. poi[t].count = Cardinality(poi[t].attested)  BY DEF Grounds, Backed, Counted
<1> HIDE DEF q
<1>6. q \in PoI /\ q.count = Cardinality(q.attested)
  BY <1>2, <1>4, <1>5
<1> QED  BY <1>6 DEF q

LEMMA AttestationTried ==
  ASSUME Grounds, NEW v \in Validators, NEW t \in RequestIds, NEW h \in Hashes,
         NEW x \in Transcripts, NEW n \in Slots, v \notin poi[t].attested,
         poi' = [poi EXCEPT ![t] = Attested(poi[t], v, h, x, n)], UNCHANGED challenges,
         \/ Tries(t, requests[t], OpenChallenge(t), Attested(poi[t], v, h, x, n))
         \/ UNCHANGED requests,
         NEW u \in RequestIds
  PROVE  Good(u) /\ Counted(u)'
<1> DEFINE q == Attested(poi[t], v, h, x, n)
<1>1. q \in PoI /\ q.count = Cardinality(q.attested)
  BY AttestationCounts
<1> HIDE DEF q
<1>2. poi'[t] = q /\ poi'[u] = IF u = t THEN q ELSE poi[u]  BY DEF Grounds, TypeOK, q
<1>3. requests[t] \in Request  BY DEF Grounds, TypeOK
<1>4. requests[t].status \in {"Revealed", "Disputed"} => requests[t].responseHash = requests[t].commitment
  BY DEF Grounds, Backed, Answered
<1>5. OpenChallenge(t) \in BOOLEAN /\ (OpenChallenge(t) <=> OpenChallenge(t)')
  BY DEF OpenChallenge
<1>6. requests[t].status # "Finalized" \/ requests[t].status \notin Live  BY DEF Live
<1>7. Tries(t, requests[t], OpenChallenge(t), q) => Good(u)
  BY <1>1, <1>2, <1>3, <1>4, <1>5, <1>6, TryGood
<1>8. UNCHANGED requests => Good(u)  BY QuietGood
<1>9. Counted(u)'  BY <1>1, <1>2 DEF Counted, Grounds, Backed
<1> QED  BY <1>7, <1>8, <1>9 DEF q

LEMMA AttestationGood ==
  ASSUME Grounds, NEW v \in Validators, NEW t \in RequestIds, NEW h \in Hashes,
         NEW x \in Transcripts, NEW n \in Slots,
         SubmitPoIAttestation(v, t, h, x, n), NEW u \in RequestIds
  PROVE  Good(u) /\ Counted(u)'
<1> DEFINE q == Attested(poi[t], v, h, x, n)
<1>1. \/ TryFinalize(t, requests[t], OpenChallenge(t), q, balance, wallet)
      \/ UNCHANGED requests
  BY Zenon DEF SubmitPoIAttestation
<1>2. /\ poi' = [poi EXCEPT ![t] = q] /\ v \notin poi[t].attested
      /\ UNCHANGED challenges
  BY DEF SubmitPoIAttestation
<1> HIDE DEF q
<1>3. Tries(t, requests[t], OpenChallenge(t), q) \/ UNCHANGED requests
  BY <1>1, TryTries
<1> QED  BY <1>2, <1>3, AttestationTried DEF q
-----------------------------------------------------------------------------
(* Only an attestation changes what has been attested. *)
LEMMA PoIUnchanged ==
  ASSUME [Next]_vars, ~AttestationStep
  PROVE  UNCHANGED poi
<1>1. CASE RequesterStep
  BY <1>1 DEF RequesterStep, RequestInferenceV2, CancelExpired, ReclaimAfterFinalizeTimeout
<1>2. CASE WorkerStep
  BY <1>2 DEF WorkerStep, DepositWorkerBond, WithdrawWorkerBond, CommitInference, RevealInference
<1>3. CASE ChallengerStep  BY <1>3 DEF ChallengerStep, OpenDispute
<1>4. CASE ResolverStep  BY <1>4 DEF ResolverStep, UpholdWorker, RejectWorker
<1>5. CASE OwnerTunes
  BY <1>5 DEF OwnerTunes, SetTreasury, SetResolver, SetSpamControls, SetWorkerBondParams,
    SetProtocolFee, SetTimeouts, SetPoIQuorum, SetValidatorRegistry, SetChallengeBond, Tune
<1>6. CASE RegistryStep  BY <1>6 DEF RegistryStep
<1>7. CASE Tick  BY <1>7 DEF Tick
<1>8. CASE \E id \in RequestIds : TimeoutReveal(id)  BY <1>8 DEF TimeoutReveal
<1>9. CASE \E a \in Accounts, v \in Values : ReceiveEther(a, v)  BY <1>9 DEF ReceiveEther
<1>10. CASE UNCHANGED vars  BY <1>10 DEF vars
<1> QED  BY <1>1, <1>2, <1>3, <1>4, <1>5, <1>6, <1>7, <1>8, <1>9, <1>10 DEF Next

LEMMA CountedStep ==
  ASSUME SInv, [Next]_vars, NEW u \in RequestIds
  PROVE  Counted(u)'
<1>1. Counted(u)  BY DEF SInv, Backed
<1>2. CASE ~AttestationStep  BY <1>1, <1>2, PoIUnchanged DEF Counted
<1>3. CASE AttestationStep  BY <1>3, SInvGrounds, AttestationGood DEF AttestationStep
<1> QED  BY <1>2, <1>3

LEMMA GoodStep ==
  ASSUME SInv, [Next]_vars, NEW u \in RequestIds
  PROVE  Good(u)
<1> USE SInvGrounds
<1>1. CASE RequesterStep
  BY <1>1, RequestGood, CancelGood DEF RequesterStep
<1>2. CASE WorkerStep
  <2>1. PICK w \in Workers :
          \/ \E v \in Values : DepositWorkerBond(w, v) \/ WithdrawWorkerBond(w, v)
          \/ \E id \in RequestIds, h \in Hashes \cup {Unopenable} : CommitInference(w, id, h)
          \/ \E id \in RequestIds, h \in Hashes : RevealInference(w, id, h)
    BY <1>2 DEF WorkerStep
  <2>2. CASE \E v \in Values : DepositWorkerBond(w, v) \/ WithdrawWorkerBond(w, v)
    BY <2>2, QuietGood DEF DepositWorkerBond, WithdrawWorkerBond
  <2> QED  BY <2>1, <2>2, CommitGood, RevealGood
<1>3. CASE ChallengerStep  BY <1>3, DisputeGood DEF ChallengerStep
<1>4. CASE ResolverStep  BY <1>4, UpholdGood, RejectGood DEF ResolverStep
<1>5. CASE AttestationStep  BY <1>5, AttestationGood DEF AttestationStep
<1>6. CASE OwnerTunes
  <2>1. UNCHANGED <<requests, challenges>>
    BY <1>6 DEF OwnerTunes, SetTreasury, SetResolver, SetSpamControls, SetWorkerBondParams,
      SetProtocolFee, SetTimeouts, SetPoIQuorum, SetValidatorRegistry, SetChallengeBond, Tune
  <2> QED  BY <2>1, QuietGood
<1>7. CASE RegistryStep  BY <1>7, QuietGood DEF RegistryStep
<1>8. CASE Tick  BY <1>8, QuietGood DEF Tick
<1>9. CASE \E id \in RequestIds : TimeoutReveal(id)  BY <1>9, TimeoutGood
<1>10. CASE \E a \in Accounts, v \in Values : ReceiveEther(a, v)
  BY <1>10, QuietGood DEF ReceiveEther
<1>11. CASE UNCHANGED vars  BY <1>11, QuietGood DEF vars
<1> QED  BY <1>1, <1>2, <1>3, <1>4, <1>5, <1>6, <1>7, <1>8, <1>9, <1>10, <1>11 DEF Next

LEMMA NextSInv == SInv /\ [Next]_vars => SInv'
<1> SUFFICES ASSUME SInv, [Next]_vars PROVE SInv'  OBVIOUS
<1>1. IInv'  BY NextIInv DEF SInv
<1>2. Backed'  BY GoodStep, CountedStep DEF Backed, Good
<1> QED  BY <1>1, <1>2 DEF SInv

LEMMA SpecSInv == Spec => []SInv
<1>1. Init => SInv  BY InitIInv, InitBacked DEF SInv
<1> QED  BY <1>1, NextSInv, PTL DEF Spec

(* FinalizedByQuorum, for every value of the constants: however the owner    *)
(* retunes and whatever arrives in which order, a fee is released to a       *)
(* worker only on the word of as many distinct validators as the quorum then *)
(* asks for, about the response committed to, in time and undisputed.        *)
THEOREM FinalizationNeedsQuorum == Spec => FinalizedByQuorum
<1>1. SInv /\ [Next]_vars =>
        [\A id \in RequestIds : Ends(id, "Finalized") =>
           /\ Cardinality(poi'[id].attested) >= settings.poiQuorum
           /\ poi'[id].result = requests[id].commitment
           /\ now <= requests[id].finalizeDeadline
           /\ ~OpenChallenge(id)']_vars
  BY GoodStep DEF Good, ByQuorum
<1> QED  BY SpecSInv, <1>1, PTL DEF Spec, FinalizedByQuorum

(* EndedForever, for every value of the constants: no transaction reopens a  *)
(* request that has ended, or its dispute.                                   *)
THEOREM EndedStaysEnded == Spec => EndedForever
<1>1. SInv /\ [Next]_vars =>
        [\A id \in RequestIds : requests[id].status \in Ended =>
           /\ requests'[id] = requests[id]
           /\ challenges'[id] = challenges[id]]_vars
  BY GoodStep DEF Good, StaysEnded
<1> QED  BY SpecSInv, <1>1, PTL DEF Spec, EndedForever
-----------------------------------------------------------------------------
(* A dispute that was decided for the worker is decided. *)
UpheldResolved == \A id \in RequestIds : challenges[id].upheld => challenges[id].resolved

Opened(id) == requests[id].status = "None" /\ requests'[id].status \in Live
Closed(id) ==
  requests[id].status \in Live /\ requests'[id].status \in Ended /\ requests'[id].fee = 0
Kept(id) ==
  \/ requests'[id] = requests[id]
  \/ /\ requests[id].status \in Live /\ requests'[id].status \in Live
     /\ requests'[id].fee = requests[id].fee

Moves(id, w) ==
  /\ \A k \in RequestIds \ {id} : requests'[k] = requests[k] /\ challenges'[k] = challenges[k]
  /\ \A a \in Accounts \ {w} : workerBond'[a] = workerBond[a]
  /\ balance' - balance = (requests'[id].fee - requests[id].fee)
                          + (challenges'[id].bond - challenges[id].bond)
                          + (workerBond'[w] - workerBond[w])
  /\ Opened(id) \/ Closed(id) \/ Kept(id)

(* The bodies of SettledInFull, for one request, and SlashJustified, for one *)
(* worker.                                                                   *)
Gain(a) == wallet'[a] - wallet[a]
Settles(id) ==
  /\ Ends(id, "Cancelled") \/ Ends(id, "TimedOut") => Gain(requests[id].requester) >= requests[id].fee
  /\ Ends(id, "Finalized") =>
       /\ Gain(requests[id].worker) >= WorkerShare(requests[id].fee)
       /\ Gain(settings.treasury) >= ProtocolFee(requests[id].fee)
       /\ requests[id].worker = settings.treasury => Gain(requests[id].worker) >= requests[id].fee

Lost(w) == workerBond[w] - workerBond'[w]
Withdrawn(w) == wallet'[w] = wallet[w] + Lost(w) /\ UNCHANGED <<requests, workerBondLocked>>
SlashedFor(id, w) ==
  /\ requests[id].worker = w
  /\ Lost(w) = requestBondLocked[id]
  /\ wallet'[requests[id].requester] >= wallet[requests[id].requester] + Lost(w)
  /\ \/ requests[id].status = "Committed" /\ now > requests[id].revealDeadline
     \/ OpenChallenge(id) /\ challenges'[id].resolved /\ ~challenges'[id].upheld
Justified(w) ==
  workerBond'[w] < workerBond[w] => Withdrawn(w) \/ \E id \in RequestIds : SlashedFor(id, w)

(* Everything shown of a transaction on request id and worker w. *)
Sound(id, w) ==
  /\ Moves(id, w)
  /\ Settles(id)
  /\ \A a \in Accounts : Justified(a)
-----------------------------------------------------------------------------
LEMMA Types ==
  ASSUME IInv, NEW id \in RequestIds
  PROVE  /\ requests \in [RequestIds -> Request] /\ requests[id] \in Request
         /\ challenges \in [RequestIds -> Challenge] /\ challenges[id] \in Challenge
         /\ workerBond \in [Accounts -> Nat] /\ wallet \in [Accounts -> Nat]
         /\ requestBondLocked[id] \in Nat /\ requests[id].fee \in Nat /\ challenges[id].bond \in Nat
         /\ balance \in Nat
         /\ settings.treasury \in Accounts
BY DEF IInv, TypeOK, Request, Challenge, Settings

(* What a payment adds to whom. *)
LEMMA PayAdds ==
  ASSUME NEW purse \in [Accounts -> Nat], NEW to \in Accounts, NEW n \in Nat, NEW a \in Accounts
  PROVE  /\ Pay(purse, to, n) \in [Accounts -> Nat]
         /\ Pay(purse, to, n)[a] = IF a = to THEN purse[a] + n ELSE purse[a]
BY DEF Pay

(* A transaction that is not about one request changes no request, and moves *)
(* money of one worker at most.                                              *)
LEMMA QuietSettles ==
  ASSUME UNCHANGED requests, NEW id \in RequestIds
  PROVE  Settles(id)
BY DEF Settles, Ends, Live

LEMMA NoLoss ==
  ASSUME IInv, IInv', \A a \in Accounts : workerBond'[a] >= workerBond[a], NEW a \in Accounts
  PROVE  Justified(a)
BY DEF Justified, IInv, TypeOK

(* Only a request that is touched can end. *)
LEMMA OthersSettle ==
  ASSUME NEW id \in RequestIds, NEW w, Moves(id, w), NEW k \in RequestIds, k # id
  PROVE  Settles(k)
BY DEF Moves, Settles, Ends, Live
-----------------------------------------------------------------------------
(* One lemma per transaction that moves a request. *)
LEMMA RequestSound ==
  ASSUME IInv, IInv', NEW a \in Requesters, NEW value \in Values, RequestInferenceV2(a, value)
  PROVE  \E id \in RequestIds, w \in Accounts : Sound(id, w)
<1> DEFINE id == nextRequestId
           w == settings.treasury
<1>1. id \in RequestIds /\ value \in Nat /\ a \in Accounts
  BY ConstantsAssumption DEF RequestInferenceV2, IInv, TypeOK, RequestIds
<1>2. requests[id].status = "None"  BY <1>1 DEF IInv, RequestShape, Shape, TypeOK
<1>3. requests[id].fee = 0  BY <1>1, <1>2 DEF IInv, DisputeMatches, DisputeMatch, Live
<1>4. requests'[id].fee = value /\ requests'[id].status = "Requested"
  BY <1>1 DEF RequestInferenceV2, IInv, TypeOK, NoRequest
<1>5. UNCHANGED <<challenges, workerBond>> /\ balance' = balance + value
      /\ \A k \in RequestIds \ {id} : requests'[k] = requests[k]
  BY DEF RequestInferenceV2, PaidBy, IInv, TypeOK
<1>6. w \in Accounts  BY <1>1, Types
<1> HIDE DEF id, w
<1>7. Moves(id, w)
  BY <1>1, <1>2, <1>3, <1>4, <1>5, <1>6, Types DEF Moves, Opened, Live
<1>8. Settles(id)  BY <1>2 DEF Settles, Ends, Live
<1>9. \A k \in Accounts : Justified(k)
  BY <1>5, NoLoss, <1>1, Types
<1> QED  BY <1>1, <1>6, <1>7, <1>8, <1>9 DEF Sound

LEMMA BondSound ==
  ASSUME IInv, IInv', NEW w \in Workers, NEW value \in Values,
         DepositWorkerBond(w, value) \/ WithdrawWorkerBond(w, value), NEW id \in RequestIds
  PROVE  Sound(id, w)
<1>1. UNCHANGED <<requests, challenges, workerBondLocked>> /\ value \in Nat /\ w \in Accounts
  BY ConstantsAssumption DEF DepositWorkerBond, WithdrawWorkerBond
<1>2. workerBond \in [Accounts -> Nat] /\ wallet \in [Accounts -> Nat] /\ balance \in Nat
  BY Types
<1>3. Settles(id)  BY <1>1, QuietSettles
<1>4. CASE DepositWorkerBond(w, value)
  <2>1. balance' = balance + value /\ workerBond' = [workerBond EXCEPT ![w] = @ + value]
    BY <1>4 DEF DepositWorkerBond, PaidBy
  <2>2. Moves(id, w)  BY <1>1, <1>2, <2>1, Types DEF Moves, Kept
  <2>3. \A a \in Accounts : workerBond'[a] >= workerBond[a]  BY <1>1, <1>2, <2>1
  <2> QED  BY <1>3, <2>2, <2>3, NoLoss DEF Sound
<1>5. CASE WithdrawWorkerBond(w, value)
  <2>1. /\ balance' = balance - value /\ workerBond' = [workerBond EXCEPT ![w] = @ - value]
        /\ wallet' = Pay(wallet, w, value)
    BY <1>5 DEF WithdrawWorkerBond
  <2>2. Moves(id, w)  BY <1>1, <1>2, <2>1, Types DEF Moves, Kept
  <2>3. Lost(w) = value /\ wallet'[w] = wallet[w] + value
    BY <1>1, <1>2, <2>1 DEF Lost, Pay
  <2>4. Withdrawn(w)  BY <1>1, <2>3 DEF Withdrawn
  <2>5. \A a \in Accounts \ {w} : workerBond'[a] = workerBond[a]  BY <1>1, <1>2, <2>1
  <2>6. \A a \in Accounts : Justified(a)  BY <1>2, <2>4, <2>5 DEF Justified
  <2> QED  BY <1>3, <2>2, <2>6 DEF Sound
<1> QED  BY <1>4, <1>5

LEMMA CommitSound ==
  ASSUME IInv, IInv', NEW w \in Workers, NEW id \in RequestIds, NEW h, CommitInference(w, id, h)
  PROVE  Sound(id, w)
<1>1. requests[id].status = "Requested" /\ UNCHANGED <<challenges, workerBond, balance>>
  BY DEF CommitInference
<1>2. /\ \A k \in RequestIds \ {id} : requests'[k] = requests[k]
      /\ requests'[id].status = "Committed" /\ requests'[id].fee = requests[id].fee
  BY DEF CommitInference, IInv, TypeOK, Request
<1>3. w \in Accounts  BY ConstantsAssumption
<1>4. Moves(id, w)  BY <1>1, <1>2, <1>3, Types DEF Moves, Kept, Live
<1>5. Settles(id)  BY <1>2 DEF Settles, Ends
<1>6. \A a \in Accounts : Justified(a)  BY <1>1, NoLoss, Types
<1> QED  BY <1>4, <1>5, <1>6 DEF Sound

LEMMA DisputeSound ==
  ASSUME IInv, IInv', NEW a \in Challengers, NEW id \in RequestIds, NEW value \in Values,
         OpenDispute(a, id, value), NEW w \in Accounts
  PROVE  Sound(id, w)
<1>1. /\ requests[id].status = "Revealed" /\ UNCHANGED workerBond /\ balance' = balance + value
      /\ challenges[id].challenger = NoAddr /\ value \in Nat
  BY ConstantsAssumption DEF OpenDispute, PaidBy
<1>2. /\ \A k \in RequestIds \ {id} : requests'[k] = requests[k] /\ challenges'[k] = challenges[k]
      /\ requests'[id].status = "Disputed" /\ requests'[id].fee = requests[id].fee
      /\ challenges'[id].bond = value
  BY DEF OpenDispute, IInv, TypeOK, Request
<1>3. challenges[id].bond = 0
  BY <1>1 DEF IInv, DisputeMatches, DisputeMatch, OpenChallenge
<1>4. Moves(id, w)  BY <1>1, <1>2, <1>3, Types DEF Moves, Kept, Live
<1>5. Settles(id)  BY <1>2 DEF Settles, Ends
<1>6. \A k \in Accounts : Justified(k)  BY <1>1, NoLoss, Types
<1> QED  BY <1>4, <1>5, <1>6 DEF Sound

(* A live request that ends unfinished, with what is paid to its requester.  *)
LEMMA EndMoves ==
  ASSUME IInv, IInv', NEW id \in RequestIds, NEW status \in {"Cancelled", "TimedOut"}, NEW w \in Accounts,
         requests[id].status \in Live,
         requests' = [requests EXCEPT ![id] = EndAs(@, status)],
         \A k \in RequestIds \ {id} : challenges'[k] = challenges[k],
         \A a \in Accounts \ {w} : workerBond'[a] = workerBond[a],
         balance' - balance = (challenges'[id].bond - challenges[id].bond)
                              + (workerBond'[w] - workerBond[w]) - requests[id].fee,
         wallet'[requests[id].requester] >= wallet[requests[id].requester] + requests[id].fee
  PROVE  Moves(id, w) /\ Settles(id)
<1>1. \A k \in RequestIds \ {id} : requests'[k] = requests[k]  BY DEF IInv, TypeOK
<1>2. requests'[id].status = status /\ requests'[id].fee = 0  BY DEF EndAs, IInv, TypeOK, Request
<1>3. requests[id].requester \in Accounts  BY EndFacts
<1>4. requests'[id].status \in Ended  BY <1>2 DEF Ended
<1>5. Moves(id, w)
  <2>1. Closed(id)  BY <1>2, <1>4 DEF Closed
  <2> QED  BY <1>1, <1>2, <2>1, Types DEF Moves, IInv, TypeOK, Challenge
<1>6. Settles(id)
  <2>1. Gain(requests[id].requester) >= requests[id].fee
    BY <1>3, Types DEF Gain, IInv, TypeOK
  <2> QED  BY <1>2, <2>1 DEF Settles, Ends
<1> QED  BY <1>5, <1>6

LEMMA CancelSound ==
  ASSUME IInv, IInv', NEW a \in Requesters, NEW id \in RequestIds,
         CancelExpired(a, id) \/ ReclaimAfterFinalizeTimeout(a, id)
  PROVE  \E w \in Accounts : Sound(id, w)
<1> DEFINE w == settings.treasury
<1>1. /\ requests[id].status \in Live /\ requests[id].requester = a
      /\ requests' = [requests EXCEPT ![id] = EndAs(@, "Cancelled")]
      /\ balance' = balance - requests[id].fee /\ wallet' = Pay(wallet, a, requests[id].fee)
      /\ UNCHANGED <<challenges, workerBond>>
  BY DEF CancelExpired, ReclaimAfterFinalizeTimeout, Reclaimable, Live
<1>2. a \in Accounts  BY ConstantsAssumption
<1>3. w \in Accounts  BY Types
<1> HIDE DEF w
<1>4. wallet'[a] = wallet[a] + requests[id].fee  BY <1>1, <1>2, Types, PayAdds
<1>5. Moves(id, w) /\ Settles(id)
  <2>1. balance' - balance = (challenges'[id].bond - challenges[id].bond)
                             + (workerBond'[w] - workerBond[w]) - requests[id].fee
    BY <1>1, <1>3, Types
  <2>2. wallet'[requests[id].requester] >= wallet[requests[id].requester] + requests[id].fee
    BY <1>1, <1>2, <1>4, Types
  <2> QED  BY <1>1, <1>3, <2>1, <2>2, EndMoves
<1>6. \A k \in Accounts : Justified(k)  BY <1>1, NoLoss, Types
<1> QED  BY <1>3, <1>5, <1>6 DEF Sound

(* A slash takes from one worker what was locked for one request. *)
LEMMA SlashTakes ==
  ASSUME IInv, NEW id \in RequestIds, SlashBond(id), requests[id].worker \in Accounts
  PROVE  /\ \A a \in Accounts \ {requests[id].worker} : workerBond'[a] = workerBond[a]
         /\ workerBond'[requests[id].worker] = workerBond[requests[id].worker] - requestBondLocked[id]
BY Types DEF SlashBond

LEMMA SlashJustifies ==
  ASSUME IInv, IInv', NEW id \in RequestIds, SlashBond(id), requests[id].worker \in Accounts,
         requests[id].requester \in Accounts,
         wallet'[requests[id].requester] >= wallet[requests[id].requester] + requestBondLocked[id],
         \/ requests[id].status = "Committed" /\ now > requests[id].revealDeadline
         \/ OpenChallenge(id) /\ challenges'[id].resolved /\ ~challenges'[id].upheld,
         NEW a \in Accounts
  PROVE  Justified(a)
<1> DEFINE w == requests[id].worker
<1>1. CASE a = w
  <2>1. Lost(w) = requestBondLocked[id]  BY SlashTakes, Types DEF Lost
  <2>2. SlashedFor(id, w)  BY <2>1 DEF SlashedFor
  <2> QED  BY <1>1, <2>2 DEF Justified
<1>2. CASE a # w  BY <1>2, SlashTakes, Types DEF Justified
<1> QED  BY <1>1, <1>2

LEMMA TimeoutSound ==
  ASSUME IInv, IInv', NEW id \in RequestIds, TimeoutReveal(id)
  PROVE  \E w \in Accounts : Sound(id, w)
<1> DEFINE w == requests[id].worker
           q == requests[id].requester
           b == requestBondLocked[id]
<1>1. /\ requests[id].status = "Committed" /\ now > requests[id].revealDeadline
      /\ requests' = [requests EXCEPT ![id] = EndAs(@, "TimedOut")]
      /\ balance' = balance - (requests[id].fee + b) /\ wallet' = Pay(wallet, q, requests[id].fee + b)
      /\ UNCHANGED challenges /\ SlashBond(id)
  BY DEF TimeoutReveal
<1>2. requests[id].status \in Live  BY <1>1 DEF Live
<1>3. w \in Accounts /\ q \in Accounts  BY <1>1, <1>2, EndFacts
<1>4. requests[id].fee \in Nat /\ b \in Nat /\ wallet \in [Accounts -> Nat]  BY Types
<1>5. wallet'[q] = wallet[q] + (requests[id].fee + b)
  <2>1. requests[id].fee + b \in Nat  BY <1>4
  <2> QED  BY <1>1, <1>3, <1>4, <2>1, PayAdds
<1>6. \A a \in Accounts \ {w} : workerBond'[a] = workerBond[a]  BY <1>1, <1>3, SlashTakes
<1>7. workerBond'[w] = workerBond[w] - b  BY <1>1, <1>3, SlashTakes
<1>8. Moves(id, w) /\ Settles(id)
  <2>1. wallet'[q] >= wallet[q] + requests[id].fee  BY <1>3, <1>4, <1>5
  <2>2. balance' - balance = (challenges'[id].bond - challenges[id].bond)
                             + (workerBond'[w] - workerBond[w]) - requests[id].fee
    BY <1>1, <1>3, <1>4, <1>7, Types
  <2>3. \A k \in RequestIds \ {id} : challenges'[k] = challenges[k]  BY <1>1
  <2> QED  BY <1>1, <1>2, <1>3, <1>6, <2>1, <2>2, <2>3, EndMoves
<1>9. \A a \in Accounts : Justified(a)
  <2>1. wallet'[q] >= wallet[q] + b  BY <1>3, <1>4, <1>5
  <2> QED  BY <1>1, <1>3, <2>1, SlashJustifies
<1> QED  BY <1>3, <1>8, <1>9 DEF Sound

LEMMA RejectSound ==
  ASSUME IInv, IInv', UpheldResolved, NEW x \in Accounts, NEW id \in RequestIds, RejectWorker(x, id)
  PROVE  \E w \in Accounts : Sound(id, w)
<1> DEFINE w == requests[id].worker
           q == requests[id].requester
           b == requestBondLocked[id]
           c == challenges[id]
           d == [c EXCEPT !.resolved = TRUE, !.bond = 0]
           first == Pay(wallet, c.challenger, c.bond)
<1>1. /\ OpenChallenge(id) /\ challenges' = [challenges EXCEPT ![id] = d]
      /\ requests' = [requests EXCEPT ![id] = EndAs(@, "Cancelled")]
      /\ balance' = balance - (c.bond + requests[id].fee + b)
      /\ wallet' = Pay(first, q, requests[id].fee + b)
      /\ SlashBond(id)
  BY DEF RejectWorker
<1>2. requests[id].status = "Disputed" /\ requests[id].status \in Live
  BY <1>1 DEF IInv, DisputeMatches, DisputeMatch, Live
<1>3. w \in Accounts /\ q \in Accounts  BY <1>2, EndFacts
<1>4. requests[id].fee \in Nat /\ b \in Nat /\ wallet \in [Accounts -> Nat] /\ c.bond \in Nat /\ c \in Challenge
  BY Types
<1>5. c.challenger \in Accounts  BY <1>1, <1>4 DEF OpenChallenge, Challenge
<1>6. wallet'[q] >= wallet[q] + (requests[id].fee + b)
  <2>1. requests[id].fee + b \in Nat  BY <1>4
  <2>2. first \in [Accounts -> Nat]  BY <1>4, <1>5, PayAdds
  <2>3. first[q] >= wallet[q]
    <3>1. first[q] = IF q = c.challenger THEN wallet[q] + c.bond ELSE wallet[q]
      BY <1>3, <1>4, <1>5 DEF Pay
    <3>2. wallet[q] \in Nat /\ c.bond \in Nat  BY <1>3, <1>4
    <3> HIDE DEF first, q, c
    <3> QED  BY <3>1, <3>2
  <2>4. wallet'[q] = first[q] + (requests[id].fee + b)  BY <1>1, <1>3, <2>1, <2>2, PayAdds
  <2> HIDE DEF first
  <2> QED  BY <1>3, <1>4, <2>1, <2>2, <2>3, <2>4
<1>7. challenges'[id] = d /\ \A k \in RequestIds \ {id} : challenges'[k] = challenges[k]
  BY <1>1, Types
<1>8. d.bond = 0 /\ d.resolved /\ d.upheld = c.upheld  BY <1>4 DEF Challenge
<1>9. \A a \in Accounts \ {w} : workerBond'[a] = workerBond[a]  BY <1>1, <1>3, SlashTakes
<1>10. workerBond'[w] = workerBond[w] - b  BY <1>1, <1>3, SlashTakes
<1>11. Moves(id, w) /\ Settles(id)
  <2>1. wallet'[q] >= wallet[q] + requests[id].fee  BY <1>3, <1>4, <1>6, Types DEF IInv, TypeOK
  <2>2. balance' - balance = (challenges'[id].bond - challenges[id].bond)
                             + (workerBond'[w] - workerBond[w]) - requests[id].fee
    <3>1. challenges'[id].bond = 0  BY <1>7, <1>8
    <3>2. workerBond[w] \in Nat /\ balance \in Nat  BY <1>3, Types
    <3>3. balance' = balance - (c.bond + requests[id].fee + b)  BY <1>1
    <3> QED  BY <1>4, <1>10, <3>1, <3>2, <3>3
  <2> QED  BY <1>1, <1>2, <1>3, <1>7, <1>9, <2>1, <2>2, EndMoves
<1>12. \A a \in Accounts : Justified(a)
  <2>1. wallet'[q] >= wallet[q] + b  BY <1>3, <1>4, <1>6 DEF IInv, TypeOK
  <2>2. ~c.upheld  BY <1>1 DEF UpheldResolved, OpenChallenge
  <2> QED  BY <1>1, <1>3, <1>7, <1>8, <2>1, <2>2, SlashJustifies
<1> QED  BY <1>3, <1>11, <1>12 DEF Sound

(* The attempt to finalize, on a request r whose caller has left its fee and *)
(* parties alone and has moved what its challenge bond was worth.            *)
LEMMA TrySound ==
  ASSUME IInv, IInv', NEW id \in RequestIds, NEW r \in Request, NEW open, NEW p, NEW money,
         NEW purse \in [Accounts -> Nat],
         TryFinalize(id, r, open, p, money, purse),
         r.worker = requests[id].worker, r.fee = requests[id].fee,
         \/ r = requests[id]
         \/ r.status = "Revealed" /\ requests[id].status \in {"Committed", "Disputed"},
         \A k \in RequestIds \ {id} : challenges'[k] = challenges[k],
         money = balance + (challenges'[id].bond - challenges[id].bond),
         \A a \in Accounts : purse[a] >= wallet[a],
         UNCHANGED workerBond
  PROVE  \E w \in Accounts : Sound(id, w)
<1> DEFINE w == settings.treasury
           f == [r EXCEPT !.status = "Finalized", !.finalizedAt = now, !.fee = 0]
           s == IF Finalizable(r, open, p) THEN f ELSE r
<1>1. requests' = [requests EXCEPT ![id] = s]  BY DEF TryFinalize, Finalize, Unfinalized
<1>2. requests'[id] = s /\ \A k \in RequestIds \ {id} : requests'[k] = requests[k]
  BY <1>1, Types
<1>3. w \in Accounts  BY Types
<1>4. f.status = "Finalized" /\ f.fee = 0  BY DEF Request
<1>5. r.fee \in Nat /\ challenges'[id].bond \in Nat /\ challenges[id].bond \in Nat /\ balance \in Nat
  BY Types DEF Request, IInv, TypeOK, Challenge
<1>6. \A a \in Accounts : Justified(a)  BY NoLoss, Types
<1>7. CASE Finalizable(r, open, p)
  <2>1. r.status = "Revealed"  BY <1>7 DEF Finalizable
  <2>2. requests[id].status \in Live /\ r.worker \in Accounts
    <3>1. requests[id].status \in {"Committed", "Disputed", "Revealed"}  BY <2>1
    <3> QED  BY <3>1, EndFacts DEF Live
  <2>3. /\ ProtocolFee(r.fee) \in Nat /\ WorkerShare(r.fee) \in Nat
        /\ ProtocolFee(r.fee) + WorkerShare(r.fee) = r.fee
    BY <1>5, FeeShares DEF IInv
  <2> DEFINE cut == ProtocolFee(r.fee)
             share == WorkerShare(r.fee)
             first == Pay(purse, w, cut)
  <2>4. balance' = money - (cut + share) /\ wallet' = Pay(first, r.worker, share)
    BY <1>7 DEF TryFinalize, Finalize, Unfinalized
  <2> HIDE DEF cut, share
  <2>5. first \in [Accounts -> Nat]  BY <1>3, <2>3, PayAdds DEF cut
  <2>6. \A a \in Accounts : first[a] = IF a = w THEN purse[a] + cut ELSE purse[a]
    BY <1>3, <2>3, PayAdds DEF cut
  <2> HIDE DEF first
  <2>7. \A a \in Accounts : wallet'[a] = IF a = r.worker THEN first[a] + share ELSE first[a]
    <3>1. r.worker \in Accounts /\ share \in Nat /\ wallet' = Pay(first, r.worker, share)
      BY <2>2, <2>3, <2>4 DEF share
    <3> HIDE DEF w, f, s
    <3>2. ASSUME NEW a \in Accounts
          PROVE  Pay(first, r.worker, share)[a] = IF a = r.worker THEN first[a] + share ELSE first[a]
      BY <2>5, <3>1, PayAdds
    <3> QED  BY <3>1, <3>2
  <2> HIDE DEF w
  <2>8. cut \in Nat /\ share \in Nat /\ cut + share = r.fee  BY <2>3 DEF cut, share
  <2>9. \A a \in Accounts : wallet[a] \in Nat /\ purse[a] \in Nat  BY Types
  <2>10. wallet'[r.worker] - wallet[r.worker] >= share
    BY <2>2, <2>6, <2>7, <2>8, <2>9
  <2>11. wallet'[w] - wallet[w] >= cut
    BY <1>3, <2>6, <2>7, <2>8, <2>9
  <2>12. r.worker = w => wallet'[w] - wallet[w] >= r.fee
    BY <1>3, <2>6, <2>7, <2>8, <2>9
  <2>13. requests'[id].status = "Finalized" /\ requests'[id].fee = 0  BY <1>2, <1>4, <1>7
  <2>14. Settles(id)
    BY <2>10, <2>11, <2>12, <2>13 DEF Settles, Ends, Gain, cut, share, w
  <2>15. Closed(id)  BY <2>2, <2>13 DEF Closed, Ended
  <2>16. balance' - balance = (requests'[id].fee - requests[id].fee)
                              + (challenges'[id].bond - challenges[id].bond)
                              + (workerBond'[w] - workerBond[w])
    BY <1>3, <1>5, <2>4, <2>8, <2>13, Types
  <2>17. Moves(id, w)  BY <1>2, <2>15, <2>16 DEF Moves
  <2> QED  BY <1>3, <1>6, <2>14, <2>17 DEF Sound, w
<1>8. CASE ~Finalizable(r, open, p)
  <2>1. requests'[id] = r  BY <1>2, <1>8
  <2>2. balance' = money  BY <1>8 DEF TryFinalize, Finalize, Unfinalized
  <2>3. Kept(id)  BY <2>1 DEF Kept, Live
  <2>4. ~Ends(id, "Cancelled") /\ ~Ends(id, "TimedOut") /\ ~Ends(id, "Finalized")
    BY <2>1 DEF Ends, Live
  <2>5. Settles(id)  BY <2>4 DEF Settles
  <2> HIDE DEF w
  <2>6. balance' - balance = (requests'[id].fee - requests[id].fee)
                             + (challenges'[id].bond - challenges[id].bond)
                             + (workerBond'[w] - workerBond[w])
    BY <1>3, <1>5, <2>1, <2>2, Types
  <2>7. Moves(id, w)  BY <1>2, <2>3, <2>6 DEF Moves
  <2> QED  BY <1>3, <1>6, <2>5, <2>7 DEF Sound, w
<1> QED  BY <1>7, <1>8

LEMMA RevealSound ==
  ASSUME IInv, IInv', NEW w \in Workers, NEW id \in RequestIds, NEW h \in Hashes, RevealInference(w, id, h)
  PROVE  \E a \in Accounts : Sound(id, a)
<1> DEFINE r == [requests[id] EXCEPT !.status = "Revealed", !.responseHash = h]
<1>1. /\ TryFinalize(id, r, FALSE, poi[id], balance, wallet) /\ UNCHANGED <<challenges, workerBond>>
      /\ requests[id].status = "Committed"
  BY DEF RevealInference
<1>2. requests[id] \in Request /\ wallet \in [Accounts -> Nat] /\ balance \in Nat /\ challenges[id].bond \in Nat
  BY Types
<1>3. /\ r \in Request /\ r.status = "Revealed" /\ r.worker = requests[id].worker
      /\ r.fee = requests[id].fee
  BY <1>2 DEF Request, Live
<1> HIDE DEF r
<1>4. balance = balance + (challenges'[id].bond - challenges[id].bond)  BY <1>1, <1>2
<1>5. \A a \in Accounts : wallet[a] >= wallet[a]  BY <1>2
<1> QED  BY <1>1, <1>2, <1>3, <1>4, <1>5, TrySound

LEMMA UpholdSound ==
  ASSUME IInv, IInv', NEW x \in Accounts, NEW id \in RequestIds, UpholdWorker(x, id)
  PROVE  \E a \in Accounts : Sound(id, a)
<1> DEFINE r == [requests[id] EXCEPT !.status = "Revealed"]
           c == challenges[id]
           d == [c EXCEPT !.resolved = TRUE, !.upheld = TRUE, !.bond = 0]
           money == balance - c.bond
           purse == Pay(wallet, requests[id].worker, c.bond)
<1>1. /\ TryFinalize(id, r, FALSE, poi[id], money, purse) /\ UNCHANGED workerBond
      /\ challenges' = [challenges EXCEPT ![id] = d] /\ OpenChallenge(id)
  BY DEF UpholdWorker
<1>2. /\ requests[id] \in Request /\ wallet \in [Accounts -> Nat] /\ c \in Challenge
      /\ c.bond \in Nat /\ balance \in Nat
  BY Types
<1>3. requests[id].status = "Disputed"
  BY <1>1 DEF IInv, DisputeMatches, DisputeMatch
<1>4. requests[id].worker \in Accounts  BY <1>3, EndFacts DEF Live
<1>5. /\ r \in Request /\ r.status = "Revealed" /\ r.worker = requests[id].worker
      /\ r.fee = requests[id].fee
  BY <1>2 DEF Request, Live
<1>6. challenges'[id] = d /\ d.bond = 0 /\ \A k \in RequestIds \ {id} : challenges'[k] = challenges[k]
  BY <1>1, <1>2, Types DEF Challenge
<1>7. purse \in [Accounts -> Nat]  BY <1>2, <1>4, PayAdds
<1>8. \A a \in Accounts : purse[a] >= wallet[a]
  <2>1. \A a \in Accounts :
          purse[a] = IF a = requests[id].worker THEN wallet[a] + c.bond ELSE wallet[a]
    BY <1>2, <1>4 DEF Pay
  <2>2. c.bond \in Nat /\ \A a \in Accounts : wallet[a] \in Nat  BY <1>2
  <2> HIDE DEF purse, c, money, d, r
  <2> QED  BY <2>1, <2>2
<1> HIDE DEF r, d, purse
<1>9. money = balance + (challenges'[id].bond - challenges[id].bond)  BY <1>2, <1>6
<1> HIDE DEF money
<1> QED  BY <1>1, <1>3, <1>5, <1>6, <1>7, <1>8, <1>9, TrySound

LEMMA AttestationSound ==
  ASSUME IInv, IInv', NEW v \in Validators, NEW t \in RequestIds, NEW h \in Hashes,
         NEW x \in Transcripts, NEW n \in Slots,
         SubmitPoIAttestation(v, t, h, x, n)
  PROVE  \E a \in Accounts : Sound(t, a)
<1> DEFINE q == Attested(poi[t], v, h, x, n)
           w == settings.treasury
<1>1. \/ TryFinalize(t, requests[t], OpenChallenge(t), q, balance, wallet)
      \/ UNCHANGED <<requests, balance, wallet>>
  BY Zenon DEF SubmitPoIAttestation
<1>2. UNCHANGED <<challenges, workerBond>>  BY DEF SubmitPoIAttestation
<1>3. /\ requests[t] \in Request /\ wallet \in [Accounts -> Nat] /\ balance \in Nat
      /\ challenges[t].bond \in Nat /\ w \in Accounts
  BY Types
<1> HIDE DEF q, w
<1>4. CASE TryFinalize(t, requests[t], OpenChallenge(t), q, balance, wallet)
  <2>1. balance = balance + (challenges'[t].bond - challenges[t].bond)  BY <1>2, <1>3
  <2>2. \A a \in Accounts : wallet[a] >= wallet[a]  BY <1>3
  <2> QED  BY <1>2, <1>3, <1>4, <2>1, <2>2, TrySound
<1>5. CASE UNCHANGED <<requests, balance, wallet>>
  <2>1. Moves(t, w)  BY <1>2, <1>3, <1>5, Types DEF Moves, Kept
  <2>2. Settles(t)  BY <1>5, QuietSettles
  <2>3. \A a \in Accounts : Justified(a)  BY <1>2, NoLoss, Types
  <2> QED  BY <1>3, <2>1, <2>2, <2>3 DEF Sound
<1> QED  BY <1>1, <1>4, <1>5
-----------------------------------------------------------------------------
(* A transaction moves the money of one request and one worker, soundly, or  *)
(* none of it.                                                               *)
Idle == UNCHANGED <<requests, challenges, workerBond>> /\ balance' >= balance

LEMMA SetterIdle == ASSUME IInv, OwnerTunes PROVE Idle
<1>1. UNCHANGED <<requests, challenges, workerBond, balance>>
  BY DEF OwnerTunes, SetTreasury, SetResolver, SetSpamControls, SetWorkerBondParams, SetProtocolFee,
    SetTimeouts, SetPoIQuorum, SetValidatorRegistry, SetChallengeBond, Tune, moneyVars
<1> QED  BY <1>1 DEF Idle, IInv, TypeOK

LEMMA EveryStep ==
  ASSUME IInv, UpheldResolved, [Next]_vars
  PROVE  Idle \/ \E id \in RequestIds, w \in Accounts : Sound(id, w)
<1>0. IInv'  BY NextIInv
<1>1. CASE RequesterStep
  <2>1. PICK a \in Requesters :
          \/ \E v \in Values : RequestInferenceV2(a, v)
          \/ \E id \in RequestIds : CancelExpired(a, id) \/ ReclaimAfterFinalizeTimeout(a, id)
    BY <1>1 DEF RequesterStep
  <2> QED  BY <1>0, <2>1, RequestSound, CancelSound
<1>2. CASE WorkerStep
  <2>1. PICK w \in Workers :
          \/ \E v \in Values : DepositWorkerBond(w, v) \/ WithdrawWorkerBond(w, v)
          \/ \E id \in RequestIds, h \in Hashes \cup {Unopenable} : CommitInference(w, id, h)
          \/ \E id \in RequestIds, h \in Hashes : RevealInference(w, id, h)
    BY <1>2 DEF WorkerStep
  <2>2. w \in Accounts /\ 1 \in RequestIds  BY ConstantsAssumption DEF RequestIds
  <2>3. CASE \E v \in Values : DepositWorkerBond(w, v) \/ WithdrawWorkerBond(w, v)
    BY <1>0, <2>2, <2>3, BondSound
  <2>4. CASE \E id \in RequestIds, h \in Hashes \cup {Unopenable} : CommitInference(w, id, h)
    BY <1>0, <2>2, <2>4, CommitSound
  <2>5. CASE \E id \in RequestIds, h \in Hashes : RevealInference(w, id, h)
    BY <1>0, <2>5, RevealSound
  <2> QED  BY <2>1, <2>3, <2>4, <2>5
<1>3. CASE ChallengerStep
  <2>1. settings.treasury \in Accounts  BY DEF IInv, TypeOK, Settings
  <2> QED  BY <1>0, <1>3, <2>1, DisputeSound DEF ChallengerStep
<1>4. CASE ResolverStep  BY <1>0, <1>4, UpholdSound, RejectSound DEF ResolverStep
<1>5. CASE AttestationStep  BY <1>0, <1>5, AttestationSound DEF AttestationStep
<1>6. CASE OwnerTunes  BY <1>6, SetterIdle
<1>7. CASE RegistryStep  BY <1>7 DEF RegistryStep, moneyVars, Idle, IInv, TypeOK
<1>8. CASE Tick  BY <1>8 DEF Tick, moneyVars, Idle, IInv, TypeOK
<1>9. CASE \E id \in RequestIds : TimeoutReveal(id)  BY <1>0, <1>9, TimeoutSound
<1>10. CASE \E a \in Accounts, v \in Values : ReceiveEther(a, v)
  BY <1>10, ConstantsAssumption DEF ReceiveEther, PaidBy, Idle, IInv, TypeOK
<1>11. CASE UNCHANGED vars  BY <1>11 DEF vars, moneyVars, Idle, IInv, TypeOK
<1> QED  BY <1>1, <1>2, <1>3, <1>4, <1>5, <1>6, <1>7, <1>8, <1>9, <1>10, <1>11 DEF Next

(* Only the resolver decides a dispute, and it resolves the ones it upholds. *)
LEMMA UpheldStep ==
  ASSUME IInv, UpheldResolved, [Next]_vars
  PROVE  UpheldResolved'
<1> SUFFICES ASSUME NEW k \in RequestIds, challenges' # challenges
             PROVE  challenges'[k].upheld => challenges'[k].resolved
  BY DEF UpheldResolved
<1>1. challenges \in [RequestIds -> Challenge] /\ (challenges[k].upheld => challenges[k].resolved)
  BY DEF IInv, TypeOK, UpheldResolved
<1>2. CASE RequesterStep
  BY <1>2 DEF RequesterStep, RequestInferenceV2, CancelExpired, ReclaimAfterFinalizeTimeout
<1>3. CASE WorkerStep
  BY <1>3 DEF WorkerStep, DepositWorkerBond, WithdrawWorkerBond, CommitInference, RevealInference
<1>4. CASE ChallengerStep  BY <1>1, <1>4 DEF ChallengerStep, OpenDispute
<1>5. CASE ResolverStep
  <2>1. PICK id \in RequestIds :
          \/ challenges' = [challenges EXCEPT ![id] = [@ EXCEPT !.resolved = TRUE, !.upheld = TRUE, !.bond = 0]]
          \/ challenges' = [challenges EXCEPT ![id] = [@ EXCEPT !.resolved = TRUE, !.bond = 0]]
    BY <1>5 DEF ResolverStep, UpholdWorker, RejectWorker
  <2> QED  BY <1>1, <2>1 DEF Challenge
<1>6. CASE AttestationStep  BY <1>6 DEF AttestationStep, SubmitPoIAttestation
<1>7. CASE OwnerTunes  BY <1>7, SetterIdle DEF Idle
<1>8. CASE RegistryStep  BY <1>8 DEF RegistryStep
<1>9. CASE Tick  BY <1>9 DEF Tick
<1>10. CASE \E id \in RequestIds : TimeoutReveal(id)  BY <1>10 DEF TimeoutReveal
<1>11. CASE \E a \in Accounts, v \in Values : ReceiveEther(a, v)  BY <1>11 DEF ReceiveEther
<1>12. CASE UNCHANGED vars  BY <1>12 DEF vars
<1> QED  BY <1>2, <1>3, <1>4, <1>5, <1>6, <1>7, <1>8, <1>9, <1>10, <1>11, <1>12 DEF Next

PInv == IInv /\ UpheldResolved

LEMMA SpecPInv == Spec => []PInv
<1>1. Init => PInv
  BY InitIInv DEF PInv, UpheldResolved, Init, NoChallenge
<1>2. PInv /\ [Next]_vars => PInv'
  BY NextIInv, UpheldStep DEF PInv
<1> QED  BY <1>1, <1>2, PTL DEF Spec

LEMMA PaidStep ==
  ASSUME PInv, [Next]_vars
  PROVE  /\ \A id \in RequestIds : Settles(id)
         /\ \A w \in Accounts : Justified(w)
<1>1. CASE Idle
  <2>1. UNCHANGED requests /\ \A a \in Accounts : workerBond'[a] >= workerBond[a]
    BY <1>1 DEF Idle, PInv, IInv, TypeOK
  <2> QED  BY <2>1, QuietSettles, NoLoss, NextIInv DEF PInv
<1>2. CASE \E id \in RequestIds, w \in Accounts : Sound(id, w)
  BY <1>2, OthersSettle DEF Sound
<1> QED  BY <1>1, <1>2, EveryStep DEF PInv
-----------------------------------------------------------------------------
(* The escrow that a state of the contract stands for. *)
Phases == [id \in RequestIds |-> Phase(id)]
Pot    == balance - Total(workerBond, Accounts) - Total(ChallengeBonds, RequestIds)

LEMMA PotType == IInv => Pot \in Nat
<1> SUFFICES ASSUME IInv PROVE Pot \in Nat  OBVIOUS
<1>1. balance \in Nat /\ balance >= Total(Fees, RequestIds) + Total(workerBond, Accounts)
                                      + Total(ChallengeBonds, RequestIds)
  BY DEF IInv, TypeOK, Solvent, Owed
<1> QED  BY <1>1, OwedType DEF IInv, Pot

(* A step of one request and one worker moves the pot by that request's fee. *)
LEMMA PotMoves ==
  ASSUME IInv, IInv', NEW id \in RequestIds, NEW w \in Accounts, Moves(id, w)
  PROVE  Pot' = Pot + (requests'[id].fee - requests[id].fee)
<1>0. TypeOK /\ TypeOK'  BY DEF IInv
<1>1. \A k \in RequestIds : ChallengeBonds[k] \in Nat /\ ChallengeBonds'[k] \in Nat
  BY <1>0 DEF TypeOK, ChallengeBonds, Challenge
<1>2. \A k \in RequestIds \ {id} : ChallengeBonds'[k] = ChallengeBonds[k]
  BY DEF Moves, ChallengeBonds
<1>3. Total(ChallengeBonds', RequestIds) =
        Total(ChallengeBonds, RequestIds) - ChallengeBonds[id] + ChallengeBonds'[id]
  BY <1>1, <1>2, RequestIdsFinite, TotalUpdate
<1>4. Total(workerBond', Accounts) = Total(workerBond, Accounts) - workerBond[w] + workerBond'[w]
  BY <1>0, BondTotal DEF Moves
<1>5. ChallengeBonds[id] = challenges[id].bond /\ ChallengeBonds'[id] = challenges'[id].bond
  BY DEF ChallengeBonds
<1>6. balance' - balance = (requests'[id].fee - requests[id].fee)
                           + (challenges'[id].bond - challenges[id].bond)
                           + (workerBond'[w] - workerBond[w])
  BY DEF Moves
<1>7. /\ balance \in Nat /\ balance' \in Nat /\ workerBond[w] \in Nat /\ workerBond'[w] \in Nat
      /\ requests[id].fee \in Nat /\ requests'[id].fee \in Nat
  BY <1>0 DEF TypeOK, Request
<1>8. Total(workerBond, Accounts) \in Nat /\ Total(ChallengeBonds, RequestIds) \in Nat
  BY <1>0, OwedType
<1>9. Pot' = balance' - Total(workerBond', Accounts) - Total(ChallengeBonds', RequestIds)
  BY DEF Pot
<1> QED  BY <1>1, <1>3, <1>4, <1>5, <1>6, <1>7, <1>8, <1>9 DEF Pot

LEMMA EscrowMoves ==
  ASSUME IInv, IInv', NEW id \in RequestIds, NEW w \in Accounts, Moves(id, w)
  PROVE  [Escrow!Next]_<<Phases, Fees, Pot>>
<1>1. Pot' = Pot + (requests'[id].fee - requests[id].fee)  BY PotMoves
<1>2. requests[id].fee \in Nat /\ requests'[id].fee \in Nat /\ Pot \in Nat
  BY PotType DEF IInv, TypeOK, Request
<1>3. /\ Fees' = [Fees EXCEPT ![id] = requests'[id].fee] /\ Fees[id] = requests[id].fee
      /\ Fees'[id] = requests'[id].fee
  BY DEF Moves, Fees
<1>4. Phases' = [Phases EXCEPT ![id] = Phase(id)'] /\ Phases[id] = Phase(id)
  <2>1. \A k \in RequestIds \ {id} : requests'[k] = requests[k]  BY DEF Moves
  <2>2. \A k \in RequestIds \ {id} : Phase(k)' = Phase(k)  BY <2>1 DEF Phase
  <2> QED  BY <2>2 DEF Phases
<1>5. CASE Opened(id)
  <2>1. Phase(id) = "none" /\ Phase(id)' = "held" /\ requests[id].fee = 0
    BY <1>5 DEF Opened, Phase, Live, IInv, DisputeMatches, DisputeMatch
  <2>2. Pot' = Pot + Fees'[id]  BY <1>1, <1>2, <1>3, <2>1
  <2>3. Escrow!Open(id)
    BY <1>2, <1>3, <1>4, <2>1, <2>2 DEF Escrow!Open, Phases, Pot
  <2> QED  BY <2>3 DEF Escrow!Next
<1>6. CASE Closed(id)
  <2>1. Phase(id) = "held" /\ Phase(id)' \in {"released", "refunded"} /\ requests'[id].fee = 0
    BY <1>6 DEF Closed, Phase, Live, Ended
  <2>2. Pot' = Pot - Fees[id]  BY <1>1, <1>2, <1>3, <2>1
  <2>3. Escrow!Close(id)
    BY <1>3, <1>4, <2>1, <2>2 DEF Escrow!Close, Phases, Pot
  <2> QED  BY <2>3 DEF Escrow!Next
<1>7. CASE Kept(id)
  <2>1. Phase(id)' = Phase(id) /\ requests'[id].fee = requests[id].fee
    BY <1>7 DEF Kept, Phase, Live
  <2>2. Phases' = Phases  BY <1>4, <2>1 DEF Phases
  <2>3. Fees' = Fees  BY <1>3, <2>1 DEF Fees
  <2>4. Pot' = Pot  BY <1>1, <1>2, <2>1
  <2> QED  BY <2>2, <2>3, <2>4
<1> QED  BY <1>5, <1>6, <1>7 DEF Moves

LEMMA EscrowIdle ==
  ASSUME IInv, IInv', Idle
  PROVE  [Escrow!Next]_<<Phases, Fees, Pot>>
<1>1. Phases' = Phases /\ Fees' = Fees  BY DEF Idle, Phases, Phase, Fees
<1>2. Pot' = balance' - Total(workerBond, Accounts) - Total(ChallengeBonds, RequestIds)
  BY DEF Idle, Pot, ChallengeBonds
<1>3. balance \in Nat /\ balance' \in Nat /\ balance' >= balance  BY DEF Idle, IInv, TypeOK
<1>4. Pot \in Nat /\ Pot' \in Nat
  <2>1. (IInv => Pot \in Nat)'  BY PotType, PTL
  <2> QED  BY <2>1, PotType
<1>5. Pot' >= Pot  BY <1>2, <1>3, OwedType DEF Pot, IInv
<1>6. CASE Pot' = Pot  BY <1>1, <1>6
<1>7. CASE Pot' # Pot
  <2>1. Pot' > Pot  BY <1>4, <1>5, <1>7
  <2>2. Escrow!Gift  BY <1>1, <1>4, <2>1 DEF Escrow!Gift, Phases, Pot
  <2> QED  BY <2>2 DEF Escrow!Next
<1> QED  BY <1>6, <1>7
-----------------------------------------------------------------------------
(* SettledInFull, for every value of the constants: whatever the protocol    *)
(* fee, the amounts and their rounding, a request that ends leaves none of   *)
(* its fee behind.                                                           *)
THEOREM FeesSettledInFull == Spec => SettledInFull
<1>1. PInv /\ [Next]_vars =>
        [\A id \in RequestIds :
           /\ Ends(id, "Cancelled") \/ Ends(id, "TimedOut") =>
                wallet'[requests[id].requester] - wallet[requests[id].requester] >= requests[id].fee
           /\ Ends(id, "Finalized") =>
                /\ wallet'[requests[id].worker] - wallet[requests[id].worker]
                     >= requests[id].fee - (requests[id].fee * settings.protocolFeeBps) \div BpsBase
                /\ wallet'[settings.treasury] - wallet[settings.treasury]
                     >= (requests[id].fee * settings.protocolFeeBps) \div BpsBase
                /\ requests[id].worker = settings.treasury =>
                     wallet'[requests[id].worker] - wallet[requests[id].worker] >= requests[id].fee]_vars
  <2> SUFFICES ASSUME PInv, [Next]_vars, NEW id \in RequestIds PROVE Settles(id)
    BY DEF Settles, Gain, ProtocolFee, WorkerShare
  <2> QED  BY PaidStep
<1> QED  BY SpecPInv, <1>1, PTL DEF Spec, SettledInFull

(* SlashJustified, for every value of the constants: no transaction takes a  *)
(* worker's bond but its own withdrawal, a missed reveal and a lost dispute. *)
THEOREM SlashesJustified == Spec => SlashJustified
<1>1. PInv /\ [Next]_vars =>
        [\A w \in Accounts : workerBond'[w] < workerBond[w] =>
           \/ /\ wallet'[w] = wallet[w] + (workerBond[w] - workerBond'[w])
              /\ UNCHANGED <<requests, workerBondLocked>>
           \/ \E id \in RequestIds :
                /\ requests[id].worker = w
                /\ workerBond[w] - workerBond'[w] = requestBondLocked[id]
                /\ wallet'[requests[id].requester]
                     >= wallet[requests[id].requester] + (workerBond[w] - workerBond'[w])
                /\ \/ requests[id].status = "Committed" /\ now > requests[id].revealDeadline
                   \/ OpenChallenge(id) /\ challenges'[id].resolved /\ ~challenges'[id].upheld]_vars
  <2> SUFFICES ASSUME PInv, [Next]_vars, NEW w \in Accounts PROVE Justified(w)
    BY DEF Justified, Withdrawn, SlashedFor, Lost
  <2> QED  BY PaidStep
<1> QED  BY SpecPInv, <1>1, PTL DEF Spec, SlashJustified

(* ImplementsEscrow, for every value of the constants: every transaction is  *)
(* a step of FeeEscrow or leaves the fees alone, so that no fee is paid      *)
(* twice, in part or out of the bonds.                                       *)
THEOREM FeesInEscrow == Spec => ImplementsEscrow
<1>1. Init => Escrow!Init
  <2> SUFFICES ASSUME Init PROVE Escrow!Init  OBVIOUS
  <2>1. \A id \in RequestIds : ChallengeBonds[id] = 0  BY DEF Init, ChallengeBonds, NoChallenge
  <2>2. \A a \in Accounts : workerBond[a] = 0  BY DEF Init
  <2>3. Total(ChallengeBonds, RequestIds) = 0 /\ Total(workerBond, Accounts) = 0
    BY <2>1, <2>2, TotalZero
  <2>4. \A id \in RequestIds : requests[id].status = "None" /\ requests[id].fee = 0
    BY DEF Init, NoRequest
  <2>5. \A id \in RequestIds : Phase(id) = "none"  BY <2>4 DEF Phase, Live
  <2>6. Fees = [id \in RequestIds |-> 0]  BY <2>4 DEF Fees
  <2>7. balance = 0  BY DEF Init
  <2> QED  BY <2>3, <2>5, <2>6, <2>7 DEF Escrow!Init
<1>2. PInv /\ [Next]_vars => [Escrow!Next]_<<Phases, Fees, Pot>>
  BY EveryStep, NextIInv, EscrowMoves, EscrowIdle DEF PInv, Sound
<1> QED
  BY SpecPInv, <1>1, <1>2, PTL
  DEF Spec, ImplementsEscrow, Escrow!Spec, Escrow!escrowVars, Phases, Pot
-----------------------------------------------------------------------------
(* The third part: no complete quorum is left behind.  Only a call that ends *)
(* with _tryFinalize can complete one, and such a call looks at what it has  *)
(* itself written; the clock and a higher quorum only take one away.  A      *)
(* lower quorum completes one behind everybody's back, so it is excluded.    *)
QuorumKept == [][settings'.poiQuorum >= settings.poiQuorum]_vars

Waiting(id) == Finalizable(requests[id], OpenChallenge(id), poi[id])

Unmoved(u) ==
  requests'[u] = requests[u] /\ challenges'[u] = challenges[u] /\ poi'[u] = poi[u]

LEMMA UnmovedWaits ==
  ASSUME IInv, IInv', NEW u \in RequestIds, Unmoved(u), now' >= now,
         settings'.poiQuorum >= settings.poiQuorum, ~Waiting(u)
  PROVE  ~Waiting(u)'
<1>1. now \in Nat /\ now' \in Nat /\ requests[u].finalizeDeadline \in Nat
  BY DEF IInv, TypeOK, Request
<1>2. settings.poiQuorum \in Nat /\ settings'.poiQuorum \in Nat /\ poi[u].count \in Nat
  BY DEF IInv, TypeOK, Settings, PoI
<1>3. OpenChallenge(u)' <=> OpenChallenge(u)
  BY DEF OpenChallenge, Unmoved
<1>4. QED  BY <1>1, <1>2, <1>3 DEF Waiting, Finalizable, Unmoved

(* A step of one request that does not end with it revealed. *)
LEMMA NotRevealedWaits ==
  ASSUME IInv, IInv', NEW id \in RequestIds, NEW r, requests' = [requests EXCEPT ![id] = r],
         r.status # "Revealed", UNCHANGED <<now, settings, poi>>,
         \A u \in RequestIds \ {id} : challenges'[u] = challenges[u],
         QuorumFinalizes
  PROVE  QuorumFinalizes'
<1> SUFFICES ASSUME NEW u \in RequestIds PROVE ~Waiting(u)'
  BY DEF QuorumFinalizes, Waiting
<1>1. requests'[u] = IF u = id THEN r ELSE requests[u]
  BY DEF IInv, TypeOK
<1>2. CASE u = id
  BY <1>1, <1>2 DEF Waiting, Finalizable
<1>3. CASE u # id
  <2>1. Unmoved(u) /\ ~Waiting(u)
    BY <1>1, <1>3 DEF Unmoved, QuorumFinalizes, Waiting
  <2>2. now' >= now /\ settings'.poiQuorum >= settings.poiQuorum
    BY DEF IInv, TypeOK, Settings
  <2>3. QED  BY <2>1, <2>2, UnmovedWaits
<1>4. QED  BY <1>2, <1>3

(* A step that ends with the attempt to finalize. *)
LEMMA TriedWaits ==
  ASSUME IInv, IInv', NEW id \in RequestIds, NEW r \in Request, NEW open \in BOOLEAN, NEW p,
         NEW money, NEW purse,
         TryFinalize(id, r, open, p, money, purse), open <=> OpenChallenge(id)',
         poi' = [poi EXCEPT ![id] = p], UNCHANGED <<now, settings>>,
         \A u \in RequestIds \ {id} : challenges'[u] = challenges[u],
         QuorumFinalizes
  PROVE  QuorumFinalizes'
<1> SUFFICES ASSUME NEW u \in RequestIds PROVE ~Waiting(u)'
  BY DEF QuorumFinalizes, Waiting
<1> DEFINE f == [r EXCEPT !.status = "Finalized", !.finalizedAt = now, !.fee = 0]
<1>1. poi'[u] = IF u = id THEN p ELSE poi[u]
  BY DEF IInv, TypeOK
<1>2. \/ Finalizable(r, open, p) /\ requests' = [requests EXCEPT ![id] = f]
      \/ ~Finalizable(r, open, p) /\ requests' = [requests EXCEPT ![id] = r]
  BY DEF TryFinalize, Finalize, Unfinalized
<1>3. f.status = "Finalized"
  BY DEF Request
<1> HIDE DEF f
<1>4. CASE u = id
  <2>1. CASE requests'[id] = f
    BY <1>3, <1>4, <2>1 DEF Waiting, Finalizable
  <2>2. CASE ~Finalizable(r, open, p) /\ requests'[id] = r
    BY <1>1, <1>4, <2>2 DEF Waiting, Finalizable
  <2>3. QED  BY <1>2, <2>1, <2>2 DEF IInv, TypeOK
<1>5. CASE u # id
  <2>1. requests'[u] = requests[u]
    BY <1>2, <1>5 DEF IInv, TypeOK
  <2>2. Unmoved(u) /\ ~Waiting(u)
    BY <1>1, <1>5, <2>1 DEF Unmoved, QuorumFinalizes, Waiting
  <2>3. now' >= now /\ settings'.poiQuorum >= settings.poiQuorum
    BY DEF IInv, TypeOK, Settings
  <2>4. QED  BY <2>2, <2>3, UnmovedWaits
<1>6. QED  BY <1>4, <1>5

(* A step that touches no request. *)
LEMMA QuietWaits ==
  ASSUME IInv, IInv', UNCHANGED <<requests, challenges, poi>>, now' >= now,
         settings'.poiQuorum >= settings.poiQuorum, QuorumFinalizes
  PROVE  QuorumFinalizes'
<1> SUFFICES ASSUME NEW u \in RequestIds PROVE ~Waiting(u)'
  BY DEF QuorumFinalizes, Waiting
<1>1. QED  BY UnmovedWaits DEF Unmoved, QuorumFinalizes, Waiting

LEMMA RequesterWaits ==
  ASSUME IInv, IInv', RequesterStep, QuorumFinalizes
  PROVE  QuorumFinalizes'
<1>1. PICK a \in Requesters :
        \/ \E v \in Values : RequestInferenceV2(a, v)
        \/ \E id \in RequestIds : CancelExpired(a, id) \/ ReclaimAfterFinalizeTimeout(a, id)
  BY DEF RequesterStep
<1>2. ASSUME NEW v \in Values, RequestInferenceV2(a, v)
      PROVE  QuorumFinalizes'
  <2> DEFINE id == nextRequestId
             c == now + settings.commitTimeoutSecs
             r == [NoRequest EXCEPT !.requester = a, !.fee = v, !.status = "Requested",
                     !.commitDeadline = c % TimeModulus,
                     !.revealDeadline = (c + settings.revealTimeoutSecs) % TimeModulus,
                     !.finalizeDeadline =
                       (c + settings.revealTimeoutSecs + settings.finalizeTimeoutSecs) % TimeModulus]
  <2>1. requests' = [requests EXCEPT ![id] = r] /\ UNCHANGED <<now, settings, poi, challenges>>
    BY <1>2 DEF RequestInferenceV2
  <2>2. r.status = "Requested"  BY DEF NoRequest
  <2>3. id \in RequestIds
    BY <1>2, ConstantsAssumption DEF RequestInferenceV2, IInv, TypeOK, RequestIds
  <2> HIDE DEF r, id
  <2>4. QED  BY <2>1, <2>2, <2>3, NotRevealedWaits
<1>3. ASSUME NEW id \in RequestIds, CancelExpired(a, id) \/ ReclaimAfterFinalizeTimeout(a, id)
      PROVE  QuorumFinalizes'
  <2> DEFINE r == EndAs(requests[id], "Cancelled")
  <2>1. requests' = [requests EXCEPT ![id] = r] /\ UNCHANGED <<now, settings, poi, challenges>>
    BY <1>3 DEF CancelExpired, ReclaimAfterFinalizeTimeout
  <2>2. r.status = "Cancelled"  BY DEF EndAs, IInv, TypeOK, Request
  <2> HIDE DEF r
  <2>3. QED  BY <2>1, <2>2, NotRevealedWaits
<1>4. QED  BY <1>1, <1>2, <1>3

LEMMA WorkerWaits ==
  ASSUME IInv, IInv', WorkerStep, QuorumFinalizes
  PROVE  QuorumFinalizes'
<1>1. PICK w \in Workers :
        \/ \E v \in Values : DepositWorkerBond(w, v) \/ WithdrawWorkerBond(w, v)
        \/ \E id \in RequestIds, h \in Hashes \cup {Unopenable} : CommitInference(w, id, h)
        \/ \E id \in RequestIds, h \in Hashes : RevealInference(w, id, h)
  BY DEF WorkerStep
<1>2. ASSUME NEW v \in Values, DepositWorkerBond(w, v) \/ WithdrawWorkerBond(w, v)
      PROVE  QuorumFinalizes'
  <2>1. UNCHANGED <<requests, challenges, poi, now, settings>>
    BY <1>2 DEF DepositWorkerBond, WithdrawWorkerBond
  <2>2. now' >= now /\ settings'.poiQuorum >= settings.poiQuorum
    BY <2>1 DEF IInv, TypeOK, Settings
  <2>3. QED  BY <2>1, <2>2, QuietWaits
<1>3. ASSUME NEW id \in RequestIds, NEW h \in Hashes \cup {Unopenable}, CommitInference(w, id, h)
      PROVE  QuorumFinalizes'
  <2> DEFINE r == [requests[id] EXCEPT !.status = "Committed", !.worker = w, !.commitment = h]
  <2>1. requests' = [requests EXCEPT ![id] = r] /\ UNCHANGED <<now, settings, poi, challenges>>
    BY <1>3 DEF CommitInference, IInv, TypeOK, Request
  <2>2. r.status = "Committed"  BY DEF IInv, TypeOK, Request
  <2> HIDE DEF r
  <2>3. QED  BY <2>1, <2>2, NotRevealedWaits
<1>4. ASSUME NEW id \in RequestIds, NEW h \in Hashes, RevealInference(w, id, h)
      PROVE  QuorumFinalizes'
  <2> DEFINE r == [requests[id] EXCEPT !.status = "Revealed", !.responseHash = h]
  <2>1. /\ TryFinalize(id, r, FALSE, poi[id], balance, wallet)
        /\ UNCHANGED <<challenges, poi, now, settings>> /\ ~OpenChallenge(id)
    BY <1>4 DEF RevealInference
  <2>2. r \in Request
    <3>1. requests[id] \in Request  BY DEF IInv, TypeOK
    <3>2. QED  BY <3>1 DEF Request, Live
  <2>3. ~OpenChallenge(id)' /\ poi' = [poi EXCEPT ![id] = poi[id]]
    BY <2>1 DEF OpenChallenge, IInv, TypeOK
  <2> HIDE DEF r
  <2>4. QED  BY <2>1, <2>2, <2>3, TriedWaits
<1>5. QED  BY <1>1, <1>2, <1>3, <1>4

LEMMA ResolverWaits ==
  ASSUME IInv, IInv', ResolverStep, QuorumFinalizes
  PROVE  QuorumFinalizes'
<1>1. PICK a \in Accounts, id \in RequestIds : UpholdWorker(a, id) \/ RejectWorker(a, id)
  BY DEF ResolverStep
<1>2. CASE UpholdWorker(a, id)
  <2> DEFINE r == [requests[id] EXCEPT !.status = "Revealed"]
             c == [challenges[id] EXCEPT !.resolved = TRUE, !.upheld = TRUE, !.bond = 0]
             money == balance - challenges[id].bond
             purse == Pay(wallet, requests[id].worker, challenges[id].bond)
  <2>1. /\ TryFinalize(id, r, FALSE, poi[id], money, purse) /\ UNCHANGED <<poi, now, settings>>
        /\ challenges' = [challenges EXCEPT ![id] = c]
    BY <1>2 DEF UpholdWorker
  <2>2. r \in Request /\ c.resolved
    <3>1. requests[id] \in Request /\ challenges[id] \in Challenge  BY DEF IInv, TypeOK
    <3>2. r \in Request  BY <3>1 DEF Request, Live
    <3>3. c.resolved  BY <3>1 DEF Challenge
    <3>4. QED  BY <3>2, <3>3
  <2>3. challenges'[id] = c /\ \A u \in RequestIds \ {id} : challenges'[u] = challenges[u]
    BY <2>1 DEF IInv, TypeOK
  <2>4. ~OpenChallenge(id)' /\ poi' = [poi EXCEPT ![id] = poi[id]]
    BY <2>1, <2>2, <2>3 DEF OpenChallenge, IInv, TypeOK
  <2> HIDE DEF r, c, money, purse
  <2>5. QED  BY <2>1, <2>2, <2>3, <2>4, TriedWaits
<1>3. CASE RejectWorker(a, id)
  <2> DEFINE r == EndAs(requests[id], "Cancelled")
  <2>1. requests' = [requests EXCEPT ![id] = r] /\ UNCHANGED <<now, settings, poi>>
    BY <1>3 DEF RejectWorker
  <2>2. r.status = "Cancelled"  BY DEF EndAs, IInv, TypeOK, Request
  <2>3. \A u \in RequestIds \ {id} : challenges'[u] = challenges[u]
    BY <1>3 DEF RejectWorker, IInv, TypeOK
  <2> HIDE DEF r
  <2>4. QED  BY <2>1, <2>2, <2>3, NotRevealedWaits
<1>4. QED  BY <1>1, <1>2, <1>3

LEMMA DisputeWaits ==
  ASSUME IInv, IInv', ChallengerStep, QuorumFinalizes
  PROVE  QuorumFinalizes'
<1>1. PICK a \in Challengers, id \in RequestIds, v \in Values : OpenDispute(a, id, v)
  BY DEF ChallengerStep
<1> DEFINE r == [requests[id] EXCEPT !.status = "Disputed"]
<1>2. requests' = [requests EXCEPT ![id] = r] /\ UNCHANGED <<now, settings, poi>>
  BY <1>1 DEF OpenDispute, IInv, TypeOK
<1>3. r.status = "Disputed"  BY DEF IInv, TypeOK, Request
<1>4. \A u \in RequestIds \ {id} : challenges'[u] = challenges[u]
  BY <1>1 DEF OpenDispute, IInv, TypeOK
<1> HIDE DEF r
<1>5. QED  BY <1>2, <1>3, <1>4, NotRevealedWaits

LEMMA AttestationWaits ==
  ASSUME IInv, IInv', AttestationStep, QuorumFinalizes
  PROVE  QuorumFinalizes'
<1>1. PICK v \in Validators, t \in RequestIds, h \in Hashes, x \in Transcripts, n \in Slots :
        SubmitPoIAttestation(v, t, h, x, n)
  BY DEF AttestationStep
<1> DEFINE q == Attested(poi[t], v, h, x, n)
<1>2. poi' = [poi EXCEPT ![t] = q] /\ UNCHANGED <<now, settings, challenges>>
  BY <1>1 DEF SubmitPoIAttestation
<1>3. requests[t] \in Request  BY DEF IInv, TypeOK
<1>4. OpenChallenge(t) \in BOOLEAN /\ (OpenChallenge(t) <=> OpenChallenge(t)')
  BY <1>2 DEF OpenChallenge
<1>5. \/ TryFinalize(t, requests[t], OpenChallenge(t), q, balance, wallet)
      \/ RequestIdByTaskId(t) = 0 /\ UNCHANGED requests
  BY <1>1, Zenon DEF SubmitPoIAttestation
<1> HIDE DEF q
<1>6. CASE TryFinalize(t, requests[t], OpenChallenge(t), q, balance, wallet)
  BY <1>2, <1>3, <1>4, <1>6, TriedWaits
<1>7. CASE RequestIdByTaskId(t) = 0 /\ UNCHANGED requests
  <2>1. t >= nextRequestId
    BY <1>7 DEF RequestIdByTaskId, RequestIds, IInv, TypeOK
  <2>2. requests[t].status = "None"
    BY <2>1 DEF IInv, RequestShape, Shape
  <2> SUFFICES ASSUME NEW u \in RequestIds PROVE ~Waiting(u)'
    BY DEF QuorumFinalizes, Waiting
  <2>3. CASE u = t
    BY <1>7, <2>2, <2>3 DEF Waiting, Finalizable
  <2>4. CASE u # t
    <3>1. Unmoved(u) /\ ~Waiting(u)
      BY <1>2, <1>7, <2>4 DEF Unmoved, QuorumFinalizes, Waiting, IInv, TypeOK
    <3>2. now' >= now /\ settings'.poiQuorum >= settings.poiQuorum
      BY <1>2 DEF IInv, TypeOK, Settings
    <3>3. QED  BY <3>1, <3>2, UnmovedWaits
  <2>5. QED  BY <2>3, <2>4
<1>8. QED  BY <1>5, <1>6, <1>7

LEMMA QuorumStep ==
  IInv /\ IInv' /\ QuorumFinalizes /\ [Next]_vars /\ [settings'.poiQuorum >= settings.poiQuorum]_vars
    => QuorumFinalizes'
<1> SUFFICES ASSUME IInv, IInv', QuorumFinalizes, [Next]_vars,
                    [settings'.poiQuorum >= settings.poiQuorum]_vars
             PROVE  QuorumFinalizes'
  OBVIOUS
<1>1. settings'.poiQuorum >= settings.poiQuorum
  BY DEF vars, IInv, TypeOK, Settings
<1>2. now \in Nat /\ now' \in Nat
  BY DEF IInv, TypeOK
<1>3. CASE \E id \in RequestIds : TimeoutReveal(id)
  <2>1. PICK id \in RequestIds : TimeoutReveal(id)  BY <1>3
  <2> DEFINE r == EndAs(requests[id], "TimedOut")
  <2>2. requests' = [requests EXCEPT ![id] = r] /\ UNCHANGED <<now, settings, poi, challenges>>
    BY <2>1 DEF TimeoutReveal
  <2>3. r.status = "TimedOut"  BY DEF EndAs, IInv, TypeOK, Request
  <2> HIDE DEF r
  <2>4. QED  BY <2>2, <2>3, NotRevealedWaits
<1>4. CASE OwnerTunes \/ RegistryStep \/ Tick \/ (\E a \in Accounts, v \in Values : ReceiveEther(a, v))
           \/ UNCHANGED vars
  <2>1. UNCHANGED <<requests, challenges, poi>> /\ now' >= now
    <3>1. CASE OwnerTunes
      <4>1. UNCHANGED <<requests, challenges, poi, now>>
        BY <3>1 DEF OwnerTunes, SetTreasury, SetResolver, SetSpamControls, SetWorkerBondParams,
          SetProtocolFee, SetTimeouts, SetPoIQuorum, SetValidatorRegistry, SetChallengeBond, Tune
      <4>2. QED  BY <1>2, <4>1
    <3>2. CASE RegistryStep  BY <1>2, <3>2 DEF RegistryStep
    <3>3. CASE Tick  BY <1>2, <3>3 DEF Tick
    <3>4. CASE \E a \in Accounts, v \in Values : ReceiveEther(a, v)  BY <1>2, <3>4 DEF ReceiveEther
    <3>5. CASE UNCHANGED vars  BY <1>2, <3>5 DEF vars
    <3>6. QED  BY <1>4, <3>1, <3>2, <3>3, <3>4, <3>5
  <2>2. QED  BY <1>1, <2>1, QuietWaits
<1>5. QED
  BY <1>3, <1>4, RequesterWaits, WorkerWaits, DisputeWaits, ResolverWaits, AttestationWaits DEF Next

(* As long as the owner does not lower the quorum, no revealed, undisputed   *)
(* request in time is left behind with a full quorum, however often the      *)
(* quorum is raised and whichever of reveal, attestation and decision is     *)
(* last.                                                                     *)
THEOREM QuorumsFinalize == Spec /\ QuorumKept => []QuorumFinalizes
<1>1. Init => QuorumFinalizes
  <2> SUFFICES ASSUME Init, NEW u \in RequestIds PROVE ~Waiting(u)
    BY DEF QuorumFinalizes, Waiting
  <2>1. requests[u].status = "None"  BY DEF Init, NoRequest
  <2>2. QED  BY <2>1 DEF Waiting, Finalizable
<1>2. QED  BY <1>1, QuorumStep, Inductive, PTL DEF Spec, QuorumKept
-----------------------------------------------------------------------------
(* The registry: registerValidator is the only function that appends to the  *)
(* list, and the only one that makes a validator registered; flags are       *)
(* flipped of registered validators.  So the list that getActiveValidators   *)
(* filters names every validator it could return, and names it once.         *)
ListedOnceEach ==
  /\ {validatorList[i] : i \in DOMAIN validatorList} = {v \in Validators : validators[v].registered}
  /\ \A i, j \in DOMAIN validatorList : validatorList[i] = validatorList[j] => i = j
  /\ \A v \in Validators : validators[v].isActive => validators[v].registered

LEMMA FlagsKeepList ==
  ASSUME Registry!TypeOK, ListedOnceEach, UNCHANGED validatorList,
         \A v \in Validators : /\ validators'[v].registered = validators[v].registered
                               /\ validators'[v].isActive => validators[v].registered
  PROVE  ListedOnceEach'
BY DEF ListedOnceEach

LEMMA RegistrationLists ==
  ASSUME Registry!TypeOK, ListedOnceEach, NEW v \in Validators, NEW s \in Stakes,
         Registry!RegisterValidator(v, s)
  PROVE  ListedOnceEach'
<1> DEFINE L == validatorList
           n == Len(L)
<1>1. L \in Seq(Validators) /\ validatorList' = Append(L, v) /\ n \in Nat
  BY DEF Registry!TypeOK, Registry!RegisterValidator
<1>2. /\ DOMAIN L = 1..n /\ DOMAIN validatorList' = 1..(n + 1)
      /\ validatorList'[n + 1] = v /\ \A i \in 1..n : validatorList'[i] = L[i]
  BY <1>1
<1>3. ~validators[v].registered
      /\ \A u \in Validators : validators'[u] =
           IF u = v THEN [registered |-> TRUE, stake |-> s, isActive |-> TRUE] ELSE validators[u]
  BY DEF Registry!TypeOK, Registry!RegisterValidator
<1>4. \A i \in 1..n : L[i] \in Validators /\ validators[L[i]].registered /\ L[i] # v
  BY <1>2, <1>3 DEF ListedOnceEach
<1>5. {validatorList'[i] : i \in 1..(n + 1)} = {L[i] : i \in 1..n} \cup {v}
  BY <1>1, <1>2
<1>6. \A u \in Validators : validators'[u].registered <=> (u = v \/ validators[u].registered)
  BY <1>3
<1>7. {validatorList'[i] : i \in DOMAIN validatorList'} = {u \in Validators : validators'[u].registered}
  BY <1>2, <1>5, <1>6 DEF ListedOnceEach
<1>8. \A i, j \in DOMAIN validatorList' : validatorList'[i] = validatorList'[j] => i = j
  <2> SUFFICES ASSUME NEW i \in 1..(n + 1), NEW j \in 1..(n + 1), validatorList'[i] = validatorList'[j]
               PROVE  i = j
    BY <1>2
  <2>1. CASE i \in 1..n /\ j \in 1..n
    BY <1>2, <2>1 DEF ListedOnceEach
  <2>2. CASE i = n + 1 \/ j = n + 1
    BY <1>1, <1>2, <1>4, <2>2
  <2>3. QED  BY <1>1, <2>1, <2>2
<1>9. \A u \in Validators : validators'[u].isActive => validators'[u].registered
  BY <1>3 DEF ListedOnceEach
<1>10. QED  BY <1>7, <1>8, <1>9 DEF ListedOnceEach

LEMMA ListedStep ==
  ASSUME Registry!TypeOK, ListedOnceEach, Registry!Next
  PROVE  ListedOnceEach'
<1>1. PICK v \in Validators :
        \/ \E s \in Stakes : Registry!RegisterValidator(v, s) \/ Registry!UpdateStake(v, s)
        \/ Registry!ActivateValidator(v) \/ Registry!DeactivateValidator(v)
  BY DEF Registry!Next
<1>2. ASSUME NEW s \in Stakes, Registry!RegisterValidator(v, s)
      PROVE  ListedOnceEach'
  BY <1>2, RegistrationLists
<1>3. ASSUME \/ \E s \in Stakes : Registry!UpdateStake(v, s)
             \/ Registry!ActivateValidator(v) \/ Registry!DeactivateValidator(v)
      PROVE  ListedOnceEach'
  <2>1. /\ UNCHANGED validatorList /\ validators[v].registered
        /\ \A u \in Validators : u # v => validators'[u] = validators[u]
    BY <1>3 DEF Registry!UpdateStake, Registry!ActivateValidator, Registry!DeactivateValidator, Registry!TypeOK
  <2>2. validators'[v].registered = validators[v].registered
    BY <1>3 DEF Registry!UpdateStake, Registry!ActivateValidator, Registry!DeactivateValidator, Registry!TypeOK,
                Registry!Validator
  <2>3. QED  BY <2>1, <2>2, FlagsKeepList DEF ListedOnceEach
<1>4. QED  BY <1>1, <1>2, <1>3

(* Only its own transactions change the registry. *)
LEMMA RegistryUnchanged ==
  ASSUME [Next]_vars, ~RegistryStep
  PROVE  UNCHANGED <<validators, validatorList>>
<1> USE DEF registryVars
<1>1. CASE RequesterStep
  BY <1>1 DEF RequesterStep, RequestInferenceV2, CancelExpired, ReclaimAfterFinalizeTimeout
<1>2. CASE WorkerStep
  BY <1>2 DEF WorkerStep, DepositWorkerBond, WithdrawWorkerBond, CommitInference, RevealInference
<1>3. CASE ChallengerStep  BY <1>3 DEF ChallengerStep, OpenDispute
<1>4. CASE ResolverStep  BY <1>4 DEF ResolverStep, UpholdWorker, RejectWorker
<1>5. CASE OwnerTunes
  BY <1>5 DEF OwnerTunes, SetTreasury, SetResolver, SetSpamControls, SetWorkerBondParams,
    SetProtocolFee, SetTimeouts, SetPoIQuorum, SetValidatorRegistry, SetChallengeBond, Tune
<1>6. CASE AttestationStep  BY <1>6 DEF AttestationStep, SubmitPoIAttestation
<1>7. CASE Tick  BY <1>7 DEF Tick
<1>8. CASE \E id \in RequestIds : TimeoutReveal(id)  BY <1>8 DEF TimeoutReveal
<1>9. CASE \E a \in Accounts, v \in Values : ReceiveEther(a, v)  BY <1>9 DEF ReceiveEther
<1>10. CASE UNCHANGED vars  BY <1>10 DEF vars
<1>11. QED  BY <1>1, <1>2, <1>3, <1>4, <1>5, <1>6, <1>7, <1>8, <1>9, <1>10 DEF Next

(* In any order of registrations, flag changes and stake updates, whoever    *)
(* sends them, the list names the registered validators, each once, and no   *)
(* other validator is active.                                                *)
THEOREM ListIsExact == Spec => []ListedOnceEach
<1>1. Init => ListedOnceEach
  <2> SUFFICES ASSUME Init PROVE ListedOnceEach
    OBVIOUS
  <2>1. validatorList = <<>> /\ \A v \in Validators : ~validators[v].registered /\ ~validators[v].isActive
    BY DEF Init, Registry!Init
  <2>2. DOMAIN validatorList = {}
    BY <2>1
  <2>3. QED  BY <2>1, <2>2 DEF ListedOnceEach
<1>2. IInv /\ ListedOnceEach /\ [Next]_vars => ListedOnceEach'
  <2> SUFFICES ASSUME IInv, ListedOnceEach, [Next]_vars PROVE ListedOnceEach'
    OBVIOUS
  <2>1. CASE RegistryStep
    BY <2>1, ListedStep DEF RegistryStep, IInv, TypeOK
  <2>2. CASE ~RegistryStep
    <3>1. UNCHANGED <<validators, validatorList>>
      BY <2>2, RegistryUnchanged
    <3>2. QED  BY <3>1 DEF ListedOnceEach
  <2>3. QED  BY <2>1, <2>2
<1>3. QED  BY <1>1, <1>2, Inductive, PTL DEF Spec

(* The second pass of getActiveValidators fills each index once: entries are *)
(* stored at different indexes, none outside the array that was allocated.   *)
LEMMA EachIndexFilled ==
  ASSUME NEW A, A \subseteq Nat, IsFiniteSet(A)
  PROVE  LET at(i) == Cardinality({h \in A : h <= i})
         IN  /\ \A i \in A : at(i) \in 1 .. Cardinality(A)
             /\ \A i, j \in A : at(i) = at(j) => i = j
             /\ \A n \in 1 .. Cardinality(A) : \E i \in A : at(i) = n
<1> DEFINE upto(i) == {h \in A : h <= i}
           at(i)   == Cardinality(upto(i))
           N       == Cardinality(A)
           f       == [i \in A |-> at(i)]
<1>1. N \in Nat /\ IsFiniteSet(1..N) /\ Cardinality(1..N) = N
  BY FS_CardinalityType, FS_Interval
<1>2. \A i \in A : IsFiniteSet(upto(i)) /\ at(i) \in Nat /\ at(i) <= N
  <2> SUFFICES ASSUME NEW i \in A PROVE IsFiniteSet(upto(i)) /\ at(i) \in Nat /\ at(i) <= N
    OBVIOUS
  <2>1. upto(i) \in SUBSET A
    OBVIOUS
  <2>2. QED  BY <2>1, FS_Subset, FS_CardinalityType
<1>3. \A i \in A : at(i) # 0
  BY <1>2, FS_EmptySet
<1>4. \A i, j \in A : i < j => at(i) < at(j)
  <2> SUFFICES ASSUME NEW i \in A, NEW j \in A, i < j PROVE at(i) < at(j)
    OBVIOUS
  <2>1. j \in upto(j) /\ j \notin upto(i) /\ \A h \in upto(i) : h \in A /\ h <= j
    OBVIOUS
  <2>2. upto(i) \in SUBSET upto(j) /\ upto(i) # upto(j)
    BY <2>1
  <2>3. QED  BY <1>2, <2>2, FS_Subset
<1>5. \A i, j \in A : at(i) = at(j) => i = j
  BY <1>2, <1>4
<1> HIDE DEF at, N
<1>6. \A i \in A : at(i) \in 1..N
  <2> SUFFICES ASSUME NEW i \in A PROVE at(i) \in 1..N
    OBVIOUS
  <2>1. at(i) \in Nat /\ at(i) <= N /\ at(i) # 0
    BY <1>2, <1>3
  <2>2. QED  BY <1>1, <2>1
<1>7. f \in Injection(A, 1..N)
  BY <1>5, <1>6 DEF Injection, IsInjective
<1>8. f \in Surjection(A, 1..N)
  <2>1. IsFiniteSet(1..N) /\ Cardinality(A) = Cardinality(1..N)
    BY <1>1 DEF N
  <2>2. QED  BY <1>7, <2>1, FS_Injection
<1>9. \A n \in 1..N : \E i \in A : at(i) = n
  BY <1>8 DEF Surjection
<1>10. QED  BY <1>5, <1>6, <1>9 DEF at, N

(* The registry's Cardinality is that of FiniteSets. *)
LEMMA RegistryCounts == \A S : Registry!Cardinality(S) = Cardinality(S)
BY DEF Registry!Cardinality, Cardinality

(* getActiveValidators is exact: anybody may flip flags and register between *)
(* two of its callers, and still the array it returns has every validator    *)
(* whose flag is set in the mapping, and none twice.                         *)
THEOREM ActiveValidatorsExact == Spec => []ActiveListExact
<1>1. TypeOK /\ ListedOnceEach => ActiveListExact
  <2> SUFFICES ASSUME TypeOK, ListedOnceEach PROVE ActiveListExact
    OBVIOUS
  <2> DEFINE A      == Registry!ActiveEntries
             listed == Registry!GetActiveValidators
             N      == Cardinality(A)
  <2>1. /\ validatorList \in Seq(Validators) /\ Len(validatorList) \in Nat
        /\ DOMAIN validatorList = 1 .. Len(validatorList)
    BY DEF TypeOK, Registry!TypeOK
  <2>2. A \subseteq 1 .. Len(validatorList)
    BY <2>1 DEF Registry!ActiveEntries
  <2> HIDE DEF A
  <2>3. A \subseteq Nat /\ IsFiniteSet(A)
    <3>1. A \in SUBSET (1 .. Len(validatorList)) /\ IsFiniteSet(1 .. Len(validatorList))
      BY <2>1, <2>2, FS_Interval
    <3>2. IsFiniteSet(A)
      BY <3>1, FS_Subset
    <3>3. QED  BY <2>1, <3>1, <3>2
  <2>4. /\ \A i \in A : Registry!Stored(i) \in 1 .. N
        /\ \A i, j \in A : Registry!Stored(i) = Registry!Stored(j) => i = j
        /\ \A n \in 1 .. N : \E i \in A : Registry!Stored(i) = n
    <3>1. \A i : Registry!Stored(i) = Cardinality({h \in A : h <= i})
      BY RegistryCounts DEF Registry!Stored, A
    <3> DEFINE at(i) == Cardinality({h \in A : h <= i})
    <3>2. /\ \A i \in A : at(i) \in 1 .. Cardinality(A)
          /\ \A i, j \in A : at(i) = at(j) => i = j
          /\ \A n \in 1 .. Cardinality(A) : \E i \in A : at(i) = n
      BY <2>3, EachIndexFilled
    <3> HIDE DEF at
    <3>3. \A i : Registry!Stored(i) = at(i)
      BY <3>1 DEF at
    <3>4. QED  BY <3>2, <3>3
  <2> HIDE DEF N
  <2> DEFINE entry(n) == CHOOSE i \in A : Registry!Stored(i) = n
  <2>5. \A n \in 1 .. N : entry(n) \in A /\ Registry!Stored(entry(n)) = n
    BY <2>4
  <2>6. DOMAIN listed = 1 .. N /\ \A n \in 1 .. N : listed[n] = validatorList[entry(n)]
    BY RegistryCounts DEF Registry!GetActiveValidators, A, N
  <2> HIDE DEF listed, entry
  <2>7. \A i \in A : entry(Registry!Stored(i)) = i
    BY <2>4, <2>5
  <2>8. \A i, j \in DOMAIN listed : listed[i] = listed[j] => i = j
    <3> SUFFICES ASSUME NEW i \in 1 .. N, NEW j \in 1 .. N, listed[i] = listed[j] PROVE i = j
      BY <2>6
    <3>1. entry(i) \in DOMAIN validatorList /\ entry(j) \in DOMAIN validatorList
      BY <2>1, <2>2, <2>5
    <3>2. validatorList[entry(i)] = validatorList[entry(j)]
      BY <2>6
    <3>3. entry(i) = entry(j)
      BY <3>1, <3>2 DEF ListedOnceEach
    <3>4. QED  BY <2>5, <3>3
  <2>9. {listed[j] : j \in DOMAIN listed} = {validatorList[i] : i \in A}
    <3>1. \A n \in 1 .. N : listed[n] \in {validatorList[i] : i \in A}
      BY <2>5, <2>6
    <3>2. \A i \in A : validatorList[i] = listed[Registry!Stored(i)] /\ Registry!Stored(i) \in 1 .. N
      BY <2>4, <2>6, <2>7
    <3>3. QED  BY <2>6, <3>1, <3>2
  <2>10. {validatorList[i] : i \in A} = {v \in Validators : validators[v].isActive}
    <3>1. A = {i \in DOMAIN validatorList : validators[validatorList[i]].isActive}
      BY DEF A, Registry!ActiveEntries
    <3>2. \A v \in Validators : validators[v].isActive =>
             \E i \in DOMAIN validatorList : validatorList[i] = v
      BY DEF ListedOnceEach
    <3>3. \A i \in DOMAIN validatorList : validatorList[i] \in Validators
      BY <2>1
    <3>4. QED  BY <3>1, <3>2, <3>3
  <2>11. QED  BY <2>8, <2>9, <2>10 DEF ActiveListExact, listed
<1>2. QED  BY <1>1, TypeCorrect, ListIsExact, PTL
-----------------------------------------------------------------------------
(* The fourth part: transactions taken apart at their calls.  What holds     *)
(* whenever a payee runs: BInv, with the dispute being decided set apart and *)
(* the worker's share still to be paid, and what the rest of the transaction *)
(* will read from storage.                                                   *)
InDispute == IF call.next \in Deciding THEN {call.id} ELSE {}

Stage ==
  /\ call.next = "nothing" => call = NoCall
  /\ call.next # "nothing" => call.id \in RequestIds
  /\ call.next # "payWorker" => call.due = 0
  /\ call.next = "payWorker" => requests[call.id].status = "Finalized"
  /\ call.next = "slash" => requests[call.id].status = "TimedOut"
  /\ call.next \in {"payWorker", "slash"} => requests[call.id].worker \in Accounts
  /\ call.next = "close" => requests[call.id].fee = 0

CInv == call \in Call /\ Stage /\ BInv(InDispute, call.due)

LEMMA CInvParts ==
  ASSUME CInv
  PROVE  \E D, due : D = InDispute /\ due = call.due /\ due \in Nat /\ BInv(D, due)
BY DEF CInv, Call

LEMMA CInvFrom ==
  ASSUME NEW D, NEW due \in Nat, BInv(D, due)', D = InDispute', due = call'.due,
         call' \in Call, Stage'
  PROVE  CInv'
BY DEF CInv, BInv, Apart, Covers

(* With no transaction under way this is the invariant of AIVMInferenceV2. *)
LEMMA CallsAtRest == ASSUME CInv, call = NoCall PROVE IInv
<1>1. InDispute = {} /\ call.due = 0
  BY DEF NoCall, InDispute, Deciding
<1> QED  BY <1>1, AtRest DEF CInv

LEMMA CallsRest == ASSUME IInv', call' = NoCall PROVE CInv'
<1>1. InDispute' = {} /\ call'.due = 0 /\ call' \in Call /\ Stage'
  BY DEF NoCall, InDispute, Deciding, Call, Stage
<1> QED  BY <1>1, AtRest, CInvFrom
-----------------------------------------------------------------------------
LEMMA UnlockedKeeps ==
  ASSUME NEW D, NEW due \in Nat, BInv(D, due), Unlocked
  PROVE  BInv(D, due)'
BY RequestInferenceV2Step, DepositWorkerBondStep, CommitInferenceStep, OpenDisputeStep,
   OwnerTunesStep, RegistryStepStep, ReceiveEtherStep DEF Unlocked, ChallengerStep

(* No function without a lock touches a request that is disputed or has ended. *)
LEMMA UnlockedLeaves ==
  ASSUME TypeOK, RequestShape, Unlocked, NEW k \in RequestIds,
         requests[k].status \in {"Disputed"} \cup Ended
  PROVE  /\ requests'[k] = requests[k]
         /\ challenges'[k] = challenges[k]
         /\ requestBondLocked'[k] = requestBondLocked[k]
<1> USE DEF Ended
<1>1. CASE \E a \in Requesters, v \in Values : RequestInferenceV2(a, v)
  <2>1. PICK r : requests' = [requests EXCEPT ![nextRequestId] = r]
    BY <1>1 DEF RequestInferenceV2
  <2>2. UNCHANGED <<challenges, requestBondLocked>>
    BY <1>1 DEF RequestInferenceV2
  <2>3. k # nextRequestId
    BY DEF RequestShape, Shape, TypeOK, RequestIds
  <2> QED  BY <2>1, <2>2, <2>3 DEF TypeOK
<1>2. CASE \E w \in Workers, v \in Values : DepositWorkerBond(w, v)
  BY <1>2 DEF DepositWorkerBond
<1>3. CASE \E w \in Workers, id \in RequestIds, h \in Hashes \cup {Unopenable} :
             CommitInference(w, id, h)
  <2>1. PICK w \in Workers, id \in RequestIds, h \in Hashes \cup {Unopenable} :
          CommitInference(w, id, h)
    BY <1>3
  <2>2. id # k
    BY <2>1 DEF CommitInference
  <2> QED  BY <2>1, <2>2 DEF CommitInference, TypeOK
<1>4. CASE ChallengerStep
  <2>1. PICK a \in Challengers, id \in RequestIds, v \in Values : OpenDispute(a, id, v)
    BY <1>4 DEF ChallengerStep
  <2>2. id # k
    BY <2>1 DEF OpenDispute
  <2> QED  BY <2>1, <2>2 DEF OpenDispute, TypeOK
<1>5. CASE OwnerTunes
  BY <1>5 DEF OwnerTunes, SetTreasury, SetResolver, SetSpamControls, SetWorkerBondParams,
     SetProtocolFee, SetTimeouts, SetPoIQuorum, SetValidatorRegistry, SetChallengeBond, Tune,
     moneyVars
<1>6. CASE RegistryStep
  BY <1>6 DEF RegistryStep, moneyVars
<1>7. CASE \E a \in Accounts, v \in Values : ReceiveEther(a, v)
  BY <1>7 DEF ReceiveEther
<1> QED  BY <1>1, <1>2, <1>3, <1>4, <1>5, <1>6, <1>7 DEF Unlocked

(* The request a transaction under way is about is in such a state. *)
LEMMA CallsStatus ==
  ASSUME CInv, call.next # "nothing"
  PROVE  /\ call.id \in RequestIds /\ TypeOK /\ RequestShape
         /\ requests[call.id].status \in {"Disputed"} \cup Ended
BY DEF CInv, Call, Stage, BInv, Apart, Decided, InDispute, Ended

LEMMA UnlockedCInv == ASSUME CInv, UnlockedStep PROVE CInv'
<1>1. PICK D, due : D = InDispute /\ due = call.due /\ due \in Nat /\ BInv(D, due)
  BY CInvParts
<1>2. Unlocked /\ call' = call
  BY DEF UnlockedStep
<1>3. BInv(D, due)'
  BY <1>1, <1>2, UnlockedKeeps
<1>4. D = InDispute' /\ due = call'.due /\ call' \in Call
  BY <1>1, <1>2 DEF InDispute, CInv
<1>5. Stage'
  <2>1. CASE call.next = "nothing"
    BY <1>2, <2>1 DEF CInv, Stage
  <2>2. CASE call.next # "nothing"
    BY <1>2, <2>2, CallsStatus, UnlockedLeaves DEF CInv, Stage
  <2> QED  BY <2>1, <2>2
<1> QED  BY <1>1, <1>3, <1>4, <1>5, CInvFrom

LEMMA LockedCInv == ASSUME CInv, LockedStep PROVE CInv'
<1>1. IInv
  BY CallsAtRest DEF LockedStep
<1>2. BInv({}, 0) /\ (IInv' <=> BInv({}, 0)')
  BY <1>1, AtRest
<1>3. CASE Tick
  BY <1>2, <1>3, TickStep, CallsRest DEF LockedStep
<1>4. CASE ~Tick
  BY <1>1, <1>4, WithdrawWorkerBondStep, CancelExpiredStep, ReclaimStep, CallsRest DEF LockedStep
<1> QED  BY <1>3, <1>4
-----------------------------------------------------------------------------
(* The transactions that come to _tryFinalize: the treasury is paid, and the *)
(* worker's share is due, or nothing is paid and they return.                *)
LEMMA TryCalling ==
  ASSUME NEW id \in RequestIds, NEW D \in SUBSET {id}, BInv(D, 0),
         NEW r, NEW open, NEW p,
         TryReady(id, r, open, balance), TryFinalizeCalling(id, r, open, p)
  PROVE  CInv'
<1>1. /\ r \in Request /\ r.worker = requests[id].worker
      /\ r.finalizedAt = requests[id].finalizedAt
      /\ \/ r.status = requests[id].status
         \/ r.status = "Revealed" /\ requests[id].status \in {"Committed", "Disputed"}
  BY DEF TryReady
<1>2. /\ r.fee \in Nat /\ settings.treasury \in Accounts /\ TypeOK /\ Shape(id)
      /\ wallet \in [Accounts -> Nat] /\ balance \in Nat /\ requests \in [RequestIds -> Request]
  <2>1. TypeOK /\ Shape(id) /\ r \in Request
    BY <1>1 DEF BInv, RequestShape
  <2>2. settings \in Settings /\ requests \in [RequestIds -> Request]
    BY <2>1 DEF TypeOK
  <2> QED  BY <2>1, <2>2 DEF TypeOK, Settings, Request
<1>3. /\ ProtocolFee(r.fee) \in Nat /\ WorkerShare(r.fee) \in Nat
      /\ ProtocolFee(r.fee) + WorkerShare(r.fee) = r.fee
  BY <1>2, FeeShares
<1>4. CASE Finalizable(r, open, p)
  <2>9. PICK pf \in Nat, due \in Nat :
          pf = ProtocolFee(r.fee) /\ due = WorkerShare(r.fee) /\ pf + due = r.fee
    BY <1>3
  <2>1. /\ Finalize(id, r) /\ balance' = balance - pf
        /\ wallet' = Pay(wallet, settings.treasury, pf)
        /\ call' = [next |-> "payWorker", id |-> id, due |-> due, payeeRuns |-> pf # 0]
    BY <1>4, <2>9, Zenon DEF TryFinalizeCalling, Sent
  <2>2. due \in Nat /\ pf \in Nat /\ pf + due = r.fee
    BY <2>9
  <2>3. wallet' \in [Accounts -> Nat]
    BY <1>2, <2>1, <2>2, PayType
  <2>4. balance' = balance - r.fee + due
    BY <1>2, <2>1, <2>2
  <2>5. BInv({}, due)'
    BY <1>4, <2>1, <2>2, <2>3, <2>4, TriedStep
  <2>6. requests'[id].status = "Finalized" /\ requests'[id].worker \in Accounts
    <3>1. r.worker \in Accounts
      BY <1>1, <1>2, <1>4 DEF Shape, Finalizable
    <3>2. requests'[id] = [r EXCEPT !.status = "Finalized", !.finalizedAt = now, !.fee = 0]
      BY <1>2, <2>1 DEF Finalize
    <3> QED  BY <1>1, <3>1, <3>2 DEF Request
  <2>7. call' \in Call /\ InDispute' = {} /\ call'.due = due
    BY <2>1, <2>2 DEF Call, InDispute, Deciding
  <2>8. Stage'
    BY <2>1, <2>6 DEF Stage
  <2> QED  BY <2>2, <2>5, <2>7, <2>8, CInvFrom
<1>5. CASE ~Finalizable(r, open, p)
  <2>1. Unfinalized(id, r) /\ balance' = balance /\ wallet' = wallet /\ call' = NoCall
    BY <1>5, Zenon DEF TryFinalizeCalling
  <2>2. BInv({}, 0)'
    BY <1>2, <1>5, <2>1, TriedStep
  <2> QED  BY <2>1, <2>2, AtRest, CallsRest
<1> QED  BY <1>4, <1>5

LEMMA BeginRevealCInv ==
  ASSUME CInv, NEW w \in Workers, NEW id \in RequestIds, NEW h \in Hashes,
         BeginReveal(w, id, h)
  PROVE  CInv'
<1> DEFINE s == [requests[id] EXCEPT !.status = "Revealed", !.responseHash = h]
<1>1. IInv /\ BInv({}, 0)
  BY CallsAtRest, AtRest DEF BeginReveal
<1>2. TryFinalizeCalling(id, s, FALSE, poi[id])
  BY DEF BeginReveal
<1>3. TryReady(id, s, FALSE, balance)
  BY <1>1, RevealReady DEF BeginReveal
<1> QED  BY <1>1, <1>2, <1>3, TryCalling

LEMMA BeginAttestationCInv ==
  ASSUME CInv, NEW v \in Validators, NEW t \in RequestIds, NEW h \in Hashes,
         NEW x \in Transcripts, NEW n \in Slots, BeginAttestation(v, t, h, x, n)
  PROVE  CInv'
<1> DEFINE q == Attested(poi[t], v, h, x, n)
<1>1. IInv /\ BInv({}, 0)
  BY CallsAtRest, AtRest DEF BeginAttestation
<1>2. /\ poi' = [poi EXCEPT ![t] = q]
      /\ UNCHANGED <<now, nextRequestId, challenges, settings, workerBond, registryVars>>
  BY DEF BeginAttestation
<1>3. poi' \in [RequestIds -> PoI]
  BY <1>1, <1>2, AttestedType DEF IInv
<1>4. CASE TryFinalizeCalling(t, requests[t], OpenChallenge(t), q)
  BY <1>1, <1>2, <1>3, <1>4, AttestationReady, TryCalling
<1>5. CASE /\ UNCHANGED <<requests, pendingByRequester, requestBondLocked,
                          workerBondLocked, balance, wallet>>
           /\ call' = NoCall
  <2>1. TypeOK'
    BY <1>1, <1>2, <1>3, <1>5 DEF IInv, TypeOK, registryVars, Registry!TypeOK
  <2>2. BInv({}, 0)'
    BY <1>1, <1>2, <1>5, <2>1, QuietStep DEF moneyVars
  <2> QED  BY <1>5, <2>2, AtRest, CallsRest
<1>6. \/ TryFinalizeCalling(t, requests[t], OpenChallenge(t), q)
      \/ /\ UNCHANGED <<requests, pendingByRequester, requestBondLocked,
                        workerBondLocked, balance, wallet>>
         /\ call' = NoCall
  BY Zenon DEF BeginAttestation
<1> QED  BY <1>4, <1>5, <1>6

LEMMA ConcludeReady ==
  ASSUME NEW id \in RequestIds, BInv({id}, 0),
         UNCHANGED <<now, nextRequestId, challenges, poi, settings, workerBond, registryVars>>
  PROVE  TryReady(id, [requests[id] EXCEPT !.status = "Revealed"], FALSE, balance)
<1> DEFINE r == requests[id]
           s == [r EXCEPT !.status = "Revealed"]
<1>1. /\ r \in Request /\ TypeOK /\ challenges[id].bond = 0 /\ r.status = "Disputed"
      /\ ~OpenChallenge(id) /\ Solvent
  BY SolventIfCovers DEF BInv, TypeOK, Apart, Decided
<1>2. /\ s \in Request /\ s.status = "Revealed" /\ s.requester = r.requester
      /\ s.worker = r.worker /\ s.fee = r.fee /\ s.finalizedAt = r.finalizedAt
  <2> HIDE DEF r
  <2> QED  BY <1>1 DEF Request, Live
<1> HIDE DEF s
<1>3. balance >= r.fee
  <2>1. PICK any \in Accounts : TRUE
    BY <1>1 DEF TypeOK, Settings
  <2>2. r.fee + challenges[id].bond + workerBond[any] <= balance
    BY <1>1, OwedBound
  <2>3. workerBond[any] \in Nat /\ balance \in Nat /\ r.fee \in Nat
    BY <1>1 DEF TypeOK, Request
  <2> QED  BY <1>1, <2>2, <2>3
<1>4. /\ challenges' \in [RequestIds -> Challenge] /\ poi' \in [RequestIds -> PoI]
      /\ balance = balance - (challenges[id].bond - challenges'[id].bond)
      /\ challenges'[id].bond = 0 /\ ~OpenChallenge(id)'
  BY <1>1 DEF TypeOK, OpenChallenge
<1>5. TryReady(id, s, FALSE, balance)
  BY <1>1, <1>2, <1>3, <1>4 DEF TryReady
<1> QED  BY <1>5 DEF s

(* What a decision reads from storage after its calls. *)
LEMMA DecidingFacts ==
  ASSUME CInv, call.next \in Deciding
  PROVE  call.id \in RequestIds /\ BInv({call.id}, 0)
<1>1. call.due = 0 /\ call.id \in RequestIds /\ InDispute = {call.id}
  BY DEF CInv, Stage, InDispute, Deciding
<1> QED  BY <1>1 DEF CInv, BInv, Apart, Covers

LEMMA ConcludeCInv == ASSUME CInv, Conclude PROVE CInv'
<1>1. PICK id \in RequestIds : id = call.id /\ BInv({id}, 0)
  BY DecidingFacts DEF Conclude, Deciding
<1> DEFINE s == [requests[id] EXCEPT !.status = "Revealed"]
<1>2. TryFinalizeCalling(id, s, FALSE, poi[id])
  BY <1>1 DEF Conclude
<1>3. TryReady(id, s, FALSE, balance)
  BY <1>1, ConcludeReady DEF Conclude
<1> QED  BY <1>1, <1>2, <1>3, TryCalling

(* timeoutReveal up to the payment of the fee: the request has ended, its    *)
(* worker's bond is still locked.                                            *)
LEMMA BeginTimeoutCInv ==
  ASSUME CInv, NEW id \in RequestIds, BeginTimeout(id)
  PROVE  CInv'
<1>1. IInv
  BY CallsAtRest DEF BeginTimeout
<1>2. requests[id].status = "Committed" /\ requests[id].status \in Live
  BY DEF BeginTimeout, Live
<1>3. /\ requests[id].requester \in Accounts /\ requests[id].worker \in Accounts
      /\ requests[id].fee \in Nat /\ challenges[id].bond \in Nat /\ balance \in Nat
      /\ wallet \in [Accounts -> Nat] /\ ~OpenChallenge(id)
      /\ requests \in [RequestIds -> Request]
  BY <1>1, <1>2, EndFacts DEF IInv, TypeOK
<1>4. /\ requests' = [requests EXCEPT ![id] = EndAs(@, "TimedOut")]
      /\ pendingByRequester' = LessPending(requests[id].requester)
      /\ balance' = balance - requests[id].fee
      /\ wallet' = Pay(wallet, requests[id].requester, requests[id].fee)
      /\ UNCHANGED <<now, nextRequestId, challenges, poi, settings, workerBond,
                     workerBondLocked, requestBondLocked, registryVars>>
      /\ call' = [next |-> "slash", id |-> id, due |-> 0, payeeRuns |-> requests[id].fee # 0]
  BY DEF BeginTimeout, Sent
<1>5. wallet' \in [Accounts -> Nat]
  BY <1>3, <1>4, PayType
<1>6. balance' = balance - (requests[id].fee + challenges[id].bond - challenges'[id].bond)
  BY <1>3, <1>4
<1>7. IInv'
  BY <1>1, <1>2, <1>3, <1>4, <1>5, <1>6, EndStep
<1>8. requests'[id].status = "TimedOut" /\ requests'[id].worker \in Accounts
  BY <1>3, <1>4 DEF EndAs, Request
<1>9. call' \in Call /\ InDispute' = {} /\ call'.due = 0
  BY <1>4 DEF Call, InDispute, Deciding
<1>10. Stage'
  BY <1>4, <1>8 DEF Stage
<1> QED  BY <1>7, <1>9, <1>10, AtRest, CInvFrom

(* resolveChallenge up to the payment of the dispute bond. *)
LEMMA BeginDecisionCInv ==
  ASSUME CInv, NEW a \in Accounts, NEW id \in RequestIds, NEW uphold \in BOOLEAN,
         BeginDecision(a, id, uphold)
  PROVE  CInv'
<1> DEFINE r == requests[id]
           c == challenges[id]
           d == [c EXCEPT !.resolved = TRUE, !.upheld = uphold, !.bond = 0]
<1>1. IInv /\ BInv({}, 0)
  BY CallsAtRest, AtRest DEF BeginDecision
<1>2. /\ TypeOK /\ Shape(id) /\ c \in Challenge /\ r \in Request /\ OpenChallenge(id)
      /\ r.status = "Disputed"
  BY <1>1 DEF BeginDecision, IInv, TypeOK, RequestShape, DisputeMatches, DisputeMatch
<1>3. /\ r.worker \in Accounts /\ c.challenger \in Accounts /\ c.bond \in Nat
      /\ balance \in Nat /\ wallet \in [Accounts -> Nat]
  BY <1>2 DEF Shape, Challenge, OpenChallenge, TypeOK
<1>4. Winner(id, uphold) \in Accounts
  BY <1>3 DEF Winner
<1>5. /\ challenges' = [challenges EXCEPT ![id] = d]
      /\ balance' = balance - c.bond
      /\ wallet' = Pay(wallet, Winner(id, uphold), c.bond)
      /\ call' = [next |-> IF uphold THEN "conclude" ELSE "punish", id |-> id, due |-> 0,
                  payeeRuns |-> c.bond # 0]
      /\ UNCHANGED <<now, nextRequestId, requests, poi, settings, pendingByRequester,
                     workerBond, workerBondLocked, requestBondLocked, registryVars>>
  BY DEF BeginDecision, Sent
<1>6. /\ d \in Challenge /\ d.challenger = c.challenger /\ d.resolved /\ d.bond = 0
  <2> HIDE DEF c
  <2> QED  BY <1>2 DEF Challenge
<1> HIDE DEF d
<1>7. /\ challenges' \in [RequestIds -> Challenge] /\ challenges'[id] = d
      /\ \A k \in RequestIds \ {id} : challenges'[k] = challenges[k]
  BY <1>2, <1>5, <1>6 DEF TypeOK
<1>8. wallet' \in [Accounts -> Nat]
  BY <1>3, <1>4, <1>5, PayType
<1>9. c.bond <= balance
  <2>1. r.fee + c.bond + workerBond[r.worker] <= balance
    BY <1>1, <1>3, OwedBound DEF IInv
  <2>2. r.fee \in Nat /\ workerBond[r.worker] \in Nat
    BY <1>2, <1>3 DEF Request, TypeOK
  <2> QED  BY <1>3, <2>1, <2>2
<1>10. TypeOK'
  <2>1. balance' \in Nat
    BY <1>3, <1>5, <1>9
  <2> QED  BY <1>2, <1>5, <1>7, <1>8, <2>1 DEF TypeOK, registryVars, Registry!TypeOK
<1>11. RequestShape'
  <2> SUFFICES ASSUME NEW k \in RequestIds PROVE Shape(k)'
    BY DEF RequestShape
  <2>1. Shape(k)
    BY <1>1 DEF IInv, RequestShape
  <2>2. challenges'[k].challenger = challenges[k].challenger
    BY <1>6, <1>7
  <2> QED  BY <1>5, <2>1, <2>2 DEF Shape
<1>12. Apart({id})'
  <2> SUFFICES ASSUME NEW k \in RequestIds
               PROVE  IF k \in {id} THEN Decided(k)' ELSE DisputeMatch(k)'
    BY DEF Apart
  <2>1. CASE k = id
    BY <1>2, <1>5, <1>6, <1>7, <2>1 DEF Decided, OpenChallenge
  <2>2. CASE k # id
    <3>1. DisputeMatch(k)
      BY <1>1 DEF IInv, DisputeMatches
    <3> QED  BY <1>5, <1>7, <2>2, <3>1 DEF DisputeMatch, OpenChallenge
  <2> QED  BY <2>1, <2>2
<1>13. LocksMatch'
  BY <1>1, <1>5, LocksSame DEF IInv, LocksMatch
<1>14. PendingMatches'
  BY <1>1, <1>5, PendingSame DEF IInv
<1>15. Covers(0)'
  <2>1. balance' - balance >= (requests'[id].fee - requests[id].fee)
                              + (challenges'[id].bond - challenges[id].bond)
                              + (workerBond'[r.worker] - workerBond[r.worker])
    <3>1. r.fee \in Nat /\ workerBond[r.worker] \in Nat
      BY <1>2, <1>3 DEF Request, TypeOK
    <3>2. /\ requests' = requests /\ workerBond' = workerBond /\ challenges'[id].bond = 0
          /\ balance' = balance - c.bond
      BY <1>5, <1>6, <1>7
    <3> QED  BY <1>3, <3>1, <3>2
  <2> QED  BY <1>1, <1>3, <1>5, <1>7, <1>10, <2>1, CoverStep DEF BInv
<1>16. BInv({id}, 0)'
  BY <1>10, <1>11, <1>12, <1>13, <1>14, <1>15 DEF BInv
<1>17. call' \in Call /\ InDispute' = {id} /\ call'.due = 0 /\ Stage'
  BY <1>5 DEF Call, InDispute, Deciding, Stage
<1> QED  BY <1>16, <1>17, CInvFrom

(* The worker's share, set apart until now, leaves the contract. *)
LEMMA PayWorkerCInv == ASSUME CInv, PayWorker PROVE CInv'
<1>1. /\ call.next = "payWorker" /\ balance' = balance - call.due /\ call' = NoCall
      /\ wallet' = Pay(wallet, requests[call.id].worker, call.due)
      /\ UNCHANGED <<now, nextRequestId, requests, challenges, poi, settings,
                     pendingByRequester, workerBond, workerBondLocked,
                     requestBondLocked, registryVars>>
  BY DEF PayWorker
<1>2. PICK due \in Nat : due = call.due /\ BInv({}, due)
  <2>1. InDispute = {} /\ call.due \in Nat
    BY <1>1 DEF CInv, Call, InDispute, Deciding
  <2>2. \E D, due : D = InDispute /\ due = call.due /\ due \in Nat /\ BInv(D, due)
    BY CInvParts
  <2> QED  BY <2>1, <2>2
<1>3. /\ TypeOK /\ balance >= Owed + due /\ requests[call.id].worker \in Accounts
      /\ balance \in Nat /\ wallet \in [Accounts -> Nat]
  BY <1>1, <1>2 DEF CInv, Stage, BInv, Covers, TypeOK
<1>4. wallet' \in [Accounts -> Nat] /\ balance' \in Nat
  BY <1>1, <1>2, <1>3, PayType, OwedNat
<1>5. TypeOK'
  BY <1>1, <1>3, <1>4 DEF TypeOK, registryVars, Registry!TypeOK
<1>6. RequestShape' /\ Apart({})' /\ LocksMatch' /\ PendingMatches'
  <2>1. RequestShape'
    BY <1>1, <1>2 DEF BInv, RequestShape, Shape
  <2>2. Apart({})'
    BY <1>1, <1>2 DEF BInv, Apart, DisputeMatch, OpenChallenge
  <2>3. LocksMatch'
    BY <1>1, <1>2, LocksSame DEF BInv, LocksMatch
  <2>4. PendingMatches'
    BY <1>1, <1>2, PendingSame DEF BInv
  <2> QED  BY <2>1, <2>2, <2>3, <2>4
<1>7. Covers(0)'
  <2>1. Fees' = Fees /\ ChallengeBonds' = ChallengeBonds
    BY <1>1 DEF Fees, ChallengeBonds
  <2>2. Owed' = Owed
    BY <1>1, <2>1 DEF Owed
  <2>3. balance' >= Owed' + 0
    BY <1>1, <1>2, <1>3, <2>2, OwedNat
  <2> QED  BY <2>3 DEF Covers
<1>8. BInv({}, 0)'
  BY <1>5, <1>6, <1>7 DEF BInv
<1> QED  BY <1>1, <1>8, AtRest, CallsRest

(* The worker's bond is slashed and paid, the request as it was left. *)
LEMMA SlashedBInv ==
  ASSUME NEW D, BInv(D, 0), NEW id \in RequestIds,
         requests[id].worker \in Accounts, requests[id].requester \in Accounts,
         SlashBond(id),
         balance' = balance - requestBondLocked[id],
         wallet' = Pay(wallet, requests[id].requester, requestBondLocked[id]),
         UNCHANGED <<now, nextRequestId, requests, challenges, poi, settings,
                     pendingByRequester, registryVars>>
  PROVE  BInv(D, 0)'
<1> DEFINE w == requests[id].worker
           b == requestBondLocked[id]
<1>1. TypeOK /\ LocksMatch /\ Solvent
  BY SolventIfCovers DEF BInv
<1>2. /\ b \in Nat /\ balance \in Nat /\ wallet \in [Accounts -> Nat]
      /\ workerBond[w] \in Nat /\ workerBondLocked[w] \in Nat
      /\ requests[id].fee \in Nat /\ challenges[id].bond \in Nat
  BY <1>1 DEF TypeOK, Request, Challenge
<1>3. b <= workerBondLocked[w] /\ workerBondLocked[w] <= workerBond[w]
  BY <1>1, LockBound
<1>4. workerBond[w] <= balance
  <2>1. requests[id].fee + challenges[id].bond + workerBond[w] <= balance
    BY <1>1, OwedBound
  <2> QED  BY <1>2, <2>1
<1>5. /\ requestBondLocked' = [requestBondLocked EXCEPT ![id] = 0]
      /\ workerBondLocked' = [workerBondLocked EXCEPT ![w] = workerBondLocked[w] - b]
      /\ workerBond' = [workerBond EXCEPT ![w] = workerBond[w] - b]
  BY <1>1, <1>2 DEF SlashBond, TypeOK
<1>6. TypeOK'
  <2>1. wallet' \in [Accounts -> Nat]
    BY <1>2, PayType
  <2>2. balance' \in Nat /\ workerBondLocked[w] - b \in Nat /\ workerBond[w] - b \in Nat
    BY <1>2, <1>3, <1>4
  <2>3. /\ requestBondLocked' \in [RequestIds -> Nat]
        /\ workerBondLocked' \in [Accounts -> Nat] /\ workerBond' \in [Accounts -> Nat]
    BY <1>1, <1>5, <2>2 DEF TypeOK
  <2> QED  BY <1>1, <2>1, <2>2, <2>3 DEF TypeOK, registryVars, Registry!TypeOK
<1>7. RequestShape'
  BY <1>1, <1>5 DEF BInv, RequestShape, Shape, TypeOK
<1>8. Apart(D)'
  BY DEF BInv, Apart, Decided, DisputeMatch, OpenChallenge
<1>9. /\ workerBondLocked'[w] = workerBondLocked[w] - b /\ workerBond'[w] = workerBond[w] - b
      /\ requestBondLocked'[id] = 0
      /\ \A k \in RequestIds \ {id} : requestBondLocked'[k] = requestBondLocked[k]
      /\ \A a \in Accounts \ {w} : /\ workerBondLocked'[a] = workerBondLocked[a]
                                   /\ workerBond'[a] = workerBond[a]
  BY <1>1, <1>5 DEF TypeOK
<1>10. LocksMatch'
  <2>1. /\ workerBondLocked'[w] = workerBondLocked[w] - b + requestBondLocked'[id]
        /\ workerBondLocked'[w] <= workerBond'[w]
    BY <1>2, <1>3, <1>9
  <2> QED  BY <1>1, <1>6, <1>9, <2>1, LocksStep
<1>11. PendingMatches'
  BY PendingSame DEF BInv
<1>12. Covers(0)'
  <2>1. balance' - balance >= (requests'[id].fee - requests[id].fee)
                              + (challenges'[id].bond - challenges[id].bond)
                              + (workerBond'[w] - workerBond[w])
    BY <1>2, <1>9
  <2> QED  BY <1>1, <1>6, <1>9, <2>1, CoverStep DEF BInv
<1> QED  BY <1>6, <1>7, <1>8, <1>10, <1>11, <1>12 DEF BInv

LEMMA PaySlashedCInv == ASSUME CInv, PaySlashed PROVE CInv'
<1>1. PICK D, due : D = InDispute /\ due = call.due /\ due \in Nat /\ BInv(D, due)
  BY CInvParts
<1>2. PICK id \in RequestIds : id = call.id
  BY DEF CInv, Stage, PaySlashed
<1>3. due = 0
  BY <1>1 DEF CInv, Stage, PaySlashed
<1>4. requests[id].worker \in Accounts /\ requests[id].requester \in Accounts
  <2>1. CASE call.next = "slash"
    BY <1>1, <1>2, <2>1 DEF CInv, Stage, BInv, RequestShape, Shape
  <2>2. CASE call.next = "punish"
    <3>1. requests[id].status = "Disputed"
      BY <1>1, <1>2, <2>2 DEF BInv, Apart, Decided, InDispute, Deciding
    <3> QED  BY <1>1, <3>1 DEF BInv, RequestShape, Shape
  <2> QED  BY <2>1, <2>2 DEF PaySlashed
<1>5. BInv(D, 0)'
  BY <1>1, <1>2, <1>3, <1>4, SlashedBInv DEF PaySlashed
<1>6. CASE call.next = "slash" /\ call' = NoCall
  <2>1. D = {}
    BY <1>1, <1>6 DEF InDispute, Deciding
  <2> QED  BY <1>5, <1>6, <2>1, AtRest, CallsRest
<1>7. CASE call.next = "punish" /\ Sent(requestBondLocked[id], "refund", id, 0)
  <2>1. call' = [next |-> "refund", id |-> id, due |-> 0,
                 payeeRuns |-> requestBondLocked[id] # 0]
    BY <1>7 DEF Sent
  <2>2. D = InDispute' /\ call'.due = 0 /\ call' \in Call /\ Stage'
    BY <1>1, <1>2, <1>7, <2>1 DEF InDispute, Deciding, Call, Stage
  <2> QED  BY <1>5, <2>2, CInvFrom
<1> QED  BY <1>2, <1>6, <1>7 DEF PaySlashed

(* The fee is zeroed and sent; the request is Disputed still. *)
LEMMA RefundFeeCInv == ASSUME CInv, RefundFee PROVE CInv'
<1>1. PICK id \in RequestIds : id = call.id /\ BInv({id}, 0)
  BY DecidingFacts DEF RefundFee, Deciding
<1> DEFINE r == requests[id]
<1>2. /\ TypeOK /\ Solvent /\ Shape(id) /\ r \in Request /\ r.status = "Disputed"
      /\ balance \in Nat /\ wallet \in [Accounts -> Nat]
  BY <1>1, SolventIfCovers DEF BInv, RequestShape, Apart, Decided, TypeOK
<1>3. r.fee \in Nat /\ r.requester \in Accounts /\ r.worker \in Accounts
  BY <1>2 DEF Shape, Request
<1>4. /\ requests' = [requests EXCEPT ![id] = [r EXCEPT !.fee = 0]]
      /\ balance' = balance - r.fee /\ wallet' = Pay(wallet, r.requester, r.fee)
      /\ call' = [next |-> "close", id |-> id, due |-> 0, payeeRuns |-> r.fee # 0]
      /\ UNCHANGED <<now, nextRequestId, challenges, poi, settings, pendingByRequester,
                     workerBond, workerBondLocked, requestBondLocked, registryVars>>
  BY <1>1, <1>2 DEF RefundFee, Sent, TypeOK
<1>5. /\ requests' \in [RequestIds -> Request]
      /\ requests'[id].fee = 0 /\ requests'[id].status = "Disputed"
      /\ requests'[id].worker = r.worker /\ requests'[id].requester = r.requester
      /\ requests'[id].finalizedAt = r.finalizedAt
      /\ \A k \in RequestIds \ {id} : requests'[k] = requests[k]
  BY <1>2, <1>4 DEF TypeOK, Request
<1>6. r.fee <= balance
  <2>1. r.fee + challenges[id].bond + workerBond[r.worker] <= balance
    BY <1>2, <1>3, OwedBound
  <2>2. challenges[id].bond \in Nat /\ workerBond[r.worker] \in Nat
    BY <1>2, <1>3 DEF TypeOK, Challenge
  <2> QED  BY <1>2, <1>3, <2>1, <2>2
<1>7. TypeOK'
  <2>1. wallet' \in [Accounts -> Nat] /\ balance' \in Nat
    <3>1. wallet' = Pay(wallet, r.requester, r.fee) /\ balance' = balance - r.fee
      BY <1>4
    <3>2. Pay(wallet, r.requester, r.fee) \in [Accounts -> Nat]
      BY <1>2, <1>3, PayType
    <3>3. balance - r.fee \in Nat
      BY <1>2, <1>3, <1>6
    <3> QED  BY <3>1, <3>2, <3>3
  <2> QED  BY <1>2, <1>4, <1>5, <2>1 DEF TypeOK, registryVars, Registry!TypeOK
<1>8. RequestShape'
  <2> SUFFICES ASSUME NEW k \in RequestIds PROVE Shape(k)'
    BY DEF RequestShape
  <2>1. Shape(k)
    BY <1>1 DEF BInv, RequestShape
  <2>2. CASE k = id
    BY <1>2, <1>4, <1>5, <2>1, <2>2 DEF Shape
  <2>3. CASE k # id
    BY <1>4, <1>5, <2>1, <2>3 DEF Shape
  <2> QED  BY <2>2, <2>3
<1>9. Apart({id})'
  <2> SUFFICES ASSUME NEW k \in RequestIds
               PROVE  IF k \in {id} THEN Decided(k)' ELSE DisputeMatch(k)'
    BY DEF Apart
  <2>1. IF k \in {id} THEN Decided(k) ELSE DisputeMatch(k)
    BY <1>1 DEF BInv, Apart
  <2> QED  BY <1>4, <1>5, <2>1 DEF Decided, DisputeMatch, OpenChallenge
<1>10. LocksMatch'
  <2>1. \A k \in RequestIds : requests'[k].worker = requests[k].worker
    BY <1>5
  <2> QED  BY <1>1, <1>4, <2>1, LocksSame DEF BInv, LocksMatch
<1>11. PendingMatches'
  <2>1. \A k \in RequestIds : /\ requests'[k].requester = requests[k].requester
                              /\ requests'[k].status \in Live <=> requests[k].status \in Live
    BY <1>2, <1>5
  <2> QED  BY <1>1, <1>4, <2>1, PendingSame DEF BInv
<1>12. Covers(0)'
  <2>1. balance' - balance >= (requests'[id].fee - requests[id].fee)
                              + (challenges'[id].bond - challenges[id].bond)
                              + (workerBond'[r.worker] - workerBond[r.worker])
    <3>1. challenges[id].bond \in Nat /\ workerBond[r.worker] \in Nat
      BY <1>2, <1>3 DEF TypeOK, Challenge
    <3> QED  BY <1>2, <1>3, <1>4, <1>5, <3>1
  <2> QED  BY <1>1, <1>2, <1>3, <1>4, <1>5, <1>7, <2>1, CoverStep DEF BInv
<1>13. BInv({id}, 0)'
  BY <1>7, <1>8, <1>9, <1>10, <1>11, <1>12 DEF BInv
<1>14. call' \in Call /\ InDispute' = {id} /\ call'.due = 0 /\ Stage'
  BY <1>4, <1>5 DEF Call, InDispute, Deciding, Stage
<1> QED  BY <1>13, <1>14, CInvFrom

(* The request ends, and with it the dispute that was decided. *)
LEMMA CloseRejectedCInv == ASSUME CInv, CloseRejected PROVE CInv'
<1>1. PICK id \in RequestIds : id = call.id /\ BInv({id}, 0)
  BY DecidingFacts DEF CloseRejected, Deciding
<1> DEFINE r == requests[id]
<1>2. /\ TypeOK /\ Shape(id) /\ r \in Request /\ r.status = "Disputed" /\ r.fee = 0
      /\ ~OpenChallenge(id) /\ challenges[id].bond = 0
  BY <1>1 DEF BInv, RequestShape, Apart, Decided, TypeOK, CInv, Stage, CloseRejected
<1>3. r.requester \in Accounts /\ r.worker \in Accounts
  BY <1>2 DEF Shape
<1>4. /\ requests' = [requests EXCEPT ![id] = [r EXCEPT !.status = "Cancelled"]]
      /\ pendingByRequester' = LessPending(r.requester) /\ call' = NoCall
      /\ UNCHANGED <<now, nextRequestId, challenges, poi, settings, workerBond,
                     workerBondLocked, requestBondLocked, balance, wallet, registryVars>>
  BY <1>1, <1>2 DEF CloseRejected, TypeOK
<1>5. /\ requests' \in [RequestIds -> Request]
      /\ requests'[id].fee = 0 /\ requests'[id].status = "Cancelled"
      /\ requests'[id].worker = r.worker /\ requests'[id].requester = r.requester
      /\ requests'[id].finalizedAt = r.finalizedAt
      /\ \A k \in RequestIds \ {id} : requests'[k] = requests[k]
  BY <1>2, <1>4 DEF TypeOK, Request, Ended
<1>6. r.status \in Live /\ requests'[id].status \notin Live
  BY <1>2, <1>5 DEF Live
<1>7. TypeOK'
  <2>1. pendingByRequester[r.requester] >= 1
    BY <1>1, <1>2, <1>3, <1>6, PendingBound DEF BInv
  <2>2. pendingByRequester' \in [Accounts -> Nat]
    BY <1>2, <1>3, <1>4, <2>1 DEF TypeOK, LessPending
  <2> QED  BY <1>2, <1>4, <1>5, <2>2 DEF TypeOK, registryVars, Registry!TypeOK
<1>8. RequestShape'
  <2> SUFFICES ASSUME NEW k \in RequestIds PROVE Shape(k)'
    BY DEF RequestShape
  <2>1. Shape(k)
    BY <1>1 DEF BInv, RequestShape
  <2>2. CASE k = id
    BY <1>2, <1>3, <1>4, <1>5, <2>1, <2>2 DEF Shape
  <2>3. CASE k # id
    BY <1>4, <1>5, <2>1, <2>3 DEF Shape
  <2> QED  BY <2>2, <2>3
<1>9. Apart({})'
  <2> SUFFICES ASSUME NEW k \in RequestIds PROVE DisputeMatch(k)'
    BY DEF Apart
  <2>1. IF k \in {id} THEN Decided(k) ELSE DisputeMatch(k)
    BY <1>1 DEF BInv, Apart
  <2> QED  BY <1>2, <1>4, <1>5, <2>1 DEF Decided, DisputeMatch, OpenChallenge
<1>10. LocksMatch'
  <2>1. \A k \in RequestIds : requests'[k].worker = requests[k].worker
    BY <1>5
  <2> QED  BY <1>1, <1>4, <2>1, LocksSame DEF BInv, LocksMatch
<1>11. PendingMatches'
  BY <1>1, <1>2, <1>3, <1>4, <1>5, <1>6, PendingClose DEF BInv
<1>12. Covers(0)'
  <2>1. \A k \in RequestIds : requests'[k].fee = requests[k].fee
    BY <1>2, <1>5
  <2> QED  BY <1>1, <1>2, <1>4, <1>7, <2>1, CoverSame DEF BInv, TypeOK
<1>13. BInv({}, 0)'
  BY <1>7, <1>8, <1>9, <1>10, <1>11, <1>12 DEF BInv
<1> QED  BY <1>4, <1>13, AtRest, CallsRest
-----------------------------------------------------------------------------
LEMMA InitCInv == ASSUME CallsInit PROVE CInv
<1>1. BInv({}, 0)
  BY InitIInv, AtRest DEF CallsInit
<1>2. call = NoCall
  BY DEF CallsInit
<1>3. InDispute = {} /\ call.due = 0 /\ call \in Call /\ Stage
  BY <1>2 DEF NoCall, InDispute, Deciding, Call, Stage
<1> QED  BY <1>1, <1>3 DEF CInv

LEMMA NextCInv == ASSUME CInv, [CallsNext]_callVars PROVE CInv'
<1>1. CASE UnlockedStep
  BY <1>1, UnlockedCInv
<1>2. CASE LockedStep
  BY <1>2, LockedCInv
<1>3. CASE BeginStep
  BY <1>3, BeginRevealCInv, BeginAttestationCInv, BeginTimeoutCInv, BeginDecisionCInv
     DEF BeginStep
<1>4. CASE ResumeStep
  BY <1>4, PayWorkerCInv, PaySlashedCInv, ConcludeCInv, RefundFeeCInv, CloseRejectedCInv
     DEF ResumeStep
<1>5. CASE UNCHANGED callVars
  <2>1. PICK D, due : D = InDispute /\ due = call.due /\ due \in Nat /\ BInv(D, due)
    BY CInvParts
  <2>2. UNCHANGED vars /\ call' = call
    BY <1>5 DEF callVars
  <2>3. TypeOK'
    BY <2>1, <2>2 DEF vars, BInv, TypeOK, moneyVars, registryVars, Registry!TypeOK
  <2>4. BInv(D, due)'
    BY <2>1, <2>2, <2>3, QuietStep DEF vars
  <2>5. D = InDispute' /\ due = call'.due /\ call' \in Call /\ Stage'
    BY <2>1, <2>2 DEF InDispute, CInv, Stage, vars
  <2> QED  BY <2>1, <2>4, <2>5, CInvFrom
<1> QED  BY <1>1, <1>2, <1>3, <1>4, <1>5 DEF CallsNext

LEMMA SpecCInv == CallsSpec => []CInv
<1>1. CallsInit => CInv
  BY InitCInv
<1>2. CInv /\ [CallsNext]_callVars => CInv'
  BY NextCInv
<1> QED  BY <1>1, <1>2, PTL DEF CallsSpec

(* Covered, for every value of the constants: the contract holds what it     *)
(* owes and the share still to be paid, whenever a payee may call back.      *)
THEOREM AlwaysCovered == CallsSpec => []Covered
<1>1. CInv => Covered
  BY DEF CInv, BInv, Covers, Covered
<1> QED  BY <1>1, SpecCInv, PTL

(* WholeAtRest, for every value of the constants: only the dispute that a    *)
(* transaction is deciding is ever seen decided and not closed, and the two  *)
(* counters agree with the records between calls as well.                    *)
THEOREM DisputesWholeAtRest == CallsSpec => []WholeAtRest
<1>1. CInv => WholeAtRest
  BY DEF CInv, BInv, Apart, InDispute, WholeAtRest
<1> QED  BY <1>1, SpecCInv, PTL

(* Undisturbed, for every value of the constants: no call back, of whatever  *)
(* length, changes what the rest of the transaction reads of its request.    *)
THEOREM PayeesDisturbNothing == CallsSpec => Undisturbed
<1>1. CInv /\ [CallsNext]_callVars =>
        [call.next # "nothing" /\ UNCHANGED call =>
           /\ requests'[call.id] = requests[call.id]
           /\ challenges'[call.id] = challenges[call.id]
           /\ requestBondLocked'[call.id] = requestBondLocked[call.id]]_callVars
  <2> SUFFICES ASSUME CInv, CallsNext, call.next # "nothing", UNCHANGED call
               PROVE  /\ requests'[call.id] = requests[call.id]
                      /\ challenges'[call.id] = challenges[call.id]
                      /\ requestBondLocked'[call.id] = requestBondLocked[call.id]
    OBVIOUS
  <2>1. call # NoCall
    BY DEF NoCall
  <2>2. ~LockedStep /\ ~BeginStep
    <3>1. ~LockedStep
      BY <2>1 DEF LockedStep
    <3>2. \A w, id, h : ~BeginReveal(w, id, h)
      BY <2>1, Zenon DEF BeginReveal
    <3>3. \A v, t, h, x, n : ~BeginAttestation(v, t, h, x, n)
      <4> SUFFICES ASSUME NEW v, NEW t, NEW h, NEW x, NEW n, BeginAttestation(v, t, h, x, n)
                   PROVE  call = NoCall
        BY <2>1
      <4> QED  BY ZenonT(30) DEF BeginAttestation
    <3>4. \A id : ~BeginTimeout(id)
      BY <2>1, Zenon DEF BeginTimeout
    <3>5. \A a, id, uphold : ~BeginDecision(a, id, uphold)
      BY <2>1, Zenon DEF BeginDecision
    <3> QED  BY <3>1, <3>2, <3>3, <3>4, <3>5, Zenon DEF BeginStep
  <2>3. ~ResumeStep
    <3>1. call' = NoCall => FALSE
      BY <2>1
    <3>2. ~PayWorker /\ ~CloseRejected
      BY <3>1 DEF PayWorker, CloseRejected
    <3>3. ~PaySlashed
      BY <3>1 DEF PaySlashed, Sent
    <3>4. ~Conclude
      <4> SUFFICES ASSUME Conclude PROVE FALSE
        OBVIOUS
      <4>1. /\ call.next = "conclude"
            /\ TryFinalizeCalling(call.id, [requests[call.id] EXCEPT !.status = "Revealed"],
                                  FALSE, poi[call.id])
        BY DEF Conclude
      <4>2. call' = NoCall \/ \E u, id, d : Sent(u, "payWorker", id, d)
        BY <4>1, Zenon DEF TryFinalizeCalling
      <4> QED  BY <3>1, <4>1, <4>2 DEF Sent
    <3>5. ~RefundFee
      BY DEF RefundFee, Sent
    <3> QED  BY <3>2, <3>3, <3>4, <3>5 DEF ResumeStep
  <2>4. Unlocked
    BY <2>2, <2>3 DEF CallsNext, UnlockedStep
  <2> QED  BY <2>4, CallsStatus, UnlockedLeaves
<1> QED  BY <1>1, SpecCInv, PTL DEF CallsSpec, Undisturbed
-----------------------------------------------------------------------------
(* Finalization in a transaction taken apart: the first part again.          *)
CSInv == CInv /\ Backed

LEMMA CSInvGrounds == CSInv => Grounds
BY DEF CSInv, CInv, BInv, Grounds

LEMMA CallingTries ==
  ASSUME NEW id, NEW r, NEW open, NEW p, TryFinalizeCalling(id, r, open, p)
  PROVE  Tries(id, r, open, p)
BY Zenon DEF TryFinalizeCalling, Tries

LEMMA QuietCounted ==
  ASSUME Grounds, UNCHANGED poi, NEW u \in RequestIds
  PROVE  Counted(u)'
BY DEF Grounds, Backed, Counted

LEMMA UnlockedGood ==
  ASSUME Grounds, Unlocked, NEW u \in RequestIds
  PROVE  Good(u) /\ Counted(u)'
<1>1. CASE \E a \in Requesters, v \in Values : RequestInferenceV2(a, v)
  BY <1>1, RequestGood, QuietCounted DEF RequestInferenceV2
<1>2. CASE \E w \in Workers, v \in Values : DepositWorkerBond(w, v)
  BY <1>2, QuietGood, QuietCounted DEF DepositWorkerBond
<1>3. CASE \E w \in Workers, id \in RequestIds, h \in Hashes \cup {Unopenable} :
             CommitInference(w, id, h)
  BY <1>3, CommitGood, QuietCounted DEF CommitInference
<1>4. CASE ChallengerStep
  BY <1>4, DisputeGood, QuietCounted DEF ChallengerStep, OpenDispute
<1>5. CASE OwnerTunes
  <2>1. UNCHANGED <<requests, challenges, poi>>
    BY <1>5 DEF OwnerTunes, SetTreasury, SetResolver, SetSpamControls, SetWorkerBondParams,
      SetProtocolFee, SetTimeouts, SetPoIQuorum, SetValidatorRegistry, SetChallengeBond, Tune
  <2> QED  BY <2>1, QuietGood, QuietCounted
<1>6. CASE RegistryStep
  BY <1>6, QuietGood, QuietCounted DEF RegistryStep
<1>7. CASE \E a \in Accounts, v \in Values : ReceiveEther(a, v)
  BY <1>7, QuietGood, QuietCounted DEF ReceiveEther
<1> QED  BY <1>1, <1>2, <1>3, <1>4, <1>5, <1>6, <1>7 DEF Unlocked

LEMMA LockedGood ==
  ASSUME Grounds, LockedStep, NEW u \in RequestIds
  PROVE  Good(u) /\ Counted(u)'
<1>1. CASE \E w \in Workers, v \in Values : WithdrawWorkerBond(w, v)
  BY <1>1, QuietGood, QuietCounted DEF WithdrawWorkerBond
<1>2. CASE \E a \in Requesters, id \in RequestIds :
             CancelExpired(a, id) \/ ReclaimAfterFinalizeTimeout(a, id)
  BY <1>2, CancelGood, QuietCounted DEF CancelExpired, ReclaimAfterFinalizeTimeout
<1>3. CASE Tick
  BY <1>3, QuietGood, QuietCounted DEF Tick
<1> QED  BY <1>1, <1>2, <1>3 DEF LockedStep

LEMMA BeginGood ==
  ASSUME CSInv, BeginStep, NEW u \in RequestIds
  PROVE  Good(u) /\ Counted(u)'
<1> USE CSInvGrounds
<1>1. CASE \E w \in Workers, id \in RequestIds, h \in Hashes : BeginReveal(w, id, h)
  <2>1. PICK w \in Workers, id \in RequestIds, h \in Hashes : BeginReveal(w, id, h)
    BY <1>1
  <2>2. TryFinalizeCalling(id, [requests[id] EXCEPT !.status = "Revealed", !.responseHash = h],
                           FALSE, poi[id])
    BY <2>1 DEF BeginReveal
  <2> QED  BY <2>1, <2>2, CallingTries, RevealTried, QuietCounted DEF BeginReveal
<1>2. CASE \E v \in Validators, t \in RequestIds, h \in Hashes, x \in Transcripts, n \in Slots :
             BeginAttestation(v, t, h, x, n)
  <2>1. PICK v \in Validators, t \in RequestIds, h \in Hashes, x \in Transcripts, n \in Slots :
          BeginAttestation(v, t, h, x, n)
    BY <1>2
  <2> DEFINE q == Attested(poi[t], v, h, x, n)
  <2>2. /\ poi' = [poi EXCEPT ![t] = q] /\ v \notin poi[t].attested
        /\ UNCHANGED challenges
    BY <2>1 DEF BeginAttestation
  <2>3. TryFinalizeCalling(t, requests[t], OpenChallenge(t), q) \/ UNCHANGED requests
    BY <2>1, Zenon DEF BeginAttestation
  <2> HIDE DEF q
  <2>4. Tries(t, requests[t], OpenChallenge(t), q) \/ UNCHANGED requests
    BY <2>3, CallingTries
  <2> QED  BY <2>2, <2>4, AttestationTried DEF q
<1>3. CASE \E id \in RequestIds : BeginTimeout(id)
  BY <1>3, EndGood, QuietCounted DEF BeginTimeout, Ended
<1>4. CASE \E a \in Accounts, id \in RequestIds, uphold \in BOOLEAN : BeginDecision(a, id, uphold)
  <2>1. PICK a \in Accounts, id \in RequestIds, uphold \in BOOLEAN : BeginDecision(a, id, uphold)
    BY <1>4
  <2>2. IInv
    BY <2>1, CallsAtRest DEF BeginDecision, CSInv
  <2>3. requests[id].status = "Disputed"
    BY <2>1, <2>2 DEF BeginDecision, IInv, DisputeMatches, DisputeMatch
  <2>4. UNCHANGED <<requests, poi>> /\ \A k \in RequestIds \ {id} : challenges'[k] = challenges[k]
    BY <2>1 DEF BeginDecision, Grounds, TypeOK
  <2>5. Good(u)
    BY <2>3, <2>4 DEF Grounds, Backed, Good, Answered, StaysEnded, Ends, Live, Ended
  <2> QED  BY <2>4, <2>5, QuietCounted
<1> QED  BY <1>1, <1>2, <1>3, <1>4 DEF BeginStep

LEMMA ResumeGood ==
  ASSUME CSInv, ResumeStep, NEW u \in RequestIds
  PROVE  Good(u) /\ Counted(u)'
<1> USE CSInvGrounds
<1>1. CASE PayWorker
  BY <1>1, QuietGood, QuietCounted DEF PayWorker
<1>2. CASE PaySlashed
  BY <1>2, QuietGood, QuietCounted DEF PaySlashed
<1>3. ASSUME call.next \in Deciding
      PROVE  /\ call.id \in RequestIds /\ requests[call.id] \in Request
             /\ requests[call.id].status = "Disputed" /\ ~OpenChallenge(call.id)
             /\ requests[call.id].responseHash = requests[call.id].commitment
  <2>1. call.id \in RequestIds /\ BInv({call.id}, 0)
    BY <1>3, DecidingFacts DEF CSInv
  <2> QED  BY <2>1 DEF BInv, Apart, Decided, Grounds, Backed, Answered, TypeOK
<1>4. CASE Conclude
  <2>1. call.next \in Deciding
    BY <1>4 DEF Conclude, Deciding
  <2>2. PICK id \in RequestIds :
          id = call.id /\ requests[id].status = "Disputed" /\ ~OpenChallenge(id)
    BY <1>3, <2>1
  <2>3. /\ TryFinalizeCalling(id, [requests[id] EXCEPT !.status = "Revealed"], FALSE, poi[id])
        /\ UNCHANGED <<challenges, poi>>
    BY <1>4, <2>2 DEF Conclude
  <2>4. ~OpenChallenge(id)'
    BY <2>2, <2>3 DEF OpenChallenge
  <2>5. Tries(id, [requests[id] EXCEPT !.status = "Revealed"], FALSE, poi[id])
    BY <2>3, CallingTries
  <2>6. Good(u)
    BY <2>2, <2>3, <2>4, <2>5, ConcludeTried
  <2> QED  BY <2>3, <2>6, QuietCounted
<1>5. CASE RefundFee
  <2> DEFINE r == [requests[call.id] EXCEPT !.fee = 0]
  <2>1. call.next \in Deciding /\ requests' = [requests EXCEPT ![call.id] = r] /\ UNCHANGED <<challenges, poi>>
    BY <1>5 DEF RefundFee, Deciding
  <2>2. r.status = "Disputed" /\ r.responseHash = r.commitment
    BY <1>3, <2>1 DEF Request
  <2> HIDE DEF r
  <2> QED  BY <1>3, <2>1, <2>2, OneGood, QuietCounted DEF Ended
<1>6. CASE CloseRejected
  <2> DEFINE r == [requests[call.id] EXCEPT !.status = "Cancelled"]
  <2>1. call.next \in Deciding /\ requests' = [requests EXCEPT ![call.id] = r] /\ UNCHANGED <<challenges, poi>>
    BY <1>6 DEF CloseRejected, Deciding, moneyVars
  <2>2. r.status = "Cancelled"
    BY <1>3, <2>1 DEF Request
  <2> HIDE DEF r
  <2> QED  BY <1>3, <2>1, <2>2, OneGood, QuietCounted DEF Ended
<1> QED  BY <1>1, <1>2, <1>4, <1>5, <1>6 DEF ResumeStep

LEMMA CallsGood ==
  ASSUME CSInv, [CallsNext]_callVars, NEW u \in RequestIds
  PROVE  Good(u) /\ Counted(u)'
<1> USE CSInvGrounds
<1>1. CASE UNCHANGED callVars
  BY <1>1, QuietGood, QuietCounted DEF callVars, vars
<1>2. CASE CallsNext
  BY <1>2, UnlockedGood, LockedGood, BeginGood, ResumeGood DEF CallsNext, UnlockedStep
<1> QED  BY <1>1, <1>2

LEMMA SpecCSInv == CallsSpec => []CSInv
<1>1. CallsInit => CSInv
  BY InitCInv, InitBacked DEF CallsInit, CSInv
<1>2. CSInv /\ [CallsNext]_callVars => CSInv'
  BY NextCInv, CallsGood DEF CSInv, Backed, Good
<1> QED  BY <1>1, <1>2, PTL DEF CallsSpec

(* FinalizedByQuorum, whatever payees do in the calls of a transaction: the  *)
(* quorum they may have seen changed is the one that counts.                 *)
THEOREM CallsFinalizeByQuorum == CallsSpec => FinalizedByQuorum
<1>1. CSInv /\ [CallsNext]_callVars =>
        [\A id \in RequestIds : Ends(id, "Finalized") =>
           /\ Cardinality(poi'[id].attested) >= settings.poiQuorum
           /\ poi'[id].result = requests[id].commitment
           /\ now <= requests[id].finalizeDeadline
           /\ ~OpenChallenge(id)']_vars
  BY CallsGood DEF Good, ByQuorum
<1> QED  BY SpecCSInv, <1>1, PTL DEF CallsSpec, FinalizedByQuorum

(* EndedForever, whatever payees do: no call back reopens what has ended.    *)
THEOREM CallsEndForever == CallsSpec => EndedForever
<1>1. CSInv /\ [CallsNext]_callVars =>
        [\A id \in RequestIds : requests[id].status \in Ended =>
           /\ requests'[id] = requests[id]
           /\ challenges'[id] = challenges[id]]_vars
  BY CallsGood DEF Good, StaysEnded
<1> QED  BY SpecCSInv, <1>1, PTL DEF CallsSpec, EndedForever
-----------------------------------------------------------------------------
(* The escrow again, for transactions taken apart.  What a step does to it:  *)
(* to one request, one worker's bond, and what is not yet due to anybody.    *)
CallPhases == [id \in RequestIds |-> CallPhase(id)]
CallPot == balance - call.due - Total(workerBond, Accounts) - Total(ChallengeBonds, RequestIds)

CallMoves(id, w) ==
  /\ \A k \in RequestIds \ {id} :
       /\ CallPhase(k)' = CallPhase(k) /\ requests'[k].fee = requests[k].fee
       /\ challenges'[k].bond = challenges[k].bond
  /\ \A a \in Accounts \ {w} : workerBond'[a] = workerBond[a]
  /\ (balance' - call'.due) - (balance - call.due)
       = (requests'[id].fee - requests[id].fee)
         + (challenges'[id].bond - challenges[id].bond)
         + (workerBond'[w] - workerBond[w])
  /\ \/ CallPhase(id) = "none" /\ CallPhase(id)' = "held" /\ requests[id].fee = 0
     \/ /\ CallPhase(id) = "held" /\ CallPhase(id)' \in {"released", "refunded"}
        /\ requests'[id].fee = 0
     \/ CallPhase(id)' = CallPhase(id) /\ requests'[id].fee = requests[id].fee

LEMMA CallPotType == CInv => CallPot \in Nat
<1> SUFFICES ASSUME CInv PROVE CallPot \in Nat  OBVIOUS
<1>1. /\ balance \in Nat /\ call.due \in Nat
      /\ balance >= Total(Fees, RequestIds) + Total(workerBond, Accounts)
                    + Total(ChallengeBonds, RequestIds) + call.due
  BY DEF CInv, Call, BInv, TypeOK, Covers, Owed
<1>2. TypeOK  BY DEF CInv, BInv
<1> QED  BY <1>1, <1>2, OwedType DEF CallPot

LEMMA CallPotMoves ==
  ASSUME CInv, CInv', NEW id \in RequestIds, NEW w \in Accounts, CallMoves(id, w)
  PROVE  CallPot' = CallPot + (requests'[id].fee - requests[id].fee)
<1>1. TypeOK /\ TypeOK' /\ call.due \in Nat /\ call'.due \in Nat
  BY DEF CInv, BInv, Call
<1>2. \A k \in RequestIds : ChallengeBonds[k] \in Nat /\ ChallengeBonds'[k] \in Nat
  BY <1>1 DEF TypeOK, ChallengeBonds, Challenge
<1>3. \A k \in RequestIds \ {id} : ChallengeBonds'[k] = ChallengeBonds[k]
  BY DEF CallMoves, ChallengeBonds
<1>4. Total(ChallengeBonds', RequestIds) =
        Total(ChallengeBonds, RequestIds) - ChallengeBonds[id] + ChallengeBonds'[id]
  BY <1>2, <1>3, RequestIdsFinite, TotalUpdate
<1>5. Total(workerBond', Accounts) = Total(workerBond, Accounts) - workerBond[w] + workerBond'[w]
  BY <1>1, BondTotal DEF CallMoves
<1>6. ChallengeBonds[id] = challenges[id].bond /\ ChallengeBonds'[id] = challenges'[id].bond
  BY DEF ChallengeBonds
<1>7. (balance' - call'.due) - (balance - call.due)
        = (requests'[id].fee - requests[id].fee)
          + (challenges'[id].bond - challenges[id].bond)
          + (workerBond'[w] - workerBond[w])
  BY DEF CallMoves
<1>8. /\ balance \in Nat /\ balance' \in Nat /\ workerBond[w] \in Nat /\ workerBond'[w] \in Nat
      /\ requests[id].fee \in Nat /\ requests'[id].fee \in Nat
  BY <1>1 DEF TypeOK, Request
<1>9. Total(workerBond, Accounts) \in Nat /\ Total(ChallengeBonds, RequestIds) \in Nat
  BY <1>1, OwedType
<1>10. CallPot' = balance' - call'.due - Total(workerBond', Accounts)
                  - Total(ChallengeBonds', RequestIds)
  BY DEF CallPot
<1> QED  BY <1>1, <1>2, <1>4, <1>5, <1>6, <1>7, <1>8, <1>9, <1>10 DEF CallPot

LEMMA CallEscrowMoves ==
  ASSUME CInv, CInv', NEW id \in RequestIds, NEW w \in Accounts, CallMoves(id, w)
  PROVE  [EscrowCalling!Next]_<<CallPhases, Fees, CallPot>>
<1>1. CallPot' = CallPot + (requests'[id].fee - requests[id].fee)  BY CallPotMoves
<1>2. requests[id].fee \in Nat /\ requests'[id].fee \in Nat /\ CallPot \in Nat
  BY CallPotType DEF CInv, BInv, TypeOK, Request
<1>3. /\ Fees' = [Fees EXCEPT ![id] = requests'[id].fee] /\ Fees[id] = requests[id].fee
      /\ Fees'[id] = requests'[id].fee
  BY DEF CallMoves, Fees
<1>4. CallPhases' = [CallPhases EXCEPT ![id] = CallPhase(id)'] /\ CallPhases[id] = CallPhase(id)
  <2>1. \A k \in RequestIds \ {id} : CallPhase(k)' = CallPhase(k)  BY DEF CallMoves
  <2> QED  BY <2>1 DEF CallPhases
<1>5. CASE CallPhase(id) = "none" /\ CallPhase(id)' = "held" /\ requests[id].fee = 0
  <2>1. CallPot' = CallPot + Fees'[id]  BY <1>1, <1>2, <1>3, <1>5
  <2>2. EscrowCalling!Open(id)
    BY <1>2, <1>3, <1>4, <1>5, <2>1 DEF EscrowCalling!Open, CallPhases, CallPot
  <2> QED  BY <2>2 DEF EscrowCalling!Next
<1>6. CASE /\ CallPhase(id) = "held" /\ CallPhase(id)' \in {"released", "refunded"}
           /\ requests'[id].fee = 0
  <2>1. CallPot' = CallPot - Fees[id]  BY <1>1, <1>2, <1>3, <1>6
  <2>2. EscrowCalling!Close(id)
    BY <1>3, <1>4, <1>6, <2>1 DEF EscrowCalling!Close, CallPhases, CallPot
  <2> QED  BY <2>2 DEF EscrowCalling!Next
<1>7. CASE CallPhase(id)' = CallPhase(id) /\ requests'[id].fee = requests[id].fee
  <2>1. CallPhases' = CallPhases  BY <1>4, <1>7 DEF CallPhases
  <2>2. Fees' = Fees  BY <1>3, <1>7 DEF Fees
  <2>3. CallPot' = CallPot  BY <1>1, <1>2, <1>7
  <2> QED  BY <2>1, <2>2, <2>3
<1> QED  BY <1>5, <1>6, <1>7 DEF CallMoves

LEMMA CallEscrowIdle ==
  ASSUME CInv, CInv', Idle, call' = call
  PROVE  [EscrowCalling!Next]_<<CallPhases, Fees, CallPot>>
<1>1. CallPhases' = CallPhases /\ Fees' = Fees
  BY DEF Idle, CallPhases, CallPhase, Phase, Fees
<1>2. CallPot' = balance' - call.due - Total(workerBond, Accounts) - Total(ChallengeBonds, RequestIds)
  BY DEF Idle, CallPot, ChallengeBonds
<1>3. balance \in Nat /\ balance' \in Nat /\ balance' >= balance /\ call.due \in Nat /\ TypeOK
  BY DEF Idle, CInv, BInv, TypeOK, Call
<1>4. CallPot \in Nat /\ CallPot' \in Nat
  <2>1. (CInv => CallPot \in Nat)'  BY CallPotType, PTL
  <2> QED  BY <2>1, CallPotType
<1>5. CallPot' >= CallPot  BY <1>2, <1>3, OwedType DEF CallPot
<1>6. CASE CallPot' = CallPot  BY <1>1, <1>6
<1>7. CASE CallPot' # CallPot
  <2>1. CallPot' > CallPot  BY <1>4, <1>5, <1>7
  <2>2. EscrowCalling!Gift  BY <1>1, <1>4, <2>1 DEF EscrowCalling!Gift, CallPhases, CallPot
  <2> QED  BY <2>2 DEF EscrowCalling!Next
<1> QED  BY <1>6, <1>7

(* A step of AIVMInferenceV2 is the same step here, unless it were about the *)
(* request that has been refunded and not yet closed.                        *)
LEMMA MovesCalling ==
  ASSUME CInv, CInv', call' = call, NEW id \in RequestIds, NEW w \in Accounts, Moves(id, w),
         call.next = "close" => requests'[call.id] = requests[call.id],
         requests[id].status = "None" => requests[id].fee = 0
  PROVE  CallMoves(id, w)
<1>1. /\ balance' - balance = (requests'[id].fee - requests[id].fee)
                              + (challenges'[id].bond - challenges[id].bond)
                              + (workerBond'[w] - workerBond[w])
      /\ \A k \in RequestIds \ {id} : requests'[k] = requests[k] /\ challenges'[k] = challenges[k]
      /\ \A a \in Accounts \ {w} : workerBond'[a] = workerBond[a]
      /\ Opened(id) \/ Closed(id) \/ Kept(id)
  BY DEF Moves
<1>2. call.due \in Nat  BY DEF CInv, Call
<1>3. \A k \in RequestIds \ {id} : CallPhase(k)' = CallPhase(k)
  BY <1>1 DEF CallPhase, Phase
<1>4. \/ CallPhase(id) = "none" /\ CallPhase(id)' = "held" /\ requests[id].fee = 0
      \/ /\ CallPhase(id) = "held" /\ CallPhase(id)' \in {"released", "refunded"}
         /\ requests'[id].fee = 0
      \/ CallPhase(id)' = CallPhase(id) /\ requests'[id].fee = requests[id].fee
  <2>1. CASE call.next = "close" /\ call.id = id
    BY <2>1 DEF CallPhase
  <2>2. CASE ~(call.next = "close" /\ call.id = id)
    <3>1. CallPhase(id) = Phase(id) /\ CallPhase(id)' = Phase(id)'  BY <2>2 DEF CallPhase
    <3>2. CASE Opened(id)  BY <3>1, <3>2 DEF Opened, Phase, Live
    <3>3. CASE Closed(id)  BY <3>1, <3>3 DEF Closed, Phase, Live, Ended
    <3>4. CASE Kept(id)  BY <3>1, <3>4 DEF Kept, Phase, Live
    <3> QED  BY <1>1, <3>2, <3>3, <3>4
  <2> QED  BY <2>1, <2>2
<1>5. (balance' - call'.due) - (balance - call.due) = balance' - balance
  <2>1. balance \in Nat /\ balance' \in Nat  BY DEF CInv, BInv, TypeOK
  <2> QED  BY <1>2, <2>1
<1> QED  BY <1>1, <1>3, <1>4, <1>5 DEF CallMoves
-----------------------------------------------------------------------------
(* The functions without a lock, in the middle of a transaction or outside.  *)
LEMMA UnlockedMoves ==
  ASSUME NEW D, NEW due \in Nat, BInv(D, due), BInv(D, due)', Unlocked
  PROVE  Idle \/ \E id \in RequestIds, w \in Accounts : Moves(id, w)
<1>1. /\ requests \in [RequestIds -> Request] /\ challenges \in [RequestIds -> Challenge]
      /\ workerBond \in [Accounts -> Nat] /\ balance \in Nat /\ balance' \in Nat
      /\ settings.treasury \in Accounts /\ TypeOK
  BY DEF BInv, TypeOK, Settings
<1>2. CASE \E a \in Requesters, v \in Values : RequestInferenceV2(a, v)
  <2>1. PICK a \in Requesters, v \in Values : RequestInferenceV2(a, v)  BY <1>2
  <2>2. PICK id \in RequestIds : id = nextRequestId
    BY <1>1, <2>1, ConstantsAssumption DEF RequestInferenceV2, TypeOK, RequestIds
  <2>3. requests[id].status = "None" /\ requests[id].fee = 0 /\ v \in Nat
    <3>1. requests[id].status = "None"  BY <2>2, <1>1 DEF BInv, RequestShape, Shape, TypeOK
    <3>2. id \notin D  BY <3>1 DEF BInv, Apart, Decided
    <3>3. DisputeMatch(id)  BY <3>2 DEF BInv, Apart
    <3> QED  BY <3>1, <3>3, ConstantsAssumption DEF DisputeMatch, Live
  <2>4. requests'[id].fee = v /\ requests'[id].status = "Requested"
    BY <1>1, <2>1, <2>2 DEF RequestInferenceV2, NoRequest
  <2>5. /\ UNCHANGED <<challenges, workerBond>> /\ balance' = balance + v
        /\ \A k \in RequestIds \ {id} : requests'[k] = requests[k]
    BY <1>1, <2>1, <2>2 DEF RequestInferenceV2, PaidBy
  <2>6. challenges[id].bond \in Nat  BY <1>1 DEF Challenge
  <2>7. Moves(id, settings.treasury)
    BY <1>1, <2>3, <2>4, <2>5, <2>6 DEF Moves, Opened, Live
  <2> QED  BY <1>1, <2>7
<1>3. CASE \E w \in Workers, v \in Values : DepositWorkerBond(w, v)
  <2>1. PICK w \in Workers, v \in Values : DepositWorkerBond(w, v)  BY <1>3
  <2>2. PICK id \in RequestIds : TRUE  BY ConstantsAssumption DEF RequestIds
  <2>3. /\ UNCHANGED <<requests, challenges>> /\ v \in Nat /\ w \in Accounts
        /\ balance' = balance + v /\ workerBond' = [workerBond EXCEPT ![w] = @ + v]
    BY <2>1, ConstantsAssumption DEF DepositWorkerBond, PaidBy
  <2>4. challenges[id].bond \in Nat /\ requests[id].fee \in Nat  BY <1>1 DEF Challenge, Request
  <2>5. Moves(id, w)  BY <1>1, <2>3, <2>4 DEF Moves, Kept
  <2> QED  BY <2>3, <2>5
<1>4. CASE \E w \in Workers, id \in RequestIds, h \in Hashes \cup {Unopenable} :
             CommitInference(w, id, h)
  <2>1. PICK w \in Workers, id \in RequestIds, h \in Hashes \cup {Unopenable} :
          CommitInference(w, id, h)
    BY <1>4
  <2>2. /\ requests[id].status = "Requested" /\ UNCHANGED <<challenges, workerBond, balance>>
        /\ \A k \in RequestIds \ {id} : requests'[k] = requests[k]
        /\ requests'[id].status = "Committed" /\ requests'[id].fee = requests[id].fee
    BY <1>1, <2>1 DEF CommitInference, Request
  <2>3. challenges[id].bond \in Nat /\ requests[id].fee \in Nat  BY <1>1 DEF Challenge, Request
  <2>4. Moves(id, settings.treasury)  BY <1>1, <2>2, <2>3 DEF Moves, Kept, Live
  <2> QED  BY <1>1, <2>4
<1>5. CASE ChallengerStep
  <2>1. PICK a \in Challengers, id \in RequestIds, v \in Values : OpenDispute(a, id, v)
    BY <1>5 DEF ChallengerStep
  <2>2. /\ requests[id].status = "Revealed" /\ UNCHANGED workerBond /\ balance' = balance + v
        /\ challenges[id].challenger = NoAddr /\ v \in Nat
    BY <2>1, ConstantsAssumption DEF OpenDispute, PaidBy
  <2>3. /\ \A k \in RequestIds \ {id} : requests'[k] = requests[k] /\ challenges'[k] = challenges[k]
        /\ requests'[id].status = "Disputed" /\ requests'[id].fee = requests[id].fee
        /\ challenges'[id].bond = v
    BY <1>1, <2>1 DEF OpenDispute, Request
  <2>4. challenges[id].bond = 0 /\ requests[id].fee \in Nat
    <3>1. id \notin D  BY <2>2 DEF BInv, Apart, Decided
    <3>2. DisputeMatch(id)  BY <3>1 DEF BInv, Apart
    <3> QED  BY <1>1, <2>2, <3>2 DEF DisputeMatch, OpenChallenge, Request
  <2>5. Moves(id, settings.treasury)  BY <1>1, <2>2, <2>3, <2>4 DEF Moves, Kept, Live
  <2> QED  BY <1>1, <2>5
<1>6. CASE OwnerTunes
  <2>1. UNCHANGED <<requests, challenges, workerBond, balance>>
    BY <1>6 DEF OwnerTunes, SetTreasury, SetResolver, SetSpamControls, SetWorkerBondParams,
       SetProtocolFee, SetTimeouts, SetPoIQuorum, SetValidatorRegistry, SetChallengeBond, Tune,
       moneyVars
  <2> QED  BY <1>1, <2>1 DEF Idle
<1>7. CASE RegistryStep
  BY <1>1, <1>7 DEF RegistryStep, moneyVars, Idle
<1>8. CASE \E a \in Accounts, v \in Values : ReceiveEther(a, v)
  BY <1>1, <1>8, ConstantsAssumption DEF ReceiveEther, PaidBy, Idle
<1> QED  BY <1>2, <1>3, <1>4, <1>5, <1>6, <1>7, <1>8 DEF Unlocked

(* A request that was never made has no fee. *)
LEMMA NoFeeYet ==
  ASSUME CInv, NEW id \in RequestIds, requests[id].status = "None"
  PROVE  requests[id].fee = 0
<1>1. DisputeMatch(id)  BY DEF CInv, BInv, Apart, Decided
<1> QED  BY <1>1 DEF DisputeMatch, Live

LEMMA UnlockedEscrow ==
  ASSUME CInv, CInv', UnlockedStep
  PROVE  [EscrowCalling!Next]_<<CallPhases, Fees, CallPot>>
<1>1. PICK D, due : D = InDispute /\ due = call.due /\ due \in Nat /\ BInv(D, due)
  BY CInvParts
<1>2. Unlocked /\ call' = call  BY DEF UnlockedStep
<1>3. BInv(D, due)'  BY <1>1, <1>2, UnlockedKeeps
<1>4. call.next = "close" => requests'[call.id] = requests[call.id]
  BY <1>2, CallsStatus, UnlockedLeaves
<1>5. Idle \/ \E id \in RequestIds, w \in Accounts : Moves(id, w)
  BY <1>1, <1>2, <1>3, UnlockedMoves
<1>6. CASE Idle  BY <1>2, <1>6, CallEscrowIdle
<1>7. CASE \E id \in RequestIds, w \in Accounts : Moves(id, w)
  BY <1>2, <1>4, <1>7, NoFeeYet, MovesCalling, CallEscrowMoves
<1> QED  BY <1>5, <1>6, <1>7

LEMMA LockedEscrow ==
  ASSUME CInv, CInv', LockedStep
  PROVE  [EscrowCalling!Next]_<<CallPhases, Fees, CallPot>>
<1>1. IInv /\ call = NoCall /\ call' = call  BY CallsAtRest DEF LockedStep
<1>2. IInv'
  <2>1. (CInv /\ call = NoCall => IInv)'  BY CallsAtRest, PTL
  <2>2. call' = NoCall  BY <1>1
  <2> QED  BY <2>1, <2>2
<1>3. call.next # "close"  BY <1>1 DEF NoCall
<1>4. CASE Tick
  <2>1. Idle  BY <1>1, <1>4 DEF Tick, moneyVars, Idle, IInv, TypeOK
  <2> QED  BY <1>1, <2>1, CallEscrowIdle
<1>5. CASE \E w \in Workers, v \in Values : WithdrawWorkerBond(w, v)
  <2>1. PICK w \in Workers, v \in Values : WithdrawWorkerBond(w, v)  BY <1>5
  <2>2. w \in Accounts /\ 1 \in RequestIds  BY ConstantsAssumption DEF RequestIds
  <2>3. Moves(1, w)  BY <1>1, <1>2, <2>1, <2>2, BondSound DEF Sound
  <2> QED  BY <1>1, <1>3, <2>2, <2>3, NoFeeYet, MovesCalling, CallEscrowMoves
<1>6. CASE \E a \in Requesters, id \in RequestIds :
             CancelExpired(a, id) \/ ReclaimAfterFinalizeTimeout(a, id)
  <2>1. \E id \in RequestIds, w \in Accounts : Moves(id, w)
    BY <1>1, <1>2, <1>6, CancelSound DEF Sound
  <2> QED  BY <1>1, <1>3, <2>1, NoFeeYet, MovesCalling, CallEscrowMoves
<1> QED  BY <1>4, <1>5, <1>6 DEF LockedStep
-----------------------------------------------------------------------------
(* The transactions that come to _tryFinalize: what goes to the treasury and *)
(* what is due to the worker make up the fee.                                *)
LEMMA TryEscrow ==
  ASSUME CInv, CInv', NEW id \in RequestIds, call.next # "close", call.due = 0,
         NEW r, NEW open, NEW p,
         TryReady(id, r, open, balance), TryFinalizeCalling(id, r, open, p)
  PROVE  \E w \in Accounts : CallMoves(id, w)
<1> DEFINE w == settings.treasury
<1>1. /\ requests \in [RequestIds -> Request] /\ challenges \in [RequestIds -> Challenge]
      /\ workerBond \in [Accounts -> Nat] /\ balance \in Nat /\ w \in Accounts
      /\ settings \in Settings /\ TypeOK
  BY DEF CInv, BInv, TypeOK, Settings
<1>2. /\ r \in Request /\ r.fee = requests[id].fee /\ r.fee \in Nat
      /\ \/ r.status = requests[id].status
         \/ r.status = "Revealed" /\ requests[id].status \in {"Committed", "Disputed"}
      /\ \A k \in RequestIds \ {id} : challenges'[k] = challenges[k]
      /\ challenges[id].bond \in Nat /\ challenges'[id].bond \in Nat
      /\ balance = balance - (challenges[id].bond - challenges'[id].bond)
      /\ UNCHANGED workerBond
  BY <1>1 DEF TryReady, Request, Challenge
<1>3. challenges'[id].bond = challenges[id].bond  BY <1>1, <1>2
<1>4. /\ ProtocolFee(r.fee) \in Nat /\ WorkerShare(r.fee) \in Nat
      /\ ProtocolFee(r.fee) + WorkerShare(r.fee) = r.fee
  BY <1>1, <1>2, FeeShares
<1>5. CallPhase(id) = Phase(id) /\ \A k \in RequestIds : CallPhase(k) = Phase(k)
  BY DEF CallPhase
<1> HIDE DEF w
<1>6. CASE Finalizable(r, open, p)
  <2> DEFINE f == [r EXCEPT !.status = "Finalized", !.finalizedAt = now, !.fee = 0]
  <2>1. PICK pf \in Nat, due \in Nat :
          pf = ProtocolFee(r.fee) /\ due = WorkerShare(r.fee) /\ pf + due = r.fee
    BY <1>4
  <2>2. /\ Finalize(id, r) /\ balance' = balance - pf
        /\ call' = [next |-> "payWorker", id |-> id, due |-> due, payeeRuns |-> pf # 0]
    BY <1>6, <2>1, Zenon DEF TryFinalizeCalling, Sent
  <2>3. requests' = [requests EXCEPT ![id] = f]  BY <2>2 DEF Finalize
  <2>4. f.status = "Finalized" /\ f.fee = 0  BY <1>2 DEF Request
  <2>5. requests[id].status \in {"Revealed", "Committed", "Disputed"}
    BY <1>2, <1>6 DEF Finalizable
  <2> HIDE DEF f
  <2>6. /\ requests'[id].status = "Finalized" /\ requests'[id].fee = 0
        /\ \A k \in RequestIds \ {id} : requests'[k] = requests[k]
    BY <1>1, <2>3, <2>4
  <2>7. \A k \in RequestIds : CallPhase(k)' = Phase(k)'  BY <2>2 DEF CallPhase
  <2>8. /\ CallPhase(id) = "held" /\ CallPhase(id)' = "released"
        /\ \A k \in RequestIds \ {id} : CallPhase(k)' = CallPhase(k)
    BY <1>5, <2>5, <2>6, <2>7 DEF Phase, Live
  <2>9. (balance' - call'.due) - (balance - call.due)
          = (requests'[id].fee - requests[id].fee)
            + (challenges'[id].bond - challenges[id].bond)
            + (workerBond'[w] - workerBond[w])
    <3>1. workerBond[w] \in Nat /\ workerBond'[w] = workerBond[w] /\ call'.due = due
      BY <1>1, <1>2, <2>2 DEF w
    <3>2. balance' = balance - pf  BY <2>2
    <3> QED  BY <1>1, <1>2, <1>3, <2>1, <2>6, <3>1, <3>2
  <2> QED  BY <1>1, <1>2, <2>6, <2>8, <2>9 DEF CallMoves, w
<1>7. CASE ~Finalizable(r, open, p)
  <2>1. Unfinalized(id, r) /\ balance' = balance /\ call' = NoCall
    BY <1>7, Zenon DEF TryFinalizeCalling
  <2>2. requests'[id] = r /\ \A k \in RequestIds \ {id} : requests'[k] = requests[k]
    BY <1>1, <2>1 DEF Unfinalized
  <2>3. \A k \in RequestIds : CallPhase(k)' = Phase(k)'  BY <2>1 DEF CallPhase, NoCall
  <2>4. \A k \in RequestIds : CallPhase(k)' = CallPhase(k)
    BY <1>2, <1>5, <2>2, <2>3 DEF Phase, Live
  <2>5. (balance' - call'.due) - (balance - call.due)
          = (requests'[id].fee - requests[id].fee)
            + (challenges'[id].bond - challenges[id].bond)
            + (workerBond'[w] - workerBond[w])
    <3>1. workerBond[w] \in Nat /\ workerBond'[w] = workerBond[w] /\ call'.due = 0
      BY <1>1, <1>2, <2>1 DEF w, NoCall
    <3> QED  BY <1>1, <1>2, <1>3, <2>1, <2>2, <3>1
  <2> QED  BY <1>1, <1>2, <2>2, <2>4, <2>5 DEF CallMoves, w
<1> QED  BY <1>6, <1>7

LEMMA BeginEscrow ==
  ASSUME CInv, CInv', BeginStep
  PROVE  \/ [EscrowCalling!Next]_<<CallPhases, Fees, CallPot>>
         \/ \E id \in RequestIds, w \in Accounts : CallMoves(id, w)
<1>1. ASSUME call = NoCall
      PROVE  /\ IInv /\ BInv({}, 0) /\ call.next # "close" /\ call.due = 0
             /\ \A k \in RequestIds : CallPhase(k) = Phase(k)
  <2>1. IInv  BY <1>1, CallsAtRest
  <2> QED  BY <1>1, <2>1, AtRest DEF NoCall, CallPhase
<1>2. CASE \E w \in Workers, id \in RequestIds, h \in Hashes : BeginReveal(w, id, h)
  <2>1. PICK w \in Workers, id \in RequestIds, h \in Hashes : BeginReveal(w, id, h)
    BY <1>2
  <2> DEFINE s == [requests[id] EXCEPT !.status = "Revealed", !.responseHash = h]
  <2>2. call = NoCall /\ TryFinalizeCalling(id, s, FALSE, poi[id])
    BY <2>1 DEF BeginReveal
  <2>3. IInv /\ call.next # "close" /\ call.due = 0  BY <1>1, <2>2
  <2>4. TryReady(id, s, FALSE, balance)
    BY <2>1, <2>3, RevealReady DEF BeginReveal
  <2> QED  BY <2>2, <2>3, <2>4, TryEscrow
<1>3. CASE \E v \in Validators, t \in RequestIds, h \in Hashes, x \in Transcripts, n \in Slots :
             BeginAttestation(v, t, h, x, n)
  <2>1. PICK v \in Validators, t \in RequestIds, h \in Hashes, x \in Transcripts, n \in Slots :
          BeginAttestation(v, t, h, x, n)
    BY <1>3
  <2> DEFINE q == Attested(poi[t], v, h, x, n)
  <2>2. /\ poi' = [poi EXCEPT ![t] = q] /\ call = NoCall
        /\ UNCHANGED <<now, nextRequestId, challenges, settings, workerBond, registryVars>>
    BY <2>1 DEF BeginAttestation
  <2>3. IInv /\ call.next # "close" /\ call.due = 0  BY <1>1, <2>2
  <2>4. poi' \in [RequestIds -> PoI]  BY <2>2, <2>3, AttestedType DEF IInv
  <2>5. CASE TryFinalizeCalling(t, requests[t], OpenChallenge(t), q)
    BY <2>2, <2>3, <2>4, <2>5, AttestationReady, TryEscrow
  <2>6. CASE UNCHANGED <<requests, balance>> /\ call' = NoCall
    <3>1. Idle  BY <2>2, <2>3, <2>6 DEF Idle, IInv, TypeOK
    <3> QED  BY <2>2, <2>6, <3>1, CallEscrowIdle
  <2>7. \/ TryFinalizeCalling(t, requests[t], OpenChallenge(t), q)
        \/ UNCHANGED <<requests, balance>> /\ call' = NoCall
    BY <2>1, Zenon DEF BeginAttestation
  <2> QED  BY <2>5, <2>6, <2>7
<1>4. CASE \E id \in RequestIds : BeginTimeout(id)
  <2>1. PICK id \in RequestIds : BeginTimeout(id)  BY <1>4
  <2>2. /\ call = NoCall /\ requests[id].status = "Committed"
        /\ requests' = [requests EXCEPT ![id] = EndAs(@, "TimedOut")]
        /\ balance' = balance - requests[id].fee
        /\ UNCHANGED <<challenges, workerBond>>
        /\ call' = [next |-> "slash", id |-> id, due |-> 0, payeeRuns |-> requests[id].fee # 0]
    BY <2>1 DEF BeginTimeout, Sent
  <2>3. /\ requests \in [RequestIds -> Request] /\ challenges[id].bond \in Nat
        /\ settings.treasury \in Accounts /\ balance \in Nat
        /\ workerBond[settings.treasury] \in Nat /\ requests[id].fee \in Nat
    BY DEF CInv, BInv, TypeOK, Settings, Challenge, Request
  <2>4. /\ requests'[id].status = "TimedOut" /\ requests'[id].fee = 0
        /\ \A k \in RequestIds \ {id} : requests'[k] = requests[k]
    BY <2>2, <2>3 DEF EndAs, Request
  <2>5. \A k \in RequestIds : CallPhase(k) = Phase(k) /\ CallPhase(k)' = Phase(k)'
    BY <1>1, <2>2 DEF CallPhase
  <2>6. /\ CallPhase(id) = "held" /\ CallPhase(id)' = "refunded"
        /\ \A k \in RequestIds \ {id} : CallPhase(k)' = CallPhase(k)
    BY <2>2, <2>4, <2>5 DEF Phase, Live
  <2>7. (balance' - call'.due) - (balance - call.due) = requests'[id].fee - requests[id].fee
    BY <1>1, <2>2, <2>3, <2>4
  <2>8. CallMoves(id, settings.treasury)
    BY <2>2, <2>3, <2>4, <2>6, <2>7 DEF CallMoves
  <2> QED  BY <2>3, <2>8
<1>5. CASE \E a \in Accounts, id \in RequestIds, uphold \in BOOLEAN : BeginDecision(a, id, uphold)
  <2>1. PICK a \in Accounts, id \in RequestIds, uphold \in BOOLEAN : BeginDecision(a, id, uphold)
    BY <1>5
  <2>2. /\ requests \in [RequestIds -> Request] /\ challenges \in [RequestIds -> Challenge]
        /\ challenges[id] \in Challenge /\ challenges[id].bond \in Nat
        /\ balance \in Nat /\ workerBond[a] \in Nat /\ requests[id].fee \in Nat
    BY DEF CInv, BInv, TypeOK, Challenge, Request
  <2>3. /\ call = NoCall /\ UNCHANGED <<requests, workerBond>>
        /\ balance' = balance - challenges[id].bond
        /\ challenges' = [challenges EXCEPT ![id] =
             [@ EXCEPT !.resolved = TRUE, !.upheld = uphold, !.bond = 0]]
        /\ call' = [next |-> IF uphold THEN "conclude" ELSE "punish", id |-> id, due |-> 0,
                    payeeRuns |-> challenges[id].bond # 0]
    BY <2>1 DEF BeginDecision, Sent
  <2>4. /\ challenges'[id].bond = 0
        /\ \A k \in RequestIds \ {id} : challenges'[k] = challenges[k]
    BY <2>2, <2>3 DEF Challenge
  <2>5. \A k \in RequestIds : CallPhase(k)' = CallPhase(k)
    BY <1>1, <2>3 DEF CallPhase, Phase
  <2>6. (balance' - call'.due) - (balance - call.due) = challenges'[id].bond - challenges[id].bond
    BY <1>1, <2>2, <2>3, <2>4
  <2>7. CallMoves(id, a)
    BY <2>2, <2>3, <2>4, <2>5, <2>6 DEF CallMoves
  <2> QED  BY <2>7
<1> QED  BY <1>2, <1>3, <1>4, <1>5 DEF BeginStep
LEMMA ResumeEscrow ==
  ASSUME CInv, CInv', ResumeStep
  PROVE  \/ [EscrowCalling!Next]_<<CallPhases, Fees, CallPot>>
         \/ \E id \in RequestIds, w \in Accounts : CallMoves(id, w)
<1>1. /\ requests \in [RequestIds -> Request] /\ balance \in Nat /\ balance' \in Nat
      /\ \A k \in RequestIds : /\ challenges[k].bond \in Nat /\ requests[k].fee \in Nat
                              /\ requestBondLocked[k] \in Nat
      /\ workerBond \in [Accounts -> Nat] /\ settings.treasury \in Accounts
      /\ call.due \in Nat
  BY DEF CInv, BInv, TypeOK, Challenge, Request, Settings, Call
<1>2. CASE PayWorker
  <2>1. /\ call.next = "payWorker" /\ balance' = balance - call.due /\ call' = NoCall
        /\ UNCHANGED <<requests, challenges, workerBond>>
    BY <1>2 DEF PayWorker
  <2>2. PICK id \in RequestIds : id = call.id  BY <2>1 DEF CInv, Stage
  <2>3. \A k \in RequestIds : CallPhase(k)' = CallPhase(k)
    BY <2>1 DEF CallPhase, Phase, NoCall
  <2>4. (balance' - call'.due) - (balance - call.due) = 0
    BY <1>1, <2>1 DEF NoCall
  <2>5. workerBond[settings.treasury] \in Nat  BY <1>1
  <2>6. CallMoves(id, settings.treasury)
    BY <1>1, <2>1, <2>3, <2>4, <2>5 DEF CallMoves
  <2> QED  BY <1>1, <2>6
<1>3. CASE PaySlashed
  <2>1. PICK id \in RequestIds : id = call.id  BY <1>3 DEF CInv, Stage, PaySlashed
  <2>2. /\ call.next \in {"slash", "punish"} /\ SlashBond(id)
        /\ balance' = balance - requestBondLocked[id] /\ UNCHANGED <<requests, challenges>>
        /\ \/ call' = NoCall
           \/ call' = [next |-> "refund", id |-> id, due |-> 0,
                       payeeRuns |-> requestBondLocked[id] # 0]
    BY <1>3, <2>1 DEF PaySlashed, Sent
  <2>3. call.due = 0  BY <2>2 DEF CInv, Stage
  <2>4. PICK w \in Accounts : w = requests[id].worker
    <3>1. CASE call.next = "slash"
      BY <2>1, <3>1 DEF CInv, Stage
    <3>2. CASE call.next = "punish"
      BY <2>1, <3>2, DecidingFacts DEF Deciding, BInv, Apart, Decided, RequestShape, Shape
    <3> QED  BY <2>2, <3>1, <3>2
  <2>5. workerBond' = [workerBond EXCEPT ![w] = @ - requestBondLocked[id]]
    BY <1>1, <2>2, <2>4 DEF SlashBond
  <2>6. \A k \in RequestIds : CallPhase(k)' = CallPhase(k)
    BY <2>2 DEF CallPhase, Phase, NoCall
  <2>7. call'.due = 0  BY <2>2 DEF NoCall
  <2>8. workerBond[w] \in Nat /\ workerBond'[w] = workerBond[w] - requestBondLocked[id]
    BY <1>1, <2>5
  <2>9. (balance' - call'.due) - (balance - call.due) = workerBond'[w] - workerBond[w]
    BY <1>1, <2>2, <2>3, <2>7, <2>8
  <2>10. \A a \in Accounts \ {w} : workerBond'[a] = workerBond[a]
    BY <1>1, <2>5
  <2>11. CallMoves(id, w)
    BY <1>1, <2>2, <2>6, <2>8, <2>9, <2>10 DEF CallMoves
  <2> QED  BY <2>11
<1>4. ASSUME call.next \in Deciding
      PROVE  /\ call.due = 0
             /\ \E id \in RequestIds : id = call.id /\ requests[id].status = "Disputed" /\ BInv({id}, 0)
  <2>1. call.due = 0 /\ call.id \in RequestIds /\ BInv({call.id}, 0)
    BY <1>4, DecidingFacts DEF CInv, Stage, Deciding
  <2> QED  BY <2>1 DEF BInv, Apart, Decided
<1>5. CASE Conclude
  <2>1. call.next \in Deciding /\ call.next # "close"  BY <1>5 DEF Conclude, Deciding
  <2>2. PICK id \in RequestIds : id = call.id /\ BInv({id}, 0)  BY <1>4, <2>1
  <2> DEFINE s == [requests[id] EXCEPT !.status = "Revealed"]
  <2>3. TryFinalizeCalling(id, s, FALSE, poi[id])  BY <1>5, <2>2 DEF Conclude
  <2>4. TryReady(id, s, FALSE, balance)  BY <1>5, <2>2, ConcludeReady DEF Conclude
  <2> QED  BY <1>4, <2>1, <2>3, <2>4, TryEscrow
<1>6. CASE RefundFee
  <2>1. call.next \in Deciding /\ call.next # "close"  BY <1>6 DEF RefundFee, Deciding
  <2>2. PICK id \in RequestIds : id = call.id /\ requests[id].status = "Disputed"
    BY <1>4, <2>1
  <2>3. /\ requests' = [requests EXCEPT ![id].fee = 0]
        /\ balance' = balance - requests[id].fee
        /\ call' = [next |-> "close", id |-> id, due |-> 0, payeeRuns |-> requests[id].fee # 0]
        /\ UNCHANGED <<challenges, workerBond>>
    BY <1>6, <2>2 DEF RefundFee, Sent
  <2>4. /\ requests'[id].fee = 0 /\ requests'[id].status = "Disputed"
        /\ \A k \in RequestIds \ {id} : requests'[k] = requests[k]
    BY <1>1, <2>2, <2>3 DEF Request
  <2>5. /\ CallPhase(id) = "held" /\ CallPhase(id)' = "refunded"
        /\ \A k \in RequestIds \ {id} : CallPhase(k)' = CallPhase(k)
    BY <2>1, <2>2, <2>3, <2>4 DEF CallPhase, Phase, Live
  <2>6. workerBond[settings.treasury] \in Nat  BY <1>1
  <2>7. (balance' - call'.due) - (balance - call.due)
          = (requests'[id].fee - requests[id].fee)
            + (challenges'[id].bond - challenges[id].bond)
            + (workerBond'[settings.treasury] - workerBond[settings.treasury])
    <3>1. call.due = 0 /\ call'.due = 0  BY <1>4, <2>1, <2>3
    <3> QED  BY <1>1, <2>3, <2>4, <2>6, <3>1
  <2>8. CallMoves(id, settings.treasury)
    BY <2>3, <2>4, <2>5, <2>7 DEF CallMoves
  <2> QED  BY <1>1, <2>8
<1>7. CASE CloseRejected
  <2>1. call.next \in Deciding /\ call.next = "close"  BY <1>7 DEF CloseRejected, Deciding
  <2>2. PICK id \in RequestIds : id = call.id /\ requests[id].status = "Disputed"
    BY <1>4, <2>1
  <2>3. /\ requests' = [requests EXCEPT ![id].status = "Cancelled"]
        /\ call' = NoCall /\ UNCHANGED <<challenges, workerBond, balance>>
    BY <1>7, <2>2 DEF CloseRejected
  <2>4. /\ requests'[id].fee = requests[id].fee /\ requests'[id].status = "Cancelled"
        /\ \A k \in RequestIds \ {id} : requests'[k] = requests[k]
    BY <1>1, <2>3 DEF Request
  <2>5. \A k \in RequestIds : CallPhase(k)' = CallPhase(k)
    BY <2>1, <2>2, <2>3, <2>4 DEF CallPhase, Phase, Live, NoCall
  <2>6. workerBond[settings.treasury] \in Nat  BY <1>1
  <2>7. (balance' - call'.due) - (balance - call.due)
          = (requests'[id].fee - requests[id].fee)
            + (challenges'[id].bond - challenges[id].bond)
            + (workerBond'[settings.treasury] - workerBond[settings.treasury])
    <3>1. call.due = 0 /\ call'.due = 0  BY <1>4, <2>1, <2>3 DEF NoCall
    <3> QED  BY <1>1, <2>3, <2>4, <2>6, <3>1
  <2>8. CallMoves(id, settings.treasury)
    BY <2>3, <2>4, <2>5, <2>7 DEF CallMoves
  <2> QED  BY <1>1, <2>8
<1> QED  BY <1>2, <1>3, <1>5, <1>6, <1>7 DEF ResumeStep

(* CallsImplementEscrow, for every value of the constants: with all that     *)
(* payees may do in between, each fee is held once and leaves once and whole.*)
THEOREM CallsKeepEscrow == CallsSpec => CallsImplementEscrow
<1>1. CallsInit => EscrowCalling!Init
  <2> SUFFICES ASSUME CallsInit PROVE EscrowCalling!Init  OBVIOUS
  <2>1. Init /\ call.next = "nothing" /\ call.due = 0  BY DEF CallsInit, NoCall
  <2>2. \A id \in RequestIds : ChallengeBonds[id] = 0
    BY <2>1 DEF Init, ChallengeBonds, NoChallenge
  <2>3. \A a \in Accounts : workerBond[a] = 0  BY <2>1 DEF Init
  <2>4. Total(ChallengeBonds, RequestIds) = 0 /\ Total(workerBond, Accounts) = 0
    BY <2>2, <2>3, TotalZero
  <2>5. \A id \in RequestIds : requests[id].status = "None" /\ requests[id].fee = 0
    BY <2>1 DEF Init, NoRequest
  <2>6. \A id \in RequestIds : CallPhase(id) = "none"
    BY <2>1, <2>5 DEF CallPhase, Phase, Live
  <2>7. Fees = [id \in RequestIds |-> 0]  BY <2>5 DEF Fees
  <2>8. balance = 0  BY <2>1 DEF Init
  <2> QED  BY <2>1, <2>4, <2>6, <2>7, <2>8 DEF EscrowCalling!Init
<1>2. CInv /\ CInv' /\ [CallsNext]_callVars => [EscrowCalling!Next]_<<CallPhases, Fees, CallPot>>
  <2> SUFFICES ASSUME CInv, CInv', [CallsNext]_callVars
               PROVE  [EscrowCalling!Next]_<<CallPhases, Fees, CallPot>>
    OBVIOUS
  <2>1. CASE CallsNext
    BY <2>1, UnlockedEscrow, LockedEscrow, BeginEscrow, ResumeEscrow, CallEscrowMoves DEF CallsNext
  <2>2. CASE UNCHANGED callVars
    <3>1. Idle /\ call' = call
      BY <2>2 DEF callVars, vars, moneyVars, Idle, CInv, BInv, TypeOK
    <3> QED  BY <3>1, CallEscrowIdle
  <2> QED  BY <2>1, <2>2
<1> QED
  BY SpecCInv, <1>1, <1>2, PTL
  DEF CallsSpec, CallsImplementEscrow, EscrowCalling!Spec, EscrowCalling!escrowVars, CallPhases, CallPot
=============================================================================
