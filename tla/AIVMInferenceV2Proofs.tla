----------------------- MODULE AIVMInferenceV2Proofs -----------------------
(***************************************************************************)
(* Proofs about AIVMInferenceV2 for every number of accounts, requests and *)
(* validators and every choice of amounts, settings and deadlines.         *)
(***************************************************************************)
EXTENDS AIVMInferenceV2Properties, TallyTheorems

(* No invariant below is inductive alone: a subtraction stays in Nat because *)
(* the money is there (Solvent, LocksMatch, PendingMatches), it is there     *)
(* because status and challenge agree (DisputeMatches, RequestShape).        *)
IInv ==
  /\ TypeOK
  /\ RequestShape
  /\ DisputeMatches
  /\ LocksMatch
  /\ PendingMatches
  /\ Solvent

(* Between the calls of resolveChallenge the dispute of a request is decided *)
(* and the request not yet ended.  BInv is the invariant with the requests   *)
(* of D in that state and an amount still to be paid set apart: it is what   *)
(* the payees of a transaction find (AIVMInferenceV2Calls).                  *)
Decided(id) ==
  /\ requests[id].status = "Disputed"
  /\ ~OpenChallenge(id)
  /\ challenges[id].bond = 0

Apart(D) == \A id \in RequestIds : IF id \in D THEN Decided(id) ELSE DisputeMatch(id)

Covers(due) == balance >= Owed + due

BInv(D, due) ==
  /\ TypeOK
  /\ RequestShape
  /\ Apart(D)
  /\ LocksMatch
  /\ PendingMatches
  /\ Covers(due)

LEMMA RequestIdsFinite == IsFiniteSet(RequestIds)
  BY ConstantsAssumption, FS_Interval DEF RequestIds

-----------------------------------------------------------------------------
(* What the invariant says about a single request and worker: the amounts    *)
(* that settlements subtract are there.                                      *)

LEMMA LockBound ==
  ASSUME TypeOK, LocksMatch, NEW id \in RequestIds, requests[id].worker \in Accounts
  PROVE  /\ requestBondLocked[id] <= workerBondLocked[requests[id].worker]
         /\ workerBondLocked[requests[id].worker] <= workerBond[requests[id].worker]
<1> DEFINE w == requests[id].worker
<1>1. \A k \in RequestIds : LocksOf(w)[k] \in Nat
  BY DEF TypeOK, LocksOf
<1>2. LocksOf(w)[id] = requestBondLocked[id]
  BY DEF LocksOf
<1>3. LocksOf(w)[id] <= Total(LocksOf(w), RequestIds)
  BY <1>1, RequestIdsFinite, TotalBound
<1> QED  BY <1>2, <1>3 DEF LocksMatch

LEMMA OwedType ==
  ASSUME TypeOK
  PROVE  /\ Total(Fees, RequestIds) \in Nat
         /\ Total(workerBond, Accounts) \in Nat
         /\ Total(ChallengeBonds, RequestIds) \in Nat
<1>1. \A k \in RequestIds : Fees[k] \in Nat /\ ChallengeBonds[k] \in Nat
  BY DEF TypeOK, Fees, ChallengeBonds, Request, Challenge
<1>2. \A a \in Accounts : workerBond[a] \in Nat
  BY DEF TypeOK
<1> QED  BY <1>1, <1>2, RequestIdsFinite, ConstantsAssumption, TotalType

LEMMA OwedBound ==
  ASSUME TypeOK, Solvent, NEW id \in RequestIds, NEW w \in Accounts
  PROVE  requests[id].fee + challenges[id].bond + workerBond[w] <= balance
<1>1. \A k \in RequestIds : Fees[k] \in Nat /\ ChallengeBonds[k] \in Nat
  BY DEF TypeOK, Fees, ChallengeBonds, Request, Challenge
<1>2. \A a \in Accounts : workerBond[a] \in Nat
  BY DEF TypeOK
<1>3. Fees[id] <= Total(Fees, RequestIds)
  BY <1>1, RequestIdsFinite, TotalBound
<1>4. ChallengeBonds[id] <= Total(ChallengeBonds, RequestIds)
  BY <1>1, RequestIdsFinite, TotalBound
<1>5. workerBond[w] <= Total(workerBond, Accounts)
  BY <1>2, ConstantsAssumption, TotalBound
<1>6. Fees[id] = requests[id].fee /\ ChallengeBonds[id] = challenges[id].bond
  BY DEF Fees, ChallengeBonds
<1>7. balance \in Nat
  BY DEF TypeOK
<1> QED  BY <1>1, <1>2, <1>3, <1>4, <1>5, <1>6, <1>7, OwedType DEF Solvent, Owed

LEMMA PendingFinite ==
  ASSUME NEW a
  PROVE  IsFiniteSet(PendingOf(a))
  BY RequestIdsFinite, FS_Subset DEF PendingOf

LEMMA PendingBound ==
  ASSUME TypeOK, PendingMatches, NEW id \in RequestIds,
         requests[id].status \in Live, requests[id].requester \in Accounts
  PROVE  pendingByRequester[requests[id].requester] >= 1
<1> DEFINE a == requests[id].requester
<1>1. id \in PendingOf(a)
  BY DEF PendingOf
<1>2. Cardinality(PendingOf(a)) # 0
  BY <1>1, PendingFinite, FS_EmptySet
<1>3. pendingByRequester[a] \in Nat /\ pendingByRequester[a] = Cardinality(PendingOf(a))
  BY DEF TypeOK, PendingMatches
<1> QED  BY <1>2, <1>3
-----------------------------------------------------------------------------
(* How the three sums move when one request and one worker change.           *)

LEMMA BondTotal ==
  ASSUME TypeOK, TypeOK', NEW w \in Accounts,
         \A a \in Accounts \ {w} : workerBond'[a] = workerBond[a]
  PROVE  Total(workerBond', Accounts) =
           Total(workerBond, Accounts) - workerBond[w] + workerBond'[w]
<1>1. \A a \in Accounts : workerBond[a] \in Nat /\ workerBond'[a] \in Nat
  BY DEF TypeOK
<1> QED  BY <1>1, ConstantsAssumption, TotalUpdate

LEMMA OwedStep ==
  ASSUME TypeOK, TypeOK',
         NEW id \in RequestIds, NEW w \in Accounts,
         \A k \in RequestIds \ {id} : /\ requests'[k].fee = requests[k].fee
                                      /\ challenges'[k].bond = challenges[k].bond,
         \A a \in Accounts \ {w} : workerBond'[a] = workerBond[a]
  PROVE  Owed' = Owed + (requests'[id].fee - requests[id].fee)
                      + (challenges'[id].bond - challenges[id].bond)
                      + (workerBond'[w] - workerBond[w])
<1>1. \A k \in RequestIds : Fees[k] \in Nat /\ Fees'[k] \in Nat
  BY DEF TypeOK, Fees, Request
<1>2. \A k \in RequestIds : ChallengeBonds[k] \in Nat /\ ChallengeBonds'[k] \in Nat
  BY DEF TypeOK, ChallengeBonds, Challenge
<1>3. workerBond[w] \in Nat /\ workerBond'[w] \in Nat
  BY DEF TypeOK
<1>4. \A k \in RequestIds \ {id} : Fees'[k] = Fees[k]
  BY DEF Fees
<1>5. \A k \in RequestIds \ {id} : ChallengeBonds'[k] = ChallengeBonds[k]
  BY DEF ChallengeBonds
<1>6. Total(Fees', RequestIds) = Total(Fees, RequestIds) - Fees[id] + Fees'[id]
  BY <1>1, <1>4, RequestIdsFinite, TotalUpdate
<1>7. Total(ChallengeBonds', RequestIds) =
        Total(ChallengeBonds, RequestIds) - ChallengeBonds[id] + ChallengeBonds'[id]
  BY <1>2, <1>5, RequestIdsFinite, TotalUpdate
<1>8. Total(workerBond', Accounts) = Total(workerBond, Accounts) - workerBond[w] + workerBond'[w]
  BY BondTotal
<1>9. /\ Fees[id] = requests[id].fee /\ Fees'[id] = requests'[id].fee
      /\ ChallengeBonds[id] = challenges[id].bond
      /\ ChallengeBonds'[id] = challenges'[id].bond
  BY DEF Fees, ChallengeBonds
<1>10. Owed' = Total(Fees', RequestIds) + Total(workerBond', Accounts)
                                        + Total(ChallengeBonds', RequestIds)
  BY DEF Owed
<1> QED  BY <1>1, <1>2, <1>3, <1>6, <1>7, <1>8, <1>9, <1>10, OwedType DEF Owed

LEMMA OwedNat == (TypeOK => Owed \in Nat) /\ (TypeOK' => Owed' \in Nat)
<1>1. TypeOK => Owed \in Nat
  BY OwedType DEF Owed
<1>2. (TypeOK => Owed \in Nat)'
  BY <1>1, PTL
<1> QED  BY <1>1, <1>2

LEMMA CoverStep ==
  ASSUME TypeOK, TypeOK', NEW due \in Nat, Covers(due),
         NEW id \in RequestIds, NEW w \in Accounts,
         \A k \in RequestIds \ {id} : /\ requests'[k].fee = requests[k].fee
                                      /\ challenges'[k].bond = challenges[k].bond,
         \A a \in Accounts \ {w} : workerBond'[a] = workerBond[a],
         balance' - balance >= (requests'[id].fee - requests[id].fee)
                               + (challenges'[id].bond - challenges[id].bond)
                               + (workerBond'[w] - workerBond[w])
  PROVE  Covers(due)'
<1>1. Owed' = Owed + (requests'[id].fee - requests[id].fee)
                   + (challenges'[id].bond - challenges[id].bond)
                   + (workerBond'[w] - workerBond[w])
  BY OwedStep
<1>2. /\ requests[id].fee \in Nat /\ requests'[id].fee \in Nat
      /\ challenges[id].bond \in Nat /\ challenges'[id].bond \in Nat
  BY DEF TypeOK, Request, Challenge
<1>3. /\ workerBond[w] \in Nat /\ workerBond'[w] \in Nat
      /\ balance \in Nat /\ balance' \in Nat
  BY DEF TypeOK
<1>4. Covers(due)' <=> balance' >= Owed' + due
  BY DEF Covers
<1> QED  BY <1>1, <1>2, <1>3, <1>4, OwedNat DEF Covers

LEMMA SolventStep ==
  ASSUME TypeOK, TypeOK', Solvent,
         NEW id \in RequestIds, NEW w \in Accounts,
         \A k \in RequestIds \ {id} : /\ requests'[k].fee = requests[k].fee
                                      /\ challenges'[k].bond = challenges[k].bond,
         \A a \in Accounts \ {w} : workerBond'[a] = workerBond[a],
         balance' - balance >= (requests'[id].fee - requests[id].fee)
                               + (challenges'[id].bond - challenges[id].bond)
                               + (workerBond'[w] - workerBond[w])
  PROVE  Solvent'
<1>1. Covers(0)
  BY OwedNat DEF Covers, Solvent, TypeOK
<1>2. Covers(0)'
  BY <1>1, CoverStep
<1>3. balance' >= Owed' + 0
  BY <1>2 DEF Covers
<1> QED  BY <1>3, OwedNat DEF Solvent

LEMMA CoverSame ==
  ASSUME TypeOK, TypeOK', NEW due \in Nat, Covers(due),
         balance' >= balance, workerBond' = workerBond,
         \A k \in RequestIds : /\ requests'[k].fee = requests[k].fee
                               /\ challenges'[k].bond = challenges[k].bond
  PROVE  Covers(due)'
<1>1. Fees' = Fees /\ ChallengeBonds' = ChallengeBonds
  BY DEF Fees, ChallengeBonds
<1>2. Owed' = Owed
  BY <1>1 DEF Owed
<1>3. Covers(due)' <=> balance' >= Owed' + due
  BY DEF Covers
<1> QED  BY <1>2, <1>3, OwedNat DEF Covers, TypeOK

(* The invariant is the case of no dispute decided and nothing to be paid.   *)
LEMMA AtRest ==
  /\ IInv <=> BInv({}, 0)
  /\ IInv' <=> BInv({}, 0)'
<1>1. (TypeOK => Owed \in Nat) /\ (TypeOK' => Owed' \in Nat)
  BY OwedNat
<1>2. TypeOK => (Solvent <=> Covers(0))
  BY <1>1 DEF TypeOK, Solvent, Covers
<1>3. TypeOK' => (Solvent' <=> Covers(0)')
  <2>1. Covers(0)' <=> balance' >= Owed' + 0
    BY DEF Covers
  <2>2. Solvent' <=> balance' >= Owed'
    BY DEF Solvent
  <2> QED  BY <1>1, <2>1, <2>2 DEF TypeOK
<1>4. DisputeMatches <=> Apart({})
  BY DEF DisputeMatches, Apart
<1>5. DisputeMatches' <=> Apart({})'
  BY DEF DisputeMatches, Apart
<1> QED  BY <1>2, <1>3, <1>4, <1>5 DEF IInv, BInv

LEMMA SolventIfCovers ==
  ASSUME NEW D, NEW due \in Nat, BInv(D, due)
  PROVE  Solvent
BY OwedNat DEF BInv, Covers, Solvent, TypeOK

LEMMA LocksStep ==
  ASSUME TypeOK, TypeOK', LocksMatch,
         NEW id \in RequestIds, NEW w \in Accounts,
         \A k \in RequestIds \ {id} : /\ requests'[k].worker = requests[k].worker
                                      /\ requestBondLocked'[k] = requestBondLocked[k],
         \A a \in Accounts \ {w} : /\ workerBondLocked'[a] = workerBondLocked[a]
                                   /\ workerBond'[a] = workerBond[a],
         requests'[id].worker = w,
         requests[id].worker = w \/ requestBondLocked[id] = 0,
         workerBondLocked'[w] =
           workerBondLocked[w] - requestBondLocked[id] + requestBondLocked'[id],
         workerBondLocked'[w] <= workerBond'[w]
  PROVE  LocksMatch'
<1> SUFFICES ASSUME NEW a \in Accounts
             PROVE  /\ workerBondLocked'[a] = Total(LocksOf(a)', RequestIds)
                    /\ workerBondLocked'[a] <= workerBond'[a]
  BY DEF LocksMatch
<1>1. \A k \in RequestIds : LocksOf(a)[k] \in Nat /\ LocksOf(a)'[k] \in Nat
  BY DEF TypeOK, LocksOf
<1>2. \A k \in RequestIds \ {id} : LocksOf(a)'[k] = LocksOf(a)[k]
  BY DEF LocksOf
<1>3. Total(LocksOf(a)', RequestIds) =
        Total(LocksOf(a), RequestIds) - LocksOf(a)[id] + LocksOf(a)'[id]
  BY <1>1, <1>2, RequestIdsFinite, TotalUpdate
<1>4. workerBondLocked[a] = Total(LocksOf(a), RequestIds)
  BY DEF LocksMatch
<1>5. workerBondLocked[a] \in Nat /\ workerBondLocked'[a] \in Nat
  BY DEF TypeOK
<1>6. CASE a = w
  <2>1. LocksOf(a)[id] = requestBondLocked[id] /\ LocksOf(a)'[id] = requestBondLocked'[id]
    BY <1>6 DEF LocksOf
  <2> QED  BY <1>1, <1>3, <1>4, <1>5, <1>6, <2>1
<1>7. CASE a # w
  <2>1. LocksOf(a)[id] = 0 /\ LocksOf(a)'[id] = 0
    BY <1>7 DEF LocksOf
  <2> QED  BY <1>3, <1>4, <1>5, <1>7, <2>1 DEF LocksMatch
<1> QED  BY <1>6, <1>7

LEMMA LocksSame ==
  ASSUME LocksMatch, workerBondLocked' = workerBondLocked,
         \A k \in RequestIds : /\ requests'[k].worker = requests[k].worker
                               /\ requestBondLocked'[k] = requestBondLocked[k],
         \A a \in Accounts : workerBondLocked[a] <= workerBond'[a]
  PROVE  LocksMatch'
<1>1. \A a \in Accounts : LocksOf(a)' = LocksOf(a)
  BY DEF LocksOf
<1> QED  BY <1>1 DEF LocksMatch

LEMMA PendingSame ==
  ASSUME PendingMatches, pendingByRequester' = pendingByRequester,
         \A k \in RequestIds : /\ requests'[k].requester = requests[k].requester
                               /\ requests'[k].status \in Live <=> requests[k].status \in Live
  PROVE  PendingMatches'
<1>1. \A a \in Accounts : PendingOf(a)' = PendingOf(a)
  BY DEF PendingOf
<1> QED  BY <1>1 DEF PendingMatches

LEMMA PendingOpen ==
  ASSUME TypeOK, PendingMatches, NEW id \in RequestIds, NEW r \in Accounts,
         \A k \in RequestIds \ {id} : requests'[k] = requests[k],
         requests[id].status \notin Live,
         requests'[id].status \in Live, requests'[id].requester = r,
         pendingByRequester' = [pendingByRequester EXCEPT ![r] = @ + 1]
  PROVE  PendingMatches'
<1> SUFFICES ASSUME NEW a \in Accounts
             PROVE  pendingByRequester'[a] = Cardinality(PendingOf(a)')
  BY DEF PendingMatches
<1>1. pendingByRequester[a] = Cardinality(PendingOf(a)) /\ IsFiniteSet(PendingOf(a))
  BY PendingFinite DEF PendingMatches
<1>2. id \notin PendingOf(a)
  BY DEF PendingOf
<1>3. CASE a = r
  <2>1. PendingOf(a)' = PendingOf(a) \cup {id}
    BY <1>3 DEF PendingOf
  <2>2. Cardinality(PendingOf(a) \cup {id}) = Cardinality(PendingOf(a)) + 1
    BY <1>1, <1>2, FS_AddElement
  <2>3. pendingByRequester'[a] = pendingByRequester[a] + 1
    BY <1>3 DEF TypeOK
  <2> QED  BY <1>1, <2>1, <2>2, <2>3
<1>4. CASE a # r
  <2>1. PendingOf(a)' = PendingOf(a)
    BY <1>4, <1>2 DEF PendingOf
  <2> QED  BY <1>1, <1>4, <2>1 DEF TypeOK
<1> QED  BY <1>3, <1>4

LEMMA PendingClose ==
  ASSUME TypeOK, PendingMatches, NEW id \in RequestIds,
         requests[id].requester \in Accounts,
         \A k \in RequestIds \ {id} : requests'[k] = requests[k],
         requests[id].status \in Live, requests'[id].status \notin Live,
         pendingByRequester' = LessPending(requests[id].requester)
  PROVE  PendingMatches'
<1> SUFFICES ASSUME NEW a \in Accounts
             PROVE  pendingByRequester'[a] = Cardinality(PendingOf(a)')
  BY DEF PendingMatches
<1> DEFINE r == requests[id].requester
<1>1. pendingByRequester[a] = Cardinality(PendingOf(a)) /\ IsFiniteSet(PendingOf(a))
  BY PendingFinite DEF PendingMatches
<1>2. PendingOf(a)' = PendingOf(a) \ {id}
  BY DEF PendingOf
<1>3. Cardinality(PendingOf(a) \ {id}) =
        IF id \in PendingOf(a) THEN Cardinality(PendingOf(a)) - 1
                               ELSE Cardinality(PendingOf(a))
  BY <1>1, FS_RemoveElement
<1>4. id \in PendingOf(a) <=> a = r
  BY DEF PendingOf
<1>5. pendingByRequester'[a] = IF a = r THEN pendingByRequester[a] - 1
                                        ELSE pendingByRequester[a]
  BY DEF LessPending, TypeOK
<1> QED  BY <1>1, <1>2, <1>3, <1>4, <1>5
-----------------------------------------------------------------------------
(* Initial states. *)
LEMMA InitIInv == Init => IInv
<1> SUFFICES ASSUME Init PROVE IInv
  OBVIOUS
<1> USE DEF Init
<1>1. TypeOK
  BY ConstantsAssumption DEF TypeOK, RequestIds, NoRequest, NoChallenge, NoPoI, Request,
     Challenge, PoI, Live, Ended, Registry!Init, Registry!TypeOK, Registry!Validator
<1>2. RequestShape
  BY DEF RequestShape, Shape, NoRequest, NoChallenge, RequestIds
<1>3. DisputeMatches
  BY DEF DisputeMatches, DisputeMatch, OpenChallenge, NoRequest, NoChallenge
<1>4. LocksMatch
  <2> SUFFICES ASSUME NEW w \in Accounts
               PROVE  workerBondLocked[w] = Total(LocksOf(w), RequestIds)
                      /\ workerBondLocked[w] <= workerBond[w]
    BY DEF LocksMatch
  <2>1. \A id \in RequestIds : LocksOf(w)[id] = 0
    BY DEF LocksOf
  <2> QED  BY <2>1, TotalZero
<1>5. PendingMatches
  <2>1. \A a \in Accounts : PendingOf(a) = {}
    BY DEF PendingOf, NoRequest, Live
  <2> QED  BY <2>1, FS_EmptySet DEF PendingMatches
<1>6. Solvent
  <2>1. \A id \in RequestIds : Fees[id] = 0 /\ ChallengeBonds[id] = 0
    BY DEF Fees, ChallengeBonds, NoRequest, NoChallenge
  <2>2. \A a \in Accounts : workerBond[a] = 0
    OBVIOUS
  <2>3. Total(Fees, RequestIds) = 0 /\ Total(ChallengeBonds, RequestIds) = 0
    BY <2>1, TotalZero
  <2>4. Total(workerBond, Accounts) = 0
    BY <2>2, TotalZero
  <2> QED  BY <2>3, <2>4 DEF Solvent, Owed
<1> QED  BY <1>1, <1>2, <1>3, <1>4, <1>5, <1>6 DEF IInv

-----------------------------------------------------------------------------
(* Steps, by what they have in common. *)

(* Neither requests nor money change. *)
LEMMA QuietStep ==
  ASSUME NEW D, NEW due \in Nat, BInv(D, due), TypeOK', UNCHANGED <<nextRequestId, requests, challenges, moneyVars>>
  PROVE  BInv(D, due)'
<1> USE DEF BInv, moneyVars
<1>1. RequestShape'
  BY DEF RequestShape, Shape
<1>2. Apart(D)'
  BY DEF Apart, Decided, DisputeMatch, OpenChallenge
<1>3. LocksMatch'
  BY LocksSame DEF LocksMatch
<1>4. PendingMatches'
  BY PendingSame
<1>5. Covers(due)'
  BY CoverSame DEF TypeOK
<1> QED  BY <1>1, <1>2, <1>3, <1>4, <1>5

(* A live request ends without finalizing: its fee, the challenger's bond    *)
(* and, when it is slashed, the worker's bond are paid out.                  *)
LEMMA EndStep ==
  ASSUME IInv, NEW id \in RequestIds, NEW s \in {"Cancelled", "TimedOut"},
         requests[id].status \in Live,
         requests' = [requests EXCEPT ![id] = EndAs(@, s)],
         pendingByRequester' = LessPending(requests[id].requester),
         \/ challenges' = challenges /\ ~OpenChallenge(id)
         \/ challenges' = [challenges EXCEPT ![id] = [@ EXCEPT !.resolved = TRUE, !.bond = 0]],
         s = "TimedOut" => challenges' = challenges /\ requests[id].status = "Committed",
         \/ UNCHANGED <<requestBondLocked, workerBondLocked, workerBond>>
            /\ balance' = balance - (requests[id].fee + challenges[id].bond - challenges'[id].bond)
         \/ requests[id].worker \in Accounts /\ SlashBond(id)
            /\ balance' = balance - (requests[id].fee + challenges[id].bond - challenges'[id].bond
                                     + requestBondLocked[id]),
         wallet' \in [Accounts -> Nat],
         UNCHANGED <<now, nextRequestId, poi, settings, registryVars>>
  PROVE  IInv'
<1> DEFINE r == requests[id]
           b == requestBondLocked[id]
<1>1. /\ r \in Request /\ challenges[id] \in Challenge /\ b \in Nat
      /\ r.fee \in Nat /\ challenges[id].bond \in Nat /\ r.requester \in Accounts
  BY DEF IInv, TypeOK, Request, Challenge, RequestShape, Shape, Live
<1>2. r.worker \in Accounts =>
        /\ b <= workerBondLocked[r.worker]
        /\ workerBondLocked[r.worker] <= workerBond[r.worker]
        /\ r.fee + challenges[id].bond + workerBond[r.worker] <= balance
  BY LockBound, OwedBound DEF IInv
<1>3. r.fee + challenges[id].bond <= balance
  <2>1. workerBond[r.requester] \in Nat
    BY <1>1 DEF IInv, TypeOK
  <2>2. r.fee + challenges[id].bond + workerBond[r.requester] <= balance
    BY <1>1, OwedBound DEF IInv
  <2>3. balance \in Nat
    BY DEF IInv, TypeOK
  <2> QED  BY <1>1, <2>1, <2>2, <2>3
<1>4. pendingByRequester[r.requester] >= 1
  BY <1>1, PendingBound DEF IInv
<1>5. /\ challenges' \in [RequestIds -> Challenge]
      /\ challenges'[id].bond \in Nat /\ challenges'[id].bond <= challenges[id].bond
      /\ challenges'[id].challenger = challenges[id].challenger
      /\ ~OpenChallenge(id)' /\ challenges'[id].bond = 0
      /\ \A k \in RequestIds \ {id} : challenges'[k] = challenges[k]
  <2>1. CASE challenges' = challenges /\ ~OpenChallenge(id)
    BY <1>1, <2>1 DEF IInv, TypeOK, OpenChallenge, DisputeMatches, DisputeMatch
  <2>2. CASE challenges' = [challenges EXCEPT ![id] = [@ EXCEPT !.resolved = TRUE, !.bond = 0]]
    <3>1. /\ challenges'[id] = [challenges[id] EXCEPT !.resolved = TRUE, !.bond = 0]
          /\ \A k \in RequestIds \ {id} : challenges'[k] = challenges[k]
          /\ DOMAIN challenges' = RequestIds
      BY <2>2 DEF IInv, TypeOK
    <3> DEFINE c == challenges[id]
    <3> HIDE DEF c
    <3>a. c \in Challenge
      BY <1>1 DEF c
    <3>b. /\ [c EXCEPT !.resolved = TRUE, !.bond = 0] \in Challenge
          /\ [c EXCEPT !.resolved = TRUE, !.bond = 0].resolved = TRUE
          /\ [c EXCEPT !.resolved = TRUE, !.bond = 0].bond = 0
          /\ [c EXCEPT !.resolved = TRUE, !.bond = 0].challenger = c.challenger
      BY <3>a DEF Challenge
    <3>2. /\ challenges'[id] \in Challenge
          /\ challenges'[id].resolved = TRUE /\ challenges'[id].bond = 0
          /\ challenges'[id].challenger = challenges[id].challenger
      BY <3>1, <3>b DEF c
    <3>3. challenges' \in [RequestIds -> Challenge]
      BY <1>1, <2>2, <3>2 DEF IInv, TypeOK
    <3> QED  BY <1>1, <3>1, <3>2, <3>3 DEF OpenChallenge
  <2> QED  BY <2>1, <2>2
<1>6. TypeOK'
  <2>1. requests' \in [RequestIds -> Request]
    BY <1>1 DEF IInv, TypeOK, Request, EndAs, Live, Ended
  <2>2. pendingByRequester' \in [Accounts -> Nat]
    BY <1>1, <1>4 DEF IInv, TypeOK, LessPending
  <2>3. /\ requestBondLocked' \in [RequestIds -> Nat]
        /\ workerBondLocked' \in [Accounts -> Nat]
        /\ workerBond' \in [Accounts -> Nat]
    BY <1>1, <1>2 DEF IInv, TypeOK, SlashBond
  <2>4. balance' \in Nat
    <3>1. balance \in Nat /\ (r.worker \in Accounts => workerBond[r.worker] \in Nat
                                                   /\ workerBondLocked[r.worker] \in Nat)
      BY DEF IInv, TypeOK
    <3> QED  BY <1>1, <1>2, <1>3, <1>5, <3>1
  <2> QED  BY <2>1, <2>2, <2>3, <2>4, <1>5
           DEF IInv, TypeOK, registryVars, Registry!TypeOK
<1>7. /\ \A k \in RequestIds \ {id} : requests'[k] = requests[k]
      /\ requests'[id].status = s /\ requests'[id].fee = 0
      /\ requests'[id].worker = r.worker /\ requests'[id].requester = r.requester
      /\ requests'[id].finalizedAt = r.finalizedAt
  BY <1>1 DEF IInv, TypeOK, EndAs, Request
<1>8. \/ UNCHANGED <<requestBondLocked, workerBondLocked, workerBond>>
      \/ /\ requestBondLocked' = [requestBondLocked EXCEPT ![id] = 0]
         /\ workerBondLocked' = [workerBondLocked EXCEPT ![r.worker] = @ - b]
         /\ workerBond' = [workerBond EXCEPT ![r.worker] = @ - b]
  BY DEF SlashBond
<1>9. RequestShape'
  <2> SUFFICES ASSUME NEW k \in RequestIds
               PROVE  Shape(k)'
    BY DEF RequestShape
  <2>1. Shape(k)
    BY DEF IInv, RequestShape
  <2>2. CASE k = id
    BY <1>1, <1>5, <1>7, <2>1, <2>2 DEF Live, Shape
  <2>3. CASE k # id
    BY <1>5, <1>7, <1>8, <2>1, <2>3 DEF IInv, TypeOK, Shape
  <2> QED  BY <2>2, <2>3
<1>10. DisputeMatches'
  <2> SUFFICES ASSUME NEW k \in RequestIds
               PROVE  DisputeMatch(k)'
    BY DEF DisputeMatches
  <2>1. DisputeMatch(k)
    BY DEF IInv, DisputeMatches
  <2>2. CASE k = id
    BY <1>1, <1>5, <1>7, <2>1, <2>2 DEF DisputeMatch, OpenChallenge, Live
  <2>3. CASE k # id
    BY <1>5, <1>7, <2>1, <2>3 DEF DisputeMatch, OpenChallenge
  <2> QED  BY <2>2, <2>3
<1>11. LocksMatch'
  <2>1. CASE UNCHANGED <<requestBondLocked, workerBondLocked, workerBond>>
    BY <1>7, <2>1, LocksSame DEF IInv, LocksMatch
  <2>2. CASE r.worker \in Accounts /\ SlashBond(id)
    BY <1>1, <1>2, <1>6, <1>7, <1>8, <2>2, LocksStep DEF IInv, TypeOK
  <2> QED  BY <2>1, <2>2
<1>12. PendingMatches'
  BY <1>1, <1>7, PendingClose DEF IInv, Live
<1>13. Solvent'
  <2>1. \A k \in RequestIds \ {id} : /\ requests'[k].fee = requests[k].fee
                                     /\ challenges'[k].bond = challenges[k].bond
    BY <1>5, <1>7
  <2>2. balance \in Nat /\ workerBond \in [Accounts -> Nat]
    BY DEF IInv, TypeOK
  <2>3. CASE /\ UNCHANGED <<requestBondLocked, workerBondLocked, workerBond>>
             /\ balance' = balance - (r.fee + challenges[id].bond - challenges'[id].bond)
    <3>1. balance' - balance >= (requests'[id].fee - r.fee)
                                + (challenges'[id].bond - challenges[id].bond)
                                + (workerBond'[r.requester] - workerBond[r.requester])
      BY <1>1, <1>5, <1>7, <2>2, <2>3
    <3> QED  BY <1>1, <1>6, <2>1, <2>3, <3>1, SolventStep DEF IInv
  <2>4. CASE /\ r.worker \in Accounts /\ SlashBond(id)
             /\ balance' = balance - (r.fee + challenges[id].bond - challenges'[id].bond + b)
    <3>1. workerBond' = [workerBond EXCEPT ![r.worker] = @ - b]
      BY <1>1, <2>2, <2>4 DEF SlashBond
    <3>2. balance' - balance >= (requests'[id].fee - r.fee)
                                + (challenges'[id].bond - challenges[id].bond)
                                + (workerBond'[r.worker] - workerBond[r.worker])
      BY <1>1, <1>5, <1>7, <2>2, <2>4, <3>1
    <3>3. \A a \in Accounts \ {r.worker} : workerBond'[a] = workerBond[a]
      BY <2>2, <3>1
    <3> QED  BY <1>6, <2>1, <2>4, <3>2, <3>3, SolventStep DEF IInv
  <2> QED  BY <2>3, <2>4
<1> QED  BY <1>6, <1>9, <1>10, <1>11, <1>12, <1>13 DEF IInv

(* The two shares of a fee are amounts, and add up to it. *)
LEMMA FeeShares ==
  ASSUME TypeOK, NEW fee \in Nat
  PROVE  /\ ProtocolFee(fee) \in Nat /\ WorkerShare(fee) \in Nat
         /\ ProtocolFee(fee) + WorkerShare(fee) = fee
<1> DEFINE b == settings.protocolFeeBps
           x == fee * b
<1>1. b \in 0 .. 10000
  BY DEF TypeOK, Settings, BpsBase
<1> HIDE DEF b
<1>2. x \in Nat /\ x <= fee * 10000
  BY <1>1
<1> HIDE DEF x
<1>3. x \div 10000 \in Nat /\ x \div 10000 <= fee
  BY <1>2
<1> QED  BY <1>3 DEF x, b, ProtocolFee, WorkerShare, BpsBase

LEMMA PayType ==
  ASSUME NEW purse \in [Accounts -> Nat], NEW a \in Accounts, NEW n \in Nat
  PROVE  Pay(purse, a, n) \in [Accounts -> Nat]
BY DEF Pay

(* The steps that end in _tryFinalize: one request moves to r, at most its   *)
(* challenge bond has been paid, which leaves money, and the request is      *)
(* finalized if it can be.                                                   *)
TryReady(id, r, open, money) ==
  /\ r \in Request
  /\ r.requester = requests[id].requester /\ r.worker = requests[id].worker
  /\ r.fee = requests[id].fee /\ r.finalizedAt = requests[id].finalizedAt
  /\ \/ r.status = requests[id].status
     \/ r.status = "Revealed" /\ requests[id].status \in {"Committed", "Disputed"}
  /\ challenges' \in [RequestIds -> Challenge]
  /\ \A k \in RequestIds \ {id} : challenges'[k] = challenges[k]
  /\ challenges'[id].challenger = challenges[id].challenger
  /\ open <=> OpenChallenge(id)'
  /\ open <=> r.status = "Disputed"
  /\ ~open => challenges'[id].bond = 0
  /\ money = balance - (challenges[id].bond - challenges'[id].bond)
  /\ money >= requests[id].fee
  /\ poi' \in [RequestIds -> PoI]
  /\ UNCHANGED <<now, nextRequestId, settings, workerBond, registryVars>>

(* What is still to be paid of the fee, due, is set apart. *)
LEMMA TriedStep ==
  ASSUME NEW id \in RequestIds, NEW D \in SUBSET {id}, BInv(D, 0),
         NEW r, NEW open, NEW p, NEW money, NEW due \in Nat,
         TryReady(id, r, open, money),
         \/ Finalizable(r, open, p) /\ Finalize(id, r) /\ balance' = money - r.fee + due
         \/ ~Finalizable(r, open, p) /\ Unfinalized(id, r) /\ balance' = money /\ due = 0,
         wallet' \in [Accounts -> Nat]
  PROVE  BInv({}, due)'
<1> DEFINE b == requestBondLocked[id]
           w == r.worker
           a == r.requester
<1>a. /\ r \in Request
      /\ r.requester = requests[id].requester /\ r.worker = requests[id].worker
      /\ r.fee = requests[id].fee /\ r.finalizedAt = requests[id].finalizedAt
      /\ \/ r.status = requests[id].status
         \/ r.status = "Revealed" /\ requests[id].status \in {"Committed", "Disputed"}
      /\ challenges' \in [RequestIds -> Challenge]
      /\ \A k \in RequestIds \ {id} : challenges'[k] = challenges[k]
      /\ challenges'[id].challenger = challenges[id].challenger
      /\ open <=> OpenChallenge(id)'
      /\ open <=> r.status = "Disputed"
      /\ ~open => challenges'[id].bond = 0
      /\ money = balance - (challenges[id].bond - challenges'[id].bond)
      /\ money >= requests[id].fee
      /\ poi' \in [RequestIds -> PoI]
      /\ UNCHANGED <<now, nextRequestId, settings, workerBond, registryVars>>
  BY DEF TryReady
<1>b. /\ RequestShape /\ LocksMatch /\ PendingMatches
      /\ \A k \in RequestIds \ {id} : DisputeMatch(k)
  BY DEF BInv, Apart
<1>1. /\ TypeOK /\ requests[id] \in Request /\ b \in Nat /\ r.fee \in Nat
      /\ balance \in Nat /\ challenges[id].bond \in Nat /\ challenges'[id].bond \in Nat
      /\ now \in Nat /\ now # 0 /\ Shape(id) /\ Solvent
      /\ requests[id].status \notin Live => requests[id].fee = 0
  <2>1. TypeOK /\ Solvent
    BY SolventIfCovers DEF BInv
  <2>2. Shape(id) /\ (requests[id].status \notin Live => requests[id].fee = 0)
    BY DEF BInv, RequestShape, Apart, Decided, DisputeMatch, Live
  <2> QED  BY <1>a, <2>1, <2>2 DEF TypeOK, Request, Challenge
<1>2. \A k \in RequestIds \ {id} : requests'[k] = requests[k]
  BY <1>a, <1>1 DEF Finalize, Unfinalized, TypeOK
<1>3. CASE Finalizable(r, open, p)
  <2> DEFINE done == [r EXCEPT !.status = "Finalized", !.finalizedAt = now, !.fee = 0]
  <2>1. /\ requests[id].status \in {"Committed", "Revealed", "Disputed"}
        /\ w \in Accounts /\ a \in Accounts /\ ~open
        /\ r.status = "Revealed"
    BY <1>a, <1>1, <1>3 DEF Finalizable, Shape
  <2>2. /\ requests' = [requests EXCEPT ![id] = done]
        /\ pendingByRequester' = LessPending(a)
        /\ requestBondLocked' = [requestBondLocked EXCEPT ![id] = 0]
        /\ workerBondLocked' = [workerBondLocked EXCEPT ![w] = @ - b]
        /\ balance' = money - r.fee + due
    BY <1>3, Zenon DEF Finalize
  <2>3. /\ done \in Request /\ done.status = "Finalized" /\ done.fee = 0
        /\ done.worker = w /\ done.requester = a /\ done.finalizedAt = now
    BY <1>a, <1>1 DEF Request, Ended
  <2>4. requests'[id] = done
    BY <1>a, <1>1, <2>2 DEF TypeOK
  <2> HIDE DEF done
  <2>5. /\ b <= workerBondLocked[w] /\ workerBondLocked[w] <= workerBond[w]
        /\ workerBondLocked[w] \in Nat /\ workerBond[w] \in Nat
    BY <1>a, <1>1, <1>b, <2>1, LockBound DEF TypeOK
  <2>7. balance' \in Nat
    BY <1>a, <1>1, <2>2
  <2>8. TypeOK'
    <3>2. pendingByRequester' \in [Accounts -> Nat]
      <4>1. pendingByRequester[a] >= 1
        BY <1>a, <1>1, <1>b, <2>1, PendingBound DEF Live
      <4> QED  BY <1>a, <1>1, <2>1, <2>2, <4>1 DEF TypeOK, LessPending
    <3>3. requestBondLocked' \in [RequestIds -> Nat] /\ workerBondLocked' \in [Accounts -> Nat]
      <4>1. requestBondLocked' \in [RequestIds -> Nat]
        BY <1>a, <1>1, <2>2 DEF TypeOK
      <4>2. workerBondLocked[w] - b \in Nat
        BY <1>a, <1>1, <2>5
      <4>3. workerBondLocked' \in [Accounts -> Nat]
        BY <1>a, <1>1, <2>1, <2>2, <4>2 DEF TypeOK
      <4> QED  BY <4>1, <4>3
    <3>4. requests' \in [RequestIds -> Request]
      BY <1>a, <1>1, <2>2, <2>3 DEF TypeOK
    <3> QED  BY <1>a, <1>1, <2>7, <3>2, <3>3, <3>4
             DEF TypeOK, registryVars, Registry!TypeOK
  <2>9. RequestShape'
    <3> SUFFICES ASSUME NEW k \in RequestIds PROVE Shape(k)'
      BY DEF RequestShape
    <3>1. CASE k = id
      BY <1>a, <1>1, <2>1, <2>3, <2>4, <3>1 DEF Shape
    <3>2. CASE k # id
      <4>1. Shape(k)
        BY <1>b DEF RequestShape
      <4> QED  BY <1>a, <1>1, <1>2, <2>2, <3>2, <4>1 DEF Shape, TypeOK
    <3> QED  BY <3>1, <3>2
  <2>10. Apart({})'
    <3> SUFFICES ASSUME NEW k \in RequestIds PROVE DisputeMatch(k)'
      BY DEF Apart
    <3>1. CASE k = id
      BY <1>a, <2>1, <2>3, <2>4, <3>1 DEF DisputeMatch
    <3>2. CASE k # id
      BY <1>a, <1>2, <1>b, <3>2 DEF DisputeMatch, OpenChallenge
    <3> QED  BY <3>1, <3>2
  <2>11. LocksMatch'
    BY <1>a, <1>1, <1>2, <1>b, <2>1, <2>2, <2>3, <2>4, <2>5, <2>8, LocksStep DEF TypeOK
  <2>12. PendingMatches'
    BY <1>a, <1>1, <1>2, <1>b, <2>1, <2>2, <2>3, <2>4, PendingClose DEF Live
  <2>13. Covers(due)'
    <3>1. \A c \in Accounts \ {w} : workerBond'[c] = workerBond[c]
      BY <1>a
    <3>2. Owed' = Owed + (requests'[id].fee - requests[id].fee)
                       + (challenges'[id].bond - challenges[id].bond)
                       + (workerBond'[w] - workerBond[w])
      BY <1>a, <1>1, <1>2, <2>1, <2>8, <3>1, OwedStep
    <3>3. workerBond'[w] = workerBond[w] /\ requests'[id].fee = 0
      BY <1>a, <2>3, <2>4
    <3>4. balance' = balance - (challenges[id].bond - challenges'[id].bond) - requests[id].fee + due
      BY <1>a, <2>2
    <3>5. balance' >= Owed' + due
      BY <1>a, <1>1, <2>5, <3>2, <3>3, <3>4, OwedNat DEF Solvent
    <3> QED  BY <3>5 DEF Covers
  <2> QED  BY <2>8, <2>9, <2>10, <2>11, <2>12, <2>13 DEF BInv
<1>4. CASE ~Finalizable(r, open, p)
  <2>1. /\ requests' = [requests EXCEPT ![id] = r]
        /\ balance' = money /\ due = 0
        /\ UNCHANGED <<pendingByRequester, requestBondLocked, workerBondLocked>>
    BY <1>4, Zenon DEF Unfinalized
  <2>2. requests'[id] = r
    BY <1>a, <1>1, <2>1 DEF TypeOK
  <2>3. TypeOK'
    <3>1. requests' \in [RequestIds -> Request]
      BY <1>a, <1>1, <2>1 DEF TypeOK
    <3>2. balance' \in Nat
      BY <1>a, <1>1, <2>1
    <3> QED  BY <1>a, <1>1, <2>1, <3>1, <3>2 DEF TypeOK, registryVars, Registry!TypeOK
  <2>4. RequestShape'
    <3> SUFFICES ASSUME NEW k \in RequestIds PROVE Shape(k)'
      BY DEF RequestShape
    <3>1. CASE k = id
      BY <1>a, <1>1, <2>1, <2>2, <3>1 DEF Shape, Request
    <3>2. CASE k # id
      <4>1. Shape(k)
        BY <1>b DEF RequestShape
      <4> QED  BY <1>a, <1>1, <1>2, <2>1, <3>2, <4>1 DEF Shape
    <3> QED  BY <3>1, <3>2
  <2>5. Apart({})'
    <3> SUFFICES ASSUME NEW k \in RequestIds PROVE DisputeMatch(k)'
      BY DEF Apart
    <3>1. CASE k = id
      BY <1>a, <1>1, <2>2, <3>1 DEF DisputeMatch, Live
    <3>2. CASE k # id
      BY <1>a, <1>2, <1>b, <3>2 DEF DisputeMatch, OpenChallenge
    <3> QED  BY <3>1, <3>2
  <2>6. LocksMatch'
    <3>1. \A k \in RequestIds : requests'[k].worker = requests[k].worker
      BY <1>a, <1>2, <2>2
    <3> QED  BY <1>a, <1>b, <2>1, <3>1, LocksSame DEF LocksMatch
  <2>7. PendingMatches'
    <3>1. \A k \in RequestIds : /\ requests'[k].requester = requests[k].requester
                                /\ requests'[k].status \in Live <=> requests[k].status \in Live
      BY <1>a, <1>2, <2>2 DEF Live
    <3> QED  BY <1>a, <1>b, <2>1, <3>1, PendingSame
  <2>8. Covers(due)'
    <3>1. PICK any \in Accounts : TRUE
      BY <1>1 DEF TypeOK, Settings
    <3>2. \A c \in Accounts \ {any} : workerBond'[c] = workerBond[c]
      BY <1>a
    <3>3. Owed' = Owed + (requests'[id].fee - requests[id].fee)
                       + (challenges'[id].bond - challenges[id].bond)
                       + (workerBond'[any] - workerBond[any])
      BY <1>a, <1>1, <1>2, <2>3, <3>1, <3>2, OwedStep
    <3>4. workerBond'[any] = workerBond[any] /\ workerBond[any] \in Nat
      BY <1>a, <1>1, <3>1 DEF TypeOK
    <3>5. balance' >= Owed' + due
      BY <1>a, <1>1, <2>1, <2>2, <3>3, <3>4, OwedNat DEF Solvent
    <3> QED  BY <3>5 DEF Covers
  <2> QED  BY <2>3, <2>4, <2>5, <2>6, <2>7, <2>8 DEF BInv
<1> QED  BY <1>3, <1>4
(* The atomic transaction pays both shares before it returns. *)
LEMMA TryFinalizeStep ==
  ASSUME IInv, NEW id \in RequestIds, NEW r, NEW open, NEW p,
         NEW money, NEW purse \in [Accounts -> Nat],
         TryReady(id, r, open, money), TryFinalize(id, r, open, p, money, purse)
  PROVE  IInv'
<1>1. /\ r \in Request /\ r.worker = requests[id].worker
      /\ r.finalizedAt = requests[id].finalizedAt
  BY DEF TryReady
<1>2. r.fee \in Nat /\ settings.treasury \in Accounts /\ TypeOK /\ Shape(id)
  BY <1>1 DEF IInv, TypeOK, Settings, Request, RequestShape
<1>3. /\ ProtocolFee(r.fee) \in Nat /\ WorkerShare(r.fee) \in Nat
      /\ ProtocolFee(r.fee) + WorkerShare(r.fee) = r.fee
  BY <1>2, FeeShares
<1>4. balance \in Nat /\ money \in Int
  <2>1. /\ challenges[id].bond \in Nat /\ challenges'[id].bond \in Nat /\ balance \in Nat
    BY DEF IInv, TypeOK, Challenge, TryReady
  <2> QED  BY <2>1 DEF TryReady
<1>5. CASE Finalizable(r, open, p)
  <2>1. /\ Finalize(id, r)
        /\ balance' = money - (ProtocolFee(r.fee) + WorkerShare(r.fee))
        /\ wallet' = Pay(Pay(purse, settings.treasury, ProtocolFee(r.fee)),
                         r.worker, WorkerShare(r.fee))
    BY <1>5, Zenon DEF TryFinalize
  <2>2. r.worker \in Accounts
    BY <1>1, <1>2, <1>5 DEF Finalizable, Shape, TryReady
  <2>3. wallet' \in [Accounts -> Nat]
    BY <1>2, <1>3, <2>1, <2>2, PayType
  <2>4. balance' = money - r.fee + 0
    BY <1>2, <1>3, <1>4, <2>1
  <2>5. BInv({}, 0)'
    BY <1>5, <2>1, <2>3, <2>4, AtRest, TriedStep
  <2> QED  BY <2>5, AtRest
<1>6. CASE ~Finalizable(r, open, p)
  <2>1. Unfinalized(id, r) /\ balance' = money /\ wallet' = purse
    BY <1>6, Zenon DEF TryFinalize
  <2>2. BInv({}, 0)'
    BY <1>6, <2>1, AtRest, TriedStep
  <2> QED  BY <2>2, AtRest
<1> QED  BY <1>5, <1>6
-----------------------------------------------------------------------------
(* One lemma per operation.                                                  *)

(* msg.value moves from a funded caller into the contract. *)
LEMMA PaidByType ==
  ASSUME TypeOK, NEW a \in Accounts, NEW value \in Nat, PaidBy(a, value)
  PROVE  /\ wallet' \in [Accounts -> Nat]
         /\ balance' \in Nat /\ balance' = balance + value
<1>1. wallet \in [Accounts -> Nat] /\ balance \in Nat
  BY DEF TypeOK
<1>2. wallet[a] - value \in Nat
  BY <1>1 DEF PaidBy
<1> QED  BY <1>1, <1>2 DEF PaidBy

LEMMA RequestInferenceV2Step ==
  ASSUME NEW D, NEW due \in Nat, BInv(D, due), NEW a \in Requesters, NEW value \in Values, RequestInferenceV2(a, value)
  PROVE  BInv(D, due)'
<1> DEFINE id == nextRequestId
<1>1. /\ a \in Accounts /\ value \in Nat /\ id \in RequestIds
      /\ TypeOK /\ Shape(id) /\ DisputeMatch(id) /\ id \notin D
  <2>1. a \in Accounts /\ value \in Nat /\ MaxRequests \in Nat
    BY ConstantsAssumption
  <2>2. id \in 1 .. MaxRequests + 1 /\ id <= MaxRequests
    BY DEF BInv, TypeOK, RequestInferenceV2
  <2>3. id \in RequestIds
    BY <2>1, <2>2 DEF RequestIds
  <2>4. Shape(id) /\ requests[id].status = "None"
    BY <2>1, <2>2, <2>3 DEF BInv, RequestShape, Shape
  <2>5. id \notin D /\ DisputeMatch(id)
    BY <2>3, <2>4 DEF BInv, Apart, Decided
  <2> QED  BY <2>1, <2>3, <2>4, <2>5 DEF BInv
<1>2. /\ wallet' \in [Accounts -> Nat] /\ balance' \in Nat /\ balance' = balance + value
  BY <1>1, PaidByType DEF RequestInferenceV2
<1>3. /\ nextRequestId' = nextRequestId + 1
      /\ pendingByRequester' = [pendingByRequester EXCEPT ![a] = @ + 1]
      /\ UNCHANGED <<now, challenges, poi, settings, workerBond, workerBondLocked,
                     requestBondLocked, registryVars>>
  BY DEF RequestInferenceV2
<1>4. PICK r \in Request : /\ requests' = [requests EXCEPT ![id] = r]
                           /\ r.requester = a /\ r.fee = value /\ r.status = "Requested"
                           /\ r.worker = NoAddr /\ r.finalizedAt = 0
  <2> DEFINE c == now + settings.commitTimeoutSecs
             d1 == c % TimeModulus
             d2 == (c + settings.revealTimeoutSecs) % TimeModulus
             d3 == (c + settings.revealTimeoutSecs + settings.finalizeTimeoutSecs)
                     % TimeModulus
             r == [NoRequest EXCEPT !.requester = a, !.fee = value, !.status = "Requested",
                     !.commitDeadline = d1, !.revealDeadline = d2, !.finalizeDeadline = d3]
  <2>1. requests' = [requests EXCEPT ![id] = r]
    BY DEF RequestInferenceV2
  <2>2. d1 \in Nat /\ d2 \in Nat /\ d3 \in Nat
    BY <1>1, ConstantsAssumption DEF TypeOK, Settings
  <2> HIDE DEF d1, d2, d3
  <2>3. /\ r \in Request /\ r.requester = a /\ r.fee = value /\ r.status = "Requested"
        /\ r.worker = NoAddr /\ r.finalizedAt = 0
    BY <1>1, <2>2 DEF NoRequest, Request, Live
  <2> HIDE DEF r
  <2> QED  BY <2>1, <2>3
<1>5. /\ requests'[id] = r /\ requests' \in [RequestIds -> Request]
      /\ \A k \in RequestIds \ {id} : requests'[k] = requests[k]
  BY <1>1, <1>4 DEF TypeOK
<1>6. /\ requests[id].status = "None" /\ requests[id].fee = 0
      /\ requestBondLocked[id] = 0 /\ challenges[id].challenger = NoAddr
      /\ challenges[id].bond = 0
  BY <1>1 DEF Shape, DisputeMatch, OpenChallenge, Live, TypeOK
<1>7. TypeOK'
  <2>1. nextRequestId' \in 1 .. MaxRequests + 1
    BY <1>1, <1>3, ConstantsAssumption DEF TypeOK, RequestIds
  <2>2. pendingByRequester' \in [Accounts -> Nat]
    BY <1>1, <1>3 DEF TypeOK
  <2> QED  BY <1>1, <1>2, <1>3, <1>5, <2>1, <2>2 DEF TypeOK, registryVars, Registry!TypeOK
<1>8. RequestShape'
  <2> SUFFICES ASSUME NEW k \in RequestIds PROVE Shape(k)'
    BY DEF RequestShape
  <2>1. CASE k = id
    BY <1>1, <1>3, <1>4, <1>5, <1>6, <2>1 DEF Shape, TypeOK
  <2>2. CASE k # id
    <3>1. Shape(k)
      BY DEF BInv, RequestShape
    <3>2. k >= nextRequestId' <=> k >= nextRequestId
      BY <1>1, <1>3, <2>2 DEF TypeOK, RequestIds
    <3> QED  BY <1>3, <1>5, <2>2, <3>1, <3>2 DEF Shape
  <2> QED  BY <2>1, <2>2
<1>9. Apart(D)'
  <2> SUFFICES ASSUME NEW k \in RequestIds PROVE IF k \in D THEN Decided(k)' ELSE DisputeMatch(k)'
    BY DEF Apart
  <2>1. CASE k = id
    BY <1>1, <1>3, <1>4, <1>5, <1>6, <2>1 DEF DisputeMatch, OpenChallenge, Live
  <2>2. CASE k # id
    <3>1. IF k \in D THEN Decided(k) ELSE DisputeMatch(k)
      BY DEF BInv, Apart
    <3> QED  BY <1>3, <1>5, <2>2, <3>1 DEF Decided, DisputeMatch, OpenChallenge
  <2> QED  BY <2>1, <2>2
<1>10. LocksMatch'
  <2> SUFFICES ASSUME NEW w \in Accounts
               PROVE  /\ workerBondLocked'[w] = Total(LocksOf(w)', RequestIds)
                      /\ workerBondLocked'[w] <= workerBond'[w]
    BY DEF LocksMatch
  <2>1. \A k \in RequestIds : LocksOf(w)'[k] = LocksOf(w)[k]
    BY <1>3, <1>5, <1>6 DEF LocksOf
  <2>2. Total(LocksOf(w)', RequestIds) = Total(LocksOf(w), RequestIds)
    BY <2>1, TotalSame
  <2> QED  BY <1>3, <2>2 DEF BInv, LocksMatch
<1>11. PendingMatches'
  BY <1>1, <1>3, <1>4, <1>5, <1>6, PendingOpen DEF BInv, Live
<1>12. Covers(due)'
  <2>1. workerBond[a] \in Nat /\ balance \in Nat
    BY <1>1 DEF TypeOK
  <2>2. balance' - balance >= (requests'[id].fee - requests[id].fee)
                              + (challenges'[id].bond - challenges[id].bond)
                              + (workerBond'[a] - workerBond[a])
    BY <1>1, <1>2, <1>3, <1>4, <1>5, <1>6, <2>1
  <2> QED  BY <1>1, <1>3, <1>5, <1>7, <2>2, CoverStep DEF BInv
<1> QED  BY <1>7, <1>8, <1>9, <1>10, <1>11, <1>12 DEF BInv

(* Bond moves between a worker and its deposit, the locked part untouched.   *)
LEMMA BondStep ==
  ASSUME NEW D, NEW due \in Nat, BInv(D, due), NEW w \in Accounts, NEW bond \in Nat,
         workerBondLocked[w] <= bond,
         workerBond' = [workerBond EXCEPT ![w] = bond],
         wallet' \in [Accounts -> Nat],
         balance' \in Nat, balance' - balance = bond - workerBond[w],
         UNCHANGED <<now, nextRequestId, requests, challenges, poi, settings,
                     pendingByRequester, workerBondLocked, requestBondLocked, registryVars>>
  PROVE  BInv(D, due)'
<1>1. TypeOK'
  BY DEF BInv, TypeOK, registryVars, Registry!TypeOK
<1>2. RequestShape'
  BY DEF BInv, RequestShape, Shape
<1>3. Apart(D)'
  BY DEF BInv, Apart, Decided, DisputeMatch, OpenChallenge
<1>4. LocksMatch'
  <2>1. \A a \in Accounts : workerBondLocked[a] <= workerBond'[a]
    BY DEF BInv, TypeOK, LocksMatch
  <2> QED  BY <2>1, LocksSame DEF BInv
<1>5. PendingMatches'
  BY PendingSame DEF BInv
<1>6. Covers(due)'
  <2> DEFINE owedElse == Total(Fees, RequestIds) + Total(ChallengeBonds, RequestIds)
  <2>1. \A a \in Accounts : workerBond[a] \in Nat /\ workerBond'[a] \in Nat
    BY <1>1 DEF BInv, TypeOK
  <2>6. \A a \in Accounts \ {w} : workerBond'[a] = workerBond[a]
    BY DEF BInv, TypeOK
  <2>7. workerBond'[w] = bond
    BY DEF BInv, TypeOK
  <2>2. Total(workerBond', Accounts) =
          Total(workerBond, Accounts) - workerBond[w] + workerBond'[w]
    BY <1>1, <2>6, BondTotal DEF BInv
  <2>3. Fees' = Fees /\ ChallengeBonds' = ChallengeBonds
    BY DEF Fees, ChallengeBonds
  <2>4. balance \in Nat /\ TypeOK /\ balance >= Owed + due
    BY DEF BInv, TypeOK, Covers
  <2>5. Owed' = Total(Fees, RequestIds) + Total(workerBond', Accounts)
                                        + Total(ChallengeBonds, RequestIds)
    BY <2>3 DEF Owed
  <2>8. Covers(due)' <=> balance' >= Owed' + due
    BY DEF Covers
  <2> QED  BY <2>1, <2>2, <2>4, <2>5, <2>7, <2>8, OwedType DEF Owed
<1> QED  BY <1>1, <1>2, <1>3, <1>4, <1>5, <1>6 DEF BInv

LEMMA DepositWorkerBondStep ==
  ASSUME NEW D, NEW due \in Nat, BInv(D, due), NEW w \in Workers, NEW value \in Values, DepositWorkerBond(w, value)
  PROVE  BInv(D, due)'
<1>1. w \in Accounts /\ value \in Nat /\ TypeOK
  BY ConstantsAssumption DEF BInv
<1>2. wallet' \in [Accounts -> Nat] /\ balance' \in Nat /\ balance' = balance + value
  BY <1>1, PaidByType DEF DepositWorkerBond
<1>3. /\ workerBond[w] \in Nat /\ workerBondLocked[w] \in Nat /\ balance \in Nat
      /\ workerBondLocked[w] <= workerBond[w]
  BY <1>1 DEF BInv, TypeOK, LocksMatch
<1>4. /\ workerBond[w] + value \in Nat /\ workerBondLocked[w] <= workerBond[w] + value
      /\ balance' - balance = (workerBond[w] + value) - workerBond[w]
  BY <1>1, <1>2, <1>3
<1>5. workerBond' = [workerBond EXCEPT ![w] = workerBond[w] + value]
  BY DEF DepositWorkerBond
<1> QED  BY <1>1, <1>2, <1>4, <1>5, BondStep DEF DepositWorkerBond

LEMMA WithdrawWorkerBondStep ==
  ASSUME IInv, NEW w \in Workers, NEW amount \in Values, WithdrawWorkerBond(w, amount)
  PROVE  IInv'
<1>1. w \in Accounts /\ amount \in Nat /\ TypeOK
  BY ConstantsAssumption DEF IInv
<1>2. /\ workerBond[w] \in Nat /\ workerBondLocked[w] \in Nat /\ balance \in Nat
      /\ workerBondLocked[w] <= workerBond[w]
  BY <1>1 DEF IInv, TypeOK, LocksMatch
<1>3. workerBond[w] - workerBondLocked[w] >= amount
  BY DEF WithdrawWorkerBond, FreeBond
<1>4. workerBond[w] - amount \in Nat /\ workerBondLocked[w] <= workerBond[w] - amount
  BY <1>1, <1>2, <1>3
<1>5. balance' = balance - amount /\ balance' \in Nat
  <2>1. workerBond[w] <= Total(workerBond, Accounts)
    BY <1>1, ConstantsAssumption, TotalBound DEF TypeOK
  <2> QED  BY <1>1, <1>2, <1>4, <2>1, OwedType DEF IInv, Solvent, Owed, WithdrawWorkerBond
<1>6. wallet' \in [Accounts -> Nat]
  BY <1>1 DEF TypeOK, WithdrawWorkerBond, Pay
<1>7. workerBond' = [workerBond EXCEPT ![w] = workerBond[w] - amount]
  BY DEF WithdrawWorkerBond
<1>8. balance' - balance = (workerBond[w] - amount) - workerBond[w]
  BY <1>1, <1>2, <1>5
<1>9. BInv({}, 0)'
  BY <1>1, <1>4, <1>5, <1>6, <1>7, <1>8, AtRest, BondStep DEF WithdrawWorkerBond
<1> QED  BY <1>9, AtRest

LEMMA CommitInferenceStep ==
  ASSUME NEW D, NEW due \in Nat, BInv(D, due), NEW w \in Workers, NEW id \in RequestIds,
         NEW h \in Hashes \cup {Unopenable}, CommitInference(w, id, h)
  PROVE  BInv(D, due)'
<1> DEFINE need == settings.minWorkerBondWei
           r == requests[id]
<1>1. /\ w \in Accounts /\ need \in Nat /\ TypeOK /\ Shape(id) /\ DisputeMatch(id) /\ id \notin D
      /\ r \in Request
  <2>1. settings \in Settings /\ requests \in [RequestIds -> Request]
    BY DEF BInv, TypeOK
  <2>2. id \notin D /\ DisputeMatch(id)
    BY DEF BInv, Apart, Decided, CommitInference
  <2> QED  BY <2>1, <2>2, ConstantsAssumption DEF BInv, Settings, RequestShape
<1>2. /\ r.status = "Requested" /\ r.worker = NoAddr /\ requestBondLocked[id] = 0
      /\ r.finalizedAt = 0 /\ r.requester \in Accounts
  BY <1>1 DEF CommitInference, Shape
<1>3. /\ workerBond[w] \in Nat /\ workerBondLocked[w] \in Nat
      /\ workerBondLocked[w] <= workerBond[w]
  BY <1>1 DEF BInv, TypeOK, LocksMatch
<1>4. /\ workerBondLocked' = [workerBondLocked EXCEPT ![w] = @ + need]
      /\ UNCHANGED <<now, nextRequestId, challenges, poi, settings,
                     pendingByRequester, workerBond, balance, wallet, registryVars>>
  BY DEF CommitInference
<1>5. workerBondLocked'[w] = workerBondLocked[w] + need /\ workerBondLocked'[w] <= workerBond[w]
  <2>1. workerBondLocked'[w] = workerBondLocked[w] + need
    BY <1>1, <1>4 DEF TypeOK
  <2>2. need = 0 \/ workerBond[w] - workerBondLocked[w] >= need
    BY DEF CommitInference, FreeBond
  <2> QED  BY <1>1, <1>3, <2>1, <2>2
<1>6. /\ requestBondLocked'[id] = need
      /\ requestBondLocked' \in [RequestIds -> Nat]
      /\ \A k \in RequestIds \ {id} : requestBondLocked'[k] = requestBondLocked[k]
  BY <1>1, <1>2 DEF TypeOK, CommitInference
<1>7. /\ requests' = [requests EXCEPT ![id] =
            [r EXCEPT !.status = "Committed", !.worker = w, !.commitment = h]]
      /\ [r EXCEPT !.status = "Committed", !.worker = w, !.commitment = h] \in Request
  BY <1>1 DEF CommitInference, Request, Live, TypeOK
<1>8. /\ requests' \in [RequestIds -> Request]
      /\ requests'[id].status = "Committed" /\ requests'[id].worker = w
      /\ requests'[id].requester = r.requester /\ requests'[id].fee = r.fee
      /\ requests'[id].finalizedAt = 0
      /\ \A k \in RequestIds \ {id} : requests'[k] = requests[k]
  BY <1>1, <1>2, <1>7 DEF TypeOK, Request
<1>9. TypeOK'
  <2>1. workerBondLocked' \in [Accounts -> Nat]
    BY <1>1, <1>3, <1>4 DEF TypeOK
  <2> QED  BY <1>1, <1>4, <1>6, <1>8, <2>1 DEF TypeOK, registryVars, Registry!TypeOK
<1>10. RequestShape'
  <2> SUFFICES ASSUME NEW k \in RequestIds PROVE Shape(k)'
    BY DEF RequestShape
  <2>1. CASE k = id
    BY <1>1, <1>2, <1>4, <1>8, <2>1 DEF Shape
  <2>2. CASE k # id
    <3>1. Shape(k)
      BY DEF BInv, RequestShape
    <3> QED  BY <1>4, <1>6, <1>8, <2>2, <3>1 DEF Shape
  <2> QED  BY <2>1, <2>2
<1>11. Apart(D)'
  <2> SUFFICES ASSUME NEW k \in RequestIds PROVE IF k \in D THEN Decided(k)' ELSE DisputeMatch(k)'
    BY DEF Apart
  <2>1. CASE k = id
    BY <1>1, <1>2, <1>4, <1>8, <2>1 DEF DisputeMatch, OpenChallenge, Live
  <2>2. CASE k # id
    <3>1. IF k \in D THEN Decided(k) ELSE DisputeMatch(k)
      BY DEF BInv, Apart
    <3> QED  BY <1>4, <1>8, <2>2, <3>1 DEF Decided, DisputeMatch, OpenChallenge
  <2> QED  BY <2>1, <2>2
<1>12. LocksMatch'
  <2>1. workerBondLocked'[w] =
          workerBondLocked[w] - requestBondLocked[id] + requestBondLocked'[id]
    BY <1>1, <1>2, <1>3, <1>5, <1>6
  <2>2. \A a \in Accounts \ {w} : /\ workerBondLocked'[a] = workerBondLocked[a]
                                  /\ workerBond'[a] = workerBond[a]
    BY <1>1, <1>4 DEF TypeOK
  <2>3. workerBondLocked'[w] <= workerBond'[w]
    BY <1>4, <1>5
  <2>4. \A k \in RequestIds \ {id} : /\ requests'[k].worker = requests[k].worker
                                     /\ requestBondLocked'[k] = requestBondLocked[k]
    BY <1>6, <1>8
  <2> QED  BY <1>1, <1>2, <1>8, <1>9, <2>1, <2>2, <2>3, <2>4, LocksStep DEF BInv
<1>13. PendingMatches'
  <2>1. \A k \in RequestIds : /\ requests'[k].requester = requests[k].requester
                              /\ requests'[k].status \in Live <=> requests[k].status \in Live
    BY <1>2, <1>8 DEF Live
  <2> QED  BY <1>4, <2>1, PendingSame DEF BInv
<1>14. Covers(due)'
  <2>1. \A k \in RequestIds : /\ requests'[k].fee = requests[k].fee
                              /\ challenges'[k].bond = challenges[k].bond
    BY <1>4, <1>8
  <2> QED  BY <1>1, <1>4, <1>9, <2>1, CoverSame DEF BInv, TypeOK
<1> QED  BY <1>9, <1>10, <1>11, <1>12, <1>13, <1>14 DEF BInv

LEMMA OpenDisputeStep ==
  ASSUME NEW D, NEW due \in Nat, BInv(D, due), NEW a \in Challengers, NEW id \in RequestIds, NEW value \in Values,
         OpenDispute(a, id, value)
  PROVE  BInv(D, due)'
<1> DEFINE r == requests[id]
           c == [challenger |-> a, bond |-> value, resolved |-> FALSE, upheld |-> FALSE]
<1>1. /\ a \in Accounts /\ a # NoAddr /\ value \in Nat /\ TypeOK
      /\ Shape(id) /\ DisputeMatch(id) /\ id \notin D /\ r \in Request
  <2>1. requests \in [RequestIds -> Request]
    BY DEF BInv, TypeOK
  <2>2. id \notin D /\ DisputeMatch(id)
    BY DEF BInv, Apart, Decided, OpenDispute
  <2> QED  BY <2>1, <2>2, ConstantsAssumption DEF BInv, RequestShape
<1>2. /\ r.status = "Revealed" /\ r.finalizedAt = 0 /\ r.worker \in Accounts
      /\ r.requester \in Accounts /\ challenges[id].challenger = NoAddr
      /\ challenges[id].bond = 0
  BY <1>1 DEF OpenDispute, Shape, DisputeMatch, OpenChallenge
<1>3. wallet' \in [Accounts -> Nat] /\ balance' \in Nat /\ balance' = balance + value
  BY <1>1, PaidByType DEF OpenDispute
<1>4. UNCHANGED <<now, nextRequestId, poi, settings, pendingByRequester, workerBond,
                  workerBondLocked, requestBondLocked, registryVars>>
  BY DEF OpenDispute
<1>5. /\ challenges' \in [RequestIds -> Challenge]
      /\ challenges'[id] = c
      /\ \A k \in RequestIds \ {id} : challenges'[k] = challenges[k]
  BY <1>1 DEF TypeOK, OpenDispute, Challenge
<1>6. /\ requests' = [requests EXCEPT ![id] = [r EXCEPT !.status = "Disputed"]]
      /\ [r EXCEPT !.status = "Disputed"] \in Request
  BY <1>1 DEF OpenDispute, Request, Live, TypeOK
<1>7. /\ requests' \in [RequestIds -> Request]
      /\ requests'[id].status = "Disputed" /\ requests'[id].worker = r.worker
      /\ requests'[id].requester = r.requester /\ requests'[id].fee = r.fee
      /\ requests'[id].finalizedAt = 0
      /\ \A k \in RequestIds \ {id} : requests'[k] = requests[k]
  BY <1>1, <1>2, <1>6 DEF TypeOK, Request
<1>8. TypeOK'
  BY <1>1, <1>3, <1>4, <1>5, <1>7 DEF TypeOK, registryVars, Registry!TypeOK
<1>9. RequestShape'
  <2> SUFFICES ASSUME NEW k \in RequestIds PROVE Shape(k)'
    BY DEF RequestShape
  <2>1. CASE k = id
    BY <1>1, <1>2, <1>4, <1>7, <2>1 DEF Shape
  <2>2. CASE k # id
    <3>1. Shape(k)
      BY DEF BInv, RequestShape
    <3> QED  BY <1>4, <1>5, <1>7, <2>2, <3>1 DEF Shape
  <2> QED  BY <2>1, <2>2
<1>10. Apart(D)'
  <2> SUFFICES ASSUME NEW k \in RequestIds PROVE IF k \in D THEN Decided(k)' ELSE DisputeMatch(k)'
    BY DEF Apart
  <2>1. CASE k = id
    BY <1>1, <1>5, <1>7, <2>1 DEF DisputeMatch, OpenChallenge, Live
  <2>2. CASE k # id
    <3>1. IF k \in D THEN Decided(k) ELSE DisputeMatch(k)
      BY DEF BInv, Apart
    <3> QED  BY <1>5, <1>7, <2>2, <3>1 DEF Decided, DisputeMatch, OpenChallenge
  <2> QED  BY <2>1, <2>2
<1>11. LocksMatch'
  <2>1. \A k \in RequestIds : /\ requests'[k].worker = requests[k].worker
                              /\ requestBondLocked'[k] = requestBondLocked[k]
    BY <1>4, <1>7
  <2> QED  BY <1>4, <2>1, LocksSame DEF BInv, LocksMatch
<1>12. PendingMatches'
  <2>1. \A k \in RequestIds : /\ requests'[k].requester = requests[k].requester
                              /\ requests'[k].status \in Live <=> requests[k].status \in Live
    BY <1>2, <1>7 DEF Live
  <2> QED  BY <1>4, <2>1, PendingSame DEF BInv
<1>13. Covers(due)'
  <2>1. \A k \in RequestIds \ {id} : /\ requests'[k].fee = requests[k].fee
                                     /\ challenges'[k].bond = challenges[k].bond
    BY <1>5, <1>7
  <2>2. workerBond[a] \in Nat /\ balance \in Nat /\ r.fee \in Nat
    BY <1>1 DEF TypeOK, Request
  <2>3. balance' - balance >= (requests'[id].fee - requests[id].fee)
                              + (challenges'[id].bond - challenges[id].bond)
                              + (workerBond'[a] - workerBond[a])
    BY <1>1, <1>2, <1>3, <1>4, <1>5, <1>7, <2>2
  <2> QED  BY <1>1, <1>4, <1>8, <2>1, <2>3, CoverStep DEF BInv
<1> QED  BY <1>8, <1>9, <1>10, <1>11, <1>12, <1>13 DEF BInv

(* What the ends of a request have in common: who is paid is an account.     *)
LEMMA EndFacts ==
  ASSUME IInv, NEW id \in RequestIds, requests[id].status \in Live
  PROVE  /\ requests[id].requester \in Accounts
         /\ requests[id].fee \in Nat /\ challenges[id].bond \in Nat
         /\ requestBondLocked[id] \in Nat /\ balance \in Nat
         /\ wallet \in [Accounts -> Nat]
         /\ requests[id].status \in {"Committed", "Revealed", "Disputed"} =>
              requests[id].worker \in Accounts
         /\ requests[id].status = "Disputed" <=> OpenChallenge(id)
BY DEF IInv, TypeOK, Request, Challenge, RequestShape, Shape, DisputeMatches,
       DisputeMatch, Live

LEMMA CancelExpiredStep ==
  ASSUME IInv, NEW a \in Requesters, NEW id \in RequestIds, CancelExpired(a, id)
  PROVE  IInv'
<1>1. requests[id].status = "Requested" /\ requests[id].requester = a
  BY DEF CancelExpired
<1>2. requests[id].status \in Live
  BY <1>1 DEF Live
<1>3. ~OpenChallenge(id)
  BY <1>1, <1>2, EndFacts
<1>4. wallet' \in [Accounts -> Nat]
  BY <1>1, <1>2, EndFacts, PayType DEF CancelExpired
<1>5. /\ requests' = [requests EXCEPT ![id] = EndAs(@, "Cancelled")]
      /\ pendingByRequester' = LessPending(requests[id].requester)
      /\ balance' = balance - requests[id].fee
      /\ UNCHANGED <<now, nextRequestId, challenges, poi, settings, workerBond,
                     workerBondLocked, requestBondLocked, registryVars>>
  BY <1>1 DEF CancelExpired
<1>6. balance' = balance - (requests[id].fee + challenges[id].bond - challenges'[id].bond)
  BY <1>2, <1>5, EndFacts
<1> QED  BY <1>2, <1>3, <1>4, <1>5, <1>6, EndStep

LEMMA ReclaimStep ==
  ASSUME IInv, NEW a \in Requesters, NEW id \in RequestIds,
         ReclaimAfterFinalizeTimeout(a, id)
  PROVE  IInv'
<1>1. /\ requests[id].status \in Reclaimable /\ requests[id].requester = a
      /\ ~OpenChallenge(id)
  BY DEF ReclaimAfterFinalizeTimeout
<1>2. requests[id].status \in Live
  BY <1>1 DEF Live, Reclaimable
<1>3. wallet' \in [Accounts -> Nat]
  BY <1>1, <1>2, EndFacts, PayType DEF ReclaimAfterFinalizeTimeout
<1>4. /\ requests' = [requests EXCEPT ![id] = EndAs(@, "Cancelled")]
      /\ pendingByRequester' = LessPending(requests[id].requester)
      /\ balance' = balance - requests[id].fee
      /\ UNCHANGED <<now, nextRequestId, challenges, poi, settings, workerBond,
                     workerBondLocked, requestBondLocked, registryVars>>
  BY <1>1 DEF ReclaimAfterFinalizeTimeout
<1>5. balance' = balance - (requests[id].fee + challenges[id].bond - challenges'[id].bond)
  BY <1>2, <1>4, EndFacts
<1> QED  BY <1>1, <1>2, <1>3, <1>4, <1>5, EndStep

LEMMA TimeoutRevealStep ==
  ASSUME IInv, NEW id \in RequestIds, TimeoutReveal(id)
  PROVE  IInv'
<1>1. requests[id].status = "Committed"
  BY DEF TimeoutReveal
<1>2. requests[id].status \in Live
  BY <1>1 DEF Live
<1>3. ~OpenChallenge(id) /\ requests[id].worker \in Accounts
  BY <1>1, <1>2, EndFacts
<1>4. /\ requests' = [requests EXCEPT ![id] = EndAs(@, "TimedOut")]
      /\ pendingByRequester' = LessPending(requests[id].requester)
      /\ SlashBond(id)
      /\ balance' = balance - (requests[id].fee + requestBondLocked[id])
      /\ wallet' = Pay(wallet, requests[id].requester,
                       requests[id].fee + requestBondLocked[id])
      /\ UNCHANGED <<now, nextRequestId, challenges, poi, settings, registryVars>>
  BY DEF TimeoutReveal
<1>5. wallet' \in [Accounts -> Nat]
  <2>1. requests[id].fee + requestBondLocked[id] \in Nat
    BY <1>2, EndFacts
  <2> QED  BY <1>2, <1>4, <2>1, EndFacts, PayType
<1>6. balance' = balance - (requests[id].fee + challenges[id].bond - challenges'[id].bond
                            + requestBondLocked[id])
  BY <1>2, <1>4, EndFacts
<1> QED  BY <1>1, <1>2, <1>3, <1>4, <1>5, <1>6, EndStep

LEMMA RejectWorkerStep ==
  ASSUME IInv, NEW a \in Accounts, NEW id \in RequestIds, RejectWorker(a, id)
  PROVE  IInv'
<1> DEFINE r == requests[id]
           c == challenges[id]
           b == requestBondLocked[id]
<1>1. OpenChallenge(id)
  BY DEF RejectWorker
<1>2. r.status = "Disputed" /\ r.status \in Live
  BY <1>1 DEF IInv, DisputeMatches, DisputeMatch, Live
<1>3. r.worker \in Accounts
  BY <1>2, EndFacts
<1>4. /\ requests' = [requests EXCEPT ![id] = EndAs(@, "Cancelled")]
      /\ pendingByRequester' = LessPending(r.requester)
      /\ SlashBond(id)
      /\ challenges' = [challenges EXCEPT ![id] = [c EXCEPT !.resolved = TRUE, !.bond = 0]]
      /\ balance' = balance - (c.bond + r.fee + b)
      /\ wallet' = Pay(Pay(wallet, c.challenger, c.bond), r.requester, r.fee + b)
      /\ UNCHANGED <<now, nextRequestId, poi, settings, registryVars>>
  BY DEF RejectWorker
<1>5. c \in Challenge /\ c.challenger \in Accounts
  BY <1>1 DEF IInv, TypeOK, Challenge, OpenChallenge
<1>6. r.fee \in Nat /\ b \in Nat /\ c.bond \in Nat /\ balance \in Nat /\ r.requester \in Accounts
  BY <1>2, EndFacts
<1>7. wallet' \in [Accounts -> Nat]
  <2>1. Pay(wallet, c.challenger, c.bond) \in [Accounts -> Nat]
    BY <1>2, <1>5, <1>6, EndFacts, PayType
  <2>2. r.fee + b \in Nat
    BY <1>6
  <2> QED  BY <1>4, <1>6, <2>1, <2>2, PayType
<1>8. challenges'[id].bond = 0
  <2>1. challenges'[id] = [c EXCEPT !.resolved = TRUE, !.bond = 0]
    BY <1>4 DEF IInv, TypeOK
  <2> HIDE DEF c
  <2> QED  BY <1>5, <2>1 DEF Challenge
<1>9. balance' = balance - (r.fee + c.bond - challenges'[id].bond + b)
  BY <1>4, <1>6, <1>8
<1> QED  BY <1>2, <1>3, <1>4, <1>7, <1>9, EndStep

LEMMA RevealReady ==
  ASSUME IInv, NEW id \in RequestIds, NEW h \in Hashes,
         requests[id].status = "Committed", ~OpenChallenge(id),
         UNCHANGED <<now, nextRequestId, challenges, poi, settings, workerBond, registryVars>>
  PROVE  TryReady(id, [requests[id] EXCEPT !.status = "Revealed", !.responseHash = h],
                  FALSE, balance)
<1> DEFINE r == requests[id]
           s == [r EXCEPT !.status = "Revealed", !.responseHash = h]
<1>2. r \in Request
  BY DEF IInv, TypeOK
<1>4. /\ s \in Request /\ s.status = "Revealed" /\ s.requester = r.requester
      /\ s.worker = r.worker /\ s.fee = r.fee /\ s.finalizedAt = r.finalizedAt
  <2> HIDE DEF r
  <2> QED  BY <1>2 DEF Request, Live
<1> HIDE DEF s
<1>5. balance >= r.fee /\ r.requester \in Accounts
  <2>1. r.requester \in Accounts /\ r.fee \in Nat /\ challenges[id].bond \in Nat /\ balance \in Nat
    BY EndFacts DEF Live
  <2>2. r.fee + challenges[id].bond + workerBond[r.requester] <= balance
    BY <2>1, OwedBound DEF IInv
  <2>3. workerBond[r.requester] \in Nat
    BY <2>1 DEF IInv, TypeOK
  <2> QED  BY <2>1, <2>2, <2>3
<1>6. /\ challenges' \in [RequestIds -> Challenge] /\ poi' \in [RequestIds -> PoI]
      /\ balance = balance - (challenges[id].bond - challenges'[id].bond)
      /\ challenges'[id].bond = 0 /\ ~OpenChallenge(id)'
  BY DEF IInv, TypeOK, Challenge, DisputeMatches, DisputeMatch, OpenChallenge
<1>7. TryReady(id, s, FALSE, balance)
  BY <1>4, <1>5, <1>6 DEF TryReady
<1> QED  BY <1>7 DEF s

LEMMA RevealInferenceStep ==
  ASSUME IInv, NEW w \in Workers, NEW id \in RequestIds, NEW h \in Hashes,
         RevealInference(w, id, h)
  PROVE  IInv'
<1> DEFINE s == [requests[id] EXCEPT !.status = "Revealed", !.responseHash = h]
<1>1. TryFinalize(id, s, FALSE, poi[id], balance, wallet)
  BY DEF RevealInference
<1>2. TryReady(id, s, FALSE, balance)
  BY RevealReady DEF RevealInference
<1>3. wallet \in [Accounts -> Nat]
  BY DEF IInv, TypeOK
<1> QED  BY <1>1, <1>2, <1>3, TryFinalizeStep

LEMMA UpholdWorkerStep ==
  ASSUME IInv, NEW a \in Accounts, NEW id \in RequestIds, UpholdWorker(a, id)
  PROVE  IInv'
<1> DEFINE r == requests[id]
           c == challenges[id]
           d == [c EXCEPT !.resolved = TRUE, !.upheld = TRUE, !.bond = 0]
           s == [r EXCEPT !.status = "Revealed"]
<1>1. r.status = "Disputed"
  BY DEF UpholdWorker, IInv, DisputeMatches, DisputeMatch
<1>2. r \in Request /\ c \in Challenge
  BY DEF IInv, TypeOK
<1>3. /\ TryFinalize(id, s, FALSE, poi[id], balance - c.bond, Pay(wallet, r.worker, c.bond))
      /\ challenges' = [challenges EXCEPT ![id] = d]
      /\ UNCHANGED <<now, nextRequestId, poi, settings, workerBond, registryVars>>
  BY DEF UpholdWorker
<1>4. /\ r.requester \in Accounts /\ r.worker \in Accounts /\ r.fee \in Nat
      /\ c.bond \in Nat /\ balance \in Nat
  BY <1>1, EndFacts DEF Live
<1>5. /\ s \in Request /\ s.status = "Revealed" /\ s.requester = r.requester
      /\ s.worker = r.worker /\ s.fee = r.fee /\ s.finalizedAt = r.finalizedAt
  <2> HIDE DEF r
  <2> QED  BY <1>2 DEF Request, Live
<1>6. /\ d \in Challenge /\ d.challenger = c.challenger /\ d.resolved /\ d.bond = 0
  <2> HIDE DEF c
  <2> QED  BY <1>2 DEF Challenge
<1> HIDE DEF s, d
<1>7. /\ challenges' \in [RequestIds -> Challenge]
      /\ challenges'[id] = d
      /\ \A k \in RequestIds \ {id} : challenges'[k] = challenges[k]
  BY <1>3, <1>6 DEF IInv, TypeOK
<1>8. ~OpenChallenge(id)'
  BY <1>6, <1>7 DEF OpenChallenge
<1>9. balance - c.bond >= r.fee
  <2>1. r.fee + c.bond + workerBond[r.requester] <= balance
    BY <1>4, OwedBound DEF IInv
  <2>2. workerBond[r.requester] \in Nat
    BY <1>4 DEF IInv, TypeOK
  <2> QED  BY <1>4, <2>1, <2>2
<1>10. /\ poi' \in [RequestIds -> PoI]
       /\ balance - c.bond = balance - (c.bond - challenges'[id].bond)
  BY <1>3, <1>4, <1>6, <1>7 DEF IInv, TypeOK
<1>11. Pay(wallet, r.worker, c.bond) \in [Accounts -> Nat]
  BY <1>4, PayType DEF IInv, TypeOK
<1>12. TryReady(id, s, FALSE, balance - c.bond)
  BY <1>1, <1>3, <1>5, <1>6, <1>7, <1>8, <1>9, <1>10 DEF TryReady
<1> QED  BY <1>3, <1>11, <1>12, TryFinalizeStep

LEMMA AttestedType ==
  ASSUME TypeOK, NEW v \in Validators, NEW t \in RequestIds, NEW h \in Hashes,
         NEW x \in Transcripts, NEW n \in Slots,
         poi' = [poi EXCEPT ![t] = Attested(poi[t], v, h, x, n)]
  PROVE  poi' \in [RequestIds -> PoI]
<1>1. poi[t] \in PoI /\ poi \in [RequestIds -> PoI]
  BY DEF TypeOK
<1>2. n \in Nat
  BY ConstantsAssumption
<1>3. Attested(poi[t], v, h, x, n) \in PoI
  BY <1>1, <1>2 DEF PoI, Attested
<1> QED  BY <1>1, <1>3

LEMMA AttestationReady ==
  ASSUME IInv, NEW t \in RequestIds, poi' \in [RequestIds -> PoI],
         UNCHANGED <<now, nextRequestId, challenges, settings, workerBond, registryVars>>
  PROVE  TryReady(t, requests[t], OpenChallenge(t), balance)
<1> DEFINE r == requests[t]
<1>1. r \in Request /\ challenges[t] \in Challenge
  BY DEF IInv, TypeOK
<1>2. OpenChallenge(t) <=> OpenChallenge(t)'
  BY DEF OpenChallenge
<1>3. /\ OpenChallenge(t) <=> r.status = "Disputed"
      /\ ~OpenChallenge(t) => challenges'[t].bond = 0
  BY DEF IInv, DisputeMatches, DisputeMatch
<1>4. /\ challenges[t].bond \in Nat /\ r.fee \in Nat /\ balance \in Nat
      /\ challenges' \in [RequestIds -> Challenge]
  BY <1>1 DEF IInv, TypeOK, Request, Challenge
<1>5. balance >= r.fee
  <2>1. PICK any \in Accounts : TRUE
    BY DEF IInv, TypeOK, Settings
  <2>2. r.fee + challenges[t].bond + workerBond[any] <= balance
    BY OwedBound DEF IInv
  <2>3. workerBond[any] \in Nat
    BY DEF IInv, TypeOK
  <2> QED  BY <1>4, <2>2, <2>3
<1>6. balance = balance - (challenges[t].bond - challenges'[t].bond)
  BY <1>4
<1> QED  BY <1>1, <1>2, <1>3, <1>4, <1>5, <1>6 DEF TryReady

LEMMA SubmitPoIAttestationStep ==
  ASSUME IInv, NEW v \in Validators, NEW t \in RequestIds, NEW h \in Hashes,
         NEW x \in Transcripts, NEW n \in Slots,
         SubmitPoIAttestation(v, t, h, x, n)
  PROVE  IInv'
<1> DEFINE q == Attested(poi[t], v, h, x, n)
           r == requests[t]
<1>1. poi' = [poi EXCEPT ![t] = q]
  BY DEF SubmitPoIAttestation
<1>2. UNCHANGED <<now, nextRequestId, challenges, settings, workerBond, registryVars>>
  BY DEF SubmitPoIAttestation
<1>3. poi' \in [RequestIds -> PoI]
  BY <1>1, AttestedType DEF IInv
<1>4. CASE TryFinalize(t, r, OpenChallenge(t), q, balance, wallet)
  <2>1. wallet \in [Accounts -> Nat]
    BY DEF IInv, TypeOK
  <2> QED  BY <1>2, <1>3, <1>4, <2>1, AttestationReady, TryFinalizeStep
<1>5. CASE UNCHANGED <<requests, pendingByRequester, requestBondLocked,
                       workerBondLocked, balance, wallet>>
  <2>1. TypeOK'
    BY <1>2, <1>3, <1>5 DEF IInv, TypeOK, registryVars, Registry!TypeOK
  <2>2. BInv({}, 0)'
    BY <1>2, <1>5, <2>1, AtRest, QuietStep DEF moneyVars
  <2> QED  BY <2>2, AtRest
<1>6. \/ TryFinalize(t, r, OpenChallenge(t), q, balance, wallet)
      \/ UNCHANGED <<requests, pendingByRequester, requestBondLocked,
                     workerBondLocked, balance, wallet>>
  BY Zenon DEF SubmitPoIAttestation
<1> QED  BY <1>4, <1>5, <1>6

LEMMA ReceiveEtherStep ==
  ASSUME NEW D, NEW due \in Nat, BInv(D, due), NEW a \in Accounts, NEW value \in Values, ReceiveEther(a, value)
  PROVE  BInv(D, due)'
<1>1. value \in Nat /\ balance \in Nat /\ TypeOK
  BY ConstantsAssumption DEF BInv, TypeOK
<1>2. wallet' \in [Accounts -> Nat] /\ balance' \in Nat /\ balance' >= balance
  BY <1>1, PaidByType DEF ReceiveEther
<1>3. UNCHANGED <<now, nextRequestId, requests, challenges, poi, settings,
                  pendingByRequester, workerBond, workerBondLocked,
                  requestBondLocked, registryVars>>
  BY DEF ReceiveEther
<1>4. TypeOK'
  BY <1>2, <1>3 DEF BInv, TypeOK, registryVars, Registry!TypeOK
<1>5. RequestShape' /\ Apart(D)'
  BY <1>3 DEF BInv, RequestShape, Shape, Apart, Decided, DisputeMatch, OpenChallenge
<1>6. LocksMatch'
  BY <1>3, LocksSame DEF BInv, LocksMatch
<1>7. PendingMatches'
  BY <1>3, PendingSame DEF BInv
<1>8. Covers(due)'
  BY <1>2, <1>3, <1>4, CoverSame DEF BInv
<1> QED  BY <1>4, <1>5, <1>6, <1>7, <1>8 DEF BInv

(* The owner's setters keep the settings in their ranges and touch nothing   *)
(* else, the registry's own transactions and the clock touch no money.       *)
LEMMA TuneStep ==
  ASSUME NEW D, NEW due \in Nat, BInv(D, due), NEW s \in Settings, Tune(s)
  PROVE  BInv(D, due)'
<1>1. /\ settings' \in Settings
      /\ UNCHANGED <<now, nextRequestId, requests, challenges, poi, moneyVars, registryVars>>
  BY DEF Tune
<1>2. TypeOK'
  BY <1>1 DEF BInv, TypeOK, moneyVars, registryVars, Registry!TypeOK
<1> QED  BY <1>1, <1>2, QuietStep

LEMMA OwnerTunesStep ==
  ASSUME NEW D, NEW due \in Nat, BInv(D, due), OwnerTunes
  PROVE  BInv(D, due)'
<1> USE TunableAssumption
<1>1. settings \in Settings
  BY DEF BInv, TypeOK
<1>2. CASE \E a \in Tunable.treasury : SetTreasury(a)
  <2>1. PICK a \in Accounts : Tune([settings EXCEPT !.treasury = a])
    BY <1>2 DEF SetTreasury
  <2>2. [settings EXCEPT !.treasury = a] \in Settings
    BY <1>1 DEF Settings
  <2> QED  BY <2>1, <2>2, TuneStep
<1>3. CASE \E a \in Tunable.resolver : SetResolver(a)
  <2>1. PICK a \in Accounts : Tune([settings EXCEPT !.resolver = a])
    BY <1>3 DEF SetResolver
  <2>2. [settings EXCEPT !.resolver = a] \in Settings
    BY <1>1 DEF Settings
  <2> QED  BY <2>1, <2>2, TuneStep
<1>4. CASE \E f \in Tunable.minRequestFeeWei, p \in Tunable.maxPendingPerRequester :
             SetSpamControls(f, p)
  <2>1. PICK f \in Nat, p \in Nat :
          Tune([settings EXCEPT !.minRequestFeeWei = f, !.maxPendingPerRequester = p])
    BY <1>4 DEF SetSpamControls
  <2>2. [settings EXCEPT !.minRequestFeeWei = f, !.maxPendingPerRequester = p] \in Settings
    BY <1>1 DEF Settings
  <2> QED  BY <2>1, <2>2, TuneStep
<1>5. CASE \E b \in Tunable.minWorkerBondWei : SetWorkerBondParams(b)
  <2>1. PICK b \in Nat : Tune([settings EXCEPT !.minWorkerBondWei = b])
    BY <1>5 DEF SetWorkerBondParams
  <2>2. [settings EXCEPT !.minWorkerBondWei = b] \in Settings
    BY <1>1 DEF Settings
  <2> QED  BY <2>1, <2>2, TuneStep
<1>6. CASE \E b \in Tunable.protocolFeeBps : SetProtocolFee(b)
  <2>1. PICK b \in Nat : SetProtocolFee(b)
    BY <1>6
  <2>2. b <= BpsBase
    BY <2>1 DEF SetProtocolFee
  <2>3. b \in 0 .. BpsBase
    BY <2>2 DEF BpsBase
  <2>4. [settings EXCEPT !.protocolFeeBps = b] \in Settings
    BY <1>1, <2>3 DEF Settings
  <2> QED  BY <2>1, <2>4, TuneStep DEF SetProtocolFee
<1>7. CASE \E t \in Tunable.timeouts : SetTimeouts(t)
  <2>1. PICK t \in Nat \X Nat \X Nat : SetTimeouts(t)
    BY <1>7
  <2>4. Tune([settings EXCEPT !.commitTimeoutSecs = t[1], !.revealTimeoutSecs = t[2],
                              !.finalizeTimeoutSecs = t[3]])
    BY <2>1 DEF SetTimeouts
  <2>2. t[1] \in Nat /\ t[2] \in Nat /\ t[3] \in Nat
    OBVIOUS
  <2>3. [settings EXCEPT !.commitTimeoutSecs = t[1], !.revealTimeoutSecs = t[2],
                         !.finalizeTimeoutSecs = t[3]] \in Settings
    BY <1>1, <2>2 DEF Settings
  <2> QED  BY <2>3, <2>4, TuneStep
<1>8. CASE \E q \in Tunable.poiQuorum : SetPoIQuorum(q)
  <2>1. PICK q \in Nat \ {0} : Tune([settings EXCEPT !.poiQuorum = q])
    BY <1>8 DEF SetPoIQuorum
  <2>2. [settings EXCEPT !.poiQuorum = q] \in Settings
    BY <1>1 DEF Settings
  <2> QED  BY <2>1, <2>2, TuneStep
<1>9. CASE \E r \in Tunable.registry : SetValidatorRegistry(r)
  <2>1. PICK r \in {"deployed", "replacement"} : Tune([settings EXCEPT !.registry = r])
    BY <1>9 DEF SetValidatorRegistry
  <2>2. [settings EXCEPT !.registry = r] \in Settings
    BY <1>1 DEF Settings
  <2> QED  BY <2>1, <2>2, TuneStep
<1>10. CASE \E b \in Tunable.minChallengeBondWei : SetChallengeBond(b)
  <2>1. PICK b \in Nat : Tune([settings EXCEPT !.minChallengeBondWei = b])
    BY <1>10 DEF SetChallengeBond
  <2>2. [settings EXCEPT !.minChallengeBondWei = b] \in Settings
    BY <1>1 DEF Settings
  <2> QED  BY <2>1, <2>2, TuneStep
<1> QED
  BY <1>2, <1>3, <1>4, <1>5, <1>6, <1>7, <1>8, <1>9, <1>10 DEF OwnerTunes

LEMMA TickStep ==
  ASSUME NEW D, NEW due \in Nat, BInv(D, due), Tick
  PROVE  BInv(D, due)'
<1>1. now' \in 1 .. MaxTime
  BY ConstantsAssumption DEF Tick, BInv, TypeOK
<1>2. TypeOK'
  BY <1>1 DEF Tick, BInv, TypeOK, moneyVars, registryVars, Registry!TypeOK
<1> QED  BY <1>2, QuietStep DEF Tick

LEMMA RegistryTypeStep == ASSUME Registry!TypeOK, Registry!Next PROVE Registry!TypeOK'
<1> USE DEF Registry!TypeOK, Registry!Validator
<1>1. PICK v \in Validators :
        \/ \E s \in Stakes : Registry!RegisterValidator(v, s) \/ Registry!UpdateStake(v, s)
        \/ Registry!ActivateValidator(v)
        \/ Registry!DeactivateValidator(v)
  BY DEF Registry!Next
<1>2. ASSUME NEW s \in Stakes, Registry!RegisterValidator(v, s)
      PROVE  Registry!TypeOK'
  <2>1. s \in Nat
    BY ConstantsAssumption
  <2>2. [registered |-> TRUE, stake |-> s, isActive |-> TRUE] \in Registry!Validator
    BY <2>1
  <2> QED  BY <1>2, <2>1, <2>2 DEF Registry!RegisterValidator
<1>3. ASSUME NEW s \in Stakes, Registry!UpdateStake(v, s)
      PROVE  Registry!TypeOK'
  <2>1. s \in Nat
    BY ConstantsAssumption
  <2> QED  BY <1>3, <2>1 DEF Registry!UpdateStake
<1>4. CASE Registry!ActivateValidator(v)
  BY <1>4 DEF Registry!ActivateValidator
<1>5. CASE Registry!DeactivateValidator(v)
  BY <1>5 DEF Registry!DeactivateValidator
<1> QED  BY <1>1, <1>2, <1>3, <1>4, <1>5

LEMMA RegistryStepStep ==
  ASSUME NEW D, NEW due \in Nat, BInv(D, due), RegistryStep
  PROVE  BInv(D, due)'
<1>1. Registry!TypeOK'
  BY RegistryTypeStep DEF RegistryStep, BInv, TypeOK
<1>2. TypeOK'
  BY <1>1 DEF RegistryStep, BInv, TypeOK, moneyVars
<1> QED  BY <1>2, QuietStep DEF RegistryStep
-----------------------------------------------------------------------------
(* The inductive invariant, and what it establishes. *)

LEMMA NextIInv == IInv /\ [Next]_vars => IInv'
<1> SUFFICES ASSUME IInv, [Next]_vars PROVE IInv'
  OBVIOUS
<1>0. BInv({}, 0)
  BY AtRest
<1>1. CASE RequesterStep
  <2>1. PICK a \in Requesters :
          \/ \E v \in Values : RequestInferenceV2(a, v)
          \/ \E id \in RequestIds :
               CancelExpired(a, id) \/ ReclaimAfterFinalizeTimeout(a, id)
    BY <1>1 DEF RequesterStep
  <2> QED  BY <1>0, <2>1, AtRest, RequestInferenceV2Step, CancelExpiredStep, ReclaimStep
<1>2. CASE WorkerStep
  <2>1. PICK w \in Workers :
          \/ \E v \in Values : DepositWorkerBond(w, v) \/ WithdrawWorkerBond(w, v)
          \/ \E id \in RequestIds, h \in Hashes \cup {Unopenable} :
               CommitInference(w, id, h)
          \/ \E id \in RequestIds, h \in Hashes : RevealInference(w, id, h)
    BY <1>2 DEF WorkerStep
  <2> QED  BY <1>0, <2>1, AtRest, DepositWorkerBondStep, WithdrawWorkerBondStep, CommitInferenceStep,
              RevealInferenceStep
<1>3. CASE ChallengerStep
  BY <1>0, <1>3, AtRest, OpenDisputeStep DEF ChallengerStep
<1>4. CASE ResolverStep
  BY <1>4, UpholdWorkerStep, RejectWorkerStep DEF ResolverStep
<1>5. CASE AttestationStep
  BY <1>5, SubmitPoIAttestationStep DEF AttestationStep
<1>6. CASE OwnerTunes
  BY <1>0, <1>6, AtRest, OwnerTunesStep
<1>7. CASE RegistryStep
  BY <1>0, <1>7, AtRest, RegistryStepStep
<1>8. CASE Tick
  BY <1>0, <1>8, AtRest, TickStep
<1>9. CASE \E id \in RequestIds : TimeoutReveal(id)
  BY <1>9, TimeoutRevealStep
<1>10. CASE \E a \in Accounts, v \in Values : ReceiveEther(a, v)
  BY <1>0, <1>10, AtRest, ReceiveEtherStep
<1>11. CASE UNCHANGED vars
  <2>1. TypeOK'
    BY <1>11 DEF vars, IInv, TypeOK, moneyVars, registryVars, Registry!TypeOK
  <2> QED  BY <1>0, <1>11, <2>1, AtRest, QuietStep DEF vars
<1> QED
  BY <1>1, <1>2, <1>3, <1>4, <1>5, <1>6, <1>7, <1>8, <1>9, <1>10, <1>11 DEF Next

(* The conjunction of the invariants is inductive. *)
THEOREM Inductive == Spec => []IInv
  BY InitIInv, NextIInv, PTL DEF Spec

(* Every variable keeps its type: in particular no checked subtraction of    *)
(* the contract underflows, so no settlement reverts for that reason.        *)
THEOREM TypeCorrect == Spec => []TypeOK
<1>1. IInv => TypeOK
  BY DEF IInv
<1> QED  BY <1>1, Inductive, PTL

(* The contract holds what it owes, whatever the order of the settlements.   *)
THEOREM AlwaysSolvent == Spec => []Solvent
<1>1. IInv => Solvent
  BY DEF IInv
<1> QED  BY <1>1, Inductive, PTL

(* A worker's locked bond is what its requests have locked, and is deposited.*)
THEOREM LocksAlwaysMatch == Spec => []LocksMatch
<1>1. IInv => LocksMatch
  BY DEF IInv
<1> QED  BY <1>1, Inductive, PTL

(* The pending counter of a requester is the number of its live requests.    *)
THEOREM PendingAlwaysMatches == Spec => []PendingMatches
<1>1. IInv => PendingMatches
  BY DEF IInv
<1> QED  BY <1>1, Inductive, PTL

(* A request is disputed exactly while its challenge is open.                *)
THEOREM DisputesAlwaysMatch == Spec => []DisputeMatches
<1>1. IInv => DisputeMatches
  BY DEF IInv
<1> QED  BY <1>1, Inductive, PTL

(* The fields of a request agree with its status.                            *)
THEOREM ShapeAlwaysHolds == Spec => []RequestShape
<1>1. IInv => RequestShape
  BY DEF IInv
<1> QED  BY <1>1, Inductive, PTL
=============================================================================
