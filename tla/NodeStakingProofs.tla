-------------------------- MODULE NodeStakingProofs --------------------------
(***************************************************************************)
(* For every set of accounts and nodes, and all amounts, minimums, periods *)
(* and settings: unbonding is honoured, the contract holds exactly what    *)
(* its balances add up to, and it implements Custody.                      *)
(*                                                                         *)
(* UnbondingHonoured is not inductive: that a withdrawal leaves what a     *)
(* node is relied on for needs that the node is still registered here,     *)
(* that its exit does not end before the reliance does, and that the       *)
(* reliance does not exceed the minimum in force (Reliance).               *)
(***************************************************************************)
EXTENDS NodeStaking, TallyTheorems, TLAPS

Reliance(n) ==
  now < Relied(n).until =>
    /\ nodeOnboarding = "this" /\ Registered(n)
    /\ nodes[n].exitEpoch # 0 => Relied(n).until <= nodes[n].exitEpoch
    /\ Relied(n).amount <= minStake[nodes[n].type]
    /\ Relied(n).amount <= balances[n]

AllRelied == \A n \in Accounts : Reliance(n)

Inv == TypeOK /\ NothingStranded /\ AllRelied

LEMMA LesserType ==
  ASSUME NEW i \in Nat, NEW j \in Nat
  PROVE  Lesser(i, j) \in Nat /\ Lesser(i, j) <= i /\ Lesser(i, j) <= j
BY DEF Lesser

LEMMA NodeType ==
  ASSUME TypeOK, NEW n \in Accounts
  PROVE  /\ nodes[n] \in Node /\ nodes[n].exitEpoch \in Nat
         /\ nodes[n].type \in Types \cup {"None"}
         /\ Registered(n) => minStake[nodes[n].type] \in Nat
         /\ balances[n] \in Nat
BY DEF TypeOK, Node, Registered

(* What is relied on is a time within one unbonding period and an amount. *)
LEMMA ReliedType ==
  ASSUME TypeOK, NEW n \in Accounts
  PROVE  /\ Relied(n) = [until |-> Relied(n).until, amount |-> Relied(n).amount]
         /\ Relied(n).until \in Nat /\ Relied(n).amount \in Nat
         /\ Relied(n).until <= now + unbondingPeriod
<1>0. now \in Nat /\ unbondingPeriod \in Nat /\ now + unbondingPeriod \in Nat
  BY DEF TypeOK
<1>1. promise[n].until \in Nat /\ promise[n].amount \in Nat  BY DEF TypeOK
<1>2. CASE nodeOnboarding # "this"
  BY <1>0, <1>2 DEF Relied, NoPromise
<1>3. CASE nodeOnboarding = "this" /\ IsActive(n)
  <2>1. minStake[nodes[n].type] \in Nat  BY <1>3, NodeType DEF IsActive
  <2> QED  BY <1>0, <1>3, <2>1 DEF Relied
<1>4. CASE nodeOnboarding = "this" /\ ~IsActive(n)
  <2> DEFINE u == Lesser(promise[n].until, now + unbondingPeriod)
             a == IF Registered(n) THEN Lesser(promise[n].amount, minStake[nodes[n].type])
                  ELSE promise[n].amount
  <2>1. Relied(n) = [until |-> u, amount |-> a]  BY <1>4 DEF Relied
  <2>2. u \in Nat /\ u <= now + unbondingPeriod  BY <1>0, <1>1, LesserType
  <2>3. a \in Nat
    <3>1. CASE Registered(n)  BY <1>1, <3>1, NodeType, LesserType
    <3>2. CASE ~Registered(n)  BY <1>1, <3>2
    <3> QED  BY <3>1, <3>2
  <2> HIDE DEF u, a
  <2> QED  BY <2>1, <2>2, <2>3
<1> QED  BY <1>2, <1>3, <1>4

(* A node that is relied on cannot leave yet. *)
LEMMA NotYet ==
  ASSUME TypeOK, NEW n \in Accounts, Reliance(n), now < Relied(n).until
  PROVE  ~IsSafeToWithdraw(n)
<1>1. now \in Nat /\ Relied(n).until \in Nat  BY ReliedType DEF TypeOK
<1>2. nodes[n].exitEpoch \in Nat  BY NodeType
<1> QED  BY <1>1, <1>2 DEF Reliance, IsSafeToWithdraw

(* What a step has to leave to a node that is relied on, if the contract     *)
(* still asks this registry afterwards.                                      *)
LeavesReliance(n) ==
  now < Relied(n).until /\ nodeOnboarding' = "this" =>
    /\ nodes'[n].type = nodes[n].type
    /\ nodes'[n].exitEpoch # 0 => Relied(n).until <= nodes'[n].exitEpoch
    /\ promise'[n].amount <= balances'[n]

LEMMA RelianceStep ==
  ASSUME TypeOK, TypeOK', NEW n \in Accounts, Reliance(n), LeavesReliance(n),
         now <= now', promise'[n].until = Relied(n).until
  PROVE  Reliance(n)'
<1> SUFFICES ASSUME now' < Relied(n)'.until
             PROVE  /\ nodeOnboarding' = "this" /\ Registered(n)'
                    /\ nodes'[n].exitEpoch # 0 => Relied(n)'.until <= nodes'[n].exitEpoch
                    /\ Relied(n)'.amount <= minStake'[nodes'[n].type]
                    /\ Relied(n)'.amount <= balances'[n]
  BY DEF Reliance
<1>0. now \in Nat /\ now' \in Nat /\ unbondingPeriod' \in Nat /\ Relied(n).until \in Nat
  BY ReliedType DEF TypeOK
<1>1. nodeOnboarding' = "this"
  BY <1>0 DEF Relied, NoPromise
<1>2. CASE IsActive(n)'
  <2>1. Relied(n)' = [until |-> now' + unbondingPeriod', amount |-> minStake'[nodes'[n].type]]
    BY <1>1, <1>2 DEF Relied
  <2>2. Registered(n)' /\ nodes'[n].exitEpoch = 0 /\ minStake'[nodes'[n].type] <= balances'[n]
    <3>1. balances'[n] >= minStake'[nodes'[n].type] /\ Registered(n)' /\ nodes'[n].exitEpoch = 0
      BY <1>2 DEF IsActive
    <3>2. balances'[n] \in Nat /\ minStake'[nodes'[n].type] \in Nat
      BY <3>1 DEF TypeOK, Registered
    <3> QED  BY <3>1, <3>2
  <2>3. minStake'[nodes'[n].type] \in Nat  BY <2>2 DEF TypeOK, Registered
  <2> QED  BY <1>1, <2>1, <2>2, <2>3
<1>3. CASE ~IsActive(n)'
  <2> DEFINE u == Lesser(promise'[n].until, now' + unbondingPeriod')
             a == IF Registered(n)' THEN Lesser(promise'[n].amount, minStake'[nodes'[n].type])
                  ELSE promise'[n].amount
  <2>1. Relied(n)' = [until |-> u, amount |-> a]  BY <1>1, <1>3 DEF Relied
  <2>2. u \in Nat /\ u <= Relied(n).until
    <3>1. promise'[n].until \in Nat /\ now' + unbondingPeriod' \in Nat
      <4>1. now' + unbondingPeriod' \in Nat
        <5>1. now' \in Nat /\ unbondingPeriod' \in Nat  BY <1>0
        <5>2. \A i, j \in Nat : i + j \in Nat  OBVIOUS
        <5> QED  BY <5>1, <5>2, Zenon
      <4>2. promise'[n].until \in Nat  BY <1>0
      <4> QED  BY <4>1, <4>2
    <3>2. u \in Nat /\ u <= promise'[n].until  BY <3>1, LesserType
    <3> QED  BY <3>2
  <2>3. now < Relied(n).until
    <3> HIDE DEF u, a
    <3> QED  BY <1>0, <2>1, <2>2
  <2>4. Registered(n)  BY <2>3 DEF Reliance
  <2>5. Registered(n)'  BY <1>1, <2>3, <2>4 DEF LeavesReliance, Registered
  <2>6. promise'[n].amount \in Nat /\ minStake'[nodes'[n].type] \in Nat /\ balances'[n] \in Nat
        /\ nodes'[n].exitEpoch \in Nat
    BY <2>5 DEF TypeOK, Registered, Node
  <2>7. a <= promise'[n].amount /\ a <= minStake'[nodes'[n].type] /\ a \in Nat
    BY <2>5, <2>6, LesserType
  <2>8. promise'[n].amount <= balances'[n]
        /\ (nodes'[n].exitEpoch # 0 => Relied(n).until <= nodes'[n].exitEpoch)
    BY <1>1, <2>3 DEF LeavesReliance
  <2> HIDE DEF u, a
  <2> QED  BY <1>0, <1>1, <2>1, <2>2, <2>5, <2>6, <2>7, <2>8
<1> QED  BY <1>2, <1>3

(* Watch keeps the record typed and hands it on unchanged. *)
LEMMA WatchType ==
  ASSUME TypeOK, Watch
  PROVE  /\ promise' \in [Accounts -> [until : Nat, amount : Nat]]
         /\ \A n \in Accounts : promise'[n] = Relied(n)
<1>1. \A n \in Accounts : Relied(n) \in [until : Nat, amount : Nat]
  <2> SUFFICES ASSUME NEW n \in Accounts PROVE Relied(n) \in [until : Nat, amount : Nat]
    OBVIOUS
  <2> DEFINE u == Relied(n).until  a == Relied(n).amount
  <2>1. Relied(n) = [until |-> u, amount |-> a] /\ u \in Nat /\ a \in Nat  BY ReliedType
  <2> HIDE DEF u, a
  <2> QED  BY <2>1
<1> QED  BY <1>1 DEF Watch

(* A step that moves no money and leaves every reliance keeps the invariant. *)
LEMMA QuietStep ==
  ASSUME Inv, TypeOK', Watch, UNCHANGED <<balances, pot>>, now <= now',
         \A n \in Accounts : now < Relied(n).until /\ nodeOnboarding' = "this" =>
           /\ nodes'[n].type = nodes[n].type
           /\ nodes'[n].exitEpoch # 0 => Relied(n).until <= nodes'[n].exitEpoch
  PROVE  Inv'
<1>1. \A n \in Accounts : promise'[n] = Relied(n)  BY WatchType DEF Inv
<1>2. \A n \in Accounts : LeavesReliance(n)
  BY <1>1 DEF Inv, AllRelied, Reliance, LeavesReliance
<1>3. AllRelied'
  <2> SUFFICES ASSUME NEW n \in Accounts PROVE Reliance(n)'  BY DEF AllRelied
  <2>1. Reliance(n) /\ LeavesReliance(n) /\ promise'[n].until = Relied(n).until
    BY <1>1, <1>2 DEF Inv, AllRelied
  <2> QED  BY <2>1, RelianceStep DEF Inv
<1>4. NothingStranded'  BY DEF Inv, NothingStranded
<1> QED  BY <1>3, <1>4 DEF Inv

(* One node's entry changes. *)
LEMMA UpdateStep ==
  ASSUME Inv, NEW n \in Accounts, NEW node \in Node, Update(n, node),
         Watch, UNCHANGED <<balances, pot, nodeOnboarding>>,
         now < Relied(n).until =>
           /\ node.type = nodes[n].type
           /\ node.exitEpoch # 0 => Relied(n).until <= node.exitEpoch
  PROVE  Inv'
<1>1. nodes' = [nodes EXCEPT ![n] = node] /\ UNCHANGED <<settings, now>>  BY DEF Update
<1>2. TypeOK'
  <2>1. nodes' \in [Accounts -> Node]  BY <1>1 DEF Inv, TypeOK
  <2>2. promise' \in [Accounts -> [until : Nat, amount : Nat]]  BY WatchType DEF Inv
  <2> QED  BY <1>1, <2>1, <2>2 DEF Inv, TypeOK, settings
<1>3. now <= now'  BY <1>1 DEF Inv, TypeOK
<1>4. ASSUME NEW m \in Accounts, now < Relied(m).until
      PROVE  /\ nodes'[m].type = nodes[m].type
             /\ nodes'[m].exitEpoch # 0 => Relied(m).until <= nodes'[m].exitEpoch
  <2>1. CASE m = n
    <3>1. nodes'[m] = node  BY <1>1, <2>1 DEF Inv, TypeOK
    <3> QED  BY <1>4, <2>1, <3>1
  <2>2. CASE m # n
    <3>1. nodes'[m] = nodes[m]  BY <1>1, <2>2 DEF Inv, TypeOK
    <3> QED  BY <1>4, <3>1 DEF Inv, AllRelied, Reliance
  <2> QED  BY <2>1, <2>2
<1> QED  BY <1>2, <1>3, <1>4, QuietStep

(* The transactions of NodeOnboarding that are about one node. *)
LEMMA NodeStep ==
  ASSUME Inv, NEW n \in Nodes, Watch, UNCHANGED <<balances, pot, nodeOnboarding>>,
         \/ RegisterValidator(n) \/ RegisterWorker(n) \/ VerifyAttestation(n)
         \/ \E b \in BOOLEAN :
              SetAttestationStatus(n, b) \/ VerifyWorker(n, b) \/ SetWorkerModelsReady(n, b)
         \/ UpdateWorkerModels(n) \/ Heartbeat(n) \/ InitiateExit(n) \/ FinalizeExit(n)
  PROVE  Inv'
<1>0. n \in Accounts  BY OnboardingAssumption
<1>1. nodes[n] \in Node /\ now \in Nat /\ unbondingPeriod \in Nat /\ hasVerifier \in BOOLEAN
  BY <1>0 DEF Inv, TypeOK
<1>2. Reliance(n) /\ TypeOK  BY <1>0 DEF Inv, AllRelied
<1>3. ASSUME NEW node \in Node, Update(n, node),
             node.type = nodes[n].type, node.exitEpoch = nodes[n].exitEpoch
      PROVE  Inv'
  <2>1. now < Relied(n).until =>
          /\ node.type = nodes[n].type
          /\ node.exitEpoch # 0 => Relied(n).until <= node.exitEpoch
    BY <1>2, <1>3 DEF Reliance
  <2> QED  BY <1>0, <1>3, <2>1, UpdateStep
<1>4. CASE RegisterValidator(n) \/ RegisterWorker(n)
  <2>1. PICK type \in Types : Register(n, type)
    BY <1>4 DEF RegisterValidator, RegisterWorker, Types
  <2> DEFINE node == [Unregistered EXCEPT !.type = type, !.attested = hasVerifier, !.lastHeartbeat = now]
  <2>2. node \in Node  BY <1>1 DEF Unregistered, Node, Types
  <2>3. Update(n, node)  BY <2>1 DEF Register
  <2>4. ~(now < Relied(n).until)
    BY <1>2, <2>1 DEF Reliance, Register, Is, Registered, Types
  <2> HIDE DEF node
  <2> QED  BY <1>0, <2>2, <2>3, <2>4, UpdateStep
<1>5. CASE VerifyAttestation(n)
  BY <1>1, <1>3, <1>5 DEF VerifyAttestation, Node
<1>6. ASSUME NEW b \in BOOLEAN,
             SetAttestationStatus(n, b) \/ VerifyWorker(n, b) \/ SetWorkerModelsReady(n, b)
      PROVE  Inv'
  BY <1>1, <1>3, <1>6 DEF SetAttestationStatus, VerifyWorker, SetWorkerModelsReady, Node
<1>7. CASE UpdateWorkerModels(n) \/ Heartbeat(n)
  BY <1>1, <1>3, <1>7 DEF UpdateWorkerModels, Heartbeat, Node
<1>8. CASE InitiateExit(n)
  <2> DEFINE node == [nodes[n] EXCEPT !.exitEpoch = now + unbondingPeriod]
  <2>1. node \in Node /\ node.type = nodes[n].type /\ node.exitEpoch = now + unbondingPeriod
    BY <1>1 DEF Node
  <2>2. Update(n, node)  BY <1>8 DEF InitiateExit
  <2>3. Relied(n).until <= now + unbondingPeriod  BY <1>0, <1>2, ReliedType
  <2> HIDE DEF node
  <2> QED  BY <1>0, <2>1, <2>2, <2>3, UpdateStep
<1>9. CASE FinalizeExit(n)
  <2>1. Unregistered \in Node  BY DEF Unregistered, Node
  <2>2. ~(now < Relied(n).until)  BY <1>0, <1>2, <1>9, NotYet DEF FinalizeExit
  <2>3. Update(n, Unregistered)  BY <1>9 DEF FinalizeExit
  <2> QED  BY <1>0, <2>1, <2>2, <2>3, UpdateStep
<1> QED  BY <1>4, <1>5, <1>6, <1>7, <1>8, <1>9

(* The settings, the registry that is asked, and the clock. *)
LEMMA SettingStep ==
  ASSUME Inv, Watch, UNCHANGED <<balances, pot>>,
         \/ SetRequirements /\ UNCHANGED nodeOnboarding
         \/ SetHeartbeatTimeout /\ UNCHANGED nodeOnboarding
         \/ SetAttestationVerifier /\ UNCHANGED nodeOnboarding
         \/ Tick /\ UNCHANGED nodeOnboarding
         \/ SetNodeOnboarding
  PROVE  Inv'
<1> USE OnboardingAssumption
<1>0. nodes' = nodes
  BY DEF SetRequirements, SetHeartbeatTimeout, SetAttestationVerifier, Tick, SetNodeOnboarding
<1>1. promise' \in [Accounts -> [until : Nat, amount : Nat]]  BY WatchType DEF Inv
<1>2. TypeOK' /\ now <= now'
  <2>1. CASE SetRequirements /\ UNCHANGED nodeOnboarding
    <3>1. minStake' \in [Types -> Nat]
      <4>1. minStake' \in [Types -> Minimums] /\ Minimums \subseteq Nat
        BY <2>1 DEF SetRequirements
      <4> QED  BY <4>1
    <3>2. unbondingPeriod' \in Nat /\ UNCHANGED <<heartbeatTimeout, hasVerifier, now>>
      BY <2>1 DEF SetRequirements
    <3>3. now \in Nat  BY DEF Inv, TypeOK
    <3> QED  BY <1>0, <1>1, <2>1, <3>1, <3>2, <3>3 DEF Inv, TypeOK
  <2>2. CASE SetHeartbeatTimeout /\ UNCHANGED nodeOnboarding
    BY <1>0, <1>1, <2>2 DEF Inv, TypeOK, SetHeartbeatTimeout
  <2>3. CASE SetAttestationVerifier /\ UNCHANGED nodeOnboarding
    BY <1>0, <1>1, <2>3 DEF Inv, TypeOK, SetAttestationVerifier
  <2>4. CASE Tick /\ UNCHANGED nodeOnboarding
    BY <1>0, <1>1, <2>4 DEF Inv, TypeOK, Tick, settings
  <2>5. CASE SetNodeOnboarding
    BY <1>0, <1>1, <2>5 DEF Inv, TypeOK, SetNodeOnboarding, settings
  <2> QED  BY <2>1, <2>2, <2>3, <2>4, <2>5
<1>3. \A n \in Accounts : now < Relied(n).until =>
        (nodes'[n].exitEpoch # 0 => Relied(n).until <= nodes'[n].exitEpoch)
  BY <1>0 DEF Inv, AllRelied, Reliance
<1> QED  BY <1>0, <1>2, <1>3, QuietStep

(* One balance changes: so does the total, by the difference. *)
LEMMA TotalExcept ==
  ASSUME NEW S, IsFiniteSet(S), NEW f \in [S -> Nat], NEW c \in S, NEW b \in Nat
  PROVE  /\ Total([f EXCEPT ![c] = b], S) = Total(f, S) - f[c] + b
         /\ Total([f EXCEPT ![c] = b], S) \in Nat
<1> DEFINE g == [f EXCEPT ![c] = b]
<1>1. /\ \A k \in S : f[k] \in Nat /\ g[k] \in Nat
      /\ \A k \in S \ {c} : g[k] = f[k]
      /\ g[c] = b
  OBVIOUS
<1> HIDE DEF g
<1>2. Total(g, S) = Total(f, S) - f[c] + g[c]  BY <1>1, TotalUpdate
<1>3. Total(g, S) \in Nat  BY <1>1, TotalType
<1> QED  BY <1>1, <1>2, <1>3 DEF g

(* Money moves: one balance changes by as much as the pot. *)
LEMMA MoneyStep ==
  ASSUME Inv, NEW n \in Accounts, NEW b \in Nat,
         balances' = [balances EXCEPT ![n] = b], pot' = pot - balances[n] + b,
         UNCHANGED <<nodes, settings, now, nodeOnboarding>>,
         promise' \in [Accounts -> [until : Nat, amount : Nat]],
         \A m \in Accounts : promise'[m].until = Relied(m).until,
         \A m \in Accounts \ {n} : promise'[m].amount = Relied(m).amount,
         now < Relied(n).until => promise'[n].amount <= b
  PROVE  Inv'
<1> USE StakingAssumption
<1>1. balances \in [Accounts -> Nat] /\ pot \in Nat  BY DEF Inv, TypeOK
<1>2. balances' \in [Accounts -> Nat] /\ balances'[n] = b
      /\ \A m \in Accounts \ {n} : balances'[m] = balances[m]
  BY <1>1
<1>3. /\ Total(balances', Accounts) = Total(balances, Accounts) - balances[n] + b
      /\ Total(balances', Accounts) \in Nat
  <2>1. IsFiniteSet(Accounts)  OBVIOUS
  <2>2. /\ Total([balances EXCEPT ![n] = b], Accounts) = Total(balances, Accounts) - balances[n] + b
        /\ Total([balances EXCEPT ![n] = b], Accounts) \in Nat
    <3>1. balances \in [Accounts -> Nat] /\ IsFiniteSet(Accounts) /\ n \in Accounts /\ b \in Nat
      BY <1>1, <2>1
    <3> QED  BY ONLY <3>1, TotalExcept
  <2> QED  BY <2>2
<1>4. pot' = Total(balances', Accounts) /\ pot' \in Nat
  BY <1>3 DEF Inv, NothingStranded
<1>5. TypeOK'  BY <1>2, <1>4 DEF Inv, TypeOK, settings
<1>6. ASSUME NEW m \in Accounts PROVE Reliance(m)'
  <2>1. Reliance(m)  BY DEF Inv, AllRelied
  <2>2. now < Relied(m).until => promise'[m].amount <= balances'[m]
    <3>1. CASE m = n  BY <1>2, <3>1
    <3>2. CASE m # n  BY <1>2, <2>1, <3>2 DEF Reliance
    <3> QED  BY <3>1, <3>2
  <2>3. LeavesReliance(m)  BY <2>1, <2>2 DEF LeavesReliance, Reliance
  <2>4. now <= now'  BY DEF Inv, TypeOK
  <2> QED  BY <1>5, <2>1, <2>3, <2>4, RelianceStep DEF Inv
<1> QED  BY <1>4, <1>5, <1>6 DEF Inv, NothingStranded, AllRelied

LEMMA DepositStep ==
  ASSUME Inv, NEW n \in Accounts, NEW v \in Amounts, Deposit(n, v)
  PROVE  Inv' /\ Custodian!Deposit(n)
<1> USE StakingAssumption
<1>1. v \in Nat /\ balances[n] \in Nat /\ pot \in Nat  BY DEF Inv, TypeOK
<1>2. balances' = [balances EXCEPT ![n] = balances[n] + v] /\ pot' = pot + v  BY DEF Deposit
<1>3. balances[n] + v \in Nat /\ pot' = pot - balances[n] + (balances[n] + v)  BY <1>1, <1>2
<1>4. promise' \in [Accounts -> [until : Nat, amount : Nat]]
      /\ \A m \in Accounts : promise'[m] = Relied(m)
  BY WatchType DEF Inv, Deposit
<1>5. now < Relied(n).until => promise'[n].amount <= balances[n] + v
  <2>1. now < Relied(n).until => Relied(n).amount <= balances[n]
    BY DEF Inv, AllRelied, Reliance
  <2>2. Relied(n).amount \in Nat  BY ReliedType DEF Inv
  <2> QED  BY <1>1, <1>4, <2>1, <2>2
<1>6. Inv'  BY <1>2, <1>3, <1>4, <1>5, MoneyStep DEF Deposit
<1>7. Custodian!Deposit(n)
  <2>1. pot' \in Nat /\ pot' >= pot /\ pot' - pot = v  BY <1>1, <1>2
  <2> QED  BY <1>2, <2>1 DEF Custodian!Deposit
<1> QED  BY <1>6, <1>7

(* A withdrawal and a slash take from a balance and from the pot. *)
LEMMA TakeStep ==
  ASSUME Inv, NEW n \in Accounts, NEW v \in Nat, balances[n] >= v,
         balances' = [balances EXCEPT ![n] = @ - v], pot' = pot - v
  PROVE  /\ Custodian!Release(n)
         /\ balances[n] \in Nat /\ balances[n] - v \in Nat
         /\ pot' = pot - balances[n] + (balances[n] - v)
<1> USE StakingAssumption
<1>1. balances \in [Accounts -> Nat] /\ pot \in Nat  BY DEF Inv, TypeOK
<1>2. balances[n] <= pot  BY <1>1, TotalBound DEF Inv, NothingStranded
<1>3. pot' \in Nat /\ pot' <= pot /\ pot - pot' = v /\ balances[n] - v \in Nat
  BY <1>1, <1>2
<1>4. Custodian!Release(n)  BY <1>1, <1>3 DEF Custodian!Release
<1> QED  BY <1>1, <1>3, <1>4

LEMMA WithdrawStep ==
  ASSUME Inv, NEW n \in Accounts, NEW v \in Amounts, Withdraw(n, v)
  PROVE  Inv' /\ Custodian!Release(n)
<1> USE StakingAssumption
<1>1. v \in Nat /\ balances[n] >= v /\ balances' = [balances EXCEPT ![n] = @ - v] /\ pot' = pot - v
  BY DEF Withdraw
<1>2. /\ Custodian!Release(n)
      /\ balances[n] \in Nat /\ balances[n] - v \in Nat
      /\ pot' = pot - balances[n] + (balances[n] - v)
  BY <1>1, TakeStep
<1>3. promise' \in [Accounts -> [until : Nat, amount : Nat]]
      /\ \A m \in Accounts : promise'[m] = Relied(m)
  BY WatchType DEF Inv, Withdraw
<1>4. ASSUME now < Relied(n).until PROVE promise'[n].amount <= balances[n] - v
  <2>1. Reliance(n) /\ TypeOK  BY DEF Inv, AllRelied
  <2>2. nodeOnboarding = "this" /\ Registered(n) /\ Relied(n).amount <= minStake[nodes[n].type]
    BY <1>4, <2>1 DEF Reliance
  <2>3. ~IsSafeToWithdraw(n)  BY <1>4, <2>1, NotYet
  <2>4. ~(balances[n] - v < minStake[nodes[n].type])  BY <2>2, <2>3 DEF Withdraw
  <2>5. minStake[nodes[n].type] \in Nat /\ Relied(n).amount \in Nat
    BY <2>1, <2>2, NodeType, ReliedType
  <2> QED  BY <1>2, <1>3, <2>2, <2>4, <2>5
<1>5. Inv'  BY <1>1, <1>2, <1>3, <1>4, MoneyStep DEF Withdraw
<1> QED  BY <1>2, <1>5

LEMMA SlashStep ==
  ASSUME Inv, NEW n \in Accounts, NEW v \in Amounts, Slash(n, v)
  PROVE  Inv' /\ Custodian!Release(n)
<1> USE StakingAssumption
<1>1. v \in Nat /\ balances[n] >= v /\ balances' = [balances EXCEPT ![n] = @ - v] /\ pot' = pot - v
  BY DEF Slash
<1>2. /\ Custodian!Release(n)
      /\ balances[n] \in Nat /\ balances[n] - v \in Nat
      /\ pot' = pot - balances[n] + (balances[n] - v)
  BY <1>1, TakeStep
<1> DEFINE rest == balances[n] - v
<1>3. Relied(n).until \in Nat /\ Relied(n).amount \in Nat
      /\ Relied(n) = [until |-> Relied(n).until, amount |-> Relied(n).amount]
  BY ReliedType DEF Inv
<1>4. Lesser(Relied(n).amount, rest) \in Nat /\ Lesser(Relied(n).amount, rest) <= rest
  BY <1>2, <1>3, LesserType
<1>5. promise' = [m \in Accounts |-> IF m = n THEN [Relied(n) EXCEPT !.amount = Lesser(@, rest)] ELSE Relied(m)]
  BY DEF Slash, WatchSlash
<1> HIDE DEF rest
<1>6. promise'[n] = [until |-> Relied(n).until, amount |-> Lesser(Relied(n).amount, rest)]
  BY <1>3, <1>5
<1>7. \A m \in Accounts \ {n} : promise'[m] = Relied(m)  BY <1>5
<1>8. promise' \in [Accounts -> [until : Nat, amount : Nat]]
  <2>1. promise' = [m \in Accounts |-> promise'[m]]  BY <1>5
  <2>2. ASSUME NEW m \in Accounts PROVE promise'[m] \in [until : Nat, amount : Nat]
    <3>1. CASE m = n  BY <1>3, <1>4, <1>6, <3>1
    <3>2. CASE m # n
      <4> DEFINE u == Relied(m).until  a == Relied(m).amount
      <4>1. Relied(m) = [until |-> u, amount |-> a] /\ u \in Nat /\ a \in Nat
        BY ReliedType DEF Inv
      <4> HIDE DEF u, a
      <4> QED  BY <1>7, <3>2, <4>1
    <3> QED  BY <3>1, <3>2
  <2> QED  BY <2>1, <2>2
<1>9. \A m \in Accounts : promise'[m].until = Relied(m).until  BY <1>6, <1>7
<1>10. rest \in Nat /\ pot' = pot - balances[n] + rest
  BY <1>2 DEF rest
<1>11. balances' = [balances EXCEPT ![n] = rest]  BY <1>1 DEF rest
<1>12. now < Relied(n).until => promise'[n].amount <= rest  BY <1>4, <1>6 DEF rest
<1>13. \A m \in Accounts \ {n} : promise'[m].amount = Relied(m).amount  BY <1>7
<1>14. UNCHANGED <<nodes, settings, now, nodeOnboarding>>  BY DEF Slash
<1>15. Inv'  BY <1>8, <1>9, <1>10, <1>11, <1>12, <1>13, <1>14, MoneyStep
<1> QED  BY <1>2, <1>15

LEMMA InitInv == Init => Inv
<1> SUFFICES ASSUME Init PROVE Inv  OBVIOUS
<1> USE OnboardingAssumption, StakingAssumption
<1>1. TypeOK
  BY DEF Init, OnboardingInit, TypeOK, Unregistered, Node, Types, NoPromise
<1>2. \A n \in Accounts : balances[n] = 0  BY DEF Init
<1>3. NothingStranded  BY <1>2, TotalZero DEF NothingStranded, Init
<1>4. AllRelied
  <2> SUFFICES ASSUME NEW n \in Accounts PROVE ~(now < Relied(n).until)
    BY DEF AllRelied, Reliance
  <2>1. Relied(n) = NoPromise  BY DEF Init, Relied
  <2> QED  BY <2>1 DEF NoPromise, Init, OnboardingInit
<1> QED  BY <1>1, <1>3, <1>4 DEF Inv

(* Every step keeps the invariant, and is a step of Custody or none. *)
LEMMA EveryStep ==
  ASSUME Inv, [Next]_vars
  PROVE  Inv' /\ [Custodian!Next]_<<balances, pot>>
<1>1. CASE \E n \in Accounts, v \in Amounts : Deposit(n, v) \/ Withdraw(n, v) \/ Slash(n, v)
  BY <1>1, DepositStep, WithdrawStep, SlashStep DEF Custodian!Next
<1>2. CASE SetNodeOnboarding
  <2>1. Watch /\ UNCHANGED <<balances, pot>>  BY <1>2 DEF SetNodeOnboarding
  <2> QED  BY <1>2, <2>1, SettingStep
<1>3. CASE Onboarding
  <2>1. Watch /\ UNCHANGED <<balances, pot, nodeOnboarding>> /\ OnboardingStep
    BY <1>3 DEF Onboarding
  <2>2. CASE SetRequirements \/ SetHeartbeatTimeout \/ SetAttestationVerifier \/ Tick
    BY <2>1, <2>2, SettingStep
  <2>3. CASE ~(SetRequirements \/ SetHeartbeatTimeout \/ SetAttestationVerifier \/ Tick)
    BY <2>1, <2>3, NodeStep DEF OnboardingStep
  <2> QED  BY <2>1, <2>2, <2>3
<1>4. CASE UNCHANGED vars
  <2>1. UNCHANGED <<nodes, settings, balances, now, pot, nodeOnboarding, promise>>  BY <1>4 DEF vars
  <2>2. \A n \in Accounts : Relied(n)' = Relied(n)
    BY <2>1 DEF Relied, IsActive, Registered, Is, settings
  <2>3. Inv'
    BY <2>1, <2>2 DEF Inv, TypeOK, NothingStranded, AllRelied, Reliance, Registered, settings
  <2> QED  BY <2>1, <2>3
<1> QED  BY <1>1, <1>2, <1>3, <1>4 DEF Next

LEMMA SpecInv == Spec => []Inv
<1>1. Inv /\ [Next]_vars => Inv'  BY EveryStep
<1> QED  BY InitInv, <1>1, PTL DEF Spec

(* TypeOK, for every value of the constants: in particular no subtraction of *)
(* contracts/NodeStaking.sol underflows.                                     *)
THEOREM StakesTyped == Spec => []TypeOK
<1>1. Inv => TypeOK  BY DEF Inv
<1> QED  BY SpecInv, <1>1, PTL

(* UnbondingHonoured, for every value of the constants: whatever nodes,      *)
(* slashers and owner do, a node's own withdrawals leave the stake it was    *)
(* relied on for until an unbonding period after it was last active.         *)
THEOREM UnbondingAlwaysHonoured == Spec => []UnbondingHonoured
<1>1. Inv => UnbondingHonoured
  <2> SUFFICES ASSUME Inv, NEW n \in Accounts, now < Relied(n).until
               PROVE  balances[n] >= Relied(n).amount
    BY DEF UnbondingHonoured
  <2>1. Relied(n).amount <= balances[n]  BY DEF Inv, AllRelied, Reliance
  <2>2. Relied(n).amount \in Nat /\ balances[n] \in Nat  BY ReliedType, NodeType DEF Inv
  <2> QED  BY <2>1, <2>2
<1> QED  BY SpecInv, <1>1, PTL

(* NothingStranded, for every value of the constants: NodeStaking holds      *)
(* exactly what its balances add up to.                                      *)
THEOREM StakesExact == Spec => []NothingStranded
<1>1. Inv => NothingStranded  BY DEF Inv
<1> QED  BY SpecInv, <1>1, PTL

(* ImplementsCustody, for every value of the constants: no account's stake   *)
(* pays another's withdrawal or slash.                                       *)
THEOREM StakesInCustody == Spec => ImplementsCustody
<1>1. Init => Custodian!Init  BY DEF Init, Custodian!Init
<1>2. Inv /\ [Next]_vars => [Custodian!Next]_<<balances, pot>>  BY EveryStep
<1> QED  BY SpecInv, <1>1, <1>2, PTL DEF Spec, ImplementsCustody, Custodian!Spec
===============================================================================
