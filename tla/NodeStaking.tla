------------------------------ MODULE NodeStaking ------------------------------
(***************************************************************************)
(* contracts/NodeStaking.sol, which keeps the stake of NodeOnboarding's    *)
(* nodes and asks it before stake is withdrawn.  Whoever may slash is not  *)
(* tracked: the owner always may.                                          *)
(***************************************************************************)
EXTENDS NodeOnboarding, FiniteSets, Tally

CONSTANTS
  Amounts,            \* values deposited, withdrawn and slashed
  Rejecting,          \* accounts that do not accept ETH
  Supply              \* ETH in existence

ASSUME StakingAssumption ==
  IsFiniteSet(Accounts) /\ Amounts \subseteq Nat /\ Rejecting \subseteq Accounts /\ Supply \in Nat

VARIABLES
  pot,                \* the contract's ETH
  nodeOnboarding,     \* the registry it asks: "none", "this" one or an "other"
  promise             \* an observer's record: stake relied on, and until when

vars == <<nodes, settings, balances, now, pot, nodeOnboarding, promise>>

NoPromise == [until |-> 0, amount |-> 0]

Init ==
  /\ OnboardingInit
  /\ balances = [n \in Accounts |-> 0] /\ pot = 0
  /\ nodeOnboarding = "none"
  /\ promise = [n \in Accounts |-> NoPromise]

Lesser(i, j) == IF i <= j THEN i ELSE j

(* An observer's record, no state of the code: what the network counts on.   *)
(* While a node is active and its withdrawals are guarded, that is the       *)
(* minimum, for as long as an exit would take.  Afterwards the record stands *)
(* until it runs out; the owner's lower minimum, shorter unbonding period or *)
(* other registry reduce it.  promise has the record of the previous state.  *)
Relied(n) ==
  CASE nodeOnboarding # "this" -> NoPromise
    [] nodeOnboarding = "this" /\ IsActive(n) ->
         [until |-> now + unbondingPeriod, amount |-> minStake[nodes[n].type]]
    [] OTHER ->
         [until  |-> Lesser(promise[n].until, now + unbondingPeriod),
          amount |-> IF Registered(n) THEN Lesser(promise[n].amount, minStake[nodes[n].type])
                     ELSE promise[n].amount]

Watch == promise' = [n \in Accounts |-> Relied(n)]

(* What has been slashed is not counted on any more. *)
WatchSlash(n, rest) ==
  promise' = [m \in Accounts |-> IF m = n THEN [Relied(n) EXCEPT !.amount = Lesser(@, rest)] ELSE Relied(m)]
-------------------------------------------------------------------------------
(* For comparison: a deposit replaces the balance. *)
DepositReplacing(n, value) ==
  /\ value > 0
  /\ balances' = [balances EXCEPT ![n] = value]
  /\ pot + value <= Supply /\ pot' = pot + value
  /\ Watch /\ UNCHANGED <<nodes, settings, now, nodeOnboarding>>

Deposit(n, value) ==
  /\ value > 0
  /\ balances' = [balances EXCEPT ![n] = @ + value]
  /\ pot + value <= Supply /\ pot' = pot + value
  /\ Watch /\ UNCHANGED <<nodes, settings, now, nodeOnboarding>>

(* Another registry than this one may let the node go or not. *)
Withdraw(n, amount) ==
  /\ balances[n] >= amount
  /\ nodeOnboarding = "this" /\ Registered(n) /\ balances[n] - amount < minStake[nodes[n].type]
       => IsSafeToWithdraw(n)
  /\ n \notin Rejecting
  /\ balances' = [balances EXCEPT ![n] = @ - amount]
  /\ pot' = pot - amount
  /\ Watch /\ UNCHANGED <<nodes, settings, now, nodeOnboarding>>

(* For comparison: a slash is paid in full and takes what there is. *)
SlashBeyondBalance(n, amount) ==
  /\ pot >= amount
  /\ balances' = [balances EXCEPT ![n] = @ - Lesser(@, amount)]
  /\ pot' = pot - amount
  /\ WatchSlash(n, balances[n] - Lesser(balances[n], amount))
  /\ UNCHANGED <<nodes, settings, now, nodeOnboarding>>

(* Paid to the beneficiary, or to the owner if none is given; the contract   *)
(* itself does not accept ETH.                                               *)
Slash(n, amount) ==
  /\ balances[n] >= amount
  /\ balances' = [balances EXCEPT ![n] = @ - amount]
  /\ pot' = pot - amount
  /\ WatchSlash(n, balances[n] - amount)
  /\ UNCHANGED <<nodes, settings, now, nodeOnboarding>>

SetNodeOnboarding ==
  /\ nodeOnboarding' \in {"this", "other"}
  /\ Watch /\ UNCHANGED <<nodes, settings, balances, now, pot>>

Onboarding == OnboardingStep /\ Watch /\ UNCHANGED <<balances, pot, nodeOnboarding>>

Next ==
  \/ \E n \in Accounts, v \in Amounts : Deposit(n, v) \/ Withdraw(n, v) \/ Slash(n, v)
  \/ SetNodeOnboarding
  \/ Onboarding

Spec == Init /\ [][Next]_vars
-------------------------------------------------------------------------------
(* The purpose of unbonding, across the two contracts: for a whole unbonding *)
(* period after a node was last active, its own withdrawals leave the stake  *)
(* it was relied on for, to be slashed if need be.  Whatever is deposited,   *)
(* withdrawn, slashed, left, joined again and retuned in between.            *)
UnbondingHonoured == \A n \in Accounts : now < Relied(n).until => balances[n] >= Relied(n).amount

(* NodeStaking has no other way out for ETH than a node's balance, and none  *)
(* in but deposits: it holds exactly what the balances add up to.            *)
NothingStranded == pot = Total(balances, Accounts)

(* The contract is a custodian of each node's stake: see Custody. *)
Custodian == INSTANCE Custody WITH Keys <- Accounts, held <- balances
ImplementsCustody == Custodian!Spec

(* Type correctness. *)
TypeOK ==
  /\ nodes \in [Accounts -> Node]
  /\ minStake \in [Types -> Nat] /\ unbondingPeriod \in Nat /\ heartbeatTimeout \in Nat
  /\ hasVerifier \in BOOLEAN
  /\ balances \in [Accounts -> Nat] /\ pot \in Nat /\ now \in Nat
  /\ nodeOnboarding \in {"none", "this", "other"}
  /\ promise \in [Accounts -> [until : Nat, amount : Nat]]
===============================================================================
