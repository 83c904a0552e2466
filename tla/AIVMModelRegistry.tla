-------------------------- MODULE AIVMModelRegistry --------------------------
(***************************************************************************)
(* contracts/AIVMModelRegistry.sol: variants of models are submitted,      *)
(* judged, challenged and finalized, all with stakes.  Whatever an account *)
(* stakes, as trainer, validator or challenger of whichever variant, goes  *)
(* into one pot of its own, stakedBalances, from which every refund and    *)
(* slash takes if there is enough and nothing if there is not.             *)
(*                                                                         *)
(* The score and the number of validators are the aggregator's word: here  *)
(* a result has passed or not.  Base models, access tickets, plain         *)
(* transfers to the contract and calls made while paying are left out.     *)
(***************************************************************************)
EXTENDS Integers, FiniteSets, Tally

CONSTANTS
  Variants,
  Accounts,
  Trainers, Validators, Challengers,   \* the accounts that play each role
  Rejecting,          \* those that do not accept ETH
  NoAccount,          \* the zero address
  Policies,           \* settings of policy
  Stakes,             \* values sent
  Supply,             \* ETH in existence
  MaxTime             \* bound on the clock

Policy == [trainerStakeMin : Nat, validatorStakeMin : Nat, challengeWindow : Nat]

ASSUME RegistryAssumption ==
  /\ IsFiniteSet(Variants) /\ IsFiniteSet(Accounts)
  /\ Trainers \subseteq Accounts /\ Validators \subseteq Accounts
  /\ Challengers \subseteq Accounts /\ Rejecting \subseteq Accounts
  /\ NoAccount \notin Accounts
  /\ Policies \subseteq Policy
  /\ Stakes \subseteq Nat \ {0} /\ Supply \in Nat /\ MaxTime \in Nat

VARIABLES
  variants,           \* variant -> ModelVariant
  variantValidators,  \* variant -> what each account has staked as its validator
  isSlashed,          \* variant -> its slashed validators
  activeChallenges,   \* variant -> ChallengeRecord
  stakedBalances,     \* account -> its pot
  balance,            \* the contract's ETH
  policy,
  now,                \* block.timestamp
  settled,            \* observer: variant -> stakes in it already taken or given back
  disturbed           \* observer: accounts whose pot was touched for something else

money == <<stakedBalances, balance>>
observed == <<settled, disturbed>>
vars == <<variants, variantValidators, isSlashed, activeChallenges, money, policy, now, observed>>

Statuses == {"None", "Submitted", "Validating", "Approved", "Rejected", "Finalized", "Deprecated"}
ModelVariant == [trainer : Accounts \cup {NoAccount}, trainerStake : Nat, status : Statuses,
                 challengeWindowOpen : BOOLEAN, challengeDeadline : Nat]
ChallengeRecord == [challenger : Accounts \cup {NoAccount}, stake : Nat, resolved : BOOLEAN]

NoVariant == [trainer |-> NoAccount, trainerStake |-> 0, status |-> "None",
              challengeWindowOpen |-> FALSE, challengeDeadline |-> 0]
NoChallenge == [challenger |-> NoAccount, stake |-> 0, resolved |-> FALSE]

Init ==
  /\ variants = [v \in Variants |-> NoVariant]
  /\ variantValidators = [v \in Variants |-> [a \in Accounts |-> 0]]
  /\ isSlashed = [v \in Variants |-> {}]
  /\ activeChallenges = [v \in Variants |-> NoChallenge]
  /\ stakedBalances = [a \in Accounts |-> 0]
  /\ balance = 0
  /\ policy \in Policies
  /\ now = 1
  /\ settled = [v \in Variants |-> {}] /\ disturbed = {}

Is(v, statuses) == variants[v].status \in statuses
Exists(v) == ~Is(v, {"None"})
Stakers(v) == {a \in Accounts : variantValidators[v][a] # 0}

(* A variant whose window is closed for good, with its status from then on.  *)
(* For comparison: the window stays open.                                    *)
ClosedStillOpen(variant, status) == [variant EXCEPT !.status = status]
Closed(variant, status) == [variant EXCEPT !.challengeWindowOpen = FALSE, !.status = status]
-------------------------------------------------------------------------------
(* A claim on a pot is met in full or not at all. *)
Met(pot, claim) == IF pot >= claim THEN claim ELSE 0
MetOf(pots, v, validators) ==
  [a \in Accounts |-> IF a \in validators THEN Met(pots[a], variantValidators[v][a]) ELSE 0]
Less(pots, paid) == [a \in Accounts |-> pots[a] - paid[a]]
MetOfTrainer(pots, v) == Met(pots[variants[v].trainer], variants[v].trainerStake)
LessOfTrainer(pots, v, amount) == [pots EXCEPT ![variants[v].trainer] = @ - amount]

(* Those that are sent ETH have to accept it. *)
Accepted(a, paid) == paid # 0 => a \notin Rejecting

(* For comparison: the pot is set to the new stake. *)
StakeReplacing(a, value) ==
  /\ stakedBalances' = [stakedBalances EXCEPT ![a] = value]
  /\ balance + value <= Supply /\ balance' = balance + value
  /\ UNCHANGED disturbed

Stake(a, value) ==
  /\ stakedBalances' = [stakedBalances EXCEPT ![a] = @ + value]
  /\ balance + value <= Supply /\ balance' = balance + value
  /\ UNCHANGED disturbed

(* A stake is settled.  That of one that had been settled before comes out   *)
(* of what the account has at stake elsewhere.                               *)
Trainer(v) == <<"trainer", variants[v].trainer>>
Validator(a) == <<"validator", a>>
Settle(v, stakes, others) ==
  /\ settled' = [settled EXCEPT ![v] = @ \cup stakes]
  /\ disturbed' = disturbed \cup others \cup {s[2] : s \in stakes \cap settled[v]}
-------------------------------------------------------------------------------
RegisterVariant(a, v, value) ==
  /\ ~Exists(v)
  /\ value >= policy.trainerStakeMin
  /\ Stake(a, value)
  /\ variants' = [variants EXCEPT ![v] = [NoVariant EXCEPT
       !.trainer = a, !.trainerStake = value, !.status = "Submitted"]]
  /\ UNCHANGED <<variantValidators, isSlashed, activeChallenges, policy, now, settled>>

StakeForValidation(a, v, value) ==
  /\ Is(v, {"Submitted", "Validating"})
  /\ value >= policy.validatorStakeMin
  /\ a \notin Stakers(v)
  /\ Stake(a, value)
  /\ variantValidators' = [variantValidators EXCEPT ![v][a] = value]
  /\ variants' = [variants EXCEPT ![v].status = "Validating"]
  /\ UNCHANGED <<isSlashed, activeChallenges, policy, now, settled>>

(* submitScore, submitAggregatedResult, submitValidationResult. *)
Approve(v) ==
  /\ Is(v, {"Validating"})
  /\ variants' = [variants EXCEPT ![v] = [@ EXCEPT
       !.status = "Approved", !.challengeWindowOpen = TRUE,
       !.challengeDeadline = now + policy.challengeWindow]]
  /\ UNCHANGED <<variantValidators, isSlashed, activeChallenges, money, policy, now, observed>>

Reject(v) ==
  LET slashed == MetOfTrainer(stakedBalances, v) IN
  /\ Is(v, {"Validating"})
  /\ variants' = [variants EXCEPT ![v].status = "Rejected"]
  /\ stakedBalances' = LessOfTrainer(stakedBalances, v, slashed)
  /\ balance >= slashed /\ balance' = balance - slashed
  /\ Settle(v, {Trainer(v)}, {})
  /\ UNCHANGED <<variantValidators, isSlashed, activeChallenges, policy, now>>

FinalizeVariant(v) ==
  LET first  == MetOfTrainer(stakedBalances, v)
      rest   == LessOfTrainer(stakedBalances, v, first)
      second == MetOf(rest, v, Stakers(v) \ isSlashed[v])
      paid   == first + Total(second, Accounts)
  IN
  /\ Is(v, {"Approved"})
  /\ variants[v].challengeWindowOpen
  /\ now >= variants[v].challengeDeadline
  /\ variants' = [variants EXCEPT ![v] = Closed(@, "Finalized")]
  /\ Accepted(variants[v].trainer, first) /\ \A a \in Accounts : Accepted(a, second[a])
  /\ stakedBalances' = Less(rest, second)
  /\ balance >= paid /\ balance' = balance - paid
  /\ Settle(v, {Trainer(v)} \cup {Validator(a) : a \in Stakers(v) \ isSlashed[v]}, {})
  /\ UNCHANGED <<variantValidators, isSlashed, activeChallenges, policy, now>>

(* challengeVariant and openChallenge. *)
StartChallenge(a, v, value) ==
  /\ Is(v, {"Approved"})
  /\ variants[v].challengeWindowOpen
  /\ now < variants[v].challengeDeadline
  /\ value >= policy.trainerStakeMin
  /\ activeChallenges[v].challenger = NoAccount \/ activeChallenges[v].resolved
  /\ Stake(a, value)
  /\ activeChallenges' = [activeChallenges EXCEPT ![v] =
       [challenger |-> a, stake |-> value, resolved |-> FALSE]]
  /\ UNCHANGED <<variants, variantValidators, isSlashed, policy, now, settled>>

(* _rewardChallenger and _refundChallengeStake, given the pots and the ETH   *)
(* there are by then.  A reward doubles the stake if there is ETH for it.    *)
CloseChallenge(v, pots, eth, isReward) ==
  LET c == activeChallenges[v]
      payout == IF isReward /\ eth >= 2 * c.stake THEN 2 * c.stake ELSE c.stake
  IN
  /\ activeChallenges' = [activeChallenges EXCEPT ![v] = [@ EXCEPT !.stake = 0, !.resolved = TRUE]]
  /\ IF pots[c.challenger] >= c.stake
     THEN /\ c.challenger \notin Rejecting
          /\ eth >= payout /\ balance' = eth - payout
          /\ stakedBalances' = [pots EXCEPT ![c.challenger] = @ - c.stake]
     ELSE balance' = eth /\ stakedBalances' = pots

ChallengeActive(v) == activeChallenges[v].challenger # NoAccount /\ ~activeChallenges[v].resolved

(* The owner slashes some of a variant's validators for a challenge, and its *)
(* trainer if the variant is to be rejected.                                 *)
SlashValidators(v, validators, isRejected, isReward) ==
  LET slashed == MetOf(stakedBalances, v, validators)
      rest    == Less(stakedBalances, slashed)
      trainer == IF isRejected THEN MetOfTrainer(rest, v) ELSE 0
      taken   == Total(slashed, Accounts) + trainer
  IN
  /\ ChallengeActive(v)
  /\ validators # {} /\ validators \subseteq Stakers(v) \ isSlashed[v]
  /\ isSlashed' = [isSlashed EXCEPT ![v] = @ \cup validators]
  /\ variants' = [variants EXCEPT ![v] = Closed(@, IF isRejected THEN "Rejected" ELSE @.status)]
  /\ balance >= taken
  /\ CloseChallenge(v, LessOfTrainer(rest, v, trainer), balance - taken, isReward)
  /\ Settle(v, {Validator(a) : a \in validators} \cup (IF isRejected THEN {Trainer(v)} ELSE {}), {})
  /\ UNCHANGED <<variantValidators, policy, now>>

(* resolveChallenge and recordChallengeOutcome, of a variant in any state:   *)
(* the account named as challenger need not be the one on record, and its    *)
(* whole pot is doubled or lost.                                             *)
Closing(v, pots, eth, isReward) ==
  IF ChallengeActive(v) THEN CloseChallenge(v, pots, eth, isReward)
  ELSE stakedBalances' = pots /\ balance' = eth /\ UNCHANGED activeChallenges

PotOf(challenger) == IF challenger = NoAccount THEN 0 ELSE stakedBalances[challenger]
Without(challenger) == [a \in Accounts |-> IF a = challenger THEN 0 ELSE stakedBalances[a]]

UpholdChallenge(v, challenger) ==
  LET own     == PotOf(challenger)
      slashed == MetOf(Without(challenger), v, Stakers(v))
      rest    == Less(Without(challenger), slashed)
      trainer == MetOfTrainer(rest, v)
      taken   == 2 * own + Total(slashed, Accounts) + trainer
  IN
  /\ Exists(v)
  /\ Accepted(challenger, own)
  /\ variants' = [variants EXCEPT ![v] = Closed(@, "Rejected")]
  /\ isSlashed' = [isSlashed EXCEPT ![v] = Stakers(v)]
  /\ balance >= taken
  /\ Closing(v, LessOfTrainer(rest, v, trainer), balance - taken, TRUE)
  /\ Settle(v, {Validator(a) : a \in Stakers(v)} \cup {Trainer(v)}, {challenger})
  /\ UNCHANGED <<variantValidators, policy, now>>

DismissChallenge(v, challenger) ==
  LET own == PotOf(challenger) IN
  /\ Exists(v)
  /\ variants' = [variants EXCEPT ![v] = Closed(@, @.status)]
  /\ balance >= own
  /\ Closing(v, Without(challenger), balance - own, FALSE)
  /\ Settle(v, {}, {challenger})
  /\ UNCHANGED <<variantValidators, isSlashed, policy, now>>

(* For comparison: the pot is not emptied. *)
WithdrawAgain(a) ==
  /\ stakedBalances[a] > 0
  /\ a \notin Rejecting
  /\ balance >= stakedBalances[a] /\ balance' = balance - stakedBalances[a]
  /\ disturbed' = disturbed \cup {a}
  /\ UNCHANGED <<variants, variantValidators, isSlashed, activeChallenges, stakedBalances, policy, now, settled>>

WithdrawStake(a) ==
  /\ stakedBalances[a] > 0
  /\ a \notin Rejecting
  /\ balance >= stakedBalances[a] /\ balance' = balance - stakedBalances[a]
  /\ stakedBalances' = [stakedBalances EXCEPT ![a] = 0]
  /\ disturbed' = disturbed \cup {a}
  /\ UNCHANGED <<variants, variantValidators, isSlashed, activeChallenges, policy, now, settled>>

DeprecateVariant(v) ==
  /\ Exists(v)
  /\ variants' = [variants EXCEPT ![v].status = "Deprecated"]
  /\ UNCHANGED <<variantValidators, isSlashed, activeChallenges, money, policy, now, observed>>

UpdatePolicy ==
  /\ policy' \in Policies
  /\ UNCHANGED <<variants, variantValidators, isSlashed, activeChallenges, money, now, observed>>

EmergencyWithdraw ==
  /\ balance' = 0
  /\ UNCHANGED <<variants, variantValidators, isSlashed, activeChallenges, stakedBalances, policy, now, observed>>

Tick ==
  /\ now < MaxTime /\ now' = now + 1
  /\ UNCHANGED <<variants, variantValidators, isSlashed, activeChallenges, money, policy, observed>>

Next ==
  \/ \E v \in Variants :
       \/ \E s \in Stakes :
            \/ \E a \in Trainers : RegisterVariant(a, v, s)
            \/ \E a \in Validators : StakeForValidation(a, v, s)
            \/ \E a \in Challengers : StartChallenge(a, v, s)
       \/ Approve(v) \/ Reject(v) \/ FinalizeVariant(v) \/ DeprecateVariant(v)
       \/ \E validators \in SUBSET Accounts, isRejected, isReward \in BOOLEAN :
            SlashValidators(v, validators, isRejected, isReward)
       \/ \E c \in Accounts \cup {NoAccount} : UpholdChallenge(v, c) \/ DismissChallenge(v, c)
  \/ \E a \in Accounts : WithdrawStake(a)
  \/ UpdatePolicy \/ EmergencyWithdraw \/ Tick

Spec == Init /\ [][Next]_vars
-------------------------------------------------------------------------------
(* Whoever is paid is paid from a pot, to the last wei.  The exceptions are   *)
(* the owner, who may take everything, and a challenger's reward, which is   *)
(* never more than what leaves the pots again.                               *)
Rewarded == \E v \in Variants :
  \/ \E c \in Accounts \cup {NoAccount} : UpholdChallenge(v, c)
  \/ \E validators \in SUBSET Accounts, isRejected \in BOOLEAN :
       SlashValidators(v, validators, isRejected, TRUE)
PaidFromPots == [][
  LET out  == balance - balance'
      from == Total(stakedBalances, Accounts) - Total(stakedBalances', Accounts)
  IN  out <= from \/ EmergencyWithdraw \/ (out <= 2 * from /\ Rewarded)]_vars

(* One pot per account is enough: as long as nothing but settlements touched *)
(* it, it is exactly what the account has at stake, as trainer, validator    *)
(* and challenger of all variants; no refund or slash is skipped.            *)
AtStake(a) == Total([v \in Variants |->
    (IF variants[v].trainer = a /\ Trainer(v) \notin settled[v] THEN variants[v].trainerStake ELSE 0)
  + (IF Validator(a) \notin settled[v] THEN variantValidators[v][a] ELSE 0)
  + (IF activeChallenges[v].challenger = a THEN activeChallenges[v].stake ELSE 0)], Variants)
PotsMatchStakes == \A a \in Accounts \ disturbed : stakedBalances[a] = AtStake(a)

(* What a challenge has decided stays decided, through Deprecated and        *)
(* further outcomes of the owner: the record stands, the variant cannot be   *)
(* challenged again, and it does not become available any more.              *)
DecidedForGood == [][\A v \in Variants : activeChallenges[v].resolved =>
  /\ activeChallenges'[v] = activeChallenges[v]
  /\ Is(v, {"Finalized"})' => Is(v, {"Finalized"})]_vars

(* AIVMModelRegistry.sol, ModelStatus: Approved means "in challenge window", *)
(* without which a variant can never be finalized.                           *)
ApprovedIsChallengeable == \A v \in Variants : Is(v, {"Approved"}) => variants[v].challengeWindowOpen
===============================================================================
