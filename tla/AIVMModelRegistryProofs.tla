---------------------- MODULE AIVMModelRegistryProofs ----------------------
(***************************************************************************)
(* For all variants, accounts, stakes and policies.                        *)
(*                                                                         *)
(* What a challenge has decided stays decided.  No function checks that    *)
(* directly.  It holds because a resolved challenge has closed the window  *)
(* of a variant that is past its validation, and only a validation opens   *)
(* the window: Lasting.                                                    *)
(*                                                                         *)
(* One pot per account is enough.  A step touches the stakes of one        *)
(* variant; of an undisturbed account it settles only what had not been    *)
(* settled, and its pot, which holds all it has at stake, covers that part *)
(* (PotCovers): every claim is met, and the pot moves with the stakes      *)
(* (PotsFollow).  Accounted says that what was settled had been staked.    *)
(***************************************************************************)
EXTENDS AIVMModelRegistry, TallyTheorems

Typed ==
  /\ variants \in [Variants -> ModelVariant]
  /\ activeChallenges \in [Variants -> ChallengeRecord]
  /\ policy \in Policies
  /\ now \in Nat

Open == {"None", "Submitted", "Validating"}

(* A challenge on record means that the variant has been judged; a resolved  *)
(* one, that its window is closed.                                           *)
LastingOf(v) ==
  /\ ChallengeActive(v) \/ activeChallenges[v].resolved => ~Is(v, Open)
  /\ activeChallenges[v].resolved => ~variants[v].challengeWindowOpen
Lasting == \A v \in Variants : LastingOf(v)

Inv == Typed /\ Lasting

DecidedStep(v) == activeChallenges[v].resolved =>
  /\ activeChallenges'[v] = activeChallenges[v]
  /\ Is(v, {"Finalized"})' => Is(v, {"Finalized"})

LEMMA InitInv == Init => Inv
BY RegistryAssumption
DEF Init, Inv, Typed, Lasting, LastingOf, ChallengeActive, ModelVariant, ChallengeRecord, Statuses, NoVariant, NoChallenge, Is

(* A step on one variant that leaves the challenges alone. *)
LEMMA VariantStep ==
  ASSUME Inv, NEW v \in Variants, NEW w \in ModelVariant,
         variants' = [variants EXCEPT ![v] = w],
         UNCHANGED <<activeChallenges, policy, now>>,
         ChallengeActive(v) \/ activeChallenges[v].resolved => w.status \notin Open,
         activeChallenges[v].resolved => ~w.challengeWindowOpen /\ (w.status = "Finalized" => Is(v, {"Finalized"}))
  PROVE  Inv' /\ \A u \in Variants : DecidedStep(u)
<1>1. Typed'  BY DEF Inv, Typed
<1>2. ASSUME NEW u \in Variants PROVE LastingOf(u)' /\ DecidedStep(u)
  <2>1. LastingOf(u)  BY DEF Inv, Lasting
  <2>2. variants'[u] = IF u = v THEN w ELSE variants[u]  BY DEF Inv, Typed
  <2> QED  BY <2>1, <2>2 DEF LastingOf, DecidedStep, ChallengeActive, Is
<1> QED  BY <1>1, <1>2 DEF Inv, Lasting

(* A step that closes a variant, and its challenge if that is active. *)
LEMMA ClosingStep ==
  ASSUME Inv, NEW v \in Variants, NEW status \in Statuses,
         variants' = [variants EXCEPT ![v] = Closed(variants[v], status)],
         UNCHANGED <<policy, now>>,
         ChallengeActive(v) \/ activeChallenges[v].resolved => status \notin Open,
         status = "Finalized" => Is(v, {"Finalized"}),
         \/ UNCHANGED activeChallenges
         \/ /\ ChallengeActive(v)
            /\ activeChallenges' = [activeChallenges EXCEPT ![v] = [@ EXCEPT !.stake = 0, !.resolved = TRUE]]
  PROVE  Inv' /\ \A u \in Variants : DecidedStep(u)
<1> DEFINE w == Closed(variants[v], status)
<1>1. variants[v] \in ModelVariant /\ activeChallenges[v] \in ChallengeRecord  BY DEF Inv, Typed
<1>2. /\ w \in ModelVariant /\ w.status = status /\ ~w.challengeWindowOpen
  BY <1>1 DEF Closed, ModelVariant
<1>3. CASE UNCHANGED activeChallenges
  <2> HIDE DEF w
  <2> QED  BY <1>2, <1>3, VariantStep DEF w
<1>4. CASE /\ ChallengeActive(v)
           /\ activeChallenges' = [activeChallenges EXCEPT ![v] = [@ EXCEPT !.stake = 0, !.resolved = TRUE]]
  <2>1. Typed'  BY <1>1, <1>2, <1>4 DEF Inv, Typed, ChallengeRecord
  <2>2. ASSUME NEW u \in Variants PROVE LastingOf(u)' /\ DecidedStep(u)
    <3>1. LastingOf(u)  BY DEF Inv, Lasting
    <3>2. variants'[u] = IF u = v THEN w ELSE variants[u]  BY DEF Inv, Typed
    <3>3. u # v => activeChallenges'[u] = activeChallenges[u]  BY <1>4 DEF Inv, Typed
    <3> QED  BY <1>2, <1>4, <3>1, <3>2, <3>3 DEF LastingOf, DecidedStep, ChallengeActive, Is
  <2> QED  BY <2>1, <2>2 DEF Inv, Lasting
<1> QED  BY <1>3, <1>4
-----------------------------------------------------------------------------
(* Every transaction keeps the invariant and leaves decisions alone. *)
LEMMA EveryStep ==
  Inv /\ [Next]_vars => Inv' /\ \A v \in Variants : DecidedStep(v)
<1> SUFFICES ASSUME Inv, [Next]_vars PROVE Inv' /\ \A v \in Variants : DecidedStep(v)
  OBVIOUS
<1> USE RegistryAssumption
<1> DEFINE Kept == UNCHANGED <<variants, activeChallenges, policy, now>>
<1>a. ASSUME NEW v \in Variants
      PROVE  /\ variants[v] \in ModelVariant /\ activeChallenges[v] \in ChallengeRecord
             /\ LastingOf(v)
  BY DEF Inv, Typed, Lasting
<1>b. policy.challengeWindow \in Nat /\ now \in Nat  BY DEF Inv, Typed, Policy
<1>0. ASSUME UNCHANGED <<variants, activeChallenges>>, policy' \in Policies, now' \in Nat
      PROVE  Inv' /\ \A v \in Variants : DecidedStep(v)
  <2>1. Typed'  BY <1>0 DEF Inv, Typed
  <2>2. ASSUME NEW v \in Variants PROVE LastingOf(v)' /\ DecidedStep(v)
    BY <1>0, <1>a DEF LastingOf, DecidedStep, ChallengeActive, Is
  <2> QED  BY <2>1, <2>2 DEF Inv, Lasting
<1>1. ASSUME NEW v \in Variants, NEW s \in Stakes, NEW a \in Trainers, RegisterVariant(a, v, s)
      PROVE  Inv' /\ \A u \in Variants : DecidedStep(u)
  <2> DEFINE w == [NoVariant EXCEPT !.trainer = a, !.trainerStake = s, !.status = "Submitted"]
  <2>1. w \in ModelVariant /\ variants' = [variants EXCEPT ![v] = w] /\ UNCHANGED <<activeChallenges, policy, now>>
    BY <1>1 DEF RegisterVariant, NoVariant, ModelVariant, Statuses
  <2>2. ~(ChallengeActive(v) \/ activeChallenges[v].resolved)
    BY <1>1, <1>a DEF RegisterVariant, Exists, LastingOf, Is, Open
  <2> HIDE DEF w
  <2> QED  BY <2>1, <2>2, VariantStep
<1>2. ASSUME NEW v \in Variants, NEW s \in Stakes, NEW a \in Validators, StakeForValidation(a, v, s)
      PROVE  Inv' /\ \A u \in Variants : DecidedStep(u)
  <2> DEFINE w == [variants[v] EXCEPT !.status = "Validating"]
  <2>1. w \in ModelVariant /\ variants' = [variants EXCEPT ![v] = w] /\ UNCHANGED <<activeChallenges, policy, now>>
    BY <1>2, <1>a DEF StakeForValidation, ModelVariant, Statuses, Inv, Typed
  <2>2. ~(ChallengeActive(v) \/ activeChallenges[v].resolved)
    BY <1>2, <1>a DEF StakeForValidation, LastingOf, Is, Open
  <2> HIDE DEF w
  <2> QED  BY <2>1, <2>2, VariantStep
<1>3. ASSUME NEW v \in Variants, NEW s \in Stakes, NEW a \in Challengers, StartChallenge(a, v, s)
      PROVE  Inv' /\ \A u \in Variants : DecidedStep(u)
  <2> DEFINE c == [challenger |-> a, stake |-> s, resolved |-> FALSE]
  <2>1. c \in ChallengeRecord /\ activeChallenges' = [activeChallenges EXCEPT ![v] = c]
        /\ UNCHANGED <<variants, policy, now>>
    BY <1>3 DEF StartChallenge, ChallengeRecord
  <2>2. ~activeChallenges[v].resolved /\ ~Is(v, Open) /\ ~c.resolved
    BY <1>3, <1>a DEF StartChallenge, LastingOf, Is, Open
  <2> HIDE DEF c
  <2>3. Typed'  BY <2>1 DEF Inv, Typed
  <2>4. ASSUME NEW u \in Variants PROVE LastingOf(u)' /\ DecidedStep(u)
    <3>1. activeChallenges'[u] = IF u = v THEN c ELSE activeChallenges[u]  BY <2>1 DEF Inv, Typed
    <3> QED  BY <1>a, <2>1, <2>2, <3>1 DEF LastingOf, DecidedStep, ChallengeActive, Is
  <2> QED  BY <2>3, <2>4 DEF Inv, Lasting
<1>4. ASSUME NEW v \in Variants, Approve(v)
      PROVE  Inv' /\ \A u \in Variants : DecidedStep(u)
  <2> DEFINE w == [variants[v] EXCEPT !.status = "Approved", !.challengeWindowOpen = TRUE,
                                      !.challengeDeadline = now + policy.challengeWindow]
  <2>0. now + policy.challengeWindow \in Nat  BY <1>b
  <2>1. w \in ModelVariant
    BY <1>a, <2>0 DEF ModelVariant, Statuses
  <2>a. variants' = [variants EXCEPT ![v] = w] /\ UNCHANGED <<activeChallenges, policy, now>>
    BY <1>4 DEF Approve
  <2>2. ~(ChallengeActive(v) \/ activeChallenges[v].resolved)
    BY <1>4, <1>a DEF Approve, LastingOf, Is, Open
  <2> HIDE DEF w
  <2> QED  BY <2>1, <2>a, <2>2, VariantStep
<1>5. ASSUME NEW v \in Variants, Reject(v)
      PROVE  Inv' /\ \A u \in Variants : DecidedStep(u)
  <2> DEFINE w == [variants[v] EXCEPT !.status = "Rejected"]
  <2>1. w \in ModelVariant /\ variants' = [variants EXCEPT ![v] = w] /\ UNCHANGED <<activeChallenges, policy, now>>
    BY <1>5, <1>a DEF Reject, ModelVariant, Statuses, Inv, Typed
  <2>2. ~(ChallengeActive(v) \/ activeChallenges[v].resolved)
    BY <1>5, <1>a DEF Reject, LastingOf, Is, Open
  <2> HIDE DEF w
  <2> QED  BY <2>1, <2>2, VariantStep
<1>6. ASSUME NEW v \in Variants, FinalizeVariant(v)
      PROVE  Inv' /\ \A u \in Variants : DecidedStep(u)
  <2> DEFINE w == Closed(variants[v], "Finalized")
  <2>1. /\ w \in ModelVariant /\ w.status = "Finalized"
        /\ variants' = [variants EXCEPT ![v] = w] /\ UNCHANGED <<activeChallenges, policy, now>>
    BY <1>6, <1>a DEF FinalizeVariant, Closed, ModelVariant, Statuses
  <2>2. ~activeChallenges[v].resolved
    BY <1>6, <1>a DEF FinalizeVariant, LastingOf
  <2> HIDE DEF w
  <2> QED  BY <2>1, <2>2, VariantStep DEF Open
<1>7. ASSUME NEW v \in Variants, DeprecateVariant(v)
      PROVE  Inv' /\ \A u \in Variants : DecidedStep(u)
  <2> DEFINE w == [variants[v] EXCEPT !.status = "Deprecated"]
  <2>1. /\ w \in ModelVariant /\ w.status = "Deprecated" /\ w.challengeWindowOpen = variants[v].challengeWindowOpen
        /\ variants' = [variants EXCEPT ![v] = w] /\ UNCHANGED <<activeChallenges, policy, now>>
    BY <1>7, <1>a DEF DeprecateVariant, ModelVariant, Statuses, Inv, Typed
  <2> HIDE DEF w
  <2> QED  BY <1>a, <2>1, VariantStep DEF Open, LastingOf
<1>8. ASSUME NEW v \in Variants, NEW validators \in SUBSET Accounts, NEW isRejected \in BOOLEAN,
             NEW isReward \in BOOLEAN, SlashValidators(v, validators, isRejected, isReward)
      PROVE  Inv' /\ \A u \in Variants : DecidedStep(u)
  <2> DEFINE status == IF isRejected THEN "Rejected" ELSE variants[v].status
  <2>1. /\ variants' = [variants EXCEPT ![v] = Closed(variants[v], status)]
        /\ UNCHANGED <<policy, now>> /\ ChallengeActive(v)
    BY <1>8 DEF SlashValidators
  <2>2. activeChallenges' = [activeChallenges EXCEPT ![v] = [@ EXCEPT !.stake = 0, !.resolved = TRUE]]
    BY <1>8 DEF SlashValidators, CloseChallenge
  <2>3. status \in Statuses /\ status \notin Open /\ (status = "Finalized" => Is(v, {"Finalized"}))
    BY <1>a, <2>1 DEF ModelVariant, Statuses, LastingOf, Is, Open
  <2> HIDE DEF status
  <2> QED  BY <2>1, <2>2, <2>3, ClosingStep
<1>9. ASSUME NEW v \in Variants, NEW c \in Accounts \cup {NoAccount}, UpholdChallenge(v, c)
      PROVE  Inv' /\ \A u \in Variants : DecidedStep(u)
  <2>1. /\ variants' = [variants EXCEPT ![v] = Closed(variants[v], "Rejected")]
        /\ UNCHANGED <<policy, now>>
    BY <1>9 DEF UpholdChallenge
  <2>2. \/ UNCHANGED activeChallenges
        \/ /\ ChallengeActive(v)
           /\ activeChallenges' = [activeChallenges EXCEPT ![v] = [@ EXCEPT !.stake = 0, !.resolved = TRUE]]
    BY <1>9 DEF UpholdChallenge, Closing, CloseChallenge
  <2> QED  BY <2>1, <2>2, ClosingStep DEF Statuses, Open
<1>10. ASSUME NEW v \in Variants, NEW c \in Accounts \cup {NoAccount}, DismissChallenge(v, c)
       PROVE  Inv' /\ \A u \in Variants : DecidedStep(u)
  <2> DEFINE status == variants[v].status
  <2>1. /\ variants' = [variants EXCEPT ![v] = Closed(variants[v], status)]
        /\ UNCHANGED <<policy, now>>
    BY <1>10 DEF DismissChallenge, Inv, Typed
  <2>2. \/ UNCHANGED activeChallenges
        \/ /\ ChallengeActive(v)
           /\ activeChallenges' = [activeChallenges EXCEPT ![v] = [@ EXCEPT !.stake = 0, !.resolved = TRUE]]
    BY <1>10 DEF DismissChallenge, Closing, CloseChallenge
  <2>3. /\ status \in Statuses /\ (status = "Finalized" => Is(v, {"Finalized"}))
        /\ (ChallengeActive(v) \/ activeChallenges[v].resolved => status \notin Open)
    BY <1>a DEF ModelVariant, LastingOf, Is
  <2> HIDE DEF status
  <2> QED  BY <2>1, <2>2, <2>3, ClosingStep
<1>11. ASSUME NEW a \in Accounts, WithdrawStake(a)
       PROVE  Inv' /\ \A u \in Variants : DecidedStep(u)
  BY <1>0, <1>11 DEF WithdrawStake, Inv, Typed
<1>12. ASSUME UpdatePolicy PROVE Inv' /\ \A u \in Variants : DecidedStep(u)
  BY <1>0, <1>12 DEF UpdatePolicy, Inv, Typed
<1>13. ASSUME EmergencyWithdraw PROVE Inv' /\ \A u \in Variants : DecidedStep(u)
  BY <1>0, <1>13 DEF EmergencyWithdraw, Inv, Typed
<1>14. ASSUME Tick PROVE Inv' /\ \A u \in Variants : DecidedStep(u)
  BY <1>0, <1>14 DEF Tick, Inv, Typed
<1>15. ASSUME UNCHANGED vars PROVE Inv' /\ \A u \in Variants : DecidedStep(u)
  BY <1>0, <1>15 DEF vars, Inv, Typed
<1> QED
  BY <1>1, <1>2, <1>3, <1>4, <1>5, <1>6, <1>7, <1>8, <1>9, <1>10, <1>11, <1>12, <1>13, <1>14, <1>15 DEF Next

(* What DecidedForGood rests on, for every value of the constants: a         *)
(* challenge is only ever resolved together with the window of its variant,  *)
(* which is past its validation.                                             *)
THEOREM ResolvedIsClosed == Spec => []Lasting
<1>1. Inv /\ [Next]_vars => Inv'  BY EveryStep
<1>2. Inv => Lasting  BY DEF Inv
<1> QED  BY InitInv, <1>1, <1>2, PTL DEF Spec

(* DecidedForGood, for every value of the constants: neither the owner nor   *)
(* anybody else can reopen what a challenge has decided.                     *)
THEOREM ChallengesDecideForGood == Spec => DecidedForGood
<1>1. Inv /\ [Next]_vars => Inv'  BY EveryStep
<1>2. Inv /\ [Next]_vars =>
        [\A v \in Variants : activeChallenges[v].resolved =>
           /\ activeChallenges'[v] = activeChallenges[v]
           /\ Is(v, {"Finalized"})' => Is(v, {"Finalized"})]_vars
  BY EveryStep DEF DecidedStep
<1> QED  BY InitInv, <1>1, <1>2, PTL DEF Spec, DecidedForGood
-----------------------------------------------------------------------------
(* The pots.  What an account has at stake in one variant, role by role. *)
TrainerPart(v, a) ==
  IF variants[v].trainer = a /\ Trainer(v) \notin settled[v] THEN variants[v].trainerStake ELSE 0
ValidatorPart(v, a) == IF Validator(a) \notin settled[v] THEN variantValidators[v][a] ELSE 0
ChallengerPart(v, a) == IF activeChallenges[v].challenger = a THEN activeChallenges[v].stake ELSE 0
Part(v, a) == TrainerPart(v, a) + ValidatorPart(v, a) + ChallengerPart(v, a)

Pots == [Accounts -> Nat]

Ledgers ==
  /\ variantValidators \in [Variants -> Pots]
  /\ stakedBalances \in Pots
  /\ settled \in [Variants -> SUBSET ({"trainer", "validator"} \X Accounts)]
  /\ balance \in Nat

(* Every stake that has been settled was there, and a resolved challenge has *)
(* none left.                                                                *)
AccountedOf(v) ==
  /\ Exists(v) => variants[v].trainer \in Accounts
  /\ ~Exists(v) => variants[v].trainer = NoAccount /\ settled[v] = {}
  /\ \A a \in Accounts : Validator(a) \in settled[v] => a \in Stakers(v)
  /\ activeChallenges[v].resolved => activeChallenges[v].stake = 0
Accounted == \A v \in Variants : AccountedOf(v)

PotsInv == Inv /\ Ledgers /\ Accounted /\ PotsMatchStakes

LEMMA InitPotsInv == Init => PotsInv
<1> SUFFICES ASSUME Init PROVE PotsInv  OBVIOUS
<1> USE RegistryAssumption
<1>1. Ledgers  BY DEF Init, Ledgers, Pots
<1>2. Accounted  BY DEF Init, Accounted, AccountedOf, Exists, Is, NoVariant, NoChallenge
<1>3. ASSUME NEW a \in Accounts PROVE stakedBalances[a] = AtStake(a)
  <2> DEFINE f == [v \in Variants |->
          (IF variants[v].trainer = a /\ Trainer(v) \notin settled[v] THEN variants[v].trainerStake ELSE 0)
        + (IF Validator(a) \notin settled[v] THEN variantValidators[v][a] ELSE 0)
        + (IF activeChallenges[v].challenger = a THEN activeChallenges[v].stake ELSE 0)]
  <2>1. ASSUME NEW v \in Variants PROVE f[v] = 0
    BY DEF Init, NoVariant, NoChallenge
  <2> HIDE DEF f
  <2>2. Total(f, Variants) = 0  BY <2>1, TotalZero
  <2> QED  BY <2>2 DEF f, AtStake, Init
<1> QED  BY InitInv, <1>1, <1>2, <1>3 DEF PotsInv, PotsMatchStakes

LEMMA PartType ==
  ASSUME Inv, Ledgers, NEW v \in Variants, NEW a \in Accounts
  PROVE  /\ TrainerPart(v, a) \in Nat /\ ValidatorPart(v, a) \in Nat /\ ChallengerPart(v, a) \in Nat
         /\ Part(v, a) \in Nat
<1>1. variants[v].trainerStake \in Nat /\ variantValidators[v][a] \in Nat /\ activeChallenges[v].stake \in Nat
  BY DEF Inv, Typed, ModelVariant, ChallengeRecord, Ledgers, Pots
<1> QED  BY <1>1 DEF TrainerPart, ValidatorPart, ChallengerPart, Part

PartsTyped == \A v \in Variants, a \in Accounts : Part(v, a) \in Nat
PartsAddUp == \A a \in Accounts : AtStake(a) = Total([v \in Variants |-> Part(v, a)], Variants)

LEMMA PartTypes == Inv /\ Ledgers => PartsTyped
BY PartType DEF PartsTyped

LEMMA AtStakeParts == PartsAddUp
BY DEF PartsAddUp, AtStake, Part, TrainerPart, ValidatorPart, ChallengerPart

(* An undisturbed pot covers what its owner has at stake in any one variant. *)
LEMMA PotCovers ==
  ASSUME PotsInv, NEW v \in Variants, NEW a \in Accounts \ disturbed
  PROVE  Part(v, a) <= stakedBalances[a]
<1> DEFINE f == [u \in Variants |-> Part(u, a)]
<1>1. \A u \in Variants : f[u] \in Nat  BY PartType DEF PotsInv
<1>2. f[v] <= Total(f, Variants)  BY <1>1, TotalBound, RegistryAssumption
<1>3. f[v] = Part(v, a)  OBVIOUS
<1>4. stakedBalances[a] = AtStake(a)  BY DEF PotsInv, PotsMatchStakes
<1>5. AtStake(a) = Total(f, Variants)  BY AtStakeParts DEF PartsAddUp
<1> QED  BY <1>2, <1>3, <1>4, <1>5

(* A step on the stakes of one variant: an undisturbed pot has to move with  *)
(* them.                                                                     *)
Elsewhere(v) == \A u \in Variants \ {v} :
  /\ variants'[u] = variants[u] /\ variantValidators'[u] = variantValidators[u]
  /\ activeChallenges'[u] = activeChallenges[u] /\ settled'[u] = settled[u]

LEMMA PotsFollow ==
  ASSUME PotsInv, Inv', Ledgers', NEW v \in Variants, Elsewhere(v), AccountedOf(v)',
         disturbed \subseteq disturbed',
         \A a \in Accounts \ disturbed' :
           stakedBalances'[a] = stakedBalances[a] - Part(v, a) + Part(v, a)'
  PROVE  PotsInv'
<1>1. ASSUME NEW u \in Variants PROVE AccountedOf(u)'
  <2>1. AccountedOf(u)  BY DEF PotsInv, Accounted
  <2> QED  BY <2>1 DEF AccountedOf, Elsewhere, Exists, Is, Stakers
<1>2. ASSUME NEW a \in Accounts \ disturbed' PROVE stakedBalances'[a] = AtStake(a)'
  <2> DEFINE f == [u \in Variants |-> Part(u, a)]
             g == [u \in Variants |-> Part(u, a)']
  <2>1. \A u \in Variants : f[u] \in Nat  BY PartType DEF PotsInv
  <2>2. \A u \in Variants : g[u] \in Nat
    <3>1. (Inv /\ Ledgers => PartsTyped)'  BY PartTypes, PTL
    <3> QED  BY <3>1 DEF PartsTyped
  <2>3. \A u \in Variants \ {v} : g[u] = f[u]
    BY DEF Elsewhere, Part, TrainerPart, ValidatorPart, ChallengerPart, Trainer
  <2>4. AtStake(a) = Total(f, Variants)  BY AtStakeParts DEF PartsAddUp
  <2>5. AtStake(a)' = Total(g, Variants)
    <3>1. PartsAddUp'  BY AtStakeParts, PTL
    <3> QED  BY <3>1 DEF PartsAddUp
  <2>6. stakedBalances[a] = AtStake(a)  BY DEF PotsInv, PotsMatchStakes
  <2>7. f[v] = Part(v, a) /\ g[v] = Part(v, a)'  OBVIOUS
  <2>8. stakedBalances'[a] = stakedBalances[a] - Part(v, a) + Part(v, a)'  OBVIOUS
  <2> HIDE DEF f, g
  <2>9. Total(g, Variants) = Total(f, Variants) - f[v] + g[v]
    BY <2>1, <2>2, <2>3, TotalUpdate, RegistryAssumption
  <2> QED  BY <2>4, <2>5, <2>6, <2>7, <2>8, <2>9
<1> QED  BY <1>1, <1>2 DEF PotsInv, Accounted, PotsMatchStakes
-----------------------------------------------------------------------------
(* What a claim takes from a pot: all of it or nothing. *)
LEMMA MetFacts ==
  ASSUME NEW pot \in Nat, NEW claim \in Nat
  PROVE  /\ Met(pot, claim) \in Nat /\ pot - Met(pot, claim) \in Nat
         /\ claim <= pot => Met(pot, claim) = claim
BY DEF Met

LEMMA MetOfFacts ==
  ASSUME Ledgers, NEW pots \in Pots, NEW v \in Variants, NEW validators
  PROVE  /\ MetOf(pots, v, validators) \in Pots
         /\ Less(pots, MetOf(pots, v, validators)) \in Pots
         /\ \A a \in Accounts :
              pots[a] = Less(pots, MetOf(pots, v, validators))[a] + MetOf(pots, v, validators)[a]
<1> DEFINE met == MetOf(pots, v, validators)
<1>1. ASSUME NEW a \in Accounts PROVE met[a] \in Nat /\ pots[a] - met[a] \in Nat
  <2>1. pots[a] \in Nat /\ variantValidators[v][a] \in Nat  BY DEF Ledgers, Pots
  <2>2. met[a] = IF a \in validators THEN Met(pots[a], variantValidators[v][a]) ELSE 0  BY DEF MetOf
  <2> HIDE DEF met
  <2>3. CASE a \in validators  BY <2>1, <2>2, <2>3, MetFacts
  <2>4. CASE a \notin validators  BY <2>1, <2>2, <2>4
  <2> QED  BY <2>3, <2>4
<1>2. met = [a \in Accounts |-> met[a]]  BY DEF MetOf
<1>3. \A a \in Accounts : pots[a] \in Nat  BY DEF Pots
<1> HIDE DEF met
<1>4. met \in Pots /\ Less(pots, met) \in Pots  BY <1>1, <1>2 DEF Less, Pots
<1>5. ASSUME NEW a \in Accounts PROVE pots[a] = Less(pots, met)[a] + met[a]
  <2>1. Less(pots, met)[a] = pots[a] - met[a]  BY DEF Less
  <2> QED  BY <1>1, <1>3, <2>1
<1> QED  BY <1>4, <1>5 DEF met

LEMMA TrainerFacts ==
  ASSUME Inv, NEW pots \in Pots, NEW v \in Variants, variants[v].trainer \in Accounts
  PROVE  /\ MetOfTrainer(pots, v) \in Nat
         /\ LessOfTrainer(pots, v, MetOfTrainer(pots, v)) \in Pots
         /\ \A a \in Accounts : LessOfTrainer(pots, v, MetOfTrainer(pots, v))[a]
              = IF a = variants[v].trainer THEN pots[a] - MetOfTrainer(pots, v) ELSE pots[a]
         /\ variants[v].trainerStake <= pots[variants[v].trainer] => MetOfTrainer(pots, v) = variants[v].trainerStake
<1> DEFINE t == variants[v].trainer
           met == MetOfTrainer(pots, v)
<1>1. pots[t] \in Nat /\ variants[v].trainerStake \in Nat
  BY DEF Inv, Typed, ModelVariant, Pots
<1>2. met \in Nat /\ pots[t] - met \in Nat /\ (variants[v].trainerStake <= pots[t] => met = variants[v].trainerStake)
  BY <1>1, MetFacts DEF MetOfTrainer
<1> HIDE DEF met
<1>3. LessOfTrainer(pots, v, met) = [pots EXCEPT ![t] = pots[t] - met]  BY DEF LessOfTrainer, Pots
<1>4. LessOfTrainer(pots, v, met) \in Pots  BY <1>2, <1>3 DEF Pots
<1>5. \A a \in Accounts : LessOfTrainer(pots, v, met)[a] = IF a = t THEN pots[a] - met ELSE pots[a]
  BY <1>3 DEF Pots
<1> QED  BY <1>2, <1>4, <1>5 DEF met

(* What closing a challenge takes from the pots, and what it pays. *)
LEMMA CloseFacts ==
  ASSUME Inv, NEW v \in Variants, ChallengeActive(v), NEW pots \in Pots, NEW eth \in Int, eth >= 0,
         NEW isReward, CloseChallenge(v, pots, eth, isReward)
  PROVE  /\ activeChallenges[v].challenger \in Accounts /\ activeChallenges[v].stake \in Nat
         /\ activeChallenges' = [activeChallenges EXCEPT ![v] = [@ EXCEPT !.stake = 0, !.resolved = TRUE]]
         /\ stakedBalances' \in Pots /\ balance' \in Nat
         /\ \A a \in Accounts : stakedBalances'[a]
              = IF a = activeChallenges[v].challenger /\ activeChallenges[v].stake <= pots[a]
                THEN pots[a] - activeChallenges[v].stake ELSE pots[a]
         /\ \/ /\ activeChallenges[v].stake <= pots[activeChallenges[v].challenger]
               /\ \/ eth - balance' = activeChallenges[v].stake
                  \/ isReward /\ eth - balance' = 2 * activeChallenges[v].stake
            \/ activeChallenges[v].stake > pots[activeChallenges[v].challenger] /\ balance' = eth
<1> DEFINE c == activeChallenges[v]
<1>1. c.challenger \in Accounts /\ c.stake \in Nat
  BY DEF Inv, Typed, ChallengeRecord, ChallengeActive
<1>2. pots[c.challenger] \in Nat  BY <1>1 DEF Pots
<1>3. activeChallenges' = [activeChallenges EXCEPT ![v] = [@ EXCEPT !.stake = 0, !.resolved = TRUE]]
  BY DEF CloseChallenge
<1> DEFINE payout == IF isReward /\ eth >= 2 * c.stake THEN 2 * c.stake ELSE c.stake
<1>4. \/ /\ pots[c.challenger] >= c.stake
         /\ eth >= payout /\ balance' = eth - payout
         /\ stakedBalances' = [pots EXCEPT ![c.challenger] = pots[c.challenger] - c.stake]
      \/ ~(pots[c.challenger] >= c.stake) /\ balance' = eth /\ stakedBalances' = pots
  BY DEF CloseChallenge, Pots
<1>5. payout \in Nat /\ (payout = c.stake \/ (isReward /\ payout = 2 * c.stake))  BY <1>1
<1> HIDE DEF c, payout
<1>6. CASE ~(pots[c.challenger] >= c.stake) /\ balance' = eth /\ stakedBalances' = pots
  <2>1. c.stake > pots[c.challenger] /\ ~(c.stake <= pots[c.challenger])  BY <1>1, <1>2, <1>6
  <2> QED  BY <1>1, <1>3, <1>6, <2>1 DEF c
<1>7. CASE /\ pots[c.challenger] >= c.stake
           /\ eth >= payout /\ balance' = eth - payout
           /\ stakedBalances' = [pots EXCEPT ![c.challenger] = pots[c.challenger] - c.stake]
  <2>1. c.stake <= pots[c.challenger] /\ pots[c.challenger] - c.stake \in Nat  BY <1>1, <1>2, <1>7
  <2>2. balance' \in Nat /\ eth - balance' = payout  BY <1>5, <1>7
  <2>3. stakedBalances' \in Pots  BY <1>7, <2>1 DEF Pots
  <2>4. \A a \in Accounts : stakedBalances'[a]
          = IF a = c.challenger /\ c.stake <= pots[a] THEN pots[a] - c.stake ELSE pots[a]
    BY <1>7, <2>1 DEF Pots
  <2> QED  BY <1>1, <1>3, <1>5, <2>1, <2>2, <2>3, <2>4 DEF c
<1> QED  BY <1>4, <1>6, <1>7

LEMMA ClosingFacts ==
  ASSUME Inv, NEW v \in Variants, NEW pots \in Pots, NEW eth \in Int, eth >= 0,
         NEW isReward, Closing(v, pots, eth, isReward)
  PROVE  /\ stakedBalances' \in Pots /\ balance' \in Nat
         /\ \/ /\ ~ChallengeActive(v) /\ UNCHANGED activeChallenges
               /\ stakedBalances' = pots /\ balance' = eth
            \/ /\ activeChallenges[v].challenger \in Accounts /\ activeChallenges[v].stake \in Nat
               /\ activeChallenges' = [activeChallenges EXCEPT ![v] =
                    [activeChallenges[v] EXCEPT !.stake = 0, !.resolved = TRUE]]
               /\ \A a \in Accounts : stakedBalances'[a]
                    = IF a = activeChallenges[v].challenger /\ activeChallenges[v].stake <= pots[a]
                      THEN pots[a] - activeChallenges[v].stake ELSE pots[a]
               /\ \/ /\ activeChallenges[v].stake <= pots[activeChallenges[v].challenger]
                     /\ \/ eth - balance' = activeChallenges[v].stake
                        \/ isReward /\ eth - balance' = 2 * activeChallenges[v].stake
                  \/ activeChallenges[v].stake > pots[activeChallenges[v].challenger] /\ balance' = eth
<1>1. CASE ChallengeActive(v)
  <2>1. CloseChallenge(v, pots, eth, isReward)  BY <1>1 DEF Closing
  <2>2. activeChallenges' = [activeChallenges EXCEPT ![v] =
          [activeChallenges[v] EXCEPT !.stake = 0, !.resolved = TRUE]]
    BY <2>1 DEF CloseChallenge, Inv, Typed
  <2> QED  BY <1>1, <2>1, <2>2, CloseFacts
<1>2. CASE ~ChallengeActive(v)
  BY <1>2 DEF Closing
<1> QED  BY <1>1, <1>2

(* What settling stakes does to the parts of an account that stays           *)
(* undisturbed: those settled were there in full, and are gone.              *)
LEMMA SettleFacts ==
  ASSUME PotsInv, NEW v \in Variants, NEW stakes, NEW others, Settle(v, stakes, others),
         stakes \subseteq {"trainer", "validator"} \X Accounts,
         variants'[v].trainer = variants[v].trainer, variants'[v].trainerStake = variants[v].trainerStake,
         variantValidators'[v] = variantValidators[v],
         NEW a \in Accounts \ disturbed'
  PROVE  /\ a \notin disturbed /\ a \notin others
         /\ IF variants[v].trainer = a /\ Trainer(v) \in stakes
            THEN TrainerPart(v, a) = variants[v].trainerStake /\ TrainerPart(v, a)' = 0
            ELSE TrainerPart(v, a)' = TrainerPart(v, a)
         /\ IF Validator(a) \in stakes
            THEN ValidatorPart(v, a) = variantValidators[v][a] /\ ValidatorPart(v, a)' = 0
            ELSE ValidatorPart(v, a)' = ValidatorPart(v, a)
<1>1. settled'[v] = settled[v] \cup stakes  BY DEF Settle, PotsInv, Ledgers
<1>2. a \notin disturbed /\ a \notin others /\ \A s \in stakes \cap settled[v] : s[2] # a
  BY DEF Settle
<1>3. Trainer(v)' = Trainer(v)  BY DEF Trainer
<1>4. ASSUME variants[v].trainer = a, Trainer(v) \in stakes PROVE Trainer(v) \notin settled[v]
  BY <1>2, <1>4 DEF Trainer
<1>5. ASSUME Validator(a) \in stakes PROVE Validator(a) \notin settled[v]
  BY <1>2, <1>5 DEF Validator
<1>6. IF variants[v].trainer = a /\ Trainer(v) \in stakes
      THEN TrainerPart(v, a) = variants[v].trainerStake /\ TrainerPart(v, a)' = 0
      ELSE TrainerPart(v, a)' = TrainerPart(v, a)
  BY <1>1, <1>3, <1>4 DEF TrainerPart
<1>7. IF Validator(a) \in stakes
      THEN ValidatorPart(v, a) = variantValidators[v][a] /\ ValidatorPart(v, a)' = 0
      ELSE ValidatorPart(v, a)' = ValidatorPart(v, a)
  BY <1>1, <1>5 DEF ValidatorPart, Validator
<1> QED  BY <1>2, <1>6, <1>7
-----------------------------------------------------------------------------
(* Steps that stake. *)
LEMMA RegisterPots ==
  ASSUME PotsInv, Inv', NEW v \in Variants, NEW s \in Stakes, NEW a \in Trainers, RegisterVariant(a, v, s)
  PROVE  PotsInv'
<1> USE RegistryAssumption
<1> DEFINE w == [NoVariant EXCEPT !.trainer = a, !.trainerStake = s, !.status = "Submitted"]
<1>1. /\ variants' = [variants EXCEPT ![v] = w]
      /\ stakedBalances' = [stakedBalances EXCEPT ![a] = stakedBalances[a] + s] /\ balance' = balance + s
      /\ UNCHANGED <<variantValidators, activeChallenges, settled, disturbed>>
  BY DEF RegisterVariant, Stake, PotsInv, Ledgers, Pots
<1>2. w.trainer = a /\ w.trainerStake = s /\ w.status = "Submitted"  BY DEF NoVariant
<1>3. a \in Accounts /\ s \in Nat  OBVIOUS
<1> HIDE DEF w
<1>4. variants'[v] = w  BY <1>1 DEF PotsInv, Inv, Typed
<1>5. \A b \in Accounts : stakedBalances[b] \in Nat /\ stakedBalances'[b] = IF b = a THEN stakedBalances[b] + s ELSE stakedBalances[b]
  BY <1>1 DEF PotsInv, Ledgers, Pots
<1>6. Ledgers'
  <2>1. stakedBalances' \in Pots
    <3>1. stakedBalances[a] + s \in Nat  BY <1>3, <1>5
    <3> QED  BY <1>1, <3>1 DEF PotsInv, Ledgers, Pots
  <2>2. balance' \in Nat  BY <1>1, <1>3 DEF PotsInv, Ledgers
  <2> QED  BY <1>1, <2>1, <2>2 DEF PotsInv, Ledgers
<1>7. Elsewhere(v)  BY <1>1 DEF Elsewhere, PotsInv, Inv, Typed
<1>8. variants[v].trainer = NoAccount /\ settled[v] = {}
  BY DEF RegisterVariant, PotsInv, Accounted, AccountedOf
<1>9. AccountedOf(v)'
  <2>1. AccountedOf(v)  BY DEF PotsInv, Accounted
  <2> QED  BY <1>1, <1>2, <1>3, <1>4, <2>1 DEF AccountedOf, Exists, Is, Stakers
<1>10. ASSUME NEW b \in Accounts \ disturbed' PROVE stakedBalances'[b] = stakedBalances[b] - Part(v, b) + Part(v, b)'
  <2>1. TrainerPart(v, b) = 0  BY <1>8 DEF TrainerPart
  <2>2. TrainerPart(v, b)' = IF b = a THEN s ELSE 0  BY <1>1, <1>2, <1>4, <1>8 DEF TrainerPart
  <2>3. ValidatorPart(v, b)' = ValidatorPart(v, b) /\ ChallengerPart(v, b)' = ChallengerPart(v, b)
    BY <1>1 DEF ValidatorPart, ChallengerPart
  <2>4. ValidatorPart(v, b) \in Nat /\ ChallengerPart(v, b) \in Nat  BY PartType DEF PotsInv
  <2> QED  BY <1>3, <1>5, <2>1, <2>2, <2>3, <2>4 DEF Part
<1> QED  BY <1>1, <1>6, <1>7, <1>9, <1>10, PotsFollow

LEMMA ValidationPots ==
  ASSUME PotsInv, Inv', NEW v \in Variants, NEW s \in Stakes, NEW a \in Validators, StakeForValidation(a, v, s)
  PROVE  PotsInv'
<1> USE RegistryAssumption
<1> DEFINE w == [variants[v] EXCEPT !.status = "Validating"]
<1>0. variants[v] \in ModelVariant /\ variantValidators[v] \in Pots  BY DEF PotsInv, Inv, Typed, Ledgers
<1>1. /\ variants' = [variants EXCEPT ![v] = w]
      /\ stakedBalances' = [stakedBalances EXCEPT ![a] = stakedBalances[a] + s] /\ balance' = balance + s
      /\ variantValidators' = [variantValidators EXCEPT ![v] = [variantValidators[v] EXCEPT ![a] = s]]
      /\ UNCHANGED <<activeChallenges, settled, disturbed>>
  BY DEF StakeForValidation, Stake, PotsInv, Ledgers, Pots, Inv, Typed
<1>2. w.trainer = variants[v].trainer /\ w.trainerStake = variants[v].trainerStake /\ w.status = "Validating"
  BY <1>0 DEF ModelVariant
<1>3. a \in Accounts /\ s \in Nat /\ s # 0  OBVIOUS
<1> HIDE DEF w
<1>4. variants'[v] = w  BY <1>1 DEF PotsInv, Inv, Typed
<1>5. \A b \in Accounts : stakedBalances[b] \in Nat /\ stakedBalances'[b] = IF b = a THEN stakedBalances[b] + s ELSE stakedBalances[b]
  BY <1>1 DEF PotsInv, Ledgers, Pots
<1>a. \A b \in Accounts : variantValidators'[v][b] = IF b = a THEN s ELSE variantValidators[v][b]
  BY <1>0, <1>1 DEF PotsInv, Ledgers, Pots
<1>6. Ledgers'
  <2>1. stakedBalances' \in Pots
    <3>1. stakedBalances[a] + s \in Nat  BY <1>3, <1>5
    <3> QED  BY <1>1, <3>1 DEF PotsInv, Ledgers, Pots
  <2>2. balance' \in Nat  BY <1>1, <1>3 DEF PotsInv, Ledgers
  <2>3. variantValidators' \in [Variants -> Pots]
    <3>1. [variantValidators[v] EXCEPT ![a] = s] \in Pots  BY <1>0, <1>3 DEF Pots
    <3> QED  BY <1>1, <3>1 DEF PotsInv, Ledgers
  <2> QED  BY <1>1, <2>1, <2>2, <2>3 DEF PotsInv, Ledgers
<1>7. Elsewhere(v)  BY <1>1 DEF Elsewhere, PotsInv, Inv, Typed, Ledgers
<1>8. AccountedOf(v) /\ Exists(v) /\ variantValidators[v][a] = 0
  BY <1>3 DEF StakeForValidation, PotsInv, Accounted, Exists, Is, Stakers
<1>9. AccountedOf(v)'
  BY <1>1, <1>2, <1>3, <1>4, <1>8, <1>a DEF AccountedOf, Exists, Is, Stakers, Validator
<1>10. ASSUME NEW b \in Accounts \ disturbed' PROVE stakedBalances'[b] = stakedBalances[b] - Part(v, b) + Part(v, b)'
  <2>1. TrainerPart(v, b)' = TrainerPart(v, b) /\ ChallengerPart(v, b)' = ChallengerPart(v, b)
    BY <1>1, <1>2, <1>4 DEF TrainerPart, ChallengerPart, Trainer
  <2>2. Validator(a) \notin settled[v]  BY <1>3, <1>8 DEF AccountedOf, Stakers
  <2>3. ValidatorPart(v, b)' = IF b = a THEN s ELSE ValidatorPart(v, b)
    BY <1>1, <1>a, <2>2 DEF ValidatorPart, Validator
  <2>4. b = a => ValidatorPart(v, b) = 0  BY <1>8 DEF ValidatorPart
  <2>5. TrainerPart(v, b) \in Nat /\ ValidatorPart(v, b) \in Nat /\ ChallengerPart(v, b) \in Nat
    BY PartType DEF PotsInv
  <2> QED  BY <1>3, <1>5, <2>1, <2>3, <2>4, <2>5 DEF Part
<1> QED  BY <1>1, <1>6, <1>7, <1>9, <1>10, PotsFollow

LEMMA ChallengePots ==
  ASSUME PotsInv, Inv', NEW v \in Variants, NEW s \in Stakes, NEW a \in Challengers, StartChallenge(a, v, s)
  PROVE  PotsInv'
<1> USE RegistryAssumption
<1> DEFINE c == [challenger |-> a, stake |-> s, resolved |-> FALSE]
<1>1. /\ activeChallenges' = [activeChallenges EXCEPT ![v] = c]
      /\ stakedBalances' = [stakedBalances EXCEPT ![a] = stakedBalances[a] + s] /\ balance' = balance + s
      /\ UNCHANGED <<variants, variantValidators, settled, disturbed>>
  BY DEF StartChallenge, Stake, PotsInv, Ledgers, Pots
<1>2. c.challenger = a /\ c.stake = s /\ c.resolved = FALSE  OBVIOUS
<1>3. a \in Accounts /\ s \in Nat  OBVIOUS
<1> HIDE DEF c
<1>4. activeChallenges'[v] = c  BY <1>1 DEF PotsInv, Inv, Typed
<1>5. \A b \in Accounts : stakedBalances[b] \in Nat /\ stakedBalances'[b] = IF b = a THEN stakedBalances[b] + s ELSE stakedBalances[b]
  BY <1>1 DEF PotsInv, Ledgers, Pots
<1>6. Ledgers'
  <2>1. stakedBalances' \in Pots
    <3>1. stakedBalances[a] + s \in Nat  BY <1>3, <1>5
    <3> QED  BY <1>1, <3>1 DEF PotsInv, Ledgers, Pots
  <2>2. balance' \in Nat  BY <1>1, <1>3 DEF PotsInv, Ledgers
  <2> QED  BY <1>1, <2>1, <2>2 DEF PotsInv, Ledgers
<1>7. Elsewhere(v)  BY <1>1 DEF Elsewhere, PotsInv, Inv, Typed
<1>8. AccountedOf(v)  BY DEF PotsInv, Accounted
<1>9. AccountedOf(v)'  BY <1>1, <1>2, <1>4, <1>8 DEF AccountedOf, Exists, Is, Stakers
<1>10. ASSUME NEW b \in Accounts \ disturbed' PROVE stakedBalances'[b] = stakedBalances[b] - Part(v, b) + Part(v, b)'
  <2>1. TrainerPart(v, b)' = TrainerPart(v, b) /\ ValidatorPart(v, b)' = ValidatorPart(v, b)
    BY <1>1 DEF TrainerPart, ValidatorPart, Trainer
  <2>2. ChallengerPart(v, b) = 0  BY <1>8 DEF StartChallenge, ChallengerPart, AccountedOf
  <2>3. ChallengerPart(v, b)' = IF b = a THEN s ELSE 0  BY <1>2, <1>4 DEF ChallengerPart
  <2>4. TrainerPart(v, b) \in Nat /\ ValidatorPart(v, b) \in Nat  BY PartType DEF PotsInv
  <2> QED  BY <1>3, <1>5, <2>1, <2>2, <2>3, <2>4 DEF Part
<1> QED  BY <1>1, <1>6, <1>7, <1>9, <1>10, PotsFollow
-----------------------------------------------------------------------------
(* Steps that settle. *)
LEMMA RejectPots ==
  ASSUME PotsInv, Inv', NEW v \in Variants, Reject(v)
  PROVE  PotsInv'
<1> USE RegistryAssumption
<1> DEFINE w == [variants[v] EXCEPT !.status = "Rejected"]
           t == variants[v].trainer
           slashed == MetOfTrainer(stakedBalances, v)
<1>0. variants[v] \in ModelVariant /\ AccountedOf(v) /\ t \in Accounts
  BY DEF Reject, PotsInv, Inv, Typed, Accounted, AccountedOf, Exists, Is
<1>1. /\ variants' = [variants EXCEPT ![v] = w]
      /\ stakedBalances' = LessOfTrainer(stakedBalances, v, slashed)
      /\ balance >= slashed /\ balance' = balance - slashed
      /\ Settle(v, {Trainer(v)}, {})
      /\ UNCHANGED <<variantValidators, activeChallenges>>
  BY DEF Reject, PotsInv, Inv, Typed
<1>2. w.trainer = t /\ w.trainerStake = variants[v].trainerStake /\ w.status = "Rejected"
  BY <1>0 DEF ModelVariant
<1> HIDE DEF w
<1>3. variants'[v] = w  BY <1>1 DEF PotsInv, Inv, Typed
<1>4. /\ slashed \in Nat /\ stakedBalances' \in Pots
      /\ \A a \in Accounts : stakedBalances'[a] = IF a = t THEN stakedBalances[a] - slashed ELSE stakedBalances[a]
      /\ variants[v].trainerStake <= stakedBalances[t] => slashed = variants[v].trainerStake
  BY <1>0, <1>1, TrainerFacts DEF PotsInv, Ledgers
<1> HIDE DEF slashed
<1>5. {Trainer(v)} \subseteq {"trainer", "validator"} \X Accounts  BY <1>0 DEF Trainer
<1>6. Ledgers'
  <2>1. balance' \in Nat  BY <1>1, <1>4 DEF PotsInv, Ledgers
  <2>2. settled' \in [Variants -> SUBSET ({"trainer", "validator"} \X Accounts)]
    BY <1>1, <1>5 DEF Settle, PotsInv, Ledgers
  <2> QED  BY <1>1, <1>4, <2>1, <2>2 DEF PotsInv, Ledgers
<1>7. Elsewhere(v)  BY <1>1 DEF Elsewhere, Settle, PotsInv, Inv, Typed, Ledgers
<1>8. settled'[v] = settled[v] \cup {Trainer(v)}  BY <1>1 DEF Settle, PotsInv, Ledgers
<1>9. AccountedOf(v)'
  BY <1>0, <1>1, <1>2, <1>3, <1>8 DEF AccountedOf, Exists, Is, Stakers, Trainer, Validator
<1>10. ASSUME NEW a \in Accounts \ disturbed' PROVE stakedBalances'[a] = stakedBalances[a] - Part(v, a) + Part(v, a)'
  <2>1. /\ a \notin disturbed
        /\ IF t = a
           THEN TrainerPart(v, a) = variants[v].trainerStake /\ TrainerPart(v, a)' = 0
           ELSE TrainerPart(v, a)' = TrainerPart(v, a)
        /\ ValidatorPart(v, a)' = ValidatorPart(v, a)
    <3>1. Trainer(v) \in {Trainer(v)} /\ Validator(a) \notin {Trainer(v)}  BY DEF Trainer, Validator
    <3> QED  BY <1>1, <1>2, <1>3, <1>5, <3>1, SettleFacts
  <2>2. ChallengerPart(v, a)' = ChallengerPart(v, a)  BY <1>1 DEF ChallengerPart
  <2>3. /\ TrainerPart(v, a) \in Nat /\ ValidatorPart(v, a) \in Nat /\ ChallengerPart(v, a) \in Nat
        /\ stakedBalances[a] \in Nat
    BY PartType DEF PotsInv, Ledgers, Pots
  <2>4. Part(v, a) <= stakedBalances[a]  BY <2>1, PotCovers
  <2>5. t = a => variants[v].trainerStake <= stakedBalances[t]  BY <2>1, <2>3, <2>4 DEF Part
  <2>6. stakedBalances'[a] = IF a = t THEN stakedBalances[a] - TrainerPart(v, a) ELSE stakedBalances[a]
    BY <1>4, <2>1, <2>5
  <2> HIDE DEF t
  <2> QED  BY <2>1, <2>2, <2>3, <2>6 DEF Part
<1>11. disturbed \subseteq disturbed'  BY <1>1 DEF Settle
<1> QED  BY <1>6, <1>7, <1>9, <1>10, <1>11, PotsFollow

LEMMA FinalizePots ==
  ASSUME PotsInv, Inv', NEW v \in Variants, FinalizeVariant(v)
  PROVE  PotsInv'
<1> USE RegistryAssumption
<1> DEFINE w == Closed(variants[v], "Finalized")
           t == variants[v].trainer
           first == MetOfTrainer(stakedBalances, v)
           rest == LessOfTrainer(stakedBalances, v, first)
           paying == Stakers(v) \ isSlashed[v]
           second == MetOf(rest, v, paying)
           stakes == {Trainer(v)} \cup {Validator(a) : a \in paying}
<1>0. variants[v] \in ModelVariant /\ AccountedOf(v) /\ t \in Accounts
  BY DEF FinalizeVariant, PotsInv, Inv, Typed, Accounted, AccountedOf, Exists, Is
<1>1. /\ variants' = [variants EXCEPT ![v] = w]
      /\ stakedBalances' = Less(rest, second)
      /\ balance >= first + Total(second, Accounts) /\ balance' = balance - (first + Total(second, Accounts))
      /\ Settle(v, stakes, {})
      /\ UNCHANGED <<variantValidators, activeChallenges>>
  BY DEF FinalizeVariant, PotsInv, Inv, Typed
<1>2. w.trainer = t /\ w.trainerStake = variants[v].trainerStake /\ w.status = "Finalized"
  BY <1>0 DEF ModelVariant, Closed
<1> HIDE DEF w
<1>3. variants'[v] = w  BY <1>1 DEF PotsInv, Inv, Typed
<1>4. /\ first \in Nat /\ rest \in Pots
      /\ \A a \in Accounts : rest[a] = IF a = t THEN stakedBalances[a] - first ELSE stakedBalances[a]
      /\ variants[v].trainerStake <= stakedBalances[t] => first = variants[v].trainerStake
  BY <1>0, TrainerFacts DEF PotsInv, Ledgers
<1> HIDE DEF first, rest
<1>a. /\ second \in Pots /\ Less(rest, second) \in Pots
      /\ \A a \in Accounts : rest[a] = Less(rest, second)[a] + second[a]
  BY <1>4, MetOfFacts DEF PotsInv
<1>b. \A a \in Accounts : second[a] = IF a \in paying THEN Met(rest[a], variantValidators[v][a]) ELSE 0
  BY DEF MetOf
<1> HIDE DEF second
<1>5. stakes \subseteq {"trainer", "validator"} \X Accounts  BY <1>0 DEF Trainer, Validator, Stakers
<1>c. /\ Trainer(v) \in stakes
      /\ \A a \in Accounts : Validator(a) \in stakes <=> a \in paying
  BY DEF Trainer, Validator
<1> HIDE DEF stakes
<1>6. Ledgers'
  <2>1. Total(second, Accounts) \in Nat  BY <1>a, TotalType DEF Pots
  <2>2. balance' \in Nat  BY <1>1, <1>4, <2>1 DEF PotsInv, Ledgers
  <2>3. settled' \in [Variants -> SUBSET ({"trainer", "validator"} \X Accounts)]
    BY <1>1, <1>5 DEF Settle, PotsInv, Ledgers
  <2> QED  BY <1>1, <1>a, <2>2, <2>3 DEF PotsInv, Ledgers
<1>7. Elsewhere(v)  BY <1>1 DEF Elsewhere, Settle, PotsInv, Inv, Typed, Ledgers
<1>8. settled'[v] = settled[v] \cup stakes  BY <1>1 DEF Settle, PotsInv, Ledgers
<1>9. AccountedOf(v)'
  BY <1>0, <1>1, <1>2, <1>3, <1>8, <1>c DEF AccountedOf, Exists, Is, Stakers, Validator
<1>10. ASSUME NEW a \in Accounts \ disturbed' PROVE stakedBalances'[a] = stakedBalances[a] - Part(v, a) + Part(v, a)'
  <2>1. /\ a \notin disturbed
        /\ IF t = a
           THEN TrainerPart(v, a) = variants[v].trainerStake /\ TrainerPart(v, a)' = 0
           ELSE TrainerPart(v, a)' = TrainerPart(v, a)
        /\ IF a \in paying
           THEN ValidatorPart(v, a) = variantValidators[v][a] /\ ValidatorPart(v, a)' = 0
           ELSE ValidatorPart(v, a)' = ValidatorPart(v, a)
    BY <1>1, <1>2, <1>3, <1>5, <1>c, SettleFacts
  <2>2. ChallengerPart(v, a)' = ChallengerPart(v, a)  BY <1>1 DEF ChallengerPart
  <2>3. /\ TrainerPart(v, a) \in Nat /\ ValidatorPart(v, a) \in Nat /\ ChallengerPart(v, a) \in Nat
        /\ stakedBalances[a] \in Nat
    BY PartType DEF PotsInv, Ledgers, Pots
  <2>4. Part(v, a) <= stakedBalances[a]  BY <2>1, PotCovers
  <2>5. t = a => variants[v].trainerStake <= stakedBalances[t]  BY <2>1, <2>3, <2>4 DEF Part
  <2>6. rest[a] = IF a = t THEN stakedBalances[a] - TrainerPart(v, a) ELSE stakedBalances[a]
    BY <1>4, <2>1, <2>5
  <2> HIDE DEF t, paying
  <2>7. ASSUME a \in paying PROVE second[a] = ValidatorPart(v, a)
    <3>1. ValidatorPart(v, a) <= rest[a] /\ rest[a] \in Nat  BY <2>3, <2>4, <2>6 DEF Part
    <3>2. Met(rest[a], ValidatorPart(v, a)) = ValidatorPart(v, a)  BY <2>3, <3>1, MetFacts
    <3> QED  BY <1>b, <2>1, <2>7, <3>2
  <2>8. stakedBalances'[a] = IF a \in paying THEN rest[a] - ValidatorPart(v, a) ELSE rest[a]
    <3>1. stakedBalances'[a] = rest[a] - second[a] /\ rest[a] \in Nat
      BY <1>1, <1>4 DEF Less, Pots
    <3> QED  BY <1>b, <2>7, <3>1
  <2> QED  BY <2>1, <2>2, <2>3, <2>6, <2>8 DEF Part
<1>11. disturbed \subseteq disturbed'  BY <1>1 DEF Settle
<1> QED  BY <1>6, <1>7, <1>9, <1>10, <1>11, PotsFollow

(* Slashing validators, then the trainer: an undisturbed account loses what  *)
(* it had at stake.                                                          *)
LEMMA ValidatorSlashed ==
  ASSUME PotsInv, NEW v \in Variants, NEW a \in Accounts \ disturbed, NEW validators, NEW pots \in Pots,
         pots[a] = stakedBalances[a],
         a \in validators => ValidatorPart(v, a) = variantValidators[v][a]
  PROVE  Less(pots, MetOf(pots, v, validators))[a]
           = IF a \in validators THEN pots[a] - ValidatorPart(v, a) ELSE pots[a]
<1> DEFINE met == MetOf(pots, v, validators)
<1>1. /\ TrainerPart(v, a) \in Nat /\ ValidatorPart(v, a) \in Nat /\ ChallengerPart(v, a) \in Nat
      /\ pots[a] \in Nat
  BY PartType DEF PotsInv, Pots
<1>2. Part(v, a) <= stakedBalances[a]  BY PotCovers
<1>3. ValidatorPart(v, a) <= pots[a]  BY <1>1, <1>2 DEF Part
<1>4. met[a] = IF a \in validators THEN Met(pots[a], variantValidators[v][a]) ELSE 0  BY DEF MetOf
<1> HIDE DEF met
<1>5. a \in validators => met[a] = ValidatorPart(v, a)  BY <1>1, <1>3, <1>4, MetFacts
<1>6. Less(pots, met)[a] = pots[a] - met[a]  BY DEF Less
<1>7. Less(pots, met)[a] = IF a \in validators THEN pots[a] - ValidatorPart(v, a) ELSE pots[a]
  BY <1>1, <1>4, <1>5, <1>6
<1> QED  BY <1>7 DEF met

LEMMA TrainerSlashed ==
  ASSUME PotsInv, NEW v \in Variants, NEW a \in Accounts \ disturbed, NEW validators, NEW rest \in Pots,
         variants[v].trainer \in Accounts,
         rest[a] = IF a \in validators THEN stakedBalances[a] - ValidatorPart(v, a) ELSE stakedBalances[a],
         variants[v].trainer = a => TrainerPart(v, a) = variants[v].trainerStake
  PROVE  LessOfTrainer(rest, v, MetOfTrainer(rest, v))[a]
           = IF variants[v].trainer = a THEN rest[a] - TrainerPart(v, a) ELSE rest[a]
<1> DEFINE met == MetOfTrainer(rest, v)
           t == variants[v].trainer
<1>1. /\ TrainerPart(v, a) \in Nat /\ ValidatorPart(v, a) \in Nat /\ ChallengerPart(v, a) \in Nat
      /\ stakedBalances[a] \in Nat
  BY PartType DEF PotsInv, Pots, Ledgers
<1>2. Part(v, a) <= stakedBalances[a]  BY PotCovers
<1>3. TrainerPart(v, a) <= rest[a]  BY <1>1, <1>2 DEF Part
<1>4. /\ LessOfTrainer(rest, v, met)[a] = IF a = t THEN rest[a] - met ELSE rest[a]
      /\ variants[v].trainerStake <= rest[t] => met = variants[v].trainerStake
  BY TrainerFacts DEF PotsInv
<1> HIDE DEF met
<1>5. t = a => met = TrainerPart(v, a)  BY <1>3, <1>4
<1>6. LessOfTrainer(rest, v, met)[a] = IF t = a THEN rest[a] - TrainerPart(v, a) ELSE rest[a]
  BY <1>4, <1>5
<1> QED  BY <1>6 DEF met

(* Whatever was settled has been taken from the pots: closing the challenge  *)
(* takes the rest.                                                           *)
LEMMA ClosingPots ==
  ASSUME PotsInv, Inv', NEW v \in Variants, NEW stakes, NEW others,
         stakes \subseteq {"trainer", "validator"} \X Accounts,
         NEW pots \in Pots, NEW eth \in Int, eth >= 0, NEW isReward,
         NEW status, status # "None", Exists(v),
         variants' = [variants EXCEPT ![v] = Closed(variants[v], status)],
         UNCHANGED variantValidators,
         Closing(v, pots, eth, isReward),
         Settle(v, stakes, others),
         \A a \in Accounts : Validator(a) \in stakes => a \in Stakers(v),
         \A a \in Accounts \ disturbed' : pots[a] = stakedBalances[a]
             - (IF Validator(a) \in stakes THEN ValidatorPart(v, a) ELSE 0)
             - (IF variants[v].trainer = a /\ Trainer(v) \in stakes THEN TrainerPart(v, a) ELSE 0)
  PROVE  PotsInv'
<1> USE RegistryAssumption
<1> DEFINE w == Closed(variants[v], status)
           c == activeChallenges[v]
           d == [activeChallenges[v] EXCEPT !.stake = 0, !.resolved = TRUE]
<1>0. variants[v] \in ModelVariant /\ c \in ChallengeRecord /\ AccountedOf(v) /\ variants[v].trainer \in Accounts
  BY DEF PotsInv, Inv, Typed, Accounted, AccountedOf
<1>1. w.trainer = variants[v].trainer /\ w.trainerStake = variants[v].trainerStake /\ w.status = status
  BY <1>0 DEF ModelVariant, Closed
<1>2. d.challenger = c.challenger /\ d.stake = 0 /\ d.resolved = TRUE  BY <1>0 DEF ChallengeRecord
<1> HIDE DEF w, d
<1>3. variants'[v] = w  BY DEF PotsInv, Inv, Typed, w
<1>4. /\ stakedBalances' \in Pots /\ balance' \in Nat
      /\ \/ /\ ~ChallengeActive(v) /\ UNCHANGED activeChallenges /\ stakedBalances' = pots
         \/ /\ c.challenger \in Accounts /\ c.stake \in Nat
            /\ activeChallenges' = [activeChallenges EXCEPT ![v] = d]
            /\ \A a \in Accounts : stakedBalances'[a]
                 = IF a = c.challenger /\ c.stake <= pots[a] THEN pots[a] - c.stake ELSE pots[a]
  BY ClosingFacts DEF PotsInv, d
<1>5. Ledgers'
  <2>1. settled' \in [Variants -> SUBSET ({"trainer", "validator"} \X Accounts)]
    BY DEF Settle, PotsInv, Ledgers
  <2> QED  BY <1>4, <2>1 DEF PotsInv, Ledgers
<1>6. Elsewhere(v)
  BY <1>4 DEF Elsewhere, Settle, PotsInv, Inv, Typed, Ledgers
<1>7. settled'[v] = settled[v] \cup stakes  BY DEF Settle, PotsInv, Ledgers
<1>8. activeChallenges'[v] = c \/ activeChallenges'[v] = d
  BY <1>4 DEF PotsInv, Inv, Typed
<1>9. AccountedOf(v)'
  BY <1>0, <1>1, <1>2, <1>3, <1>7, <1>8 DEF AccountedOf, Exists, Is, Stakers, Validator
<1>10. ASSUME NEW a \in Accounts \ disturbed' PROVE stakedBalances'[a] = stakedBalances[a] - Part(v, a) + Part(v, a)'
  <2>1. /\ a \notin disturbed
        /\ IF variants[v].trainer = a /\ Trainer(v) \in stakes
           THEN TrainerPart(v, a) = variants[v].trainerStake /\ TrainerPart(v, a)' = 0
           ELSE TrainerPart(v, a)' = TrainerPart(v, a)
        /\ IF Validator(a) \in stakes
           THEN ValidatorPart(v, a) = variantValidators[v][a] /\ ValidatorPart(v, a)' = 0
           ELSE ValidatorPart(v, a)' = ValidatorPart(v, a)
    BY <1>1, <1>3, SettleFacts
  <2>2. pots[a] = stakedBalances[a]
             - (IF Validator(a) \in stakes THEN ValidatorPart(v, a) ELSE 0)
             - (IF variants[v].trainer = a /\ Trainer(v) \in stakes THEN TrainerPart(v, a) ELSE 0)
    OBVIOUS
  <2>3. /\ TrainerPart(v, a) \in Nat /\ ValidatorPart(v, a) \in Nat /\ ChallengerPart(v, a) \in Nat
        /\ stakedBalances[a] \in Nat
    BY PartType DEF PotsInv, Ledgers, Pots
  <2>4. Part(v, a) <= stakedBalances[a]  BY <2>1, PotCovers
  <2>5. ChallengerPart(v, a) <= pots[a]  BY <2>2, <2>3, <2>4 DEF Part
  <2>6. stakedBalances'[a] = pots[a] - ChallengerPart(v, a) + ChallengerPart(v, a)'
    <3>1. CASE UNCHANGED activeChallenges /\ stakedBalances' = pots
      BY <2>2, <2>3, <3>1 DEF ChallengerPart
    <3>2. CASE /\ activeChallenges' = [activeChallenges EXCEPT ![v] = d]
               /\ \A b \in Accounts : stakedBalances'[b]
                    = IF b = c.challenger /\ c.stake <= pots[b] THEN pots[b] - c.stake ELSE pots[b]
      <4>1. activeChallenges'[v] = d  BY <3>2 DEF PotsInv, Inv, Typed
      <4>2. ChallengerPart(v, a)' = 0  BY <1>2, <4>1 DEF ChallengerPart
      <4>3. stakedBalances'[a] = IF a = c.challenger /\ c.stake <= pots[a] THEN pots[a] - c.stake ELSE pots[a]
        BY <3>2
      <4>4. pots[a] \in Nat  BY DEF Pots
      <4>5. ChallengerPart(v, a) = IF c.challenger = a THEN c.stake ELSE 0  BY DEF ChallengerPart
      <4> HIDE DEF c
      <4>6. stakedBalances'[a] = pots[a] - ChallengerPart(v, a)  BY <2>3, <2>5, <4>3, <4>4, <4>5
      <4> QED  BY <2>3, <4>2, <4>4, <4>6
    <3> QED  BY <1>4, <3>1, <3>2
  <2>7. ChallengerPart(v, a)' \in Nat  BY <1>0, <1>2, <1>8 DEF ChallengerPart, ChallengeRecord
  <2> QED  BY <2>1, <2>2, <2>3, <2>6, <2>7 DEF Part
<1>11. disturbed \subseteq disturbed'  BY DEF Settle
<1> QED  BY <1>5, <1>6, <1>9, <1>10, <1>11, PotsFollow

LEMMA SlashPots ==
  ASSUME PotsInv, Inv', NEW v \in Variants, NEW validators \in SUBSET Accounts, NEW isRejected \in BOOLEAN,
         NEW isReward \in BOOLEAN, SlashValidators(v, validators, isRejected, isReward)
  PROVE  PotsInv'
<1> USE RegistryAssumption
<1> DEFINE slashed == MetOf(stakedBalances, v, validators)
           rest == Less(stakedBalances, slashed)
           trainer == IF isRejected THEN MetOfTrainer(rest, v) ELSE 0
           pots == LessOfTrainer(rest, v, trainer)
           eth == balance - (Total(slashed, Accounts) + trainer)
           stakes == {Validator(a) : a \in validators} \cup (IF isRejected THEN {Trainer(v)} ELSE {})
           status == IF isRejected THEN "Rejected" ELSE variants[v].status
<1>1. /\ ChallengeActive(v)
      /\ validators \subseteq Stakers(v)
      /\ variants' = [variants EXCEPT ![v] = Closed(variants[v], status)]
      /\ balance >= Total(slashed, Accounts) + trainer
      /\ CloseChallenge(v, pots, eth, isReward)
      /\ Settle(v, stakes, {})
      /\ UNCHANGED variantValidators
  BY DEF SlashValidators
<1>2. Exists(v) /\ AccountedOf(v) /\ variants[v].trainer \in Accounts
  BY <1>1 DEF PotsInv, Inv, Lasting, LastingOf, Open, Exists, Is, Accounted, AccountedOf
<1>3. status # "None"  BY <1>2 DEF Exists, Is
<1>4. slashed \in Pots /\ rest \in Pots  BY MetOfFacts DEF PotsInv, Ledgers
<1>5. \A a \in Accounts : stakedBalances[a] \in Nat  BY DEF PotsInv, Ledgers, Pots
<1> HIDE DEF slashed, rest
<1>6. trainer \in Nat /\ pots \in Pots
  <2>1. CASE isRejected  BY <1>2, <1>4, <2>1, TrainerFacts DEF PotsInv
  <2>2. CASE ~isRejected
    <3>1. rest[variants[v].trainer] - 0 = rest[variants[v].trainer]  BY <1>2, <1>4 DEF Pots
    <3>2. trainer = 0 /\ pots = rest  BY <1>4, <2>2, <3>1 DEF LessOfTrainer, Pots
    <3> QED  BY <1>4, <3>2
  <2> QED  BY <2>1, <2>2
<1>7. eth \in Int /\ eth >= 0
  <2>1. Total(slashed, Accounts) \in Nat  BY <1>4, TotalType DEF Pots
  <2> HIDE DEF trainer
  <2> QED  BY <1>1, <1>6, <2>1 DEF PotsInv, Ledgers
<1>8. stakes \subseteq {"trainer", "validator"} \X Accounts  BY <1>2 DEF Trainer, Validator
<1>9. /\ \A a \in Accounts : Validator(a) \in stakes <=> a \in validators
      /\ Trainer(v) \in stakes <=> isRejected
  BY DEF Trainer, Validator
<1> HIDE DEF stakes
<1>10. ASSUME NEW a \in Accounts \ disturbed'
       PROVE  pots[a] = stakedBalances[a]
             - (IF Validator(a) \in stakes THEN ValidatorPart(v, a) ELSE 0)
             - (IF variants[v].trainer = a /\ Trainer(v) \in stakes THEN TrainerPart(v, a) ELSE 0)
  <2>0. variants'[v].trainer = variants[v].trainer /\ variants'[v].trainerStake = variants[v].trainerStake
    <3>1. variants[v] \in ModelVariant /\ variants'[v] = Closed(variants[v], status)
      BY <1>1 DEF PotsInv, Inv, Typed
    <3> QED  BY <3>1 DEF ModelVariant, Closed
  <2>1. /\ a \notin disturbed
        /\ variants[v].trainer = a /\ isRejected => TrainerPart(v, a) = variants[v].trainerStake
        /\ a \in validators => ValidatorPart(v, a) = variantValidators[v][a]
    BY <1>1, <1>8, <1>9, <2>0, SettleFacts
  <2>2. rest[a] = IF a \in validators THEN stakedBalances[a] - ValidatorPart(v, a) ELSE stakedBalances[a]
    BY <2>1, ValidatorSlashed DEF rest, slashed, PotsInv, Ledgers
  <2>3. rest[a] \in Nat /\ TrainerPart(v, a) \in Nat  BY <1>4, PartType DEF Pots, PotsInv
  <2>4. CASE isRejected
    <3>1. pots[a] = IF variants[v].trainer = a THEN rest[a] - TrainerPart(v, a) ELSE rest[a]
      BY <1>2, <1>4, <2>1, <2>2, <2>4, TrainerSlashed
    <3> HIDE DEF pots
    <3> QED  BY <1>5, <1>9, <2>2, <2>3, <2>4, <3>1
  <2>5. CASE ~isRejected
    <3>1. pots[a] = rest[a]  BY <1>4, <2>3, <2>5 DEF LessOfTrainer, Pots
    <3> HIDE DEF pots
    <3> QED  BY <1>5, <1>9, <2>2, <2>3, <2>5, <3>1
  <2> QED  BY <2>4, <2>5
<1>11. Closing(v, pots, eth, isReward)  BY <1>1 DEF Closing
<1> HIDE DEF pots, eth, status, trainer
<1> QED  BY <1>1, <1>2, <1>3, <1>6, <1>7, <1>8, <1>9, <1>10, <1>11, ClosingPots

LEMMA UpholdPots ==
  ASSUME PotsInv, Inv', NEW v \in Variants, NEW challenger \in Accounts \cup {NoAccount},
         UpholdChallenge(v, challenger)
  PROVE  PotsInv'
<1> USE RegistryAssumption
<1> DEFINE own == PotOf(challenger)
           left == Without(challenger)
           slashed == MetOf(left, v, Stakers(v))
           rest == Less(left, slashed)
           trainer == MetOfTrainer(rest, v)
           pots == LessOfTrainer(rest, v, trainer)
           taken == 2 * own + Total(slashed, Accounts) + trainer
           eth == balance - taken
           stakes == {Validator(a) : a \in Stakers(v)} \cup {Trainer(v)}
<1>1. /\ Exists(v)
      /\ variants' = [variants EXCEPT ![v] = Closed(variants[v], "Rejected")]
      /\ balance >= taken
      /\ Closing(v, pots, eth, TRUE)
      /\ Settle(v, stakes, {challenger})
      /\ UNCHANGED variantValidators
  BY DEF UpholdChallenge, PotsInv, Inv, Typed
<1>2. AccountedOf(v) /\ variants[v].trainer \in Accounts
  BY <1>1 DEF PotsInv, Accounted, AccountedOf
<1>3. \A a \in Accounts : stakedBalances[a] \in Nat  BY DEF PotsInv, Ledgers, Pots
<1>4. left \in Pots /\ own \in Nat  BY <1>3 DEF Without, PotOf, Pots
<1>5. \A a \in Accounts : a # challenger => left[a] = stakedBalances[a]  BY DEF Without
<1> HIDE DEF left, own
<1>6. slashed \in Pots /\ rest \in Pots  BY <1>4, MetOfFacts DEF PotsInv
<1> HIDE DEF slashed, rest
<1>7. trainer \in Nat /\ pots \in Pots  BY <1>2, <1>6, TrainerFacts DEF PotsInv
<1>8. eth \in Int /\ eth >= 0
  <2>1. Total(slashed, Accounts) \in Nat  BY <1>6, TotalType DEF Pots
  <2> HIDE DEF trainer
  <2> QED  BY <1>1, <1>4, <1>7, <2>1 DEF PotsInv, Ledgers
<1>9. stakes \subseteq {"trainer", "validator"} \X Accounts  BY <1>2 DEF Trainer, Validator, Stakers
<1>10. /\ \A a \in Accounts : Validator(a) \in stakes <=> a \in Stakers(v)
       /\ Trainer(v) \in stakes
  BY DEF Trainer, Validator
<1> HIDE DEF stakes
<1>11. ASSUME NEW a \in Accounts \ disturbed'
       PROVE  pots[a] = stakedBalances[a]
             - (IF Validator(a) \in stakes THEN ValidatorPart(v, a) ELSE 0)
             - (IF variants[v].trainer = a /\ Trainer(v) \in stakes THEN TrainerPart(v, a) ELSE 0)
  <2>0. variants'[v].trainer = variants[v].trainer /\ variants'[v].trainerStake = variants[v].trainerStake
    <3>1. variants[v] \in ModelVariant /\ variants'[v] = Closed(variants[v], "Rejected")
      BY <1>1 DEF PotsInv, Inv, Typed
    <3> QED  BY <3>1 DEF ModelVariant, Closed
  <2>1. /\ a \notin disturbed /\ a # challenger
        /\ variants[v].trainer = a => TrainerPart(v, a) = variants[v].trainerStake
        /\ a \in Stakers(v) => ValidatorPart(v, a) = variantValidators[v][a]
    BY <1>1, <1>9, <1>10, <2>0, SettleFacts
  <2>2. rest[a] = IF a \in Stakers(v) THEN stakedBalances[a] - ValidatorPart(v, a) ELSE stakedBalances[a]
    BY <1>4, <1>5, <2>1, ValidatorSlashed DEF rest, slashed
  <2>3. pots[a] = IF variants[v].trainer = a THEN rest[a] - TrainerPart(v, a) ELSE rest[a]
    BY <1>2, <1>6, <2>1, <2>2, TrainerSlashed
  <2>4. rest[a] \in Nat /\ TrainerPart(v, a) \in Nat  BY <1>6, PartType DEF Pots, PotsInv
  <2> HIDE DEF pots
  <2> QED  BY <1>3, <1>10, <2>2, <2>3, <2>4
<1> HIDE DEF pots, eth, trainer
<1>12. "Rejected" # "None"  OBVIOUS
<1> QED  BY <1>1, <1>2, <1>7, <1>8, <1>9, <1>10, <1>11, <1>12, ClosingPots

LEMMA DismissPots ==
  ASSUME PotsInv, Inv', NEW v \in Variants, NEW challenger \in Accounts \cup {NoAccount},
         DismissChallenge(v, challenger)
  PROVE  PotsInv'
<1> USE RegistryAssumption
<1> DEFINE own == PotOf(challenger)
           left == Without(challenger)
           eth == balance - own
           status == variants[v].status
           none == {}
<1>1. /\ Exists(v)
      /\ variants' = [variants EXCEPT ![v] = Closed(variants[v], status)]
      /\ balance >= own
      /\ Closing(v, left, eth, FALSE)
      /\ Settle(v, none, {challenger})
      /\ UNCHANGED variantValidators
  BY DEF DismissChallenge, PotsInv, Inv, Typed
<1>2. \A a \in Accounts : stakedBalances[a] \in Nat  BY DEF PotsInv, Ledgers, Pots
<1>3. left \in Pots /\ own \in Nat  BY <1>2 DEF Without, PotOf, Pots
<1>4. eth \in Int /\ eth >= 0  BY <1>1, <1>3 DEF PotsInv, Ledgers
<1>5. ASSUME NEW a \in Accounts \ disturbed'
      PROVE  left[a] = stakedBalances[a]
             - (IF Validator(a) \in none THEN ValidatorPart(v, a) ELSE 0)
             - (IF variants[v].trainer = a /\ Trainer(v) \in none THEN TrainerPart(v, a) ELSE 0)
  <2>1. a # challenger  BY <1>1 DEF Settle
  <2>2. left[a] = stakedBalances[a]  BY <2>1 DEF Without
  <2> QED  BY <1>2, <2>2
<1>6. status # "None"  BY <1>1 DEF Exists, Is
<1> HIDE DEF left, eth, status
<1>7. /\ none \subseteq {"trainer", "validator"} \X Accounts
      /\ \A a \in Accounts : Validator(a) \in none => a \in Stakers(v)
  OBVIOUS
<1> HIDE DEF none
<1> QED  BY <1>1, <1>3, <1>4, <1>5, <1>6, <1>7, ClosingPots
-----------------------------------------------------------------------------
(* Steps that leave all stakes alone; pots only move for the disturbed. *)
LEMMA QuietPots ==
  ASSUME PotsInv, Inv', UNCHANGED <<variantValidators, activeChallenges, settled>>,
         stakedBalances' \in Pots, balance' \in Nat, disturbed \subseteq disturbed',
         \A a \in Accounts \ disturbed' : stakedBalances'[a] = stakedBalances[a],
         \A v \in Variants : /\ variants'[v].trainer = variants[v].trainer
                             /\ variants'[v].trainerStake = variants[v].trainerStake
                             /\ Exists(v)' <=> Exists(v)
  PROVE  PotsInv'
<1>1. Ledgers'  BY DEF PotsInv, Ledgers
<1>2. ASSUME NEW v \in Variants PROVE AccountedOf(v)'
  <2>1. AccountedOf(v)  BY DEF PotsInv, Accounted
  <2> QED  BY <2>1 DEF AccountedOf, Stakers, Validator
<1>3. ASSUME NEW a \in Accounts \ disturbed' PROVE stakedBalances'[a] = AtStake(a)'
  <2> DEFINE f == [v \in Variants |-> Part(v, a)]
             g == [v \in Variants |-> Part(v, a)']
  <2>1. \A v \in Variants : f[v] = g[v]
    BY DEF Part, TrainerPart, ValidatorPart, ChallengerPart, Trainer, Validator
  <2>2. AtStake(a) = Total(f, Variants)  BY AtStakeParts DEF PartsAddUp
  <2>3. AtStake(a)' = Total(g, Variants)
    <3>1. PartsAddUp'  BY AtStakeParts, PTL
    <3> QED  BY <3>1 DEF PartsAddUp
  <2>4. stakedBalances[a] = AtStake(a)  BY DEF PotsInv, PotsMatchStakes
  <2>5. stakedBalances'[a] = stakedBalances[a]  OBVIOUS
  <2> HIDE DEF f, g
  <2>6. Total(f, Variants) = Total(g, Variants)  BY <2>1, TotalSame
  <2> QED  BY <2>2, <2>3, <2>4, <2>5, <2>6
<1> QED  BY <1>1, <1>2, <1>3 DEF PotsInv, Accounted, PotsMatchStakes

LEMMA EveryPotStep == PotsInv /\ [Next]_vars => PotsInv'
<1> SUFFICES ASSUME PotsInv, [Next]_vars PROVE PotsInv'
  OBVIOUS
<1> USE RegistryAssumption
<1>0. Inv'  BY EveryStep DEF PotsInv
<1>a. \A v \in Variants : variants[v] \in ModelVariant  BY DEF PotsInv, Inv, Typed
<1>b. stakedBalances \in Pots /\ balance \in Nat  BY DEF PotsInv, Ledgers
<1>1. ASSUME NEW v \in Variants, NEW s \in Stakes, NEW a \in Trainers, RegisterVariant(a, v, s) PROVE PotsInv'
  BY <1>0, <1>1, RegisterPots
<1>2. ASSUME NEW v \in Variants, NEW s \in Stakes, NEW a \in Validators, StakeForValidation(a, v, s) PROVE PotsInv'
  BY <1>0, <1>2, ValidationPots
<1>3. ASSUME NEW v \in Variants, NEW s \in Stakes, NEW a \in Challengers, StartChallenge(a, v, s) PROVE PotsInv'
  BY <1>0, <1>3, ChallengePots
<1>4. ASSUME NEW v \in Variants, Approve(v) PROVE PotsInv'
  <2>1. /\ variants' = [variants EXCEPT ![v] = [variants[v] EXCEPT
              !.status = "Approved", !.challengeWindowOpen = TRUE,
              !.challengeDeadline = now + policy.challengeWindow]]
        /\ UNCHANGED <<variantValidators, activeChallenges, stakedBalances, balance, settled, disturbed>>
        /\ variants[v].status # "None"
    BY <1>4 DEF Approve, money, observed, Is
  <2>2. ASSUME NEW u \in Variants
        PROVE  /\ variants'[u].trainer = variants[u].trainer
               /\ variants'[u].trainerStake = variants[u].trainerStake
               /\ Exists(u)' <=> Exists(u)
    BY <1>a, <2>1 DEF Exists, Is, ModelVariant, PotsInv, Inv, Typed
  <2> QED  BY <1>0, <1>b, <2>1, <2>2, QuietPots
<1>5. ASSUME NEW v \in Variants, Reject(v) PROVE PotsInv'
  BY <1>0, <1>5, RejectPots
<1>6. ASSUME NEW v \in Variants, FinalizeVariant(v) PROVE PotsInv'
  BY <1>0, <1>6, FinalizePots
<1>7. ASSUME NEW v \in Variants, DeprecateVariant(v) PROVE PotsInv'
  <2>1. /\ variants' = [variants EXCEPT ![v] = [variants[v] EXCEPT !.status = "Deprecated"]]
        /\ UNCHANGED <<variantValidators, activeChallenges, stakedBalances, balance, settled, disturbed>>
        /\ variants[v].status # "None"
    BY <1>7 DEF DeprecateVariant, money, observed, Exists, Is, PotsInv, Inv, Typed
  <2>2. ASSUME NEW u \in Variants
        PROVE  /\ variants'[u].trainer = variants[u].trainer
               /\ variants'[u].trainerStake = variants[u].trainerStake
               /\ Exists(u)' <=> Exists(u)
    BY <1>a, <2>1 DEF Exists, Is, ModelVariant, PotsInv, Inv, Typed
  <2> QED  BY <1>0, <1>b, <2>1, <2>2, QuietPots
<1>8. ASSUME NEW v \in Variants, NEW validators \in SUBSET Accounts, NEW isRejected \in BOOLEAN,
             NEW isReward \in BOOLEAN, SlashValidators(v, validators, isRejected, isReward)
      PROVE  PotsInv'
  BY Zenon, <1>0, <1>8, SlashPots
<1>9. ASSUME NEW v \in Variants, NEW c \in Accounts \cup {NoAccount}, UpholdChallenge(v, c) PROVE PotsInv'
  BY <1>0, <1>9, UpholdPots
<1>10. ASSUME NEW v \in Variants, NEW c \in Accounts \cup {NoAccount}, DismissChallenge(v, c) PROVE PotsInv'
  BY <1>0, <1>10, DismissPots
<1>c. \A u \in Variants : UNCHANGED variants =>
        /\ variants'[u].trainer = variants[u].trainer
        /\ variants'[u].trainerStake = variants[u].trainerStake
        /\ Exists(u)' <=> Exists(u)
  BY DEF Exists, Is
<1>11. ASSUME NEW a \in Accounts, WithdrawStake(a) PROVE PotsInv'
  <2>1. /\ stakedBalances' = [stakedBalances EXCEPT ![a] = 0]
        /\ balance >= stakedBalances[a] /\ balance' = balance - stakedBalances[a]
        /\ disturbed' = disturbed \cup {a}
        /\ UNCHANGED <<variants, variantValidators, activeChallenges, settled>>
    BY <1>11 DEF WithdrawStake
  <2>2. stakedBalances' \in Pots /\ balance' \in Nat
    <3>1. stakedBalances[a] \in Nat  BY <1>b DEF Pots
    <3> QED  BY <1>b, <2>1, <3>1 DEF Pots
  <2>3. \A b \in Accounts \ disturbed' : stakedBalances'[b] = stakedBalances[b]
    BY <1>b, <2>1 DEF Pots
  <2> QED  BY <1>0, <1>c, <2>1, <2>2, <2>3, QuietPots
<1>12. ASSUME UpdatePolicy PROVE PotsInv'
  BY <1>0, <1>b, <1>c, <1>12, QuietPots DEF UpdatePolicy, money, observed
<1>13. ASSUME EmergencyWithdraw PROVE PotsInv'
  BY <1>0, <1>b, <1>c, <1>13, QuietPots DEF EmergencyWithdraw, observed
<1>14. ASSUME Tick PROVE PotsInv'
  BY <1>0, <1>b, <1>c, <1>14, QuietPots DEF Tick, money, observed
<1>15. ASSUME UNCHANGED vars PROVE PotsInv'
  BY <1>0, <1>b, <1>c, <1>15, QuietPots DEF vars, money, observed
<1> QED
  BY <1>1, <1>2, <1>3, <1>4, <1>5, <1>6, <1>7, <1>8, <1>9, <1>10, <1>11, <1>12, <1>13, <1>14, <1>15 DEF Next

(* PotsMatchStakes, for every value of the constants: one pot per account    *)
(* holds exactly what its owner has at stake in all variants and roles, as   *)
(* long as only settlements touch it; none of those is ever skipped.         *)
THEOREM OnePotIsEnough == Spec => []PotsMatchStakes
<1>1. PotsInv => PotsMatchStakes  BY DEF PotsInv
<1> QED  BY InitPotsInv, EveryPotStep, <1>1, PTL DEF Spec
-----------------------------------------------------------------------------
(* What is paid and what leaves the pots. *)
Sum(pots) == Total(pots, Accounts)

PaidStep ==
  LET out  == balance - balance'
      from == Total(stakedBalances, Accounts) - Total(stakedBalances', Accounts)
  IN  out <= from \/ EmergencyWithdraw \/ (out <= 2 * from /\ Rewarded)

LEMMA SumType ==
  ASSUME NEW pots \in Pots
  PROVE  Sum(pots) \in Nat
BY TotalType, RegistryAssumption DEF Sum, Pots

LEMMA SumUpdate ==
  ASSUME NEW pots \in Pots, NEW a \in Accounts, NEW n \in Nat
  PROVE  Sum([pots EXCEPT ![a] = n]) = Sum(pots) - pots[a] + n
<1> DEFINE g == [pots EXCEPT ![a] = n]
<1>1. g[a] = n /\ \A b \in Accounts \ {a} : g[b] = pots[b]  BY DEF Pots
<1>2. \A b \in Accounts : pots[b] \in Nat /\ g[b] \in Nat  BY DEF Pots
<1> HIDE DEF g
<1>3. Total(g, Accounts) = Total(pots, Accounts) - pots[a] + g[a]
  BY <1>1, <1>2, TotalUpdate, RegistryAssumption
<1> QED  BY <1>1, <1>3 DEF Sum, g

LEMMA SumMet ==
  ASSUME Ledgers, NEW pots \in Pots, NEW v \in Variants, NEW validators
  PROVE  /\ Sum(MetOf(pots, v, validators)) \in Nat
         /\ Sum(Less(pots, MetOf(pots, v, validators))) = Sum(pots) - Sum(MetOf(pots, v, validators))
<1> DEFINE met == MetOf(pots, v, validators)
           rest == Less(pots, met)
<1>1. met \in Pots /\ rest \in Pots /\ \A a \in Accounts : pots[a] = rest[a] + met[a]
  BY MetOfFacts
<1> HIDE DEF met, rest
<1>2. \A a \in Accounts : pots[a] \in Nat /\ rest[a] \in Nat /\ met[a] \in Nat /\ pots[a] = rest[a] + met[a]
  BY <1>1 DEF Pots
<1>3. Total(pots, Accounts) = Total(rest, Accounts) + Total(met, Accounts)
  BY <1>2, TotalPlus, RegistryAssumption
<1>4. Sum(met) \in Nat /\ Sum(rest) \in Nat /\ Sum(pots) \in Nat  BY <1>1, SumType
<1>5. Sum(rest) = Sum(pots) - Sum(met)  BY <1>3, <1>4 DEF Sum
<1> QED  BY <1>4, <1>5 DEF met, rest

LEMMA SumTrainer ==
  ASSUME Inv, NEW pots \in Pots, NEW v \in Variants, variants[v].trainer \in Accounts
  PROVE  /\ MetOfTrainer(pots, v) \in Nat
         /\ Sum(LessOfTrainer(pots, v, MetOfTrainer(pots, v))) = Sum(pots) - MetOfTrainer(pots, v)
<1> DEFINE t == variants[v].trainer
           met == MetOfTrainer(pots, v)
<1>1. pots[t] \in Nat /\ variants[v].trainerStake \in Nat
  BY DEF Inv, Typed, ModelVariant, Pots
<1>2. met \in Nat /\ pots[t] - met \in Nat  BY <1>1, MetFacts DEF MetOfTrainer
<1> HIDE DEF met
<1>3. LessOfTrainer(pots, v, met) = [pots EXCEPT ![t] = pots[t] - met]  BY DEF LessOfTrainer, Pots
<1>4. Sum(LessOfTrainer(pots, v, met)) = Sum(pots) - pots[t] + (pots[t] - met)
  <2> DEFINE n == pots[t] - met
  <2>1. n \in Nat /\ t \in Accounts  BY <1>2
  <2> HIDE DEF n, t
  <2>2. Sum([pots EXCEPT ![t] = n]) = Sum(pots) - pots[t] + n  BY <2>1, SumUpdate
  <2> QED  BY <1>3, <2>2 DEF n
<1>5. Sum(pots) \in Nat  BY SumType
<1> HIDE DEF t
<1>6. Sum(LessOfTrainer(pots, v, met)) = Sum(pots) - met  BY <1>1, <1>2, <1>4, <1>5
<1> QED  BY <1>2, <1>6 DEF met

(* Closing a challenge pays what leaves the pots, a reward at most double. *)
LEMMA SumClosing ==
  ASSUME Inv, NEW v \in Variants, NEW pots \in Pots, NEW eth \in Int, eth >= 0,
         NEW isReward, Closing(v, pots, eth, isReward)
  PROVE  /\ balance' \in Nat /\ Sum(stakedBalances') \in Nat
         /\ Sum(stakedBalances') <= Sum(pots)
         /\ \/ eth - balance' = Sum(pots) - Sum(stakedBalances')
            \/ isReward /\ eth - balance' = 2 * (Sum(pots) - Sum(stakedBalances'))
<1> DEFINE a == activeChallenges[v].challenger
           stake == activeChallenges[v].stake
<1>1. stakedBalances' \in Pots /\ balance' \in Nat  BY ClosingFacts
<1>2. Sum(pots) \in Nat /\ Sum(stakedBalances') \in Nat  BY <1>1, SumType
<1>3. CASE ~ChallengeActive(v)
  <2>1. stakedBalances' = pots /\ balance' = eth  BY <1>3 DEF Closing
  <2> QED  BY <1>1, <1>2, <2>1
<1>4. CASE ChallengeActive(v)
  <2>1. /\ a \in Accounts /\ stake \in Nat
        /\ \A b \in Accounts : stakedBalances'[b] = IF b = a /\ stake <= pots[b] THEN pots[b] - stake ELSE pots[b]
    BY <1>4, ClosingFacts
  <2>0. \/ stake <= pots[a] /\ (eth - balance' = stake \/ (isReward /\ eth - balance' = 2 * stake))
        \/ stake > pots[a] /\ balance' = eth
    BY <1>4, ClosingFacts
  <2>2. pots[a] \in Nat  BY <2>1 DEF Pots
  <2> HIDE DEF a, stake
  <2>3. CASE stake <= pots[a]
    <3>1. pots[a] - stake \in Nat  BY <2>1, <2>2, <2>3
    <3>2. stakedBalances' = [pots EXCEPT ![a] = pots[a] - stake]  BY <1>1, <2>1, <2>3 DEF Pots
    <3>3. Sum(stakedBalances') = Sum(pots) - pots[a] + (pots[a] - stake)  BY <2>1, <3>1, <3>2, SumUpdate
    <3>4. Sum(pots) - Sum(stakedBalances') = stake  BY <1>2, <2>1, <2>2, <3>3
    <3>5. eth - balance' = stake \/ (isReward /\ eth - balance' = 2 * stake)  BY <2>0, <2>1, <2>2, <2>3
    <3>6. Sum(stakedBalances') <= Sum(pots)  BY <1>2, <2>1, <3>4
    <3> QED  BY <1>1, <1>2, <3>4, <3>5, <3>6
  <2>4. CASE ~(stake <= pots[a])
    <3>1. stakedBalances' = pots  BY <1>1, <2>1, <2>4 DEF Pots
    <3>2. balance' = eth  BY <2>0, <2>4
    <3> QED  BY <1>1, <1>2, <3>1, <3>2
  <2> QED  BY <2>3, <2>4
<1> QED  BY <1>3, <1>4

LEMMA EveryPayment == PotsInv /\ [Next]_vars => PaidStep
<1> SUFFICES ASSUME PotsInv, [Next]_vars PROVE PaidStep
  OBVIOUS
<1> USE RegistryAssumption
<1> DEFINE before == Sum(stakedBalances)
           after == Sum(stakedBalances')
           kept == balance'
<1>a. PaidStep <=> \/ balance - kept <= before - after
                   \/ EmergencyWithdraw
                   \/ balance - kept <= 2 * (before - after) /\ Rewarded
  BY DEF PaidStep, Sum
<1>b. stakedBalances \in Pots /\ balance \in Nat /\ before \in Nat  BY SumType DEF PotsInv, Ledgers
<1> HIDE DEF before, after, kept
<1>c. ASSUME NEW a \in Accounts, NEW s \in Nat, stakedBalances' = [stakedBalances EXCEPT ![a] = @ + s],
             balance' = balance + s
      PROVE  PaidStep
  <2>1. stakedBalances[a] \in Nat  BY <1>b DEF Pots
  <2> DEFINE n == stakedBalances[a] + s
  <2>2. n \in Nat /\ stakedBalances' = [stakedBalances EXCEPT ![a] = n]  BY <1>c, <2>1
  <2> HIDE DEF n
  <2>3. after = before - stakedBalances[a] + n  BY <1>b, <2>2, SumUpdate DEF before, after
  <2>4. after = before + s  BY <1>b, <2>1, <2>3 DEF n
  <2>5. balance - kept <= before - after  BY <1>b, <1>c, <2>4 DEF kept
  <2> QED  BY <1>a, <2>5
<1>d. ASSUME UNCHANGED <<stakedBalances, balance>> PROVE PaidStep
  <2>1. balance - kept <= before - after  BY <1>b, <1>d DEF before, after, kept
  <2> QED  BY <1>a, <2>1
<1>1. ASSUME NEW v \in Variants, NEW s \in Stakes, NEW a \in Trainers, RegisterVariant(a, v, s) PROVE PaidStep
  BY <1>c, <1>1 DEF RegisterVariant, Stake
<1>2. ASSUME NEW v \in Variants, NEW s \in Stakes, NEW a \in Validators, StakeForValidation(a, v, s) PROVE PaidStep
  BY <1>c, <1>2 DEF StakeForValidation, Stake
<1>3. ASSUME NEW v \in Variants, NEW s \in Stakes, NEW a \in Challengers, StartChallenge(a, v, s) PROVE PaidStep
  BY <1>c, <1>3 DEF StartChallenge, Stake
<1>4. ASSUME NEW v \in Variants, Approve(v) PROVE PaidStep
  BY <1>d, <1>4 DEF Approve, money
<1>5. ASSUME NEW v \in Variants, Reject(v) PROVE PaidStep
  <2> DEFINE slashed == MetOfTrainer(stakedBalances, v)
  <2>1. variants[v].trainer \in Accounts
    BY <1>5 DEF Reject, PotsInv, Accounted, AccountedOf, Exists, Is
  <2>2. stakedBalances' = LessOfTrainer(stakedBalances, v, slashed) /\ balance' = balance - slashed
    BY <1>5 DEF Reject
  <2>3. slashed \in Nat /\ after = before - slashed
    BY <1>b, <2>1, <2>2, SumTrainer DEF PotsInv, before, after
  <2> HIDE DEF slashed
  <2>4. balance - kept <= before - after  BY <1>b, <2>2, <2>3 DEF kept
  <2> QED  BY <1>a, <2>4
<1>6. ASSUME NEW v \in Variants, FinalizeVariant(v) PROVE PaidStep
  <2> DEFINE first == MetOfTrainer(stakedBalances, v)
             rest == LessOfTrainer(stakedBalances, v, first)
             second == MetOf(rest, v, Stakers(v) \ isSlashed[v])
  <2>1. variants[v].trainer \in Accounts
    BY <1>6 DEF FinalizeVariant, PotsInv, Accounted, AccountedOf, Exists, Is
  <2>2. stakedBalances' = Less(rest, second) /\ balance' = balance - (first + Sum(second))
    BY <1>6 DEF FinalizeVariant, Sum
  <2>3. rest \in Pots  BY <1>b, <2>1, TrainerFacts DEF PotsInv
  <2>4. first \in Nat /\ Sum(rest) = before - first
    BY <1>b, <2>1, SumTrainer DEF PotsInv, before
  <2> HIDE DEF first, rest
  <2>5. Sum(second) \in Nat /\ after = Sum(rest) - Sum(second)
    BY <2>2, <2>3, SumMet DEF PotsInv, after
  <2> HIDE DEF second
  <2>6. balance - kept <= before - after  BY <1>b, <2>2, <2>4, <2>5 DEF kept
  <2> QED  BY <1>a, <2>6
<1>7. ASSUME NEW v \in Variants, DeprecateVariant(v) PROVE PaidStep
  BY <1>d, <1>7 DEF DeprecateVariant, money
<1>8. ASSUME NEW v \in Variants, NEW validators \in SUBSET Accounts, NEW isRejected \in BOOLEAN,
             NEW isReward \in BOOLEAN, SlashValidators(v, validators, isRejected, isReward)
      PROVE  PaidStep
  <2> DEFINE slashed == MetOf(stakedBalances, v, validators)
             rest == Less(stakedBalances, slashed)
             trainer == IF isRejected THEN MetOfTrainer(rest, v) ELSE 0
             pots == LessOfTrainer(rest, v, trainer)
             eth == balance - (Sum(slashed) + trainer)
  <2>1. /\ ChallengeActive(v)
        /\ balance >= Sum(slashed) + trainer
        /\ Closing(v, pots, eth, isReward)
    BY <1>8 DEF SlashValidators, Closing, Sum
  <2>2. variants[v].trainer \in Accounts
    BY <2>1 DEF PotsInv, Inv, Lasting, LastingOf, Open, Exists, Is, Accounted, AccountedOf
  <2>3. slashed \in Pots /\ rest \in Pots  BY <1>b, MetOfFacts DEF PotsInv
  <2>4. Sum(slashed) \in Nat /\ Sum(rest) = before - Sum(slashed)  BY <1>b, SumMet DEF PotsInv, before
  <2> HIDE DEF slashed, rest
  <2>5. trainer \in Nat /\ pots \in Pots /\ Sum(pots) = Sum(rest) - trainer
    <3>1. CASE isRejected  BY <2>2, <2>3, <3>1, TrainerFacts, SumTrainer DEF PotsInv
    <3>2. CASE ~isRejected
      <4>1. rest[variants[v].trainer] - 0 = rest[variants[v].trainer]  BY <2>2, <2>3 DEF Pots
      <4>2. trainer = 0 /\ pots = rest  BY <2>3, <3>2, <4>1 DEF LessOfTrainer, Pots
      <4> HIDE DEF trainer, pots
      <4> QED  BY <1>b, <2>3, <2>4, <4>2
    <3> QED  BY <3>1, <3>2
  <2> HIDE DEF trainer, pots
  <2>6. eth \in Int /\ eth >= 0  BY <1>b, <2>1, <2>4, <2>5
  <2> HIDE DEF eth
  <2>7. /\ kept \in Nat /\ after \in Nat /\ after <= Sum(pots)
        /\ \/ eth - kept = Sum(pots) - after
           \/ isReward /\ eth - kept = 2 * (Sum(pots) - after)
    BY <2>1, <2>5, <2>6, SumClosing DEF PotsInv, after, kept
  <2>8. CASE eth - kept = Sum(pots) - after
    <3>1. balance - kept <= before - after  BY <1>b, <2>4, <2>5, <2>7, <2>8 DEF eth
    <3> QED  BY <1>a, <3>1
  <2>9. CASE isReward /\ eth - kept = 2 * (Sum(pots) - after)
    <3>1. balance - kept <= 2 * (before - after)
      <4>1. eth - kept = 2 * (Sum(pots) - after)  BY <2>9
      <4> QED  BY <1>b, <2>4, <2>5, <2>7, <4>1 DEF eth
    <3>2. isReward = TRUE  BY <2>9
    <3>3. Rewarded  BY <1>8, <3>2 DEF Rewarded
    <3> QED  BY <1>a, <3>1, <3>3
  <2> QED  BY <2>7, <2>8, <2>9
<1>e. ASSUME NEW challenger \in Accounts \cup {NoAccount}
      PROVE  PotOf(challenger) \in Nat /\ Without(challenger) \in Pots /\ Sum(Without(challenger)) = before - PotOf(challenger)
  <2> DEFINE left == Without(challenger)
  <2>1. PotOf(challenger) \in Nat /\ left \in Pots  BY <1>b DEF PotOf, Without, Pots
  <2>2. CASE challenger = NoAccount
    <3>1. left = stakedBalances /\ PotOf(challenger) = 0  BY <1>b, <2>2 DEF Without, PotOf, Pots
    <3> HIDE DEF left
    <3> QED  BY <1>b, <2>1, <3>1 DEF before, left
  <2>3. CASE challenger # NoAccount
    <3>1. left = [stakedBalances EXCEPT ![challenger] = 0]  BY <1>b, <2>3 DEF Without, Pots
    <3>2. PotOf(challenger) = stakedBalances[challenger]  BY <2>3 DEF PotOf
    <3> HIDE DEF left
    <3>3. Sum(left) = before - stakedBalances[challenger] + 0
      <4>1. challenger \in Accounts  BY <2>3
      <4> QED  BY <1>b, <3>1, <4>1, SumUpdate DEF before
    <3>4. Sum(left) = before - PotOf(challenger)  BY <1>b, <2>1, <3>2, <3>3
    <3> QED  BY <2>1, <3>4 DEF left
  <2> QED  BY <2>2, <2>3
<1>9. ASSUME NEW v \in Variants, NEW c \in Accounts \cup {NoAccount}, UpholdChallenge(v, c) PROVE PaidStep
  <2> DEFINE own == PotOf(c)
             left == Without(c)
             slashed == MetOf(left, v, Stakers(v))
             rest == Less(left, slashed)
             trainer == MetOfTrainer(rest, v)
             pots == LessOfTrainer(rest, v, trainer)
             eth == balance - (2 * own + Sum(slashed) + trainer)
  <2>1. /\ Exists(v)
        /\ balance >= 2 * own + Sum(slashed) + trainer
        /\ Closing(v, pots, eth, TRUE)
    BY <1>9 DEF UpholdChallenge, Sum
  <2>2. variants[v].trainer \in Accounts  BY <2>1 DEF PotsInv, Accounted, AccountedOf
  <2>3. own \in Nat /\ left \in Pots /\ Sum(left) = before - own  BY <1>e
  <2> HIDE DEF own, left
  <2>4. slashed \in Pots /\ rest \in Pots  BY <2>3, MetOfFacts DEF PotsInv
  <2>5. Sum(slashed) \in Nat /\ Sum(rest) = Sum(left) - Sum(slashed)  BY <2>3, SumMet DEF PotsInv
  <2> HIDE DEF slashed, rest
  <2>6. trainer \in Nat /\ pots \in Pots /\ Sum(pots) = Sum(rest) - trainer
    BY <2>2, <2>4, TrainerFacts, SumTrainer DEF PotsInv
  <2> HIDE DEF trainer, pots
  <2>7. eth \in Int /\ eth >= 0  BY <1>b, <2>1, <2>3, <2>5, <2>6
  <2> HIDE DEF eth
  <2>8. /\ kept \in Nat /\ after \in Nat /\ after <= Sum(pots)
        /\ \/ eth - kept = Sum(pots) - after
           \/ eth - kept = 2 * (Sum(pots) - after)
    BY <2>1, <2>6, <2>7, SumClosing DEF PotsInv, after, kept
  <2>9. balance - kept <= 2 * (before - after)
    BY <1>b, <2>3, <2>5, <2>6, <2>8 DEF eth
  <2>10. Rewarded  BY <1>9 DEF Rewarded
  <2> QED  BY <1>a, <2>9, <2>10
<1>10. ASSUME NEW v \in Variants, NEW c \in Accounts \cup {NoAccount}, DismissChallenge(v, c) PROVE PaidStep
  <2> DEFINE own == PotOf(c)
             left == Without(c)
             eth == balance - own
             reward == FALSE
  <2>1. balance >= own /\ Closing(v, left, eth, reward)
    BY <1>10 DEF DismissChallenge
  <2>2. own \in Nat /\ left \in Pots /\ Sum(left) = before - own  BY <1>e
  <2> HIDE DEF own, left
  <2>3. eth \in Int /\ eth >= 0  BY <1>b, <2>1, <2>2
  <2> HIDE DEF eth
  <2>4. /\ kept \in Nat /\ after \in Nat /\ after <= Sum(left)
        /\ eth - kept = Sum(left) - after
    BY <2>1, <2>2, <2>3, SumClosing DEF PotsInv, after, kept
  <2>5. balance - kept <= before - after  BY <1>b, <2>2, <2>4 DEF eth
  <2> QED  BY <1>a, <2>5
<1>11. ASSUME NEW a \in Accounts, WithdrawStake(a) PROVE PaidStep
  <2>1. stakedBalances' = [stakedBalances EXCEPT ![a] = 0] /\ balance' = balance - stakedBalances[a]
    BY <1>11 DEF WithdrawStake
  <2>2. stakedBalances[a] \in Nat  BY <1>b DEF Pots
  <2>3. after = before - stakedBalances[a] + 0  BY <1>b, <2>1, SumUpdate DEF before, after
  <2>4. balance - kept <= before - after  BY <1>b, <2>1, <2>2, <2>3 DEF kept
  <2> QED  BY <1>a, <2>4
<1>12. ASSUME UpdatePolicy PROVE PaidStep
  BY <1>d, <1>12 DEF UpdatePolicy, money
<1>13. ASSUME EmergencyWithdraw PROVE PaidStep
  BY <1>a, <1>13
<1>14. ASSUME Tick PROVE PaidStep
  BY <1>d, <1>14 DEF Tick, money
<1>15. ASSUME UNCHANGED vars PROVE PaidStep
  BY <1>d, <1>15 DEF vars, money
<1> QED
  BY <1>1, <1>2, <1>3, <1>4, <1>5, <1>6, <1>7, <1>8, <1>9, <1>10, <1>11, <1>12, <1>13, <1>14, <1>15 DEF Next

(* PaidFromPots, for every value of the constants: what is paid has left     *)
(* some pot, to the last wei, but for the owner's withdrawal of everything   *)
(* and for rewards, which never exceed what leaves the pots once more.       *)
THEOREM NobodyIsPaidFromAfar == Spec => PaidFromPots
<1>1. PotsInv /\ [Next]_vars => PotsInv'  BY EveryPotStep
<1>2. PotsInv /\ [Next]_vars =>
        [LET out  == balance - balance'
             from == Total(stakedBalances, Accounts) - Total(stakedBalances', Accounts)
         IN  out <= from \/ EmergencyWithdraw \/ (out <= 2 * from /\ Rewarded)]_vars
  BY EveryPayment DEF PaidStep
<1> QED  BY InitPotsInv, <1>1, <1>2, PTL DEF Spec, PaidFromPots
=============================================================================
