------------------------ MODULE OperatorScriptsProofs ------------------------
(***************************************************************************)
(* What the operator's scripts leave behind, for any number of validators, *)
(* runs, attempts, prompts and faults.                                     *)
(*                                                                         *)
(* Each group of scripts has an invariant of its own, which says what is   *)
(* on the chain and in the files at any time, and what the running process *)
(* may rely on at each of its steps.  SessionInv puts them together.       *)
(***************************************************************************)
EXTENDS MCOperatorScripts, SequenceTheorems, FiniteSetTheorems, TLAPS

(* What the scripts have in common. *)

(* The contract c was appended to the chain. *)
Grown(c) ==
  /\ Len(chain) + 1 \in Nat \ DOMAIN chain
  /\ DOMAIN chain' = DOMAIN chain \cup {Len(chain) + 1}
  /\ chain'[Len(chain) + 1] = c
  /\ \A a \in DOMAIN chain : chain'[a] = chain[a]

LEMMA Appended ==
  ASSUME NEW S, chain \in Seq(S), NEW c \in S, chain' = Append(chain, c)
  PROVE  chain' \in Seq(S) /\ Grown(c)
BY DEF Grown

LEMMA Replaced ==
  ASSUME NEW S, chain \in Seq(S), NEW a \in DOMAIN chain, NEW c \in S, chain' = [chain EXCEPT ![a] = c]
  PROVE  /\ chain' \in Seq(S) /\ DOMAIN chain' = DOMAIN chain /\ chain'[a] = c
         /\ \A b \in DOMAIN chain \ {a} : chain'[b] = chain[b]
OBVIOUS

LEMMA Learnt ==
  ASSUME NEW name, NEW value, Learn(name, value)
  PROVE  /\ DOMAIN mine' = DOMAIN mine \cup {name}
         /\ mine'[name] = value
         /\ \A n \in DOMAIN mine \ {name} : mine'[n] = mine[n]
BY DEF Learn

LEMMA NothingLearnt == DOMAIN NoLocals = {}
BY EmptySeq, LenProperties DEF NoLocals

LEMMA Addresses == ASSUME NEW S, chain \in Seq(S) PROVE DOMAIN chain \subseteq Nat \ {0}
OBVIOUS

(* A deployment by the running process: mined and answered, or the process   *)
(* ends, with the contract on the chain or without it.                       *)
Deployed(next, name, c) ==
  /\ UNCHANGED runs
  /\ \/ /\ Grown(c) /\ pc' = next
        /\ DOMAIN mine' = DOMAIN mine \cup {name}
        /\ mine'[name] = Len(chain) + 1
        /\ \A n \in DOMAIN mine \ {name} : mine'[n] = mine[n]
     \/ Grown(c) /\ pc' = "failed" /\ mine' = NoLocals
     \/ UNCHANGED chain /\ pc' = "failed" /\ mine' = NoLocals

LEMMA Deployment ==
  ASSUME NEW S, chain \in Seq(S), NEW at, NEW next, NEW name, NEW c \in S, Deploy(at, next, name, c)
  PROVE  pc = at /\ chain' \in Seq(S) /\ Deployed(next, name, c)
<1>1. CASE chain' = Append(chain, c) /\ Goto(next) /\ Learn(name, Len(chain) + 1)
  <2>1. /\ DOMAIN mine' = DOMAIN mine \cup {name}
        /\ mine'[name] = Len(chain) + 1
        /\ \A n \in DOMAIN mine \ {name} : mine'[n] = mine[n]
    BY <1>1, Learnt
  <2>2. chain' \in Seq(S) /\ Grown(c)
    BY <1>1, Appended
  <2>3. QED  BY <1>1, <2>1, <2>2 DEF Deployed, Deploy, Goto
<1>2. CASE chain' = Append(chain, c) /\ Lost
  <2>1. chain' \in Seq(S) /\ Grown(c)
    BY <1>2, Appended
  <2>2. QED  BY <1>2, <2>1 DEF Deployed, Deploy, Lost, Fault
<1>3. CASE UNCHANGED chain /\ Lost
  BY <1>3 DEF Deployed, Deploy, Lost, Fault
<1>4. QED  BY <1>1, <1>2, <1>3 DEF Deploy
-----------------------------------------------------------------------------
(* The treasury scripts.  At each of its steps a run has put on the chain    *)
(* what its local variables name, and nothing else.                          *)

Bought ==
  [kind : {"Safe", "MockAdmin"}, run : Nat]
    \cup [kind : {"LCAITreasury", "LCAIChatSubscription"}, run : Nat, admin : Nat]

AtNoCost ==
  {"treasuryConfig", "treasuryTimelock", "treasuryAdmin", "treasuryMock", "subscriptionInputs", "subscriptionDeploy"}

(* What the run has bought before its treasury: the stand-in, if at all.     *)
StandIn ==
  IF "mock" \in DOMAIN mine THEN {mine.mock} ELSE {}

BoughtTreasury ==
  /\ "treasury" \in DOMAIN mine /\ env.timelock # "bad"
  /\ Treasury!OfThisRun = {mine.treasury} \cup StandIn
  /\ "mock" \in DOMAIN mine => chain[mine.treasury].admin = mine.mock

BoughtSubscription ==
  /\ "subscription" \in DOMAIN mine /\ env.timelock # "bad"
  /\ Treasury!OfThisRun = {mine.subscription}

TreasuryInv ==
  /\ runs \in Nat
  /\ chain \in Seq(Bought)
  /\ \A a \in DOMAIN chain : chain[a].run <= runs
  /\ DOMAIN mine \subseteq {"mock", "treasury", "subscription"}
  /\ pc \in AtNoCost => Treasury!OfThisRun = {} /\ DOMAIN mine = {}
  /\ pc = "treasuryMock" => env.admin = Treasury!Unset
  /\ pc \in {"treasuryCode", "treasuryDeploy"} =>
       /\ Treasury!OfThisRun = StandIn
       /\ "mock" \in DOMAIN mine =>
            env.admin = Treasury!Unset /\ Contract(mine.mock) /\ chain[mine.mock].kind = "MockAdmin"
  /\ pc = "treasuryVerify" => BoughtTreasury
  /\ pc \in {"subscriptionVerify", "subscriptionData"} => BoughtSubscription

LEMMA TreasuryDeployment ==
  ASSUME TreasuryInv, NEW at, NEW next, NEW name \in {"mock", "treasury", "subscription"},
         NEW c \in Bought, c.run = runs, Treasury!Deploy(at, next, name, c)
  PROVE  /\ pc = at /\ runs' \in Nat /\ chain' \in Seq(Bought) /\ Deployed(next, name, c)
         /\ \A a \in DOMAIN chain' : chain'[a].run <= runs'
         /\ DOMAIN mine' \subseteq {"mock", "treasury", "subscription"}
<1>1. Deploy(at, next, name, c)
  BY DEF Deploy, Treasury!Deploy, Goto, Treasury!Goto, Learn, Treasury!Learn, Lost, Treasury!Lost,
         Fault, Treasury!Fault, NoLocals, Treasury!NoLocals
<1>2. pc = at /\ chain' \in Seq(Bought) /\ Deployed(next, name, c)
  BY <1>1, Deployment DEF TreasuryInv
<1>3. \A a \in DOMAIN chain' : chain'[a].run <= runs'
  BY <1>2 DEF Deployed, Grown, TreasuryInv
<1>4. QED  BY <1>2, <1>3, NothingLearnt DEF Deployed, TreasuryInv

(* A decision of the script, on its inputs or on what it reads. *)
LEMMA TreasuryDecides ==
  ASSUME NEW at, NEW next, NEW ok, Treasury!Decision(at, next, ok)
  PROVE  /\ pc = at /\ UNCHANGED <<chain, runs, env, hasConfig>>
         /\ (ok /\ pc' = next /\ UNCHANGED mine) \/ (~ok /\ pc' = "failed" /\ DOMAIN mine' = {})
BY NothingLearnt DEF Treasury!Decision, Treasury!Goto, Treasury!Throw, Treasury!NoLocals, NoLocals

LEMMA TreasuryStarts ==
  ASSUME TreasuryInv, NEW first \in {"treasuryConfig", "subscriptionInputs"}, Treasury!Invoke(first)
  PROVE  TreasuryInv'
<1>1. /\ pc' = first /\ runs' = runs + 1 /\ UNCHANGED chain /\ DOMAIN mine' = {}
  BY NothingLearnt DEF Treasury!Invoke, Treasury!NoLocals, NoLocals
<1>2. Treasury!OfThisRun' = {}
  BY <1>1 DEF Treasury!OfThisRun, TreasuryInv
<1>3. runs' \in Nat /\ \A a \in DOMAIN chain' : chain'[a].run <= runs'
  <2>1. \A a \in DOMAIN chain : chain[a] \in Bought /\ chain[a].run \in Nat
    BY DEF TreasuryInv, Bought
  <2>2. QED  BY <1>1, <2>1 DEF TreasuryInv
<1>4. pc' \notin {"treasuryMock", "treasuryCode", "treasuryDeploy"}
  BY <1>1
<1>5. QED  BY <1>1, <1>2, <1>3, <1>4 DEF TreasuryInv

LEMMA NoneYet ==
  ASSUME TreasuryInv, UNCHANGED <<chain, runs>>
  PROVE  /\ Treasury!OfThisRun' = Treasury!OfThisRun
         /\ \A a : Contract(a)' <=> Contract(a)
BY DEF Treasury!OfThisRun, Contract

(* A run that has failed relies on nothing. *)
LEMMA TreasuryFails ==
  ASSUME TreasuryInv, runs' \in Nat, chain' \in Seq(Bought), \A a \in DOMAIN chain' : chain'[a].run <= runs',
         pc' = "failed", DOMAIN mine' = {}
  PROVE  TreasuryInv'
BY DEF TreasuryInv, AtNoCost

LEMMA TreasuryRefused ==
  ASSUME TreasuryInv, Treasury!Refused
  PROVE  TreasuryInv'
<1>1. UNCHANGED <<chain, runs>> /\ pc' = "failed" /\ DOMAIN mine' = {}
  BY NothingLearnt DEF Treasury!Refused, Treasury!Throw, Treasury!NoLocals, NoLocals
<1>2. QED  BY <1>1, TreasuryFails DEF TreasuryInv

(* A decision leads on when what it leads to may be relied upon. *)
LEMMA TreasuryDecision ==
  ASSUME TreasuryInv, NEW at, NEW next, NEW ok, Treasury!Decision(at, next, ok),
         next \in AtNoCost => at \in AtNoCost,
         next = "treasuryMock" => env.admin = Treasury!Unset,
         next = "treasuryCode" => at \in AtNoCost,
         next = "treasuryDeploy" => at = "treasuryCode",
         ok => next \notin {"treasuryVerify", "subscriptionVerify", "subscriptionData"}
  PROVE  TreasuryInv'
<1>1. /\ pc = at /\ UNCHANGED <<chain, runs, env>>
      /\ (ok /\ pc' = next /\ UNCHANGED mine) \/ (pc' = "failed" /\ DOMAIN mine' = {})
  BY TreasuryDecides
<1>2. Treasury!OfThisRun' = Treasury!OfThisRun /\ (\A a : Contract(a)' <=> Contract(a))
  BY <1>1, NoneYet
<1>3. CASE ok /\ pc' = next /\ UNCHANGED mine
  <2>1. CASE pc \in AtNoCost
    BY <1>1, <1>2, <1>3, <2>1 DEF TreasuryInv, AtNoCost, StandIn
  <2>2. CASE pc \notin AtNoCost
    BY <1>1, <1>2, <1>3, <2>2 DEF TreasuryInv, AtNoCost, StandIn
  <2>3. QED  BY <2>1, <2>2
<1>4. CASE pc' = "failed" /\ DOMAIN mine' = {}
  BY <1>1, <1>4, TreasuryFails DEF TreasuryInv
<1>5. QED  BY <1>1, <1>3, <1>4

LEMMA ResolveAdminInv ==
  ASSUME TreasuryInv, Treasury!ResolveAdmin PROVE TreasuryInv'
<1>1. /\ pc = "treasuryAdmin" /\ UNCHANGED <<chain, runs, env>>
      /\ \/ pc' = "treasuryCode" /\ UNCHANGED mine
         \/ pc' = "treasuryMock" /\ env.admin = Treasury!Unset /\ UNCHANGED mine
         \/ pc' = "failed" /\ DOMAIN mine' = {}
  BY NothingLearnt DEF Treasury!ResolveAdmin, Treasury!Goto, Treasury!Throw, Treasury!NoLocals, NoLocals
<1>2. Treasury!OfThisRun' = Treasury!OfThisRun /\ (\A a : Contract(a)' <=> Contract(a))
  BY <1>1, NoneYet
<1>3. QED  BY <1>1, <1>2 DEF TreasuryInv, AtNoCost, StandIn

(* The first contract of a run. *)
LEMMA FirstOfRun ==
  ASSUME TreasuryInv, NEW c \in Bought, c.run = runs, Grown(c), UNCHANGED runs
  PROVE  Treasury!OfThisRun' = Treasury!OfThisRun \cup {Len(chain) + 1}
BY DEF Treasury!OfThisRun, Grown

LEMMA DeployMockAdminInv ==
  ASSUME TreasuryInv, Treasury!DeployMockAdmin PROVE TreasuryInv'
<1> DEFINE c == [kind |-> "MockAdmin", run |-> runs]
<1>1. c \in Bought /\ c.run = runs /\ c.kind = "MockAdmin"
  BY DEF Bought, TreasuryInv
<1>2. Treasury!Deploy("treasuryMock", "treasuryCode", "mock", c) /\ UNCHANGED env
  BY DEF Treasury!DeployMockAdmin
<1> HIDE DEF c
<1>3. /\ pc = "treasuryMock" /\ runs' \in Nat /\ chain' \in Seq(Bought)
      /\ Deployed("treasuryCode", "mock", c)
      /\ \A a \in DOMAIN chain' : chain'[a].run <= runs'
      /\ DOMAIN mine' \subseteq {"mock", "treasury", "subscription"}
  BY <1>1, <1>2, TreasuryDeployment
<1>4. CASE pc' = "failed" /\ mine' = NoLocals
  BY <1>3, <1>4, NothingLearnt, TreasuryFails
<1>5. CASE /\ Grown(c) /\ pc' = "treasuryCode" /\ UNCHANGED runs
           /\ DOMAIN mine' = DOMAIN mine \cup {"mock"} /\ mine'["mock"] = Len(chain) + 1
  <2>1. Treasury!OfThisRun' = {mine'["mock"]} /\ "mock" \in DOMAIN mine'
    BY <1>1, <1>3, <1>5, FirstOfRun DEF TreasuryInv, AtNoCost
  <2>2. Contract(mine.mock)' /\ chain'[mine'["mock"]].kind = "MockAdmin"
    BY <1>1, <1>5 DEF Grown, Contract
  <2>3. env'.admin = Treasury!Unset
    BY <1>2, <1>3 DEF TreasuryInv
  <2>4. QED  BY <1>3, <1>5, <2>1, <2>2, <2>3 DEF TreasuryInv, AtNoCost, StandIn
<1>6. QED  BY <1>3, <1>4, <1>5 DEF Deployed

LEMMA DeployTreasuryInv ==
  ASSUME TreasuryInv, Treasury!DeployTreasury PROVE TreasuryInv'
<1> DEFINE c == [kind |-> "LCAITreasury", run |-> runs, admin |-> Treasury!Admin]
<1>1. pc = "treasuryDeploy" /\ UNCHANGED env
  BY DEF Treasury!DeployTreasury
<1>2. Treasury!Admin \in Nat
  BY <1>1, Addresses DEF Treasury!Admin, Treasury!Deployer, TreasuryInv, Contract
<1>3. c \in Bought /\ c.run = runs /\ c.admin = Treasury!Admin
  BY <1>2 DEF Bought, TreasuryInv
<1> HIDE DEF c
<1>4. CASE Treasury!Refused
  BY <1>4, TreasuryRefused
<1>5. CASE env.timelock # "bad" /\ Treasury!Deploy("treasuryDeploy", "treasuryVerify", "treasury", c)
  <2>1. /\ runs' \in Nat /\ chain' \in Seq(Bought) /\ Deployed("treasuryVerify", "treasury", c)
        /\ \A a \in DOMAIN chain' : chain'[a].run <= runs'
        /\ DOMAIN mine' \subseteq {"mock", "treasury", "subscription"}
    BY <1>3, <1>5, TreasuryDeployment
  <2>2. CASE pc' = "failed" /\ mine' = NoLocals
    BY <2>1, <2>2, NothingLearnt, TreasuryFails
  <2>3. CASE /\ Grown(c) /\ pc' = "treasuryVerify" /\ UNCHANGED runs
             /\ DOMAIN mine' = DOMAIN mine \cup {"treasury"} /\ mine'["treasury"] = Len(chain) + 1
             /\ \A n \in DOMAIN mine \ {"treasury"} : mine'[n] = mine[n]
    <3>1. Treasury!OfThisRun' = StandIn \cup {mine'["treasury"]}
      BY <1>1, <1>3, <2>3, FirstOfRun DEF TreasuryInv
    <3>2. StandIn' = StandIn
      BY <2>3 DEF StandIn
    <3>3. "mock" \in DOMAIN mine' => c.admin = mine'["mock"]
      BY <1>1, <1>3, <2>3 DEF TreasuryInv, Treasury!Admin, Treasury!Unset
    <3>4. chain'[mine'["treasury"]] = c
      BY <2>3 DEF Grown
    <3>5. BoughtTreasury'
      BY <1>1, <1>5, <2>3, <3>1, <3>2, <3>3, <3>4 DEF BoughtTreasury
    <3>6. QED  BY <2>1, <2>3, <3>5 DEF TreasuryInv, AtNoCost
  <2>4. QED  BY <2>1, <2>2, <2>3 DEF Deployed
<1>6. QED  BY <1>4, <1>5 DEF Treasury!DeployTreasury, c

LEMMA TreasuryDeploySubscriptionInv ==
  ASSUME TreasuryInv, Treasury!DeploySubscription PROVE TreasuryInv'
<1> DEFINE c == [kind |-> "LCAIChatSubscription", run |-> runs, admin |-> Treasury!SubscriptionAdmin]
<1>1. pc = "subscriptionDeploy" /\ UNCHANGED env
  BY DEF Treasury!DeploySubscription
<1>3. c \in Bought /\ c.run = runs
  BY DEF Bought, TreasuryInv, Treasury!SubscriptionAdmin, Treasury!Deployer
<1> HIDE DEF c
<1>4. CASE Treasury!Refused
  BY <1>4, TreasuryRefused
<1>5. CASE env.timelock # "bad" /\ Treasury!Deploy("subscriptionDeploy", "subscriptionVerify", "subscription", c)
  <2>1. /\ runs' \in Nat /\ chain' \in Seq(Bought) /\ Deployed("subscriptionVerify", "subscription", c)
        /\ \A a \in DOMAIN chain' : chain'[a].run <= runs'
        /\ DOMAIN mine' \subseteq {"mock", "treasury", "subscription"}
    BY <1>3, <1>5, TreasuryDeployment
  <2>2. CASE pc' = "failed" /\ mine' = NoLocals
    BY <2>1, <2>2, NothingLearnt, TreasuryFails
  <2>3. CASE /\ Grown(c) /\ pc' = "subscriptionVerify" /\ UNCHANGED runs
             /\ DOMAIN mine' = DOMAIN mine \cup {"subscription"} /\ mine'["subscription"] = Len(chain) + 1
    <3>1. Treasury!OfThisRun' = {mine'["subscription"]}
      BY <1>1, <1>3, <2>3, FirstOfRun DEF TreasuryInv, AtNoCost
    <3>2. BoughtSubscription'
      BY <1>1, <1>5, <2>3, <3>1 DEF BoughtSubscription
    <3>3. QED  BY <2>1, <2>3, <3>2 DEF TreasuryInv, AtNoCost
  <2>4. QED  BY <2>1, <2>2, <2>3 DEF Deployed
<1>6. QED  BY <1>4, <1>5 DEF Treasury!DeploySubscription, c

LEMMA TreasuryStep == TreasuryInv /\ [Treasury!Next]_(Treasury!vars) => TreasuryInv'
<1> SUFFICES ASSUME TreasuryInv, [Treasury!Next]_(Treasury!vars) PROVE TreasuryInv'
  OBVIOUS
<1>1. CASE Treasury!StartTreasury \/ Treasury!StartSubscription
  BY <1>1, TreasuryStarts DEF Treasury!StartTreasury, Treasury!StartSubscription
<1>2. CASE Treasury!ReadConfig
  BY <1>2, TreasuryDecision DEF Treasury!ReadConfig, AtNoCost
<1>3. CASE Treasury!CheckTimelock
  BY <1>3, TreasuryDecision DEF Treasury!CheckTimelock, AtNoCost
<1>4. CASE Treasury!ResolveAdmin
  BY <1>4, ResolveAdminInv
<1>5. CASE Treasury!DeployMockAdmin
  BY <1>5, DeployMockAdminInv
<1>6. CASE Treasury!CheckAdminCode
  BY <1>6, TreasuryDecision DEF Treasury!CheckAdminCode, AtNoCost
<1>7. CASE Treasury!DeployTreasury
  BY <1>7, DeployTreasuryInv
<1>8. CASE Treasury!VerifyTreasury
  BY <1>8, TreasuryDecision DEF Treasury!VerifyTreasury, AtNoCost
<1>9. CASE Treasury!CheckInputs
  BY <1>9, TreasuryDecision DEF Treasury!CheckInputs, AtNoCost
<1>10. CASE Treasury!DeploySubscription
  BY <1>10, TreasuryDeploySubscriptionInv
<1>11. CASE Treasury!VerifySubscription
  <2>1. /\ pc = "subscriptionVerify" /\ UNCHANGED <<chain, runs, env>>
        /\ \/ pc' = "subscriptionData" /\ UNCHANGED mine
           \/ pc' = "failed" /\ DOMAIN mine' = {}
    BY <1>11, NothingLearnt DEF Treasury!VerifySubscription, Treasury!Goto, Treasury!Lost, Treasury!Fault,
                                Treasury!NoLocals, NoLocals
  <2>2. Treasury!OfThisRun' = Treasury!OfThisRun
    BY <2>1, NoneYet
  <2>3. CASE pc' = "subscriptionData" /\ UNCHANGED mine
    BY <2>1, <2>2, <2>3 DEF TreasuryInv, AtNoCost, BoughtSubscription
  <2>4. CASE pc' = "failed" /\ DOMAIN mine' = {}
    BY <2>1, <2>4, TreasuryFails DEF TreasuryInv
  <2>5. QED  BY <2>1, <2>3, <2>4
<1>12. CASE Treasury!BuildDeploymentData
  BY <1>12, TreasuryDecision DEF Treasury!BuildDeploymentData, AtNoCost
<1>13. CASE UNCHANGED Treasury!vars
  <2>1. UNCHANGED <<chain, mine, pc, runs, env>>
    BY <1>13 DEF Treasury!vars, Treasury!script
  <2>2. Treasury!OfThisRun' = Treasury!OfThisRun /\ (\A a : Contract(a)' <=> Contract(a))
    BY <2>1, NoneYet
  <2>3. QED  BY <2>1, <2>2 DEF TreasuryInv, AtNoCost, StandIn, BoughtTreasury, BoughtSubscription
<1>14. QED
  BY <1>1, <1>2, <1>3, <1>4, <1>5, <1>6, <1>7, <1>8, <1>9, <1>10, <1>11, <1>12, <1>13 DEF Treasury!Next

LEMMA TreasuryInitial == Treasury!Init => TreasuryInv
<1> SUFFICES ASSUME Treasury!Init PROVE TreasuryInv
  OBVIOUS
<1>1. chain = <<Treasury!SomeSafe>> /\ pc = "idle" /\ runs = 0 /\ DOMAIN mine = {}
  BY NothingLearnt DEF Treasury!Init, Treasury!ScriptInit, Treasury!NoLocals, NoLocals
<1>2. Treasury!SomeSafe \in Bought /\ Treasury!SomeSafe.run = 0
  BY DEF Treasury!SomeSafe, Bought
<1>3. chain \in Seq(Bought) /\ \A a \in DOMAIN chain : chain[a].run <= 0
  BY <1>1, <1>2
<1>4. QED  BY <1>1, <1>3 DEF TreasuryInv, AtNoCost

LEMMA TreasuryFailures ==
  ASSUME TreasuryInv, [Treasury!Next]_(Treasury!vars) PROVE Treasury!WhatFailureLeavesStep
<1> DEFINE OK ==
      IF env.timelock = "bad" THEN Treasury!OfThisRun \subseteq Treasury!Instances("MockAdmin")
      ELSE \/ Treasury!OfThisRun = {}
           \/ "subscription" \in DOMAIN mine /\ Treasury!OfThisRun = {mine.subscription}
           \/ /\ "treasury" \in DOMAIN mine
              /\ Treasury!OfThisRun = {mine.treasury} \cup (Treasury!OfThisRun \cap {chain[mine.treasury].admin})
<1> SUFFICES ASSUME pc # "failed", pc' = "failed", ~Treasury!Fault PROVE OK
  BY DEF Treasury!WhatFailureLeavesStep, Treasury!FailsOfItself
<1>1. CASE Treasury!OfThisRun = {}
  BY <1>1
<1>2. CASE pc = "treasuryVerify"
  BY <1>2 DEF TreasuryInv, BoughtTreasury, StandIn
<1>3. CASE pc \in {"subscriptionVerify", "subscriptionData"}
  BY <1>3 DEF TreasuryInv, BoughtSubscription
<1>4. CASE pc = "treasuryDeploy" /\ env.timelock = "bad"
  <2>1. Treasury!OfThisRun = StandIn
    BY <1>4 DEF TreasuryInv
  <2>2. StandIn \subseteq Treasury!Instances("MockAdmin")
    BY <1>4 DEF TreasuryInv, StandIn, Treasury!Instances, Contract
  <2>3. QED  BY <1>4, <2>1, <2>2
<1>5. CASE pc = "treasuryCode" /\ Treasury!OfThisRun # {}
  <2>1. Contract(Treasury!Admin)
    BY <1>5 DEF TreasuryInv, StandIn, Treasury!Admin, Treasury!Unset
  <2>2. Treasury!Contract(Treasury!Admin)
    BY <2>1 DEF Contract, Treasury!Contract
  <2>3. ~Treasury!CheckAdminCode
    BY <2>2 DEF Treasury!CheckAdminCode, Treasury!Decision, Treasury!Goto
  <2>4. QED
    BY <1>5, <2>3, TreasuryDecides
    DEF Treasury!Next, Treasury!vars, Treasury!script, Treasury!StartTreasury, Treasury!StartSubscription,
        Treasury!Invoke, Treasury!Stopped, Treasury!ReadConfig, Treasury!CheckTimelock,
        Treasury!ResolveAdmin, Treasury!DeployMockAdmin, Treasury!Deploy, Treasury!DeployTreasury,
        Treasury!VerifyTreasury, Treasury!CheckInputs, Treasury!DeploySubscription,
        Treasury!VerifySubscription, Treasury!BuildDeploymentData, Treasury!Decision
<1>6. pc \in AtNoCost \cup {"treasuryCode", "treasuryDeploy", "treasuryVerify", "subscriptionVerify", "subscriptionData"}
  BY TreasuryDecides
  DEF AtNoCost, Treasury!Next, Treasury!vars, Treasury!script, Treasury!StartTreasury, Treasury!StartSubscription,
      Treasury!Invoke, Treasury!ReadConfig, Treasury!CheckTimelock,
      Treasury!ResolveAdmin, Treasury!DeployMockAdmin, Treasury!Deploy, Treasury!DeployTreasury, Treasury!CheckAdminCode,
      Treasury!VerifyTreasury, Treasury!CheckInputs, Treasury!DeploySubscription,
      Treasury!VerifySubscription, Treasury!BuildDeploymentData, Treasury!Decision
<1>7. ~(pc = "treasuryDeploy" /\ env.timelock # "bad")
  <2> SUFFICES ASSUME pc = "treasuryDeploy", env.timelock # "bad" PROVE FALSE
    OBVIOUS
  <2>1. Treasury!DeployTreasury
    BY TreasuryDecides
    DEF Treasury!Next, Treasury!vars, Treasury!script, Treasury!StartTreasury, Treasury!StartSubscription,
        Treasury!Invoke, Treasury!Stopped, Treasury!ReadConfig, Treasury!CheckTimelock, Treasury!CheckAdminCode,
        Treasury!ResolveAdmin, Treasury!DeployMockAdmin, Treasury!Deploy,
        Treasury!VerifyTreasury, Treasury!CheckInputs, Treasury!DeploySubscription,
        Treasury!VerifySubscription, Treasury!BuildDeploymentData, Treasury!Decision
  <2>2. QED
    BY <2>1 DEF Treasury!DeployTreasury, Treasury!Deploy, Treasury!Goto, Treasury!Lost
<1>8. QED  BY <1>1, <1>2, <1>3, <1>4, <1>5, <1>6, <1>7 DEF TreasuryInv
-----------------------------------------------------------------------------
(* The inference clients.  What is asked for on the chain is what the        *)
(* process compared with the coordinator's copy, and both stay.              *)

Asked == [kind : {"InferenceV2", "Inference"}, prompt : Prompts, promptId : Nat, block : Nat]

HasPrompt == {"store", "compare", "digest", "request", "requestV1"}
HasId     == {"compare", "digest", "request"}

ClientInv ==
  /\ chain \in Seq(Asked)
  /\ stored \in Seq(Prompts)
  /\ block \in Nat
  /\ Client!RequestedIsStored
  /\ \A t \in tasks : t.task_id \in Client!RequestsV1 /\ t = Client!Task(t.task_id, t.task_id)
  /\ DOMAIN mine \subseteq {"prompt", "id", "request"}
  /\ pc \in HasPrompt => "prompt" \in DOMAIN mine /\ mine.prompt \in Prompts
  /\ pc \in HasId => "id" \in DOMAIN mine /\ mine.id \in DOMAIN stored
  /\ pc \in {"digest", "request"} => stored[mine.id] = mine.prompt

(* What was asked for and what is stored stays. *)
LEMMA ClientLasts ==
  ASSUME ClientInv, UNCHANGED <<tasks, block>>,
         chain' \in Seq(Asked), \A a \in DOMAIN chain : a \in DOMAIN chain' /\ chain'[a] = chain[a],
         stored' \in Seq(Prompts), \A i \in DOMAIN stored : i \in DOMAIN stored' /\ stored'[i] = stored[i],
         \A r \in DOMAIN chain' \ DOMAIN chain : chain'[r].kind = "InferenceV2" =>
           chain'[r].promptId \in DOMAIN stored /\ stored[chain'[r].promptId] = chain'[r].prompt
  PROVE  /\ block' \in Nat /\ Client!RequestedIsStored'
         /\ \A t \in tasks' : t.task_id \in Client!RequestsV1' /\ t = Client!Task(t.task_id, t.task_id)'
<1>1. Client!RequestedIsStored'
  BY DEF Client!RequestedIsStored, Client!RequestsV2, Client!Instances, ClientInv
<1>2. ASSUME NEW t \in tasks'
      PROVE  t.task_id \in Client!RequestsV1' /\ t = Client!Task(t.task_id, t.task_id)'
  <2>1. t.task_id \in Client!RequestsV1 /\ t = Client!Task(t.task_id, t.task_id)
    BY <1>2 DEF ClientInv
  <2>2. t.task_id \in DOMAIN chain' /\ chain'[t.task_id] = chain[t.task_id] /\ chain[t.task_id].kind = "Inference"
    BY <2>1 DEF Client!RequestsV1, Client!Instances
  <2>3. QED  BY <2>1, <2>2 DEF Client!RequestsV1, Client!Instances, Client!Task
<1>3. QED  BY <1>1, <1>2 DEF ClientInv

(* A step of the process that neither asks nor stores. *)
LEMMA ClientThinks ==
  ASSUME ClientInv, UNCHANGED <<chain, stored, tasks, block>>,
         \/ DOMAIN mine' = {} /\ pc' \notin HasPrompt
         \/ UNCHANGED mine /\ UNCHANGED pc
         \/ UNCHANGED mine /\ pc' \notin HasPrompt
         \/ UNCHANGED mine /\ pc = "compare" /\ pc' = "digest" /\ stored[mine.id] = mine.prompt
         \/ UNCHANGED mine /\ pc = "digest" /\ pc' = "request"
  PROVE  ClientInv'
<1>1. /\ block' \in Nat /\ Client!RequestedIsStored'
      /\ \A t \in tasks' : t.task_id \in Client!RequestsV1' /\ t = Client!Task(t.task_id, t.task_id)'
  BY ClientLasts DEF ClientInv
<1>2. QED  BY <1>1 DEF ClientInv, HasPrompt, HasId

LEMMA ClientStarts ==
  ASSUME ClientInv, Client!StartRequestV2 \/ Client!StartRequest PROVE ClientInv'
<1>1. /\ pc' \in {"store", "requestV1"} /\ UNCHANGED <<chain, stored, tasks, block>>
      /\ \E p \in Prompts : mine' = [prompt |-> p]
  BY DEF Client!StartRequestV2, Client!StartRequest
<1>2. /\ block' \in Nat /\ Client!RequestedIsStored'
      /\ \A t \in tasks' : t.task_id \in Client!RequestsV1' /\ t = Client!Task(t.task_id, t.task_id)'
  BY <1>1, ClientLasts DEF ClientInv
<1>3. DOMAIN mine' = {"prompt"} /\ mine'.prompt \in Prompts
  BY <1>1
<1>4. QED  BY <1>1, <1>2, <1>3 DEF ClientInv, HasPrompt, HasId

LEMMA StorePromptInv ==
  ASSUME ClientInv, Client!StorePrompt PROVE ClientInv'
<1>1. pc = "store" /\ UNCHANGED <<chain, tasks, block>>
  BY DEF Client!StorePrompt
<1>2. mine.prompt \in Prompts /\ "prompt" \in DOMAIN mine
  BY <1>1 DEF ClientInv, HasPrompt
<1>3. CASE stored' = Append(stored, mine.prompt)
  <2>1. /\ stored' \in Seq(Prompts) /\ Len(stored) + 1 \in DOMAIN stored'
        /\ \A i \in DOMAIN stored : i \in DOMAIN stored' /\ stored'[i] = stored[i]
    BY <1>2, <1>3 DEF ClientInv
  <2>2. /\ block' \in Nat /\ Client!RequestedIsStored'
        /\ \A t \in tasks' : t.task_id \in Client!RequestsV1' /\ t = Client!Task(t.task_id, t.task_id)'
    BY <1>1, <2>1, ClientLasts DEF ClientInv
  <2>3. CASE pc' = "compare" /\ \E id \in DOMAIN stored' : Learn("id", id)
    <3>1. PICK id \in DOMAIN stored' : Learn("id", id)
      BY <2>3
    <3>2. /\ DOMAIN mine' = DOMAIN mine \cup {"id"} /\ mine'.id = id /\ mine'.prompt = mine.prompt
      BY <1>2, <3>1, Learnt
    <3>3. QED  BY <1>1, <1>2, <2>1, <2>2, <2>3, <3>2 DEF ClientInv, HasPrompt, HasId
  <2>4. CASE pc' = "failed" /\ DOMAIN mine' = {}
    BY <1>1, <2>1, <2>2, <2>4 DEF ClientInv, HasPrompt, HasId
  <2>5. (pc' = "compare" /\ \E id \in DOMAIN stored' : Learn("id", id)) \/ (pc' = "failed" /\ DOMAIN mine' = {})
    BY <1>3, <2>1, NothingLearnt
    DEF Client!StorePrompt, Client!Goto, Client!Lost, Client!Fault, Client!Learn, Learn, Client!NoLocals, NoLocals
  <2>6. QED  BY <2>3, <2>4, <2>5
<1>4. CASE UNCHANGED stored /\ Client!Lost
  <2>1. pc' = "failed" /\ DOMAIN mine' = {}
    BY <1>4, NothingLearnt DEF Client!Lost, Client!NoLocals, NoLocals
  <2>2. QED  BY <1>1, <1>4, <2>1, ClientThinks DEF HasPrompt
<1>5. QED  BY <1>3, <1>4 DEF Client!StorePrompt

(* A transaction that asks for an inference. *)
LEMMA ClientAsks ==
  ASSUME ClientInv, NEW at, NEW next, next \notin HasPrompt, NEW c \in Asked, Client!Deploy(at, next, "request", c),
         UNCHANGED <<stored, tasks, block>>,
         c.kind = "InferenceV2" => c.promptId \in DOMAIN stored /\ stored[c.promptId] = c.prompt
  PROVE  ClientInv'
<1>1. Deploy(at, next, "request", c)
  BY DEF Deploy, Client!Deploy, Goto, Client!Goto, Learn, Client!Learn, Lost, Client!Lost,
         Fault, Client!Fault, NoLocals, Client!NoLocals
<1>2. chain' \in Seq(Asked) /\ Deployed(next, "request", c)
  BY <1>1, Deployment DEF ClientInv
<1>3. CASE UNCHANGED chain /\ pc' = "failed" /\ mine' = NoLocals
  BY <1>3, NothingLearnt, ClientThinks DEF HasPrompt
<1>4. CASE Grown(c)
  <2>1. /\ \A a \in DOMAIN chain : a \in DOMAIN chain' /\ chain'[a] = chain[a]
        /\ \A a \in DOMAIN chain' \ DOMAIN chain : chain'[a] = c
    BY <1>4 DEF Grown
  <2>2. /\ block' \in Nat /\ Client!RequestedIsStored'
        /\ \A t \in tasks' : t.task_id \in Client!RequestsV1' /\ t = Client!Task(t.task_id, t.task_id)'
    BY <1>2, <2>1, ClientLasts DEF ClientInv
  <2>3. pc' \notin HasPrompt /\ DOMAIN mine' \subseteq {"prompt", "id", "request"}
    BY <1>2, NothingLearnt DEF Deployed, ClientInv, HasPrompt
  <2>4. QED  BY <1>2, <2>2, <2>3 DEF ClientInv, HasPrompt, HasId
<1>5. QED  BY <1>2, <1>3, <1>4 DEF Deployed

LEMMA EnqueueInv ==
  ASSUME ClientInv, NEW id \in Client!RequestsV1, Client!Enqueue(id) PROVE ClientInv'
<1>1. UNCHANGED <<chain, stored, block>> /\ pc' \in {"failed", "done"} /\ DOMAIN mine' = {}
  BY NothingLearnt DEF Client!Enqueue, Client!NoLocals, NoLocals
<1>2. Client!Events(id) # {} => Client!Newest(Client!Events(id)) = id
  <2>1. Client!Events(id) \subseteq {id}
    BY DEF Client!Events
  <2>2. id \in Nat
    BY Addresses DEF ClientInv, Client!RequestsV1, Client!Instances
  <2>3. Client!Events(id) # {} => Client!Newest(Client!Events(id)) \in Client!Events(id)
    BY <2>1, <2>2 DEF Client!Newest
  <2>4. QED  BY <2>1, <2>3
<1>3. tasks' \subseteq tasks \cup {Client!Task(id, id)}
  BY <1>2 DEF Client!Enqueue
<1>4. Client!Task(id, id).task_id = id
  BY DEF Client!Task
<1>5. \A t \in tasks' : t.task_id \in Client!RequestsV1 /\ t = Client!Task(t.task_id, t.task_id)
  BY <1>3, <1>4 DEF ClientInv
<1>6. /\ Client!RequestsV1' = Client!RequestsV1
      /\ \A t : Client!Task(t.task_id, t.task_id)' = Client!Task(t.task_id, t.task_id)
  BY <1>1 DEF Client!RequestsV1, Client!Instances, Client!Task
<1>7. Client!RequestedIsStored'
  BY <1>1 DEF ClientInv, Client!RequestedIsStored, Client!RequestsV2, Client!Instances
<1>8. QED  BY <1>1, <1>5, <1>6, <1>7 DEF ClientInv, HasPrompt, HasId

LEMMA NewBlockInv ==
  ASSUME ClientInv, Client!NewBlock PROVE ClientInv'
<1>1. UNCHANGED <<chain, mine, pc, stored, tasks>> /\ block' \in Nat
  BY DEF Client!NewBlock, Client!script, ClientInv
<1>2. /\ Client!RequestsV1' = Client!RequestsV1
      /\ \A t : Client!Task(t.task_id, t.task_id)' = Client!Task(t.task_id, t.task_id)
  BY <1>1 DEF Client!RequestsV1, Client!Instances, Client!Task
<1>3. Client!RequestedIsStored'
  BY <1>1 DEF ClientInv, Client!RequestedIsStored, Client!RequestsV2, Client!Instances
<1>4. QED  BY <1>1, <1>2, <1>3 DEF ClientInv, HasPrompt, HasId

LEMMA ClientStep == ClientInv /\ [Client!Next]_(Client!vars) => ClientInv'
<1> SUFFICES ASSUME ClientInv, [Client!Next]_(Client!vars) PROVE ClientInv'
  OBVIOUS
<1>1. CASE Client!StartRequestV2 \/ Client!StartRequest
  BY <1>1, ClientStarts
<1>2. CASE Client!StorePrompt
  BY <1>2, StorePromptInv
<1>3. CASE Client!CompareHash
  BY <1>3, ClientThinks, NothingLearnt
  DEF Client!CompareHash, Client!Goto, Client!Throw, Client!NoLocals, NoLocals, HasPrompt
<1>4. CASE Client!GetModelDigest
  BY <1>4, ClientThinks, NothingLearnt
  DEF Client!GetModelDigest, Client!Goto, Client!Lost, Client!NoLocals, NoLocals, HasPrompt
<1>5. CASE Client!RequestInferenceV2
  <2> DEFINE c == [kind |-> "InferenceV2", prompt |-> mine.prompt, promptId |-> mine.id, block |-> block]
  <2>1. /\ pc = "request" /\ UNCHANGED <<stored, tasks, block>>
        /\ Client!Deploy("request", "receipt", "request", c)
    BY <1>5 DEF Client!RequestInferenceV2, Client!Deploy
  <2>2. /\ mine.prompt \in Prompts /\ mine.id \in DOMAIN stored /\ stored[mine.id] = mine.prompt /\ mine.id \in Nat
    BY <2>1 DEF ClientInv, HasPrompt, HasId
  <2>3. c \in Asked /\ c.promptId = mine.id /\ c.prompt = mine.prompt
    BY <2>2 DEF Asked, ClientInv
  <2> HIDE DEF c
  <2>4. QED  BY <2>1, <2>2, <2>3, ClientAsks DEF HasPrompt
<1>6. CASE Client!FindRequestId
  BY <1>6, ClientThinks DEF Client!FindRequestId, Client!Goto, HasPrompt
<1>7. CASE Client!RequestInference
  <2> DEFINE c == [kind |-> "Inference", prompt |-> mine.prompt, promptId |-> 0, block |-> block]
  <2>1. /\ pc = "requestV1" /\ UNCHANGED <<stored, tasks, block>>
        /\ Client!Deploy("requestV1", "done", "request", c)
    BY <1>7 DEF Client!RequestInference, Client!Deploy
  <2>2. mine.prompt \in Prompts
    BY <2>1 DEF ClientInv, HasPrompt
  <2>3. c \in Asked /\ c.kind # "InferenceV2"
    BY <2>2 DEF Asked, ClientInv
  <2> HIDE DEF c
  <2>4. QED  BY <2>1, <2>2, <2>3, ClientAsks DEF HasPrompt
<1>8. CASE \E id \in Client!RequestsV1 : Client!Enqueue(id)
  BY <1>8, EnqueueInv
<1>9. CASE Client!NewBlock
  BY <1>9, NewBlockInv
<1>10. CASE UNCHANGED Client!vars
  BY <1>10, ClientThinks DEF Client!vars, Client!script
<1>11. QED
  BY <1>1, <1>2, <1>3, <1>4, <1>5, <1>6, <1>7, <1>8, <1>9, <1>10 DEF Client!Next, Client!Step

LEMMA ClientInitial == Client!Init => ClientInv
<1> SUFFICES ASSUME Client!Init PROVE ClientInv
  OBVIOUS
<1>1. /\ chain = <<>> /\ stored = <<>> /\ tasks = {} /\ block = 0 /\ pc = "idle" /\ DOMAIN mine = {}
      /\ DOMAIN chain = {}
  BY NothingLearnt DEF Client!Init, Client!ScriptInit, Client!NoLocals, NoLocals
<1>2. Client!RequestedIsStored
  BY <1>1 DEF Client!RequestedIsStored, Client!RequestsV2, Client!Instances
<1>3. QED  BY <1>1, <1>2 DEF ClientInv, HasPrompt, HasId

LEMMA ClientTasksMatch == ClientInv => Client!TasksMatchRequests
<1> SUFFICES ASSUME ClientInv PROVE Client!TasksMatchRequests
  OBVIOUS
<1>1. ASSUME NEW t \in tasks
      PROVE  /\ t.task_id \in Client!RequestsV1
             /\ t = [task_id |-> t.task_id, prompt |-> chain[t.task_id].prompt]
  BY DEF ClientInv, Client!Task
<1>2. \A s, t \in tasks : s.task_id = t.task_id => s = t
  BY <1>1
<1>3. \A t \in tasks : t.task_id \in Client!RequestsV1 /\ t.prompt = chain[t.task_id].prompt
  BY <1>1
<1>4. QED  BY <1>2, <1>3 DEF Client!TasksMatchRequests
-----------------------------------------------------------------------------
(* The chat utility.  A run has one instance it works on, its newest, and    *)
(* what it left behind before that one is bare.                              *)

ChatContracts ==
  [kind : {"Timelock"}, admins : SUBSET Nat, proposers : SUBSET Nat, executors : SUBSET Nat]
    \cup [kind : {"ChatUtility"}, run : Nat, owner : Nat, issuers : SUBSET Nat, balance : Nat]

Manageable(t) == IsA(t, "Timelock") /\ Deployer \in chain[t].proposers \cap chain[t].executors

Bare(c) ==
  /\ chain[c].owner = Deployer /\ chain[c].balance = 0 /\ chain[c].issuers = {Deployer}
  /\ \A r \in reported : r.chat # c

OfRun(n) == {c \in Instances("ChatUtility") : chain[c].run = n}

ChatChain ==
  /\ runs \in Nat
  /\ chain \in Seq(ChatContracts)
  /\ \A c \in Instances("ChatUtility") : chain[c].run <= runs
  /\ \A c \in Instances("ChatUtility") :
       chain[c].balance > 0 => chain[c].owner = Deployer \/ Manageable(chain[c].owner)
  /\ \A c, d \in Instances("ChatUtility") : c < d /\ chain[c].run = chain[d].run => Bare(c)
  /\ \A r \in reported : Contract(r.chat)

KnowsTimelock == {"chat", "verify", "authorize", "transfer", "fund", "log"}
WorksOnChat   == {"verify", "authorize", "transfer", "fund", "log"}
WorksLocally  == {"localTransfer", "localSummary"}

ChatKnown ==
  /\ "chat" \in DOMAIN mine
  /\ mine.chat \in OfRun(runs)
  /\ \A c \in OfRun(runs) : c <= mine.chat

ChatProcess ==
  /\ DOMAIN mine \subseteq {"timelock", "chat", "attempt"}
  /\ pc \in {"timelock", "localChat"} => OfRun(runs) = {}
  /\ pc = "chat" => \A c \in OfRun(runs) : Bare(c)
  /\ pc \in KnowsTimelock => "timelock" \in DOMAIN mine /\ Manageable(mine.timelock)
  /\ pc \in WorksOnChat \cup WorksLocally => ChatKnown
  /\ pc \in WorksOnChat => chain[mine.chat].owner \in {Deployer, mine.timelock}
  /\ pc \in WorksLocally => chain[mine.chat].balance = 0

ChatInv == ChatChain /\ ChatProcess

LEMMA ChatKinds ==
  ASSUME NEW c \in ChatContracts
  PROVE  c.kind = "ChatUtility" => c.run \in Nat /\ c.owner \in Nat /\ c.balance \in Nat
BY DEF ChatContracts

(* A new contract: a timelock, or an instance that joins bare ones.          *)
LEMMA ChatGrows ==
  ASSUME ChatChain, NEW c \in ChatContracts, chain' \in Seq(ChatContracts), Grown(c), UNCHANGED <<runs, reported>>,
         c.kind = "ChatUtility" =>
           c.run = runs /\ c.owner = Deployer /\ c.balance = 0 /\ \A b \in OfRun(runs) : Bare(b)
  PROVE  /\ ChatChain'
         /\ \A t : Manageable(t) => Manageable(t)'
         /\ \A b \in DOMAIN chain : Bare(b) => Bare(b)'
         /\ c.kind # "ChatUtility" => \A n : OfRun(n)' = OfRun(n)
         /\ c.kind = "ChatUtility" => OfRun(runs)' = OfRun(runs) \cup {Len(chain) + 1}
<1> DEFINE new == Len(chain) + 1
<1>1. /\ DOMAIN chain \subseteq Nat /\ new \in Nat \ DOMAIN chain /\ DOMAIN chain' = DOMAIN chain \cup {new}
      /\ chain'[new] = c /\ \A a \in DOMAIN chain : chain'[a] = chain[a] /\ a < new
  BY Addresses DEF Grown, ChatChain
<1> HIDE DEF new
<1>2. \A t : Manageable(t) => Manageable(t)'
  BY <1>1 DEF Manageable, IsA, Contract
<1>3. \A b \in DOMAIN chain : Bare(b) => Bare(b)'
  BY <1>1 DEF Bare
<1>4. \A b : b \in Instances("ChatUtility")' <=> b \in Instances("ChatUtility") \/ (b = new /\ c.kind = "ChatUtility")
  BY <1>1 DEF Instances
<1>5. \A b \in Instances("ChatUtility") : b \in DOMAIN chain /\ chain'[b] = chain[b] /\ b < new
  BY <1>1 DEF Instances
<1>6. /\ c.kind # "ChatUtility" => \A n : OfRun(n)' = OfRun(n)
      /\ c.kind = "ChatUtility" => OfRun(runs)' = OfRun(runs) \cup {new}
  BY <1>1, <1>4, <1>5 DEF OfRun
<1>7. \A b \in Instances("ChatUtility")' :
        /\ chain'[b].run <= runs'
        /\ chain'[b].balance > 0 => chain'[b].owner = Deployer \/ Manageable(chain[b].owner)'
  <2> SUFFICES ASSUME NEW b \in Instances("ChatUtility")'
               PROVE  /\ chain'[b].run <= runs'
                      /\ chain'[b].balance > 0 => chain'[b].owner = Deployer \/ Manageable(chain[b].owner)'
    OBVIOUS
  <2>1. CASE b = new /\ c.kind = "ChatUtility"
    BY <1>1, <2>1 DEF ChatChain
  <2>2. CASE b \in Instances("ChatUtility")
    BY <1>2, <1>5, <2>2 DEF ChatChain
  <2>3. QED  BY <1>4, <2>1, <2>2
<1>8. ASSUME NEW b \in Instances("ChatUtility")', NEW d \in Instances("ChatUtility")',
             b < d, chain'[b].run = chain'[d].run
      PROVE  Bare(b)'
  <2>1. b # new
    <3>1. \A a \in Instances("ChatUtility") : ~(new < a)
      BY <1>1, <1>5
    <3>2. ~(new < new)
      BY <1>1
    <3>3. QED  BY <1>4, <1>8, <3>1, <3>2
  <2>2. b \in Instances("ChatUtility") /\ b \in DOMAIN chain /\ chain'[b] = chain[b]
    BY <1>4, <1>5, <2>1
  <2>3. CASE d = new /\ c.kind = "ChatUtility"
    BY <1>1, <1>3, <1>8, <2>2, <2>3 DEF OfRun
  <2>4. CASE d \in Instances("ChatUtility")
    BY <1>3, <1>5, <1>8, <2>2, <2>4 DEF ChatChain
  <2>5. QED  BY <1>4, <2>3, <2>4
<1>9. \A r \in reported' : Contract(r.chat)'
  BY <1>1 DEF ChatChain, Contract
<1>10. runs' \in Nat
  BY DEF ChatChain
<1>11. ChatChain'
  BY <1>7, <1>8, <1>9, <1>10 DEF ChatChain
<1>12. QED  BY <1>2, <1>3, <1>6, <1>11 DEF new

(* A transaction to the instance the run works on. *)
LEMMA ChatChanges ==
  ASSUME ChatChain, ChatKnown, NEW c \in ChatContracts, chain' = [chain EXCEPT ![mine.chat] = c],
         UNCHANGED <<runs, reported>>, c.kind = "ChatUtility", c.run = runs,
         c.balance > 0 => c.owner = Deployer \/ Manageable(c.owner)
  PROVE  /\ ChatChain'
         /\ \A t : Manageable(t) => Manageable(t)'
         /\ OfRun(runs)' = OfRun(runs)
         /\ chain'[mine.chat] = c
<1> DEFINE m == mine.chat
<1>1. /\ m \in DOMAIN chain /\ chain[m].kind = "ChatUtility" /\ chain[m].run = runs
      /\ DOMAIN chain \subseteq Nat
  BY Addresses DEF ChatKnown, OfRun, Instances, ChatChain
<1>2. m \in OfRun(runs) /\ \A b \in OfRun(runs) : b <= m
  BY DEF ChatKnown
<1>3. chain' = [chain EXCEPT ![m] = c]
  OBVIOUS
<1> HIDE DEF m
<1>4. /\ chain' \in Seq(ChatContracts) /\ DOMAIN chain' = DOMAIN chain /\ chain'[m] = c
      /\ \A a \in DOMAIN chain \ {m} : chain'[a] = chain[a]
  <2>1. chain \in Seq(ChatContracts)
    BY DEF ChatChain
  <2>2. QED  BY <1>1, <1>3, <2>1, Replaced
<1>5. /\ \A a \in DOMAIN chain : chain'[a].kind = chain[a].kind
      /\ \A a \in Instances("ChatUtility") : chain'[a].run = chain[a].run
  BY <1>1, <1>4 DEF Instances
<1>6. Instances("ChatUtility")' = Instances("ChatUtility")
  BY <1>4, <1>5 DEF Instances
<1>7. OfRun(runs)' = OfRun(runs)
  BY <1>5, <1>6 DEF OfRun
<1>8. \A t : Manageable(t) => Manageable(t)'
  BY <1>1, <1>4 DEF Manageable, IsA, Contract
<1>9. \A b \in Instances("ChatUtility") :
        chain'[b].balance > 0 => chain'[b].owner = Deployer \/ Manageable(chain[b].owner)'
  <2> SUFFICES ASSUME NEW b \in Instances("ChatUtility"), chain'[b].balance > 0
               PROVE  chain'[b].owner = Deployer \/ Manageable(chain[b].owner)'
    OBVIOUS
  <2>1. CASE b = m
    <3>1. chain'[b].owner = Deployer \/ Manageable(c.owner)
      BY <1>4, <2>1
    <3>2. chain'[b] = c
      BY <1>4, <2>1
    <3>3. QED  BY <1>8, <3>1, <3>2
  <2>2. CASE b # m
    BY <1>4, <1>8, <2>2 DEF ChatChain, Instances
  <2>3. QED  BY <2>1, <2>2
<1>10. ASSUME NEW b \in Instances("ChatUtility"), NEW d \in Instances("ChatUtility"),
              b < d, chain'[b].run = chain'[d].run
       PROVE  Bare(b)'
  <2>1. b \in DOMAIN chain /\ d \in DOMAIN chain /\ chain[b].run = chain[d].run
    BY <1>5, <1>10 DEF Instances
  <2>2. b # m
    <3> SUFFICES ASSUME b = m PROVE FALSE
      OBVIOUS
    <3>1. d \in OfRun(runs)
      BY <1>1, <2>1 DEF OfRun
    <3>2. d <= m /\ m < d /\ d \in Nat /\ m \in Nat
      BY <1>1, <1>2, <1>10, <2>1, <3>1
    <3>3. QED  BY <3>2
  <2>3. Bare(b)
    BY <1>10, <2>1 DEF ChatChain
  <2>4. QED  BY <1>4, <2>1, <2>2, <2>3 DEF Bare
<1>11. \A b \in Instances("ChatUtility") : chain'[b].run <= runs'
  BY <1>5 DEF ChatChain
<1>12. runs' \in Nat /\ \A r \in reported' : Contract(r.chat)'
  BY <1>4 DEF ChatChain, Contract
<1>13. ChatChain'
  BY <1>4, <1>6, <1>9, <1>10, <1>11, <1>12 DEF ChatChain
<1>14. QED  BY <1>4, <1>7, <1>8, <1>13 DEF m

LEMMA ChatUnmoved ==
  ASSUME ChatChain, UNCHANGED <<chain, runs, reported>>
  PROVE  /\ ChatChain'
         /\ \A t : Manageable(t)' <=> Manageable(t)
         /\ OfRun(runs)' = OfRun(runs)
         /\ \A b : Bare(b)' <=> Bare(b)
BY DEF ChatChain, Manageable, OfRun, Bare, Instances, IsA, Contract

LEMMA ChatStopped ==
  ASSUME pc' \in {"failed", "done"}, DOMAIN mine' \subseteq {"timelock", "chat", "attempt"} PROVE ChatProcess'
BY DEF ChatProcess, KnowsTimelock, WorksOnChat, WorksLocally

LEMMA ChatDeployment ==
  ASSUME ChatChain, NEW at, NEW next, NEW name, NEW c \in ChatContracts, Chat!Deploy(at, next, name, c)
  PROVE  pc = at /\ chain' \in Seq(ChatContracts) /\ Deployed(next, name, c)
<1>1. Deploy(at, next, name, c)
  BY DEF Deploy, Chat!Deploy, Goto, Chat!Goto, Learn, Chat!Learn, Lost, Chat!Lost,
         Fault, Chat!Fault, NoLocals, Chat!NoLocals
<1>2. QED  BY <1>1, Deployment DEF ChatChain

LEMMA ChatStarts ==
  ASSUME ChatInv, Chat!Start \/ Chat!StartLocal PROVE ChatInv'
<1>1. /\ pc' \in {"timelock", "localChat"} /\ runs' = runs + 1 /\ UNCHANGED <<chain, reported>> /\ DOMAIN mine' = {}
  BY NothingLearnt DEF Chat!Start, Chat!StartLocal, Chat!Invoke, Chat!NoLocals, NoLocals
<1>2. \A c \in Instances("ChatUtility") : chain[c].run \in Nat /\ chain[c].run <= runs
  BY ChatKinds DEF ChatInv, ChatChain, Instances
<1>3. \A c \in Instances("ChatUtility")' : chain'[c].run < runs'
  BY <1>1, <1>2 DEF ChatInv, ChatChain, Instances
<1>4. OfRun(runs)' = {}
  BY <1>3, <1>1, <1>2 DEF OfRun, ChatInv, ChatChain
<1>5. ChatChain'
  <2>1. runs' \in Nat /\ \A c \in Instances("ChatUtility")' : chain'[c].run <= runs'
    BY <1>1, <1>2 DEF ChatInv, ChatChain, Instances
  <2>2. \A t : Manageable(t)' <=> Manageable(t)
    BY <1>1 DEF Manageable, IsA, Contract
  <2>3. \A b : Bare(b)' <=> Bare(b)
    BY <1>1 DEF Bare
  <2>4. QED  BY <1>1, <2>1, <2>2, <2>3 DEF ChatInv, ChatChain, Instances, Contract
<1>6. ChatProcess'
  BY <1>1, <1>4 DEF ChatProcess, KnowsTimelock, WorksOnChat, WorksLocally
<1>7. QED  BY <1>5, <1>6 DEF ChatInv

LEMMA ChatTimelockInv ==
  ASSUME ChatInv, Chat!DeployTimelockController PROVE ChatInv'
<1> DEFINE c == [kind |-> "Timelock", admins |-> {Chat!Deployer}, proposers |-> {Chat!Deployer},
                 executors |-> {Chat!Deployer}]
<1>1. /\ c \in ChatContracts /\ c.kind = "Timelock" /\ Deployer \in c.proposers \cap c.executors
      /\ c.kind # "ChatUtility"
  BY DEF ChatContracts, Chat!Deployer, Deployer
<1>2. Chat!Deploy("timelock", "chat", "timelock", c) /\ UNCHANGED <<hasOwnerWallet, reported>>
  BY DEF Chat!DeployTimelockController
<1> HIDE DEF c
<1>3. pc = "timelock" /\ chain' \in Seq(ChatContracts) /\ Deployed("chat", "timelock", c)
  BY <1>1, <1>2, ChatDeployment DEF ChatInv
<1>4. CASE UNCHANGED chain /\ pc' = "failed" /\ mine' = NoLocals
  BY <1>2, <1>3, <1>4, ChatUnmoved, ChatStopped, NothingLearnt DEF ChatInv, Deployed
<1>5. CASE Grown(c)
  <2>1. UNCHANGED <<runs, reported>>
    BY <1>2, <1>3 DEF Deployed
  <2>2. ChatChain' /\ OfRun(runs)' = OfRun(runs)
    BY <1>1, <1>3, <1>5, <2>1, ChatGrows DEF ChatInv
  <2>3. CASE pc' = "failed" /\ mine' = NoLocals
    BY <2>2, <2>3, ChatStopped, NothingLearnt DEF ChatInv
  <2>4. CASE /\ pc' = "chat" /\ DOMAIN mine' = DOMAIN mine \cup {"timelock"}
             /\ mine'.timelock = Len(chain) + 1
    <3>1. OfRun(runs)' = {}
      BY <1>3, <2>2 DEF ChatInv, ChatProcess
    <3>2. Manageable(mine.timelock)'
      BY <1>1, <1>5, <2>4 DEF Manageable, IsA, Contract, Grown
    <3>3. ChatProcess'
      BY <2>4, <3>1, <3>2 DEF ChatInv, ChatProcess, KnowsTimelock, WorksOnChat, WorksLocally
    <3>4. QED  BY <2>2, <3>3 DEF ChatInv
  <2>5. QED  BY <1>3, <2>3, <2>4, <1>5 DEF Deployed, Grown
<1>6. QED  BY <1>3, <1>4, <1>5 DEF Deployed

(* The catch clause of the attempt. *)
LEMMA AnotherAttempt ==
  ASSUME ChatInv, Chat!NextAttempt, pc = "chat"
  PROVE  /\ UNCHANGED runs
         /\ \/ pc' = "failed" /\ DOMAIN mine' = {}
            \/ /\ pc' = "chat" /\ DOMAIN mine' = DOMAIN mine \cup {"attempt"}
               /\ mine'.timelock = mine.timelock
<1>1. "timelock" \in DOMAIN mine
  BY DEF ChatInv, ChatProcess, KnowsTimelock
<1>2. CASE pc' = "failed" /\ mine' = NoLocals
  BY <1>2, NothingLearnt DEF Chat!NextAttempt, Chat!Fault
<1>3. CASE pc' = "chat" /\ Learn("attempt", Chat!Attempt + 1)
  BY <1>1, <1>3, Learnt DEF Chat!NextAttempt, Chat!Fault
<1>4. QED
  BY <1>2, <1>3 DEF Chat!NextAttempt, Chat!Learn, Learn, Chat!NoLocals, NoLocals

LEMMA ChatUtilityInv ==
  ASSUME ChatInv, Chat!DeployChatUtility PROVE ChatInv'
<1> DEFINE c == Chat!NewChat
<1>1. /\ c \in ChatContracts /\ c.kind = "ChatUtility" /\ c.run = runs /\ c.owner = Deployer
      /\ c.balance = 0 /\ c.issuers = {Deployer}
  BY DEF ChatContracts, Chat!NewChat, Chat!Deployer, Deployer, ChatInv, ChatChain
<1>2. pc = "chat" /\ UNCHANGED reported
  BY DEF Chat!DeployChatUtility
<1>3. /\ "timelock" \in DOMAIN mine /\ Manageable(mine.timelock) /\ \A b \in OfRun(runs) : Bare(b)
      /\ DOMAIN mine \subseteq {"timelock", "chat", "attempt"}
  BY <1>2 DEF ChatInv, ChatProcess, KnowsTimelock
<1>4. /\ UNCHANGED chain \/ chain' = Append(chain, c)
      /\ \/ Chat!Goto("verify") /\ Learn("chat", Len(chain) + 1) /\ chain' = Append(chain, c)
         \/ Chat!NextAttempt
         \/ Chat!Lost
  BY DEF Chat!DeployChatUtility, Chat!Learn, Learn
<1> HIDE DEF c
<1>5. /\ UNCHANGED runs
      /\ \/ /\ pc' = "verify" /\ DOMAIN mine' = DOMAIN mine \cup {"chat"} /\ mine'.chat = Len(chain) + 1
            /\ mine'.timelock = mine.timelock /\ chain' = Append(chain, c)
         \/ pc' = "failed" /\ DOMAIN mine' = {}
         \/ /\ pc' = "chat" /\ DOMAIN mine' = DOMAIN mine \cup {"attempt"} /\ mine'.timelock = mine.timelock
  <2>1. CASE Chat!Goto("verify") /\ Learn("chat", Len(chain) + 1) /\ chain' = Append(chain, c)
    BY <1>3, <2>1, Learnt DEF Chat!Goto
  <2>2. CASE Chat!NextAttempt
    BY <1>2, <2>2, AnotherAttempt
  <2>3. CASE Chat!Lost
    BY <2>3, NothingLearnt DEF Chat!Lost, Chat!Fault, Chat!NoLocals, NoLocals
  <2>4. QED  BY <1>4, <2>1, <2>2, <2>3
<1>6. CASE UNCHANGED chain
  <2>1. /\ ChatChain' /\ OfRun(runs)' = OfRun(runs) /\ \A b : Bare(b)' <=> Bare(b)
        /\ \A t : Manageable(t)' <=> Manageable(t)
    BY <1>2, <1>5, <1>6, ChatUnmoved DEF ChatInv
  <2>2. CASE pc' = "failed" /\ DOMAIN mine' = {}
    BY <2>1, <2>2, ChatStopped DEF ChatInv
  <2>3. CASE /\ pc' = "chat" /\ DOMAIN mine' = DOMAIN mine \cup {"attempt"} /\ mine'.timelock = mine.timelock
    <3>1. Manageable(mine.timelock)'
      BY <1>3, <2>1, <2>3
    <3>2. ChatProcess'
      BY <1>3, <2>1, <2>3, <3>1 DEF ChatProcess, KnowsTimelock, WorksOnChat, WorksLocally
    <3>3. QED  BY <2>1, <3>2 DEF ChatInv
  <2>4. chain' # Append(chain, c)
    <3>1. chain \in Seq(ChatContracts)
      BY DEF ChatInv, ChatChain
    <3>2. Len(Append(chain, c)) = Len(chain) + 1 /\ Len(chain) \in Nat
      BY <1>1, <3>1
    <3>3. QED  BY <1>6, <3>2
  <2>5. QED  BY <1>5, <2>2, <2>3, <2>4
<1>7. CASE chain' = Append(chain, c)
  <2>1. chain' \in Seq(ChatContracts) /\ Grown(c)
    BY <1>1, <1>7, Appended DEF ChatInv, ChatChain
  <2>2. /\ ChatChain' /\ \A t : Manageable(t) => Manageable(t)'
        /\ \A b \in DOMAIN chain : Bare(b) => Bare(b)'
        /\ OfRun(runs)' = OfRun(runs) \cup {Len(chain) + 1}
    BY <1>1, <1>2, <1>3, <1>5, <2>1, ChatGrows DEF ChatInv
  <2>3. CASE pc' = "failed" /\ DOMAIN mine' = {}
    BY <2>2, <2>3, ChatStopped DEF ChatInv
  <2>4. CASE /\ pc' = "chat" /\ DOMAIN mine' = DOMAIN mine \cup {"attempt"} /\ mine'.timelock = mine.timelock
    <3>1. Manageable(mine.timelock)'
      BY <1>3, <2>2, <2>4
    <3>2. ASSUME NEW b, b = Len(chain) + 1 PROVE Bare(b)'
      <4>1. \A r \in reported : r.chat # Len(chain) + 1
        BY <2>1 DEF Grown, ChatInv, ChatChain, Contract
      <4>2. QED  BY <1>1, <1>2, <2>1, <3>2, <4>1 DEF Bare, Grown
    <3>3. \A b \in OfRun(runs)' : Bare(b)'
      BY <1>3, <2>2, <3>2 DEF OfRun, Instances
    <3>4. ChatProcess'
      BY <1>3, <2>4, <3>1, <3>3 DEF ChatProcess, KnowsTimelock, WorksOnChat, WorksLocally
    <3>5. QED  BY <2>2, <3>4 DEF ChatInv
  <2>5. CASE /\ pc' = "verify" /\ DOMAIN mine' = DOMAIN mine \cup {"chat"} /\ mine'.chat = Len(chain) + 1
             /\ mine'.timelock = mine.timelock
    <3>1. Manageable(mine.timelock)'
      BY <1>3, <2>2, <2>5
    <3>2. ChatKnown'
      <4>1. \A b \in OfRun(runs) : b <= Len(chain) + 1
        BY DEF OfRun, Instances, ChatInv, ChatChain
      <4>2. Len(chain) + 1 <= Len(chain) + 1
        BY <2>1 DEF Grown
      <4>3. QED  BY <1>5, <2>2, <2>5, <4>1, <4>2 DEF ChatKnown
    <3>3. chain'[mine'.chat].owner = Deployer
      BY <1>1, <2>1, <2>5 DEF Grown
    <3>4. ChatProcess'
      BY <1>3, <2>5, <3>1, <3>2, <3>3 DEF ChatProcess, KnowsTimelock, WorksOnChat, WorksLocally
    <3>5. QED  BY <2>2, <3>4 DEF ChatInv
  <2>6. QED  BY <1>5, <2>3, <2>4, <2>5
<1>8. QED  BY <1>4, <1>6, <1>7

(* A transaction whose failure is only reported. *)
LEMMA ChatSends ==
  ASSUME ChatInv, NEW at \in WorksOnChat, NEW next \in {"transfer", "fund", "log"}, NEW c \in ChatContracts,
         Chat!SendCaught(at, next, mine.chat, c), UNCHANGED reported,
         c.kind = "ChatUtility", c.run = runs, c.owner \in {Deployer, mine.timelock}
  PROVE  ChatInv'
<1>1. /\ pc = at /\ UNCHANGED runs
      /\ UNCHANGED chain \/ chain' = [chain EXCEPT ![mine.chat] = c]
      /\ (pc' = next /\ UNCHANGED mine) \/ (pc' = "failed" /\ DOMAIN mine' = {})
  BY NothingLearnt DEF Chat!SendCaught, Chat!Goto, Chat!Fault, Chat!NoLocals, NoLocals
<1>2. /\ "timelock" \in DOMAIN mine /\ Manageable(mine.timelock)
      /\ ChatKnown /\ chain[mine.chat].owner \in {Deployer, mine.timelock}
      /\ DOMAIN mine \subseteq {"timelock", "chat", "attempt"}
  BY <1>1 DEF ChatInv, ChatProcess, KnowsTimelock, WorksOnChat
<1>3. /\ ChatChain' /\ OfRun(runs)' = OfRun(runs) /\ \A t : Manageable(t) => Manageable(t)'
      /\ chain'[mine.chat].owner \in {Deployer, mine.timelock}
  <2>1. CASE UNCHANGED chain
    BY <1>1, <1>2, <2>1, ChatUnmoved DEF ChatInv
  <2>2. CASE chain' = [chain EXCEPT ![mine.chat] = c]
    BY <1>1, <1>2, <2>2, ChatChanges DEF ChatInv
  <2>3. QED  BY <1>1, <2>1, <2>2
<1>4. CASE pc' = "failed" /\ DOMAIN mine' = {}
  BY <1>3, <1>4, ChatStopped DEF ChatInv
<1>5. CASE pc' = next /\ UNCHANGED mine
  <2>1. Manageable(mine.timelock)'
    BY <1>2, <1>3, <1>5
  <2>2. ChatKnown'
    BY <1>1, <1>2, <1>3, <1>5 DEF ChatKnown
  <2>3. (chain[mine.chat].owner \in {Deployer, mine.timelock})'
    BY <1>3, <1>5
  <2>4. ChatProcess'
    BY <1>2, <1>5, <2>1, <2>2, <2>3 DEF ChatProcess, KnowsTimelock, WorksOnChat, WorksLocally
  <2>5. QED  BY <1>3, <2>4 DEF ChatInv
<1>6. QED  BY <1>1, <1>4, <1>5

LEMMA ChatSteps ==
  ASSUME ChatInv, Chat!AuthorizeOwnerWallet \/ Chat!TransferOwnership \/ Chat!FundContract PROVE ChatInv'
<1>1. pc \in WorksOnChat /\ UNCHANGED reported
  BY DEF Chat!AuthorizeOwnerWallet, Chat!TransferOwnership, Chat!FundContract, Chat!SendCaught, WorksOnChat
<1>2. ChatKnown /\ Manageable(mine.timelock) /\ chain[mine.chat].owner \in {Deployer, mine.timelock}
  BY <1>1 DEF ChatInv, ChatProcess, WorksOnChat, KnowsTimelock
<1>3. /\ mine.chat \in DOMAIN chain /\ Chat!Chat \in ChatContracts
      /\ Chat!Chat.kind = "ChatUtility" /\ Chat!Chat.run = runs /\ Chat!Chat.owner \in {Deployer, mine.timelock}
  BY <1>2 DEF ChatKnown, OfRun, Instances, ChatInv, ChatChain, Chat!Chat
<1>4. mine.timelock \in Nat
  BY <1>2, Addresses DEF ChatInv, ChatChain, Manageable, IsA, Contract
<1>5. Chat!Chat \in [kind : {"ChatUtility"}, run : Nat, owner : Nat, issuers : SUBSET Nat, balance : Nat]
  BY <1>3 DEF ChatContracts
<1>6. CASE Chat!AuthorizeOwnerWallet
  <2> DEFINE new == IF hasOwnerWallet THEN {Chat!OwnerWallet} ELSE {Chat!Deployer}
             c == [Chat!Chat EXCEPT !.issuers = @ \cup new]
  <2>1. new \subseteq Nat
    BY DEF Chat!OwnerWallet, Chat!Deployer
  <2>2. Chat!SendCaught("authorize", "transfer", mine.chat, c)
    BY <1>6 DEF Chat!AuthorizeOwnerWallet
  <2> HIDE DEF new
  <2>3. c \in ChatContracts /\ c.kind = "ChatUtility" /\ c.run = runs /\ c.owner \in {Deployer, mine.timelock}
    BY <1>3, <1>5, <2>1 DEF ChatContracts
  <2> HIDE DEF c
  <2>4. QED  BY <1>1, <2>2, <2>3, ChatSends DEF WorksOnChat
<1>7. CASE Chat!TransferOwnership
  <2> DEFINE c == [Chat!Chat EXCEPT !.owner = mine.timelock]
  <2>1. Chat!SendCaught("transfer", "fund", mine.chat, c)
    BY <1>7 DEF Chat!TransferOwnership
  <2>2. c \in ChatContracts /\ c.kind = "ChatUtility" /\ c.run = runs /\ c.owner \in {Deployer, mine.timelock}
    BY <1>3, <1>4, <1>5 DEF ChatContracts
  <2> HIDE DEF c
  <2>3. QED  BY <1>1, <2>1, <2>2, ChatSends DEF WorksOnChat
<1>8. CASE Chat!FundContract
  <2> DEFINE c == [Chat!Chat EXCEPT !.balance = @ + Chat!FundingAmount]
  <2>1. Chat!SendCaught("fund", "log", mine.chat, c)
    BY <1>8 DEF Chat!FundContract
  <2>2. c \in ChatContracts /\ c.kind = "ChatUtility" /\ c.run = runs /\ c.owner \in {Deployer, mine.timelock}
    BY <1>3, <1>5 DEF ChatContracts, Chat!FundingAmount
  <2> HIDE DEF c
  <2>3. QED  BY <1>1, <2>1, <2>2, ChatSends DEF WorksOnChat
<1>9. QED  BY <1>6, <1>7, <1>8

LEMMA ChatReports ==
  ASSUME ChatInv, NEW t, pc \in WorksOnChat \cup WorksLocally, UNCHANGED <<chain, runs>>,
         reported' = reported \cup {[timelock |-> t, chat |-> mine.chat]},
         pc' = "done", UNCHANGED mine
  PROVE  ChatInv'
<1>1. ChatKnown
  BY DEF ChatInv, ChatProcess
<1>2. mine.chat \in DOMAIN chain /\ mine.chat \in OfRun(runs) /\ \A c \in OfRun(runs) : c <= mine.chat
  BY <1>1 DEF ChatKnown, OfRun, Instances
<1>3. DOMAIN chain \subseteq Nat
  BY Addresses DEF ChatInv, ChatChain
<1>4. \A r \in reported' : r \in reported \/ r.chat = mine.chat
  OBVIOUS
<1>5. ASSUME NEW b \in Instances("ChatUtility"), NEW d \in Instances("ChatUtility"),
             b < d, chain[b].run = chain[d].run
      PROVE  Bare(b)'
  <2>1. Bare(b)
    BY <1>5 DEF ChatInv, ChatChain
  <2>2. b # mine.chat
    <3> SUFFICES ASSUME b = mine.chat PROVE FALSE
      OBVIOUS
    <3>1. d \in OfRun(runs) /\ b \in Nat /\ d \in Nat
      BY <1>2, <1>3, <1>5 DEF OfRun, Instances
    <3>2. d <= b
      BY <1>2, <3>1
    <3>3. QED  BY <1>5, <3>1, <3>2
  <2>3. QED  BY <1>4, <2>1, <2>2 DEF Bare
<1>6. \A t2 : Manageable(t2)' <=> Manageable(t2)
  BY DEF Manageable, IsA, Contract
<1>7. \A r \in reported' : Contract(r.chat)'
  BY <1>2, <1>4 DEF Contract, ChatInv, ChatChain
<1>8. Instances("ChatUtility")' = Instances("ChatUtility")
  BY DEF Instances
<1>9. ChatChain'
  BY <1>5, <1>6, <1>7, <1>8 DEF ChatInv, ChatChain
<1>10. QED  BY <1>9, ChatStopped DEF ChatInv, ChatProcess

LEMMA ChatLocalDeployInv ==
  ASSUME ChatInv, Chat!LocalDeployChatUtility PROVE ChatInv'
<1> DEFINE c == Chat!NewChat
<1>1. /\ c \in ChatContracts /\ c.kind = "ChatUtility" /\ c.run = runs /\ c.owner = Deployer
      /\ c.balance = 0
  BY DEF ChatContracts, Chat!NewChat, Chat!Deployer, Deployer, ChatInv, ChatChain
<1>2. Chat!Deploy("localChat", "localTransfer", "chat", c) /\ UNCHANGED <<hasOwnerWallet, reported>>
  BY DEF Chat!LocalDeployChatUtility
<1> HIDE DEF c
<1>3. pc = "localChat" /\ chain' \in Seq(ChatContracts) /\ Deployed("localTransfer", "chat", c)
  BY <1>1, <1>2, ChatDeployment DEF ChatInv
<1>4. OfRun(runs) = {} /\ DOMAIN mine \subseteq {"timelock", "chat", "attempt"}
  BY <1>3 DEF ChatInv, ChatProcess
<1>5. CASE UNCHANGED chain /\ pc' = "failed" /\ mine' = NoLocals
  BY <1>2, <1>3, <1>5, ChatUnmoved, ChatStopped, NothingLearnt DEF ChatInv, Deployed
<1>6. CASE Grown(c)
  <2>1. UNCHANGED <<runs, reported>>
    BY <1>2, <1>3 DEF Deployed
  <2>2. ChatChain' /\ OfRun(runs)' = {Len(chain) + 1}
    BY <1>1, <1>3, <1>4, <1>6, <2>1, ChatGrows DEF ChatInv
  <2>3. CASE pc' = "failed" /\ mine' = NoLocals
    BY <2>2, <2>3, ChatStopped, NothingLearnt DEF ChatInv
  <2>4. CASE /\ pc' = "localTransfer" /\ DOMAIN mine' = DOMAIN mine \cup {"chat"}
             /\ mine'.chat = Len(chain) + 1
    <3>1. Len(chain) + 1 <= Len(chain) + 1
      BY <1>6 DEF Grown
    <3>2. ChatKnown'
      BY <2>1, <2>2, <2>4, <3>1 DEF ChatKnown
    <3>3. (chain[mine.chat].balance = 0)'
      BY <1>1, <1>6, <2>4 DEF Grown
    <3>4. ChatProcess'
      BY <1>4, <2>4, <3>2, <3>3 DEF ChatProcess, KnowsTimelock, WorksOnChat, WorksLocally
    <3>5. QED  BY <2>2, <3>4 DEF ChatInv
  <2>5. QED  BY <1>3, <1>6, <2>3, <2>4 DEF Deployed, Grown
<1>7. QED  BY <1>3, <1>5, <1>6 DEF Deployed

LEMMA ChatLocalTransferInv ==
  ASSUME ChatInv, Chat!LocalTransferOwnership PROVE ChatInv'
<1> DEFINE c == [Chat!Chat EXCEPT !.owner = Chat!LocalTimelock]
<1>1. /\ pc = "localTransfer" /\ UNCHANGED <<runs, reported>>
      /\ UNCHANGED chain \/ chain' = [chain EXCEPT ![mine.chat] = c]
      /\ (pc' = "localSummary" /\ UNCHANGED mine) \/ (pc' = "failed" /\ DOMAIN mine' = {})
  BY NothingLearnt DEF Chat!LocalTransferOwnership, Chat!Send, Chat!Goto, Chat!Lost, Chat!Fault,
                       Chat!NoLocals, NoLocals
<1>2. ChatKnown /\ chain[mine.chat].balance = 0 /\ DOMAIN mine \subseteq {"timelock", "chat", "attempt"}
  BY <1>1 DEF ChatInv, ChatProcess, WorksLocally
<1>3. /\ mine.chat \in DOMAIN chain /\ Chat!Chat \in ChatContracts
      /\ Chat!Chat.kind = "ChatUtility" /\ Chat!Chat.run = runs /\ Chat!Chat.balance = 0
  BY <1>2 DEF ChatKnown, OfRun, Instances, ChatInv, ChatChain, Chat!Chat
<1>4. Chat!Chat \in [kind : {"ChatUtility"}, run : Nat, owner : Nat, issuers : SUBSET Nat, balance : Nat]
  BY <1>3 DEF ChatContracts
<1>5. c \in ChatContracts /\ c.kind = "ChatUtility" /\ c.run = runs /\ c.balance = 0
  BY <1>3, <1>4 DEF ChatContracts, Chat!LocalTimelock
<1> HIDE DEF c
<1>6. ChatChain' /\ OfRun(runs)' = OfRun(runs) /\ chain'[mine.chat].balance = 0
  <2>1. CASE UNCHANGED chain
    BY <1>1, <1>2, <2>1, ChatUnmoved DEF ChatInv
  <2>2. CASE chain' = [chain EXCEPT ![mine.chat] = c]
    <3>1. ~(c.balance > 0)
      BY <1>5
    <3>2. ChatChain' /\ OfRun(runs)' = OfRun(runs) /\ chain'[mine.chat] = c
      BY <1>1, <1>2, <1>5, <2>2, <3>1, ChatChanges DEF ChatInv
    <3>3. QED  BY <1>5, <3>2
  <2>3. QED  BY <1>1, <2>1, <2>2
<1>7. CASE pc' = "failed" /\ DOMAIN mine' = {}
  BY <1>6, <1>7, ChatStopped DEF ChatInv
<1>8. CASE pc' = "localSummary" /\ UNCHANGED mine
  <2>1. ChatKnown'
    BY <1>1, <1>2, <1>6, <1>8 DEF ChatKnown
  <2>2. ChatProcess'
    BY <1>2, <1>6, <1>8, <2>1 DEF ChatProcess, KnowsTimelock, WorksOnChat, WorksLocally
  <2>3. QED  BY <1>6, <2>2 DEF ChatInv
<1>9. QED  BY <1>1, <1>7, <1>8

LEMMA ChatStep == ChatInv /\ [Chat!Next]_(Chat!vars) => ChatInv'
<1> SUFFICES ASSUME ChatInv, [Chat!Next]_(Chat!vars) PROVE ChatInv'
  OBVIOUS
<1>1. CASE Chat!VerifyDeployment \/ UNCHANGED Chat!vars \/ (Chat!LogAndSummarize /\ UNCHANGED reported)
  <2>1. /\ UNCHANGED <<chain, runs, reported>>
        /\ \/ UNCHANGED <<pc, mine>>
           \/ pc = "verify" /\ pc' = "authorize" /\ UNCHANGED mine
           \/ pc' = "failed" /\ DOMAIN mine' = {}
           \/ pc' = "done" /\ UNCHANGED mine
    BY <1>1, NothingLearnt
    DEF Chat!VerifyDeployment, Chat!vars, Chat!script, Chat!LogAndSummarize,
        Chat!Goto, Chat!Lost, Chat!Fault, Chat!NoLocals, NoLocals
  <2>2. /\ ChatChain' /\ OfRun(runs)' = OfRun(runs) /\ \A b : Bare(b)' <=> Bare(b)
        /\ \A t : Manageable(t)' <=> Manageable(t)
    BY <2>1, ChatUnmoved DEF ChatInv
  <2>3. CASE pc' \in {"failed", "done"} /\ DOMAIN mine' \subseteq DOMAIN mine
    BY <2>2, <2>3, ChatStopped DEF ChatInv, ChatProcess
  <2>4. CASE UNCHANGED mine /\ (UNCHANGED pc \/ (pc = "verify" /\ pc' = "authorize"))
    <3>1. ChatKnown' <=> ChatKnown
      BY <2>1, <2>2, <2>4 DEF ChatKnown
    <3>2. Manageable(mine.timelock)' <=> Manageable(mine.timelock)
      BY <2>2, <2>4
    <3>3. ChatProcess'
      BY <2>1, <2>2, <2>4, <3>1, <3>2 DEF ChatInv, ChatProcess, KnowsTimelock, WorksOnChat, WorksLocally
    <3>4. QED  BY <2>2, <3>3 DEF ChatInv
  <2>5. QED  BY <2>1, <2>3, <2>4
<1>2. CASE Chat!LogAndSummarize /\ ~UNCHANGED reported
  <2>1. /\ pc = "log" /\ UNCHANGED <<chain, runs>> /\ pc' = "done" /\ UNCHANGED mine
        /\ reported' = reported \cup {[timelock |-> mine.timelock, chat |-> mine.chat]}
    BY <1>2 DEF Chat!LogAndSummarize, Chat!Goto
  <2>2. QED  BY <2>1, ChatReports DEF WorksOnChat
<1>3. CASE Chat!LocalSummary
  <2>1. /\ pc = "localSummary" /\ UNCHANGED <<chain, runs>> /\ pc' = "done" /\ UNCHANGED mine
        /\ reported' = reported \cup {[timelock |-> Chat!LocalTimelock, chat |-> mine.chat]}
    BY <1>3 DEF Chat!LocalSummary, Chat!Goto
  <2>2. QED  BY <2>1, ChatReports DEF WorksLocally
<1>4. QED
  BY <1>1, <1>2, <1>3, ChatStarts, ChatTimelockInv, ChatUtilityInv, ChatSteps, ChatLocalDeployInv, ChatLocalTransferInv
  DEF Chat!Next, Chat!Step

LEMMA ChatInitial == Chat!Init => ChatInv
<1> SUFFICES ASSUME Chat!Init PROVE ChatInv
  OBVIOUS
<1> DEFINE c == [kind |-> "Timelock", admins |-> {}, proposers |-> {}, executors |-> {}]
<1>1. chain = <<c>> /\ reported = {} /\ pc = "idle" /\ runs = 0 /\ DOMAIN mine = {}
  BY NothingLearnt DEF Chat!Init, Chat!ScriptInit, Chat!NoLocals, NoLocals
<1>2. c \in ChatContracts /\ c.kind # "ChatUtility"
  BY DEF ChatContracts
<1> HIDE DEF c
<1>3. chain \in Seq(ChatContracts) /\ Instances("ChatUtility") = {}
  BY <1>1, <1>2 DEF Instances
<1>4. QED
  BY <1>1, <1>3 DEF ChatInv, ChatChain, ChatProcess, KnowsTimelock, WorksOnChat, WorksLocally

LEMMA ChatConsequences == ChatInv => Chat!AbandonedAreBare /\ Chat!FundedIsManageable
<1> SUFFICES ASSUME ChatInv PROVE Chat!AbandonedAreBare /\ Chat!FundedIsManageable
  OBVIOUS
<1>1. Chat!AbandonedAreBare
  BY DEF Chat!AbandonedAreBare, Chat!Chats, Chat!Instances, Instances, Chat!Deployer, Deployer,
         ChatInv, ChatChain, Bare
<1>2. Chat!FundedIsManageable
  BY DEF Chat!FundedIsManageable, Chat!Chats, Chat!Instances, Instances, Chat!Deployer, Deployer,
         ChatInv, ChatChain, Manageable
<1>3. QED  BY <1>1, <1>2
-----------------------------------------------------------------------------
(* The bootstrap.                                                            *)

Registries == [kind : {"Registry", "Other", "Nothing"}, registered : SUBSET (1..N + 1)]

Counting  == {"validator", "fund", "send", "register"}
Elsewhere == {"knownAddresses", "quickDeploy", "quickSave", "quickConfig", "hardhatDeploy", "hardhatSave"}
HasRegistry == {"save", "quickSave", "quickConfig", "hardhatSave"} \cup Counting
HasAddress == HasRegistry \cup {"config", "count"}

(* What an account may hold that k fundings have reached late. *)
Cap(k) == (Required + Extra) * (1 + k)

BootTypes ==
  /\ faults \in Nat
  /\ chain \in Seq(Registries)
  /\ keys \in [Validator -> {"plain", "prefixed", "invalid"}]

BootFunds ==
  /\ balances \in [Validator -> Nat] /\ late \in [Validator -> Nat]
  /\ \A v \in Validator : balances[v] <= Cap(late[v])
  /\ \A f \in pending : f.to \in Validator /\ f.amount \in 0..Required + Extra

BootProcess ==
  /\ pc \in HasRegistry => IsA(mine.registry, "Registry")
  /\ pc \in HasAddress => "registry" \in DOMAIN mine /\ HasCode(mine.registry)
  /\ pc \in Counting => "i" \in DOMAIN mine
  /\ "i" \in DOMAIN mine => pc \in Counting \cup {"done"} /\ IsA(mine.registry, "Registry")
  /\ pc \in {"fund", "send", "register"} => mine.i <= N /\ keys[mine.i] # "invalid"
  /\ pc = "send" =>
       /\ mine.amount \in 0..Required + Extra
       /\ balances[mine.i] + mine.amount \in Required..Cap(late[mine.i])
  /\ pc = "register" => balances[mine.i] >= Required

(* The summary, for the validators before mine.i. *)
Below(S, i) == {v \in S \cap Validator : v < i}

Tallied ==
  "i" \in DOMAIN mine =>
    /\ DOMAIN mine = {"registry", "i", "amount", "registered", "skipped", "failed"}
    /\ mine.i \in 1..N + 1
    /\ mine.registered \in Nat /\ mine.skipped \in Nat /\ mine.failed \in Nat
    /\ mine.registered + mine.skipped + mine.failed = mine.i - 1
    /\ mine.registered + mine.skipped <= Cardinality(Below(Registered(mine.registry), mine.i))

(* A run of the bootstrap in which nothing has gone wrong so far. *)
Cleanly ==
  /\ pc = "config" => mine.registry = record
  /\ pc \in {"count"} \cup Counting =>
       mine.registry = record /\ \A f \in ConfigFiles \ torn : config[f] = record
  /\ pc \in Counting =>
       \A v \in Validator : v < mine.i /\ keys[v] # "invalid" => v \in Registered(record)

BootRun ==
  entry = "bootstrap" => pc \notin Elsewhere /\ (clean => Cleanly /\ CleanRunBootstraps)

BootInv == BootTypes /\ BootFunds /\ BootProcess /\ Tallied /\ BootRun

(* Validators counted below a bound. *)
LEMMA BelowFinite ==
  ASSUME NEW S, NEW i
  PROVE  IsFiniteSet(Below(S, i)) /\ Cardinality(Below(S, i)) \in Nat
<1>1. IsFiniteSet(1..N)
  BY FS_Interval, BootstrapAssumption
<1>2. Below(S, i) \in SUBSET (1..N)
  BY DEF Below, Validator
<1>3. IsFiniteSet(Below(S, i))
  BY <1>1, <1>2, FS_Subset
<1>4. QED  BY <1>3, FS_CardinalityType

LEMMA BelowMore ==
  ASSUME NEW S, NEW T, S \subseteq T, NEW i \in Nat, NEW j \in Nat, i <= j
  PROVE  Cardinality(Below(S, i)) <= Cardinality(Below(T, j))
<1>1. Below(S, i) \in SUBSET Below(T, j)
  BY BootstrapAssumption DEF Below, Validator
<1>2. QED  BY <1>1, BelowFinite, FS_Subset

LEMMA BelowNext ==
  ASSUME NEW S, NEW i \in Validator, i \in S
  PROVE  Cardinality(Below(S, i + 1)) = Cardinality(Below(S, i)) + 1
<1>1. Below(S, i + 1) = Below(S, i) \cup {i} /\ i \notin Below(S, i)
  BY BootstrapAssumption DEF Below, Validator
<1>2. QED  BY <1>1, BelowFinite, FS_AddElement

(* Contracts stay what they are, and validators stay registered. *)
Lasting ==
  /\ chain' \in Seq(Registries)
  /\ \A a : IsA(a, "Registry") => IsA(a, "Registry")' /\ Registered(a) \subseteq Registered(a)'
  /\ \A a : HasCode(a) => HasCode(a)' /\ (IsA(a, "Registry")' => IsA(a, "Registry"))

LEMMA ChainStays ==
  ASSUME BootTypes, UNCHANGED chain
  PROVE  Lasting /\ \A a : /\ Registered(a)' = Registered(a)
                          /\ IsA(a, "Registry")' = IsA(a, "Registry")
BY DEF BootTypes, Lasting, IsA, Contract, Registered, HasCode

LEMMA ChainGrows ==
  ASSUME BootTypes, Grown(Registry), chain' \in Seq(Registries)
  PROVE  Lasting
BY DEF Lasting, IsA, Contract, Registered, Grown, HasCode

LEMMA RegistriesHaveCode == \A a : IsA(a, "Registry") => HasCode(a)
BY DEF IsA, HasCode

LEMMA Capped ==
  ASSUME NEW k \in Nat
  PROVE  /\ Required \in Nat /\ Required + Extra \in Nat
         /\ Cap(k) \in Nat /\ Required + Extra <= Cap(k) /\ Cap(k + 1) = Cap(k) + (Required + Extra)
<1> DEFINE c == Required + Extra
<1>1. Required \in Nat /\ c \in Nat
  BY BootstrapAssumption DEF Required, Extra
<1> HIDE DEF c
<1>2. /\ c * (1 + k) \in Nat /\ c <= c * (1 + k) /\ c * (1 + (k + 1)) = c * (1 + k) + c
  <2>1. c * (1 + k) = c + c * k /\ c * (1 + (k + 1)) = c + c * k + c /\ c * k \in Nat
    BY <1>1
  <2>2. QED  BY <1>1, <2>1
<1>3. QED  BY <1>1, <1>2 DEF c, Cap

LEMMA RegistryIsOne == Registry \in Registries
BY DEF Registry, Registries

LEMMA Enrolled ==
  ASSUME BootTypes, NEW a, IsA(a, "Registry"), NEW v \in 1..N + 1,
         chain' = [chain EXCEPT ![a].registered = @ \cup {v}]
  PROVE  Lasting /\ v \in Registered(a)'
<1>1. chain \in Seq(Registries) /\ a \in DOMAIN chain /\ chain[a] \in Registries /\ chain[a].kind = "Registry"
  BY DEF BootTypes, IsA, Contract
<1> DEFINE c == [chain[a] EXCEPT !.registered = @ \cup {v}]
<1>2. c \in Registries /\ c.kind = "Registry" /\ c.registered = chain[a].registered \cup {v}
  BY <1>1 DEF Registries
<1>3. chain' = [chain EXCEPT ![a] = c]
  BY <1>1
<1> HIDE DEF c
<1>4. /\ chain' \in Seq(Registries) /\ DOMAIN chain' = DOMAIN chain /\ chain'[a] = c
      /\ \A b \in DOMAIN chain \ {a} : chain'[b] = chain[b]
  BY <1>1, <1>2, <1>3, Replaced
<1>5. QED  BY <1>1, <1>2, <1>4 DEF Lasting, IsA, Contract, Registered, HasCode

(* What a step must show of the summary and of a clean run, when the chain   *)
(* only grows and the process keeps its place.                               *)
SameTally ==
  DOMAIN mine' = DOMAIN mine /\ \A n \in DOMAIN mine \ {"amount"} : mine'[n] = mine[n]

LEMMA TallyLasts ==
  ASSUME Tallied, "i" \in DOMAIN mine => IsA(mine.registry, "Registry"), Lasting, SameTally PROVE Tallied'
<1> SUFFICES ASSUME "i" \in DOMAIN mine PROVE Tallied'
  BY DEF Tallied, SameTally
<1>1. Registered(mine.registry) \subseteq Registered(mine.registry)' /\ mine.i \in Nat
  <2>1. PICK r : r = mine.registry
    OBVIOUS
  <2>2. mine'.registry = r /\ mine.i \in Nat
    BY <2>1, BootstrapAssumption DEF Tallied, SameTally
  <2>3. Registered(mine.registry)' = Registered(r)'
    BY <2>2 DEF Registered, IsA, Contract
  <2>4. Registered(r) \subseteq Registered(r)'
    BY <2>1 DEF Lasting
  <2>5. QED  BY <2>1, <2>2, <2>3, <2>4
<1> DEFINE S == Registered(mine.registry)
           T == Registered(mine.registry)'
           n == mine.i
<1>2. S \subseteq T /\ n \in Nat
  BY <1>1
<1> HIDE DEF S, T, n
<1>3. /\ Cardinality(Below(S, n)) <= Cardinality(Below(T, n))
      /\ Cardinality(Below(S, n)) \in Nat /\ Cardinality(Below(T, n)) \in Nat
  BY <1>2, BelowMore, BelowFinite
<1>4. (Cardinality(Below(Registered(mine.registry), mine.i)))' = Cardinality(Below(T, n))
  <2>1. mine'.registry = mine.registry /\ mine'.i = mine.i
    BY DEF Tallied, SameTally
  <2>2. QED  BY <2>1 DEF T, n, Below
<1>5. mine.registered + mine.skipped <= Cardinality(Below(S, n))
  BY DEF S, n, Tallied
<1>6. mine.registered + mine.skipped <= Cardinality(Below(T, n))
  BY <1>3, <1>5 DEF Tallied
<1>7. QED  BY <1>4, <1>6 DEF Tallied, SameTally

(* The validator mine.i is counted, and the next one is up. *)
LEMMA TallyCounts ==
  ASSUME Tallied, "i" \in DOMAIN mine, mine.i <= N, Lasting,
         NEW r, r = mine.registry, IsA(r, "Registry"),
         NEW o \in {"registered", "skipped", "failed"}, CountAs(o),
         o # "failed" => mine.i \in Registered(r)'
  PROVE  /\ Tallied' /\ DOMAIN mine' = DOMAIN mine /\ mine'.registry = mine.registry
         /\ mine'.i = mine.i + 1
<1> DEFINE S == Registered(r)
           n == mine.i
<1>1. /\ DOMAIN mine = {"registry", "i", "amount", "registered", "skipped", "failed"}
      /\ n \in 1..N + 1 /\ mine.registered \in Nat /\ mine.skipped \in Nat /\ mine.failed \in Nat
      /\ mine.registered + mine.skipped + mine.failed = n - 1
      /\ mine.registered + mine.skipped <= Cardinality(Below(S, n))
  BY DEF Tallied
<1>2. /\ DOMAIN mine' = DOMAIN mine /\ mine'.registry = mine.registry /\ mine'.i = n + 1
      /\ mine'[o] = mine[o] + 1
      /\ \A k \in {"registered", "skipped", "failed"} \ {o} : mine'[k] = mine[k]
  BY <1>1 DEF CountAs
<1>3. n \in Validator /\ n \in Nat /\ n + 1 \in Nat /\ n <= n + 1 /\ n + 1 \in 1..N + 1
  BY <1>1, BootstrapAssumption DEF Validator
<1>4. PICK T : T = Registered(r)'
  OBVIOUS
<1>5. S \subseteq T
  BY <1>4 DEF Lasting
<1>6. Registered(mine.registry)' = T
  BY <1>2, <1>4
<1> HIDE DEF S
<1>7. /\ Cardinality(Below(S, n)) <= Cardinality(Below(T, n))
      /\ Cardinality(Below(T, n)) <= Cardinality(Below(T, n + 1))
      /\ n \in T => Cardinality(Below(T, n + 1)) = Cardinality(Below(T, n)) + 1
      /\ Cardinality(Below(S, n)) \in Nat /\ Cardinality(Below(T, n)) \in Nat
      /\ Cardinality(Below(T, n + 1)) \in Nat
  <2> HIDE DEF n
  <2>1. Cardinality(Below(S, n)) <= Cardinality(Below(T, n))
    BY <1>3, <1>5, BelowMore
  <2>2. Cardinality(Below(T, n)) <= Cardinality(Below(T, n + 1))
    BY <1>3, BelowMore
  <2>3. n \in T => Cardinality(Below(T, n + 1)) = Cardinality(Below(T, n)) + 1
    BY <1>3, BelowNext
  <2>4. QED  BY <2>1, <2>2, <2>3, BelowFinite
<1>8. mine'.registered + mine'.skipped <= Cardinality(Below(T, n + 1))
  <2>1. CASE o = "failed"
    BY <1>1, <1>2, <1>7, <2>1
  <2>2. CASE o # "failed"
    <3>1. n \in T
      BY <1>4, <2>2
    <3>2. mine'.registered + mine'.skipped = mine.registered + mine.skipped + 1
      BY <1>1, <1>2, <2>2
    <3>3. QED  BY <1>1, <1>7, <3>1, <3>2
  <2>3. QED  BY <2>1, <2>2
<1>9. mine'.registered + mine'.skipped + mine'.failed = mine'.i - 1
  <2>1. mine'.registered + mine'.skipped + mine'.failed = mine.registered + mine.skipped + mine.failed + 1
    <3>1. CASE o = "registered"
      BY <1>1, <1>2, <3>1
    <3>2. CASE o = "skipped"
      BY <1>1, <1>2, <3>2
    <3>3. CASE o = "failed"
      BY <1>1, <1>2, <3>3
    <3>4. QED  BY <3>1, <3>2, <3>3
  <2>2. mine'.i = n + 1 /\ n \in Nat
    BY <1>2, <1>3
  <2>3. QED  BY <1>1, <2>1, <2>2
<1>10. (Cardinality(Below(Registered(mine.registry), mine.i)))' = Cardinality(Below(T, n + 1))
  BY <1>2, <1>6 DEF Below
<1>11. mine'.registered \in Nat /\ mine'.skipped \in Nat /\ mine'.failed \in Nat
  BY <1>1, <1>2
<1>12. Tallied'
  BY <1>1, <1>2, <1>3, <1>8, <1>9, <1>10, <1>11 DEF Tallied
<1>13. QED  BY <1>2, <1>12

(* Who watches sees every fault. *)
LEMMA Noticed ==
  ASSUME BootTypes, Watch
  PROVE  /\ UNCHANGED <<keys, entry>>
         /\ (faults' = faults \/ Fault) => faults' \in Nat
         /\ Fault => ~clean'
         /\ clean' => clean
<1>1. faults + 1 # faults /\ faults + 1 \in Nat
  BY DEF BootTypes
<1>2. QED  BY <1>1 DEF Watch, Fault, BootTypes

LEMMA BootTypesStay ==
  ASSUME BootTypes, Lasting, faults' = faults \/ Fault, Watch PROVE BootTypes'
BY Noticed DEF BootTypes, Lasting, Validator

LEMMA FundsStay ==
  ASSUME BootFunds, UNCHANGED money PROVE BootFunds'
BY DEF BootFunds, money, Validator, Required, Extra, Cap

(* The process ends because of a fault, or another script ends. *)
LEMMA BootDies ==
  ASSUME BootTypes', BootFunds', pc' = "failed", DOMAIN mine' = {}, UNCHANGED entry,
         ~clean' \/ entry # "bootstrap"
  PROVE  BootInv'
BY DEF BootInv, BootProcess, Tallied, BootRun, HasRegistry, HasAddress, Counting, Elsewhere

(* It goes on, before it counts. *)
LEMMA BootGoesOn ==
  ASSUME BootTypes', BootFunds', UNCHANGED entry, pc' \notin Counting \cup {"done", "failed"}, "i" \notin DOMAIN mine',
         (pc \in HasAddress => "registry" \in DOMAIN mine /\ HasCode(mine.registry))',
         (pc \in HasRegistry => IsA(mine.registry, "Registry"))',
         entry = "bootstrap" => pc' \notin Elsewhere,
         ~clean' \/ entry # "bootstrap" \/ Cleanly'
  PROVE  BootInv'
BY DEF BootInv, BootProcess, Tallied, BootRun, Counting, CleanRunBootstraps

LEMMA BootStarts ==
  ASSUME BootInv, StartBootstrap \/ StartQuick \/ StartHardhat PROVE BootInv'
<1>1. /\ UNCHANGED <<chain, faults, keys, files, money>> /\ DOMAIN mine' = {}
      /\ \/ pc' = "record" /\ entry' = "bootstrap"
         \/ pc' \in {"knownAddresses", "hardhatDeploy"} /\ entry' # "bootstrap"
  BY NothingLearnt DEF StartBootstrap, StartQuick, StartHardhat, Start, Invoke
<1>2. BootTypes' /\ BootFunds'
  BY <1>1, FundsStay DEF BootTypes, BootInv, Validator
<1>3. BootProcess' /\ Tallied'
  BY <1>1 DEF BootProcess, Tallied, HasRegistry, HasAddress, Counting
<1>4. BootRun'
  BY <1>1 DEF BootRun, Cleanly, CleanRunBootstraps, Elsewhere, Counting
<1>5. QED  BY <1>2, <1>3, <1>4 DEF BootInv

LEMMA BootDeployment ==
  ASSUME BootInv, NEW at \in {"deploy", "quickDeploy", "hardhatDeploy"},
         NEW next \in {"save", "quickSave", "hardhatSave"}, pc = at => (at = "deploy" <=> next = "save"),
         Deploy(at, next, "registry", Registry), Watch, UNCHANGED <<files, money>>
  PROVE  BootInv'
<1>1. pc = at /\ chain' \in Seq(Registries) /\ Deployed(next, "registry", Registry)
  BY RegistryIsOne, Deployment DEF BootInv, BootTypes
<1>2. Goto(next) \/ Lost
  BY DEF Deploy
<1>3. Lasting
  BY <1>1, ChainGrows, ChainStays DEF BootInv, Deployed
<1>4. BootTypes' /\ BootFunds' /\ UNCHANGED entry
  BY <1>2, <1>3, BootTypesStay, FundsStay, Noticed DEF BootInv, Goto, Lost
<1>5. CASE Lost
  BY <1>4, <1>5, NothingLearnt, BootDies, Noticed DEF BootInv, Lost
<1>6. CASE Goto(next)
  <2>1. /\ pc' = next /\ DOMAIN mine' = DOMAIN mine \cup {"registry"} /\ IsA(mine.registry, "Registry")'
    <3>1. pc' # "failed" /\ pc' = next
      BY <1>6 DEF Goto
    <3>2. Grown(Registry) /\ DOMAIN mine' = DOMAIN mine \cup {"registry"} /\ mine'.registry = Len(chain) + 1
      BY <1>1, <3>1 DEF Deployed
    <3>3. Registry.kind = "Registry"
      BY DEF Registry
    <3>4. QED  BY <3>1, <3>2, <3>3 DEF Grown, IsA, Contract
  <2>2. "i" \notin DOMAIN mine'
    BY <1>1, <2>1 DEF BootInv, BootProcess, Counting
  <2>3. entry = "bootstrap" => pc' \notin Elsewhere
    BY <1>1, <2>1 DEF BootInv, BootRun, Elsewhere
  <2>4. Cleanly'
    BY <2>1 DEF Cleanly, Counting
  <2>5. HasCode(mine.registry)'
    BY <2>1 DEF IsA, HasCode
  <2>6. QED  BY <1>4, <2>1, <2>2, <2>3, <2>4, <2>5, BootGoesOn DEF Counting
<1>7. QED  BY <1>2, <1>5, <1>6

LEMMA ReadRecordInv ==
  ASSUME BootInv, ReadRecord PROVE BootInv'
<1>1. pc = "record" /\ Watch /\ UNCHANGED <<chain, files, money>> /\ (faults' = faults \/ Fault)
  BY DEF ReadRecord, Goto, Lost
<1>2. Lasting
  BY <1>1, ChainStays DEF BootInv
<1>3. BootTypes' /\ BootFunds' /\ UNCHANGED entry
  BY <1>1, <1>2, BootTypesStay, FundsStay, Noticed DEF BootInv
<1>4. "i" \notin DOMAIN mine
  BY <1>1 DEF BootInv, BootProcess, Counting
<1>5. CASE Lost
  BY <1>1, <1>3, <1>5, NothingLearnt, BootDies, Noticed DEF BootInv, Lost
<1>6. CASE pc' = "deploy" /\ UNCHANGED mine
  <2>1. Cleanly'
    BY <1>6 DEF Cleanly, Counting
  <2>2. QED  BY <1>3, <1>4, <1>6, <2>1, BootGoesOn DEF HasRegistry, HasAddress, Counting, Elsewhere
<1>7. CASE HasCode(record) /\ pc' = "config" /\ Learn("registry", record)
  <2>1. DOMAIN mine' = DOMAIN mine \cup {"registry"} /\ mine'.registry = record /\ UNCHANGED record
    BY <1>1, <1>7, Learnt DEF files
  <2>2. HasCode(mine.registry)'
    BY <1>2, <1>7, <2>1 DEF Lasting, HasCode, Contract
  <2>3. Cleanly'
    BY <1>7, <2>1 DEF Cleanly, Counting
  <2>4. QED  BY <1>3, <1>4, <1>7, <2>1, <2>2, <2>3, BootGoesOn DEF HasRegistry, HasAddress, Counting, Elsewhere
<1>8. QED  BY <1>5, <1>6, <1>7 DEF ReadRecord, Goto

(* The process is done. *)
LEMMA BootIsDone ==
  ASSUME BootTypes', BootFunds', UNCHANGED entry, pc' = "done", Tallied',
         ("i" \in DOMAIN mine => IsA(mine.registry, "Registry"))',
         entry = "bootstrap" => (~clean' \/ CleanRunBootstraps')
  PROVE  BootInv'
BY DEF BootInv, BootProcess, BootRun, HasRegistry, HasAddress, Counting, Elsewhere, Cleanly

(* Nothing is done that the summary counts. *)
LEMMA NotCounting ==
  ASSUME "i" \notin DOMAIN mine' PROVE Tallied'
BY DEF Tallied

LEMMA SaveRecordInv ==
  ASSUME BootInv, NEW at, NEW next,
         (at = "save" /\ next = "config") \/ (at = "quickSave" /\ next = "quickConfig"),
         SaveRecordAt(at, next)
  PROVE  BootInv'
<1>1. /\ pc = at /\ Watch /\ UNCHANGED <<chain, config, torn, money>> /\ (faults' = faults \/ Fault)
      /\ "registry" \in DOMAIN mine /\ IsA(mine.registry, "Registry") /\ "i" \notin DOMAIN mine
  BY DEF SaveRecordAt, Goto, Lost, BootInv, BootProcess, HasRegistry, HasAddress, Counting
<1>2. Lasting
  BY <1>1, ChainStays DEF BootInv
<1>3. BootTypes' /\ BootFunds' /\ UNCHANGED entry
  BY <1>1, <1>2, BootTypesStay, FundsStay, Noticed DEF BootInv
<1>4. CASE Lost
  BY <1>1, <1>3, <1>4, NothingLearnt, BootDies, Noticed DEF BootInv, Lost
<1>5. CASE pc' = next /\ record' = mine.registry /\ UNCHANGED mine
  <2>1. IsA(mine.registry, "Registry")' /\ HasCode(mine.registry)'
    BY <1>1, <1>2, <1>5, RegistriesHaveCode DEF Lasting
  <2>2. Cleanly'
    BY <1>5 DEF Cleanly, Counting
  <2>3. entry = "bootstrap" => pc' \notin Elsewhere
    BY <1>1, <1>5 DEF BootInv, BootRun, Elsewhere
  <2>4. QED  BY <1>1, <1>3, <1>5, <2>1, <2>2, <2>3, BootGoesOn DEF Counting
<1>6. QED  BY <1>4, <1>5 DEF SaveRecordAt, Goto

LEMMA UpdateConfigFilesInv ==
  ASSUME BootInv, NEW at, NEW next,
         (at = "config" /\ next = "count") \/ (at = "quickConfig" /\ next = "done"),
         UpdateConfigFilesAt(at, next)
  PROVE  BootInv'
<1>1. /\ pc = at /\ Watch /\ UNCHANGED <<chain, record, money>> /\ (faults' = faults \/ Fault)
      /\ "registry" \in DOMAIN mine /\ HasCode(mine.registry) /\ "i" \notin DOMAIN mine
  BY DEF UpdateConfigFilesAt, Goto, BootInv, BootProcess, HasRegistry, HasAddress, Counting
<1>2. Lasting
  BY <1>1, ChainStays DEF BootInv
<1>3. BootTypes' /\ BootFunds' /\ UNCHANGED entry
  BY <1>1, <1>2, BootTypesStay, FundsStay, Noticed DEF BootInv
<1>4. CASE Fault /\ pc' = "failed" /\ mine' = NoLocals
  BY <1>1, <1>3, <1>4, NothingLearnt, BootDies, Noticed DEF BootInv
<1>5. CASE /\ pc' = next /\ UNCHANGED mine
           /\ Fault \/ (UNCHANGED torn /\ config' = WithAddress(ConfigFiles \ torn))
  <2>1. HasCode(mine.registry)'
    BY <1>1, <1>2, <1>5 DEF Lasting
  <2>2. CASE at = "config" /\ next = "count"
    <3>1. ~clean' \/ entry # "bootstrap" \/ Cleanly'
      <4> SUFFICES ASSUME clean', entry = "bootstrap" PROVE Cleanly'
        OBVIOUS
      <4>1. clean /\ ~Fault
        BY <1>1, Noticed DEF BootInv
      <4>2. mine.registry = record
        BY <1>1, <2>2, <4>1 DEF BootInv, BootRun, Cleanly
      <4>3. \A f \in ConfigFiles \ torn' : config'[f] = record'
        BY <1>1, <1>5, <4>1, <4>2 DEF WithAddress
      <4>4. QED  BY <1>1, <1>5, <2>2, <4>2, <4>3 DEF Cleanly, Counting
    <3>2. QED  BY <1>1, <1>3, <1>5, <2>1, <2>2, <3>1, BootGoesOn DEF HasRegistry, Counting, Elsewhere
  <2>3. CASE at = "quickConfig" /\ next = "done"
    <3>1. entry # "bootstrap"
      BY <1>1, <2>3 DEF BootInv, BootRun, Elsewhere
    <3>2. QED  BY <1>1, <1>3, <1>5, <2>3, <3>1, BootIsDone, NotCounting
  <2>4. QED  BY <2>2, <2>3
<1>6. QED  BY <1>4, <1>5 DEF UpdateConfigFilesAt, Goto

LEMMA CheckExistingInv ==
  ASSUME BootInv, CheckExisting PROVE BootInv'
<1>1. /\ pc = "count" /\ Watch /\ UNCHANGED <<chain, files, money>> /\ (faults' = faults \/ Fault)
      /\ "registry" \in DOMAIN mine /\ HasCode(mine.registry) /\ "i" \notin DOMAIN mine
  BY DEF CheckExisting, Goto, Throw, Lost, BootInv, BootProcess, HasRegistry, HasAddress, Counting
<1>2. Lasting /\ \A a : Registered(a)' = Registered(a) /\ IsA(a, "Registry")' = IsA(a, "Registry")
  BY <1>1, ChainStays DEF BootInv
<1>3. BootTypes' /\ BootFunds' /\ UNCHANGED entry
  BY <1>1, <1>2, BootTypesStay, FundsStay, Noticed DEF BootInv
<1>4. CASE Lost
  BY <1>1, <1>3, <1>4, NothingLearnt, BootDies, Noticed DEF BootInv, Lost
<1>5. ASSUME clean', entry = "bootstrap"
      PROVE  /\ mine.registry = record /\ UNCHANGED record /\ HasCode(record)'
             /\ \A f \in ConfigFiles \ torn' : config'[f] = record
  BY <1>1, <1>2, <1>5, Noticed DEF BootInv, BootRun, Cleanly, files, Lasting, HasCode, Contract
<1>6. CASE /\ IsA(mine.registry, "Registry") /\ Cardinality(Registered(mine.registry)) >= N
           /\ pc' = "done" /\ UNCHANGED mine
  <2>1. ASSUME clean', entry = "bootstrap" PROVE CleanRunBootstraps'
    <3>1. PICK r : r = record
      OBVIOUS
    <3>2. record' = r /\ IsA(r, "Registry") /\ Cardinality(Registered(r)) >= N /\ HasCode(record)'
      BY <1>5, <1>6, <2>1, <3>1
    <3>3. Registered(record)' = Registered(r)' /\ (IsA(record, "Registry")' <=> IsA(r, "Registry")')
      BY <3>2 DEF Registered, IsA, Contract
    <3>4. Registered(record)' = Registered(r) /\ IsA(record, "Registry")'
      BY <1>2, <3>2, <3>3
    <3>5. Cardinality(Registered(record))' >= N
      BY <3>2, <3>4
    <3>6. QED  BY <1>5, <2>1, <3>2, <3>4, <3>5 DEF CleanRunBootstraps
  <2>2. QED  BY <1>1, <1>3, <1>6, <2>1, BootIsDone, NotCounting
<1>7. CASE ~IsA(mine.registry, "Registry") /\ pc' = "failed" /\ DOMAIN mine' = {}
  <2>1. ASSUME clean', entry = "bootstrap" PROVE CleanRunBootstraps'
    <3>1. PICK r : r = record
      OBVIOUS
    <3>2. record' = r /\ ~IsA(r, "Registry") /\ HasCode(record)'
      BY <1>5, <1>7, <2>1, <3>1
    <3>3. IsA(record, "Registry")' <=> IsA(r, "Registry")'
      BY <3>2 DEF IsA, Contract
    <3>4. ~IsA(record, "Registry")'
      BY <1>2, <3>2, <3>3
    <3>5. QED  BY <1>5, <1>7, <2>1, <3>2, <3>4 DEF CleanRunBootstraps
  <2>2. QED
    BY <1>3, <1>7, <2>1
    DEF BootInv, BootProcess, Tallied, BootRun, HasRegistry, HasAddress, Counting, Elsewhere, Cleanly
<1>8. CASE IsA(mine.registry, "Registry") /\ pc' = "validator" /\ mine' = Zero
  <2>1. /\ DOMAIN mine' = {"registry", "i", "amount", "registered", "skipped", "failed"}
        /\ mine'.registry = mine.registry /\ mine'.i = 1
        /\ mine'.registered = 0 /\ mine'.skipped = 0 /\ mine'.failed = 0
    BY <1>8 DEF Zero
  <2>2. IsA(mine.registry, "Registry")' /\ HasCode(mine.registry)'
    <3>1. PICK r : r = mine.registry
      OBVIOUS
    <3>2. IsA(r, "Registry")' /\ HasCode(r)' /\ mine'.registry = r
      BY <1>2, <1>8, <2>1, <3>1, RegistriesHaveCode DEF Lasting
    <3>3. QED  BY <3>2 DEF IsA, HasCode, Contract
  <2>3. Tallied'
    <3>1. (Cardinality(Below(Registered(mine.registry), mine.i)))' \in Nat
      <4>1. PICK S : S = Registered(mine.registry)'
        OBVIOUS
      <4>2. PICK n : n = mine'.i
        OBVIOUS
      <4>3. (Cardinality(Below(Registered(mine.registry), mine.i)))' = Cardinality(Below(S, n))
        BY <4>1, <4>2 DEF Below
      <4>4. QED  BY <4>3, BelowFinite
    <3>2. QED  BY <2>1, <3>1, BootstrapAssumption DEF Tallied
  <2>4. BootProcess'
    BY <1>8, <2>1, <2>2 DEF BootProcess, HasRegistry, HasAddress, Counting
  <2>5. BootRun'
    <3>1. ASSUME clean', entry = "bootstrap" PROVE Cleanly'
      BY <1>5, <1>8, <2>1, <3>1 DEF Cleanly, Counting, Validator
    <3>2. QED  BY <1>3, <1>8, <3>1 DEF BootRun, Elsewhere, CleanRunBootstraps
  <2>6. QED  BY <1>3, <2>3, <2>4, <2>5 DEF BootInv
<1>9. QED  BY <1>4, <1>6, <1>8, <1>7, NothingLearnt DEF CheckExisting, Goto, Throw

(* What the process knows while it counts. *)
Counts ==
  /\ "i" \in DOMAIN mine /\ "registry" \in DOMAIN mine
  /\ IsA(mine.registry, "Registry")
  /\ mine.i \in 1..N + 1

LEMMA CountingKnows ==
  ASSUME BootInv, pc \in Counting
  PROVE  /\ Counts
         /\ clean /\ entry = "bootstrap" =>
              /\ mine.registry = record /\ \A f \in ConfigFiles \ torn : config[f] = record
              /\ \A v \in Validator : v < mine.i /\ keys[v] # "invalid" => v \in Registered(record)
<1>1. Counts
  BY DEF BootInv, BootProcess, Tallied, HasRegistry, Counts
<1>2. QED  BY <1>1 DEF BootInv, BootRun, Cleanly

(* The next validator is up; if all has gone well, this one is registered. *)
LEMMA BootCounts ==
  ASSUME BootInv, pc \in Counting, mine.i <= N, Lasting, BootTypes', BootFunds',
         UNCHANGED <<files, keys, entry>>, clean' => clean,
         NEW o \in {"registered", "skipped", "failed"}, CountAs(o), pc' = "validator",
         NEW r, r = mine.registry,
         o # "failed" => mine.i \in Registered(r)',
         clean' /\ keys[mine.i] # "invalid" => mine.i \in Registered(r)'
  PROVE  BootInv'
<1>1. /\ Counts
      /\ clean /\ entry = "bootstrap" =>
           /\ mine.registry = record /\ \A f \in ConfigFiles \ torn : config[f] = record
           /\ \A v \in Validator : v < mine.i /\ keys[v] # "invalid" => v \in Registered(record)
  BY CountingKnows
<1>2. /\ Tallied' /\ DOMAIN mine' = DOMAIN mine /\ mine'.registry = r
      /\ mine'.i = mine.i + 1
  BY <1>1, TallyCounts DEF BootInv, Counts
<1>3. IsA(mine.registry, "Registry")' /\ HasCode(mine.registry)'
  <2>1. IsA(r, "Registry")' /\ HasCode(r)'
    BY <1>1, RegistriesHaveCode DEF Lasting, Counts
  <2>2. QED  BY <1>2, <2>1 DEF IsA, HasCode, Contract
<1>4. BootProcess'
  BY <1>1, <1>2, <1>3 DEF BootProcess, HasRegistry, HasAddress, Counting, Counts
<1>5. ASSUME clean', entry = "bootstrap" PROVE Cleanly'
  <2>1. /\ r = record /\ UNCHANGED record /\ (\A f \in ConfigFiles \ torn' : config'[f] = record)
        /\ \A v \in Validator : v < mine.i /\ keys[v] # "invalid" => v \in Registered(r)
    BY <1>1, <1>5 DEF files
  <2>2. ASSUME NEW v \in Validator, v < mine'.i, keys'[v] # "invalid" PROVE v \in Registered(record)'
    <3>1. v < mine.i \/ v = mine.i
      BY <1>1, <1>2, <2>2, BootstrapAssumption DEF Validator, Counts
    <3>2. v \in Registered(r)'
      BY <1>5, <2>1, <2>2, <3>1, <1>1 DEF Lasting, Counts
    <3>3. QED  BY <2>1, <3>2
  <2>3. QED  BY <1>2, <2>1, <2>2 DEF Cleanly
<1>6. BootRun'
  BY <1>5 DEF BootRun, Elsewhere, CleanRunBootstraps
<1>7. QED  BY <1>2, <1>4, <1>6 DEF BootInv

(* It goes on with the same validator. *)
LEMMA BootKeepsCounting ==
  ASSUME BootInv, pc \in Counting, UNCHANGED chain, BootTypes', BootFunds',
         UNCHANGED <<files, keys, entry>>, SameTally, clean' => clean,
         pc' \in {"fund", "send", "register"}, mine.i <= N, keys[mine.i] # "invalid",
         pc' = "send" =>
           /\ mine'.amount \in 0..Required + Extra
           /\ balances'[mine.i] + mine'.amount \in Required..Cap(late'[mine.i]),
         pc' = "register" => balances'[mine.i] >= Required
  PROVE  BootInv'
<1>1. /\ Counts
      /\ clean /\ entry = "bootstrap" =>
           /\ mine.registry = record /\ \A f \in ConfigFiles \ torn : config[f] = record
           /\ \A v \in Validator : v < mine.i /\ keys[v] # "invalid" => v \in Registered(record)
  BY CountingKnows
<1>2. Lasting /\ \A a : Registered(a)' = Registered(a)
  BY ChainStays DEF BootInv
<1>3. Tallied'
  BY <1>1, <1>2, TallyLasts DEF BootInv, Counts
<1>4. PICK r : r = mine.registry
  OBVIOUS
<1>5. DOMAIN mine' = DOMAIN mine /\ mine'.registry = r /\ mine'.i = mine.i
  BY <1>1, <1>4 DEF SameTally, Counts
<1>6. IsA(mine.registry, "Registry")' /\ HasCode(mine.registry)'
  <2>1. IsA(r, "Registry")' /\ HasCode(r)'
    BY <1>1, <1>2, <1>4, RegistriesHaveCode DEF Lasting, Counts
  <2>2. QED  BY <1>5, <2>1 DEF IsA, HasCode, Contract
<1>7. pc' = "send" =>
        /\ mine'.amount \in 0..Required + Extra
        /\ balances'[mine'.i] + mine'.amount \in (Required..Cap(late[mine.i]))'
  BY <1>5 DEF Required, Extra, Cap
<1>8. BootProcess'
  BY <1>1, <1>5, <1>6, <1>7
  DEF BootProcess, HasRegistry, HasAddress, Counting, Counts, Required, Extra, Cap
<1>9. ASSUME clean', entry = "bootstrap" PROVE Cleanly'
  BY <1>1, <1>2, <1>4, <1>5, <1>9 DEF Cleanly, files
<1>10. BootRun'
  BY <1>9 DEF BootRun, Elsewhere, CleanRunBootstraps
<1>11. QED  BY <1>3, <1>8, <1>10 DEF BootInv

LEMMA ExamineValidatorInv ==
  ASSUME BootInv, ExamineValidator PROVE BootInv'
<1>1. /\ pc = "validator" /\ mine.i <= N /\ Watch /\ UNCHANGED <<chain, files, money>>
      /\ (faults' = faults \/ Fault) /\ pc \in Counting
  BY DEF ExamineValidator, Count, Goto, Counting
<1>2. Lasting /\ \A a : Registered(a)' = Registered(a)
  BY <1>1, ChainStays DEF BootInv
<1>3. BootTypes' /\ BootFunds' /\ UNCHANGED <<entry, keys>> /\ (clean' => clean)
  BY <1>1, <1>2, BootTypesStay, FundsStay, Noticed DEF BootInv
<1>4. PICK r : r = mine.registry
  OBVIOUS
<1>5. CASE keys[mine.i] = "invalid" /\ Count("failed")
  <2>1. CountAs("failed") /\ pc' = "validator"
    BY <1>5 DEF Count, Goto
  <2>2. QED  BY <1>1, <1>2, <1>3, <1>4, <1>5, <2>1, BootCounts
<1>6. CASE mine.i \in Registered(mine.registry) /\ Count("skipped")
  <2>1. CountAs("skipped") /\ pc' = "validator" /\ mine.i \in Registered(r)'
    BY <1>2, <1>4, <1>6 DEF Count, Goto
  <2>2. QED  BY <1>1, <1>2, <1>3, <1>4, <2>1, BootCounts
<1>7. CASE keys[mine.i] # "invalid" /\ pc' = "fund" /\ UNCHANGED mine
  BY <1>1, <1>3, <1>7, BootKeepsCounting DEF SameTally
<1>8. QED  BY <1>5, <1>6, <1>7 DEF ExamineValidator, Account, Goto

LEMMA FundValidatorInv ==
  ASSUME BootInv, FundValidator PROVE BootInv'
<1>1. /\ pc = "fund" /\ Watch /\ UNCHANGED <<chain, files, money>> /\ (faults' = faults \/ Fault)
      /\ pc \in Counting
  BY DEF FundValidator, Goto, Lost, Counting
<1>2. Lasting
  BY <1>1, ChainStays DEF BootInv
<1>3. BootTypes' /\ BootFunds' /\ UNCHANGED <<entry, keys>> /\ (clean' => clean) /\ (Fault => ~clean')
  BY <1>1, <1>2, BootTypesStay, FundsStay, Noticed DEF BootInv
<1>4. Counts /\ mine.i <= N /\ keys[mine.i] # "invalid" /\ mine.i \in Validator
  BY <1>1, CountingKnows, BootstrapAssumption DEF BootInv, BootProcess, Counts, Validator
<1>5. /\ UNCHANGED <<balances, late>> /\ balances[mine.i] \in Nat /\ late[mine.i] \in Nat
      /\ Required \in Nat /\ Cap(late[mine.i]) \in Nat /\ Required + Extra <= Cap(late[mine.i])
      /\ Required + Extra = Required + 1
  BY <1>1, <1>4, Capped DEF BootInv, BootFunds, money, Extra
<1>6. CASE Lost
  BY <1>3, <1>6, NothingLearnt, BootDies DEF Lost
<1>7. CASE pc' = "register" /\ UNCHANGED mine /\ balances[mine.i] >= Required
  BY <1>1, <1>3, <1>4, <1>5, <1>7, BootKeepsCounting DEF SameTally
<1>8. CASE pc' = "send" /\ balances[mine.i] < Required /\ mine' = [mine EXCEPT !.amount = TopUp]
  <2>1. "amount" \in DOMAIN mine
    BY <1>4 DEF BootInv, Tallied, Counts
  <2>2. mine'.amount = TopUp /\ SameTally
    BY <1>8, <2>1 DEF SameTally
  <2>3. TopUp = Required - balances[mine.i] + 1
    BY DEF TopUp, Account, Extra
  <2>4. TopUp \in 0..Required + Extra /\ balances[mine.i] + TopUp = Required + Extra
    BY <1>5, <1>8, <2>3
  <2>5. balances[mine.i] + TopUp \in Required..Cap(late[mine.i])
    BY <1>5, <2>4
  <2>6. /\ mine'.amount \in 0..Required + Extra
        /\ balances'[mine.i] + mine'.amount \in Required..Cap(late'[mine.i])
    BY <1>5, <2>2, <2>4, <2>5
  <2>7. QED  BY <1>1, <1>3, <1>4, <1>8, <2>2, <2>6, BootKeepsCounting
<1>9. QED  BY <1>6, <1>7, <1>8 DEF FundValidator, Goto, Account

(* A funding arrives: at once, or late. *)
LEMMA FundsArrive ==
  ASSUME BootFunds, NEW v \in Validator, NEW x \in Nat,
         balances' = [balances EXCEPT ![v] = @ + x],
         \/ UNCHANGED late /\ balances[v] + x <= Cap(late[v])
         \/ late' = [late EXCEPT ![v] = @ + 1] /\ x <= Required + Extra,
         pending' \subseteq pending
  PROVE  /\ BootFunds' /\ balances'[v] = balances[v] + x
         /\ \A w \in Validator \ {v} : balances'[w] = balances[w] /\ late'[w] = late[w]
         /\ Cap(late'[v]) >= Cap(late[v])
<1>1. /\ balances \in [Validator -> Nat] /\ late \in [Validator -> Nat]
      /\ \A w \in Validator : balances[w] <= Cap(late[w])
  BY DEF BootFunds
<1>2. /\ Required + Extra \in Nat /\ Cap(late[v]) \in Nat
      /\ Cap(late[v] + 1) = Cap(late[v]) + (Required + Extra)
  BY <1>1, Capped
<1>3. /\ balances' \in [Validator -> Nat] /\ balances'[v] = balances[v] + x
      /\ \A w \in Validator \ {v} : balances'[w] = balances[w]
  BY <1>1
<1>4. /\ late' \in [Validator -> Nat] /\ late'[v] \in {late[v], late[v] + 1}
      /\ \A w \in Validator \ {v} : late'[w] = late[w]
  BY <1>1
<1>5. balances'[v] <= Cap(late'[v]) /\ Cap(late'[v]) >= Cap(late[v])
  <2>1. CASE UNCHANGED late /\ balances[v] + x <= Cap(late[v])
    BY <1>2, <1>3, <2>1
  <2>2. CASE late' = [late EXCEPT ![v] = @ + 1] /\ x <= Required + Extra
    <3>1. late'[v] = late[v] + 1
      BY <1>1, <2>2
    <3>2. balances[v] + x <= Cap(late[v]) + (Required + Extra)
      BY <1>1, <1>2, <2>2
    <3>3. QED  BY <1>2, <1>3, <3>1, <3>2
  <2>3. QED  BY <2>1, <2>2
<1>6. \A w \in Validator : balances'[w] <= Cap(late'[w])
  BY <1>1, <1>3, <1>4, <1>5
<1>7. BootFunds'
  <2>1. \A f \in pending' : f.to \in Validator /\ f.amount \in 0..Required + Extra
    BY DEF BootFunds
  <2>2. QED  BY <1>3, <1>4, <1>6, <2>1 DEF BootFunds, Validator, Required, Extra, Cap
<1>8. QED  BY <1>3, <1>4, <1>5, <1>7

LEMMA SendFundingInv ==
  ASSUME BootInv, SendFunding PROVE BootInv'
<1>1. /\ pc = "send" /\ Watch /\ UNCHANGED <<chain, files, late>> /\ (faults' = faults \/ Fault)
      /\ pc \in Counting
  BY DEF SendFunding, Goto, Counting
<1>2. Lasting
  BY <1>1, ChainStays DEF BootInv
<1>3. BootTypes' /\ UNCHANGED <<entry, keys>> /\ (clean' => clean) /\ (Fault => ~clean')
  BY <1>1, <1>2, BootTypesStay, Noticed DEF BootInv
<1>4. Counts /\ mine.i <= N /\ keys[mine.i] # "invalid" /\ mine.i \in Validator
  BY <1>1, CountingKnows, BootstrapAssumption DEF BootInv, BootProcess, Counts, Validator
<1>5. PICK x : x = mine.amount
  OBVIOUS
<1>6. /\ BootFunds /\ x \in 0..Required + Extra /\ Required + Extra \in Nat /\ Required \in Nat
      /\ balances[mine.i] + x \in Required..Cap(late[mine.i])
      /\ late[mine.i] \in Nat /\ Cap(late[mine.i]) \in Nat /\ balances[mine.i] \in Nat
  <2>1. BootFunds /\ late[mine.i] \in Nat /\ balances[mine.i] \in Nat
    BY <1>4 DEF BootInv, BootFunds
  <2>2. QED  BY <1>1, <1>5, <2>1, Capped DEF BootInv, BootProcess
<1>7. CASE balances' = Funded /\ UNCHANGED pending
  <2>1. balances' = [balances EXCEPT ![mine.i] = @ + x] /\ balances[mine.i] + x <= Cap(late[mine.i]) /\ x \in Nat
    BY <1>5, <1>6, <1>7 DEF Funded, Account
  <2>2. BootFunds' /\ balances'[mine.i] = balances[mine.i] + x
    BY <1>1, <1>4, <1>6, <1>7, <2>1, FundsArrive
  <2>3. CASE pc' = "register" /\ UNCHANGED mine
    <3>1. balances'[mine.i] >= Required
      BY <1>6, <2>2
    <3>2. QED  BY <1>1, <1>3, <1>4, <2>2, <2>3, <3>1, BootKeepsCounting DEF SameTally
  <2>4. CASE Fault /\ pc' = "failed" /\ mine' = NoLocals
    BY <1>3, <2>2, <2>4, NothingLearnt, BootDies
  <2>5. CASE Fault /\ pc' = "validator" /\ CountAs("failed")
    <3>1. PICK r : r = mine.registry
      OBVIOUS
    <3>2. QED  BY <1>1, <1>2, <1>3, <1>4, <2>2, <2>5, <3>1, BootCounts
  <2>6. QED  BY <1>7, <2>3, <2>4, <2>5 DEF SendFunding, Goto
<1>8. CASE Fault /\ pending' = pending \cup {Funding} /\ UNCHANGED balances
  <2>1. Funding.to \in Validator /\ Funding.amount \in 0..Required + Extra
    BY <1>4, <1>5, <1>6 DEF Funding, Account
  <2>2. BootFunds'
    BY <1>1, <1>6, <1>8, <2>1 DEF BootFunds, Validator, Required, Extra, Cap
  <2>3. CASE pc' = "failed" /\ mine' = NoLocals
    BY <1>3, <1>8, <2>2, <2>3, NothingLearnt, BootDies
  <2>4. CASE pc' = "validator" /\ CountAs("failed")
    <3>1. PICK r : r = mine.registry
      OBVIOUS
    <3>2. QED  BY <1>1, <1>2, <1>3, <1>4, <1>8, <2>2, <2>4, <3>1, BootCounts
  <2>5. CASE pc' = "register"
    BY <1>1, <1>3, <1>8, <2>5 DEF SendFunding, Goto, Fault, BootInv, BootTypes
  <2>6. QED  BY <1>8, <2>3, <2>4, <2>5 DEF SendFunding, Goto
<1>9. QED  BY <1>7, <1>8 DEF SendFunding

LEMMA RejectPrefixedKeyInv ==
  ASSUME BootInv, RejectPrefixedKey PROVE BootInv'
<1>1. /\ pc = "register" /\ keys[mine.i] = "prefixed" /\ pc' = "failed" /\ DOMAIN mine' = {}
      /\ Watch /\ UNCHANGED <<chain, files, money, faults>> /\ pc \in Counting
  BY NothingLearnt DEF RejectPrefixedKey, Throw, Counting
<1>2. Lasting /\ \A a : Registered(a)' = Registered(a)
  BY <1>1, ChainStays DEF BootInv
<1>3. BootTypes' /\ BootFunds' /\ UNCHANGED <<entry, keys>> /\ (clean' => clean)
  BY <1>1, <1>2, BootTypesStay, FundsStay, Noticed DEF BootInv
<1>4. /\ Counts
      /\ clean /\ entry = "bootstrap" =>
           /\ mine.registry = record /\ \A f \in ConfigFiles \ torn : config[f] = record
           /\ \A v \in Validator : v < mine.i /\ keys[v] # "invalid" => v \in Registered(record)
  BY <1>1, CountingKnows
<1>5. ASSUME clean', entry = "bootstrap" PROVE CleanRunBootstraps'
  <2>1. ASSUME NEW v \in Validator, keys[v] = "plain", \A w \in 1..v : keys[w] # "prefixed"
        PROVE  v \in Registered(record)
    <3>1. v \in Nat /\ mine.i \in Nat /\ 1 <= mine.i
      BY <1>4, BootstrapAssumption DEF Validator, Counts
    <3>2. v < mine.i
      BY <1>1, <2>1, <3>1
    <3>3. QED  BY <1>3, <1>4, <1>5, <2>1, <3>2
  <2>2. IsA(record, "Registry") /\ \A f \in ConfigFiles \ torn : config[f] = record
    BY <1>3, <1>4, <1>5 DEF Counts
  <2>3. UNCHANGED <<chain, record, config, torn, keys>>
    BY <1>1, <1>3 DEF files
  <2>4. QED
    BY <1>1, <2>1, <2>2, <2>3, RegistriesHaveCode
    DEF CleanRunBootstraps, Validator, IsA, Contract, HasCode, Registered
<1>6. QED
  BY <1>1, <1>3, <1>5 DEF BootInv, BootProcess, Tallied, BootRun, HasRegistry, HasAddress, Counting, Elsewhere, Cleanly

LEMMA RegisterValidatorInv ==
  ASSUME BootInv, RegisterValidator PROVE BootInv'
<1>1. /\ pc = "register" /\ Watch /\ UNCHANGED <<files, pending, late>> /\ pc \in Counting
      /\ (faults' = faults \/ Fault)
  BY DEF RegisterValidator, Count, Goto, Lost, Counting
<1>2. Counts /\ mine.i <= N /\ mine.i \in Validator /\ balances[mine.i] >= Required
  BY <1>1, CountingKnows, BootstrapAssumption DEF BootInv, BootProcess, Counts, Validator
<1>3. PICK r : r = mine.registry
  OBVIOUS
<1>4. chain' = chain \/ chain' = RegisteredNow
  BY DEF RegisterValidator
<1>5. Lasting /\ (chain' = RegisteredNow => mine.i \in Registered(r)')
  <2>1. CASE chain' = chain
    <3>1. Lasting
      BY <2>1, ChainStays DEF BootInv
    <3>2. CASE chain' = RegisteredNow
      <4>1. mine.i \in 1..N + 1
        BY <1>2 DEF Counts
      <4>2. chain' = [chain EXCEPT ![r].registered = @ \cup {mine.i}]
        BY <1>3, <3>2 DEF RegisteredNow, Account
      <4>3. QED  BY <1>2, <1>3, <4>1, <4>2, Enrolled DEF BootInv, Counts
    <3>3. QED  BY <3>1, <3>2
  <2>2. CASE chain' = RegisteredNow
    <3>1. mine.i \in 1..N + 1
      BY <1>2 DEF Counts
    <3>2. chain' = [chain EXCEPT ![r].registered = @ \cup {mine.i}]
      BY <1>3, <2>2 DEF RegisteredNow, Account
    <3>3. QED  BY <1>2, <1>3, <3>1, <3>2, Enrolled DEF BootInv, Counts
  <2>3. QED  BY <1>4, <2>1, <2>2
<1>6. BootTypes' /\ UNCHANGED <<entry, keys>> /\ (clean' => clean) /\ (Fault => ~clean')
  BY <1>1, <1>5, BootTypesStay, Noticed DEF BootInv
<1>7. BootFunds'
  <2>1. balances' \in {balances, Paid(Gas), Paid(Stake + Gas)}
    BY DEF RegisterValidator
  <2>2. balances \in [Validator -> Nat] /\ Stake \in Nat
    BY BootstrapAssumption DEF BootInv, BootFunds
  <2>3. ASSUME NEW amount \in {Gas, Stake + Gas}, balances' = Paid(amount) PROVE BootFunds'
    <3>1. amount \in Nat /\ amount <= Required
      BY <2>2 DEF Gas, Required
    <3>2. balances[mine.i] - amount \in Nat /\ balances[mine.i] - amount <= balances[mine.i]
      BY <1>2, <2>2, <3>1 DEF Required
    <3>3. /\ balances' \in [Validator -> Nat]
          /\ \A v \in Validator : balances'[v] <= balances[v]
      BY <1>2, <2>2, <2>3, <3>2 DEF Paid, Account
    <3>4. \A v \in Validator : balances[v] <= Cap(late[v]) /\ Cap(late[v]) \in Nat
      BY Capped DEF BootInv, BootFunds
    <3>5. \A v \in Validator : balances'[v] <= Cap(late[v])
      BY <2>2, <3>3, <3>4
    <3>6. QED  BY <1>1, <3>3, <3>5 DEF BootInv, BootFunds, Validator, Required, Extra, Cap
  <2>4. CASE balances' = balances
    BY <1>1, <2>4, FundsStay DEF BootInv, money
  <2>5. QED  BY <2>1, <2>3, <2>4
<1>8. CASE Fault /\ pc' = "failed" /\ mine' = NoLocals
  BY <1>6, <1>7, <1>8, NothingLearnt, BootDies
<1>9. CASE Fault /\ pc' = "validator" /\ CountAs("failed")
  BY <1>1, <1>2, <1>3, <1>5, <1>6, <1>7, <1>9, BootCounts
<1>10. CASE Count("failed") /\ mine.i \in Registered(mine.registry)
  <2>1. mine.i \in Registered(r)' /\ CountAs("failed") /\ pc' = "validator"
    BY <1>2, <1>3, <1>5, <1>10 DEF Lasting, Counts, Count, Goto
  <2>2. QED  BY <1>1, <1>2, <1>3, <1>5, <1>6, <1>7, <2>1, BootCounts
<1>11. CASE Count("registered") /\ chain' = RegisteredNow
  <2>1. mine.i \in Registered(r)' /\ CountAs("registered") /\ pc' = "validator"
    BY <1>5, <1>11 DEF Count, Goto
  <2>2. QED  BY <1>1, <1>2, <1>3, <1>5, <1>6, <1>7, <2>1, BootCounts
<1>12. QED
  BY <1>8, <1>9, <1>10, <1>11 DEF RegisterValidator, Account, Lost

LEMMA ReportSummaryInv ==
  ASSUME BootInv, ReportSummary PROVE BootInv'
<1>1. /\ pc = "validator" /\ mine.i > N /\ Watch /\ UNCHANGED <<chain, files, money>>
      /\ (faults' = faults \/ Fault) /\ pc \in Counting
  BY DEF ReportSummary, Goto, Lost, Counting
<1>2. Lasting /\ \A a : Registered(a)' = Registered(a)
  BY <1>1, ChainStays DEF BootInv
<1>3. BootTypes' /\ BootFunds' /\ UNCHANGED <<entry, keys>> /\ (clean' => clean)
  BY <1>1, <1>2, BootTypesStay, FundsStay, Noticed DEF BootInv
<1>4. CASE Lost
  BY <1>1, <1>3, <1>4, NothingLearnt, BootDies, Noticed DEF BootInv, Lost
<1>5. CASE pc' = "done" /\ UNCHANGED mine
  <2>1. /\ Counts
        /\ clean /\ entry = "bootstrap" =>
             /\ mine.registry = record /\ \A f \in ConfigFiles \ torn : config[f] = record
             /\ \A v \in Validator : v < mine.i /\ keys[v] # "invalid" => v \in Registered(record)
    BY <1>1, CountingKnows
  <2>2. Tallied' /\ IsA(mine.registry, "Registry")'
    <3>1. Tallied'
      BY <1>2, <1>5, <2>1, TallyLasts DEF BootInv, Counts, SameTally
    <3>2. QED  BY <1>1, <1>5, <2>1, <3>1 DEF Counts, IsA, Contract
  <2>3. ASSUME clean', entry = "bootstrap" PROVE CleanRunBootstraps'
    <3>1. \A v \in Validator : v < mine.i
      BY <1>1, <2>1, BootstrapAssumption DEF Validator, Counts
    <3>2. IsA(record, "Registry") /\ \A f \in ConfigFiles \ torn : config[f] = record
      BY <1>3, <2>1, <2>3 DEF Counts
    <3>3. UNCHANGED <<chain, record, config, torn, keys>>
      BY <1>1, <1>3 DEF files
    <3>4. \A v \in Validator : keys[v] # "invalid" => v \in Registered(record)
      BY <1>3, <2>1, <2>3, <3>1
    <3>5. QED
      BY <3>2, <3>3, <3>4, RegistriesHaveCode
      DEF CleanRunBootstraps, Validator, IsA, Contract, HasCode, Registered
  <2>4. QED  BY <1>3, <1>5, <2>2, <2>3, BootIsDone
<1>6. QED  BY <1>4, <1>5 DEF ReportSummary, Goto

(* The other two ways to deploy a registry end without a claim. *)
LEMMA ElsewhereInv ==
  ASSUME BootInv, CheckKnownAddresses \/ HardhatSave PROVE BootInv'
<1>1. /\ pc \in {"knownAddresses", "hardhatSave"} /\ Watch /\ UNCHANGED <<chain, files, money>>
      /\ (faults' = faults \/ Fault)
  BY DEF CheckKnownAddresses, HardhatSave, Goto, Throw, Lost
<1>2. Lasting
  BY <1>1, ChainStays DEF BootInv
<1>3. BootTypes' /\ BootFunds' /\ UNCHANGED entry /\ entry # "bootstrap" /\ "i" \notin DOMAIN mine
  BY <1>1, <1>2, BootTypesStay, FundsStay, Noticed DEF BootInv, BootRun, BootProcess, Elsewhere, Counting
<1>4. CASE pc' = "failed" /\ mine' = NoLocals
  BY <1>3, <1>4, NothingLearnt, BootDies
<1>5. CASE pc' = "done" /\ UNCHANGED mine
  BY <1>3, <1>5, NotCounting, BootIsDone
<1>6. CASE pc' = "quickDeploy" /\ UNCHANGED mine
  BY <1>3, <1>6, BootGoesOn DEF Counting, HasRegistry, HasAddress
<1>7. QED
  BY <1>4, <1>5, <1>6 DEF CheckKnownAddresses, HardhatSave, Goto, Throw, Lost

(* Registries are finite, and do not shrink. *)
LEMMA EnoughRegistered ==
  ASSUME Lasting, NEW a, IsA(a, "Registry"), Cardinality(Registered(a)) >= N
  PROVE  Cardinality(Registered(a)') >= N
<1>1. N \in Nat /\ IsFiniteSet(1..N + 1)
  BY FS_Interval, BootstrapAssumption
<1>2. Registered(a) \subseteq Registered(a)' /\ Registered(a)' \subseteq 1..N + 1
  <2>1. \A c \in Registries : c.registered \subseteq 1..N + 1
    BY DEF Registries
  <2>2. a \in DOMAIN chain' => chain'[a] \in Registries
    BY DEF Lasting
  <2>3. Registered(a)' \subseteq 1..N + 1
    BY <2>1, <2>2 DEF Registered, IsA, Contract
  <2>4. QED  BY <2>3 DEF Lasting
<1>3. PICK S, T : S = Registered(a) /\ T = Registered(a)'
  OBVIOUS
<1>4. S \in SUBSET T /\ T \in SUBSET (1..N + 1)
  BY <1>2, <1>3
<1>5. IsFiniteSet(T)
  BY <1>1, <1>4, FS_Subset
<1>6. Cardinality(S) <= Cardinality(T) /\ Cardinality(S) \in Nat /\ Cardinality(T) \in Nat
  BY <1>4, <1>5, FS_Subset, FS_CardinalityType
<1>7. QED  BY <1>1, <1>3, <1>6

(* A late funding, a validator that registers itself, a step of nothing: the *)
(* process knows nothing of it.                                              *)
LEMMA BootLasts ==
  ASSUME BootInv, Lasting, BootFunds', UNCHANGED <<mine, pc, faults, files, keys, entry, clean>>,
         \A v \in Validator : balances'[v] >= balances[v],
         pc = "send" => (balances[mine.i] + mine.amount \in Required..Cap(late[mine.i]))'
  PROVE  BootInv'
<1>1. BootTypes'
  BY DEF BootInv, BootTypes, Lasting, Validator
<1>2. Tallied'
  BY TallyLasts DEF BootInv, BootProcess, SameTally
<1>3. PICK r, q : r = record /\ q = mine.registry
  OBVIOUS
<1>4. /\ UNCHANGED <<record, config, torn>> /\ record' = r /\ mine'.registry = q
      /\ (IsA(record, "Registry")' <=> IsA(r, "Registry")') /\ (HasCode(record)' <=> HasCode(r)')
      /\ (IsA(mine.registry, "Registry")' <=> IsA(q, "Registry")') /\ (HasCode(mine.registry)' <=> HasCode(q)')
      /\ Registered(record)' = Registered(r)'
  BY <1>3 DEF files, IsA, HasCode, Contract, Registered
<1>5. BootProcess'
  <2>1. pc = "register" => balances'[mine.i] >= Required
    <3> SUFFICES ASSUME pc = "register" PROVE balances'[mine.i] >= Required
      OBVIOUS
    <3>1. mine.i \in Validator /\ balances[mine.i] >= Required
      BY CountingKnows, BootstrapAssumption DEF BootInv, BootProcess, Counts, Validator, Counting
    <3>2. balances[mine.i] \in Nat /\ balances'[mine.i] \in Nat /\ Required \in Nat
      BY <3>1, BootstrapAssumption DEF BootInv, BootFunds, Required, Validator
    <3>3. QED  BY <3>1, <3>2
  <2>2. pc \in HasRegistry => IsA(mine.registry, "Registry")'
    BY <1>3, <1>4 DEF BootInv, BootProcess, Lasting
  <2>3. pc \in HasAddress => "registry" \in DOMAIN mine' /\ HasCode(mine.registry)'
    BY <1>3, <1>4 DEF BootInv, BootProcess, Lasting
  <2>4. "i" \in DOMAIN mine => IsA(mine.registry, "Registry")'
    BY <1>3, <1>4 DEF BootInv, BootProcess, Lasting
  <2>5. QED
    BY <2>1, <2>2, <2>3, <2>4 DEF BootInv, BootProcess, HasRegistry, HasAddress, Counting, Required, Extra
<1>6. Cleanly => Cleanly'
  <2>1. Registered(r) \subseteq Registered(r)' \/ ~IsA(r, "Registry")
    BY DEF Lasting
  <2>2. Registered(r) \subseteq Registered(r)'
    BY <2>1 DEF Registered
  <2>3. QED  BY <1>3, <1>4, <2>2 DEF Cleanly
<1>7. /\ HasCode(r) => HasCode(r)'
      /\ IsA(r, "Registry") => IsA(r, "Registry")' /\ Registered(r) \subseteq Registered(r)'
      /\ HasCode(r) /\ IsA(r, "Registry")' => IsA(r, "Registry")
  BY DEF Lasting
<1>8. CleanRunBootstraps => CleanRunBootstraps'
  <2> SUFFICES ASSUME CleanRunBootstraps, entry = "bootstrap", pc \in {"done", "failed"}, clean
               PROVE  CleanRunBootstraps'
    BY DEF CleanRunBootstraps
  <2>1. /\ HasCode(r)
        /\ pc = "done" => IsA(r, "Registry")
        /\ \A f \in ConfigFiles \ torn : config[f] = record
        /\ IsA(r, "Registry") =>
             \/ Cardinality(Registered(r)) >= N
             \/ \A v \in Validator :
                  keys[v] = "plain" /\ (\A w \in 1..v : keys[w] # "prefixed") => v \in Registered(r)
    BY <1>3 DEF CleanRunBootstraps
  <2>2. HasCode(record)' /\ (pc' = "done" => IsA(record, "Registry")')
    BY <1>4, <1>7, <2>1
  <2>3. IsA(record, "Registry")' =>
             \/ Cardinality(Registered(record))' >= N
             \/ \A v \in Validator :
                  keys[v] = "plain" /\ (\A w \in 1..v : keys[w] # "prefixed") => v \in Registered(record)'
    <3> SUFFICES ASSUME IsA(record, "Registry")'
                 PROVE  \/ Cardinality(Registered(record))' >= N
                        \/ \A v \in Validator :
                             keys[v] = "plain" /\ (\A w \in 1..v : keys[w] # "prefixed")
                               => v \in Registered(record)'
      OBVIOUS
    <3>1. IsA(r, "Registry") /\ Registered(r) \subseteq Registered(r)'
      BY <1>4, <1>7, <2>1
    <3>2. CASE Cardinality(Registered(r)) >= N
      <4>1. Cardinality(Registered(r)') >= N
        BY <3>1, <3>2, EnoughRegistered
      <4>2. QED  BY <1>4, <4>1
    <3>3. CASE \A v \in Validator :
                 keys[v] = "plain" /\ (\A w \in 1..v : keys[w] # "prefixed") => v \in Registered(r)
      BY <1>4, <3>1, <3>3
    <3>4. QED  BY <2>1, <3>1, <3>2, <3>3
  <2>4. QED  BY <1>4, <2>1, <2>2, <2>3 DEF CleanRunBootstraps, Validator
<1>9. BootRun'
  BY <1>6, <1>8 DEF BootInv, BootRun
<1>10. QED  BY <1>1, <1>2, <1>5, <1>9 DEF BootInv

LEMMA MineFundingInv ==
  ASSUME BootInv, MineFunding PROVE BootInv'
<1>1. PICK f \in pending :
        /\ balances' = [balances EXCEPT ![f.to] = @ + f.amount]
        /\ late' = [late EXCEPT ![f.to] = @ + 1]
        /\ pending' = pending \ {f}
        /\ UNCHANGED <<script, files, keys, entry, clean>>
  BY DEF MineFunding
<1>2. PICK v, x : v = f.to /\ x = f.amount
  OBVIOUS
<1>3. BootFunds /\ v \in Validator /\ x \in Nat /\ x <= Required + Extra /\ Required + Extra \in Nat
  <2>1. Required + Extra \in Nat
    BY Capped
  <2>2. QED  BY <1>2, <2>1 DEF BootInv, BootFunds
<1>4. /\ BootFunds' /\ balances'[v] = balances[v] + x
      /\ \A w \in Validator \ {v} : balances'[w] = balances[w] /\ late'[w] = late[w]
  BY <1>1, <1>2, <1>3, FundsArrive
<1>5. UNCHANGED <<chain, mine, pc, faults>>
  BY <1>1 DEF script
<1>6. Lasting
  BY <1>5, ChainStays DEF BootInv
<1>7. \A w \in Validator : balances[w] \in Nat /\ late[w] \in Nat
  BY DEF BootInv, BootFunds
<1>8. \A w \in Validator : balances'[w] >= balances[w]
  BY <1>3, <1>4, <1>7
<1>9. pc = "send" => balances'[mine.i] + mine.amount \in Required..Cap(late'[mine.i])
  <2> SUFFICES ASSUME pc = "send" PROVE balances'[mine.i] + mine.amount \in Required..Cap(late'[mine.i])
    OBVIOUS
  <2>1. mine.i \in Validator /\ mine.amount \in Nat /\ balances[mine.i] + mine.amount \in Required..Cap(late[mine.i])
    BY Capped, CountingKnows, BootstrapAssumption
    DEF BootInv, BootProcess, Counts, Validator, Counting, Required, Extra
  <2>2. /\ Cap(late[mine.i]) \in Nat /\ Cap(late[mine.i] + 1) = Cap(late[mine.i]) + (Required + Extra)
        /\ Required \in Nat
    BY <1>7, <2>1, Capped
  <2>3. CASE mine.i = v
    <3>1. late'[v] = late[v] + 1
      BY <1>1, <1>2, <1>3 DEF BootFunds
    <3>2. QED  BY <1>3, <1>4, <1>7, <2>1, <2>2, <2>3, <3>1
  <2>4. CASE mine.i # v
    BY <1>4, <2>1, <2>4
  <2>5. QED  BY <2>3, <2>4
<1>10. pc = "send" => (balances[mine.i] + mine.amount \in Required..Cap(late[mine.i]))'
  BY <1>5, <1>9 DEF Required, Extra, Cap
<1>11. QED  BY <1>1, <1>4, <1>5, <1>6, <1>8, <1>10, BootLasts

(* The account has what it had, and what is to be sent to it with it. *)
LEMMA OwedStays ==
  ASSUME BootInv, UNCHANGED <<mine, pc, money>>
  PROVE  /\ BootFunds' /\ \A v \in Validator : balances'[v] >= balances[v]
         /\ pc = "send" => (balances[mine.i] + mine.amount \in Required..Cap(late[mine.i]))'
<1>1. BootFunds' /\ \A v \in Validator : balances[v] \in Nat
  BY FundsStay DEF BootInv, BootFunds
<1>2. QED  BY <1>1 DEF money, BootInv, BootProcess, Required, Extra, Cap

LEMMA RegisterFromElsewhereInv ==
  ASSUME BootInv, RegisterFromElsewhere PROVE BootInv'
<1>1. PICK a \in DOMAIN chain, v \in {Outsider} \cup Validator :
        /\ chain[a].kind = "Registry" /\ chain' = [chain EXCEPT ![a].registered = @ \cup {v}]
        /\ UNCHANGED <<mine, pc, faults, files, keys, money, entry, clean>>
  BY DEF RegisterFromElsewhere
<1>2. IsA(a, "Registry") /\ v \in 1..N + 1
  BY <1>1, BootstrapAssumption DEF IsA, Contract, Outsider, Validator
<1>3. Lasting
  BY <1>1, <1>2, Enrolled DEF BootInv
<1>4. QED  BY <1>1, <1>3, OwedStays, BootLasts

LEMMA ResetChainInv ==
  ASSUME BootInv, ResetChain PROVE BootInv'
<1>1. /\ Fault /\ Watch /\ chain' \in {Genesis, <<Other, Other>>} /\ pc' = "idle" /\ DOMAIN mine' = {}
      /\ balances' = [v \in Validator |-> 0] /\ pending' = {} /\ late' = [v \in Validator |-> 0]
  BY NothingLearnt DEF ResetChain
<1>2. UNCHANGED <<keys, entry>> /\ faults' \in Nat /\ ~clean'
  BY <1>1, Noticed DEF BootInv
<1>3. chain' \in Seq(Registries)
  <2>1. [kind |-> "Nothing", registered |-> {}] \in Registries /\ Other \in Registries
    BY DEF Registries, Other
  <2>2. Genesis \in Seq(Registries) /\ <<Other, Other>> \in Seq(Registries)
    BY <2>1 DEF Genesis
  <2>3. QED  BY <1>1, <2>2
<1>4. BootTypes'
  BY <1>2, <1>3 DEF BootInv, BootTypes, Validator
<1>5. BootFunds'
  <2>1. Cap(0) \in Nat
    BY Capped
  <2>2. \A v \in Validator : balances'[v] = 0 /\ late'[v] = 0
    BY <1>1 DEF Validator
  <2>3. \A v \in Validator : balances'[v] <= Cap(late'[v])
    BY <2>1, <2>2
  <2>4. QED  BY <1>1, <2>3 DEF BootFunds, Validator, Required, Extra, Cap
<1>6. QED
  BY <1>1, <1>2, <1>4, <1>5 DEF BootInv, BootProcess, Tallied, BootRun, HasRegistry, HasAddress, Counting, Elsewhere

LEMMA BootStep == BootInv /\ [Next]_vars => BootInv'
<1> SUFFICES ASSUME BootInv, [Next]_vars PROVE BootInv'
  OBVIOUS
<1>1. CASE DeployRegistry \/ QuickDeploy \/ HardhatDeploy
  BY <1>1, BootDeployment DEF DeployRegistry, QuickDeploy, HardhatDeploy
<1>2. CASE SaveRecord \/ QuickSave
  BY <1>2, SaveRecordInv DEF SaveRecord, QuickSave
<1>3. CASE UpdateConfigFiles \/ QuickUpdate
  BY <1>3, UpdateConfigFilesInv DEF UpdateConfigFiles, QuickUpdate
<1>4. CASE UNCHANGED vars
  <2>1. UNCHANGED chain /\ UNCHANGED <<mine, pc, faults, files, keys, money, entry, clean>>
    BY <1>4 DEF vars, script
  <2>2. Lasting
    BY <2>1, ChainStays DEF BootInv
  <2>3. QED  BY <2>1, <2>2, OwedStays, BootLasts
<1>5. CASE StartBootstrap \/ StartQuick \/ StartHardhat
  BY <1>5, BootStarts
<1>6. CASE ReadRecord \/ CheckExisting \/ ExamineValidator \/ FundValidator
  BY <1>6, ReadRecordInv, CheckExistingInv, ExamineValidatorInv, FundValidatorInv
<1>7. CASE RejectPrefixedKey \/ RegisterValidator \/ ReportSummary
  BY <1>7, RejectPrefixedKeyInv, RegisterValidatorInv, ReportSummaryInv
<1>8. CASE CheckKnownAddresses \/ HardhatSave
  BY <1>8, ElsewhereInv
<1>9. CASE SendFunding \/ MineFunding \/ RegisterFromElsewhere \/ ResetChain
  BY <1>9, SendFundingInv, MineFundingInv, RegisterFromElsewhereInv, ResetChainInv
<1>10. QED
  BY <1>1, <1>2, <1>3, <1>4, <1>5, <1>6, <1>7, <1>8, <1>9 DEF Next, Bootstrap

LEMMA BootInitial == Init => BootInv
<1> SUFFICES ASSUME Init PROVE BootInv
  OBVIOUS
<1>1. /\ chain \in {Genesis, <<Registry>>} /\ pc = "idle" /\ faults = 0 /\ entry = "none" /\ DOMAIN mine = {}
      /\ keys \in [Validator -> {"plain", "prefixed", "invalid"}]
      /\ balances \in Endowments /\ pending = {} /\ late = [v \in Validator |-> 0]
  BY NothingLearnt DEF Init, ScriptInit
<1>2. chain \in Seq(Registries)
  <2>1. [kind |-> "Nothing", registered |-> {}] \in Registries
    BY DEF Registries
  <2>2. Genesis \in Seq(Registries)
    BY <2>1 DEF Genesis
  <2>3. <<Registry>> \in Seq(Registries)
    BY RegistryIsOne
  <2>4. QED  BY <1>1, <2>2, <2>3
<1>3. BootTypes
  BY <1>1, <1>2 DEF BootTypes
<1>4. BootFunds
  <2>1. balances \in [Validator -> Nat] /\ \A v \in Validator : balances[v] <= Required + Extra
    <3>1. balances \in [1..N -> 0..Stake] /\ Stake \in Nat
      BY <1>1, BootstrapAssumption
    <3>2. QED  BY <3>1 DEF Validator, Required, Extra
  <2>2. /\ Cap(0) \in Nat /\ Required + Extra <= Cap(0) /\ Required + Extra \in Nat
        /\ \A v \in Validator : late[v] = 0
    BY <1>1, Capped
  <2>3. \A v \in Validator : balances[v] <= Cap(late[v])
    BY <2>1, <2>2
  <2>4. QED  BY <1>1, <2>1, <2>3 DEF BootFunds
<1>5. QED
  BY <1>1, <1>3, <1>4 DEF BootInv, BootProcess, Tallied, BootRun, HasRegistry, HasAddress, Counting

LEMMA BootConsequences == BootInv => SummaryIsTrue /\ FundingDoesNotPileUp /\ CleanRunBootstraps
<1> SUFFICES ASSUME BootInv PROVE SummaryIsTrue /\ FundingDoesNotPileUp /\ CleanRunBootstraps
  OBVIOUS
<1>1. SummaryIsTrue
  BY DEF SummaryIsTrue, BootInv, Tallied, Below
<1>2. CleanRunBootstraps
  <2>1. CASE entry = "bootstrap" /\ clean
    BY <2>1 DEF BootInv, BootRun
  <2>2. CASE ~(entry = "bootstrap" /\ clean)
    BY <2>2 DEF CleanRunBootstraps
  <2>3. QED  BY <2>1, <2>2
<1>3. FundingDoesNotPileUp
  BY DEF FundingDoesNotPileUp, BootInv, BootFunds, Cap
<1>4. QED  BY <1>1, <1>2, <1>3
-----------------------------------------------------------------------------
(* Deployment records. *)

Tasks == {"dao", "chat", "transaction", "hash"}
Steps == [op : {"append", "copy", "replace", "sync"}, file : Artifacts!ListFiles \cup Artifacts!Configs]

LEMMA Programs ==
  /\ DOMAIN Artifacts!Program = Tasks
  /\ Artifacts!Program["dao"] = <<[op |-> "append", file |-> "history"], [op |-> "copy", file |-> "lib"],
       [op |-> "copy", file |-> "frontend"], [op |-> "sync", file |-> "genesis"],
       [op |-> "sync", file |-> "consensus"], [op |-> "sync", file |-> "env"]>>
  /\ Artifacts!Program["chat"] = <<[op |-> "append", file |-> "chatHistory"],
       [op |-> "replace", file |-> "chatFrontend"], [op |-> "sync", file |-> "genesis"],
       [op |-> "sync", file |-> "consensus"], [op |-> "sync", file |-> "env"]>>
  /\ Artifacts!Program["transaction"] = <<[op |-> "append", file |-> "transactions"]>>
  /\ Artifacts!Program["hash"] = <<[op |-> "append", file |-> "hashes"]>>
<1>1. PICK h \in Steps : h = [op |-> "append", file |-> "history"]
  BY DEF Steps, Artifacts!ListFiles, Artifacts!Configs
<1>2. PICK l \in Steps : l = [op |-> "copy", file |-> "lib"]
  BY DEF Steps, Artifacts!ListFiles, Artifacts!Configs
<1>3. PICK f \in Steps : f = [op |-> "copy", file |-> "frontend"]
  BY DEF Steps, Artifacts!ListFiles, Artifacts!Configs
<1>4. PICK g \in Steps : g = [op |-> "sync", file |-> "genesis"]
  BY DEF Steps, Artifacts!ListFiles, Artifacts!Configs
<1>5. PICK c \in Steps : c = [op |-> "sync", file |-> "consensus"]
  BY DEF Steps, Artifacts!ListFiles, Artifacts!Configs
<1>6. PICK e \in Steps : e = [op |-> "sync", file |-> "env"]
  BY DEF Steps, Artifacts!ListFiles, Artifacts!Configs
<1>7. PICK ch \in Steps : ch = [op |-> "append", file |-> "chatHistory"]
  BY DEF Steps, Artifacts!ListFiles, Artifacts!Configs
<1>8. PICK cf \in Steps : cf = [op |-> "replace", file |-> "chatFrontend"]
  BY DEF Steps, Artifacts!ListFiles, Artifacts!Configs
<1>9. <<h, l, f>> \o <<g, c, e>> = <<h, l, f, g, c, e>>
  <2>1. <<h, l, f>> \in Seq(Steps) /\ <<g, c, e>> \in Seq(Steps) /\ <<h, l, f, g, c, e>> \in Seq(Steps)
    OBVIOUS
  <2>2. Len(<<h, l, f>> \o <<g, c, e>>) = 6 /\ <<h, l, f>> \o <<g, c, e>> \in Seq(Steps)
    BY <2>1
  <2>3. \A i \in 1..6 : (<<h, l, f>> \o <<g, c, e>>)[i] = <<h, l, f, g, c, e>>[i]
    BY <2>1
  <2>4. QED  BY <2>1, <2>2, <2>3, SeqEqual
<1>10. <<ch, cf>> \o <<g, c, e>> = <<ch, cf, g, c, e>>
  <2>1. <<ch, cf>> \in Seq(Steps) /\ <<g, c, e>> \in Seq(Steps) /\ <<ch, cf, g, c, e>> \in Seq(Steps)
    OBVIOUS
  <2>2. Len(<<ch, cf>> \o <<g, c, e>>) = 5 /\ <<ch, cf>> \o <<g, c, e>> \in Seq(Steps)
    BY <2>1
  <2>3. \A i \in 1..5 : (<<ch, cf>> \o <<g, c, e>>)[i] = <<ch, cf, g, c, e>>[i]
    BY <2>1
  <2>4. QED  BY <2>1, <2>2, <2>3, SeqEqual
<1> QED
  BY <1>1, <1>2, <1>3, <1>4, <1>5, <1>6, <1>7, <1>8, <1>9, <1>10
     DEF Artifacts!Program, Artifacts!Do, Artifacts!SyncDeploymentArtifacts, Tasks

Entry == [task : Tasks, network : {"lcai_testnet_v2", "other"}]
ListFile == [state : {"array", "object", "torn"}, log : Seq(Nat)]
Addressing == UNION {[K -> Nat] : K \in SUBSET Artifacts!Keys}
ConfigFile == [state : {"text", "torn", "missing"}, addresses : Addressing]
Working ==
  [id : Nat \ {0}, at : Nat \ {0}, phase : {"read", "open", "fill"}, list : Seq(Nat),
   config : Addressing]

LEMMA NothingAddressed == Artifacts!NoAddresses \in Addressing /\ DOMAIN Artifacts!NoAddresses = {}
BY DEF Artifacts!NoAddresses, Addressing

Busy == Artifacts!Busy
TaskOf(l) == calls[logger[l].id].task

ArtTypes ==
  /\ calls \in Seq(Entry)
  /\ crashes \in Nat
  /\ lists \in [Artifacts!ListFiles -> ListFile]
  /\ configs \in [Artifacts!Configs -> ConfigFile]
  /\ logger \in [Loggers -> Working \cup {Artifacts!Idle}]
  /\ returned \subseteq DOMAIN calls
  /\ \A l \in Busy : /\ logger[l].id \in DOMAIN calls /\ logger[l].id \notin returned
                     /\ logger[l].at \in DOMAIN Artifacts!Program[TaskOf(l)]
  /\ \A l, m \in Busy : l # m => logger[l].id # logger[m].id

(* The place of a step in a program says what it does. *)
LEMMA Positions ==
  ASSUME NEW task \in Tasks, NEW n \in DOMAIN Artifacts!Program[task]
  PROVE  LET op == Artifacts!Program[task][n]
         IN /\ Len(Artifacts!Program[task]) \in Nat /\ n \in 1..Len(Artifacts!Program[task])
            /\ DOMAIN Artifacts!Program[task] = 1..Len(Artifacts!Program[task])
            /\ op.op = "append" <=> n = 1
            /\ op.op = "sync" => op.file \in Artifacts!Configs /\ task \in {"dao", "chat"}
            /\ op.op # "sync" => op.file \in Artifacts!ListFiles
            /\ op.op \in {"append", "copy", "replace", "sync"}
<1>1. CASE task = "dao"
  BY <1>1, Programs DEF Artifacts!Configs, Artifacts!ListFiles
<1>2. CASE task = "chat"
  BY <1>2, Programs DEF Artifacts!Configs, Artifacts!ListFiles
<1>3. CASE task \in {"transaction", "hash"}
  BY <1>3, Programs DEF Artifacts!Configs, Artifacts!ListFiles
<1>4. QED  BY <1>1, <1>2, <1>3 DEF Tasks

LEMMA BusyWork ==
  ASSUME ArtTypes, NEW l \in Busy
  PROVE  /\ l \in Loggers /\ logger[l] \in Working
         /\ calls[logger[l].id] \in Entry /\ TaskOf(l) \in Tasks
         /\ Artifacts!Called(l) = calls[logger[l].id]
         /\ Artifacts!Op(l) = Artifacts!Program[TaskOf(l)][logger[l].at]
<1>1. l \in Loggers /\ logger[l].phase # "idle"
  BY DEF Busy, Artifacts!Busy
<1>2. logger[l] \in Working
  BY <1>1 DEF ArtTypes, Artifacts!Idle
<1>3. logger[l].id \in DOMAIN calls
  BY DEF ArtTypes
<1>4. calls[logger[l].id] \in Entry
  BY <1>3 DEF ArtTypes
<1>5. QED  BY <1>1, <1>2, <1>4 DEF Entry, TaskOf, Artifacts!Called, Artifacts!Op

(* One logger's record changes. *)
Moved(l, r) ==
  /\ logger' = [logger EXCEPT ![l] = r]
  /\ logger'[l] = r /\ \A m \in Loggers \ {l} : logger'[m] = logger[m]
  /\ Busy' = IF r.phase = "idle" THEN Busy \ {l} ELSE Busy \cup {l}

LEMMA Moves ==
  ASSUME ArtTypes, NEW l \in Loggers, NEW r, logger' = [logger EXCEPT ![l] = r]
  PROVE  Moved(l, r)
BY DEF ArtTypes, Moved, Busy, Artifacts!Busy

LEMMA WorkTypes ==
  ASSUME ArtTypes, NEW l \in Busy, NEW r \in Working \cup {Artifacts!Idle}, Moved(l, r), UNCHANGED calls,
         crashes' \in Nat, lists' \in [Artifacts!ListFiles -> ListFile],
         configs' \in [Artifacts!Configs -> ConfigFile],
         r # Artifacts!Idle => /\ r.id = logger[l].id /\ returned' = returned
                               /\ r.at \in DOMAIN Artifacts!Program[TaskOf(l)],
         returned' \subseteq returned \cup {logger[l].id}
  PROVE  ArtTypes'
<1>1. r.phase = "idle" <=> r = Artifacts!Idle
  BY DEF Working, Artifacts!Idle
<1>2. l \in Loggers /\ Busy \subseteq Loggers
  BY DEF Busy, Artifacts!Busy
<1>3. logger' \in [Loggers -> Working \cup {Artifacts!Idle}]
  BY DEF ArtTypes, Moved
<1>4. \A m \in Busy' : /\ logger'[m].id = logger[m].id /\ m \in Busy
                       /\ m # l => logger'[m] = logger[m]
                       /\ logger'[m].at \in DOMAIN Artifacts!Program[TaskOf(m)]
  BY <1>1, <1>2 DEF Moved, ArtTypes
<1>5. ASSUME NEW m \in Busy'
      PROVE  /\ logger'[m].id \in DOMAIN calls' /\ logger'[m].id \notin returned'
             /\ logger'[m].at \in DOMAIN Artifacts!Program[TaskOf(m)']
  <2>1. TaskOf(m)' = TaskOf(m) /\ logger[m].id \in DOMAIN calls /\ logger[m].id \notin returned
    BY <1>4 DEF TaskOf, ArtTypes
  <2>2. r = Artifacts!Idle => m # l
    BY <1>1 DEF Moved
  <2>3. m # l => logger[m].id # logger[l].id
    BY <1>4 DEF ArtTypes
  <2>4. QED  BY <1>4, <2>1, <2>2, <2>3
<1>6. \A k, m \in Busy' : k # m => logger'[k].id # logger'[m].id
  BY <1>4 DEF ArtTypes
<1>7. QED
  BY <1>3, <1>5, <1>6 DEF ArtTypes

Onward(l) == [logger[l] EXCEPT !.at = @ + 1, !.phase = "read"]

LEMMA Proceeds ==
  ASSUME ArtTypes, NEW l \in Busy, Artifacts!Proceed(l)
  PROVE  \/ /\ logger[l].at = Len(Artifacts!Program[TaskOf(l)])
            /\ Moved(l, Artifacts!Idle) /\ returned' = returned \cup {logger[l].id}
         \/ /\ logger[l].at < Len(Artifacts!Program[TaskOf(l)])
            /\ Moved(l, Onward(l)) /\ UNCHANGED returned
<1>1. l \in Loggers /\ logger[l] \in Working /\ TaskOf(l) \in Tasks /\ Artifacts!Called(l).task = TaskOf(l)
  BY BusyWork DEF TaskOf
<1>2. logger[l].at \in DOMAIN Artifacts!Program[TaskOf(l)]
  BY DEF ArtTypes
<1>3. logger[l].at \in 1..Len(Artifacts!Program[TaskOf(l)]) /\ Len(Artifacts!Program[TaskOf(l)]) \in Nat
  BY <1>1, <1>2, Positions
<1>4. CASE logger[l].at = Len(Artifacts!Program[TaskOf(l)])
  <2>1. logger' = [logger EXCEPT ![l] = Artifacts!Idle] /\ returned' = returned \cup {logger[l].id}
    BY <1>1, <1>4 DEF Artifacts!Proceed, Artifacts!Leave
  <2>2. QED  BY <1>1, <1>4, <2>1, Moves
<1>5. CASE logger[l].at # Len(Artifacts!Program[TaskOf(l)])
  <2>1. /\ logger' = [logger EXCEPT ![l].at = @ + 1, ![l].phase = "read"] /\ UNCHANGED returned
    BY <1>1, <1>5 DEF Artifacts!Proceed
  <2>2. logger' = [logger EXCEPT ![l] = Onward(l)]
    BY <1>1, <2>1 DEF ArtTypes, Working, Onward
  <2>3. Moved(l, Onward(l))
    BY <1>1, <2>2, Moves
  <2>4. logger[l].at < Len(Artifacts!Program[TaskOf(l)])
    BY <1>1, <1>3, <1>5 DEF Working
  <2>5. QED  BY <2>1, <2>3, <2>4
<1>6. QED  BY <1>4, <1>5

(* The other ways a logger's record changes. *)
Entered(l, p)    == [logger[l] EXCEPT !.phase = p]
WithList(l, s)   == [logger[l] EXCEPT !.phase = "open", !.list = s]
WithConfig(l, c) == [logger[l] EXCEPT !.phase = "open", !.config = c]

LEMMA Edits ==
  ASSUME ArtTypes, NEW l \in Busy
  PROVE  /\ \A p \in {"read", "open", "fill"} :
              Artifacts!Enter(l, p) => Entered(l, p) \in Working /\ Moved(l, Entered(l, p))
         /\ \A s \in Seq(Nat) :
              logger' = [logger EXCEPT ![l].phase = "open", ![l].list = s] =>
                WithList(l, s) \in Working /\ Moved(l, WithList(l, s))
         /\ \A c \in Addressing :
              logger' = [logger EXCEPT ![l].phase = "open", ![l].config = c] =>
                WithConfig(l, c) \in Working /\ Moved(l, WithConfig(l, c))
         /\ Artifacts!Leave(l) => Moved(l, Artifacts!Idle)
<1>1. l \in Loggers /\ logger[l] \in Working
  BY BusyWork
<1>2. ASSUME NEW p \in {"read", "open", "fill"}, Artifacts!Enter(l, p)
      PROVE  Entered(l, p) \in Working /\ Moved(l, Entered(l, p))
  <2>1. logger' = [logger EXCEPT ![l] = Entered(l, p)] /\ Entered(l, p) \in Working
    BY <1>1, <1>2 DEF ArtTypes, Working, Entered, Artifacts!Enter
  <2>2. QED  BY <1>1, <2>1, Moves
<1>3. ASSUME NEW s \in Seq(Nat), logger' = [logger EXCEPT ![l].phase = "open", ![l].list = s]
      PROVE  WithList(l, s) \in Working /\ Moved(l, WithList(l, s))
  <2>1. logger' = [logger EXCEPT ![l] = WithList(l, s)] /\ WithList(l, s) \in Working
    BY <1>1, <1>3 DEF ArtTypes, Working, WithList
  <2>2. QED  BY <1>1, <2>1, Moves
<1>4. ASSUME NEW c \in Addressing, logger' = [logger EXCEPT ![l].phase = "open", ![l].config = c]
      PROVE  WithConfig(l, c) \in Working /\ Moved(l, WithConfig(l, c))
  <2>1. logger' = [logger EXCEPT ![l] = WithConfig(l, c)] /\ WithConfig(l, c) \in Working
    BY <1>1, <1>4 DEF ArtTypes, Working, WithConfig
  <2>2. QED  BY <1>1, <2>1, Moves
<1>5. QED  BY <1>1, <1>2, <1>3, <1>4, Moves DEF Artifacts!Leave

Fresh == [id |-> Len(calls) + 1, at |-> 1, phase |-> "read", list |-> <<>>, config |-> Artifacts!NoAddresses]

LEMMA CallDoes ==
  ASSUME ArtTypes, NEW l \in Loggers, Artifacts!Call(l)
  PROVE  /\ ArtTypes'
         /\ l \notin Busy /\ Moved(l, Fresh) /\ Fresh \in Working
         /\ Len(calls) \in Nat /\ DOMAIN calls = 1..Len(calls)
         /\ DOMAIN calls' = DOMAIN calls \cup {Len(calls) + 1}
         /\ \A i \in DOMAIN calls : calls'[i] = calls[i]
         /\ \A m \in Busy : TaskOf(m)' = TaskOf(m) /\ logger'[m] = logger[m]
         /\ alone' = (alone /\ Busy = {})
         /\ UNCHANGED <<lists, configs, crashes, returned>>
<1>1. l \notin Busy /\ UNCHANGED <<lists, configs, crashes, returned>> /\ alone' = (alone /\ Busy = {})
  BY DEF Artifacts!Call, Busy
<1>2. PICK e \in Entry : calls' = Append(calls, e)
  <2>1. PICK task \in DOMAIN Artifacts!Program :
          \E network \in IF Artifacts!NormalizedAddresses(task) = {} THEN {"other"} ELSE {"lcai_testnet_v2", "other"} :
             calls' = Append(calls, [task |-> task, network |-> network])
    BY DEF Artifacts!Call
  <2>2. PICK network \in {"lcai_testnet_v2", "other"} : calls' = Append(calls, [task |-> task, network |-> network])
    BY <2>1
  <2>3. [task |-> task, network |-> network] \in Entry
    BY Programs DEF Entry
  <2>4. QED  BY <2>2, <2>3
<1>3. logger' = [logger EXCEPT ![l] = Fresh]
  BY DEF Artifacts!Call, Fresh
<1>4. Moved(l, Fresh)
  BY <1>3, Moves
<1>5. calls \in Seq(Entry) /\ Len(calls) \in Nat /\ DOMAIN calls = 1..Len(calls)
  BY DEF ArtTypes
<1>6. /\ calls' \in Seq(Entry) /\ DOMAIN calls' = DOMAIN calls \cup {Len(calls) + 1}
      /\ calls'[Len(calls) + 1] = e /\ \A i \in DOMAIN calls : calls'[i] = calls[i]
  BY <1>2, <1>5
<1>7. Artifacts!NoAddresses \in Addressing
  BY NothingAddressed
<1>8. Fresh \in Working
  BY <1>5, <1>7 DEF Fresh, Working
<1>9. /\ Busy' = Busy \cup {l} /\ logger'[l] = Fresh /\ \A m \in Busy : logger'[m] = logger[m]
      /\ Busy \subseteq Loggers
  BY <1>1, <1>4 DEF Moved, Fresh, Busy, Artifacts!Busy
<1>10. \A m \in Busy : TaskOf(m)' = TaskOf(m) /\ logger[m].id \in DOMAIN calls /\ logger[m].id \notin returned
  BY <1>6, <1>9 DEF TaskOf, ArtTypes
<1>11. TaskOf(l)' = e.task /\ 1 \in DOMAIN Artifacts!Program[e.task]
  BY <1>6, <1>9, Programs DEF TaskOf, Fresh, Entry, Tasks
<1>12. ArtTypes'
  <2>1. logger' \in [Loggers -> Working \cup {Artifacts!Idle}]
    BY <1>3, <1>8 DEF ArtTypes
  <2>2. \A m \in Busy' : /\ logger'[m].id \in DOMAIN calls' /\ logger'[m].id \notin returned'
                         /\ logger'[m].at \in DOMAIN Artifacts!Program[TaskOf(m)']
    <3>1. ASSUME NEW m \in Busy PROVE logger'[m].at \in DOMAIN Artifacts!Program[TaskOf(m)']
      BY <1>9, <1>10 DEF ArtTypes
    <3>2. Len(calls) + 1 \notin DOMAIN calls /\ Fresh.id = Len(calls) + 1 /\ Fresh.at = 1
      BY <1>5 DEF Fresh
    <3>3. logger'[l].id \in DOMAIN calls' /\ logger'[l].id \notin returned'
      BY <1>1, <1>6, <1>9, <3>2 DEF ArtTypes
    <3>4. QED  BY <1>1, <1>6, <1>9, <1>10, <1>11, <3>1, <3>2, <3>3
  <2>3. \A k, m \in Busy' : k # m => logger'[k].id # logger'[m].id
    BY <1>5, <1>9, <1>10 DEF ArtTypes, Fresh
  <2>4. QED  BY <1>1, <1>6, <2>1, <2>2, <2>3 DEF ArtTypes
<1>13. QED  BY <1>1, <1>4, <1>5, <1>6, <1>8, <1>9, <1>10, <1>12

(* The file that a logger is at. *)
FileOf(l) == Artifacts!Program[TaskOf(l)][logger[l].at].file
OpOf(l)   == Artifacts!Program[TaskOf(l)][logger[l].at].op
IdOf(l)   == logger[l].id

LEMMA AtFile ==
  ASSUME ArtTypes, NEW l \in Busy
  PROVE  /\ Artifacts!Op(l).file = FileOf(l) /\ Artifacts!Op(l).op = OpOf(l)
         /\ OpOf(l) \in {"append", "copy", "replace", "sync"}
         /\ OpOf(l) = "append" <=> logger[l].at = 1
         /\ OpOf(l) = "sync" => FileOf(l) \in Artifacts!Configs /\ TaskOf(l) \in {"dao", "chat"}
         /\ OpOf(l) # "sync" => FileOf(l) \in Artifacts!ListFiles /\ lists[FileOf(l)] \in ListFile
         /\ OpOf(l) = "sync" => configs[FileOf(l)] \in ConfigFile
<1>1. TaskOf(l) \in Tasks /\ logger[l].at \in DOMAIN Artifacts!Program[TaskOf(l)]
  BY BusyWork DEF ArtTypes
<1>2. Artifacts!Op(l).file = FileOf(l) /\ Artifacts!Op(l).op = OpOf(l)
  BY BusyWork DEF FileOf, OpOf
<1>3. /\ OpOf(l) = "append" <=> logger[l].at = 1
      /\ OpOf(l) = "sync" => FileOf(l) \in Artifacts!Configs /\ TaskOf(l) \in {"dao", "chat"}
      /\ OpOf(l) # "sync" => FileOf(l) \in Artifacts!ListFiles
      /\ OpOf(l) \in {"append", "copy", "replace", "sync"}
  BY <1>1, Positions DEF FileOf, OpOf
<1>4. QED  BY <1>2, <1>3 DEF ArtTypes

LEMMA ReadListDoes ==
  ASSUME ArtTypes, NEW l \in Busy, Artifacts!ReadList(l)
  PROVE  /\ ArtTypes' /\ UNCHANGED <<lists, configs, calls, crashes, alone, returned>>
         /\ OpOf(l) = "append" /\ logger[l].phase = "read"
         /\ LET s == Append(lists[FileOf(l)].log, IdOf(l))
            IN \/ /\ lists[FileOf(l)].state = "array" \/ (lists[FileOf(l)].state = "torn" /\ FileOf(l) # "hashes")
                  /\ Moved(l, WithList(l, s)) /\ WithList(l, s) \in Working
               \/ /\ lists[FileOf(l)].state = "object" \/ (lists[FileOf(l)].state = "torn" /\ FileOf(l) = "hashes")
                  /\ Moved(l, Artifacts!Idle)
<1> DEFINE s == Append(lists[FileOf(l)].log, IdOf(l))
<1>1. /\ UNCHANGED <<lists, configs, calls, crashes, alone, returned>>
      /\ OpOf(l) = "append" /\ logger[l].phase = "read"
  BY AtFile DEF Artifacts!ReadList, Artifacts!At
<1>2. l \in Loggers /\ logger[l] \in Working /\ lists[FileOf(l)] \in ListFile /\ FileOf(l) \in Artifacts!ListFiles
  BY <1>1, BusyWork, AtFile
<1>3. s \in Seq(Nat)
  BY <1>2 DEF Working, ListFile, IdOf
<1>4. \/ /\ lists[FileOf(l)].state = "array" \/ (lists[FileOf(l)].state = "torn" /\ FileOf(l) # "hashes")
         /\ logger' = [logger EXCEPT ![l].phase = "open", ![l].list = s]
      \/ /\ lists[FileOf(l)].state = "object" \/ (lists[FileOf(l)].state = "torn" /\ FileOf(l) = "hashes")
         /\ Artifacts!Leave(l)
  BY AtFile DEF Artifacts!ReadList, Artifacts!Appended, IdOf
<1> HIDE DEF s
<1>5. \/ /\ lists[FileOf(l)].state = "array" \/ (lists[FileOf(l)].state = "torn" /\ FileOf(l) # "hashes")
         /\ Moved(l, WithList(l, s)) /\ WithList(l, s) \in Working
      \/ /\ lists[FileOf(l)].state = "object" \/ (lists[FileOf(l)].state = "torn" /\ FileOf(l) = "hashes")
         /\ Moved(l, Artifacts!Idle)
  BY <1>3, <1>4, Edits
<1>6. WithList(l, s).id = logger[l].id /\ WithList(l, s).at = logger[l].at
  BY <1>2 DEF WithList, Working
<1>7. ArtTypes'
  <2>1. /\ crashes' \in Nat /\ lists' \in [Artifacts!ListFiles -> ListFile]
        /\ configs' \in [Artifacts!Configs -> ConfigFile] /\ UNCHANGED calls
        /\ UNCHANGED returned /\ returned' \subseteq returned \cup {logger[l].id}
        /\ logger[l].at \in DOMAIN Artifacts!Program[TaskOf(l)]
    BY <1>1 DEF ArtTypes
  <2>2. ASSUME Moved(l, WithList(l, s)), WithList(l, s) \in Working PROVE ArtTypes'
    BY <1>6, <2>1, <2>2, WorkTypes
  <2>3. ASSUME Moved(l, Artifacts!Idle) PROVE ArtTypes'
    BY <2>1, <2>3, WorkTypes
  <2>4. QED  BY <1>5, <2>2, <2>3
<1>8. QED  BY <1>1, <1>5, <1>7 DEF s

LEMMA SkipReadingDoes ==
  ASSUME ArtTypes, NEW l \in Busy, Artifacts!SkipReading(l)
  PROVE  /\ ArtTypes' /\ UNCHANGED <<lists, configs, calls, crashes, alone, returned>>
         /\ OpOf(l) \in {"copy", "replace"} /\ logger[l].phase = "read"
         /\ LET s == IF OpOf(l) = "replace" THEN <<IdOf(l)>> ELSE logger[l].list
            IN Moved(l, WithList(l, s)) /\ WithList(l, s) \in Working
<1> DEFINE s == IF OpOf(l) = "replace" THEN <<IdOf(l)>> ELSE logger[l].list
<1>1. /\ UNCHANGED <<lists, configs, calls, crashes, alone, returned>>
      /\ OpOf(l) \in {"copy", "replace"} /\ logger[l].phase = "read"
      /\ logger' = [logger EXCEPT ![l].phase = "open", ![l].list = s]
  BY AtFile DEF Artifacts!SkipReading, Artifacts!At, Artifacts!Written, IdOf
<1>2. logger[l] \in Working /\ s \in Seq(Nat)
  BY BusyWork DEF Working, IdOf
<1> HIDE DEF s
<1>3. WithList(l, s).id = logger[l].id /\ WithList(l, s).at = logger[l].at
  BY <1>2 DEF WithList, Working
<1>4. Moved(l, WithList(l, s)) /\ WithList(l, s) \in Working
  BY <1>1, <1>2, Edits
<1>5. ArtTypes'
  <2>1. /\ crashes' \in Nat /\ lists' \in [Artifacts!ListFiles -> ListFile]
        /\ configs' \in [Artifacts!Configs -> ConfigFile] /\ UNCHANGED calls
        /\ UNCHANGED returned /\ returned' \subseteq returned \cup {logger[l].id}
        /\ logger[l].at \in DOMAIN Artifacts!Program[TaskOf(l)]
    BY <1>1 DEF ArtTypes
  <2>2. QED  BY <1>3, <1>4, <2>1, WorkTypes
<1>6. QED  BY <1>1, <1>4, <1>5 DEF s

LEMMA CrashDoes ==
  ASSUME ArtTypes, NEW l \in Loggers, Artifacts!Crash(l)
  PROVE  /\ ArtTypes' /\ UNCHANGED <<lists, configs, calls, alone, returned>>
         /\ l \in Busy /\ Moved(l, Artifacts!Idle) /\ crashes' = crashes + 1
<1>1. /\ l \in Busy /\ crashes' = crashes + 1 /\ Artifacts!Leave(l)
      /\ UNCHANGED <<lists, configs, calls, alone, returned>>
  BY DEF Artifacts!Crash, Busy
<1>2. Moved(l, Artifacts!Idle)
  BY <1>1, Edits
<1>3. ArtTypes'
  <2>1. /\ crashes' \in Nat /\ lists' \in [Artifacts!ListFiles -> ListFile]
        /\ configs' \in [Artifacts!Configs -> ConfigFile] /\ UNCHANGED calls
        /\ returned' \subseteq returned \cup {logger[l].id}
    BY <1>1 DEF ArtTypes
  <2>2. QED  BY <1>1, <1>2, <2>1, WorkTypes
<1>4. QED  BY <1>1, <1>2, <1>3

(* What Proceed does. *)
Advanced(l) ==
  \/ /\ logger[l].at = Len(Artifacts!Program[TaskOf(l)])
     /\ Moved(l, Artifacts!Idle) /\ returned' = returned \cup {logger[l].id}
  \/ /\ logger[l].at < Len(Artifacts!Program[TaskOf(l)])
     /\ Moved(l, Onward(l)) /\ UNCHANGED returned

LEMMA Advances ==
  ASSUME ArtTypes, NEW l \in Busy, Artifacts!Proceed(l), UNCHANGED <<calls, crashes>>,
         lists' \in [Artifacts!ListFiles -> ListFile], configs' \in [Artifacts!Configs -> ConfigFile]
  PROVE  ArtTypes' /\ Advanced(l)
<1>1. logger[l] \in Working /\ logger[l].at \in DOMAIN Artifacts!Program[TaskOf(l)] /\ TaskOf(l) \in Tasks
  BY BusyWork DEF ArtTypes
<1>2. /\ DOMAIN Artifacts!Program[TaskOf(l)] = 1..Len(Artifacts!Program[TaskOf(l)])
      /\ Len(Artifacts!Program[TaskOf(l)]) \in Nat
  BY <1>1, Positions
<1>3. Advanced(l)
  BY Proceeds DEF Advanced
<1>4. crashes' \in Nat /\ UNCHANGED calls
  BY DEF ArtTypes
<1>5. CASE Moved(l, Artifacts!Idle) /\ returned' = returned \cup {logger[l].id}
  BY <1>4, <1>5, <1>3, WorkTypes
<1>6. CASE logger[l].at < Len(Artifacts!Program[TaskOf(l)]) /\ Moved(l, Onward(l)) /\ UNCHANGED returned
  <2>1. /\ Onward(l) \in Working /\ Onward(l).id = logger[l].id /\ Onward(l).at = logger[l].at + 1
        /\ logger[l].at \in Nat
    <3>1. logger[l].at \in Nat /\ logger[l].at + 1 \in Nat \ {0}
      BY <1>1 DEF Working
    <3>2. [logger[l] EXCEPT !.at = logger[l].at + 1, !.phase = "read"] \in Working
      BY <1>1, <3>1 DEF Working
    <3>3. Onward(l).id = logger[l].id /\ Onward(l).at = logger[l].at + 1
      BY <1>1 DEF Onward, Working
    <3>4. QED  BY <3>1, <3>2, <3>3 DEF Onward
  <2>2. Onward(l).at \in DOMAIN Artifacts!Program[TaskOf(l)]
    BY <1>1, <1>2, <1>6, <2>1
  <2>3. returned' = returned /\ returned' \subseteq returned \cup {logger[l].id} /\ Moved(l, Onward(l))
    BY <1>6
  <2>4. QED  BY <1>3, <1>4, <2>1, <2>2, <2>3, WorkTypes
<1>7. QED  BY <1>3, <1>5, <1>6 DEF Advanced

LEMMA Entering ==
  ASSUME ArtTypes, NEW l \in Busy, NEW p \in {"read", "open", "fill"}, Artifacts!Enter(l, p),
         UNCHANGED <<calls, crashes, returned>>,
         lists' \in [Artifacts!ListFiles -> ListFile], configs' \in [Artifacts!Configs -> ConfigFile]
  PROVE  ArtTypes' /\ Moved(l, Entered(l, p)) /\ Entered(l, p) \in Working
<1>1. logger[l] \in Working /\ logger[l].at \in DOMAIN Artifacts!Program[TaskOf(l)]
  BY BusyWork DEF ArtTypes
<1>2. Entered(l, p) \in Working /\ Moved(l, Entered(l, p))
  BY Edits
<1>3. Entered(l, p).id = logger[l].id /\ Entered(l, p).at = logger[l].at
  BY <1>1 DEF Entered, Working
<1>4. crashes' \in Nat /\ returned' = returned /\ returned' \subseteq returned \cup {logger[l].id}
  BY DEF ArtTypes
<1>5. QED  BY <1>1, <1>2, <1>3, <1>4, WorkTypes

LEMMA OpenListDoes ==
  ASSUME ArtTypes, NEW l \in Busy, Artifacts!OpenList(l)
  PROVE  /\ ArtTypes' /\ UNCHANGED <<configs, calls, crashes, alone, returned>>
         /\ OpOf(l) # "sync" /\ logger[l].phase = "open"
         /\ lists' = [lists EXCEPT ![FileOf(l)] = Artifacts!Torn]
         /\ Moved(l, Entered(l, "fill")) /\ Entered(l, "fill") \in Working
<1>1. /\ UNCHANGED <<configs, calls, crashes, alone, returned>>
      /\ OpOf(l) # "sync" /\ logger[l].phase = "open"
      /\ lists' = [lists EXCEPT ![FileOf(l)] = Artifacts!Torn] /\ Artifacts!Enter(l, "fill")
  BY AtFile DEF Artifacts!OpenList, Artifacts!At
<1>2. Artifacts!Torn \in ListFile
  BY DEF Artifacts!Torn, ListFile
<1>3. lists' \in [Artifacts!ListFiles -> ListFile] /\ configs' \in [Artifacts!Configs -> ConfigFile]
  BY <1>1, <1>2 DEF ArtTypes
<1>4. QED  BY <1>1, <1>3, Entering

LEMMA FillListDoes ==
  ASSUME ArtTypes, NEW l \in Busy, Artifacts!FillList(l)
  PROVE  /\ ArtTypes' /\ UNCHANGED <<configs, calls, crashes, alone>>
         /\ OpOf(l) # "sync" /\ logger[l].phase = "fill"
         /\ lists' = [lists EXCEPT ![FileOf(l)] = Artifacts!Listing(logger[l].list)]
         /\ Advanced(l)
<1>1. /\ UNCHANGED <<configs, calls, crashes, alone>>
      /\ OpOf(l) # "sync" /\ logger[l].phase = "fill"
      /\ lists' = [lists EXCEPT ![FileOf(l)] = Artifacts!Listing(logger[l].list)] /\ Artifacts!Proceed(l)
  BY AtFile DEF Artifacts!FillList, Artifacts!At
<1>2. Artifacts!Listing(logger[l].list) \in ListFile
  BY BusyWork DEF Artifacts!Listing, ListFile, Working
<1>3. lists' \in [Artifacts!ListFiles -> ListFile] /\ configs' \in [Artifacts!Configs -> ConfigFile]
  BY <1>1, <1>2 DEF ArtTypes
<1>4. QED  BY <1>1, <1>3, Advances

LEMMA OpenConfigDoes ==
  ASSUME ArtTypes, NEW l \in Busy, Artifacts!OpenConfig(l)
  PROVE  /\ ArtTypes' /\ UNCHANGED <<lists, calls, crashes, alone, returned>>
         /\ OpOf(l) = "sync" /\ logger[l].phase = "open"
         /\ configs' = [configs EXCEPT ![FileOf(l)] = [state |-> "torn", addresses |-> Artifacts!NoAddresses]]
         /\ Moved(l, Entered(l, "fill")) /\ Entered(l, "fill") \in Working
<1>1. /\ UNCHANGED <<lists, calls, crashes, alone, returned>>
      /\ OpOf(l) = "sync" /\ logger[l].phase = "open"
      /\ configs' = [configs EXCEPT ![FileOf(l)] = [state |-> "torn", addresses |-> Artifacts!NoAddresses]]
      /\ Artifacts!Enter(l, "fill")
  BY AtFile DEF Artifacts!OpenConfig, Artifacts!At
<1>2. [state |-> "torn", addresses |-> Artifacts!NoAddresses] \in ConfigFile
  BY NothingAddressed DEF ConfigFile
<1>3. lists' \in [Artifacts!ListFiles -> ListFile] /\ configs' \in [Artifacts!Configs -> ConfigFile]
  BY <1>1, <1>2 DEF ArtTypes
<1>4. QED  BY <1>1, <1>3, Entering

LEMMA FillConfigDoes ==
  ASSUME ArtTypes, NEW l \in Busy, Artifacts!FillConfig(l)
  PROVE  /\ ArtTypes' /\ UNCHANGED <<lists, calls, crashes, alone>>
         /\ OpOf(l) = "sync" /\ logger[l].phase = "fill"
         /\ configs' = [configs EXCEPT ![FileOf(l)] = [state |-> "text", addresses |-> logger[l].config]]
         /\ Advanced(l)
<1>1. /\ UNCHANGED <<lists, calls, crashes, alone>>
      /\ OpOf(l) = "sync" /\ logger[l].phase = "fill"
      /\ configs' = [configs EXCEPT ![FileOf(l)] = [state |-> "text", addresses |-> logger[l].config]]
      /\ Artifacts!Proceed(l)
  BY AtFile DEF Artifacts!FillConfig, Artifacts!At
<1>2. [state |-> "text", addresses |-> logger[l].config] \in ConfigFile
  BY BusyWork DEF ConfigFile, Working
<1>3. lists' \in [Artifacts!ListFiles -> ListFile] /\ configs' \in [Artifacts!Configs -> ConfigFile]
  BY <1>1, <1>2 DEF ArtTypes
<1>4. QED  BY <1>1, <1>3, Advances

IsSynced(l) == Artifacts!IsSynced(calls[logger[l].id].network)
Addressed(l, C) == Artifacts!Replaced(l, FileOf(l), C)

(* What is written is an addressing again, with the keys that can be given.  *)
LEMMA Addressings ==
  ASSUME ArtTypes, NEW l \in Busy, OpOf(l) = "sync"
  PROVE  LET old == configs[FileOf(l)].addresses
             c == Addressed(l, old)
             given == Artifacts!NormalizedAddresses(TaskOf(l))
         IN /\ c \in Addressing /\ DOMAIN c \subseteq Artifacts!Keys
            /\ FileOf(l) # "consensus" => DOMAIN c = DOMAIN old \cup given
            /\ \A k \in DOMAIN c : /\ k \in given => c[k] = logger[l].id
                                   /\ k \notin given => k \in DOMAIN old /\ c[k] = old[k]
<1> DEFINE old == configs[FileOf(l)].addresses
           c == Addressed(l, old)
           given == Artifacts!NormalizedAddresses(TaskOf(l))
<1>1. old \in Addressing /\ logger[l].id \in Nat /\ Artifacts!Called(l).task = TaskOf(l)
  BY AtFile, BusyWork DEF ConfigFile, Working, TaskOf
<1>2. PICK K \in SUBSET Artifacts!Keys : old \in [K -> Nat]
  BY <1>1 DEF Addressing
<1>3. given \subseteq Artifacts!Keys
  BY DEF Artifacts!NormalizedAddresses, Artifacts!Keys
<1> DEFINE D == IF FileOf(l) = "consensus" THEN DOMAIN old ELSE DOMAIN old \cup given
<1>4. c = [k \in D |-> IF k \in given THEN logger[l].id ELSE old[k]]
  BY <1>1 DEF Addressed, Artifacts!Replaced
<1> HIDE DEF c, given, old
<1>5. D \in SUBSET Artifacts!Keys /\ c \in [D -> Nat]
  BY <1>1, <1>2, <1>3, <1>4
<1>6. c \in Addressing
  BY <1>5 DEF Addressing
<1>7. QED  BY <1>2, <1>4, <1>5, <1>6 DEF c, given, old

LEMMA ReadConfigDoes ==
  ASSUME ArtTypes, NEW l \in Busy, Artifacts!ReadConfig(l)
  PROVE  /\ ArtTypes' /\ UNCHANGED <<lists, configs, calls, crashes, alone>>
         /\ OpOf(l) = "sync" /\ logger[l].phase = "read"
         /\ \/ /\ ~IsSynced(l) \/ Artifacts!Skipped(FileOf(l))
               /\ Advanced(l)
            \/ /\ IsSynced(l) /\ ~Artifacts!Skipped(FileOf(l))
               /\ LET c == Addressed(l, configs[FileOf(l)].addresses)
                  IN Moved(l, WithConfig(l, c)) /\ WithConfig(l, c) \in Working
               /\ UNCHANGED returned
<1> DEFINE c == Addressed(l, configs[FileOf(l)].addresses)
<1>1. /\ UNCHANGED <<lists, configs, calls, crashes, alone>>
      /\ OpOf(l) = "sync" /\ logger[l].phase = "read"
      /\ \/ /\ ~IsSynced(l) \/ Artifacts!Skipped(FileOf(l))
            /\ Artifacts!Proceed(l)
         \/ /\ IsSynced(l) /\ ~Artifacts!Skipped(FileOf(l))
            /\ logger' = [logger EXCEPT ![l].phase = "open", ![l].config = c]
            /\ UNCHANGED returned
  BY AtFile DEF Artifacts!ReadConfig, Artifacts!At, IsSynced, Artifacts!Called, Addressed
<1>2. c \in Addressing
  BY <1>1, Addressings
<1> HIDE DEF c
<1>3. logger[l] \in Working /\ logger[l].at \in DOMAIN Artifacts!Program[TaskOf(l)]
  BY BusyWork DEF ArtTypes
<1>4. WithConfig(l, c).id = logger[l].id /\ WithConfig(l, c).at = logger[l].at
  BY <1>3 DEF WithConfig, Working
<1>5. /\ lists' \in [Artifacts!ListFiles -> ListFile] /\ configs' \in [Artifacts!Configs -> ConfigFile]
      /\ crashes' \in Nat
  BY <1>1 DEF ArtTypes
<1>6. CASE Artifacts!Proceed(l) /\ (~IsSynced(l) \/ Artifacts!Skipped(FileOf(l)))
  BY <1>1, <1>5, <1>6, Advances
<1>7. CASE /\ IsSynced(l) /\ ~Artifacts!Skipped(FileOf(l))
           /\ logger' = [logger EXCEPT ![l].phase = "open", ![l].config = c]
           /\ UNCHANGED returned
  <2>1. Moved(l, WithConfig(l, c)) /\ WithConfig(l, c) \in Working
    BY <1>2, <1>7, Edits
  <2>2. returned' = returned /\ returned' \subseteq returned \cup {logger[l].id}
    BY <1>7
  <2>3. ArtTypes'
    BY <1>1, <1>3, <1>4, <1>5, <2>1, <2>2, WorkTypes
  <2>4. QED  BY <1>1, <1>7, <2>1, <2>3 DEF c
<1>8. QED  BY <1>1, <1>6, <1>7

(* What is listed, and listed once. *)
In(s) == {s[i] : i \in DOMAIN s}
Proper(s) == \A i \in DOMAIN s : s[i] \in DOMAIN calls /\ \A j \in DOMAIN s : s[i] = s[j] => i = j
New(l) == logger[l].at = 1 /\ logger[l].phase = "read"

ArtOnce ==
  /\ \A f \in Artifacts!ListFiles : Proper(lists[f].log)
  /\ \A l \in Busy : Proper(logger[l].list)
  /\ \A l \in Busy : New(l) =>
       /\ \A f \in Artifacts!ListFiles : logger[l].id \notin In(lists[f].log)
       /\ \A m \in Busy : logger[l].id \notin In(logger[m].list)

LEMMA OnceStays ==
  ASSUME ArtTypes, ArtOnce, NEW l \in Busy, NEW r, Moved(l, r), UNCHANGED calls,
         r.phase # "idle" =>
           /\ Proper(r.list) /\ r.id = logger[l].id /\ ~(r.at = 1 /\ r.phase = "read")
           /\ \A x \in In(r.list) : \/ x = logger[l].id \/ x \in In(logger[l].list)
                                    \/ \E f \in Artifacts!ListFiles : x \in In(lists[f].log),
         \A f \in Artifacts!ListFiles :
           /\ Proper(lists'[f].log)
           /\ In(lists'[f].log) \subseteq In(lists[f].log) \cup In(logger[l].list)
  PROVE  ArtOnce'
<1>1. \A s : Proper(s)' <=> Proper(s)
  BY DEF Proper
<1>2. \A m \in Busy' \ {l} : m \in Busy /\ logger'[m] = logger[m]
  BY DEF Moved, Busy, Artifacts!Busy
<1>3. l \in Busy' => r.phase # "idle" /\ logger'[l] = r
  BY DEF Moved
<1>4. ASSUME NEW f \in Artifacts!ListFiles PROVE Proper(lists[f].log)'
  BY DEF Proper
<1>5. ASSUME NEW m \in Busy' PROVE Proper(logger[m].list)'
  <2>1. CASE m = l
    BY <1>3, <2>1 DEF Proper
  <2>2. CASE m # l
    BY <1>2, <2>2 DEF Proper, ArtOnce
  <2>3. QED  BY <2>1, <2>2
<1>6. ASSUME NEW m \in Busy', New(m)'
      PROVE  /\ \A f \in Artifacts!ListFiles : logger'[m].id \notin In(lists'[f].log)
             /\ \A k \in Busy' : logger'[m].id \notin In(logger'[k].list)
  <2>1. m # l
    BY <1>3, <1>6 DEF New
  <2>2. m \in Busy /\ New(m) /\ logger'[m] = logger[m]
    BY <1>2, <1>6, <2>1 DEF New
  <2>3. /\ logger[m].id # logger[l].id
        /\ \A f \in Artifacts!ListFiles : logger[m].id \notin In(lists[f].log)
        /\ \A k \in Busy : logger[m].id \notin In(logger[k].list)
    BY <2>1, <2>2 DEF ArtOnce, ArtTypes
  <2>4. \A f \in Artifacts!ListFiles : logger'[m].id \notin In(lists'[f].log)
    BY <2>2, <2>3
  <2>5. ASSUME NEW k \in Busy' PROVE logger'[m].id \notin In(logger'[k].list)
    <3>1. CASE k = l
      BY <1>3, <2>2, <2>3, <3>1
    <3>2. CASE k # l
      BY <1>2, <2>2, <2>3, <3>2
    <3>3. QED  BY <3>1, <3>2
  <2>6. QED  BY <2>4, <2>5
<1>7. ArtOnce' = ((\A f \in Artifacts!ListFiles : Proper(lists[f].log)')
                  /\ (\A m \in Busy' : Proper(logger[m].list)')
                  /\ (\A m \in Busy' : New(m)' =>
                        /\ \A f \in Artifacts!ListFiles : logger'[m].id \notin In(lists'[f].log)
                        /\ \A k \in Busy' : logger'[m].id \notin In(logger'[k].list)))
  BY DEF ArtOnce, In
<1>8. QED  BY <1>4, <1>5, <1>6, <1>7

(* A logger that only moves on, or leaves. *)
LEMMA OnceMoves ==
  ASSUME ArtTypes, ArtOnce, NEW l \in Busy, NEW r, Moved(l, r), UNCHANGED <<calls, lists>>,
         r.phase # "idle" => r.list = logger[l].list /\ r.id = logger[l].id /\ ~(r.at = 1 /\ r.phase = "read")
  PROVE  ArtOnce'
BY OnceStays DEF ArtOnce

LEMMA OnceAdvances ==
  ASSUME ArtTypes, ArtOnce, NEW l \in Busy, Advanced(l), UNCHANGED calls,
         \A f \in Artifacts!ListFiles :
           /\ Proper(lists'[f].log)
           /\ In(lists'[f].log) \subseteq In(lists[f].log) \cup In(logger[l].list)
  PROVE  ArtOnce'
<1>1. Proper(logger[l].list)
  BY DEF ArtOnce
<1>2. CASE Moved(l, Artifacts!Idle)
  <2>1. Artifacts!Idle.phase = "idle"
    BY DEF Artifacts!Idle
  <2>2. QED  BY <1>2, <2>1, OnceStays
<1>3. CASE Moved(l, Onward(l))
  <2>1. /\ Onward(l).list = logger[l].list /\ Onward(l).id = logger[l].id
        /\ Onward(l).at # 1 /\ Onward(l).phase = "read"
    BY BusyWork DEF Working, Onward
  <2>2. QED  BY <1>1, <1>3, <2>1, OnceStays
<1>4. QED  BY <1>2, <1>3 DEF Advanced

LEMMA Pushed ==
  ASSUME NEW s \in Seq(Nat), NEW x \in Nat
  PROVE  /\ Append(s, x) \in Seq(Nat) /\ Len(Append(s, x)) = Len(s) + 1 /\ Append(s, x) # <<>>
         /\ Len(s) + 1 \in Nat
         /\ DOMAIN Append(s, x) = DOMAIN s \cup {Len(s) + 1} /\ Append(s, x)[Len(s) + 1] = x
         /\ \A i \in DOMAIN s : Append(s, x)[i] = s[i] /\ i # Len(s) + 1
OBVIOUS

LEMMA OnceStep ==
  ASSUME ArtTypes, ArtOnce, NEW l \in Loggers,
         \/ Artifacts!Call(l) \/ Artifacts!ReadList(l) \/ Artifacts!SkipReading(l)
         \/ Artifacts!OpenList(l) \/ Artifacts!FillList(l) \/ Artifacts!ReadConfig(l)
         \/ Artifacts!OpenConfig(l) \/ Artifacts!FillConfig(l) \/ Artifacts!Crash(l)
  PROVE  ArtTypes' /\ ArtOnce'
<1>1. CASE Artifacts!Call(l)
  <2>1. /\ ArtTypes' /\ l \notin Busy /\ Moved(l, Fresh) /\ UNCHANGED lists
        /\ Len(calls) \in Nat /\ DOMAIN calls = 1..Len(calls)
        /\ DOMAIN calls' = DOMAIN calls \cup {Len(calls) + 1}
        /\ \A m \in Busy : logger'[m] = logger[m]
    BY <1>1, CallDoes
  <2>2. Fresh.list = <<>> /\ Fresh.id = Len(calls) + 1 /\ Fresh.phase = "read" /\ DOMAIN Fresh.list = {}
    BY DEF Fresh
  <2>3. Busy' = Busy \cup {l} /\ logger'[l] = Fresh
    BY <2>1, <2>2 DEF Moved
  <2>4. \A s : Proper(s) => Proper(s)' /\ Len(calls) + 1 \notin In(s)
    BY <2>1 DEF Proper, In
  <2>5. ASSUME NEW f \in Artifacts!ListFiles PROVE Proper(lists[f].log)'
    BY <2>1, <2>4 DEF ArtOnce, Proper
  <2>6. ASSUME NEW m \in Busy' PROVE Proper(logger[m].list)'
    <3>1. CASE m = l
      BY <2>2, <2>3, <3>1 DEF Proper
    <3>2. CASE m # l
      BY <2>1, <2>3, <2>4, <3>2 DEF ArtOnce, Proper
    <3>3. QED  BY <3>1, <3>2
  <2>7. ASSUME NEW m \in Busy', New(m)'
        PROVE  /\ \A f \in Artifacts!ListFiles : logger'[m].id \notin In(lists'[f].log)
               /\ \A k \in Busy' : logger'[m].id \notin In(logger'[k].list)
    <3>1. In(logger'[l].list) = {}
      BY <2>2, <2>3 DEF In
    <3>2. CASE m = l
      <4>1. logger'[m].id = Len(calls) + 1
        BY <2>2, <2>3, <3>2
      <4>2. QED  BY <2>1, <2>3, <2>4, <3>1, <4>1 DEF ArtOnce
    <3>3. CASE m # l
      <4>1. m \in Busy /\ New(m) /\ logger'[m] = logger[m]
        BY <2>1, <2>3, <2>7, <3>3 DEF New
      <4>2. QED  BY <2>1, <2>3, <3>1, <4>1 DEF ArtOnce
    <3>4. QED  BY <3>2, <3>3
  <2>8. ArtOnce'
    BY <2>5, <2>6, <2>7 DEF ArtOnce, In
  <2>9. QED  BY <2>1, <2>8
<1>2. CASE l \in Busy /\ Artifacts!ReadList(l)
  <2> DEFINE f == FileOf(l)
             s == Append(lists[f].log, IdOf(l))
  <2>1. /\ ArtTypes' /\ UNCHANGED <<calls, lists>> /\ OpOf(l) = "append" /\ logger[l].phase = "read"
        /\ \/ Moved(l, WithList(l, s))
           \/ Moved(l, Artifacts!Idle)
    BY <1>2, ReadListDoes
  <2>2. CASE Moved(l, Artifacts!Idle)
    BY <1>2, <2>1, <2>2, OnceMoves DEF Artifacts!Idle
  <2>3. CASE Moved(l, WithList(l, s))
    <3>1. New(l) /\ f \in Artifacts!ListFiles /\ lists[f].log \in Seq(Nat) /\ logger[l].id \in Nat
      BY <1>2, <2>1, AtFile, BusyWork DEF New, ListFile, Working
    <3>2. /\ DOMAIN s = DOMAIN lists[f].log \cup {Len(lists[f].log) + 1}
          /\ s[Len(lists[f].log) + 1] = logger[l].id
          /\ \A i \in DOMAIN lists[f].log : s[i] = lists[f].log[i] /\ i # Len(lists[f].log) + 1
      BY <3>1, Pushed DEF IdOf
    <3>3. Proper(lists[f].log) /\ logger[l].id \notin In(lists[f].log) /\ logger[l].id \in DOMAIN calls
      BY <1>2, <3>1 DEF ArtOnce, ArtTypes
    <3>4. Proper(s) /\ In(s) = In(lists[f].log) \cup {logger[l].id}
      <4> HIDE DEF s, f
      <4>1. QED  BY <3>2, <3>3 DEF Proper, In
    <3>5. /\ WithList(l, s).list = s /\ WithList(l, s).id = logger[l].id
          /\ WithList(l, s).phase = "open" /\ WithList(l, s).at = logger[l].at
      BY <1>2, BusyWork DEF WithList, Working
    <3> HIDE DEF s, f
    <3>6. \A g \in Artifacts!ListFiles : Proper(lists'[g].log) /\ In(lists'[g].log) \subseteq In(lists[g].log)
      BY <2>1 DEF ArtOnce
    <3>7. QED  BY <1>2, <2>1, <2>3, <3>1, <3>4, <3>5, <3>6, OnceStays
  <2>4. QED  BY <2>1, <2>2, <2>3
<1>3. CASE l \in Busy /\ Artifacts!SkipReading(l)
  <2> DEFINE s == IF OpOf(l) = "replace" THEN <<IdOf(l)>> ELSE logger[l].list
  <2>1. ArtTypes' /\ UNCHANGED <<calls, lists>> /\ Moved(l, WithList(l, s))
    BY <1>3, SkipReadingDoes
  <2>2. /\ WithList(l, s).list = s /\ WithList(l, s).id = logger[l].id
        /\ WithList(l, s).phase = "open" /\ WithList(l, s).at = logger[l].at
    BY <1>3, BusyWork DEF WithList, Working
  <2>3. Proper(s) /\ In(s) \subseteq In(logger[l].list) \cup {logger[l].id}
    BY <1>3 DEF ArtOnce, ArtTypes, Proper, In, IdOf
  <2> HIDE DEF s
  <2>4. \A g \in Artifacts!ListFiles : Proper(lists'[g].log) /\ In(lists'[g].log) \subseteq In(lists[g].log)
    BY <2>1 DEF ArtOnce
  <2>5. QED  BY <1>3, <2>1, <2>2, <2>3, <2>4, OnceStays
<1>4. CASE l \in Busy /\ Artifacts!OpenList(l)
  <2>1. /\ ArtTypes' /\ UNCHANGED calls /\ Moved(l, Entered(l, "fill"))
        /\ lists' = [lists EXCEPT ![FileOf(l)] = Artifacts!Torn]
    BY <1>4, OpenListDoes
  <2>2. /\ Entered(l, "fill").list = logger[l].list /\ Entered(l, "fill").id = logger[l].id
        /\ Entered(l, "fill").phase = "fill"
    BY <1>4, BusyWork DEF Entered, Working
  <2>3. Proper(Artifacts!Torn.log) /\ In(Artifacts!Torn.log) = {}
    BY DEF Proper, In, Artifacts!Torn
  <2>4. ASSUME NEW g \in Artifacts!ListFiles
        PROVE  Proper(lists'[g].log) /\ In(lists'[g].log) \subseteq In(lists[g].log)
    BY <2>1, <2>3 DEF ArtOnce, ArtTypes
  <2>5. Proper(logger[l].list)
    BY <1>4 DEF ArtOnce
  <2>6. QED  BY <1>4, <2>1, <2>2, <2>4, <2>5, OnceStays
<1>5. CASE l \in Busy /\ Artifacts!FillList(l)
  <2>1. /\ ArtTypes' /\ UNCHANGED calls /\ Advanced(l)
        /\ lists' = [lists EXCEPT ![FileOf(l)] = Artifacts!Listing(logger[l].list)]
    BY <1>5, FillListDoes
  <2>2. Artifacts!Listing(logger[l].list).log = logger[l].list /\ Proper(logger[l].list)
    BY <1>5 DEF Artifacts!Listing, ArtOnce
  <2>3. ASSUME NEW g \in Artifacts!ListFiles
        PROVE  Proper(lists'[g].log) /\ In(lists'[g].log) \subseteq In(lists[g].log) \cup In(logger[l].list)
    BY <2>1, <2>2 DEF ArtOnce, ArtTypes
  <2>4. QED  BY <1>5, <2>1, <2>3, OnceAdvances
<1>6. CASE l \in Busy /\ Artifacts!ReadConfig(l)
  <2>1. /\ ArtTypes' /\ UNCHANGED <<calls, lists>>
        /\ Advanced(l) \/ \E c : Moved(l, WithConfig(l, c))
    BY <1>6, ReadConfigDoes
  <2>2. \A c : WithConfig(l, c).list = logger[l].list /\ WithConfig(l, c).id = logger[l].id
               /\ WithConfig(l, c).phase = "open"
    BY <1>6, BusyWork DEF WithConfig, Working
  <2>3. \A g \in Artifacts!ListFiles : Proper(lists'[g].log) /\ In(lists'[g].log) \subseteq In(lists[g].log)
    BY <2>1 DEF ArtOnce
  <2>4. CASE Advanced(l)
    BY <1>6, <2>1, <2>3, <2>4, OnceAdvances
  <2>5. CASE \E c : Moved(l, WithConfig(l, c))
    BY <1>6, <2>1, <2>2, <2>5, OnceMoves
  <2>6. QED  BY <2>1, <2>4, <2>5
<1>7. CASE l \in Busy /\ Artifacts!OpenConfig(l)
  <2>1. ArtTypes' /\ UNCHANGED <<calls, lists>> /\ Moved(l, Entered(l, "fill"))
    BY <1>7, OpenConfigDoes
  <2>2. /\ Entered(l, "fill").list = logger[l].list /\ Entered(l, "fill").id = logger[l].id
        /\ Entered(l, "fill").phase = "fill"
    BY <1>7, BusyWork DEF Entered, Working
  <2>3. QED  BY <1>7, <2>1, <2>2, OnceMoves
<1>8. CASE l \in Busy /\ Artifacts!FillConfig(l)
  <2>1. ArtTypes' /\ UNCHANGED <<calls, lists>> /\ Advanced(l)
    BY <1>8, FillConfigDoes
  <2>2. \A g \in Artifacts!ListFiles : Proper(lists'[g].log) /\ In(lists'[g].log) \subseteq In(lists[g].log)
    BY <2>1 DEF ArtOnce
  <2>3. QED  BY <1>8, <2>1, <2>2, OnceAdvances
<1>9. CASE Artifacts!Crash(l)
  <2>1. ArtTypes' /\ UNCHANGED <<calls, lists>> /\ l \in Busy /\ Moved(l, Artifacts!Idle)
    BY <1>9, CrashDoes
  <2>2. QED  BY <2>1, OnceMoves DEF Artifacts!Idle
<1>10. QED
  BY <1>1, <1>2, <1>3, <1>4, <1>5, <1>6, <1>7, <1>8, <1>9
     DEF Artifacts!ReadList, Artifacts!SkipReading, Artifacts!OpenList, Artifacts!FillList,
         Artifacts!ReadConfig, Artifacts!OpenConfig, Artifacts!FillConfig, Artifacts!At, Busy

Prog(task) == Artifacts!Program[task]

LEMMA Layout ==
  ASSUME NEW task \in Tasks, NEW n \in DOMAIN Prog(task)
  PROVE  /\ n \in Nat
         /\ \A m \in DOMAIN Prog(task) : Prog(task)[m].file = Prog(task)[n].file => m = n
         /\ task # "chat" => Prog(task)[n].op # "replace"
         /\ \A other \in Tasks : \A m \in DOMAIN Prog(other) :
              Prog(task)[n].op # "sync" /\ Prog(other)[m].file = Prog(task)[n].file => other = task
<1>1. DOMAIN Prog(task) \subseteq 1..6
  BY Programs DEF Prog, Tasks
<1>2. \A m \in DOMAIN Prog(task) : Prog(task)[m].file = Prog(task)[n].file => m = n
  <2>1. CASE task = "dao"
    BY <2>1, Programs DEF Prog
  <2>2. CASE task = "chat"
    BY <2>2, Programs DEF Prog
  <2>3. CASE task \in {"transaction", "hash"}
    BY <2>3, Programs DEF Prog
  <2>4. QED  BY <2>1, <2>2, <2>3 DEF Tasks
<1>3. task # "chat" => Prog(task)[n].op # "replace"
  BY Programs DEF Prog, Tasks
<1>4. ASSUME NEW other \in Tasks, other # task, NEW m \in DOMAIN Prog(other), Prog(task)[n].op # "sync"
      PROVE  Prog(other)[m].file # Prog(task)[n].file
  <2>1. Prog(task)[n].file \in CASE task = "dao" -> {"history", "lib", "frontend"}
                                 [] task = "chat" -> {"chatHistory", "chatFrontend"}
                                 [] task = "transaction" -> {"transactions"}
                                 [] task = "hash" -> {"hashes"}
    BY <1>4, Programs DEF Prog, Tasks
  <2>2. Prog(other)[m].file \in {"genesis", "consensus", "env"} \cup
                               CASE other = "dao" -> {"history", "lib", "frontend"}
                                 [] other = "chat" -> {"chatHistory", "chatFrontend"}
                                 [] other = "transaction" -> {"transactions"}
                                 [] other = "hash" -> {"hashes"}
    BY <1>4, Programs DEF Prog, Tasks
  <2>3. QED  BY <1>4, <2>1, <2>2 DEF Tasks
<1>5. QED  BY <1>1, <1>2, <1>3, <1>4

(* A process that works alone: its list ends with its own entry, what it has *)
(* written holds that list, and what it is about to write has its addresses. *)
Healthy(task, r, ls) ==
  /\ ~(r.at = 1 /\ r.phase = "read") => r.list # <<>> /\ r.list[Len(r.list)] = r.id
  /\ \A n \in DOMAIN Prog(task) :
       Prog(task)[n].op # "sync" /\ n < r.at => ls[Prog(task)[n].file] = Artifacts!Listing(r.list)
  /\ Prog(task)[r.at].op = "sync" /\ Prog(task)[r.at].file # "consensus" /\ r.phase # "read" =>
       \A k \in Artifacts!NormalizedAddresses(task) : k \in DOMAIN r.config /\ r.config[k] = r.id

ArtAlone ==
  /\ \A l \in Busy : OpOf(l) = "sync" /\ logger[l].phase # "read" => IsSynced(l)
  /\ alone =>
       /\ \A l, m \in Busy : l = m
       /\ \A l \in Busy : TaskOf(l) # "chat" => Healthy(TaskOf(l), logger[l], lists)

LEMMA AloneMoves ==
  ASSUME ArtTypes, ArtAlone, NEW l \in Busy, NEW r, Moved(l, r), UNCHANGED <<calls, alone>>,
         r.phase # "idle" =>
           /\ r.id = logger[l].id
           /\ Prog(TaskOf(l))[r.at].op = "sync" /\ r.phase # "read" => IsSynced(l)
           /\ alone /\ TaskOf(l) # "chat" => Healthy(TaskOf(l), r, lists')
  PROVE  ArtAlone'
<1>1. \A m \in Busy' \ {l} : m \in Busy /\ logger'[m] = logger[m]
  BY DEF Moved, Busy, Artifacts!Busy
<1>2. l \in Busy' => r.phase # "idle" /\ logger'[l] = r
  BY DEF Moved
<1>3. \A m \in Busy' : m \in Busy /\ TaskOf(m)' = TaskOf(m) /\ logger'[m].id = logger[m].id
  BY <1>1, <1>2 DEF TaskOf
<1>4. ASSUME NEW m \in Busy', OpOf(m)' = "sync", logger'[m].phase # "read"
      PROVE  IsSynced(m)'
  <2>1. IsSynced(m)' = IsSynced(m)
    BY <1>3 DEF IsSynced, Artifacts!IsSynced
  <2>2. CASE m = l
    BY <1>2, <1>3, <1>4, <2>1, <2>2 DEF OpOf, Prog
  <2>3. CASE m # l
    BY <1>1, <1>3, <1>4, <2>1, <2>3 DEF OpOf, ArtAlone
  <2>4. QED  BY <2>2, <2>3
<1>5. ASSUME alone' PROVE \A k, m \in Busy' : k = m
  BY <1>3, <1>5 DEF ArtAlone
<1>6. ASSUME alone', NEW m \in Busy', TaskOf(m)' # "chat"
      PROVE  Healthy(TaskOf(m), logger[m], lists)'
  <2>1. m = l
    BY <1>3, <1>6 DEF ArtAlone
  <2>2. Healthy(TaskOf(l), r, lists')
    BY <1>2, <1>3, <1>6, <2>1
  <2>3. TaskOf(m)' = TaskOf(l) /\ logger'[m] = r
    BY <1>2, <1>3, <1>6, <2>1
  <2>4. QED  BY <2>2, <2>3 DEF Healthy
<1>7. QED  BY <1>4, <1>5, <1>6 DEF ArtAlone

LEMMA AloneAdvances ==
  ASSUME ArtTypes, ArtAlone, NEW l \in Busy, Advanced(l), UNCHANGED <<calls, alone>>,
         alone /\ TaskOf(l) # "chat" /\ logger[l].at < Len(Prog(TaskOf(l))) => Healthy(TaskOf(l), Onward(l), lists')
  PROVE  ArtAlone'
<1>1. Artifacts!Idle.phase = "idle"
  BY DEF Artifacts!Idle
<1>2. Onward(l).id = logger[l].id /\ Onward(l).phase = "read"
  BY BusyWork DEF Working, Onward
<1>3. CASE Moved(l, Artifacts!Idle)
  BY <1>1, <1>3, AloneMoves
<1>4. CASE logger[l].at < Len(Prog(TaskOf(l))) /\ Moved(l, Onward(l))
  BY <1>2, <1>4, AloneMoves
<1>5. QED  BY <1>3, <1>4 DEF Advanced, Prog

LEMMA AloneStep ==
  ASSUME ArtTypes, ArtAlone, NEW l \in Loggers,
         \/ Artifacts!Call(l) \/ Artifacts!ReadList(l) \/ Artifacts!SkipReading(l)
         \/ Artifacts!OpenList(l) \/ Artifacts!FillList(l) \/ Artifacts!ReadConfig(l)
         \/ Artifacts!OpenConfig(l) \/ Artifacts!FillConfig(l) \/ Artifacts!Crash(l)
  PROVE  ArtAlone'
<1> DEFINE task == TaskOf(l)
           r == logger[l]
<1>0. ASSUME l \in Busy
      PROVE  /\ r \in Working /\ task \in Tasks /\ r.at \in DOMAIN Prog(task)
             /\ OpOf(l) = Prog(task)[r.at].op /\ FileOf(l) = Prog(task)[r.at].file
             /\ alone /\ task # "chat" => Healthy(task, r, lists)
  BY <1>0, BusyWork DEF ArtTypes, ArtAlone, OpOf, FileOf, Prog
<1>1. CASE Artifacts!Call(l)
  <2>1. /\ l \notin Busy /\ Moved(l, Fresh) /\ alone' = (alone /\ Busy = {})
        /\ \A m \in Busy : TaskOf(m)' = TaskOf(m) /\ logger'[m] = logger[m]
        /\ \A i \in DOMAIN calls : calls'[i] = calls[i]
        /\ ArtTypes'
    BY <1>1, CallDoes
  <2>2. Fresh.at = 1 /\ Fresh.phase = "read"
    BY DEF Fresh
  <2>3. Busy' = Busy \cup {l} /\ logger'[l] = Fresh
    BY <2>1, <2>2 DEF Moved
  <2>4. ASSUME NEW m \in Busy', OpOf(m)' = "sync", logger'[m].phase # "read" PROVE IsSynced(m)'
    <3>1. m \in Busy /\ logger'[m] = logger[m] /\ TaskOf(m)' = TaskOf(m)
      BY <2>1, <2>2, <2>3, <2>4
    <3>2. OpOf(m) = "sync" /\ logger[m].phase # "read"
      BY <2>4, <3>1 DEF OpOf
    <3>3. IsSynced(m)' = IsSynced(m)
      BY <2>1, <3>1 DEF IsSynced, Artifacts!IsSynced, ArtTypes
    <3>4. QED  BY <3>1, <3>2, <3>3 DEF ArtAlone
  <2>5. ASSUME alone' PROVE Busy' = {l}
    BY <2>1, <2>3, <2>5
  <2>6. ASSUME alone', NEW m \in Busy' PROVE Healthy(TaskOf(m), logger[m], lists)'
    <3>1. logger'[m] = Fresh /\ TaskOf(m)' \in Tasks
      <4>1. m = l
        BY <2>5, <2>6
      <4>2. calls'[logger'[m].id] \in Entry
        BY <2>1, <2>6 DEF ArtTypes
      <4>3. QED  BY <2>3, <4>1, <4>2 DEF Entry, TaskOf
    <3>2. \A n \in DOMAIN Prog(TaskOf(m)') : n >= 1
      BY <3>1, Positions DEF Prog
    <3>3. QED  BY <2>2, <3>1, <3>2, Layout DEF Healthy, Prog
  <2>7. QED  BY <2>4, <2>5, <2>6 DEF ArtAlone
<1>2. CASE l \in Busy /\ Artifacts!ReadList(l)
  <2> DEFINE s == Append(lists[FileOf(l)].log, IdOf(l))
             q == WithList(l, s)
  <2>1. /\ UNCHANGED <<calls, alone, lists>> /\ OpOf(l) = "append"
        /\ Moved(l, q) \/ Moved(l, Artifacts!Idle)
    BY <1>2, ReadListDoes
  <2>2. CASE Moved(l, Artifacts!Idle)
    BY <1>2, <2>1, <2>2, AloneMoves DEF Artifacts!Idle
  <2>3. CASE Moved(l, q)
    <3>1. r.at = 1 /\ lists[FileOf(l)].log \in Seq(Nat) /\ IdOf(l) \in Nat
      BY <1>0, <1>2, <2>1, AtFile DEF ListFile, Working, IdOf
    <3>2. s # <<>> /\ s[Len(s)] = r.id
      BY <3>1, Pushed DEF IdOf
    <3>3. q.id = r.id /\ q.at = r.at /\ q.list = s
      BY <1>0, <1>2 DEF WithList, Working
    <3> HIDE DEF s, q
    <3>4. \A n \in DOMAIN Prog(task) : ~(n < 1)
      BY <1>0, <1>2, Positions DEF Prog
    <3>5. Healthy(task, q, lists')
      BY <1>0, <1>2, <2>1, <3>1, <3>2, <3>3, <3>4 DEF Healthy
    <3>6. QED  BY <1>0, <1>2, <2>1, <2>3, <3>3, <3>5, AloneMoves
  <2>4. QED  BY <2>1, <2>2, <2>3
<1>3. CASE l \in Busy /\ Artifacts!SkipReading(l)
  <2> DEFINE s == IF OpOf(l) = "replace" THEN <<IdOf(l)>> ELSE r.list
             q == WithList(l, s)
  <2>1. UNCHANGED <<calls, alone, lists>> /\ OpOf(l) \in {"copy", "replace"} /\ Moved(l, q)
    BY <1>3, SkipReadingDoes
  <2>2. q.id = r.id /\ q.at = r.at /\ q.list = s
    BY <1>0, <1>3 DEF WithList, Working
  <2>3. r.at # 1 /\ (task # "chat" => s = r.list)
    BY <1>0, <1>3, <2>1, AtFile, Layout
  <2> HIDE DEF s, q
  <2>4. alone /\ task # "chat" => Healthy(task, q, lists')
    BY <1>0, <1>3, <2>1, <2>2, <2>3 DEF Healthy
  <2>5. QED  BY <1>0, <1>3, <2>1, <2>2, <2>4, AloneMoves
<1>4. CASE l \in Busy /\ Artifacts!OpenList(l)
  <2> DEFINE q == Entered(l, "fill")
  <2>1. /\ UNCHANGED <<calls, alone>> /\ OpOf(l) # "sync" /\ r.phase = "open" /\ Moved(l, q)
        /\ lists' = [lists EXCEPT ![FileOf(l)] = Artifacts!Torn]
    BY <1>4, OpenListDoes
  <2>2. q.id = r.id /\ q.at = r.at /\ q.list = r.list
    BY <1>0, <1>4 DEF Entered, Working
  <2> HIDE DEF q
  <2>3. \A n \in DOMAIN Prog(task) : n < r.at => lists'[Prog(task)[n].file] = lists[Prog(task)[n].file]
                                                 \/ Prog(task)[n].op = "sync"
    <3>1. ASSUME NEW n \in DOMAIN Prog(task), n < r.at, Prog(task)[n].op # "sync"
          PROVE  lists'[Prog(task)[n].file] = lists[Prog(task)[n].file]
      <4>1. n # r.at /\ Prog(task)[n].file \in Artifacts!ListFiles
        BY <1>0, <1>4, <3>1, Positions, Layout DEF Prog
      <4>2. Prog(task)[n].file # FileOf(l)
        BY <1>0, <1>4, <4>1, Layout
      <4>3. QED  BY <2>1, <4>1, <4>2 DEF ArtTypes
    <3>2. QED  BY <3>1
  <2>4. alone /\ task # "chat" => Healthy(task, q, lists')
    BY <1>0, <1>4, <2>1, <2>2, <2>3 DEF Healthy
  <2>5. QED  BY <1>0, <1>4, <2>1, <2>2, <2>4, AloneMoves
<1>5. CASE l \in Busy /\ Artifacts!FillList(l)
  <2>1. /\ UNCHANGED <<calls, alone>> /\ OpOf(l) # "sync" /\ r.phase = "fill" /\ Advanced(l)
        /\ lists' = [lists EXCEPT ![FileOf(l)] = Artifacts!Listing(r.list)]
    BY <1>5, FillListDoes
  <2>2. Onward(l).id = r.id /\ Onward(l).at = r.at + 1 /\ Onward(l).list = r.list /\ Onward(l).phase = "read"
    BY <1>0, <1>5 DEF Onward, Working
  <2>3. ASSUME alone, task # "chat", NEW n \in DOMAIN Prog(task), n < r.at + 1, Prog(task)[n].op # "sync"
        PROVE  lists'[Prog(task)[n].file] = Artifacts!Listing(r.list)
    <3>1. Prog(task)[n].file \in Artifacts!ListFiles /\ n \in Nat /\ r.at \in Nat
      BY <1>0, <1>5, <2>3, Positions, Layout DEF Prog
    <3>2. CASE n = r.at
      BY <1>0, <1>5, <2>1, <3>1, <3>2 DEF ArtTypes
    <3>3. CASE n < r.at
      <4>1. Prog(task)[n].file # FileOf(l)
        BY <1>0, <1>5, <3>1, <3>3, Layout
      <4>2. lists'[Prog(task)[n].file] = lists[Prog(task)[n].file]
        BY <2>1, <3>1, <4>1 DEF ArtTypes
      <4>3. QED  BY <1>0, <1>5, <2>3, <3>3, <4>2 DEF Healthy
    <3>4. QED  BY <2>3, <3>1, <3>2, <3>3
  <2>4. alone /\ task # "chat" => Healthy(task, Onward(l), lists')
    BY <1>0, <1>5, <2>1, <2>2, <2>3 DEF Healthy
  <2>5. QED  BY <1>5, <2>1, <2>4, AloneAdvances
<1>6. ASSUME l \in Busy, UNCHANGED <<lists, calls, alone>>, OpOf(l) = "sync", Advanced(l)
      PROVE  ArtAlone'
  <2>1. Onward(l).id = r.id /\ Onward(l).at = r.at + 1 /\ Onward(l).list = r.list /\ Onward(l).phase = "read"
    BY <1>0, <1>6 DEF Onward, Working
  <2>2. r.at # 1 /\ r.at \in Nat
    BY <1>0, <1>6, AtFile, Layout
  <2>3. \A n \in DOMAIN Prog(task) : Prog(task)[n].op # "sync" /\ n < r.at + 1 => n < r.at
    BY <1>0, <1>6, <2>2, Layout
  <2>4. alone /\ task # "chat" => Healthy(task, Onward(l), lists')
    BY <1>0, <1>6, <2>1, <2>2, <2>3 DEF Healthy
  <2>5. QED  BY <1>6, <2>4, AloneAdvances
<1>7. CASE l \in Busy /\ Artifacts!ReadConfig(l)
  <2> DEFINE c == Addressed(l, configs[FileOf(l)].addresses)
             q == WithConfig(l, c)
  <2>1. /\ UNCHANGED <<lists, calls, alone>> /\ OpOf(l) = "sync"
        /\ Advanced(l) \/ (IsSynced(l) /\ Moved(l, q))
    BY <1>7, ReadConfigDoes
  <2>2. CASE IsSynced(l) /\ Moved(l, q)
    <3>1. q.id = r.id /\ q.at = r.at /\ q.list = r.list /\ q.config = c /\ r.at # 1
      BY <1>0, <1>7, <2>1, AtFile DEF WithConfig, Working
    <3>2. FileOf(l) # "consensus" =>
            \A k \in Artifacts!NormalizedAddresses(task) : k \in DOMAIN c /\ c[k] = r.id
      BY <1>7, <2>1, Addressings
    <3> HIDE DEF c, q
    <3>3. alone /\ task # "chat" => Healthy(task, q, lists')
      BY <1>0, <1>7, <2>1, <3>1, <3>2 DEF Healthy
    <3>4. QED  BY <1>0, <1>7, <2>1, <2>2, <3>1, <3>3, AloneMoves
  <2>3. QED  BY <1>6, <1>7, <2>1, <2>2
<1>8. CASE l \in Busy /\ Artifacts!OpenConfig(l)
  <2> DEFINE q == Entered(l, "fill")
  <2>1. UNCHANGED <<lists, calls, alone>> /\ OpOf(l) = "sync" /\ r.phase = "open" /\ Moved(l, q)
    BY <1>8, OpenConfigDoes
  <2>2. q.id = r.id /\ q.at = r.at /\ q.list = r.list /\ q.config = r.config /\ r.at # 1 /\ IsSynced(l)
    BY <1>0, <1>8, <2>1, AtFile DEF Entered, Working, ArtAlone
  <2> HIDE DEF q
  <2>3. alone /\ task # "chat" => Healthy(task, q, lists')
    BY <1>0, <1>8, <2>1, <2>2 DEF Healthy
  <2>4. QED  BY <1>0, <1>8, <2>1, <2>2, <2>3, AloneMoves
<1>9. CASE l \in Busy /\ Artifacts!FillConfig(l)
  BY <1>6, <1>9, FillConfigDoes
<1>10. CASE Artifacts!Crash(l)
  <2>1. UNCHANGED <<calls, alone>> /\ l \in Busy /\ Moved(l, Artifacts!Idle)
    BY <1>10, CrashDoes
  <2>2. QED  BY <2>1, AloneMoves DEF Artifacts!Idle
<1>11. QED
  BY <1>1, <1>2, <1>3, <1>4, <1>5, <1>7, <1>8, <1>9, <1>10
     DEF Artifacts!ReadList, Artifacts!SkipReading, Artifacts!OpenList, Artifacts!FillList,
         Artifacts!ReadConfig, Artifacts!OpenConfig, Artifacts!FillConfig, Artifacts!At, Busy

LEMMA Heals ==
  ASSUME ArtTypes, ArtAlone, [Artifacts!Next]_(Artifacts!vars) PROVE Artifacts!ReturningHealsStep
<1> SUFFICES ASSUME NEW id \in returned' \ returned, alone, calls[id].task = "dao"
             PROVE  /\ lists'["lib"] = lists'["history"]
                    /\ lists'["history"].log[Len(lists'["history"].log)] = id
                    /\ Artifacts!IsSynced(calls[id].network) /\ configs["env"].state # "missing" =>
                         \A k \in Artifacts!NormalizedAddresses("dao") :
                           k \in DOMAIN configs'["env"].addresses /\ configs'["env"].addresses[k] = id
  BY DEF Artifacts!ReturningHealsStep
<1>1. returned' # returned
  OBVIOUS
<1>2. PICK l \in Busy : Artifacts!FillList(l) \/ Artifacts!ReadConfig(l) \/ Artifacts!FillConfig(l)
  BY <1>1 DEF Artifacts!Next, Artifacts!vars, Artifacts!Call, Artifacts!ReadList, Artifacts!SkipReading,
     Artifacts!OpenList, Artifacts!OpenConfig, Artifacts!Crash, Artifacts!FillList,
     Artifacts!ReadConfig, Artifacts!FillConfig, Artifacts!At, Busy
<1>3. Advanced(l) /\ UNCHANGED calls /\ (Artifacts!FillList(l) => OpOf(l) # "sync")
      /\ (~Artifacts!FillList(l) => UNCHANGED lists)
  <2>1. CASE Artifacts!FillList(l)
    BY <1>2, <2>1, FillListDoes
  <2>2. CASE Artifacts!ReadConfig(l)
    BY <1>1, <1>2, <2>2, ReadConfigDoes, FillListDoes
  <2>3. CASE Artifacts!FillConfig(l)
    BY <1>2, <2>3, FillConfigDoes, FillListDoes
  <2>4. QED  BY <1>2, <2>1, <2>2, <2>3
<1>4. logger[l].at = Len(Prog(TaskOf(l))) /\ id = logger[l].id
  BY <1>1, <1>3 DEF Advanced, Prog
<1>5. /\ TaskOf(l) = "dao" /\ logger[l].at = 6 /\ OpOf(l) = "sync" /\ FileOf(l) = "env"
      /\ Healthy("dao", logger[l], lists)
  <2>1. TaskOf(l) = "dao"
    BY <1>4 DEF TaskOf
  <2>2. logger[l].at = 6 /\ Prog("dao")[6] = [op |-> "sync", file |-> "env"]
    BY <1>4, <2>1, Programs DEF Prog
  <2>3. QED  BY <1>2, <2>1, <2>2 DEF Prog, OpOf, FileOf, ArtAlone
<1>6. UNCHANGED lists
  BY <1>3, <1>5
<1>7. /\ \A f \in {"history", "lib"} : lists[f] = Artifacts!Listing(logger[l].list)
      /\ logger[l].list[Len(logger[l].list)] = id
  <2>1. /\ 1 \in DOMAIN Prog("dao") /\ Prog("dao")[1] = [op |-> "append", file |-> "history"]
        /\ 2 \in DOMAIN Prog("dao") /\ Prog("dao")[2] = [op |-> "copy", file |-> "lib"]
    BY Programs DEF Prog
  <2>2. QED  BY <1>4, <1>5, <2>1 DEF Healthy
<1>8. ASSUME Artifacts!IsSynced(calls[id].network), configs["env"].state # "missing",
             NEW k \in Artifacts!NormalizedAddresses("dao")
      PROVE  k \in DOMAIN configs'["env"].addresses /\ configs'["env"].addresses[k] = id
  <2>1. IsSynced(l)
    BY <1>4, <1>8 DEF IsSynced
  <2>2. CASE Artifacts!ReadConfig(l)
    <3>1. UNCHANGED returned
      BY <1>2, <1>5, <1>8, <2>1, <2>2, ReadConfigDoes DEF Artifacts!Skipped
    <3>2. QED  BY <1>1, <3>1
  <2>3. CASE Artifacts!FillConfig(l)
    <3>1. configs'["env"].addresses = logger[l].config /\ logger[l].phase = "fill"
      <4>1. /\ logger[l].phase = "fill"
            /\ configs' = [configs EXCEPT ![FileOf(l)] = [state |-> "text", addresses |-> logger[l].config]]
        BY <1>2, <2>3, FillConfigDoes, FillListDoes
      <4>2. "env" \in DOMAIN configs
        BY DEF ArtTypes, Artifacts!Configs
      <4>3. QED  BY <1>5, <4>1, <4>2
    <3>2. k \in DOMAIN logger[l].config /\ logger[l].config[k] = logger[l].id
      BY <1>2, <1>5, <1>8, <3>1 DEF Healthy, OpOf, FileOf, Prog
    <3>3. QED  BY <1>4, <3>1, <3>2
  <2>4. CASE Artifacts!FillList(l)
    BY <1>2, <1>5, <2>4, FillListDoes
  <2>5. QED  BY <1>2, <2>2, <2>3, <2>4
<1>9. QED  BY <1>6, <1>7, <1>8 DEF Artifacts!Listing

Plain == {"dao", "transaction", "hash"}
Ids(task) == {id \in returned : calls[id].task = task}

(* While nothing overlaps and nobody is killed: B is the list before a call, *)
(* and is in every file that the call has not come to.                       *)
Shown(task, r, ls, B) ==
  /\ ~(r.at = 1 /\ r.phase = "read") => r.list = Append(B, r.id)
  /\ \A n \in DOMAIN Prog(task) :
       Prog(task)[n].op # "sync" /\ (n > r.at \/ (n = r.at /\ r.phase # "fill")) =>
         ls[Prog(task)[n].file] = Artifacts!Listing(B)
Held(task, ls, B) ==
  \A n \in DOMAIN Prog(task) : Prog(task)[n].op # "sync" => ls[Prog(task)[n].file] = Artifacts!Listing(B)

CalmList(task, B) ==
  /\ In(B) = Ids(task)
  /\ \A l \in Busy : TaskOf(l) = task => Shown(task, logger[l], lists, B)
  /\ (\A l \in Busy : TaskOf(l) # task) => Held(task, lists, B)

CalmLists == \A task \in Plain : \E B \in Seq(Nat) : CalmList(task, B)

(* What a step of l may do to the list files of other tasks. *)
Spares(l) ==
  \A task \in Plain \ {TaskOf(l)} : \A n \in DOMAIN Prog(task) :
    Prog(task)[n].op # "sync" => lists'[Prog(task)[n].file] = lists[Prog(task)[n].file]

LEMMA Spared ==
  ASSUME ArtTypes, NEW l \in Busy, NEW file, UNCHANGED lists \/ lists' = [lists EXCEPT ![FileOf(l)] = file]
  PROVE  Spares(l)
<1> SUFFICES ASSUME NEW task \in Plain \ {TaskOf(l)}, NEW n \in DOMAIN Prog(task), Prog(task)[n].op # "sync",
                    lists' = [lists EXCEPT ![FileOf(l)] = file]
             PROVE  lists'[Prog(task)[n].file] = lists[Prog(task)[n].file]
  BY DEF Spares
<1>1. task \in Tasks /\ Prog(task)[n].file \in Artifacts!ListFiles
  BY Positions DEF Plain, Tasks, Prog
<1>2. TaskOf(l) \in Tasks /\ logger[l].at \in DOMAIN Prog(TaskOf(l)) /\ FileOf(l) = Prog(TaskOf(l))[logger[l].at].file
  BY BusyWork DEF ArtTypes, Prog, FileOf
<1>3. Prog(task)[n].file # FileOf(l)
  BY <1>1, <1>2, Layout
<1>4. QED  BY <1>1, <1>3 DEF ArtTypes

LEMMA CalmStays ==
  ASSUME ArtTypes, NEW l \in Busy, NEW r, Moved(l, r), UNCHANGED calls, Busy = {l},
         Spares(l), \A id \in returned' : id \in returned \/ id = logger[l].id, returned \subseteq returned',
         r.phase = "idle" \/ r.id = logger[l].id,
         NEW task \in Plain \ {TaskOf(l)}, NEW B, CalmList(task, B)
  PROVE  CalmList(task, B)'
<1>1. \A m \in Busy' : m = l /\ logger'[m].id = logger[m].id /\ TaskOf(m)' = TaskOf(m)
  BY DEF Moved, TaskOf
<1>2. Ids(task)' = Ids(task)
  BY DEF Ids, TaskOf
<1>3. Held(task, lists, B)
  BY DEF CalmList
<1>4. Held(task, lists', B)
  BY <1>3 DEF Held, Spares
<1>5. In(B)' = In(B)
  BY DEF In
<1>6. QED  BY <1>1, <1>2, <1>4, <1>5 DEF CalmList

LEMMA CalmListMoves ==
  ASSUME ArtTypes, CalmLists, NEW l \in Busy, NEW r, Moved(l, r), UNCHANGED <<calls, returned>>, Busy = {l},
         Spares(l), r.phase # "idle", r.id = logger[l].id,
         TaskOf(l) # "chat" =>
           \A B \in Seq(Nat) : Shown(TaskOf(l), logger[l], lists, B) => Shown(TaskOf(l), r, lists', B)
  PROVE  CalmLists'
<1> SUFFICES ASSUME NEW task \in Plain PROVE (\E B \in Seq(Nat) : CalmList(task, B))'
  BY DEF CalmLists
<1>1. PICK B \in Seq(Nat) : CalmList(task, B)
  BY DEF CalmLists
<1>2. CASE task # TaskOf(l)
  <2>1. CalmList(task, B)'
    BY <1>1, <1>2, CalmStays
  <2>2. QED  BY <2>1
<1>3. CASE task = TaskOf(l)
  <2>1. Busy' = {l} /\ logger'[l] = r /\ TaskOf(l)' = task /\ task # "chat"
    BY <1>3 DEF Moved, TaskOf, Plain
  <2>2. Shown(task, r, lists', B)
    BY <1>1, <1>3, <2>1 DEF CalmList
  <2>3. Shown(task, logger[l], lists, B)'
    BY <2>1, <2>2 DEF Shown
  <2>4. (In(B) = Ids(task))'
    BY <1>1 DEF CalmList, In, Ids
  <2>5. CalmList(task, B)'
    BY <2>1, <2>3, <2>4 DEF CalmList
  <2>6. QED  BY <2>5
<1>4. QED  BY <1>2, <1>3

LEMMA CalmListEnds ==
  ASSUME ArtTypes, CalmLists, NEW l \in Busy, Moved(l, Artifacts!Idle), UNCHANGED calls, Busy = {l}, Spares(l),
         \/ returned' = returned \cup {logger[l].id}
         \/ UNCHANGED returned /\ TaskOf(l) = "chat",
         TaskOf(l) # "chat" =>
           \A B \in Seq(Nat) : Shown(TaskOf(l), logger[l], lists, B) => Held(TaskOf(l), lists', Append(B, logger[l].id))
  PROVE  CalmLists'
<1> SUFFICES ASSUME NEW task \in Plain PROVE (\E B \in Seq(Nat) : CalmList(task, B))'
  BY DEF CalmLists
<1>1. PICK B \in Seq(Nat) : CalmList(task, B)
  BY DEF CalmLists
<1>2. CASE task # TaskOf(l)
  <2>1. CalmList(task, B)'
    BY <1>1, <1>2, CalmStays DEF Artifacts!Idle
  <2>2. QED  BY <2>1
<1>3. CASE task = TaskOf(l)
  <2> DEFINE D == Append(B, logger[l].id)
  <2>1. Busy' = {} /\ task # "chat"
    BY <1>3 DEF Moved, Plain, Artifacts!Idle
  <2>2. Held(task, lists', D)
    BY <1>1, <1>3, <2>1 DEF CalmList
  <2>3. logger[l].id \in Nat
    BY BusyWork DEF Working
  <2>4. In(D) = In(B) \cup {logger[l].id} /\ D \in Seq(Nat)
    <3>1. /\ D \in Seq(Nat) /\ DOMAIN D = DOMAIN B \cup {Len(B) + 1} /\ D[Len(B) + 1] = logger[l].id
          /\ \A i \in DOMAIN B : D[i] = B[i]
      BY <2>3, Pushed
    <3> HIDE DEF D
    <3>2. QED  BY <3>1 DEF In
  <2>5. Ids(task)' = Ids(task) \cup {logger[l].id}
    BY <1>3, <2>1 DEF Ids, TaskOf
  <2> HIDE DEF D
  <2>6. In(D) = Ids(task)'
    BY <1>1, <2>4, <2>5 DEF CalmList
  <2>7. PICK E \in Seq(Nat) : E = D
    BY <2>4
  <2>8. CalmList(task, E)'
    BY <2>1, <2>2, <2>6, <2>7 DEF CalmList, In
  <2>9. QED  BY <2>8
<1>4. QED  BY <1>2, <1>3

LEMMA CalmListStep ==
  ASSUME ArtTypes, ArtAlone, CalmLists, alone', NEW l \in Loggers,
         \/ Artifacts!Call(l) \/ Artifacts!ReadList(l) \/ Artifacts!SkipReading(l)
         \/ Artifacts!OpenList(l) \/ Artifacts!FillList(l) \/ Artifacts!ReadConfig(l)
         \/ Artifacts!OpenConfig(l) \/ Artifacts!FillConfig(l)
  PROVE  CalmLists'
<1> DEFINE task == TaskOf(l)
           r == logger[l]
<1>0. ASSUME l \in Busy
      PROVE  /\ r \in Working /\ task \in Tasks /\ r.at \in DOMAIN Prog(task) /\ r.at \in Nat
             /\ OpOf(l) = Prog(task)[r.at].op /\ FileOf(l) = Prog(task)[r.at].file
             /\ alone => Busy = {l}
             /\ \A n \in DOMAIN Prog(task) : n \in Nat /\ n <= Len(Prog(task))
             /\ Len(Prog(task)) \in DOMAIN Prog(task)
             /\ alone /\ task # "chat" => Healthy(task, r, lists)
  <2>1. /\ r \in Working /\ task \in Tasks /\ r.at \in DOMAIN Prog(task)
        /\ OpOf(l) = Prog(task)[r.at].op /\ FileOf(l) = Prog(task)[r.at].file
        /\ alone => Busy = {l}
        /\ alone /\ task # "chat" => Healthy(task, r, lists)
    BY <1>0, BusyWork DEF ArtTypes, ArtAlone, OpOf, FileOf, Prog
  <2>2. DOMAIN Prog(task) = 1..Len(Prog(task)) /\ Len(Prog(task)) \in Nat
    BY <2>1, Positions DEF Prog
  <2>3. QED  BY <2>1, <2>2
<1>1. CASE Artifacts!Call(l)
  <2>1. /\ l \notin Busy /\ Moved(l, Fresh) /\ Busy = {} /\ ArtTypes' /\ UNCHANGED <<lists, returned>>
        /\ \A i \in DOMAIN calls : calls'[i] = calls[i]
    BY <1>1, CallDoes
  <2>2. Busy' = {l} /\ logger'[l] = Fresh /\ Fresh.at = 1 /\ Fresh.phase = "read"
    BY <2>1 DEF Moved, Fresh
  <2>3. ASSUME NEW t \in Plain PROVE (\E B \in Seq(Nat) : CalmList(t, B))'
    <3>1. PICK B \in Seq(Nat) : CalmList(t, B)
      BY DEF CalmLists
    <3>2. Held(t, lists, B)
      BY <2>1, <3>1 DEF CalmList
    <3>3. Ids(t)' = Ids(t)
      BY <2>1 DEF Ids, ArtTypes
    <3>4. Held(t, lists', B) /\ Shown(t, Fresh, lists', B)
      BY <2>1, <2>2, <3>2 DEF Held, Shown
    <3>5. \A m \in Busy' : Shown(t, logger[m], lists, B)'
      BY <2>2, <3>4 DEF Shown
    <3>6. CalmList(t, B)'
      BY <3>1, <3>3, <3>4, <3>5 DEF CalmList, In
    <3>7. QED  BY <3>6
  <2>4. QED  BY <2>3 DEF CalmLists
<1>2. CASE l \in Busy /\ Artifacts!ReadList(l)
  <2> DEFINE s == Append(lists[FileOf(l)].log, IdOf(l))
             q == WithList(l, s)
  <2>1. /\ UNCHANGED <<calls, alone, lists, returned>> /\ OpOf(l) = "append" /\ r.phase = "read"
        /\ \/ Moved(l, q)
           \/ /\ Moved(l, Artifacts!Idle)
              /\ lists[FileOf(l)].state = "object" \/ lists[FileOf(l)].state = "torn"
    BY <1>2, ReadListDoes
  <2>2. Busy = {l} /\ Spares(l) /\ r.at = 1
    BY <1>0, <1>2, <2>1, Spared, AtFile
  <2>3. \A B : Shown(task, r, lists, B) => lists[FileOf(l)] = Artifacts!Listing(B)
    BY <1>0, <1>2, <2>1 DEF Shown
  <2>4. CASE Moved(l, Artifacts!Idle) /\ (lists[FileOf(l)].state = "object" \/ lists[FileOf(l)].state = "torn")
    <3>1. task = "chat"
      <4>1. SUFFICES ASSUME task \in Plain PROVE FALSE
        BY <1>0, <1>2 DEF Plain, Tasks
      <4>2. PICK B \in Seq(Nat) : Shown(task, r, lists, B)
        BY <1>2, <4>1 DEF CalmLists, CalmList
      <4>3. lists[FileOf(l)] = Artifacts!Listing(B)
        BY <2>3, <4>2
      <4>4. QED  BY <2>4, <4>3 DEF Artifacts!Listing
    <3>2. QED  BY <1>2, <2>1, <2>2, <2>4, <3>1, CalmListEnds
  <2>5. CASE Moved(l, q)
    <3>1. q.id = r.id /\ q.at = r.at /\ q.list = s /\ q.phase = "open"
      BY <1>0, <1>2 DEF WithList, Working
    <3>2. ASSUME NEW B \in Seq(Nat), Shown(task, r, lists, B) PROVE Shown(task, q, lists', B)
      <4>1. s = Append(B, r.id)
        <5>1. lists[FileOf(l)] = Artifacts!Listing(B)
          BY <2>3, <3>2
        <5>2. QED  BY <5>1 DEF Artifacts!Listing, IdOf
      <4> HIDE DEF q, s
      <4>2. QED  BY <2>1, <3>1, <3>2, <4>1 DEF Shown
    <3> HIDE DEF q
    <3>3. QED  BY <1>2, <2>1, <2>2, <2>5, <3>1, <3>2, CalmListMoves
  <2>6. QED  BY <2>1, <2>4, <2>5
<1>3. CASE l \in Busy /\ Artifacts!SkipReading(l)
  <2> DEFINE s == IF OpOf(l) = "replace" THEN <<IdOf(l)>> ELSE r.list
             q == WithList(l, s)
  <2>1. /\ UNCHANGED <<calls, alone, lists, returned>> /\ OpOf(l) \in {"copy", "replace"}
        /\ r.phase = "read" /\ Moved(l, q)
    BY <1>3, SkipReadingDoes
  <2>2. q.id = r.id /\ q.at = r.at /\ q.list = s /\ q.phase = "open"
    BY <1>0, <1>3 DEF WithList, Working
  <2>3. r.at # 1 /\ (task # "chat" => s = r.list)
    BY <1>0, <1>3, <2>1, AtFile, Layout
  <2>4. Busy = {l} /\ Spares(l)
    BY <1>0, <1>3, <2>1, Spared
  <2> HIDE DEF s, q
  <2>5. task # "chat" => \A B \in Seq(Nat) : Shown(task, r, lists, B) => Shown(task, q, lists', B)
    BY <2>1, <2>2, <2>3 DEF Shown
  <2>6. QED  BY <1>3, <2>1, <2>2, <2>4, <2>5, CalmListMoves
<1>4. CASE l \in Busy /\ Artifacts!OpenList(l)
  <2> DEFINE q == Entered(l, "fill")
  <2>1. /\ UNCHANGED <<calls, alone, returned>> /\ OpOf(l) # "sync" /\ r.phase = "open" /\ Moved(l, q)
        /\ lists' = [lists EXCEPT ![FileOf(l)] = Artifacts!Torn]
    BY <1>4, OpenListDoes
  <2>2. q.id = r.id /\ q.at = r.at /\ q.list = r.list /\ q.phase = "fill"
    BY <1>0, <1>4 DEF Entered, Working
  <2>3. Busy = {l} /\ Spares(l)
    BY <1>0, <1>4, <2>1, Spared
  <2> HIDE DEF q
  <2>4. ASSUME NEW n \in DOMAIN Prog(task), n > r.at, Prog(task)[n].op # "sync"
        PROVE  lists'[Prog(task)[n].file] = lists[Prog(task)[n].file]
    <3>1. n # r.at /\ Prog(task)[n].file \in Artifacts!ListFiles
      BY <1>0, <1>4, <2>4, Positions DEF Prog
    <3>2. Prog(task)[n].file # FileOf(l)
      BY <1>0, <1>4, <3>1, Layout
    <3>3. QED  BY <2>1, <3>1, <3>2 DEF ArtTypes
  <2>5. \A B \in Seq(Nat) : Shown(task, r, lists, B) => Shown(task, q, lists', B)
    BY <1>0, <1>4, <2>1, <2>2, <2>4 DEF Shown
  <2>6. QED  BY <1>4, <2>1, <2>2, <2>3, <2>5, CalmListMoves
<1>5. CASE l \in Busy /\ Artifacts!FillList(l)
  <2>1. /\ UNCHANGED <<calls, alone>> /\ OpOf(l) # "sync" /\ r.phase = "fill" /\ Advanced(l)
        /\ lists' = [lists EXCEPT ![FileOf(l)] = Artifacts!Listing(r.list)]
    BY <1>5, FillListDoes
  <2>2. Onward(l).id = r.id /\ Onward(l).at = r.at + 1 /\ Onward(l).list = r.list /\ Onward(l).phase = "read"
    BY <1>0, <1>5 DEF Onward, Working
  <2>3. Busy = {l} /\ Spares(l)
    BY <1>0, <1>5, <2>1, Spared
  <2>4. ASSUME NEW n \in DOMAIN Prog(task), n # r.at, Prog(task)[n].op # "sync"
        PROVE  lists'[Prog(task)[n].file] = lists[Prog(task)[n].file]
    <3>1. Prog(task)[n].file \in Artifacts!ListFiles
      BY <1>0, <1>5, <2>4, Positions DEF Prog
    <3>2. Prog(task)[n].file # FileOf(l)
      BY <1>0, <1>5, <2>4, Layout
    <3>3. QED  BY <2>1, <3>1, <3>2 DEF ArtTypes
  <2>5. CASE Moved(l, Onward(l)) /\ UNCHANGED returned
    <3>1. \A n \in DOMAIN Prog(task) : n > r.at + 1 \/ n = r.at + 1 => n > r.at /\ n # r.at
      BY <1>0, <1>5
    <3>2. \A B \in Seq(Nat) : Shown(task, r, lists, B) => Shown(task, Onward(l), lists', B)
      BY <1>0, <1>5, <2>1, <2>2, <2>4, <3>1 DEF Shown
    <3>3. QED  BY <1>5, <2>1, <2>2, <2>3, <2>5, <3>2, CalmListMoves
  <2>6. CASE r.at = Len(Prog(task)) /\ Moved(l, Artifacts!Idle) /\ returned' = returned \cup {r.id}
    <3>1. ASSUME task # "chat", NEW B \in Seq(Nat), Shown(task, r, lists, B)
          PROVE  Held(task, lists', Append(B, r.id))
      <4>1. r.list = Append(B, r.id)
        BY <2>1, <3>1 DEF Shown
      <4>2. lists'[FileOf(l)] = Artifacts!Listing(r.list)
        BY <1>5, <2>1, AtFile DEF ArtTypes
      <4>3. \A n \in DOMAIN Prog(task) : Prog(task)[n].op # "sync" /\ n # r.at =>
              lists[Prog(task)[n].file] = Artifacts!Listing(r.list)
        BY <1>0, <1>5, <2>1, <2>6, <3>1 DEF Healthy
      <4>4. QED  BY <1>0, <1>5, <2>4, <4>1, <4>2, <4>3 DEF Held
    <3>2. QED  BY <1>5, <2>1, <2>3, <2>6, <3>1, CalmListEnds
  <2>7. QED  BY <2>1, <2>5, <2>6 DEF Advanced, Prog
<1>6. ASSUME l \in Busy, UNCHANGED <<lists, calls, alone>>, OpOf(l) = "sync", Advanced(l)
      PROVE  CalmLists'
  <2>1. Onward(l).id = r.id /\ Onward(l).at = r.at + 1 /\ Onward(l).list = r.list /\ Onward(l).phase = "read"
    BY <1>0, <1>6 DEF Onward, Working
  <2>2. r.at # 1 /\ Busy = {l} /\ Spares(l)
    BY <1>0, <1>6, AtFile, Spared
  <2>3. CASE Moved(l, Onward(l)) /\ UNCHANGED returned
    <3>1. \A n \in DOMAIN Prog(task) : n > r.at + 1 \/ n = r.at + 1 => n > r.at
      BY <1>0, <1>6
    <3>2. \A B \in Seq(Nat) : Shown(task, r, lists, B) => Shown(task, Onward(l), lists', B)
      BY <1>0, <1>6, <2>1, <2>2, <3>1 DEF Shown
    <3>3. QED  BY <1>6, <2>1, <2>2, <2>3, <3>2, CalmListMoves
  <2>4. CASE r.at = Len(Prog(task)) /\ Moved(l, Artifacts!Idle) /\ returned' = returned \cup {r.id}
    <3>1. ASSUME task # "chat", NEW B \in Seq(Nat), Shown(task, r, lists, B)
          PROVE  Held(task, lists', Append(B, r.id))
      <4>1. r.list = Append(B, r.id)
        BY <2>2, <3>1 DEF Shown
      <4>2. \A n \in DOMAIN Prog(task) : Prog(task)[n].op # "sync" => n < r.at
        BY <1>0, <1>6, <2>4
      <4>3. QED  BY <1>0, <1>6, <3>1, <4>1, <4>2 DEF Held, Healthy
    <3>2. QED  BY <1>6, <2>2, <2>4, <3>1, CalmListEnds
  <2>5. QED  BY <1>6, <2>3, <2>4 DEF Advanced, Prog
<1>7. CASE l \in Busy /\ Artifacts!ReadConfig(l)
  <2> DEFINE c == Addressed(l, configs[FileOf(l)].addresses)
             q == WithConfig(l, c)
  <2>1. /\ UNCHANGED <<lists, calls, alone>> /\ OpOf(l) = "sync" /\ r.phase = "read"
        /\ Advanced(l) \/ (UNCHANGED returned /\ Moved(l, q))
    BY <1>7, ReadConfigDoes
  <2>2. CASE UNCHANGED returned /\ Moved(l, q)
    <3>1. q.id = r.id /\ q.at = r.at /\ q.list = r.list /\ q.phase = "open" /\ r.at # 1
      BY <1>0, <1>7, <2>1, AtFile DEF WithConfig, Working
    <3>2. Busy = {l} /\ Spares(l)
      BY <1>0, <1>7, <2>1, Spared
    <3> HIDE DEF c, q
    <3>3. \A B \in Seq(Nat) : Shown(task, r, lists, B) => Shown(task, q, lists', B)
      BY <2>1, <3>1 DEF Shown
    <3>4. QED  BY <1>7, <2>1, <2>2, <3>1, <3>2, <3>3, CalmListMoves
  <2>3. QED  BY <1>6, <1>7, <2>1, <2>2
<1>8. CASE l \in Busy /\ Artifacts!OpenConfig(l)
  <2> DEFINE q == Entered(l, "fill")
  <2>1. UNCHANGED <<lists, calls, alone, returned>> /\ OpOf(l) = "sync" /\ r.phase = "open" /\ Moved(l, q)
    BY <1>8, OpenConfigDoes
  <2>2. q.id = r.id /\ q.at = r.at /\ q.list = r.list /\ q.phase = "fill" /\ r.at # 1
    BY <1>0, <1>8, <2>1, AtFile DEF Entered, Working
  <2>3. Busy = {l} /\ Spares(l)
    BY <1>0, <1>8, <2>1, Spared
  <2> HIDE DEF q
  <2>4. \A B \in Seq(Nat) : Shown(task, r, lists, B) => Shown(task, q, lists', B)
    BY <1>0, <1>8, <2>1, <2>2 DEF Shown
  <2>5. QED  BY <1>8, <2>1, <2>2, <2>3, <2>4, CalmListMoves
<1>9. CASE l \in Busy /\ Artifacts!FillConfig(l)
  BY <1>6, <1>9, FillConfigDoes
<1>10. QED
  BY <1>1, <1>2, <1>3, <1>4, <1>5, <1>7, <1>8, <1>9
     DEF Artifacts!ReadList, Artifacts!SkipReading, Artifacts!OpenList, Artifacts!FillList,
         Artifacts!ReadConfig, Artifacts!OpenConfig, Artifacts!FillConfig, Artifacts!At, Busy

Renewed(task, id, C) ==
  [k \in Artifacts!Keys |-> IF k \in Artifacts!NormalizedAddresses(task) THEN id ELSE C[k]]
AddressBook == [Artifacts!Keys -> Nat]
Syncs(l) == IsSynced(l) /\ TaskOf(l) \in {"dao", "chat"}

(* The addresses a of the file f are those of C, as far as f has the keys. *)
Reads(f, a, C) ==
  /\ \A k \in DOMAIN a : k \in Artifacts!Keys /\ a[k] = C[k]
  /\ f # "consensus" => \A k \in Artifacts!Keys : C[k] # 0 => k \in DOMAIN a
Shows(cs, f, C) == cs[f].state = "missing" \/ (cs[f].state = "text" /\ Reads(f, cs[f].addresses, C))

(* The same for the configurations: C are the addresses before the call.     *)
Synced(task, r, cs, C) ==
  /\ Prog(task)[r.at].op = "sync" /\ r.phase # "read" =>
       Reads(Prog(task)[r.at].file, r.config, Renewed(task, r.id, C))
  /\ \A n \in DOMAIN Prog(task) : Prog(task)[n].op = "sync" =>
       /\ n < r.at => Shows(cs, Prog(task)[n].file, Renewed(task, r.id, C))
       /\ n > r.at \/ (n = r.at /\ r.phase # "fill") => Shows(cs, Prog(task)[n].file, C)

(* C are the last addresses of the calls that have returned. *)
Latest(C) == \A k \in Artifacts!Keys : Artifacts!IsLatest(k, C[k])

CalmConfig(C) ==
  /\ Latest(C)
  /\ \A l \in Busy : \A id \in returned : id < logger[l].id
  /\ \A l \in Busy : Syncs(l) => Synced(TaskOf(l), logger[l], configs, C)
  /\ (\A l \in Busy : ~Syncs(l)) => \A f \in Artifacts!Configs : Shows(configs, f, C)

CalmConfigs == \E C \in AddressBook : CalmConfig(C)

LEMMA LatestStays ==
  ASSUME ArtTypes, NEW C, Latest(C), UNCHANGED returned, \A i \in DOMAIN calls : calls'[i] = calls[i]
  PROVE  Latest(C)'
<1>1. \A k : Artifacts!Gave(k)' = Artifacts!Gave(k)
  BY DEF Artifacts!Gave, ArtTypes
<1>2. QED  BY <1>1 DEF Latest, Artifacts!IsLatest

LEMMA LatestRenewed ==
  ASSUME ArtTypes, NEW C, Latest(C), NEW l \in Busy, UNCHANGED calls,
         returned' = returned \cup {logger[l].id}, \A id \in returned : id < logger[l].id,
         NEW D, D = IF Syncs(l) THEN Renewed(TaskOf(l), logger[l].id, C) ELSE C
  PROVE  Latest(D)'
<1> DEFINE given == Artifacts!NormalizedAddresses(TaskOf(l))
<1>1. PICK n \in Nat : n = logger[l].id
  BY BusyWork DEF Working
<1>2. DOMAIN calls \subseteq Nat /\ returned \subseteq DOMAIN calls
  BY DEF ArtTypes
<1>3. \A k : /\ Artifacts!Gave(k) \subseteq returned
             /\ Artifacts!Gave(k)' = IF IsSynced(l) /\ k \in given
                                     THEN Artifacts!Gave(k) \cup {n} ELSE Artifacts!Gave(k)
  BY <1>1 DEF Artifacts!Gave, IsSynced, TaskOf
<1>4. TaskOf(l) \notin {"dao", "chat"} => given = {}
  BY DEF Artifacts!NormalizedAddresses
<1>5. \A k \in Artifacts!Keys : D[k] = IF IsSynced(l) /\ k \in given THEN n ELSE C[k]
  BY <1>1, <1>4 DEF Syncs, Renewed
<1>6. ASSUME NEW k \in Artifacts!Keys PROVE Artifacts!IsLatest(k, D[k])'
  <2>1. CASE IsSynced(l) /\ k \in given
    <3>1. Artifacts!Gave(k)' = Artifacts!Gave(k) \cup {n} /\ D[k] = n
      BY <1>3, <1>5, <2>1
    <3>2. \A id \in Artifacts!Gave(k)' : id <= n
      BY <1>1, <1>2, <1>3, <3>1
    <3>3. QED  BY <3>1, <3>2 DEF Artifacts!IsLatest
  <2>2. CASE ~(IsSynced(l) /\ k \in given)
    <3>1. Artifacts!Gave(k)' = Artifacts!Gave(k) /\ D[k] = C[k]
      BY <1>3, <1>5, <2>2
    <3>2. QED  BY <3>1 DEF Artifacts!IsLatest, Latest
  <2>3. QED  BY <2>1, <2>2
<1>7. QED  BY <1>6 DEF Latest

LEMMA Syncing ==
  ASSUME NEW task \in {"dao", "chat"}
  PROVE  /\ \A f \in Artifacts!Configs :
              \E n \in DOMAIN Prog(task) : Prog(task)[n].op = "sync" /\ Prog(task)[n].file = f
         /\ Prog(task)[Len(Prog(task))].op = "sync"
         /\ "timelock" \in Artifacts!NormalizedAddresses(task)
<1>1. CASE task = "dao"
  <2>1. /\ 4 \in DOMAIN Prog(task) /\ Prog(task)[4] = [op |-> "sync", file |-> "genesis"]
        /\ 5 \in DOMAIN Prog(task) /\ Prog(task)[5] = [op |-> "sync", file |-> "consensus"]
        /\ 6 \in DOMAIN Prog(task) /\ Prog(task)[6] = [op |-> "sync", file |-> "env"] /\ Len(Prog(task)) = 6
    BY <1>1, Programs DEF Prog
  <2>2. QED  BY <1>1, <2>1 DEF Artifacts!Configs, Artifacts!NormalizedAddresses
<1>2. CASE task = "chat"
  <2>1. /\ 3 \in DOMAIN Prog(task) /\ Prog(task)[3] = [op |-> "sync", file |-> "genesis"]
        /\ 4 \in DOMAIN Prog(task) /\ Prog(task)[4] = [op |-> "sync", file |-> "consensus"]
        /\ 5 \in DOMAIN Prog(task) /\ Prog(task)[5] = [op |-> "sync", file |-> "env"] /\ Len(Prog(task)) = 5
    BY <1>2, Programs DEF Prog
  <2>2. QED  BY <1>2, <2>1 DEF Artifacts!Configs, Artifacts!NormalizedAddresses
<1>3. QED  BY <1>1, <1>2

LEMMA CalmConfigMoves ==
  ASSUME ArtTypes, CalmConfigs, NEW l \in Busy, NEW r, Moved(l, r), UNCHANGED <<calls, returned>>, Busy = {l},
         r.phase # "idle", r.id = logger[l].id,
         Syncs(l) =>
           \A C \in AddressBook : Synced(TaskOf(l), logger[l], configs, C) => Synced(TaskOf(l), r, configs', C),
         ~Syncs(l) => UNCHANGED configs
  PROVE  CalmConfigs'
<1>1. PICK C \in AddressBook : CalmConfig(C)
  BY DEF CalmConfigs
<1>2. Busy' = {l} /\ logger'[l] = r /\ TaskOf(l)' = TaskOf(l)
  BY DEF Moved, TaskOf
<1>3. Syncs(l)' = Syncs(l)
  BY <1>2 DEF Syncs, IsSynced, Artifacts!IsSynced
<1>4. Latest(C)' /\ \A m \in Busy' : \A id \in returned' : id < logger'[m].id
  BY <1>1, <1>2, LatestStays DEF CalmConfig
<1>5. CASE Syncs(l)
  <2>1. Synced(TaskOf(l), r, configs', C)
    BY <1>1, <1>5 DEF CalmConfig
  <2>2. Synced(TaskOf(l), logger[l], configs, C)'
    BY <1>2, <2>1 DEF Synced, Shows
  <2>3. CalmConfig(C)'
    BY <1>2, <1>3, <1>4, <1>5, <2>2 DEF CalmConfig
  <2>4. QED  BY <2>3 DEF CalmConfigs, AddressBook
<1>6. CASE ~Syncs(l)
  <2>1. CalmConfig(C)'
    BY <1>1, <1>2, <1>3, <1>4, <1>6 DEF CalmConfig, Shows
  <2>2. QED  BY <2>1 DEF CalmConfigs, AddressBook
<1>7. QED  BY <1>5, <1>6

(* A call ends: it returns, and the addresses are its own, or it throws      *)
(* before it has come to the configurations.                                 *)
LEMMA CalmConfigEnds ==
  ASSUME ArtTypes, CalmConfigs, NEW l \in Busy, Moved(l, Artifacts!Idle), Busy = {l}, UNCHANGED calls,
         \/ /\ returned' = returned \cup {logger[l].id}
            /\ Syncs(l) =>
                 \A C \in AddressBook : Synced(TaskOf(l), logger[l], configs, C) =>
                   \A f \in Artifacts!Configs : Shows(configs', f, Renewed(TaskOf(l), logger[l].id, C))
         \/ /\ UNCHANGED <<returned, configs>>
            /\ Syncs(l) =>
                 \A C \in AddressBook : Synced(TaskOf(l), logger[l], configs, C) =>
                   \A f \in Artifacts!Configs : Shows(configs, f, C),
         ~Syncs(l) => UNCHANGED configs
  PROVE  CalmConfigs'
<1>1. PICK C \in AddressBook : CalmConfig(C)
  BY DEF CalmConfigs
<1>2. Busy' = {} /\ logger[l].id \in Nat
  BY BusyWork DEF Moved, Artifacts!Idle, Working
<1>3. ASSUME NEW D \in AddressBook, Latest(D)', \A f \in Artifacts!Configs : Shows(configs', f, D) PROVE CalmConfigs'
  <2>1. CalmConfig(D)'
    BY <1>2, <1>3 DEF CalmConfig, Shows
  <2>2. QED  BY <2>1 DEF CalmConfigs, AddressBook
<1>4. CASE /\ returned' = returned \cup {logger[l].id}
           /\ Syncs(l) => \A f \in Artifacts!Configs : Shows(configs', f, Renewed(TaskOf(l), logger[l].id, C))
  <2>1. PICK D \in AddressBook : D = IF Syncs(l) THEN Renewed(TaskOf(l), logger[l].id, C) ELSE C
    BY <1>2 DEF Renewed, AddressBook
  <2>2. Latest(D)'
    BY <1>1, <1>4, <2>1, LatestRenewed DEF CalmConfig
  <2>3. \A f \in Artifacts!Configs : Shows(configs', f, D)
    BY <1>1, <1>4, <2>1 DEF CalmConfig
  <2>4. QED  BY <1>3, <2>2, <2>3
<1>5. CASE /\ UNCHANGED <<returned, configs>>
           /\ Syncs(l) => \A f \in Artifacts!Configs : Shows(configs, f, C)
  <2>1. Latest(C)'
    BY <1>1, <1>5, LatestStays DEF CalmConfig
  <2>2. \A f \in Artifacts!Configs : Shows(configs', f, C)
    BY <1>1, <1>5 DEF CalmConfig
  <2>3. QED  BY <1>3, <2>1, <2>2
<1>6. QED  BY <1>1, <1>4, <1>5 DEF CalmConfig

LEMMA CalmConfigStep ==
  ASSUME ArtTypes, ArtAlone, CalmConfigs, alone', NEW l \in Loggers,
         \/ Artifacts!Call(l) \/ Artifacts!ReadList(l) \/ Artifacts!SkipReading(l)
         \/ Artifacts!OpenList(l) \/ Artifacts!FillList(l) \/ Artifacts!ReadConfig(l)
         \/ Artifacts!OpenConfig(l) \/ Artifacts!FillConfig(l)
  PROVE  CalmConfigs'
<1> DEFINE task == TaskOf(l)
           r == logger[l]
<1>0. ASSUME l \in Busy
      PROVE  /\ r \in Working /\ task \in Tasks /\ r.at \in DOMAIN Prog(task) /\ r.at \in Nat
             /\ OpOf(l) = Prog(task)[r.at].op /\ FileOf(l) = Prog(task)[r.at].file
             /\ alone => Busy = {l}
             /\ \A n \in DOMAIN Prog(task) : n \in Nat /\ n <= Len(Prog(task))
             /\ OpOf(l) = "sync" /\ r.phase # "read" => IsSynced(l)
  <2>1. /\ r \in Working /\ task \in Tasks /\ r.at \in DOMAIN Prog(task)
        /\ OpOf(l) = Prog(task)[r.at].op /\ FileOf(l) = Prog(task)[r.at].file
        /\ alone => Busy = {l}
        /\ OpOf(l) = "sync" /\ r.phase # "read" => IsSynced(l)
    BY <1>0, BusyWork DEF ArtTypes, ArtAlone, OpOf, FileOf, Prog
  <2>2. DOMAIN Prog(task) = 1..Len(Prog(task)) /\ Len(Prog(task)) \in Nat
    BY <2>1, Positions DEF Prog
  <2>3. QED  BY <2>1, <2>2
<1>1. CASE Artifacts!Call(l)
  <2>1. l \notin Busy /\ Moved(l, Fresh) /\ Busy = {} /\ ArtTypes' /\ UNCHANGED configs
    BY <1>1, CallDoes
  <2>2. Busy' = {l} /\ logger'[l] = Fresh /\ Fresh.at = 1 /\ Fresh.phase = "read"
    BY <2>1 DEF Moved, Fresh
  <2>3. PICK C \in AddressBook : Latest(C) /\ \A f \in Artifacts!Configs : Shows(configs, f, C)
    BY <2>1 DEF CalmConfigs, CalmConfig
  <2>4. TaskOf(l)' \in Tasks
    <3>1. calls'[logger'[l].id] \in Entry
      BY <2>1, <2>2 DEF ArtTypes
    <3>2. QED  BY <3>1 DEF Entry, TaskOf
  <2>5. PICK t \in Tasks : t = TaskOf(l)'
    BY <2>4
  <2>6. \A n \in DOMAIN Prog(t) :
          /\ ~(n < 1)
          /\ Prog(t)[n].op = "sync" => n # 1 /\ Prog(t)[n].file \in Artifacts!Configs
    BY Positions DEF Prog
  <2>7. 1 \in DOMAIN Prog(t)
    BY Programs DEF Prog, Tasks
  <2>8. Synced(t, Fresh, configs', C)
    BY <2>1, <2>2, <2>3, <2>6, <2>7 DEF Synced
  <2>9. Synced(TaskOf(l), logger[l], configs, C)'
    BY <2>2, <2>5, <2>8 DEF Synced, Shows
  <2>10. Latest(C)' /\ \A id \in returned' : id < logger'[l].id
    <3>1. UNCHANGED returned /\ Len(calls) \in Nat /\ DOMAIN calls = 1..Len(calls)
          /\ \A i \in DOMAIN calls : calls'[i] = calls[i]
      BY <1>1, CallDoes
    <3>2. logger'[l].id = Len(calls) + 1
      BY <2>2 DEF Fresh
    <3>3. QED  BY <2>3, <3>1, <3>2, LatestStays DEF ArtTypes
  <2>11. CalmConfig(C)'
    BY <2>1, <2>2, <2>3, <2>9, <2>10 DEF CalmConfig, Shows
  <2>12. QED  BY <2>11 DEF CalmConfigs, AddressBook
<1>2. CASE l \in Busy /\ Artifacts!ReadList(l)
  <2> DEFINE q == WithList(l, Append(lists[FileOf(l)].log, IdOf(l)))
  <2>1. /\ UNCHANGED <<calls, alone, configs, returned>> /\ OpOf(l) = "append" /\ r.phase = "read"
        /\ Moved(l, q) \/ Moved(l, Artifacts!Idle)
    BY <1>2, ReadListDoes
  <2>2. Busy = {l} /\ r.at = 1
    BY <1>0, <1>2, <2>1, AtFile
  <2>3. CASE Moved(l, Artifacts!Idle)
    <3>1. ASSUME Syncs(l), NEW C \in AddressBook, Synced(task, r, configs, C)
          PROVE  \A f \in Artifacts!Configs : Shows(configs, f, C)
      <4>1. ASSUME NEW f \in Artifacts!Configs PROVE Shows(configs, f, C)
        <5>1. PICK n \in DOMAIN Prog(task) : Prog(task)[n].op = "sync" /\ Prog(task)[n].file = f
          BY <3>1, Syncing DEF Syncs
        <5>2. n > r.at
          BY <1>0, <1>2, <2>2, <5>1, Positions DEF Prog
        <5>3. QED  BY <3>1, <5>1, <5>2 DEF Synced
      <4>2. QED  BY <2>1, <4>1
    <3>2. QED  BY <1>2, <2>1, <2>2, <2>3, <3>1, CalmConfigEnds
  <2>4. CASE Moved(l, q)
    <3>1. q.id = r.id /\ q.at = r.at /\ q.config = r.config /\ q.phase = "open"
      BY <1>0, <1>2 DEF WithList, Working
    <3> HIDE DEF q
    <3>2. \A C \in AddressBook : Synced(task, r, configs, C) => Synced(task, q, configs', C)
      BY <1>0, <1>2, <2>1, <3>1 DEF Synced
    <3>3. QED  BY <1>2, <2>1, <2>2, <2>4, <3>1, <3>2, CalmConfigMoves
  <2>5. QED  BY <2>1, <2>3, <2>4
<1>3. CASE l \in Busy /\ Artifacts!SkipReading(l)
  <2> DEFINE q == WithList(l, IF OpOf(l) = "replace" THEN <<IdOf(l)>> ELSE r.list)
  <2>1. /\ UNCHANGED <<calls, alone, configs, returned>> /\ OpOf(l) \in {"copy", "replace"}
        /\ r.phase = "read" /\ Moved(l, q)
    BY <1>3, SkipReadingDoes
  <2>2. q.id = r.id /\ q.at = r.at /\ q.config = r.config /\ q.phase = "open" /\ Busy = {l}
    BY <1>0, <1>3, <2>1 DEF WithList, Working
  <2> HIDE DEF q
  <2>3. \A C \in AddressBook : Synced(task, r, configs, C) => Synced(task, q, configs', C)
    BY <1>0, <1>3, <2>1, <2>2 DEF Synced
  <2>4. QED  BY <1>3, <2>1, <2>2, <2>3, CalmConfigMoves
<1>4. CASE l \in Busy /\ Artifacts!OpenList(l)
  <2> DEFINE q == Entered(l, "fill")
  <2>1. /\ UNCHANGED <<calls, alone, configs, returned>> /\ OpOf(l) # "sync" /\ r.phase = "open"
        /\ Moved(l, q)
    BY <1>4, OpenListDoes
  <2>2. q.id = r.id /\ q.at = r.at /\ q.config = r.config /\ q.phase = "fill" /\ Busy = {l}
    BY <1>0, <1>4, <2>1 DEF Entered, Working
  <2> HIDE DEF q
  <2>3. \A C \in AddressBook : Synced(task, r, configs, C) => Synced(task, q, configs', C)
    BY <1>0, <1>4, <2>1, <2>2 DEF Synced
  <2>4. QED  BY <1>4, <2>1, <2>2, <2>3, CalmConfigMoves
<1>5. CASE l \in Busy /\ Artifacts!FillList(l)
  <2>1. UNCHANGED <<calls, alone, configs>> /\ OpOf(l) # "sync" /\ r.phase = "fill" /\ Advanced(l)
    BY <1>5, FillListDoes
  <2>2. Onward(l).id = r.id /\ Onward(l).at = r.at + 1 /\ Onward(l).phase = "read" /\ Busy = {l}
    BY <1>0, <1>5, <2>1 DEF Onward, Working
  <2>3. CASE Moved(l, Onward(l)) /\ UNCHANGED returned
    <3>1. \A n \in DOMAIN Prog(task) : Prog(task)[n].op = "sync" =>
            /\ n < r.at + 1 => n < r.at
            /\ n > r.at + 1 \/ n = r.at + 1 => n > r.at
      BY <1>0, <1>5, <2>1
    <3>2. \A C \in AddressBook : Synced(task, r, configs, C) => Synced(task, Onward(l), configs', C)
      BY <2>1, <2>2, <3>1 DEF Synced
    <3>3. QED  BY <1>5, <2>1, <2>2, <2>3, <3>2, CalmConfigMoves
  <2>4. CASE r.at = Len(Prog(task)) /\ Moved(l, Artifacts!Idle) /\ returned' = returned \cup {r.id}
    <3>1. ~Syncs(l)
      BY <1>0, <1>5, <2>1, <2>4, Syncing DEF Syncs
    <3>2. QED  BY <1>5, <2>1, <2>2, <2>4, <3>1, CalmConfigEnds
  <2>5. QED  BY <2>1, <2>3, <2>4 DEF Advanced, Prog
<1>6. ASSUME l \in Busy, UNCHANGED <<calls, alone>>, OpOf(l) = "sync", Advanced(l), Syncs(l), Busy = {l},
             \A C \in AddressBook : Synced(task, r, configs, C) =>
               Shows(configs', FileOf(l), Renewed(task, r.id, C)),
             \A f \in Artifacts!Configs : f = FileOf(l) \/ configs'[f] = configs[f]
      PROVE  CalmConfigs'
  <2>1. Onward(l).id = r.id /\ Onward(l).at = r.at + 1 /\ Onward(l).phase = "read"
    BY <1>0, <1>6 DEF Onward, Working
  <2>2. ASSUME NEW n \in DOMAIN Prog(task), n # r.at, Prog(task)[n].op = "sync", NEW C,
               Shows(configs, Prog(task)[n].file, C)
        PROVE  Shows(configs', Prog(task)[n].file, C)
    <3>1. Prog(task)[n].file \in Artifacts!Configs /\ Prog(task)[n].file # FileOf(l)
      BY <1>0, <1>6, <2>2, Positions, Layout DEF Prog
    <3>2. QED  BY <1>6, <2>2, <3>1 DEF Shows
  <2>3. CASE Moved(l, Onward(l)) /\ UNCHANGED returned
    <3>1. \A n \in DOMAIN Prog(task) :
            /\ n < r.at + 1 => n < r.at \/ n = r.at
            /\ n > r.at + 1 \/ n = r.at + 1 => n > r.at
            /\ n > r.at \/ n < r.at => n # r.at
      BY <1>0, <1>6
    <3>2. ASSUME NEW C \in AddressBook, Synced(task, r, configs, C)
          PROVE  Synced(task, Onward(l), configs', C)
      <4>1. Shows(configs', Prog(task)[r.at].file, Renewed(task, r.id, C))
        BY <1>0, <1>6, <3>2
      <4>2. QED  BY <2>1, <2>2, <3>1, <3>2, <4>1 DEF Synced
    <3>3. QED  BY <1>6, <2>1, <2>3, <3>2, CalmConfigMoves
  <2>4. CASE r.at = Len(Prog(task)) /\ Moved(l, Artifacts!Idle) /\ returned' = returned \cup {r.id}
    <3>1. ASSUME NEW C \in AddressBook, Synced(task, r, configs, C), NEW f \in Artifacts!Configs
          PROVE  Shows(configs', f, Renewed(task, r.id, C))
      <4>1. PICK n \in DOMAIN Prog(task) : Prog(task)[n].op = "sync" /\ Prog(task)[n].file = f
        BY <1>6, Syncing DEF Syncs
      <4>2. CASE n = r.at
        BY <1>0, <1>6, <3>1, <4>1, <4>2
      <4>3. CASE n # r.at
        <5>1. n < r.at
          BY <1>0, <1>6, <2>4, <4>1, <4>3
        <5>2. Shows(configs, f, Renewed(task, r.id, C))
          BY <3>1, <4>1, <5>1 DEF Synced
        <5>3. QED  BY <2>2, <4>1, <4>3, <5>2
      <4>4. QED  BY <4>2, <4>3
    <3>2. QED  BY <1>6, <2>4, <3>1, CalmConfigEnds
  <2>5. QED  BY <1>6, <2>3, <2>4 DEF Advanced, Prog
<1>7. CASE l \in Busy /\ Artifacts!ReadConfig(l)
  <2> DEFINE old == configs[FileOf(l)].addresses
             c == Addressed(l, old)
             q == WithConfig(l, c)
  <2>1. /\ UNCHANGED <<calls, alone, configs>> /\ OpOf(l) = "sync" /\ r.phase = "read"
        /\ \/ (~IsSynced(l) \/ Artifacts!Skipped(FileOf(l))) /\ Advanced(l)
           \/ IsSynced(l) /\ ~Artifacts!Skipped(FileOf(l)) /\ Moved(l, q) /\ UNCHANGED returned
    BY <1>7, ReadConfigDoes
  <2>2. Busy = {l} /\ (Syncs(l) <=> IsSynced(l)) /\ Artifacts!Called(l).task = task
    BY <1>0, <1>7, <2>1, AtFile, BusyWork DEF Syncs, TaskOf
  <2>3. \A C : Synced(task, r, configs, C) => Shows(configs, FileOf(l), C)
    BY <1>0, <1>7, <2>1 DEF Synced
  <2>4. CASE Syncs(l) /\ Artifacts!Skipped(FileOf(l)) /\ Advanced(l)
    <3>1. ASSUME NEW C \in AddressBook, Synced(task, r, configs, C)
          PROVE  Shows(configs', FileOf(l), Renewed(task, r.id, C))
      <4>1. configs[FileOf(l)].state = "missing"
        BY <2>3, <2>4, <3>1 DEF Shows, Artifacts!Skipped
      <4>2. QED  BY <2>1, <4>1 DEF Shows
    <3>2. QED  BY <1>6, <1>7, <2>1, <2>2, <2>4, <3>1
  <2>5. CASE ~Syncs(l) /\ Advanced(l)
    <3>1. CASE Moved(l, Onward(l)) /\ UNCHANGED returned
      <4>1. Onward(l).id = r.id /\ Onward(l).phase = "read"
        BY <1>0, <1>7 DEF Onward, Working
      <4>2. QED  BY <1>7, <2>1, <2>2, <2>5, <3>1, <4>1, CalmConfigMoves
    <3>2. CASE Moved(l, Artifacts!Idle) /\ returned' = returned \cup {r.id}
      BY <1>7, <2>1, <2>2, <2>5, <3>2, CalmConfigEnds
    <3>3. QED  BY <2>5, <3>1, <3>2 DEF Advanced
  <2>6. CASE Syncs(l) /\ ~Artifacts!Skipped(FileOf(l)) /\ Moved(l, q) /\ UNCHANGED returned
    <3>1. q.id = r.id /\ q.at = r.at /\ q.config = c /\ q.phase = "open"
      BY <1>0, <1>7 DEF WithConfig, Working
    <3>2. ASSUME NEW C \in AddressBook, Synced(task, r, configs, C) PROVE Synced(task, q, configs', C)
      <4>1. Reads(FileOf(l), old, C)
        BY <2>3, <2>6, <3>2 DEF Shows, Artifacts!Skipped
      <4>2. /\ DOMAIN c \subseteq Artifacts!Keys
            /\ FileOf(l) # "consensus" => DOMAIN c = DOMAIN old \cup Artifacts!NormalizedAddresses(task)
            /\ \A k \in DOMAIN c :
                 /\ k \in Artifacts!NormalizedAddresses(task) => c[k] = r.id
                 /\ k \notin Artifacts!NormalizedAddresses(task) => k \in DOMAIN old /\ c[k] = old[k]
        BY <1>7, <2>1, Addressings
      <4> HIDE DEF c, q, old
      <4>3. Reads(FileOf(l), c, Renewed(task, r.id, C))
        BY <4>1, <4>2 DEF Reads, Renewed
      <4>4. QED  BY <1>0, <1>7, <2>1, <3>1, <3>2, <4>3 DEF Synced
    <3> HIDE DEF q
    <3>3. QED  BY <1>7, <2>1, <2>2, <2>6, <3>1, <3>2, CalmConfigMoves
  <2>7. QED  BY <2>1, <2>2, <2>4, <2>5, <2>6
<1>8. CASE l \in Busy /\ Artifacts!OpenConfig(l)
  <2> DEFINE q == Entered(l, "fill")
  <2>1. /\ UNCHANGED <<calls, alone, returned>> /\ OpOf(l) = "sync" /\ r.phase = "open" /\ Moved(l, q)
        /\ configs' = [configs EXCEPT ![FileOf(l)] = [state |-> "torn", addresses |-> Artifacts!NoAddresses]]
    BY <1>8, OpenConfigDoes
  <2>2. q.id = r.id /\ q.at = r.at /\ q.config = r.config /\ q.phase = "fill" /\ Busy = {l}
    BY <1>0, <1>8, <2>1 DEF Entered, Working
  <2>3. Syncs(l)
    BY <1>0, <1>8, <2>1, AtFile DEF Syncs
  <2> HIDE DEF q
  <2>4. ASSUME NEW n \in DOMAIN Prog(task), n # r.at, Prog(task)[n].op = "sync", NEW C,
               Shows(configs, Prog(task)[n].file, C)
        PROVE  Shows(configs', Prog(task)[n].file, C)
    <3>1. Prog(task)[n].file \in Artifacts!Configs /\ Prog(task)[n].file # FileOf(l)
      BY <1>0, <1>8, <2>4, Positions, Layout DEF Prog
    <3>2. QED  BY <2>1, <2>4, <3>1 DEF ArtTypes, Shows
  <2>5. \A n \in DOMAIN Prog(task) : n < r.at \/ n > r.at => n # r.at
    BY <1>0, <1>8
  <2>6. \A C \in AddressBook : Synced(task, r, configs, C) => Synced(task, q, configs', C)
    BY <2>1, <2>2, <2>4, <2>5 DEF Synced
  <2>7. QED  BY <1>8, <2>1, <2>2, <2>3, <2>6, CalmConfigMoves
<1>9. CASE l \in Busy /\ Artifacts!FillConfig(l)
  <2>1. /\ UNCHANGED <<calls, alone>> /\ OpOf(l) = "sync" /\ r.phase = "fill" /\ Advanced(l)
        /\ configs' = [configs EXCEPT ![FileOf(l)] = [state |-> "text", addresses |-> r.config]]
    BY <1>9, FillConfigDoes
  <2>2. Busy = {l} /\ Syncs(l) /\ FileOf(l) \in Artifacts!Configs
    BY <1>0, <1>9, <2>1, AtFile DEF Syncs
  <2>3. /\ configs'[FileOf(l)] = [state |-> "text", addresses |-> r.config]
        /\ \A f \in Artifacts!Configs : f = FileOf(l) \/ configs'[f] = configs[f]
    BY <2>1, <2>2 DEF ArtTypes
  <2>4. ASSUME NEW C \in AddressBook, Synced(task, r, configs, C)
        PROVE  Shows(configs', FileOf(l), Renewed(task, r.id, C))
    <3>1. Reads(FileOf(l), r.config, Renewed(task, r.id, C))
      BY <1>0, <1>9, <2>1, <2>4 DEF Synced
    <3>2. QED  BY <2>3, <3>1 DEF Shows
  <2>5. QED  BY <1>6, <1>9, <2>1, <2>2, <2>3, <2>4
<1>10. QED
  BY <1>1, <1>2, <1>3, <1>4, <1>5, <1>7, <1>8, <1>9
     DEF Artifacts!ReadList, Artifacts!SkipReading, Artifacts!OpenList, Artifacts!FillList,
         Artifacts!ReadConfig, Artifacts!OpenConfig, Artifacts!FillConfig, Artifacts!At, Busy

ArtCalm == alone /\ crashes = 0 => CalmLists /\ CalmConfigs
ArtInv == ArtTypes /\ ArtOnce /\ ArtAlone /\ ArtCalm

LEMMA ArtStep == ArtInv /\ [Artifacts!Next]_(Artifacts!vars) => ArtInv'
<1> SUFFICES ASSUME ArtInv, [Artifacts!Next]_(Artifacts!vars) PROVE ArtInv'
  OBVIOUS
<1>1. CASE UNCHANGED Artifacts!vars
  <2>1. UNCHANGED <<lists, configs, logger, calls, crashes, alone, returned>>
    BY <1>1 DEF Artifacts!vars
  <2>2. UNCHANGED Busy /\ \A l : UNCHANGED <<TaskOf(l), OpOf(l), IsSynced(l), Syncs(l)>>
    BY <2>1 DEF Busy, Artifacts!Busy, TaskOf, OpOf, IsSynced, Artifacts!IsSynced, Syncs
  <2>3. ArtTypes'
    BY <2>1, <2>2 DEF ArtInv, ArtTypes
  <2>4. ArtOnce'
    BY <2>1, <2>2 DEF ArtInv, ArtOnce, Proper, In, New
  <2>5. ArtAlone'
    BY <2>1, <2>2 DEF ArtInv, ArtAlone, Healthy
  <2>6. ASSUME CalmLists, NEW task \in Plain PROVE (\E B \in Seq(Nat) : CalmList(task, B))'
    <3>1. PICK B \in Seq(Nat) : CalmList(task, B)
      BY <2>6 DEF CalmLists
    <3>2. CalmList(task, B)'
      BY <2>1, <2>2, <3>1 DEF CalmList, In, Ids, Shown, Held
    <3>3. QED  BY <3>2
  <2>7. ASSUME CalmConfigs PROVE CalmConfigs'
    <3>1. PICK C \in AddressBook : CalmConfig(C)
      BY <2>7 DEF CalmConfigs
    <3>2. CalmConfig(C)'
      <4>1. Latest(C)'
        BY <2>1, <3>1, LatestStays DEF CalmConfig, ArtInv
      <4>2. QED  BY <2>1, <2>2, <3>1, <4>1 DEF CalmConfig, Synced, Shows
    <3>3. QED  BY <3>2 DEF CalmConfigs, AddressBook
  <2>8. QED  BY <2>1, <2>3, <2>4, <2>5, <2>6, <2>7 DEF ArtInv, ArtCalm, CalmLists
<1>2. CASE Artifacts!Next
  <2>1. PICK l \in Loggers :
          \/ Artifacts!Call(l) \/ Artifacts!ReadList(l) \/ Artifacts!SkipReading(l)
          \/ Artifacts!OpenList(l) \/ Artifacts!FillList(l) \/ Artifacts!ReadConfig(l)
          \/ Artifacts!OpenConfig(l) \/ Artifacts!FillConfig(l) \/ Artifacts!Crash(l)
    BY <1>2 DEF Artifacts!Next
  <2>2. ArtTypes' /\ ArtOnce'
    BY <2>1, OnceStep DEF ArtInv
  <2>3. ArtAlone'
    BY <2>1, AloneStep DEF ArtInv
  <2>4. CASE Artifacts!Crash(l)
    <3>1. crashes' = crashes + 1 /\ crashes \in Nat
      BY <2>1, <2>4, CrashDoes DEF ArtInv, ArtTypes
    <3>2. QED  BY <2>2, <2>3, <3>1 DEF ArtInv, ArtCalm
  <2>5. CASE ~Artifacts!Crash(l)
    <3>1. /\ UNCHANGED crashes /\ (alone' => alone)
      <4>1. CASE Artifacts!Call(l)
        BY <4>1 DEF Artifacts!Call
      <4>2. CASE Artifacts!ReadList(l) \/ Artifacts!SkipReading(l) \/ Artifacts!OpenList(l) \/ Artifacts!FillList(l)
        BY <4>2 DEF Artifacts!ReadList, Artifacts!SkipReading, Artifacts!OpenList, Artifacts!FillList
      <4>3. CASE Artifacts!ReadConfig(l) \/ Artifacts!OpenConfig(l) \/ Artifacts!FillConfig(l)
        BY <4>3 DEF Artifacts!ReadConfig, Artifacts!OpenConfig, Artifacts!FillConfig
      <4>4. QED  BY <2>1, <2>5, <4>1, <4>2, <4>3
    <3>2. ASSUME alone', crashes' = 0 PROVE CalmLists' /\ CalmConfigs'
      BY <2>1, <2>5, <3>1, <3>2, CalmListStep, CalmConfigStep DEF ArtInv, ArtCalm
    <3>3. QED  BY <2>2, <2>3, <3>2 DEF ArtInv, ArtCalm
  <2>6. QED  BY <2>4, <2>5
<1>3. QED  BY <1>1, <1>2

LEMMA ArtInitial == Artifacts!Init => ArtInv
<1> SUFFICES ASSUME Artifacts!Init PROVE ArtInv
  OBVIOUS
<1>1. /\ logger = [l \in Loggers |-> Artifacts!Idle] /\ calls = <<>> /\ crashes = 0 /\ returned = {}
  BY DEF Artifacts!Init
<1>2. /\ lists \in [Artifacts!ListFiles -> ListFile]
      /\ \A f \in Artifacts!ListFiles : /\ lists[f].log = <<>>
                                        /\ f # "chatHistory" => lists[f] = Artifacts!Listing(<<>>)
  <2>1. PICK chatHistory \in {"array", "object"} :
          lists = [f \in Artifacts!ListFiles |->
                     IF f = "chatHistory" THEN [state |-> chatHistory, log |-> <<>>] ELSE Artifacts!Listing(<<>>)]
    BY DEF Artifacts!Init
  <2>2. [state |-> chatHistory, log |-> <<>>] \in ListFile /\ Artifacts!Listing(<<>>) \in ListFile
    BY DEF ListFile, Artifacts!Listing
  <2>3. QED  BY <2>1, <2>2 DEF Artifacts!Listing
<1>3. Busy = {}
  BY <1>1 DEF Busy, Artifacts!Busy, Artifacts!Idle
<1>4. /\ configs \in [Artifacts!Configs -> ConfigFile]
      /\ \A f \in Artifacts!Configs : /\ configs[f].state \in {"missing", "text"}
                                      /\ \A k \in DOMAIN configs[f].addresses :
                                           k \in Artifacts!Keys /\ configs[f].addresses[k] = 0
  <2>1. PICK w \in [missing : SUBSET Artifacts!Configs, quoted : SUBSET Artifacts!Keys] :
          configs = [f \in Artifacts!Configs |->
                       [state     |-> IF f \in w.missing THEN "missing" ELSE "text",
                        addresses |-> IF f = "consensus" THEN [k \in w.quoted |-> 0] ELSE Artifacts!NoAddresses]]
    BY WorkspacesAssumption DEF Artifacts!Init, Artifacts!Workspace
  <2>2. w.quoted \in SUBSET Artifacts!Keys /\ [k \in w.quoted |-> 0] \in [w.quoted -> Nat]
    OBVIOUS
  <2>3. [k \in w.quoted |-> 0] \in Addressing
    BY <2>2 DEF Addressing
  <2>4. ASSUME NEW f \in Artifacts!Configs
        PROVE  /\ configs[f] \in ConfigFile /\ configs[f].state \in {"missing", "text"}
               /\ \A k \in DOMAIN configs[f].addresses :
                    k \in Artifacts!Keys /\ configs[f].addresses[k] = 0
    BY <2>1, <2>2, <2>3, NothingAddressed DEF ConfigFile
  <2>5. QED  BY <2>1, <2>4
<1>5. ArtTypes
  <2>1. logger \in [Loggers -> Working \cup {Artifacts!Idle}] /\ configs \in [Artifacts!Configs -> ConfigFile]
    BY <1>1, <1>4
  <2>2. calls \in Seq(Entry) /\ crashes \in Nat /\ returned \subseteq DOMAIN calls
    BY <1>1
  <2>3. QED  BY <1>2, <1>3, <2>1, <2>2 DEF ArtTypes
<1>6. ArtOnce
  <2>1. \A f \in Artifacts!ListFiles : DOMAIN lists[f].log = {}
    BY <1>2, EmptySeq
  <2>2. QED  BY <1>3, <2>1 DEF ArtOnce, Proper
<1>7. ArtAlone
  BY <1>3 DEF ArtAlone
<1>8. CalmLists
  <2>1. PICK B \in Seq(Nat) : B = <<>>
    BY EmptySeq
  <2>2. In(B) = {}
    BY <2>1 DEF In
  <2>3. ASSUME NEW task \in Plain PROVE CalmList(task, B)
    <3>1. task \in Tasks /\ task # "chat"
      BY DEF Plain, Tasks
    <3>2. ASSUME NEW n \in DOMAIN Prog(task), Prog(task)[n].op # "sync"
          PROVE  lists[Prog(task)[n].file] = Artifacts!Listing(B)
      <4>1. Prog(task)[n].file \in Artifacts!ListFiles
        BY <3>1, <3>2, Positions DEF Prog
      <4>2. 1 \in DOMAIN Prog("chat") /\ Prog("chat")[1].file = "chatHistory" /\ "chat" \in Tasks
        BY Programs DEF Prog, Tasks
      <4>3. Prog(task)[n].file # "chatHistory"
        BY <3>1, <3>2, <4>2, Layout
      <4>4. QED  BY <1>2, <2>1, <4>1, <4>3
    <3>3. Held(task, lists, B)
      BY <3>2 DEF Held
    <3>4. Ids(task) = {}
      BY <1>1 DEF Ids
    <3>5. QED  BY <1>3, <2>2, <3>3, <3>4 DEF CalmList
  <2>4. QED  BY <2>3 DEF CalmLists
<1>9. CalmConfigs
  <2> DEFINE C == [k \in Artifacts!Keys |-> 0]
  <2>1. C \in AddressBook /\ Latest(C)
    BY <1>1 DEF AddressBook, Latest, Artifacts!IsLatest, Artifacts!Gave
  <2>2. \A f \in Artifacts!Configs : Shows(configs, f, C)
    BY <1>4 DEF Shows, Reads
  <2>3. CalmConfig(C)
    BY <1>3, <2>1, <2>2 DEF CalmConfig
  <2>4. QED  BY <2>1, <2>3 DEF CalmConfigs
<1>10. QED  BY <1>5, <1>6, <1>7, <1>8, <1>9 DEF ArtInv, ArtCalm

LEMMA ArtConsequences == ArtInv => Artifacts!ListedOnce /\ Artifacts!NothingLostWhenCalm
<1> SUFFICES ASSUME ArtInv PROVE Artifacts!ListedOnce /\ Artifacts!NothingLostWhenCalm
  OBVIOUS
<1>1. Artifacts!ListedOnce
  BY DEF ArtInv, ArtOnce, Proper, Artifacts!ListedOnce
<1>2. ASSUME alone, crashes = 0, Busy = {}
      PROVE  /\ Artifacts!Entries("history") = Artifacts!IdsOf("dao")
             /\ lists["lib"] = lists["history"]
             /\ Artifacts!Entries("transactions") = Artifacts!IdsOf("transaction")
             /\ Artifacts!Entries("hashes") = Artifacts!IdsOf("hash")
             /\ \A f \in {g \in Artifacts!Configs : configs[g].state # "missing"} :
                  /\ \A k \in DOMAIN configs[f].addresses : Artifacts!IsLatest(k, configs[f].addresses[k])
                  /\ f # "consensus" =>
                       {k \in Artifacts!Keys : Artifacts!Gave(k) # {}} \subseteq DOMAIN configs[f].addresses
  <2>1. CalmLists /\ CalmConfigs
    BY <1>2 DEF ArtInv, ArtCalm
  <2>2. \A task \in Plain : \E B \in Seq(Nat) : In(B) = Artifacts!IdsOf(task) /\ Held(task, lists, B)
    BY <1>2, <2>1 DEF CalmLists, CalmList, Ids, Artifacts!IdsOf
  <2>3. \A f, B : lists[f] = Artifacts!Listing(B) => Artifacts!Entries(f) = In(B)
    BY DEF Artifacts!Listing, Artifacts!Entries, In
  <2>4. PICK B \in Seq(Nat) : In(B) = Artifacts!IdsOf("dao") /\ Held("dao", lists, B)
    BY <2>2 DEF Plain
  <2>5. \A f \in {"history", "lib"} : lists[f] = Artifacts!Listing(B)
    <3>1. /\ 1 \in DOMAIN Prog("dao") /\ Prog("dao")[1] = [op |-> "append", file |-> "history"]
          /\ 2 \in DOMAIN Prog("dao") /\ Prog("dao")[2] = [op |-> "copy", file |-> "lib"]
      BY Programs DEF Prog
    <3>2. QED  BY <2>4, <3>1 DEF Held
  <2>6. PICK T \in Seq(Nat) : In(T) = Artifacts!IdsOf("transaction") /\ Held("transaction", lists, T)
    BY <2>2 DEF Plain
  <2>7. PICK H \in Seq(Nat) : In(H) = Artifacts!IdsOf("hash") /\ Held("hash", lists, H)
    BY <2>2 DEF Plain
  <2>8. lists["transactions"] = Artifacts!Listing(T) /\ lists["hashes"] = Artifacts!Listing(H)
    <3>1. /\ 1 \in DOMAIN Prog("transaction") /\ Prog("transaction")[1] = [op |-> "append", file |-> "transactions"]
          /\ 1 \in DOMAIN Prog("hash") /\ Prog("hash")[1] = [op |-> "append", file |-> "hashes"]
      BY Programs DEF Prog
    <3>2. QED  BY <2>6, <2>7, <3>1 DEF Held
  <2>9. ASSUME NEW f \in Artifacts!Configs, configs[f].state # "missing"
        PROVE  /\ \A k \in DOMAIN configs[f].addresses : Artifacts!IsLatest(k, configs[f].addresses[k])
               /\ f # "consensus" =>
                    {k \in Artifacts!Keys : Artifacts!Gave(k) # {}} \subseteq DOMAIN configs[f].addresses
    <3>1. PICK C \in AddressBook : Latest(C) /\ Shows(configs, f, C)
      BY <1>2, <2>1, <2>9 DEF CalmConfigs, CalmConfig
    <3>2. Reads(f, configs[f].addresses, C)
      BY <2>9, <3>1 DEF Shows
    <3>3. \A k \in Artifacts!Keys : Artifacts!Gave(k) # {} => C[k] # 0
      <4>1. \A k : 0 \notin Artifacts!Gave(k) /\ Artifacts!Gave(k) \subseteq Nat
        BY DEF Artifacts!Gave, ArtInv, ArtTypes
      <4>2. QED  BY <3>1, <4>1 DEF Latest, Artifacts!IsLatest
    <3>4. QED  BY <3>1, <3>2, <3>3 DEF Reads, Latest
  <2>10. QED  BY <2>3, <2>4, <2>5, <2>6, <2>7, <2>8, <2>9
<1>3. QED  BY <1>1, <1>2 DEF Artifacts!NothingLostWhenCalm, Busy
-----------------------------------------------------------------------------
(* Sessions of the five groups.  Outside its own session a group's state is  *)
(* that of NoBootstrap, and no script has a local variable of another's.     *)
NotBootstrapping ==
  /\ "i" \notin DOMAIN mine
  /\ entry = "none" /\ balances = [v \in Validator |-> 0] /\ late = [v \in Validator |-> 0]

SessionInv ==
  \/ session = "bootstrap" /\ BootInv
  \/ session = "chat" /\ ChatInv /\ NotBootstrapping
  \/ session = "treasury" /\ TreasuryInv /\ NotBootstrapping
  \/ session = "client" /\ ClientInv /\ NotBootstrapping
  \/ session = "artifacts" /\ ArtInv /\ NotBootstrapping

LEMMA SessionInitial == SessionInit => SessionInv
<1> SUFFICES ASSUME SessionInit PROVE SessionInv
  OBVIOUS
<1>1. CASE session = "bootstrap" /\ Init
  BY <1>1, BootInitial DEF SessionInv
<1>2. CASE session = "chat" /\ Chat!Init /\ NoBootstrap
  <2>1. ChatInv
    BY <1>2, ChatInitial
  <2>2. QED  BY <1>2, <2>1 DEF SessionInv, NotBootstrapping, NoBootstrap, ChatInv, ChatProcess
<1>3. CASE session = "treasury" /\ Treasury!Init /\ NoBootstrap
  <2>1. TreasuryInv
    BY <1>3, TreasuryInitial
  <2>2. QED  BY <1>3, <2>1 DEF SessionInv, NotBootstrapping, NoBootstrap, TreasuryInv
<1>4. CASE session = "client" /\ Client!Init /\ NoBootstrap
  <2>1. ClientInv
    BY <1>4, ClientInitial
  <2>2. QED  BY <1>4, <2>1 DEF SessionInv, NotBootstrapping, NoBootstrap, ClientInv
<1>5. CASE session = "artifacts" /\ Artifacts!Init /\ ScriptInit /\ NoBootstrap
  BY <1>5, ArtInitial, NothingLearnt DEF SessionInv, NotBootstrapping, NoBootstrap, ScriptInit
<1>6. QED  BY <1>1, <1>2, <1>3, <1>4, <1>5 DEF SessionInit

LEMMA SessionStep == SessionInv /\ [SessionNext]_all => SessionInv'
<1> SUFFICES ASSUME SessionInv, [SessionNext]_all PROVE SessionInv'
  OBVIOUS
<1>1. CASE session = "bootstrap" /\ [Next]_vars /\ UNCHANGED session
  BY <1>1, BootStep DEF SessionInv
<1>2. CASE session = "chat" /\ [Chat!Next]_(Chat!vars) /\ UNCHANGED <<session, ofBootstrap>>
  <2>1. ChatInv'
    BY <1>2, ChatStep DEF SessionInv
  <2>2. QED  BY <1>2, <2>1 DEF SessionInv, NotBootstrapping, ofBootstrap, money, ChatInv, ChatProcess
<1>3. CASE session = "treasury" /\ [Treasury!Next]_(Treasury!vars) /\ UNCHANGED <<session, ofBootstrap>>
  <2>1. TreasuryInv'
    BY <1>3, TreasuryStep DEF SessionInv
  <2>2. QED  BY <1>3, <2>1 DEF SessionInv, NotBootstrapping, ofBootstrap, money, TreasuryInv
<1>4. CASE session = "client" /\ [Client!Next]_(Client!vars) /\ UNCHANGED <<session, ofBootstrap>>
  <2>1. ClientInv'
    BY <1>4, ClientStep DEF SessionInv
  <2>2. QED  BY <1>4, <2>1 DEF SessionInv, NotBootstrapping, ofBootstrap, money, ClientInv
<1>5. CASE /\ session = "artifacts" /\ [Artifacts!Next]_(Artifacts!vars)
           /\ UNCHANGED <<session, script, ofBootstrap>>
  <2>1. ArtInv'
    BY <1>5, ArtStep DEF SessionInv
  <2>2. QED  BY <1>5, <2>1 DEF SessionInv, NotBootstrapping, ofBootstrap, money, script
<1>6. CASE SessionNext
  BY <1>1, <1>2, <1>3, <1>4, <1>5, <1>6 DEF SessionNext
<1>7. CASE UNCHANGED all
  <2>1. UNCHANGED <<session, script, ofBootstrap, ofChat, ofTreasury, ofClient, ofArtifacts>>
    BY <1>7 DEF all
  <2>2. /\ UNCHANGED vars /\ UNCHANGED Chat!vars /\ UNCHANGED Treasury!vars /\ UNCHANGED Client!vars
        /\ UNCHANGED Artifacts!vars
    BY <2>1 DEF vars, script, ofBootstrap, ofChat, ofTreasury, ofClient, ofArtifacts, Chat!vars, Chat!script,
                Treasury!vars, Treasury!script, Client!vars, Client!script, Artifacts!vars
  <2>3. QED  BY <1>1, <1>2, <1>3, <1>4, <1>5, <2>1, <2>2 DEF SessionInv
<1>8. QED  BY <1>6, <1>7

(* What the scripts may rely on at each step, in whichever session.          *)
THEOREM SessionInductive == SessionSpec => []SessionInv
BY SessionInitial, SessionStep, PTL DEF SessionSpec

LEMMA SessionConsequences ==
  SessionInv => /\ SummaryIsTrue /\ FundingDoesNotPileUp /\ CleanRunBootstraps
                /\ AbandonedAreBare /\ FundedIsManageable
                /\ RequestedIsStored /\ TasksMatchRequests
                /\ ListedOnce /\ NothingLostWhenCalm
<1> SUFFICES ASSUME SessionInv
             PROVE  /\ SummaryIsTrue /\ FundingDoesNotPileUp /\ CleanRunBootstraps
                    /\ AbandonedAreBare /\ FundedIsManageable
                    /\ RequestedIsStored /\ TasksMatchRequests
                    /\ ListedOnce /\ NothingLostWhenCalm
  OBVIOUS
<1>1. SummaryIsTrue /\ FundingDoesNotPileUp /\ CleanRunBootstraps
  <2>1. CASE BootInv
    BY <2>1, BootConsequences
  <2>2. CASE NotBootstrapping
    <3>1. \A v \in Validator : balances[v] <= Cap(late[v])
      <4>1. Cap(0) \in Nat /\ \A v \in Validator : balances[v] = 0 /\ late[v] = 0
        BY <2>2, Capped DEF NotBootstrapping
      <4>2. QED  BY <4>1
    <3>2. QED
      BY <2>2, <3>1 DEF NotBootstrapping, SummaryIsTrue, FundingDoesNotPileUp, CleanRunBootstraps, Cap
  <2>3. QED  BY <2>1, <2>2 DEF SessionInv
<1>2. AbandonedAreBare /\ FundedIsManageable
  BY ChatConsequences DEF SessionInv, AbandonedAreBare, FundedIsManageable
<1>3. RequestedIsStored /\ TasksMatchRequests
  BY ClientTasksMatch DEF SessionInv, ClientInv, RequestedIsStored, TasksMatchRequests
<1>4. ListedOnce /\ NothingLostWhenCalm
  BY ArtConsequences DEF SessionInv, ListedOnce, NothingLostWhenCalm
<1>5. QED  BY <1>1, <1>2, <1>3, <1>4

(* Each validator of the file is counted once in the summary, and those      *)
(* counted as registered are in the registry, although answers get lost and  *)
(* accounts register themselves meanwhile.                                   *)
THEOREM SummariesAreTrue == SessionSpec => []SummaryIsTrue
BY SessionInductive, SessionConsequences, PTL

(* However many runs fail, an account is never left with more than one       *)
(* registration takes, and that once more for every funding that was mined   *)
(* after its run had given it up.                                            *)
THEOREM FundingTopsUp == SessionSpec => []FundingDoesNotPileUp
BY SessionInductive, SessionConsequences, PTL

(* A run in which nothing fails leaves a record of a contract, and the same  *)
(* address in every configuration that has one.  If it is a registry, the    *)
(* run has registered every validator before the first key it rejects, or    *)
(* has found as many accounts there as there are validators.                 *)
THEOREM CleanRunsBootstrap == SessionSpec => []CleanRunBootstraps
BY SessionInductive, SessionConsequences, PTL

(* Instances from unanswered attempts stay bare and are not the one that is  *)
(* reported, for every number of attempts.                                   *)
THEOREM AbandonedStayBare == SessionSpec => []AbandonedAreBare
BY SessionInductive, SessionConsequences, PTL

(* Wherever the deployment of the chat utility stops, one that has received  *)
(* its funds belongs to the deployer or to a timelock the deployer can work. *)
THEOREM FundsAreManaged == SessionSpec => []FundedIsManageable
BY SessionInductive, SessionConsequences, PTL

(* A request on the chain names the prompt that was meant.                   *)
THEOREM RequestsHavePrompts == SessionSpec => []RequestedIsStored
BY SessionInductive, SessionConsequences, PTL

(* Enqueueing again after a lost answer makes no second task.                *)
THEOREM OneTaskEach == SessionSpec => []TasksMatchRequests
BY SessionInductive, SessionConsequences, PTL

LEMMA SessionRefuses ==
  SessionInv /\ [SessionNext]_all => (session = "treasury" => Treasury!WhatFailureLeavesStep)
<1> SUFFICES ASSUME SessionInv, [SessionNext]_all, session = "treasury" PROVE Treasury!WhatFailureLeavesStep
  OBVIOUS
<1>1. TreasuryInv
  BY DEF SessionInv
<1>2. [Treasury!Next]_(Treasury!vars)
  BY DEF SessionNext, all, script, ofTreasury, Treasury!vars, Treasury!script
<1>3. QED  BY <1>1, <1>2, TreasuryFailures

(* A treasury script that fails of itself has deployed nothing or all it was *)
(* to deploy; with a bad TIMELOCK_ADDRESS, a stand-in for the admin at most. *)
THEOREM FailuresLeaveLittle == SessionSpec => WhatFailureLeaves
BY SessionInductive, SessionRefuses, PTL DEF SessionSpec, WhatFailureLeaves

(* Whatever overlaps and whoever is killed, no deployment is listed twice.   *)
THEOREM NoDuplicates == SessionSpec => []ListedOnce
BY SessionInductive, SessionConsequences, PTL

(* Calls that do not overlap and are not killed lose nothing: the history    *)
(* and the library's copy of it agree, and every configuration there is has  *)
(* the latest address of each key it has.                                    *)
THEOREM NothingLost == SessionSpec => []NothingLostWhenCalm
BY SessionInductive, SessionConsequences, PTL

LEMMA SessionHeals ==
  SessionInv /\ [SessionNext]_all => (session = "artifacts" => Artifacts!ReturningHealsStep)
<1> SUFFICES ASSUME SessionInv, [SessionNext]_all, session = "artifacts" PROVE Artifacts!ReturningHealsStep
  OBVIOUS
<1>1. ArtTypes /\ ArtAlone
  BY DEF SessionInv, ArtInv
<1>2. [Artifacts!Next]_(Artifacts!vars)
  BY DEF SessionNext, all, ofArtifacts, Artifacts!vars
<1>3. QED  BY <1>1, <1>2, Heals

(* A call that works alone and returns leaves its deployment in the history, *)
(* the library's copy and .env, if there is one, whatever calls killed       *)
(* before it have left torn.                                                 *)
THEOREM ReturnsHeal == SessionSpec => ReturningHeals
BY SessionInductive, SessionHeals, PTL DEF SessionSpec, ReturningHeals
=============================================================================
