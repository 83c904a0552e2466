-------------------------- MODULE TreasuryDeployment --------------------------
(***************************************************************************)
(* scripts/deployment/deploy-lcai-treasury.ts and                          *)
(* scripts/deployment/deploy-lcai-chat-subscription.ts, run one after the  *)
(* other by an operator who passes addresses on in the environment.  Both  *)
(* stop at a statement that cannot succeed, after their contract is on the *)
(* chain; what they do after it (saving the record) never happens and has  *)
(* no action here.                                                         *)
(***************************************************************************)
EXTENDS Script

VARIABLES env,           \* the variables of the current run
          hasConfig      \* hardhat's network object has a config (not in Hardhat 3)

vars == <<script, env, hasConfig>>

(* A "bad" address is the zero address or none at all: the scripts test only *)
(* that TIMELOCK_ADDRESS and the like are there.                             *)
Unset == "unset"
Address == {Unset, "bad", "good"}
Env == [timelock : Address, token : Address, treasury : Address,
        admin : {Unset, "bad", "account", "contract"}, useMockAdmin : BOOLEAN]

SomeSafe == [kind |-> "Safe", run |-> 0]
Init == chain = <<SomeSafe>> /\ env \in Env /\ hasConfig \in BOOLEAN /\ ScriptInit

(* The operator sets the environment and starts one of the scripts. *)
StartTreasury     == Invoke("treasuryConfig") /\ env' \in Env /\ UNCHANGED hasConfig
StartSubscription == Invoke("subscriptionInputs") /\ env' \in Env /\ UNCHANGED hasConfig

Decision(at, next, ok) ==
  /\ pc = at
  /\ IF ok THEN Goto(next) /\ UNCHANGED mine ELSE Throw
  /\ UNCHANGED <<chain, env, hasConfig>>

-------------------------------------------------------------------------------
(* deploy-lcai-treasury.ts *)

(* networkConfig.explorer?.url throws when there is no networkConfig. *)
ReadConfig    == Decision("treasuryConfig", "treasuryTimelock", hasConfig)
CheckTimelock == Decision("treasuryTimelock", "treasuryAdmin", env.timelock # Unset)

(* For comparison: the stand-in is deployed whenever it is allowed. *)
ResolveAdminEagerly ==
  /\ pc = "treasuryAdmin"
  /\ IF env.useMockAdmin THEN Goto("treasuryMock") /\ UNCHANGED mine
     ELSE IF env.admin # Unset THEN Goto("treasuryCode") /\ UNCHANGED mine
     ELSE Throw
  /\ UNCHANGED <<chain, env, hasConfig>>

ResolveAdmin ==
  /\ pc = "treasuryAdmin"
  /\ IF env.admin # Unset THEN Goto("treasuryCode") /\ UNCHANGED mine
     ELSE IF env.useMockAdmin THEN Goto("treasuryMock") /\ UNCHANGED mine
     ELSE Throw
  /\ UNCHANGED <<chain, env, hasConfig>>

DeployMockAdmin ==
  /\ Deploy("treasuryMock", "treasuryCode", "mock", [kind |-> "MockAdmin", run |-> runs])
  /\ UNCHANGED <<env, hasConfig>>

Admin == CASE env.admin = "contract" -> 1
           [] env.admin = Unset /\ "mock" \in DOMAIN mine -> mine.mock
           [] OTHER -> Deployer

CheckAdminCode == Decision("treasuryCode", "treasuryDeploy", Contract(Admin))

(* The owner must not be the zero address. *)
DeployTreasury ==
  /\ pc = "treasuryDeploy"
  /\ IF env.timelock = "bad" THEN Refused
     ELSE Deploy("treasuryDeploy", "treasuryVerify", "treasury",
            [kind |-> "LCAITreasury", run |-> runs, admin |-> Admin])
  /\ UNCHANGED <<env, hasConfig>>

(* Reads owner() and admin(), then spent() without the argument it needs     *)
(* and isWhitelisted(), isBlacklisted(), which LCAITreasury does not have.   *)
VerifyTreasury == Decision("treasuryVerify", "treasurySave", FALSE)

-------------------------------------------------------------------------------
(* deploy-lcai-chat-subscription.ts *)

CheckInputs == Decision("subscriptionInputs", "subscriptionDeploy", Unset \notin {env.token, env.treasury, env.timelock})

(* ADMIN_ADDRESS defaults to the deployer; accounts are accepted. *)
SubscriptionAdmin == IF env.admin = "contract" THEN 1 ELSE Deployer

(* None of the four may be the zero address. *)
DeploySubscription ==
  /\ pc = "subscriptionDeploy"
  /\ IF "bad" \in {env.token, env.treasury, env.timelock, env.admin} THEN Refused
     ELSE Deploy("subscriptionDeploy", "subscriptionVerify", "subscription",
            [kind |-> "LCAIChatSubscription", run |-> runs, admin |-> SubscriptionAdmin])
  /\ UNCHANGED <<env, hasConfig>>

VerifySubscription ==
  /\ pc = "subscriptionVerify"
  /\ (Goto("subscriptionData") /\ UNCHANGED mine) \/ Lost
  /\ UNCHANGED <<chain, env, hasConfig>>

(* deploymentData refers to defaultAdminAddress, which is not declared. *)
BuildDeploymentData == Decision("subscriptionData", "subscriptionSave", FALSE)

Next ==
  \/ StartTreasury \/ ReadConfig \/ CheckTimelock \/ ResolveAdmin \/ DeployMockAdmin
  \/ CheckAdminCode \/ DeployTreasury \/ VerifyTreasury
  \/ StartSubscription \/ CheckInputs \/ DeploySubscription \/ VerifySubscription \/ BuildDeploymentData

Spec == Init /\ [][Next]_vars
-------------------------------------------------------------------------------
OfThisRun == {a \in DOMAIN chain : chain[a].run = runs}
FailsOfItself == pc # "failed" /\ pc' = "failed" /\ ~Fault

WhatFailureLeavesStep ==
  FailsOfItself =>
    IF env.timelock = "bad" THEN OfThisRun \subseteq Instances("MockAdmin")
    ELSE \/ OfThisRun = {}
         \/ "subscription" \in DOMAIN mine /\ OfThisRun = {mine.subscription}
         \/ /\ "treasury" \in DOMAIN mine
            /\ OfThisRun = {mine.treasury} \cup (OfThisRun \cap {chain[mine.treasury].admin})

(* A run that fails of itself, no answer being lost, leaves nothing on the   *)
(* chain or the whole of what it was to deploy, unrecorded: a stand-in for   *)
(* the admin is never paid for and then left without its treasury.  A bad    *)
(* TIMELOCK_ADDRESS is the exception: nothing looks at it before the         *)
(* treasury's constructor does, when the stand-in has been deployed.         *)
WhatFailureLeaves == [][WhatFailureLeavesStep]_vars
==============================================================================
