--------------------------- MODULE GovernanceStack ---------------------------
(***************************************************************************)
(* scripts/deployment/deploy-governance-stack.ts: timelock, governor,      *)
(* treasury and chat subscription, with the handover of the timelock from  *)
(* the deployer to the admin in between.                                   *)
(***************************************************************************)
EXTENDS Script

VARIABLES env,     \* network and environment variables of the operator
          saved    \* deployments/governance-stack-deployment.json

vars == <<script, env, saved>>

Missing == <<>>                         \* no such file
Torn    == [torn |-> TRUE]              \* the process died while writing it

(* What the chain holds before the script ever runs: a token the operator  *)
(* may name, and the addresses in CONFIG, which may or may not have code.  *)
Safe  == [kind |-> "Safe"]
Token == [kind |-> "WLCAI"]
Other == [kind |-> "ERC20"]
OtherToken == 1
Configured == {<<Other>>, <<Other, Safe>>, <<Other, Token>>, <<Other, Safe, Token>>}

(* WLCAI_ADDRESS and PAYMENT_TOKEN_ADDRESS are passed on unchecked.  The     *)
(* first may be an account without code.  The second may be any account; a   *)
(* "bad" one is the zero address or no address.                              *)
Unset == "unset"
Env == [isLocal : BOOLEAN, useMockAdmin : BOOLEAN,
        wlcai : {Unset, "account", "contract"}, paymentToken : {Unset, "account", "bad"}]

Init == chain \in Configured /\ env \in Env /\ saved = Missing /\ ScriptInit

Multisig    == CHOOSE a \in DOMAIN chain : chain[a] = Safe
VotingToken == CHOOSE a \in DOMAIN chain : chain[a] = Token

Admin == IF "admin" \in DOMAIN mine THEN mine.admin ELSE Multisig
VotingTokenAddress ==
  CASE env.wlcai = "account"  -> Deployer
    [] env.wlcai = "contract" -> OtherToken
    [] OTHER -> IF env.isLocal THEN mine.wlcai ELSE VotingToken

(* paymentTokenEnv || votingTokenAddress *)
PaymentTokenAddress == IF env.paymentToken = Unset THEN VotingTokenAddress ELSE Deployer

Start == Invoke("admin") /\ UNCHANGED <<env, saved>>

(* For comparison: a local network gets no stand-in for the admin. *)
CheckAdminStrict ==
  /\ pc = "admin"
  /\ IF Safe \in {chain[a] : a \in DOMAIN chain} THEN Goto("token") /\ UNCHANGED mine
     ELSE IF env.useMockAdmin THEN Goto("mock") /\ UNCHANGED mine
     ELSE Throw
  /\ UNCHANGED <<chain, env, saved>>

(* STEP 0.  The admin must be a contract. *)
CheckAdmin ==
  /\ pc = "admin"
  /\ IF Safe \in {chain[a] : a \in DOMAIN chain} THEN Goto("token") /\ UNCHANGED mine
     ELSE IF env.useMockAdmin \/ env.isLocal THEN Goto("mock") /\ UNCHANGED mine
     ELSE Throw
  /\ UNCHANGED <<chain, env, saved>>

DeployMockAdmin ==
  /\ Deploy("mock", "token", "admin", [kind |-> "MockAdmin", owner |-> Deployer])
  /\ UNCHANGED <<env, saved>>

(* STEP 1.  The token comes from the environment, from CONFIG (checked to  *)
(* be a contract) or is deployed, on a local network only.                 *)
SetUpVotingToken ==
  /\ pc = "token"
  /\ IF env.wlcai # Unset THEN Goto("timelock") /\ UNCHANGED mine
     ELSE IF env.isLocal THEN Goto("wlcai") /\ UNCHANGED mine
     ELSE IF Token \in {chain[a] : a \in DOMAIN chain} THEN Goto("timelock") /\ UNCHANGED mine
     ELSE Throw
  /\ UNCHANGED <<chain, env, saved>>

DeployWLCAI == Deploy("wlcai", "timelock", "wlcai", Token) /\ UNCHANGED <<env, saved>>

(* STEP 2.  The deployer is the first administrator of its timelock (besides *)
(* the timelock itself, which can do nothing before it has a proposer).      *)
DeployTimelock ==
  /\ Deploy("timelock", "governor", "timelock",
       [kind |-> "Timelock", admins |-> {Deployer}, proposers |-> {}, cancellers |-> {},
        openExecutor |-> TRUE])
  /\ UNCHANGED <<env, saved>>

(* STEP 3.  The governor's constructor asks the token for its clock, which   *)
(* reverts where there is no code.                                           *)
DeployGovernor ==
  /\ pc = "governor"
  /\ IF Contract(VotingTokenAddress)
     THEN Deploy("governor", "grantProposer", "governor",
            [kind |-> "Governor", token |-> VotingTokenAddress, timelock |-> mine.timelock, admin |-> Admin])
     ELSE Refused
  /\ UNCHANGED <<env, saved>>

(* STEP 4.  Roles are handed over one transaction at a time. *)
Timelock == chain[mine.timelock]
GrantProposer ==
  /\ Send("grantProposer", "grantCanceller", mine.timelock, [Timelock EXCEPT !.proposers = @ \cup {mine.governor}])
  /\ UNCHANGED <<env, saved>>

(* For comparison: the grant to the admin is left out. *)
GrantCancellerThenRevoke ==
  /\ Send("grantCanceller", "revokeDeployer", mine.timelock, [Timelock EXCEPT !.cancellers = @ \cup {mine.governor}])
  /\ UNCHANGED <<env, saved>>

GrantCanceller ==
  /\ Send("grantCanceller", "grantAdmin", mine.timelock, [Timelock EXCEPT !.cancellers = @ \cup {mine.governor}])
  /\ UNCHANGED <<env, saved>>

(* For comparison: the deployer keeps its role until the end. *)
GrantAdminOnly ==
  /\ Send("grantAdmin", "treasury", mine.timelock, [Timelock EXCEPT !.admins = @ \cup {Admin}])
  /\ UNCHANGED <<env, saved>>

GrantAdmin ==
  /\ Send("grantAdmin", "revokeDeployer", mine.timelock, [Timelock EXCEPT !.admins = @ \cup {Admin}])
  /\ UNCHANGED <<env, saved>>

RevokeDeployer ==
  /\ Send("revokeDeployer", "verify", mine.timelock, [Timelock EXCEPT !.admins = @ \ {Deployer}])
  /\ UNCHANGED <<env, saved>>

RolesConfigured(t) ==
  /\ mine.governor \in t.proposers \cap t.cancellers
  /\ Admin \in t.admins
  /\ Deployer \notin t.admins

VerifyRoles ==
  /\ pc = "verify"
  /\ IF RolesConfigured(Timelock) THEN Goto("treasury") /\ UNCHANGED mine ELSE Throw
  /\ UNCHANGED <<chain, env, saved>>

(* STEP 5. *)
DeployTreasury ==
  /\ Deploy("treasury", "subscription", "treasury",
       [kind |-> "Treasury", owner |-> mine.timelock, admin |-> Admin])
  /\ UNCHANGED <<env, saved>>

(* For comparison: PAYMENT_TOKEN_ADDRESS is recorded and not passed on. *)
DeploySubscriptionDefault ==
  /\ pc = "subscription"
  /\ IF env.paymentToken = "bad" THEN Refused
     ELSE Deploy("subscription", "save", "subscription",
            [kind |-> "Subscription", token |-> VotingTokenAddress, treasury |-> mine.treasury,
             owner |-> mine.timelock, admin |-> Admin])
  /\ UNCHANGED <<env, saved>>

(* STEP 6.  The constructor refuses the zero address only. *)
DeploySubscription ==
  /\ pc = "subscription"
  /\ IF env.paymentToken = "bad" THEN Refused
     ELSE Deploy("subscription", "save", "subscription",
            [kind |-> "Subscription", token |-> PaymentTokenAddress, treasury |-> mine.treasury,
             owner |-> mine.timelock, admin |-> Admin])
  /\ UNCHANGED <<env, saved>>

Deployment ==
  [timelock |-> mine.timelock, governor |-> mine.governor, treasury |-> mine.treasury,
   subscription |-> mine.subscription, token |-> VotingTokenAddress,
   paymentToken |-> PaymentTokenAddress, admin |-> Admin]

(* writeFileSync truncates the file before it writes it. *)
SaveDeployment ==
  /\ pc = "save"
  /\ \/ saved' = Deployment /\ Goto("done") /\ UNCHANGED mine
     \/ saved' = Torn /\ Lost
  /\ UNCHANGED <<chain, env>>

Step ==
  \/ CheckAdmin \/ DeployMockAdmin \/ SetUpVotingToken \/ DeployWLCAI
  \/ DeployTimelock \/ DeployGovernor
  \/ GrantProposer \/ GrantCanceller \/ GrantAdmin \/ RevokeDeployer \/ VerifyRoles
  \/ DeployTreasury \/ DeploySubscription \/ SaveDeployment

Next == Start \/ Step

(* The process goes on until it ends; the operator runs it until it succeeds. *)
Fairness == WF_vars(Step) /\ WF_vars(pc # "done" /\ Start)

Spec == Init /\ [][Next]_vars /\ Fairness
-------------------------------------------------------------------------------
Recorded == saved \notin {Missing, Torn}

(* Wherever the handover is interrupted, and in whichever run, no timelock   *)
(* on the chain is left without an administrator: a stack abandoned half-way *)
(* can still be repaired by the deployer or by the admin.                    *)
AlwaysAdministered == \A t \in Instances("Timelock") : chain[t].admins # {}

(* Steps 5 and 6 come after step 4: money can never arrive in a contract     *)
(* whose timelock the deployer still controls, or no governor can propose to,*)
(* not even in a contract left behind by a run that failed.                  *)
HandedOver ==
  \A c \in Instances("Treasury") \cup Instances("Subscription") :
    /\ IsA(chain[c].owner, "Timelock")
    /\ LET t == chain[chain[c].owner]
       IN /\ t.admins = {chain[c].admin}
          /\ \E g \in t.proposers \cap t.cancellers :
               IsA(g, "Governor") /\ chain[g].timelock = chain[c].owner /\ chain[g].admin = chain[c].admin

(* A recorded deployment is one stack of one run, however many runs failed   *)
(* before it or after it: the record names the contracts' own timelock,      *)
(* treasury, tokens and admin.  Only a PAYMENT_TOKEN_ADDRESS makes users pay  *)
(* in another token than the one that votes.                                 *)
RecordedStack ==
  Recorded =>
    /\ chain[saved.governor].timelock = saved.timelock
    /\ chain[saved.treasury].owner = saved.timelock
    /\ chain[saved.subscription].owner = saved.timelock
    /\ chain[saved.subscription].treasury = saved.treasury
    /\ chain[saved.governor].token = saved.token
    /\ chain[saved.subscription].token = saved.paymentToken
    /\ env.paymentToken = Unset => saved.paymentToken = saved.token
    /\ {chain[saved.governor].admin, chain[saved.treasury].admin, chain[saved.subscription].admin} = {saved.admin}

(* An operator that starts again after every failure gets its stack, when    *)
(* the addresses it names and those in CONFIG have code, or stand-ins may be *)
(* deployed.  With a WLCAI_ADDRESS without code no run can end deployed.     *)
Deployable ==
  /\ env.isLocal \/ env.useMockAdmin \/ Safe \in {chain[a] : a \in DOMAIN chain}
  /\ \/ env.wlcai = "contract"
     \/ env.wlcai = Unset /\ (env.isLocal \/ Token \in {chain[a] : a \in DOMAIN chain})
  /\ env.paymentToken # "bad"

EventuallyRecorded == Deployable /\ MaxRuns > MaxFaults => <>Recorded
==============================================================================
