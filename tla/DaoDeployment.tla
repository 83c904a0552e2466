---------------------------- MODULE DaoDeployment ----------------------------
(***************************************************************************)
(* scripts/deployment/deploy.ts, the DAO on its own, and the beginning of  *)
(* scripts/deployment/deploy-smart-contracts.ts, the DAO with the chat     *)
(* utility, which never gets further than that.                            *)
(*                                                                         *)
(* deploy.ts sends its three grants without waiting for them.  They are    *)
(* pending until they are mined, in the order of the deployer's nonces and *)
(* before any later transaction of the deployer, whether or not the script *)
(* is still running.                                                       *)
(***************************************************************************)
EXTENDS Script

VARIABLES env,      \* ADMIN_CONTRACT_ADDRESS and USE_MOCK_ADMIN
          pending,  \* grants sent and not yet mined
          history   \* deploymentsHistory.json: the entries logged

vars == <<script, env, pending, history>>

Safe == [kind |-> "Safe"]
Env  == [admin : {"unset", "account", "contract"}, useMockAdmin : BOOLEAN]

Init ==
  /\ chain = <<Safe>> /\ env \in Env
  /\ pending = <<>> /\ history = <<>>
  /\ ScriptInit

Admin == IF "mock" \in DOMAIN mine THEN mine.mock ELSE 1

(* Bound: the other script is tried once, and first. *)
Start    == Invoke("timelock") /\ UNCHANGED <<env, pending, history>>
StartAll == runs = 0 /\ Invoke("allVoting") /\ UNCHANGED <<env, pending, history>>

(* A transaction of the deployer is mined after the pending ones. *)
DeployNext(at, next, name, contract) ==
  /\ Deploy(at, next, name, contract)
  /\ chain' # chain => pending = <<>>
  /\ UNCHANGED <<env, pending, history>>

NewTimelock(proposers, executors) ==
  [kind |-> "Timelock", admins |-> {Deployer}, proposers |-> proposers,
   executors |-> executors, cancellers |-> proposers]

DeployTimelock == DeployNext("timelock", "voting", "timelock", NewTimelock({}, {}))

DeployVotingPower ==
  DeployNext("voting", "admin", "token", [kind |-> "VotingPower"])

ResolveAdmin ==
  /\ pc = "admin"
  /\ CASE env.admin = "contract" -> Goto("governor") /\ UNCHANGED mine
       [] env.admin = "unset" /\ env.useMockAdmin -> Goto("mock") /\ UNCHANGED mine
       [] OTHER -> Throw
  /\ UNCHANGED <<chain, env, pending, history>>

DeployMockAdmin == DeployNext("mock", "governor", "mock", [kind |-> "MockAdmin"])

DeployGovernor ==
  DeployNext("governor", "grants", "governor",
    [kind |-> "Governor", token |-> mine.token, timelock |-> mine.timelock, admin |-> Admin])

(* For comparison: the timelock is the first one ever recorded. *)
GrantOnFirst(role) ==
  [role |-> role, timelock |-> CHOOSE t \in Instances("Timelock") : \A u \in Instances("Timelock") : t <= u,
   to |-> mine.governor]

Grant(role) == [role |-> role, timelock |-> mine.timelock, to |-> mine.governor]

(* For comparison: executorRole is copied where cancelRole is meant. *)
GrantsCopied == <<Grant("proposers"), Grant("executors"), Grant("executors")>>

Grants == <<Grant("proposers"), Grant("executors"), Grant("cancellers")>>

(* All three are sent, or the script fails after sending the first n. *)
SendGrants ==
  /\ pc = "grants"
  /\ \/ pending' = pending \o Grants /\ Goto("benchmark") /\ UNCHANGED mine
     \/ \E n \in 0..3 : pending' = pending \o SubSeq(Grants, 1, n) /\ Lost
  /\ UNCHANGED <<chain, env, history>>

MineGrant ==
  /\ pending # <<>>
  /\ LET g == Head(pending)
     IN chain' = [chain EXCEPT ![g.timelock][g.role] = @ \cup {g.to}]
  /\ pending' = Tail(pending)
  /\ UNCHANGED <<mine, pc, runs, faults, env, history>>

DeployBenchmarkRegistry == DeployNext("benchmark", "counter", "benchmark", [kind |-> "BenchmarkRegistry"])
DeployCounter == DeployNext("counter", "log", "counter", [kind |-> "Counter", owner |-> mine.timelock])

LogDeployment ==
  /\ pc = "log"
  /\ \/ /\ history' = Append(history, [timelock |-> mine.timelock, governor |-> mine.governor])
        /\ Goto("done") /\ UNCHANGED mine
     \/ Lost /\ UNCHANGED history
  /\ UNCHANGED <<chain, env, pending>>

-------------------------------------------------------------------------------
(* deploy-smart-contracts.ts gives LCAIGovernor the deployer, an account     *)
(* without code, as its admin: the constructor reverts.                      *)

AllDeployVotingPower ==
  DeployNext("allVoting", "allTimelock", "token", [kind |-> "VotingPower"])
AllDeployTimelock ==
  DeployNext("allTimelock", "allGovernor", "timelock", NewTimelock({Deployer}, {Deployer}))
AllDeployGovernor ==
  /\ pc = "allGovernor" /\ Throw
  /\ UNCHANGED <<chain, env, pending, history>>

Step ==
  \/ DeployTimelock \/ DeployVotingPower \/ ResolveAdmin \/ DeployMockAdmin
  \/ DeployGovernor \/ SendGrants \/ DeployBenchmarkRegistry \/ DeployCounter \/ LogDeployment
  \/ AllDeployVotingPower \/ AllDeployTimelock \/ AllDeployGovernor

Next == Start \/ StartAll \/ Step \/ MineGrant

(* The chain mines what was sent; the script runs until it ends; the         *)
(* operator starts deploy.ts again until it succeeds.                        *)
Fairness ==
  /\ WF_vars(Step) /\ WF_vars(MineGrant)
  /\ WF_vars(pc # "done" /\ Start)

Spec == Init /\ [][Next]_vars /\ Fairness
-------------------------------------------------------------------------------
(* Although no grant is waited for, a deployment that reached the history is *)
(* one in which the governor can propose, execute and cancel: the contracts  *)
(* deployed afterwards are waited for, and their nonces are later.           *)
LoggedIsGoverned ==
  \A i \in DOMAIN history :
    LET t == chain[history[i].timelock]
    IN history[i].governor \in t.proposers \cap t.executors \cap t.cancellers

(* Grants that are still pending when a script dies and another one starts   *)
(* never give a governor power over somebody else's timelock.                *)
OwnGovernorOnly ==
  \A t \in Instances("Timelock") :
    \A g \in (chain[t].proposers \cup chain[t].executors) \ {Deployer} : chain[g].timelock = t

(* An operator that keeps running deploy.ts with a usable admin ends up with *)
(* a logged deployment, one run having gone to the other script.             *)
Usable == env.admin = "contract" \/ (env.admin = "unset" /\ env.useMockAdmin)
EventuallyLogged == Usable /\ MaxRuns > MaxFaults + 1 => <>(history # <<>>)

==============================================================================
