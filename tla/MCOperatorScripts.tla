-------------------------- MODULE MCOperatorScripts --------------------------
(***************************************************************************)
(* The scripts an operator runs besides deploying governance, for TLC: a   *)
(* session works with one of the five groups of scripts, which share       *)
(* nothing but the chain.  The bounds are those of every session, save     *)
(* that an inference session has one run more: store, request, enqueue.    *)
(***************************************************************************)
EXTENDS ValidatorBootstrap

CONSTANTS MaxRetries,          \* attempts at deploying the chat utility
          Prompts,             \* prompt texts
          Window, MaxBlock,    \* blocks searched for events; bound on the height
          Loggers, Workspaces, \* processes that log, and what is around them
          MaxCalls, MaxCrashes \* bounds on them

ASSUME SessionsAssumption ==
  /\ MaxRetries \in Nat \ {0} /\ Window \in Nat /\ MaxBlock \in Nat
  /\ MaxCalls \in Nat /\ MaxCrashes \in Nat

VARIABLES session, hasOwnerWallet, reported, env, hasConfig, stored, tasks, block,
          lists, configs, logger, calls, crashes, alone, returned

Chat     == INSTANCE ChatUtilityDeployment
Treasury == INSTANCE TreasuryDeployment
Client   == INSTANCE InferenceClient WITH MaxRuns <- MaxRuns + 1
Artifacts == INSTANCE DeploymentArtifacts

ASSUME WorkspacesAssumption == Workspaces \subseteq Artifacts!Workspace

(* For TLC: empty accounts, and accounts with the stake but no gas. *)
SomeEndowments == {[v \in Validator |-> 0], [v \in Validator |-> Stake]}

(* For TLC: every file there with every key, .env missing, consensus.yaml    *)
(* missing, and consensus.yaml with one key only.                            *)
SomeWorkspaces ==
  LET every == {"timelock", "governor", "chatUtility"} IN
  {[missing |-> {}, quoted |-> every], [missing |-> {"env"}, quoted |-> every],
   [missing |-> {"consensus"}, quoted |-> {}], [missing |-> {}, quoted |-> {"timelock"}]}

ofBootstrap == <<files, keys, money, entry, clean>>
ofChat      == <<hasOwnerWallet, reported>>
ofTreasury  == <<env, hasConfig>>
ofClient    == <<stored, tasks, block>>
ofArtifacts == <<lists, configs, logger, calls, crashes, alone, returned>>
all         == <<script, session, ofBootstrap, ofChat, ofTreasury, ofClient, ofArtifacts>>

NoBootstrap ==
  /\ record = 0 /\ config = [f \in ConfigFiles |-> 0] /\ torn = {}
  /\ pending = {} /\ late = [v \in Validator |-> 0]
  /\ keys = [v \in Validator |-> "plain"] /\ balances = [v \in Validator |-> 0]
  /\ entry = "none" /\ clean = TRUE
NoChat     == hasOwnerWallet = FALSE /\ reported = {}
NoTreasury == env = {} /\ hasConfig = FALSE
NoClient   == stored = <<>> /\ tasks = {} /\ block = 0
NoArtifacts ==
  /\ lists = {} /\ configs = {} /\ logger = {} /\ calls = <<>>
  /\ crashes = 0 /\ alone = TRUE /\ returned = {}

SessionInit ==
  \/ session = "bootstrap" /\ Init /\ NoChat /\ NoTreasury /\ NoClient /\ NoArtifacts
  \/ session = "chat" /\ Chat!Init /\ NoBootstrap /\ NoTreasury /\ NoClient /\ NoArtifacts
  \/ session = "treasury" /\ Treasury!Init /\ NoBootstrap /\ NoChat /\ NoClient /\ NoArtifacts
  \/ session = "client" /\ Client!Init /\ NoBootstrap /\ NoChat /\ NoTreasury /\ NoArtifacts
  \/ /\ session = "artifacts" /\ Artifacts!Init /\ NoBootstrap /\ NoChat /\ NoTreasury /\ NoClient
     /\ chain = <<>> /\ ScriptInit

SessionNext ==
  /\ UNCHANGED session
  /\ \/ /\ session = "bootstrap" /\ Next
        /\ UNCHANGED <<ofChat, ofTreasury, ofClient, ofArtifacts>>
     \/ /\ session = "chat" /\ Chat!Next
        /\ UNCHANGED <<ofBootstrap, ofTreasury, ofClient, ofArtifacts>>
     \/ /\ session = "treasury" /\ Treasury!Next
        /\ UNCHANGED <<ofBootstrap, ofChat, ofClient, ofArtifacts>>
     \/ /\ session = "client" /\ Client!Next
        /\ UNCHANGED <<ofBootstrap, ofChat, ofTreasury, ofArtifacts>>
     \/ /\ session = "artifacts" /\ Artifacts!Next
        /\ UNCHANGED <<script, ofBootstrap, ofChat, ofTreasury, ofClient>>

SessionSpec == SessionInit /\ [][SessionNext]_all
-----------------------------------------------------------------------------
(* Attempts at deploying the chat utility that were mined but not answered   *)
(* leave instances behind that stay bare, and are not the one reported.      *)
AbandonedAreBare == session = "chat" => Chat!AbandonedAreBare

(* A funded chat utility can be administered by the deployer, itself or      *)
(* through a timelock, wherever the script stopped.                          *)
FundedIsManageable == session = "chat" => Chat!FundedIsManageable

(* A run of a treasury script that fails of itself has put nothing on the    *)
(* chain or all it was to deploy, save with a bad TIMELOCK_ADDRESS.          *)
WhatFailureLeaves == [][session = "treasury" => Treasury!WhatFailureLeavesStep]_all

(* A request on the chain refers to a prompt the coordinator has, and to the *)
(* right one.                                                                *)
RequestedIsStored == session = "client" => Client!RequestedIsStored

(* There is a task per version 1 request at most, with its prompt.           *)
TasksMatchRequests == session = "client" => Client!TasksMatchRequests

(* Deployments logged one after the other are in the history and the         *)
(* library's copy of it, and the configurations there are have the latest    *)
(* addresses for the keys they have.                                         *)
NothingLostWhenCalm == session = "artifacts" => Artifacts!NothingLostWhenCalm

(* Whatever overlaps and whoever is killed, no deployment is listed twice.   *)
ListedOnce == session = "artifacts" => Artifacts!ListedOnce

(* A logging call that returns repairs the lists, and .env if there is one,  *)
(* that calls killed before it left torn.                                    *)
ReturningHeals == [][session = "artifacts" => Artifacts!ReturningHealsStep]_all
=============================================================================
