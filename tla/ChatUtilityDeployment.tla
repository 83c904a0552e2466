------------------------ MODULE ChatUtilityDeployment ------------------------
(***************************************************************************)
(* scripts/deployment/deploy-chat-utility.ts (a timelock of its own, the   *)
(* chat utility with five attempts, then three steps whose failure is only *)
(* reported), RoleAssigner.fundContract, and deploy-chat-utility-local.ts. *)
(***************************************************************************)
EXTENDS Script

CONSTANT MaxRetries            \* maxRetries

OwnerWallet == 1000            \* OWNER_WALLET_ADDRESS, an account
FundingAmount == 100           \* LCAI

VARIABLES hasOwnerWallet,      \* OWNER_WALLET_ADDRESS is set
          reported             \* the deployments the script has logged as successful

vars == <<script, hasOwnerWallet, reported>>

(* A timelock exists already, for TIMELOCK_ADDRESS of the local script. *)
Init ==
  /\ chain = <<[kind |-> "Timelock", admins |-> {}, proposers |-> {}, executors |-> {}]>>
  /\ hasOwnerWallet \in BOOLEAN
  /\ reported = {}
  /\ ScriptInit

Chats == Instances("ChatUtility")
Chat == chain[mine.chat]

Start == Invoke("timelock") /\ UNCHANGED <<hasOwnerWallet, reported>>

(* For comparison: nobody is made an executor. *)
DeployTimelockWithoutExecutor ==
  /\ Deploy("timelock", "chat", "timelock",
       [kind |-> "Timelock", admins |-> {Deployer}, proposers |-> {Deployer}, executors |-> {}])
  /\ UNCHANGED <<hasOwnerWallet, reported>>

(* STEP 1.  The deployer proposes, executes and administers. *)
DeployTimelockController ==
  /\ Deploy("timelock", "chat", "timelock",
       [kind |-> "Timelock", admins |-> {Deployer}, proposers |-> {Deployer}, executors |-> {Deployer}])
  /\ UNCHANGED <<hasOwnerWallet, reported>>

(* Ownable(msg.sender); the deployer may issue rewards from the start. *)
NewChat == [kind |-> "ChatUtility", run |-> runs, owner |-> Deployer, issuers |-> {Deployer}, balance |-> 0]

Attempt == IF "attempt" \in DOMAIN mine THEN mine.attempt ELSE 1

(* The catch clause of the loop: another attempt, or give up. *)
NextAttempt ==
  /\ Fault
  /\ IF Attempt = MaxRetries THEN pc' = "failed" /\ mine' = NoLocals
     ELSE pc' = "chat" /\ Learn("attempt", Attempt + 1)

(* For comparison: the variable keeps the instance of the first attempt. *)
DeployChatUtilityKeepingFirst ==
  /\ pc = "chat"
  /\ \/ /\ chain' = Append(chain, NewChat)
        /\ Goto("verify") \/ (Fault /\ pc' = "chat")
        /\ IF "chat" \in DOMAIN mine THEN UNCHANGED mine ELSE Learn("chat", Len(chain) + 1)
     \/ (NextAttempt \/ Lost) /\ UNCHANGED chain
  /\ UNCHANGED <<hasOwnerWallet, reported>>

(* STEP 2.  An attempt that was mined but not answered counts as failed: the *)
(* next one deploys a second instance.                                       *)
DeployChatUtility ==
  /\ pc = "chat"
  /\ \/ /\ chain' = Append(chain, NewChat)
        /\ \/ Goto("verify") /\ Learn("chat", Len(chain) + 1)
           \/ NextAttempt
           \/ Lost
     \/ (NextAttempt \/ Lost) /\ UNCHANGED chain
  /\ UNCHANGED <<hasOwnerWallet, reported>>

(* Reads only; a failing read ends the process. *)
VerifyDeployment ==
  /\ pc = "verify"
  /\ \/ Goto("authorize") /\ UNCHANGED mine
     \/ Lost
  /\ UNCHANGED <<chain, hasOwnerWallet, reported>>

(* A transaction in a try block whose catch only logs: whatever becomes of   *)
(* it the script goes on, unless the process itself dies.                    *)
SendCaught(at, next, a, contract) ==
  /\ pc = at
  /\ \/ /\ chain' = [chain EXCEPT ![a] = contract]
        /\ Goto(next) /\ UNCHANGED mine
     \/ /\ chain' \in {chain, [chain EXCEPT ![a] = contract]}
        /\ Fault
        /\ \/ pc' = next /\ UNCHANGED mine
           \/ pc' = "failed" /\ mine' = NoLocals

(* STEP 3.  The deployer, and the owner wallet if there is one, are to be    *)
(* issuers; who is one already is left alone.                                *)
AuthorizeOwnerWallet ==
  /\ SendCaught("authorize", "transfer", mine.chat,
       [Chat EXCEPT !.issuers = @ \cup (IF hasOwnerWallet THEN {OwnerWallet} ELSE {Deployer})])
  /\ UNCHANGED <<hasOwnerWallet, reported>>

(* STEP 4. *)
TransferOwnership ==
  /\ SendCaught("transfer", "fund", mine.chat, [Chat EXCEPT !.owner = mine.timelock])
  /\ UNCHANGED <<hasOwnerWallet, reported>>

(* STEP 5, RoleAssigner.fundContract. *)
FundContract ==
  /\ SendCaught("fund", "log", mine.chat, [Chat EXCEPT !.balance = @ + FundingAmount])
  /\ UNCHANGED <<hasOwnerWallet, reported>>

(* The log, the next steps and the summary say the same whatever happened. *)
LogAndSummarize ==
  /\ pc = "log"
  /\ \/ /\ reported' = reported \cup {[timelock |-> mine.timelock, chat |-> mine.chat]}
        /\ Goto("done") /\ UNCHANGED mine
     \/ Lost /\ UNCHANGED reported
  /\ UNCHANGED <<chain, hasOwnerWallet>>
-------------------------------------------------------------------------------
(* deploy-chat-utility-local.ts hands over to TIMELOCK_ADDRESS, here the     *)
(* timelock that existed before, and does not catch anything.                *)
LocalTimelock == 1

StartLocal == Invoke("localChat") /\ UNCHANGED <<hasOwnerWallet, reported>>
LocalDeployChatUtility ==
  Deploy("localChat", "localTransfer", "chat", NewChat) /\ UNCHANGED <<hasOwnerWallet, reported>>
LocalTransferOwnership ==
  /\ Send("localTransfer", "localSummary", mine.chat, [Chat EXCEPT !.owner = LocalTimelock])
  /\ UNCHANGED <<hasOwnerWallet, reported>>
LocalSummary ==
  /\ pc = "localSummary" /\ Goto("done")
  /\ reported' = reported \cup {[timelock |-> LocalTimelock, chat |-> mine.chat]}
  /\ UNCHANGED <<chain, mine, hasOwnerWallet>>

Step ==
  \/ DeployTimelockController \/ DeployChatUtility \/ VerifyDeployment
  \/ AuthorizeOwnerWallet \/ TransferOwnership \/ FundContract \/ LogAndSummarize
  \/ LocalDeployChatUtility \/ LocalTransferOwnership \/ LocalSummary

Next == Start \/ StartLocal \/ Step

Spec == Init /\ [][Next]_vars
-------------------------------------------------------------------------------
(* Attempts that were mined but not answered leave instances behind.  Money, *)
(* the owner wallet's right to issue, the timelock and the record go to one  *)
(* instance of a run, the last: the others stay empty and the deployer's.    *)
AbandonedAreBare ==
  \A c, d \in Chats :
    c < d /\ chain[c].run = chain[d].run =>
      /\ chain[c].owner = Deployer /\ chain[c].balance = 0 /\ chain[c].issuers = {Deployer}
      /\ \A r \in reported : r.chat # c

(* A funded vault can be administered: its owner is the deployer itself or a *)
(* timelock through which the deployer can propose and execute.              *)
FundedIsManageable ==
  \A c \in Chats : chain[c].balance > 0 =>
    \/ chain[c].owner = Deployer
    \/ LET t == chain[chain[c].owner] IN Deployer \in t.proposers \cap t.executors

==============================================================================
