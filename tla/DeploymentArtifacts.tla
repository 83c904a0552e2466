------------------------- MODULE DeploymentArtifacts -------------------------
(***************************************************************************)
(* The files in which scripts/logs/data/data_logger.ts and                 *)
(* scripts/deployment/utils/updateDeploymentArtifacts.ts record what was   *)
(* deployed.  Every script is a process of its own; two of them may log at *)
(* the same time, nothing locks the files, and a process can be killed     *)
(* after writeFileSync has truncated a file and before it is full again.   *)
(***************************************************************************)
EXTENDS Naturals, Sequences, FiniteSets, TLC

CONSTANTS Loggers,              \* processes that log
          Workspaces,           \* a subset of Workspace
          MaxCalls, MaxCrashes  \* bounds

ListFiles == {"history", "lib", "frontend", "chatHistory", "chatFrontend", "transactions", "hashes"}
Configs == {"genesis", "consensus", "env"}
Keys == {"timelock", "governor", "chatUtility"}

(* The configurations that are missing, and the keys that consensus.yaml has *)
(* with an address in quotes.                                                *)
Workspace == [missing : SUBSET Configs, quoted : SUBSET Keys]

VARIABLES lists,       \* files that hold a list of entries, by the number of the call
          configs,     \* files that hold addresses, by the call that wrote them; 0: an older one
          logger,      \* what each process is doing
          calls,       \* task and network of every call
          crashes,
          alone,       \* no two calls at the same time, so far
          returned     \* the calls that have returned

vars == <<lists, configs, logger, calls, crashes, alone, returned>>

Torn == [state |-> "torn", log |-> <<>>]
Listing(log) == [state |-> "array", log |-> log]
NoAddresses == [k \in {} |-> 0]

(* What each function does, file after file. *)
Do(op, file) == [op |-> op, file |-> file]
SyncDeploymentArtifacts == <<Do("sync", "genesis"), Do("sync", "consensus"), Do("sync", "env")>>

(* For comparison: the library's copy is written before the history. *)
ProgramCopyingFirst ==
  [dao         |-> <<Do("copy", "lib"), Do("append", "history"), Do("copy", "frontend")>> \o SyncDeploymentArtifacts,
   chat        |-> <<Do("append", "chatHistory"), Do("replace", "chatFrontend")>> \o SyncDeploymentArtifacts,
   transaction |-> <<Do("append", "transactions")>>,
   hash        |-> <<Do("append", "hashes")>>]

Program ==
  [dao         |-> <<Do("append", "history"), Do("copy", "lib"), Do("copy", "frontend")>> \o SyncDeploymentArtifacts,
   chat        |-> <<Do("append", "chatHistory"), Do("replace", "chatFrontend")>> \o SyncDeploymentArtifacts,
   transaction |-> <<Do("append", "transactions")>>,
   hash        |-> <<Do("append", "hashes")>>]

(* The addresses that are present and not zero. *)
NormalizedAddresses(task) ==
  CASE task = "dao"  -> {"timelock", "governor"}
    [] task = "chat" -> {"timelock", "chatUtility"}
    [] OTHER         -> {}

Idle == [phase |-> "idle"]

Init ==
  /\ \E chatHistory \in {"array", "object"} :     \* the committed file holds an object
       lists = [f \in ListFiles |->
                  IF f = "chatHistory" THEN [state |-> chatHistory, log |-> <<>>] ELSE Listing(<<>>)]
  /\ \E workspace \in Workspaces :
       configs = [f \in Configs |->
                    [state     |-> IF f \in workspace.missing THEN "missing" ELSE "text",
                     addresses |-> IF f = "consensus" THEN [k \in workspace.quoted |-> 0] ELSE NoAddresses]]
  /\ logger = [l \in Loggers |-> Idle]
  /\ calls = <<>> /\ crashes = 0 /\ alone = TRUE /\ returned = {}

Busy == {l \in Loggers : logger[l].phase # "idle"}

Call(l) ==
  /\ l \notin Busy /\ Len(calls) < MaxCalls
  /\ alone' = (alone /\ Busy = {})
  /\ \E task \in DOMAIN Program :
       /\ \E network \in IF NormalizedAddresses(task) = {} THEN {"other"} ELSE {"lcai_testnet_v2", "other"} :
            calls' = Append(calls, [task |-> task, network |-> network])
       /\ logger' = [logger EXCEPT ![l] =
            [id |-> Len(calls) + 1, at |-> 1, phase |-> "read", list |-> <<>>, config |-> NoAddresses]]
  /\ UNCHANGED <<lists, configs, crashes, returned>>

Called(l) == calls[logger[l].id]
Op(l) == Program[Called(l).task][logger[l].at]
Enter(l, phase) == logger' = [logger EXCEPT ![l].phase = phase]
At(l, op, phase) == l \in Busy /\ logger[l].phase = phase /\ Op(l).op = op

(* The call returns after the last file, or throws. *)
Leave(l) == logger' = [logger EXCEPT ![l] = Idle]
Proceed(l) ==
  IF logger[l].at = Len(Program[Called(l).task])
  THEN Leave(l) /\ returned' = returned \cup {logger[l].id}
  ELSE logger' = [logger EXCEPT ![l].at = @ + 1, ![l].phase = "read"] /\ UNCHANGED returned

Appended(l, log) == Append(log, logger[l].id)

(* A list that cannot be parsed is started afresh, the hashes excepted; a    *)
(* list that is an object has no push, which throws.                         *)
ReadList(l) ==
  /\ At(l, "append", "read")
  /\ LET file == lists[Op(l).file] IN
       \/ /\ file.state = "array" \/ (file.state = "torn" /\ Op(l).file # "hashes")
          /\ logger' = [logger EXCEPT ![l].phase = "open", ![l].list = Appended(l, file.log)]
       \/ /\ file.state = "object" \/ (file.state = "torn" /\ Op(l).file = "hashes")
          /\ Leave(l)
  /\ UNCHANGED <<lists, configs, calls, crashes, alone, returned>>

(* For comparison: the entry is pushed again for each copy. *)
WrittenPushedAgain(l) ==
  IF Op(l).op = "replace" THEN <<logger[l].id>> ELSE Append(logger[l].list, logger[l].id)

Written(l) == IF Op(l).op = "replace" THEN <<logger[l].id>> ELSE logger[l].list

(* The copies and the frontend's file are written without being read. *)
SkipReading(l) ==
  /\ At(l, "copy", "read") \/ At(l, "replace", "read")
  /\ logger' = [logger EXCEPT ![l].phase = "open", ![l].list = Written(l)]
  /\ UNCHANGED <<lists, configs, calls, crashes, alone, returned>>

OpenList(l) ==
  /\ At(l, "append", "open") \/ At(l, "copy", "open") \/ At(l, "replace", "open")
  /\ lists' = [lists EXCEPT ![Op(l).file] = Torn]
  /\ Enter(l, "fill")
  /\ UNCHANGED <<configs, calls, crashes, alone, returned>>

FillList(l) ==
  /\ At(l, "append", "fill") \/ At(l, "copy", "fill") \/ At(l, "replace", "fill")
  /\ lists' = [lists EXCEPT ![Op(l).file] = Listing(logger[l].list)]
  /\ Proceed(l)
  /\ UNCHANGED <<configs, calls, crashes, alone>>

IsSynced(network) == network = "lcai_testnet_v2"

(* For comparison: a key that .env has already keeps its address. *)
ReplacedOnce(l, file, old) ==
  LET given == NormalizedAddresses(Called(l).task)
  IN [k \in IF file = "consensus" THEN DOMAIN old ELSE DOMAIN old \cup given |->
        IF k \in given /\ ~(file = "env" /\ k \in DOMAIN old) THEN logger[l].id ELSE old[k]]

(* Addresses that are not provided stay.  genesis.json and .env get the keys *)
(* they lack; in consensus.yaml only a key that is there is replaced.        *)
Replaced(l, file, old) ==
  LET given == NormalizedAddresses(Called(l).task)
  IN [k \in IF file = "consensus" THEN DOMAIN old ELSE DOMAIN old \cup given |->
        IF k \in given THEN logger[l].id ELSE old[k]]

(* A file that is missing is left so, and an empty genesis.json, which does  *)
(* not parse, as it is.                                                      *)
Skipped(file) == configs[file].state = "missing" \/ (file = "genesis" /\ configs[file].state = "torn")

ReadConfig(l) ==
  /\ At(l, "sync", "read")
  /\ LET file == Op(l).file IN
       \/ /\ ~IsSynced(Called(l).network) \/ Skipped(file)
          /\ Proceed(l)
       \/ /\ IsSynced(Called(l).network) /\ ~Skipped(file)
          /\ logger' = [logger EXCEPT
               ![l].phase = "open", ![l].config = Replaced(l, file, configs[file].addresses)]
          /\ UNCHANGED returned
  /\ UNCHANGED <<lists, configs, calls, crashes, alone>>

(* Truncated, .env has no line and consensus.yaml no key, to be replaced. *)
OpenConfig(l) ==
  /\ At(l, "sync", "open")
  /\ configs' = [configs EXCEPT ![Op(l).file] = [state |-> "torn", addresses |-> NoAddresses]]
  /\ Enter(l, "fill")
  /\ UNCHANGED <<lists, calls, crashes, alone, returned>>

FillConfig(l) ==
  /\ At(l, "sync", "fill")
  /\ configs' = [configs EXCEPT ![Op(l).file] = [state |-> "text", addresses |-> logger[l].config]]
  /\ Proceed(l)
  /\ UNCHANGED <<lists, calls, crashes, alone>>

Crash(l) ==
  /\ l \in Busy /\ crashes < MaxCrashes
  /\ crashes' = crashes + 1
  /\ Leave(l)
  /\ UNCHANGED <<lists, configs, calls, alone, returned>>

Next ==
  \E l \in Loggers :
    \/ Call(l) \/ ReadList(l) \/ SkipReading(l) \/ OpenList(l) \/ FillList(l)
    \/ ReadConfig(l) \/ OpenConfig(l) \/ FillConfig(l) \/ Crash(l)

Spec == Init /\ [][Next]_vars
-------------------------------------------------------------------------------
Entries(f) == {lists[f].log[i] : i \in DOMAIN lists[f].log}
IdsOf(task) == {id \in returned : calls[id].task = task}

(* The calls that gave an address of k to the test network's files, and the  *)
(* last of them; 0 if there is none.                                         *)
Gave(k) == {id \in returned : IsSynced(calls[id].network) /\ k \in NormalizedAddresses(calls[id].task)}
IsLatest(k, id) == id \in Gave(k) \cup {0} /\ \A other \in Gave(k) : other <= id

(* Calls one after the other lose nothing.  Every deployment, transaction    *)
(* and hash whose call returned is in its list, and the library has the      *)
(* whole history.  A configuration there is has the address that was given   *)
(* last for each key it has, and genesis.json and .env have every key that   *)
(* was given.                                                                *)
(*                                                                           *)
(* Nothing is said of the front end's copy of the history: logDeployments-   *)
(* History writes the whole history to it (data_logger.ts:142), where the    *)
(* comment before it says that the file is "replaced entirely with just the  *)
(* new deployment set" (data_logger.ts:68).                                  *)
NothingLostWhenCalm ==
  alone /\ crashes = 0 /\ Busy = {} =>
    /\ Entries("history") = IdsOf("dao") /\ lists["lib"] = lists["history"]
    /\ Entries("transactions") = IdsOf("transaction") /\ Entries("hashes") = IdsOf("hash")
    /\ \A f \in {g \in Configs : configs[g].state # "missing"} :
         /\ \A k \in DOMAIN configs[f].addresses : IsLatest(k, configs[f].addresses[k])
         /\ f # "consensus" => {k \in Keys : Gave(k) # {}} \subseteq DOMAIN configs[f].addresses

(* Whatever overlaps and whoever is killed, no deployment is listed twice.   *)
ListedOnce ==
  \A f \in ListFiles : \A i, j \in DOMAIN lists[f].log : lists[f].log[i] = lists[f].log[j] => i = j

ReturningHealsStep ==
  \A id \in returned' \ returned : alone /\ calls[id].task = "dao" =>
    /\ lists'["lib"] = lists'["history"]
    /\ lists'["history"].log[Len(lists'["history"].log)] = id
    /\ IsSynced(calls[id].network) /\ configs["env"].state # "missing" =>
         \A k \in NormalizedAddresses("dao") :
           k \in DOMAIN configs'["env"].addresses /\ configs'["env"].addresses[k] = id

(* Where calls do not overlap, one that returns repairs what calls before it *)
(* left torn: the library's copy equals the history, which ends with the new *)
(* entry, and .env, if there is one, has the addresses of a deployment to    *)
(* the test network.                                                         *)
ReturningHeals == [][ReturningHealsStep]_vars
===============================================================================
