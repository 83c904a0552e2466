-------------------------- MODULE ValidatorBootstrap --------------------------
(***************************************************************************)
(* Bringing up a network of validators:                                    *)
(*   deploy-and-register-validators-multinode.js   the bootstrap           *)
(*   quick-deploy-validator-registry.cjs           another way to deploy   *)
(*   deploy-validator-registry.ts                  a third                 *)
(*   interaction/register-validator.ts             somebody registering    *)
(* They share the deployment record and the consensus configuration files. *)
(***************************************************************************)
EXTENDS Script

CONSTANTS N,                   \* the number of validators in the validators file
          ConfigFiles,         \* consensus configurations with a registry address
          Stake,               \* --stake, in units of 0.05 ETH
          Endowments           \* what the validators' accounts may hold to begin with

ASSUME BootstrapAssumption ==
  /\ N \in Nat /\ Stake \in Nat \ {0}
  /\ Endowments \subseteq [1..N -> 0..Stake]

VARIABLES record,    \* address in LCAIValidatorRegistry.json; 0: missing or unreadable
          config,    \* address in each configuration file
          torn,      \* configuration files in which no address is left to replace
          keys,      \* format of secret_key_hex of each validator
          balances,  \* ETH of each validator's own account
          pending,   \* fundings nobody waits for any more, still to be mined
          late,      \* how many of them have reached each account
          entry,     \* the script that was started last
          clean      \* nothing has gone wrong since

files == <<record, config, torn>>
money == <<balances, pending, late>>
vars == <<script, files, keys, money, entry, clean>>

Validator == 1..N
Outsider == N + 1
Required == Stake + 2          \* stakeAmount + 0.1 ETH
Extra == 1                     \* 0.05 ETH
Gas == 1                       \* what a registration costs besides the stake

Registry == [kind |-> "Registry", registered |-> {}]
Other == [kind |-> "Other", registered |-> {}]
KnownAddress == 1              \* of a registry the quick script knows
Genesis == <<[kind |-> "Nothing", registered |-> {}]>>
HasCode(a) == Contract(a) /\ chain[a].kind # "Nothing"
Registered(a) == IF IsA(a, "Registry") THEN chain[a].registered ELSE {}

Init ==
  /\ chain \in {Genesis, <<Registry>>}
  /\ ScriptInit
  /\ record = 0
  /\ config = [f \in ConfigFiles |-> 0] /\ torn = {}
  /\ keys \in [Validator -> {"plain", "prefixed", "invalid"}]
  /\ balances \in Endowments
  /\ pending = {} /\ late = [v \in Validator |-> 0]
  /\ entry = "none"
  /\ clean = TRUE

Start(name, first) ==
  /\ Invoke(first)
  /\ entry' = name /\ clean' = TRUE
  /\ UNCHANGED <<files, keys, money>>

Watch == clean' = (clean /\ faults' = faults) /\ UNCHANGED <<keys, entry>>
-------------------------------------------------------------------------------
(* The bootstrap.  It tries to connect ten times; reads that are not in a    *)
(* try block end the process.                                                *)
StartBootstrap == Start("bootstrap", "record")

(* For comparison: a record is believed without asking the chain. *)
ReadRecordUnchecked ==
  /\ pc = "record"
  /\ \/ record # 0 /\ Goto("config") /\ Learn("registry", record)
     \/ record = 0 /\ Goto("deploy") /\ UNCHANGED mine
     \/ Fault /\ pc' = "deploy" /\ UNCHANGED mine
     \/ Lost
  /\ Watch /\ UNCHANGED <<chain, files, money>>

(* A record whose address has no code, or that cannot be read, or whose code *)
(* cannot be asked for, counts as none.  What code it is nobody asks.        *)
ReadRecord ==
  /\ pc = "record"
  /\ \/ HasCode(record) /\ Goto("config") /\ Learn("registry", record)
     \/ ~HasCode(record) /\ Goto("deploy") /\ UNCHANGED mine
     \/ Fault /\ pc' = "deploy" /\ UNCHANGED mine
     \/ Lost
  /\ Watch /\ UNCHANGED <<chain, files, money>>

DeployRegistry ==
  Deploy("deploy", "save", "registry", Registry) /\ Watch /\ UNCHANGED <<files, money>>

(* writeFileSync truncates the file before it writes it. *)
SaveRecordAt(at, next) ==
  /\ pc = at
  /\ \/ Goto(next) /\ record' = mine.registry /\ UNCHANGED mine
     \/ Lost /\ record' \in {record, 0, mine.registry}
  /\ Watch /\ UNCHANGED <<chain, config, torn, money>>

SaveRecord == SaveRecordAt("save", "config")

(* An address is replaced where there is one, or an empty string; a file     *)
(* without either stays as it is, and a file that cannot be updated is       *)
(* reported.  A write that fails, or a process that is killed, may leave a   *)
(* file truncated before the address.                                        *)
WithAddress(some) == [f \in ConfigFiles |-> IF f \in some THEN mine.registry ELSE config[f]]

UpdateConfigFilesAt(at, next) ==
  /\ pc = at
  /\ \/ Goto(next) /\ config' = WithAddress(ConfigFiles \ torn) /\ UNCHANGED <<mine, torn>>
     \/ /\ Fault
        /\ \E some \in SUBSET (ConfigFiles \ torn) :
             /\ config' = WithAddress(some)
             /\ \/ UNCHANGED torn
                \/ \E f \in ConfigFiles \ some : config[f] # mine.registry /\ torn' = torn \cup {f}
        /\ \/ pc' = next /\ UNCHANGED mine
           \/ pc' = "failed" /\ mine' = NoLocals
  /\ Watch /\ UNCHANGED <<chain, record, money>>

UpdateConfigFiles == UpdateConfigFilesAt("config", "count")

Zero ==
  [registry |-> mine.registry, i |-> 1, amount |-> 0, registered |-> 0, skipped |-> 0, failed |-> 0]

(* A contract of another kind has no getValidatorCount. *)
CheckExisting ==
  /\ pc = "count"
  /\ \/ ~IsA(mine.registry, "Registry") /\ Throw
     \/ /\ IsA(mine.registry, "Registry")
        /\ Cardinality(Registered(mine.registry)) >= N
        /\ Goto("done") /\ UNCHANGED mine
     \/ /\ IsA(mine.registry, "Registry")
        /\ Cardinality(Registered(mine.registry)) < N
        /\ Goto("validator") /\ mine' = Zero
     \/ Lost
  /\ Watch /\ UNCHANGED <<chain, files, money>>

(* registered++, skipped++ or failed++, and on to the next validator. *)
CountAs(outcome) == mine' = [n \in DOMAIN mine |-> IF n \in {outcome, "i"} THEN mine[n] + 1 ELSE mine[n]]
Count(outcome) == Goto("validator") /\ CountAs(outcome)

Account == mine.i

ExamineValidator ==
  /\ pc = "validator" /\ mine.i <= N
  /\ \/ keys[mine.i] = "invalid" /\ Count("failed")
     \/ /\ keys[mine.i] # "invalid"
        /\ \/ Account \in Registered(mine.registry) /\ Count("skipped")
           \/ Account \notin Registered(mine.registry) /\ Goto("fund") /\ UNCHANGED mine
           \/ Fault /\ pc' = "fund" /\ UNCHANGED mine     \* "Not registered, proceed"
  /\ Watch /\ UNCHANGED <<chain, files, money>>

(* For comparison: what the account has already is not taken into account. *)
TopUpInFull == Required + Extra
TopUp == Required - balances[Account] + Extra

(* The balance of the latest block decides; fundings still pending do not    *)
(* show in it.                                                               *)
FundValidator ==
  /\ pc = "fund"
  /\ \/ balances[Account] >= Required /\ Goto("register") /\ UNCHANGED mine
     \/ balances[Account] < Required /\ Goto("send") /\ mine' = [mine EXCEPT !.amount = TopUp]
     \/ Lost
  /\ Watch /\ UNCHANGED <<chain, files, money>>

Funded == [balances EXCEPT ![Account] = @ + mine.amount]
Funding == [nr |-> faults, to |-> Account, amount |-> mine.amount]

(* Without an answer the funding has been mined, or is pending, to be mined  *)
(* some day or never; the script goes on to the next validator, or has died. *)
SendFunding ==
  /\ pc = "send"
  /\ \/ Goto("register") /\ balances' = Funded /\ UNCHANGED <<mine, pending>>
     \/ /\ Fault
        /\ \/ balances' = Funded /\ UNCHANGED pending
           \/ pending' = pending \cup {Funding} /\ UNCHANGED balances
        /\ \/ pc' = "validator" /\ CountAs("failed")
           \/ pc' = "failed" /\ mine' = NoLocals
  /\ Watch /\ UNCHANGED <<chain, files, late>>

(* Runs are given their own --private-key, so no order of nonces is assumed. *)
MineFunding ==
  \E f \in pending :
    /\ balances' = [balances EXCEPT ![f.to] = @ + f.amount]
    /\ late' = [late EXCEPT ![f.to] = @ + 1]
    /\ pending' = pending \ {f}
    /\ UNCHANGED <<script, files, keys, entry, clean>>

(* deriveBLSPublicKey prepends 0x to a key that may have it already, and     *)
(* what keccak256 throws then is not caught.                                 *)
RejectPrefixedKey ==
  /\ pc = "register" /\ keys[mine.i] = "prefixed"
  /\ Throw
  /\ Watch /\ UNCHANGED <<chain, files, money>>

Paid(amount) == [balances EXCEPT ![Account] = @ - amount]
RegisteredNow == [chain EXCEPT ![mine.registry].registered = @ \cup {Account}]

(* For comparison: a registration is counted when it is sent. *)
RegisterValidatorEagerly ==
  /\ pc = "register" /\ keys[mine.i] = "plain"
  /\ IF Account \in Registered(mine.registry)
     THEN Count("failed") /\ balances' = Paid(Gas) /\ UNCHANGED chain
     ELSE \/ Count("registered") /\ balances' = Paid(Stake + Gas) /\ chain' = RegisteredNow
          \/ Fault /\ pc' = "validator" /\ CountAs("registered") /\ UNCHANGED <<chain, balances>>
  /\ Watch /\ UNCHANGED <<files, pending, late>>

(* The validator pays from its own account.  registerValidator reverts for   *)
(* an account that is registered already.                                    *)
RegisterValidator ==
  /\ pc = "register" /\ keys[mine.i] = "plain"
  /\ \/ /\ Account \in Registered(mine.registry)
        /\ Count("failed") /\ balances' = Paid(Gas) /\ UNCHANGED chain
     \/ /\ Account \notin Registered(mine.registry)
        /\ balances' = Paid(Stake + Gas) /\ chain' = RegisteredNow
        /\ \/ Count("registered")
           \/ Fault /\ pc' = "validator" /\ CountAs("failed")
           \/ Lost
     \/ /\ UNCHANGED <<chain, balances>> /\ Fault
        /\ \/ pc' = "validator" /\ CountAs("failed")
           \/ pc' = "failed" /\ mine' = NoLocals
  /\ Watch /\ UNCHANGED <<files, pending, late>>

ReportSummary ==
  /\ pc = "validator" /\ mine.i > N
  /\ \/ Goto("done") /\ UNCHANGED mine
     \/ Lost
  /\ Watch /\ UNCHANGED <<chain, files, money>>
-------------------------------------------------------------------------------
(* quick-deploy-validator-registry.cjs looks at addresses of its own, not at *)
(* the record, and writes the same files.                                    *)
StartQuick == Start("quick", "knownAddresses")

CheckKnownAddresses ==
  /\ pc = "knownAddresses"
  /\ \/ HasCode(KnownAddress) /\ Goto("done") /\ UNCHANGED mine
     \/ ~HasCode(KnownAddress) /\ Goto("quickDeploy") /\ UNCHANGED mine
     \/ Lost
  /\ Watch /\ UNCHANGED <<chain, files, money>>

QuickDeploy ==
  Deploy("quickDeploy", "quickSave", "registry", Registry) /\ Watch /\ UNCHANGED <<files, money>>
QuickSave == SaveRecordAt("quickSave", "quickConfig")
QuickUpdate == UpdateConfigFilesAt("quickConfig", "done")

(* deploy-validator-registry.ts: in an ES module there is no __dirname, and  *)
(* Hardhat's network manager has no name; after the deployment it throws.    *)
StartHardhat == Start("hardhat", "hardhatDeploy")
HardhatDeploy ==
  Deploy("hardhatDeploy", "hardhatSave", "registry", Registry) /\ Watch /\ UNCHANGED <<files, money>>
HardhatSave == pc = "hardhatSave" /\ Throw /\ Watch /\ UNCHANGED <<chain, files, money>>
-------------------------------------------------------------------------------
(* register-validator.ts, run by anybody at any time; a registration of the  *)
(* bootstrap that is mined when nobody waits for it looks the same.          *)
RegisterFromElsewhere ==
  \E a \in DOMAIN chain, v \in {Outsider} \cup Validator :
    /\ chain[a].kind = "Registry" /\ v \notin chain[a].registered
    /\ v \in Validator => keys[v] # "invalid"
    /\ chain' = [chain EXCEPT ![a].registered = @ \cup {v}]
    /\ UNCHANGED <<mine, pc, runs, faults, files, keys, money, entry, clean>>

(* The network is brought up anew; the files stay.  At the addresses they    *)
(* name there is nothing, or other contracts have been deployed since.       *)
ResetChain ==
  /\ pc \in Stopped /\ Fault
  /\ chain' \in {Genesis, <<Other, Other>>}
  /\ balances' = [v \in Validator |-> 0] /\ pending' = {} /\ late' = [v \in Validator |-> 0]
  /\ pc' = "idle" /\ mine' = NoLocals
  /\ Watch /\ UNCHANGED files

Bootstrap ==
  \/ ReadRecord \/ DeployRegistry \/ SaveRecord \/ UpdateConfigFiles \/ CheckExisting
  \/ ExamineValidator \/ FundValidator \/ SendFunding \/ RejectPrefixedKey \/ RegisterValidator
  \/ ReportSummary

Next ==
  \/ StartBootstrap \/ Bootstrap
  \/ StartQuick \/ CheckKnownAddresses \/ QuickDeploy \/ QuickSave \/ QuickUpdate
  \/ StartHardhat \/ HardhatDeploy \/ HardhatSave
  \/ MineFunding \/ RegisterFromElsewhere \/ ResetChain

Spec == Init /\ [][Next]_vars
-------------------------------------------------------------------------------
(* Every validator of the file is counted once in the summary, and those     *)
(* counted as registered or as registered already are in the registry, while *)
(* answers are lost, validators register themselves in the middle of a run   *)
(* and earlier runs have done part of the work.                              *)
SummaryIsTrue ==
  "i" \in DOMAIN mine =>
    /\ mine.registered + mine.skipped + mine.failed = mine.i - 1
    /\ mine.registered + mine.skipped
         <= Cardinality({v \in Registered(mine.registry) \cap Validator : v < mine.i})

(* However often funding or registration failed before, an account is never  *)
(* left with more than one registration takes: runs top up and do not add.   *)
(* Only a funding that is mined after its run has given it up comes on top.  *)
FundingDoesNotPileUp ==
  \A v \in Validator : balances[v] <= (Required + Extra) * (1 + late[v])

(* A run in which nothing fails, after failed runs, other scripts or a new   *)
(* chain: the record names a contract, and every configuration with an       *)
(* address in it names the same.  If that is a registry, it has every        *)
(* validator before the first prefixed key (the run dies at that one), or    *)
(* as many accounts, strangers among them, as there are validators in the    *)
(* file (the early exit, line 262).  Only then the run ends well.            *)
CleanRunBootstraps ==
  entry = "bootstrap" /\ pc \in {"done", "failed"} /\ clean =>
    /\ HasCode(record)
    /\ \A f \in ConfigFiles \ torn : config[f] = record
    /\ pc = "done" => IsA(record, "Registry")
    /\ IsA(record, "Registry") =>
         \/ Cardinality(Registered(record)) >= N
         \/ \A v \in Validator :
              keys[v] = "plain" /\ (\A w \in 1..v : keys[w] # "prefixed") => v \in Registered(record)

===============================================================================
