-------------------------- MODULE GovernanceProofs --------------------------
(***************************************************************************)
(* What the two governance scripts leave on the chain, for any number of   *)
(* runs and of faults.                                                     *)
(*                                                                         *)
(* StackInv is about deploy-governance-stack.ts: what is on the chain and  *)
(* in the record at any time, and what the running process may rely on at  *)
(* each of its steps.  DaoInv is the same for deploy.ts, with its pending   *)
(* grants and its history.                                                 *)
(***************************************************************************)
EXTENDS MCGovernance, SequenceTheorems, TLAPS

Timelocks ==
  [kind : {"Timelock"}, admins : SUBSET Nat, proposers : SUBSET Nat, cancellers : SUBSET Nat,
   openExecutor : {TRUE}]
Governors     == [kind : {"Governor"}, token : Nat, timelock : Nat, admin : Nat]
Treasuries    == [kind : {"Treasury"}, owner : Nat, admin : Nat]
Subscriptions == [kind : {"Subscription"}, token : Nat, treasury : Nat, owner : Nat, admin : Nat]
MockAdmins    == [kind : {"MockAdmin"}, owner : Nat]
Given         == [kind : {"Safe", "WLCAI", "ERC20"}]
Contracts == Given \cup MockAdmins \cup Timelocks \cup Governors \cup Treasuries \cup Subscriptions

(* There is one Safe, and on a public network one token: the ones in CONFIG. *)
Chain ==
  /\ env \in Env
  /\ chain \in Seq(Contracts)
  /\ Contract(OtherToken)
  /\ \A a, b \in Instances("Safe") : a = b
  /\ env.isLocal \/ \A a, b \in Instances("WLCAI") : a = b

(* The file describes contracts that are there, and belong together. *)
File ==
  Recorded =>
    /\ IsA(saved.governor, "Governor")
    /\ IsA(saved.treasury, "Treasury")
    /\ IsA(saved.subscription, "Subscription")
    /\ RecordedStack

(* What the running process knows, from each step on. *)
AfterSave         == {"save"}
AfterSubscription == {"subscription"} \cup AfterSave
AfterTreasury     == {"treasury"} \cup AfterSubscription
AfterVerify       == {"verify"} \cup AfterTreasury
AfterGrantAdmin   == {"revokeDeployer"} \cup AfterVerify
AfterGovernor     == {"grantProposer", "grantCanceller", "grantAdmin"} \cup AfterGrantAdmin
AfterTimelock     == {"governor"} \cup AfterGovernor
AfterToken        == {"timelock"} \cup AfterTimelock
AfterAdmin        == {"token", "wlcai"} \cup AfterToken

Steps == {"admin", "mock"} \cup AfterAdmin \cup Stopped

AdminKnown ==
  IF "admin" \in DOMAIN mine THEN Contract(mine.admin) ELSE Instances("Safe") # {}

TokenKnown ==
  \/ env.wlcai # Unset
  \/ IF env.isLocal THEN "wlcai" \in DOMAIN mine /\ Contract(mine.wlcai) ELSE Instances("WLCAI") # {}

Unused(t) == \A c \in Instances("Treasury") \cup Instances("Subscription") : chain[c].owner # t

TimelockKnown ==
  /\ "timelock" \in DOMAIN mine
  /\ IsA(mine.timelock, "Timelock")
  /\ Timelock.admins = IF pc \in AfterVerify THEN {Admin}
                       ELSE IF pc \in AfterGrantAdmin THEN {Deployer, Admin} ELSE {Deployer}
  /\ pc \notin AfterSubscription => Unused(mine.timelock)

GovernorKnown ==
  /\ "governor" \in DOMAIN mine
  /\ Contract(mine.governor)
  /\ chain[mine.governor] =
       [kind |-> "Governor", token |-> VotingTokenAddress, timelock |-> mine.timelock, admin |-> Admin]
  /\ pc \in AfterTreasury => mine.governor \in Timelock.proposers \cap Timelock.cancellers

TreasuryKnown ==
  /\ "treasury" \in DOMAIN mine
  /\ Contract(mine.treasury)
  /\ chain[mine.treasury] = [kind |-> "Treasury", owner |-> mine.timelock, admin |-> Admin]

SubscriptionKnown ==
  /\ "subscription" \in DOMAIN mine
  /\ Contract(mine.subscription)
  /\ chain[mine.subscription] =
       [kind |-> "Subscription", token |-> PaymentTokenAddress, treasury |-> mine.treasury,
        owner |-> mine.timelock, admin |-> Admin]

Process ==
  /\ pc \in Steps
  /\ pc \in {"admin", "mock"} => DOMAIN mine = {}
  /\ pc \in AfterAdmin => AdminKnown
  /\ pc = "wlcai" => env.isLocal /\ env.wlcai = Unset
  /\ pc \in AfterToken => TokenKnown
  /\ pc \in AfterTimelock => TimelockKnown
  /\ pc \in AfterGovernor => GovernorKnown
  /\ pc \in AfterSubscription => TreasuryKnown
  /\ pc \in AfterSave => SubscriptionKnown

StackInv == Chain /\ AlwaysAdministered /\ HandedOver /\ File /\ Process

(* Lemmas about the shape of the chain. *)

LEMMA KindDecides ==
  ASSUME NEW c \in Contracts
  PROVE  /\ c.kind = "Safe" <=> c = Safe
         /\ c.kind = "WLCAI" <=> c = Token
         /\ c.kind = "Timelock" => c \in Timelocks
         /\ c.kind = "Governor" => c \in Governors
         /\ c.kind = "Treasury" => c \in Treasuries
         /\ c.kind = "Subscription" => c \in Subscriptions
<1>1. c \in Given => (c.kind = "Safe" <=> c = Safe) /\ (c.kind = "WLCAI" <=> c = Token)
  BY DEF Given, Safe, Token
<1>2. c.kind \in {"Safe", "WLCAI", "ERC20"} <=> c \in Given
  BY DEF Contracts, Given, MockAdmins, Timelocks, Governors, Treasuries, Subscriptions
<1>3. Safe \in Given /\ Token \in Given /\ Safe.kind = "Safe" /\ Token.kind = "WLCAI"
  BY DEF Given, Safe, Token
<1>4. /\ c.kind = "Timelock" => c \in Timelocks
      /\ c.kind = "Governor" => c \in Governors
      /\ c.kind = "Treasury" => c \in Treasuries
      /\ c.kind = "Subscription" => c \in Subscriptions
  BY DEF Contracts, Given, MockAdmins, Timelocks, Governors, Treasuries, Subscriptions
<1>5. QED  BY <1>1, <1>2, <1>3, <1>4

(* Contracts stay where they are, and only timelocks change. *)
Lasting ==
  \A a \in DOMAIN chain :
    /\ a \in DOMAIN chain'
    /\ chain'[a].kind = chain[a].kind
    /\ chain[a].kind # "Timelock" => chain'[a] = chain[a]

LEMMA Appended ==
  ASSUME NEW S, chain \in Seq(S), NEW c \in S, chain' = Append(chain, c)
  PROVE  /\ chain' \in Seq(S)
         /\ Len(chain) + 1 \in Nat \ DOMAIN chain
         /\ DOMAIN chain' = DOMAIN chain \cup {Len(chain) + 1}
         /\ chain'[Len(chain) + 1] = c
         /\ \A a \in DOMAIN chain : chain'[a] = chain[a]
         /\ Lasting
<1>1. /\ chain' \in Seq(S)
      /\ Len(chain) + 1 \in Nat \ DOMAIN chain
      /\ DOMAIN chain' = DOMAIN chain \cup {Len(chain) + 1}
      /\ chain'[Len(chain) + 1] = c
      /\ \A a \in DOMAIN chain : chain'[a] = chain[a]
  OBVIOUS
<1>2. QED  BY <1>1 DEF Lasting

LEMMA Replaced ==
  ASSUME NEW S, chain \in Seq(S), NEW a \in DOMAIN chain, NEW c \in S,
         chain' = [chain EXCEPT ![a] = c],
         chain[a].kind = "Timelock", c.kind = "Timelock"
  PROVE  /\ chain' \in Seq(S)
         /\ DOMAIN chain' = DOMAIN chain
         /\ chain'[a] = c
         /\ \A b \in DOMAIN chain \ {a} : chain'[b] = chain[b]
         /\ Lasting
<1>1. /\ chain' \in Seq(S)
      /\ DOMAIN chain' = DOMAIN chain
      /\ chain'[a] = c
      /\ \A b \in DOMAIN chain \ {a} : chain'[b] = chain[b]
  OBVIOUS
<1>2. QED  BY <1>1 DEF Lasting

(* A deployment that succeeded: the contract c is new, its address is known. *)
Taught(name, c) ==
  /\ DOMAIN mine' = DOMAIN mine \cup {name}
  /\ \A n \in DOMAIN mine \ {name} : mine'[n] = mine[n]
  /\ mine'[name] \notin DOMAIN chain
  /\ DOMAIN chain' = DOMAIN chain \cup {mine'[name]}
  /\ chain'[mine'[name]] = c
  /\ \A a \in DOMAIN chain : chain'[a] = chain[a]

LEMMA Learnt ==
  ASSUME NEW name, NEW value, Learn(name, value)
  PROVE  /\ DOMAIN mine' = DOMAIN mine \cup {name}
         /\ mine'[name] = value
         /\ \A n \in DOMAIN mine \ {name} : mine'[n] = mine[n]
BY DEF Learn

LEMMA NothingLearnt == DOMAIN NoLocals = {}
BY EmptySeq, LenProperties DEF NoLocals

LEMMA Addresses == ASSUME Chain PROVE DOMAIN chain \subseteq Nat \ {0}
BY DEF Chain
-----------------------------------------------------------------------------
(* What a transaction does to the chain and the file. *)

LEMMA FileStays ==
  ASSUME File, Lasting, UNCHANGED <<env, saved>>
  PROVE  File'
<1>1. CASE ~Recorded
  BY <1>1 DEF File, Recorded, Missing, Torn
<1>2. CASE Recorded
  <2>1. /\ IsA(saved.governor, "Governor")
        /\ IsA(saved.treasury, "Treasury")
        /\ IsA(saved.subscription, "Subscription")
        /\ RecordedStack
    BY <1>2 DEF File
  <2>2. \A a : (\E k \in {"Governor", "Treasury", "Subscription"} : IsA(a, k))
                 => a \in DOMAIN chain' /\ chain'[a] = chain[a]
    BY DEF Lasting, IsA, Contract
  <2>3. QED  BY <1>2, <2>1, <2>2 DEF File, RecordedStack, Recorded, IsA, Contract, Missing, Torn
<1>3. QED  BY <1>1, <1>2

(* The properties of one contract among HandedOver's. *)
Delivered(c) ==
  /\ IsA(c.owner, "Timelock")
  /\ chain[c.owner].admins = {c.admin}
  /\ \E g \in chain[c.owner].proposers \cap chain[c.owner].cancellers :
       IsA(g, "Governor") /\ chain[g].timelock = c.owner /\ chain[g].admin = c.admin

LEMMA Holdings ==
  ASSUME HandedOver, NEW a \in DOMAIN chain, chain[a].kind \in {"Treasury", "Subscription"}
  PROVE  Delivered(chain[a])
BY DEF HandedOver, Delivered, Instances

LEMMA DeployedFits ==
  ASSUME Chain, AlwaysAdministered, HandedOver, File,
         NEW c \in Contracts, chain' = Append(chain, c), UNCHANGED <<env, saved>>,
         c.kind # "Safe", c.kind = "WLCAI" => env.isLocal,
         c.kind = "Timelock" => c.admins # {},
         c.kind \in {"Treasury", "Subscription"} => Delivered(c)
  PROVE  /\ Chain' /\ AlwaysAdministered' /\ HandedOver' /\ File'
         /\ Lasting
<1> DEFINE new == Len(chain) + 1
<1>1. /\ chain' \in Seq(Contracts)
      /\ new \in Nat \ DOMAIN chain
      /\ DOMAIN chain' = DOMAIN chain \cup {new}
      /\ chain'[new] = c
      /\ \A a \in DOMAIN chain : chain'[a] = chain[a]
      /\ Lasting
  BY Appended DEF Chain
<1> HIDE DEF new
<1>2. Chain'
  BY <1>1 DEF Chain, Instances, Contract
<1>3. AlwaysAdministered'
  BY <1>1 DEF AlwaysAdministered, Instances
<1>4. HandedOver'
  <2> SUFFICES ASSUME NEW a \in DOMAIN chain', chain'[a].kind \in {"Treasury", "Subscription"}
               PROVE  Delivered(chain[a])'
    BY DEF HandedOver, Delivered, Instances
  <2>1. Delivered(chain'[a])
    <3>1. CASE a = new
      BY <1>1, <3>1
    <3>2. CASE a \in DOMAIN chain
      BY <1>1, <3>2, Holdings
    <3>3. QED  BY <1>1, <3>1, <3>2
  <2> DEFINE d == chain'[a]
  <2>2. PICK g \in chain[d.owner].proposers \cap chain[d.owner].cancellers :
          IsA(g, "Governor") /\ chain[g].timelock = d.owner /\ chain[g].admin = d.admin
    BY <2>1 DEF Delivered
  <2>3. /\ IsA(d.owner, "Timelock") /\ chain[d.owner].admins = {d.admin}
        /\ chain'[d.owner] = chain[d.owner] /\ chain'[g] = chain[g]
        /\ d.owner \in DOMAIN chain' /\ g \in DOMAIN chain'
    BY <1>1, <2>1, <2>2 DEF Delivered, IsA, Contract
  <2>4. QED  BY <2>2, <2>3 DEF Delivered, IsA, Contract
<1>5. QED  BY <1>1, <1>2, <1>3, <1>4, FileStays

LEMMA SentFits ==
  ASSUME Chain, AlwaysAdministered, HandedOver, File,
         NEW a \in Instances("Timelock"), Unused(a), NEW t \in Timelocks, t.admins # {},
         chain' = [chain EXCEPT ![a] = t], UNCHANGED <<env, saved>>
  PROVE  /\ Chain' /\ AlwaysAdministered' /\ HandedOver' /\ File'
         /\ Lasting /\ chain'[a] = t
<1>1. /\ a \in DOMAIN chain /\ chain[a].kind = "Timelock"
      /\ t.kind = "Timelock" /\ t \in Contracts
  BY DEF Instances, Timelocks, Contracts
<1>2. /\ chain' \in Seq(Contracts)
      /\ DOMAIN chain' = DOMAIN chain
      /\ chain'[a] = t
      /\ \A b \in DOMAIN chain \ {a} : chain'[b] = chain[b]
      /\ Lasting
  BY <1>1, Replaced DEF Chain
<1>3. Chain'
  BY <1>1, <1>2 DEF Chain, Instances, Contract
<1>4. AlwaysAdministered'
  BY <1>1, <1>2 DEF AlwaysAdministered, Instances
<1>5. HandedOver'
  <2> SUFFICES ASSUME NEW b \in DOMAIN chain', chain'[b].kind \in {"Treasury", "Subscription"}
               PROVE  Delivered(chain[b])'
    BY DEF HandedOver, Delivered, Instances
  <2>1. /\ b \in DOMAIN chain /\ chain'[b] = chain[b] /\ chain[b].owner # a
        /\ Delivered(chain[b])
    BY <1>1, <1>2 DEF HandedOver, Delivered, Instances, Unused
  <2>2. QED  BY <1>1, <1>2, <2>1 DEF Delivered, IsA, Contract
<1>6. QED  BY <1>2, <1>3, <1>4, <1>5, FileStays
-----------------------------------------------------------------------------
(* What the process knows stays true. *)

LEMMA PartiesExist ==
  ASSUME Chain
  PROVE  /\ AdminKnown => Contract(Admin) /\ Admin \in Nat \ {Deployer}
         /\ TokenKnown => VotingTokenAddress \in Nat
<1>1. AdminKnown => Contract(Admin)
  <2>1. Instances("Safe") # {} => Contract(Multisig)
    BY KindDecides DEF Chain, Instances, Multisig, Contract
  <2>2. QED  BY <2>1 DEF AdminKnown, Admin
<1>2. TokenKnown => VotingTokenAddress = Deployer \/ Contract(VotingTokenAddress)
  <2>1. Instances("WLCAI") # {} => Contract(VotingToken)
    BY KindDecides DEF Chain, Instances, VotingToken, Contract
  <2>2. Contract(OtherToken) /\ env.wlcai \in {Unset, "account", "contract"}
    BY DEF Chain, Env
  <2>3. QED  BY <2>1, <2>2 DEF TokenKnown, VotingTokenAddress, Unset
<1>3. QED  BY <1>1, <1>2, Addresses DEF Contract, Deployer

LEMMA AdminStays ==
  ASSUME Chain, Chain', Lasting, AdminKnown,
         "admin" \in DOMAIN mine' <=> "admin" \in DOMAIN mine,
         "admin" \in DOMAIN mine => mine'["admin"] = mine["admin"]
  PROVE  AdminKnown' /\ Admin' = Admin
<1>1. CASE "admin" \in DOMAIN mine
  BY <1>1 DEF AdminKnown, Admin, Lasting, Contract
<1>2. CASE "admin" \notin DOMAIN mine
  <2>1. PICK a \in DOMAIN chain : chain[a].kind = "Safe"
    BY <1>2 DEF AdminKnown, Instances
  <2>2. /\ a \in DOMAIN chain' /\ chain'[a].kind = "Safe"
        /\ chain[a] = Safe /\ chain'[a] = Safe
    BY <2>1, KindDecides DEF Lasting, Chain
  <2>3. \A b \in DOMAIN chain : chain[b] = Safe => b = a
    BY <2>1, KindDecides DEF Chain, Instances
  <2>4. \A b \in DOMAIN chain' : chain'[b] = Safe => b = a
    BY <2>2, KindDecides DEF Chain, Instances
  <2>5. Multisig = a /\ Multisig' = a
    BY <2>1, <2>2, <2>3, <2>4 DEF Multisig
  <2>6. QED  BY <1>2, <2>2, <2>5 DEF AdminKnown, Admin, Instances
<1>3. QED  BY <1>1, <1>2

LEMMA TokenStays ==
  ASSUME Chain, Chain', Lasting, TokenKnown, UNCHANGED env,
         "wlcai" \in DOMAIN mine => "wlcai" \in DOMAIN mine' /\ mine'["wlcai"] = mine["wlcai"]
  PROVE  TokenKnown' /\ VotingTokenAddress' = VotingTokenAddress
<1>0. env.wlcai \in {Unset, "account", "contract"}
  BY DEF Chain, Env
<1>1. CASE env.wlcai # Unset \/ env.isLocal
  <2>1. CASE env.wlcai # Unset
    BY <1>0, <2>1 DEF TokenKnown, VotingTokenAddress, Unset
  <2>2. CASE env.wlcai = Unset /\ env.isLocal
    BY <2>2 DEF TokenKnown, VotingTokenAddress, Lasting, Contract, Unset
  <2>3. QED  BY <1>1, <2>1, <2>2
<1>2. CASE env.wlcai = Unset /\ ~env.isLocal
  <2>1. PICK a \in DOMAIN chain : chain[a].kind = "WLCAI"
    BY <1>2 DEF TokenKnown, Instances
  <2>2. /\ a \in DOMAIN chain' /\ chain'[a].kind = "WLCAI"
        /\ chain[a] = Token /\ chain'[a] = Token
    BY <2>1, KindDecides DEF Lasting, Chain
  <2>3. \A b \in DOMAIN chain : chain[b] = Token => b = a
    BY <1>2, <2>1, KindDecides DEF Chain, Instances
  <2>4. \A b \in DOMAIN chain' : chain'[b] = Token => b = a
    BY <1>2, <2>2, KindDecides DEF Chain, Instances
  <2>5. VotingToken = a /\ VotingToken' = a
    BY <2>1, <2>2, <2>3, <2>4 DEF VotingToken
  <2>6. QED  BY <1>2, <2>2, <2>5 DEF TokenKnown, VotingTokenAddress, Instances
<1>3. QED  BY <1>1, <1>2

(* A process that has stopped relies on nothing. *)
LEMMA StoppedKnowsNothing == ASSUME pc' \in Stopped PROVE Process'
BY DEF Process, Steps, Stopped, AfterAdmin, AfterToken, AfterTimelock, AfterGovernor, AfterGrantAdmin,
       AfterVerify, AfterTreasury, AfterSubscription, AfterSave

LEMMA ChainUnmoved ==
  ASSUME Chain, AlwaysAdministered, HandedOver, File, UNCHANGED <<chain, env, saved>>
  PROVE  Chain' /\ AlwaysAdministered' /\ HandedOver' /\ File' /\ Lasting
<1>1. Lasting
  BY DEF Lasting
<1>2. File'
  BY <1>1, FileStays
<1>3. Chain' /\ AlwaysAdministered' /\ HandedOver'
  BY DEF Chain, AlwaysAdministered, HandedOver, Instances, IsA, Contract
<1>4. QED  BY <1>1, <1>2, <1>3
-----------------------------------------------------------------------------
(* The steps of deploy-governance-stack.ts.  A step that fails leaves what   *)
(* is on the chain in order; one that succeeds teaches the process something. *)

Orderly == Chain /\ AlwaysAdministered /\ HandedOver /\ File

LEMMA DeployStep ==
  ASSUME Orderly, NEW at, NEW next, NEW name, NEW c \in Contracts,
         Deploy(at, next, name, c), UNCHANGED <<env, saved>>,
         c.kind # "Safe", c.kind = "WLCAI" => env.isLocal,
         c.kind = "Timelock" => c.admins # {},
         c.kind \in {"Treasury", "Subscription"} => Delivered(c)
  PROVE  /\ Orderly'
         /\ \/ Process'
            \/ /\ pc' = next /\ Lasting /\ Taught(name, c)
<1>1. CASE UNCHANGED chain
  <2>1. pc' = "failed" \/ (chain' = Append(chain, c) /\ chain' = chain)
    BY <1>1 DEF Deploy, Lost
  <2>2. chain' # Append(chain, c)
    BY <1>1 DEF Orderly, Chain
  <2>3. QED  BY <1>1, <2>1, <2>2, ChainUnmoved, StoppedKnowsNothing DEF Orderly, Stopped
<1>2. CASE chain' = Append(chain, c)
  <2>1. Orderly' /\ Lasting
    BY <1>2, DeployedFits DEF Orderly
  <2>2. pc' = "failed" \/ (pc' = next /\ Learn(name, Len(chain) + 1))
    BY DEF Deploy, Lost, Goto
  <2>3. CASE pc' = "failed"
    BY <2>1, <2>3, StoppedKnowsNothing DEF Stopped
  <2>4. CASE pc' = next /\ Learn(name, Len(chain) + 1)
    <3>1. Taught(name, c)
      <4>1. /\ Len(chain) + 1 \notin DOMAIN chain
            /\ DOMAIN chain' = DOMAIN chain \cup {Len(chain) + 1}
            /\ chain'[Len(chain) + 1] = c
            /\ \A a \in DOMAIN chain : chain'[a] = chain[a]
        BY <1>2, Appended DEF Orderly, Chain
      <4>2. /\ DOMAIN mine' = DOMAIN mine \cup {name} /\ mine'[name] = Len(chain) + 1
            /\ \A n \in DOMAIN mine \ {name} : mine'[n] = mine[n]
        BY <2>4, Learnt
      <4>3. QED  BY <4>1, <4>2 DEF Taught
    <3>2. QED  BY <2>1, <2>4, <3>1
  <2>5. QED  BY <2>2, <2>3, <2>4
<1>3. QED  BY <1>1, <1>2 DEF Deploy

LEMMA SendStep ==
  ASSUME Orderly, NEW at, NEW next, NEW a \in Instances("Timelock"), Unused(a),
         NEW t \in Timelocks, t.admins # {},
         Send(at, next, a, t), UNCHANGED <<env, saved>>
  PROVE  /\ Orderly'
         /\ \/ Process'
            \/ /\ pc' = next /\ Lasting /\ chain' = [chain EXCEPT ![a] = t]
               /\ chain'[a] = t /\ UNCHANGED mine
<1>1. CASE UNCHANGED chain /\ pc' = "failed"
  BY <1>1, ChainUnmoved, StoppedKnowsNothing DEF Orderly, Stopped
<1>2. CASE chain' = [chain EXCEPT ![a] = t]
  <2>1. Orderly' /\ Lasting /\ chain'[a] = t
    BY <1>2, SentFits DEF Orderly
  <2>2. pc' = "failed" \/ (pc' = next /\ UNCHANGED mine)
    BY DEF Send, Lost, Goto
  <2>3. QED  BY <1>2, <2>1, <2>2, StoppedKnowsNothing DEF Stopped
<1>3. QED  BY <1>1, <1>2 DEF Send, Lost

(* A step that sends no transaction. *)
LEMMA LocalStep ==
  ASSUME Orderly, UNCHANGED <<chain, env, saved>>
  PROVE  Orderly' /\ Lasting
BY ChainUnmoved DEF Orderly

(* The stages, spelled out for the provers. *)
LEMMA Stages ==
  /\ \A p : p \in AfterSave <=> p = "save"
  /\ \A p : p \in AfterSubscription <=> p \in {"subscription", "save"}
  /\ \A p : p \in AfterTreasury <=> p \in {"treasury", "subscription", "save"}
  /\ \A p : p \in AfterVerify <=> p \in {"verify", "treasury", "subscription", "save"}
  /\ \A p : p \in AfterGrantAdmin <=> p \in {"revokeDeployer", "verify", "treasury", "subscription", "save"}
  /\ \A p : p \in AfterGovernor <=>
       p \in {"grantProposer", "grantCanceller", "grantAdmin", "revokeDeployer", "verify",
              "treasury", "subscription", "save"}
  /\ \A p : p \in AfterTimelock <=> p = "governor" \/ p \in AfterGovernor
  /\ \A p : p \in AfterToken <=> p = "timelock" \/ p \in AfterTimelock
  /\ \A p : p \in AfterAdmin <=> p \in {"token", "wlcai"} \/ p \in AfterToken
BY DEF AfterAdmin, AfterToken, AfterTimelock, AfterGovernor, AfterGrantAdmin,
       AfterVerify, AfterTreasury, AfterSubscription, AfterSave

LEMMA CheckAdminInv ==
  ASSUME StackInv, CheckAdmin
  PROVE  StackInv'
<1>1. Orderly' /\ Lasting
  BY LocalStep DEF StackInv, Orderly, CheckAdmin
<1>2. CASE pc' = "failed"
  BY <1>1, <1>2, StoppedKnowsNothing DEF StackInv, Orderly, Stopped
<1>3. CASE pc' = "token" /\ UNCHANGED <<mine, chain>> /\ Safe \in {chain[a] : a \in DOMAIN chain}
  <2>1. DOMAIN mine' = {} /\ Instances("Safe")' # {}
    BY <1>3 DEF StackInv, Process, CheckAdmin, Instances, Safe
  <2>2. Process'
    BY <1>3, <2>1, Stages DEF Process, AdminKnown, Steps
  <2>3. QED  BY <1>1, <2>2 DEF StackInv, Orderly
<1>4. CASE pc' = "mock" /\ UNCHANGED mine
  <2>1. Process'
    BY <1>4, Stages DEF Process, Steps, StackInv, CheckAdmin
  <2>2. QED  BY <1>1, <2>1 DEF StackInv, Orderly
<1>5. QED  BY <1>2, <1>3, <1>4 DEF CheckAdmin, Goto, Throw

LEMMA DeployMockAdminInv ==
  ASSUME StackInv, DeployMockAdmin
  PROVE  StackInv'
<1> DEFINE c == [kind |-> "MockAdmin", owner |-> Deployer]
<1>1. c \in Contracts /\ c.kind = "MockAdmin"
  BY DEF Contracts, MockAdmins, Deployer
<1>2. Deploy("mock", "token", "admin", c) /\ UNCHANGED <<env, saved>>
  BY DEF DeployMockAdmin
<1> HIDE DEF c
<1>3. /\ Orderly'
      /\ \/ Process'
         \/ /\ pc' = "token" /\ Taught("admin", c)
  BY <1>1, <1>2, DeployStep DEF StackInv, Orderly
<1>4. ASSUME pc' = "token", Taught("admin", c)
      PROVE  Process'
  <2>1. Contract(mine.admin)' /\ "admin" \in DOMAIN mine'
    BY <1>4 DEF Contract, Taught
  <2>2. QED  BY <1>4, <2>1, Stages DEF Process, AdminKnown, Steps
<1>5. QED  BY <1>3, <1>4 DEF StackInv, Orderly

LEMMA SetUpVotingTokenInv ==
  ASSUME StackInv, SetUpVotingToken
  PROVE  StackInv'
<1>1. Orderly' /\ Lasting
  BY LocalStep DEF StackInv, Orderly, SetUpVotingToken
<1>2. CASE pc' = "failed"
  BY <1>1, <1>2, StoppedKnowsNothing DEF StackInv, Orderly, Stopped
<1>3. CASE UNCHANGED <<mine, chain, env>> /\ ((pc' = "wlcai" /\ env.isLocal /\ env.wlcai = Unset) \/ (pc' = "timelock" /\ TokenKnown))
  <2>1. AdminKnown
    BY Stages DEF StackInv, Process, SetUpVotingToken
  <2>2. AdminKnown'
    BY <1>1, <1>3, <2>1, AdminStays DEF StackInv, Orderly
  <2>3. TokenKnown => TokenKnown'
    BY <1>1, <1>3, TokenStays DEF StackInv, Orderly
  <2>4. Process'
    BY <1>3, <2>2, <2>3, Stages DEF Process, Steps
  <2>5. QED  BY <1>1, <2>4 DEF StackInv, Orderly
<1>4. Token \in {chain[a] : a \in DOMAIN chain} => Instances("WLCAI") # {}
  BY DEF Instances, Token
<1>5. QED  BY <1>2, <1>3, <1>4 DEF SetUpVotingToken, Goto, Throw, TokenKnown

LEMMA DeployWLCAIInv ==
  ASSUME StackInv, DeployWLCAI
  PROVE  StackInv'
<1>1. Token \in Contracts /\ Token.kind = "WLCAI"
  BY DEF Contracts, Given, Token
<1>2. /\ Deploy("wlcai", "timelock", "wlcai", Token) /\ UNCHANGED <<env, saved>>
      /\ pc = "wlcai" /\ env.isLocal /\ env.wlcai = Unset
  BY DEF DeployWLCAI, Deploy, StackInv, Process
<1>3. /\ Orderly'
      /\ \/ Process'
         \/ /\ pc' = "timelock" /\ Lasting /\ Taught("wlcai", Token)
  BY <1>1, <1>2, DeployStep DEF StackInv, Orderly
<1>4. ASSUME pc' = "timelock", Lasting, Taught("wlcai", Token)
      PROVE  Process'
  <2>1. AdminKnown
    BY <1>2, Stages DEF StackInv, Process
  <2>2. AdminKnown'
    BY <1>3, <1>4, <2>1, AdminStays DEF StackInv, Orderly, Taught
  <2>3. Contract(mine.wlcai)' /\ "wlcai" \in DOMAIN mine'
    BY <1>4 DEF Contract, Taught
  <2>4. TokenKnown'
    BY <1>2, <2>3 DEF TokenKnown
  <2>5. Process'
    BY <1>4, <2>2, <2>4, Stages DEF Process, Steps
  <2>6. QED  BY <2>5
<1>5. QED  BY <1>3, <1>4 DEF StackInv, Orderly

(* What every step after the token's keeps: who the admin and the token are. *)
LEMMA PartiesStay ==
  ASSUME Chain, Chain', Lasting, AdminKnown, TokenKnown, UNCHANGED env,
         NEW name, NEW c, name \notin {"admin", "wlcai"}, Taught(name, c)
  PROVE  AdminKnown' /\ TokenKnown' /\ Admin' = Admin /\ VotingTokenAddress' = VotingTokenAddress
BY AdminStays, TokenStays DEF Taught

LEMMA PartiesStayToo ==
  ASSUME Chain, Chain', Lasting, AdminKnown, TokenKnown, UNCHANGED <<env, mine>>
  PROVE  AdminKnown' /\ TokenKnown' /\ Admin' = Admin /\ VotingTokenAddress' = VotingTokenAddress
BY AdminStays, TokenStays

LEMMA DeployTimelockInv ==
  ASSUME StackInv, DeployTimelock
  PROVE  StackInv'
<1> DEFINE c == [kind |-> "Timelock", admins |-> {Deployer}, proposers |-> {}, cancellers |-> {},
                 openExecutor |-> TRUE]
<1>1. c \in Contracts /\ c.kind = "Timelock" /\ c.admins = {Deployer}
  BY DEF Contracts, Timelocks, Deployer
<1>2. Deploy("timelock", "governor", "timelock", c) /\ UNCHANGED <<env, saved>> /\ pc = "timelock"
  BY DEF DeployTimelock, Deploy
<1> HIDE DEF c
<1>3. /\ Orderly'
      /\ \/ Process'
         \/ /\ pc' = "governor" /\ Lasting /\ Taught("timelock", c)
  BY <1>1, <1>2, DeployStep DEF StackInv, Orderly
<1>4. ASSUME pc' = "governor", Lasting, Taught("timelock", c)
      PROVE  Process'
  <2>0. Chain /\ Chain' /\ UNCHANGED env
    BY <1>2, <1>3 DEF StackInv, Orderly
  <2>1. AdminKnown' /\ TokenKnown'
    BY <1>2, <1>4, <2>0, PartiesStay, Stages DEF StackInv, Process
  <2> DEFINE new == mine'["timelock"]
  <2>2. /\ new \notin DOMAIN chain /\ chain'[new] = c
        /\ DOMAIN chain' = DOMAIN chain \cup {new} /\ "timelock" \in DOMAIN mine'
        /\ \A a \in DOMAIN chain : chain'[a] = chain[a]
    BY <1>4 DEF Taught
  <2> HIDE DEF new
  <2>3. \A a \in Instances("Treasury") \cup Instances("Subscription") : chain[a].owner \in DOMAIN chain
    BY DEF StackInv, HandedOver, IsA, Contract
  <2>4. Unused(mine.timelock)'
    <3> SUFFICES ASSUME NEW a \in DOMAIN chain', chain'[a].kind \in {"Treasury", "Subscription"}
                 PROVE  chain'[a].owner # new
      BY <1>4 DEF Unused, Instances, new
    <3>1. a \in DOMAIN chain /\ chain'[a] = chain[a]
      BY <1>1, <2>2
    <3>2. QED  BY <2>2, <2>3, <3>1 DEF Instances
  <2>5. pc' \notin AfterVerify /\ pc' \notin AfterGrantAdmin
    BY <1>4, Stages
  <2>6. Timelock' = c /\ mine'["timelock"] = new
    BY <2>2 DEF Timelock, new
  <2>7. TimelockKnown'
    BY <1>1, <2>2, <2>4, <2>5, <2>6 DEF TimelockKnown, IsA, Contract
  <2>8. Process'
    BY <1>4, <2>1, <2>7, Stages DEF Process, Steps
  <2>9. QED  BY <2>8
<1>5. QED  BY <1>3, <1>4 DEF StackInv, Orderly

(* A transaction that would revert ends the process and changes nothing. *)
LEMMA RefusedInv ==
  ASSUME StackInv, Refused, UNCHANGED <<env, saved>>
  PROVE  StackInv'
BY LocalStep, StoppedKnowsNothing DEF StackInv, Orderly, Refused, Throw, Stopped

LEMMA TimelockStays ==
  ASSUME TimelockKnown, \A a \in DOMAIN chain : a \in DOMAIN chain' /\ chain'[a] = chain[a],
         "timelock" \in DOMAIN mine', mine'["timelock"] = mine["timelock"], Admin' = Admin,
         pc' \in AfterVerify <=> pc \in AfterVerify,
         pc' \in AfterGrantAdmin <=> pc \in AfterGrantAdmin,
         pc' \notin AfterSubscription => Unused(mine.timelock)'
  PROVE  TimelockKnown' /\ Timelock' = Timelock
<1>1. Timelock' = Timelock
  BY DEF TimelockKnown, Timelock, IsA, Contract
<1>2. QED  BY <1>1 DEF TimelockKnown, IsA, Contract

LEMMA GovernorStays ==
  ASSUME GovernorKnown, Lasting,
         "governor" \in DOMAIN mine', mine'["governor"] = mine["governor"],
         mine'["timelock"] = mine["timelock"],
         Admin' = Admin, VotingTokenAddress' = VotingTokenAddress,
         pc' \in AfterTreasury => mine.governor \in Timelock'.proposers \cap Timelock'.cancellers
  PROVE  GovernorKnown'
<1>1. chain[mine.governor].kind = "Governor"
  BY DEF GovernorKnown
<1>2. Contract(mine.governor)' /\ chain'[mine.governor] = chain[mine.governor]
  BY <1>1 DEF GovernorKnown, Lasting, Contract
<1>3. QED  BY <1>2 DEF GovernorKnown

LEMMA DeployGovernorInv ==
  ASSUME StackInv, DeployGovernor
  PROVE  StackInv'
<1> DEFINE c == [kind |-> "Governor", token |-> VotingTokenAddress, timelock |-> mine.timelock, admin |-> Admin]
<1>0. pc = "governor"
  BY DEF DeployGovernor
<1>r. CASE Refused /\ UNCHANGED <<env, saved>>
  BY <1>r, RefusedInv
<1> SUFFICES ASSUME Deploy("governor", "grantProposer", "governor", c), UNCHANGED <<env, saved>>
             PROVE  StackInv'
  BY <1>r DEF DeployGovernor
<1>1. /\ Deploy("governor", "grantProposer", "governor", c) /\ UNCHANGED <<env, saved>>
      /\ pc = "governor"
  BY <1>0
<1>2. AdminKnown /\ TokenKnown /\ TimelockKnown
  BY <1>1, Stages DEF StackInv, Process
<1>3. VotingTokenAddress \in Nat /\ Admin \in Nat /\ mine.timelock \in Nat
  BY <1>2, PartiesExist, Addresses DEF StackInv, TimelockKnown, IsA, Contract
<1>4. c \in Contracts /\ c.kind = "Governor"
  BY <1>3 DEF Contracts, Governors
<1> HIDE DEF c
<1>5. /\ Orderly'
      /\ \/ Process'
         \/ /\ pc' = "grantProposer" /\ Lasting /\ Taught("governor", c)
  BY <1>1, <1>4, DeployStep DEF StackInv, Orderly
<1>6. ASSUME pc' = "grantProposer", Lasting, Taught("governor", c)
      PROVE  Process'
  <2>0. Chain /\ Chain' /\ UNCHANGED env
    BY <1>1, <1>5 DEF StackInv, Orderly
  <2>1. AdminKnown' /\ TokenKnown' /\ Admin' = Admin /\ VotingTokenAddress' = VotingTokenAddress
    BY <1>2, <1>6, <2>0, PartiesStay
  <2> DEFINE new == mine'["governor"]
  <2>2. /\ chain'[new] = c /\ "governor" \in DOMAIN mine'
        /\ DOMAIN chain' = DOMAIN chain \cup {new}
        /\ \A a \in DOMAIN chain : chain'[a] = chain[a]
    BY <1>6 DEF Taught
  <2>3. mine'["governor"] = new /\ mine'["timelock"] = mine["timelock"] /\ "timelock" \in DOMAIN mine'
    BY <1>2, <1>6 DEF TimelockKnown, Taught
  <2> HIDE DEF new
  <2>4. /\ pc \notin AfterVerify /\ pc \notin AfterGrantAdmin /\ pc \notin AfterSubscription
        /\ pc' \notin AfterVerify /\ pc' \notin AfterGrantAdmin /\ pc' \notin AfterTreasury
    BY <1>1, <1>6, Stages
  <2>5. Unused(mine.timelock)'
    BY <1>2, <1>4, <2>2, <2>3, <2>4 DEF Unused, Instances, TimelockKnown
  <2>6. TimelockKnown'
    BY <1>2, <2>1, <2>2, <2>3, <2>4, <2>5, TimelockStays
  <2>7. GovernorKnown'
    <3>1. c = [kind |-> "Governor", token |-> VotingTokenAddress', timelock |-> mine'["timelock"], admin |-> Admin']
      BY <2>1, <2>3 DEF c
    <3>2. "governor" \in DOMAIN mine' /\ new \in DOMAIN chain' /\ chain'[mine'["governor"]] = c
      BY <2>2, <2>3
    <3>3. QED  BY <2>3, <2>4, <3>1, <3>2 DEF GovernorKnown, Contract
  <2>8. Process'
    BY <1>6, <2>1, <2>6, <2>7, Stages DEF Process, Steps
  <2>9. QED  BY <2>8
<1>7. QED  BY <1>5, <1>6 DEF StackInv, Orderly

(* The four transactions that change roles: t is the timelock after one. *)
LEMMA RoleStep ==
  ASSUME StackInv, NEW at \in {"grantProposer", "grantCanceller", "grantAdmin", "revokeDeployer"},
         NEW next \in {"grantCanceller", "grantAdmin", "revokeDeployer", "verify"},
         NEW t \in Timelocks, Send(at, next, mine.timelock, t), UNCHANGED <<env, saved>>,
         t.admins = IF next = "verify" THEN {Admin}
                    ELSE IF next = "revokeDeployer" THEN {Deployer, Admin} ELSE {Deployer}
  PROVE  StackInv'
<1>1. pc = at
  BY DEF Send
<1>2. AdminKnown /\ TokenKnown /\ TimelockKnown /\ GovernorKnown
  BY <1>1, Stages DEF StackInv, Process
<1>3. mine.timelock \in Instances("Timelock") /\ Unused(mine.timelock)
  BY <1>1, <1>2, Stages DEF TimelockKnown, IsA, Contract, Instances
<1>4. t.admins # {}
  OBVIOUS
<1>5. /\ Orderly'
      /\ \/ Process'
         \/ /\ pc' = next /\ Lasting /\ chain' = [chain EXCEPT ![mine.timelock] = t]
            /\ chain'[mine.timelock] = t /\ UNCHANGED mine
  BY <1>3, <1>4, SendStep DEF StackInv, Orderly
<1>6. ASSUME pc' = next, Lasting, chain' = [chain EXCEPT ![mine.timelock] = t],
             chain'[mine.timelock] = t, UNCHANGED mine
      PROVE  Process'
  <2>1. AdminKnown' /\ TokenKnown' /\ Admin' = Admin /\ VotingTokenAddress' = VotingTokenAddress
    BY <1>2, <1>5, <1>6, PartiesStayToo DEF StackInv, Orderly
  <2>2. /\ pc' \in AfterVerify <=> next = "verify"
        /\ pc' \in AfterGrantAdmin <=> next \in {"revokeDeployer", "verify"}
        /\ pc' \notin AfterTreasury /\ pc' \notin AfterSubscription /\ pc' \notin AfterSave
    BY <1>6, Stages
  <2>3. t.kind = "Timelock" /\ mine.timelock \in DOMAIN chain /\ mine.timelock \in DOMAIN chain'
    BY <1>3, <1>6 DEF Timelocks, Instances, Lasting
  <2>4. Timelock' = t /\ IsA(mine.timelock, "Timelock")'
    BY <1>6, <2>3 DEF Timelock, IsA, Contract
  <2>5. Unused(mine.timelock)'
    BY <1>3, <1>6, <2>3 DEF Unused, Instances
  <2>6. "timelock" \in DOMAIN mine'
    BY <1>2, <1>6 DEF TimelockKnown
  <2>7. TimelockKnown'
    BY <2>1, <2>2, <2>4, <2>5, <2>6 DEF TimelockKnown
  <2>8. GovernorKnown'
    BY <1>2, <1>6, <2>1, <2>2, GovernorStays DEF GovernorKnown
  <2>9. pc' \in Steps /\ pc' # "wlcai" /\ pc' \notin {"admin", "mock"}
    BY <1>6, Stages DEF Steps
  <2>10. QED  BY <2>1, <2>2, <2>7, <2>8, <2>9 DEF Process
<1>7. QED  BY <1>5, <1>6 DEF StackInv, Orderly

LEMMA GrantsInv ==
  ASSUME StackInv, GrantProposer \/ GrantCanceller \/ GrantAdmin \/ RevokeDeployer
  PROVE  StackInv'
<1>1. pc \in {"grantProposer", "grantCanceller", "grantAdmin", "revokeDeployer"}
  BY DEF GrantProposer, GrantCanceller, GrantAdmin, RevokeDeployer, Send
<1>2. AdminKnown /\ TokenKnown /\ TimelockKnown /\ GovernorKnown
  BY <1>1, Stages DEF StackInv, Process
<1>3. Timelock \in Timelocks
  BY <1>2, KindDecides DEF StackInv, Chain, TimelockKnown, IsA, Contract, Timelock
<1>4. mine.governor \in Nat /\ Admin \in Nat /\ Admin # Deployer
  BY <1>2, PartiesExist, Addresses DEF StackInv, GovernorKnown, Contract
<1>5. Timelock.admins = IF pc = "revokeDeployer" THEN {Deployer, Admin} ELSE {Deployer}
  BY <1>1, <1>2, Stages DEF TimelockKnown
<1>6. CASE GrantProposer
  <2> DEFINE t == [Timelock EXCEPT !.proposers = @ \cup {mine.governor}]
  <2>1. Send("grantProposer", "grantCanceller", mine.timelock, t) /\ pc = "grantProposer" /\ UNCHANGED <<env, saved>>
    BY <1>6 DEF GrantProposer, Send
  <2>2. t \in Timelocks /\ t.admins = {Deployer}
    BY <1>3, <1>4, <1>5, <2>1 DEF Timelocks
  <2> HIDE DEF t
  <2>3. QED  BY <2>1, <2>2, RoleStep
<1>7. CASE GrantCanceller
  <2> DEFINE t == [Timelock EXCEPT !.cancellers = @ \cup {mine.governor}]
  <2>1. Send("grantCanceller", "grantAdmin", mine.timelock, t) /\ pc = "grantCanceller" /\ UNCHANGED <<env, saved>>
    BY <1>7 DEF GrantCanceller, Send
  <2>2. t \in Timelocks /\ t.admins = {Deployer}
    BY <1>3, <1>4, <1>5, <2>1 DEF Timelocks
  <2> HIDE DEF t
  <2>3. QED  BY <2>1, <2>2, RoleStep
<1>8. CASE GrantAdmin
  <2> DEFINE t == [Timelock EXCEPT !.admins = @ \cup {Admin}]
  <2>1. Send("grantAdmin", "revokeDeployer", mine.timelock, t) /\ pc = "grantAdmin" /\ UNCHANGED <<env, saved>>
    BY <1>8 DEF GrantAdmin, Send
  <2>2. t \in Timelocks /\ t.admins = {Deployer, Admin}
    BY <1>3, <1>4, <1>5, <2>1 DEF Timelocks
  <2> HIDE DEF t
  <2>3. QED  BY <2>1, <2>2, RoleStep
<1>9. CASE RevokeDeployer
  <2> DEFINE t == [Timelock EXCEPT !.admins = @ \ {Deployer}]
  <2>1. Send("revokeDeployer", "verify", mine.timelock, t) /\ pc = "revokeDeployer" /\ UNCHANGED <<env, saved>>
    BY <1>9 DEF RevokeDeployer, Send
  <2>2. t \in Timelocks /\ t.admins = {Admin}
    BY <1>3, <1>4, <1>5, <2>1 DEF Timelocks
  <2> HIDE DEF t
  <2>3. QED  BY <2>1, <2>2, RoleStep
<1>10. QED  BY <1>6, <1>7, <1>8, <1>9

LEMMA VerifyRolesInv ==
  ASSUME StackInv, VerifyRoles
  PROVE  StackInv'
<1>1. Orderly' /\ Lasting
  BY LocalStep DEF StackInv, Orderly, VerifyRoles
<1>2. CASE pc' = "failed"
  BY <1>1, <1>2, StoppedKnowsNothing DEF StackInv, Orderly, Stopped
<1>3. CASE pc' = "treasury" /\ UNCHANGED <<mine, chain, env>> /\ RolesConfigured(Timelock)
  <2>1. pc = "verify"
    BY DEF VerifyRoles
  <2>2. AdminKnown /\ TokenKnown /\ TimelockKnown /\ GovernorKnown
    BY <2>1, Stages DEF StackInv, Process
  <2>3. Chain /\ Chain'
    BY <1>1 DEF StackInv, Orderly
  <2>4. AdminKnown' /\ TokenKnown' /\ Admin' = Admin /\ VotingTokenAddress' = VotingTokenAddress
    BY <1>1, <1>3, <2>2, <2>3, PartiesStayToo
  <2>5. /\ pc' \in AfterVerify /\ pc \in AfterVerify
        /\ pc' \in AfterGrantAdmin /\ pc \in AfterGrantAdmin
        /\ pc \notin AfterSubscription /\ pc' \notin AfterSubscription /\ pc' \notin AfterSave
    BY <1>3, <2>1, Stages
  <2>6. Unused(mine.timelock)'
    BY <1>3, <2>2, <2>5 DEF TimelockKnown, Unused, Instances
  <2>7. \A a \in DOMAIN chain : a \in DOMAIN chain' /\ chain'[a] = chain[a]
    BY <1>3
  <2>8. "timelock" \in DOMAIN mine' /\ mine'["timelock"] = mine["timelock"]
    BY <1>3, <2>2 DEF TimelockKnown
  <2>9. TimelockKnown' /\ Timelock' = Timelock
    BY <2>2, <2>4, <2>5, <2>6, <2>7, <2>8, TimelockStays
  <2>10. mine.governor \in Timelock'.proposers \cap Timelock'.cancellers
    BY <1>3, <2>9 DEF RolesConfigured
  <2>11. "governor" \in DOMAIN mine' /\ mine'["governor"] = mine["governor"]
    BY <1>3, <2>2 DEF GovernorKnown
  <2>12. GovernorKnown'
    BY <1>1, <2>2, <2>4, <2>8, <2>10, <2>11, GovernorStays
  <2>13. pc' \in Steps /\ pc' # "wlcai" /\ pc' \notin {"admin", "mock"}
    BY <1>3, Stages DEF Steps
  <2>14. Process'
    BY <2>4, <2>5, <2>9, <2>12, <2>13 DEF Process
  <2>15. QED  BY <1>1, <2>14 DEF StackInv, Orderly
<1>4. QED  BY <1>2, <1>3 DEF VerifyRoles, Goto, Throw

(* Steps 5 and 6 deliver to the timelock that was verified. *)
LEMMA Deliverable ==
  ASSUME Chain, TimelockKnown, GovernorKnown, pc \in AfterTreasury, pc \in AfterVerify,
         NEW c, c.owner = mine.timelock, c.admin = Admin
  PROVE  Delivered(c)
<1>1. IsA(c.owner, "Timelock") /\ chain[c.owner].admins = {c.admin}
  BY DEF TimelockKnown, Timelock
<1>2. mine.governor \in chain[c.owner].proposers \cap chain[c.owner].cancellers
  BY DEF GovernorKnown, Timelock
<1>3. IsA(mine.governor, "Governor") /\ chain[mine.governor].timelock = c.owner
                                     /\ chain[mine.governor].admin = c.admin
  BY DEF GovernorKnown, IsA
<1>4. QED  BY <1>1, <1>2, <1>3 DEF Delivered

(* A further deployment leaves the timelock and the governor known. *)
StillKnown ==
  /\ AdminKnown' /\ TokenKnown' /\ TimelockKnown' /\ GovernorKnown'
  /\ Admin' = Admin /\ VotingTokenAddress' = VotingTokenAddress
  /\ mine'["timelock"] = mine["timelock"]

LEMMA DeliveredStep ==
  ASSUME StackInv, NEW c \in Contracts, pc \in {"treasury", "subscription"},
         c.owner = mine.timelock, c.admin = Admin, c.kind \in {"Treasury", "Subscription"},
         NEW next \in {"subscription", "save"}, NEW name \in {"treasury", "subscription"},
         Deploy(pc, next, name, c), UNCHANGED <<env, saved>>
  PROVE  /\ Orderly'
         /\ \/ Process'
            \/ pc' = next /\ Taught(name, c) /\ StillKnown
<1>1. /\ pc \in AfterTreasury /\ pc \in AfterVerify /\ pc \in AfterGrantAdmin /\ pc \in AfterGovernor
      /\ pc \in AfterTimelock /\ pc \in AfterToken /\ pc \in AfterAdmin
  BY Stages
<1>2. AdminKnown /\ TokenKnown /\ TimelockKnown /\ GovernorKnown
  BY <1>1 DEF StackInv, Process
<1>3. Delivered(c)
  BY <1>1, <1>2, Deliverable DEF StackInv
<1>4. /\ Orderly'
      /\ \/ Process'
         \/ /\ pc' = next /\ Lasting /\ Taught(name, c)
  BY <1>3, DeployStep DEF StackInv, Orderly
<1>5. ASSUME pc' = next, Lasting, Taught(name, c)
      PROVE  StillKnown
  <2>1. \A a \in DOMAIN chain : a \in DOMAIN chain' /\ chain'[a] = chain[a]
    BY <1>5 DEF Taught
  <2>2. Chain /\ Chain' /\ UNCHANGED env
    BY <1>4 DEF StackInv, Orderly
  <2>3. /\ name \notin {"admin", "wlcai", "timelock", "governor"}
    OBVIOUS
  <2>5. AdminKnown' /\ TokenKnown' /\ Admin' = Admin /\ VotingTokenAddress' = VotingTokenAddress
    BY <1>2, <1>5, <2>2, <2>3, PartiesStay
  <2>6. /\ "timelock" \in DOMAIN mine' /\ mine'["timelock"] = mine["timelock"]
        /\ "governor" \in DOMAIN mine' /\ mine'["governor"] = mine["governor"]
    BY <1>2, <1>5, <2>3 DEF TimelockKnown, GovernorKnown, Taught
  <2>7. /\ pc' \in AfterVerify /\ pc' \in AfterGrantAdmin /\ pc' \in AfterTreasury /\ pc' \in AfterSubscription
    BY <1>5, Stages
  <2>8. TimelockKnown' /\ Timelock' = Timelock
    BY <1>1, <1>2, <2>1, <2>5, <2>6, <2>7, TimelockStays
  <2>9. mine.governor \in Timelock'.proposers \cap Timelock'.cancellers
    BY <1>1, <1>2, <2>8 DEF GovernorKnown
  <2>10. GovernorKnown'
    BY <1>2, <1>5, <2>5, <2>6, <2>9, GovernorStays
  <2>11. QED  BY <2>5, <2>6, <2>8, <2>10 DEF StillKnown
<1>6. QED  BY <1>4, <1>5

LEMMA DeployTreasuryInv ==
  ASSUME StackInv, DeployTreasury
  PROVE  StackInv'
<1> DEFINE c == [kind |-> "Treasury", owner |-> mine.timelock, admin |-> Admin]
<1>1. Deploy("treasury", "subscription", "treasury", c) /\ UNCHANGED <<env, saved>> /\ pc = "treasury"
  BY DEF DeployTreasury, Deploy
<1>2. AdminKnown /\ TimelockKnown
  BY <1>1, Stages DEF StackInv, Process
<1>3. Admin \in Nat /\ mine.timelock \in Nat
  BY <1>2, PartiesExist, Addresses DEF StackInv, TimelockKnown, IsA, Contract
<1>4. c \in Contracts /\ c.kind = "Treasury" /\ c.owner = mine.timelock /\ c.admin = Admin
  BY <1>3 DEF Contracts, Treasuries
<1>5. /\ Orderly'
      /\ \/ Process'
         \/ pc' = "subscription" /\ Taught("treasury", c) /\ StillKnown
  <2> HIDE DEF c
  <2>1. QED  BY <1>1, <1>4, DeliveredStep
<1>6. ASSUME pc' = "subscription", Taught("treasury", c), StillKnown
      PROVE  Process'
  <2>1. TreasuryKnown'
    BY <1>6 DEF TreasuryKnown, Contract, Taught, StillKnown
  <2>2. pc' \in Steps /\ pc' # "wlcai" /\ pc' \notin {"admin", "mock"} /\ pc' \notin AfterSave
    BY <1>6, Stages DEF Steps
  <2>3. QED  BY <1>6, <2>1, <2>2 DEF Process, StillKnown
<1>7. QED  BY <1>5, <1>6 DEF StackInv, Orderly

LEMMA DeploySubscriptionInv ==
  ASSUME StackInv, DeploySubscription
  PROVE  StackInv'
<1> DEFINE c == [kind |-> "Subscription", token |-> PaymentTokenAddress, treasury |-> mine.treasury,
                 owner |-> mine.timelock, admin |-> Admin]
<1>0. pc = "subscription"
  BY DEF DeploySubscription
<1>r. CASE Refused /\ UNCHANGED <<env, saved>>
  BY <1>r, RefusedInv
<1> SUFFICES ASSUME Deploy("subscription", "save", "subscription", c), UNCHANGED <<env, saved>>
             PROVE  StackInv'
  BY <1>r DEF DeploySubscription
<1>1. Deploy("subscription", "save", "subscription", c) /\ UNCHANGED <<env, saved>> /\ pc = "subscription"
  BY <1>0
<1>2. AdminKnown /\ TokenKnown /\ TimelockKnown /\ TreasuryKnown
  BY <1>1, Stages DEF StackInv, Process
<1>3. Admin \in Nat /\ PaymentTokenAddress \in Nat /\ mine.timelock \in Nat /\ mine.treasury \in Nat
  BY <1>2, PartiesExist, Addresses
     DEF StackInv, TimelockKnown, TreasuryKnown, IsA, Contract, PaymentTokenAddress, Deployer
<1>4. c \in Contracts /\ c.kind = "Subscription" /\ c.owner = mine.timelock /\ c.admin = Admin
  BY <1>3 DEF Contracts, Subscriptions
<1>5. /\ Orderly'
      /\ \/ Process'
         \/ pc' = "save" /\ Taught("subscription", c) /\ StillKnown
  <2> HIDE DEF c
  <2>1. QED  BY <1>1, <1>4, DeliveredStep
<1>6. ASSUME pc' = "save", Taught("subscription", c), StillKnown
      PROVE  Process'
  <2>1. "treasury" \in DOMAIN mine' /\ mine'["treasury"] = mine["treasury"]
    BY <1>2, <1>6 DEF TreasuryKnown, Taught
  <2>2. TreasuryKnown'
    BY <1>2, <1>6, <2>1 DEF TreasuryKnown, Contract, Taught, StillKnown
  <2>3. SubscriptionKnown'
    <3>1. PaymentTokenAddress' = PaymentTokenAddress
      BY <1>1, <1>6 DEF PaymentTokenAddress, StillKnown
    <3>2. QED  BY <1>6, <2>1, <3>1 DEF SubscriptionKnown, Contract, Taught, StillKnown
  <2>4. pc' \in Steps /\ pc' # "wlcai" /\ pc' \notin {"admin", "mock"}
    BY <1>6, Stages DEF Steps
  <2>5. QED  BY <1>6, <2>2, <2>3, <2>4 DEF Process, StillKnown
<1>7. QED  BY <1>5, <1>6 DEF StackInv, Orderly

LEMMA SaveDeploymentInv ==
  ASSUME StackInv, SaveDeployment
  PROVE  StackInv'
<1>1. pc = "save" /\ UNCHANGED <<chain, env>> /\ pc' \in Stopped
  BY DEF SaveDeployment, Goto, Lost, Stopped
<1>2. Process'
  BY <1>1, StoppedKnowsNothing
<1>3. Chain' /\ AlwaysAdministered' /\ HandedOver'
  BY <1>1 DEF StackInv, Chain, AlwaysAdministered, HandedOver, Instances, IsA, Contract
<1>4. CASE saved' = Torn
  BY <1>2, <1>3, <1>4 DEF StackInv, File, Recorded, Torn
<1>5. CASE saved' = Deployment
  <2>1. GovernorKnown /\ TreasuryKnown /\ SubscriptionKnown
    BY <1>1, Stages DEF StackInv, Process
  <2>2. /\ saved'.timelock = mine.timelock /\ saved'.governor = mine.governor
        /\ saved'.treasury = mine.treasury /\ saved'.subscription = mine.subscription
        /\ saved'.admin = Admin
        /\ saved'.token = VotingTokenAddress /\ saved'.paymentToken = PaymentTokenAddress
    BY <1>5 DEF Deployment
  <2>3. File'
    BY <1>1, <2>1, <2>2
       DEF File, RecordedStack, GovernorKnown, TreasuryKnown, SubscriptionKnown, IsA, Contract, PaymentTokenAddress
  <2>4. QED  BY <1>2, <1>3, <2>3 DEF StackInv
<1>6. QED  BY <1>4, <1>5 DEF SaveDeployment

LEMMA StartInv ==
  ASSUME StackInv, Start
  PROVE  StackInv'
<1>1. Orderly'
  BY LocalStep DEF StackInv, Orderly, Start, Invoke
<1>2. pc' = "admin" /\ DOMAIN mine' = {}
  BY NothingLearnt DEF Start, Invoke
<1>3. Process'
  BY <1>2, Stages DEF Process, Steps
<1>4. QED  BY <1>1, <1>3 DEF StackInv, Orderly

LEMMA StackStep == StackInv /\ [Next]_vars => StackInv'
<1> SUFFICES ASSUME StackInv, [Next]_vars PROVE StackInv'
  OBVIOUS
<1>1. CASE Next
  BY <1>1, StartInv, CheckAdminInv, DeployMockAdminInv, SetUpVotingTokenInv, DeployWLCAIInv,
     DeployTimelockInv, DeployGovernorInv, GrantsInv, VerifyRolesInv, DeployTreasuryInv,
     DeploySubscriptionInv, SaveDeploymentInv DEF Next, Step
<1>2. CASE UNCHANGED vars
  <2>1. UNCHANGED <<chain, env, saved, mine, pc>>
    BY <1>2 DEF vars, script
  <2>2. Orderly' /\ Lasting
    BY <2>1, LocalStep DEF StackInv, Orderly
  <2>3. Process'
    BY <2>1 DEF StackInv, Process, AdminKnown, TokenKnown, TimelockKnown, GovernorKnown, TreasuryKnown,
                SubscriptionKnown, Admin, VotingTokenAddress, PaymentTokenAddress, Multisig, VotingToken, Timelock, Unused,
                Instances, IsA, Contract
  <2>4. QED  BY <2>2, <2>3 DEF StackInv, Orderly
<1>3. QED  BY <1>1, <1>2

LEMMA StackInit == Init => StackInv
<1> SUFFICES ASSUME Init PROVE StackInv
  OBVIOUS
<1>1. chain \in Configured /\ env \in Env /\ saved = Missing /\ pc = "idle"
  BY DEF Init, ScriptInit
<1>2. /\ chain \in Seq(Given) /\ OtherToken \in DOMAIN chain
      /\ \A a, b \in DOMAIN chain : chain[a] = chain[b] => a = b
  <2>0. /\ Safe \in Given /\ Token \in Given /\ Other \in Given /\ OtherToken = 1
        /\ Safe.kind # Token.kind /\ Other.kind # Safe.kind /\ Other.kind # Token.kind
    BY DEF Given, Safe, Token, Other, OtherToken
  <2>1. CASE chain = <<Other>>
    BY <2>0, <2>1
  <2>2. CASE chain = <<Other, Safe>>
    BY <2>0, <2>2
  <2>3. CASE chain = <<Other, Token>>
    BY <2>0, <2>3
  <2>4. CASE chain = <<Other, Safe, Token>>
    BY <2>0, <2>4
  <2>5. QED  BY <1>1, <2>1, <2>2, <2>3, <2>4 DEF Configured
<1>3. Given \subseteq Contracts
  BY DEF Contracts
<1>4. chain \in Seq(Contracts)
  BY <1>2, <1>3
<1>5. Chain
  <2>1. \A a, b \in DOMAIN chain : chain[a].kind = chain[b].kind /\ chain[a].kind \in {"Safe", "WLCAI"} => a = b
    <3> SUFFICES ASSUME NEW a \in DOMAIN chain, NEW b \in DOMAIN chain,
                        chain[a].kind = chain[b].kind, chain[a].kind \in {"Safe", "WLCAI"}
                 PROVE  a = b
      OBVIOUS
    <3>1. chain[a] = chain[b]
      BY <1>4, KindDecides
    <3>2. QED  BY <1>2, <3>1
  <2>2. QED  BY <1>1, <1>2, <1>4, <2>1 DEF Chain, Instances, Contract
<1>6. AlwaysAdministered /\ HandedOver
  <2>1. \A a \in DOMAIN chain : chain[a].kind \in {"Safe", "WLCAI", "ERC20"}
    <3>1. \A a \in DOMAIN chain : chain[a] \in Given
      BY <1>2
    <3>2. QED  BY <3>1 DEF Given
  <2>2. QED  BY <2>1 DEF AlwaysAdministered, HandedOver, Instances
<1>7. File
  BY <1>1 DEF File, Recorded
<1>8. Process
  BY <1>1, Stages DEF Process, Steps, Stopped
<1>9. QED  BY <1>5, <1>6, <1>7, <1>8 DEF StackInv
-----------------------------------------------------------------------------
(* DaoInv is about deploy.ts: a pending grant gives a governor a role over   *)
(* its own timelock, and a process that has got beyond the contracts deployed *)
(* after the grants has seen them mined.                                     *)

Roles == {"proposers", "executors", "cancellers"}

DaoTimelocks ==
  [kind : {"Timelock"}, admins : {{Deployer}}, proposers : SUBSET Nat, executors : SUBSET Nat,
   cancellers : SUBSET Nat]
Counters   == [kind : {"Counter"}, owner : Nat]
DaoGivens  == [kind : {"Safe", "VotingPower", "MockAdmin", "BenchmarkRegistry"}]
DaoContracts == DaoGivens \cup Counters \cup DaoTimelocks \cup Governors

GovernorOf(g, t) == IsA(g, "Governor") /\ chain[g].timelock = t
Holds(g, t, role) == g \in chain[t][role]

DaoChain ==
  /\ chain \in Seq(DaoContracts)
  /\ \A t \in Instances("Timelock") :
       \A g \in (chain[t].proposers \cup chain[t].executors) \ {Deployer} : GovernorOf(g, t)

DaoPending ==
  /\ pending \in Seq([role : Roles, timelock : Nat, to : Nat])
  /\ \A i \in DOMAIN pending :
       IsA(pending[i].timelock, "Timelock") /\ GovernorOf(pending[i].to, pending[i].timelock)

DaoHistory ==
  /\ history \in Seq([timelock : Nat, governor : Nat])
  /\ \A i \in DOMAIN history :
       /\ IsA(history[i].timelock, "Timelock")
       /\ \A role \in Roles : Holds(history[i].governor, history[i].timelock, role)

DaoAfterGrants    == {"counter", "log"}
DaoAfterGovernor  == {"grants", "benchmark"} \cup DaoAfterGrants
DaoAfterVoting    == {"admin", "mock", "governor"} \cup DaoAfterGovernor
DaoAfterTimelock  == {"voting"} \cup DaoAfterVoting

DaoTimelockKnown == "timelock" \in DOMAIN mine /\ IsA(mine.timelock, "Timelock")
DaoTokenKnown    == "token" \in DOMAIN mine /\ Contract(mine.token)
DaoGovernorKnown == "governor" \in DOMAIN mine /\ GovernorOf(mine.governor, mine.timelock)

Sent(role) ==
  \E i \in DOMAIN pending :
    pending[i].role = role /\ pending[i].timelock = mine.timelock /\ pending[i].to = mine.governor

DaoProcess ==
  /\ pc \in Stopped \cup DaoAfterTimelock \cup {"timelock", "allVoting", "allTimelock", "allGovernor"}
  /\ "mock" \in DOMAIN mine => Contract(mine.mock)
  /\ pc \in DaoAfterTimelock => DaoTimelockKnown
  /\ pc \in DaoAfterVoting => DaoTokenKnown
  /\ pc \in DaoAfterGovernor => DaoGovernorKnown
  /\ pc = "benchmark" =>
       \A role \in Roles : Holds(mine.governor, mine.timelock, role) \/ Sent(role)
  /\ pc \in DaoAfterGrants => \A role \in Roles : Holds(mine.governor, mine.timelock, role)

DaoInv == DaoChain /\ DaoPending /\ DaoHistory /\ DaoProcess

SessionInv ==
  \/ session = "stack" /\ StackInv
  \/ session = "dao" /\ DaoInv /\ saved = Missing
-----------------------------------------------------------------------------
(* What deploying a contract does to what is known. *)

LEMMA DaoKinds ==
  ASSUME NEW c \in DaoContracts
  PROVE  c.kind = "Timelock" => c \in DaoTimelocks
BY DEF DaoContracts, DaoGivens, Counters, DaoTimelocks, Governors

DaoOrderly == DaoChain /\ DaoPending /\ DaoHistory

LEMMA DaoStoppedKnowsNothing == ASSUME pc' = "failed", mine' = NoLocals PROVE DaoProcess'
BY NothingLearnt DEF DaoProcess, Stopped, DaoAfterGrants, DaoAfterGovernor, DaoAfterVoting, DaoAfterTimelock

LEMMA DaoUnmoved ==
  ASSUME DaoOrderly, UNCHANGED <<chain, pending, history>>
  PROVE  DaoOrderly'
BY DEF DaoOrderly, DaoChain, DaoPending, DaoHistory, Instances, IsA, Contract, GovernorOf, Holds

LEMMA DaoDeployed ==
  ASSUME DaoOrderly, NEW c \in DaoContracts, chain' = Append(chain, c), UNCHANGED <<pending, history>>,
         c.kind = "Timelock" => c.proposers \cup c.executors \subseteq {Deployer}
  PROVE  DaoOrderly'
<1>1. /\ chain' \in Seq(DaoContracts)
      /\ DOMAIN chain' = DOMAIN chain \cup {Len(chain) + 1}
      /\ chain'[Len(chain) + 1] = c
      /\ \A a \in DOMAIN chain : chain'[a] = chain[a]
  BY Appended DEF DaoOrderly, DaoChain
<1>2. \A g, t : GovernorOf(g, t) => GovernorOf(g, t)'
  BY <1>1 DEF GovernorOf, IsA, Contract
<1>3. \A t : IsA(t, "Timelock") => IsA(t, "Timelock")' /\ chain'[t] = chain[t]
  BY <1>1 DEF IsA, Contract
<1>4. DaoChain'
  <2> SUFFICES ASSUME NEW t \in DOMAIN chain', chain'[t].kind = "Timelock",
                      NEW g \in (chain'[t].proposers \cup chain'[t].executors) \ {Deployer}
               PROVE  GovernorOf(g, t)'
    BY <1>1 DEF DaoChain, Instances
  <2>1. t \in DOMAIN chain /\ chain'[t] = chain[t]
    BY <1>1
  <2>2. QED  BY <1>2, <2>1 DEF DaoOrderly, DaoChain, Instances
<1>5. DaoPending'
  BY <1>2, <1>3 DEF DaoOrderly, DaoPending
<1>6. DaoHistory'
  BY <1>3 DEF DaoOrderly, DaoHistory, Holds
<1>7. QED  BY <1>4, <1>5, <1>6 DEF DaoOrderly

(* A transaction of deploy.ts that deploys a contract. *)
LEMMA DaoDeployStep ==
  ASSUME DaoInv, NEW at, NEW next, NEW name, NEW c \in DaoContracts,
         Dao!DeployNext(at, next, name, c),
         c.kind = "Timelock" => c.proposers \cup c.executors \subseteq {Deployer}
  PROVE  /\ DaoOrderly' /\ pc = at
         /\ \/ DaoProcess'
            \/ /\ pc' = next /\ pending = <<>> /\ UNCHANGED pending
               /\ Taught(name, c)
<1>1. /\ pc = at /\ UNCHANGED <<env, pending, history>>
      /\ chain' # chain => pending = <<>>
      /\ \/ UNCHANGED chain /\ pc' = "failed" /\ mine' = NoLocals
         \/ chain' = Append(chain, c) /\ pc' = "failed" /\ mine' = NoLocals
         \/ chain' = Append(chain, c) /\ pc' = next /\ Learn(name, Len(chain) + 1)
  BY DEF Dao!DeployNext, Dao!Deploy, Dao!Lost, Dao!Goto, Dao!Learn, Learn, Dao!NoLocals, NoLocals
<1>2. CASE UNCHANGED chain /\ pc' = "failed" /\ mine' = NoLocals
  BY <1>1, <1>2, DaoUnmoved, DaoStoppedKnowsNothing DEF DaoInv, DaoOrderly
<1>3. CASE chain' = Append(chain, c) /\ pc' = "failed" /\ mine' = NoLocals
  BY <1>1, <1>3, DaoDeployed, DaoStoppedKnowsNothing DEF DaoInv, DaoOrderly
<1>4. CASE chain' = Append(chain, c) /\ pc' = next /\ Learn(name, Len(chain) + 1)
  <2>1. DaoOrderly'
    BY <1>1, <1>4, DaoDeployed DEF DaoInv, DaoOrderly
  <2>2. /\ Len(chain) + 1 \in DOMAIN chain' /\ chain'[Len(chain) + 1] = c
        /\ Len(chain) + 1 \notin DOMAIN chain
        /\ \A a \in DOMAIN chain : a \in DOMAIN chain' /\ chain'[a] = chain[a]
    BY <1>4, Appended DEF DaoInv, DaoChain
  <2>3. chain' # chain
    BY <2>2
  <2>4. /\ DOMAIN mine' = DOMAIN mine \cup {name} /\ mine'[name] = Len(chain) + 1
        /\ \A n \in DOMAIN mine \ {name} : mine'[n] = mine[n]
    BY <1>4, Learnt
  <2>5. QED  BY <1>1, <1>4, <2>1, <2>2, <2>3, <2>4 DEF Taught
<1>5. QED  BY <1>1, <1>2, <1>3, <1>4

LEMMA DaoStages ==
  /\ \A p : p \in DaoAfterGrants <=> p \in {"counter", "log"}
  /\ \A p : p \in DaoAfterGovernor <=> p \in {"grants", "benchmark", "counter", "log"}
  /\ \A p : p \in DaoAfterVoting <=>
       p \in {"admin", "mock", "governor", "grants", "benchmark", "counter", "log"}
  /\ \A p : p \in DaoAfterTimelock <=>
       p \in {"voting", "admin", "mock", "governor", "grants", "benchmark", "counter", "log"}
BY DEF DaoAfterGrants, DaoAfterGovernor, DaoAfterVoting, DaoAfterTimelock

(* What a deployment that succeeds leaves known. *)
LEMMA DaoKnownStays ==
  ASSUME NEW name, NEW c, Taught(name, c)
  PROVE  /\ name # "timelock" /\ DaoTimelockKnown => DaoTimelockKnown' /\ mine'["timelock"] = mine["timelock"]
         /\ DaoTokenKnown => DaoTokenKnown'
         /\ name \notin {"timelock", "governor"} /\ DaoTimelockKnown /\ DaoGovernorKnown =>
              /\ DaoGovernorKnown' /\ mine'["governor"] = mine["governor"]
              /\ \A role : Holds(mine.governor, mine.timelock, role) => Holds(mine.governor, mine.timelock, role)'
         /\ ("mock" \in DOMAIN mine => Contract(mine.mock)) => ("mock" \in DOMAIN mine' => Contract(mine.mock)')
<1>1. name # "timelock" /\ DaoTimelockKnown => DaoTimelockKnown' /\ mine'["timelock"] = mine["timelock"]
  BY DEF DaoTimelockKnown, IsA, Contract, Taught
<1>2. DaoTokenKnown => DaoTokenKnown'
  BY DEF DaoTokenKnown, Contract, Taught
<1>3. ASSUME name \notin {"timelock", "governor"}, DaoTimelockKnown, DaoGovernorKnown
      PROVE  /\ DaoGovernorKnown' /\ mine'["governor"] = mine["governor"]
             /\ \A role : Holds(mine.governor, mine.timelock, role) => Holds(mine.governor, mine.timelock, role)'
  <2>1. /\ "governor" \in DOMAIN mine' /\ mine'["governor"] = mine["governor"]
        /\ mine'["timelock"] = mine["timelock"]
    BY <1>3 DEF DaoGovernorKnown, DaoTimelockKnown, Taught
  <2>2. /\ chain'[mine["governor"]] = chain[mine["governor"]] /\ mine["governor"] \in DOMAIN chain'
        /\ chain'[mine["timelock"]] = chain[mine["timelock"]]
    BY <1>3 DEF DaoGovernorKnown, DaoTimelockKnown, GovernorOf, IsA, Contract, Taught
  <2>3. QED  BY <1>3, <2>1, <2>2 DEF DaoGovernorKnown, GovernorOf, IsA, Contract, Holds
<1>4. ("mock" \in DOMAIN mine => Contract(mine.mock)) => ("mock" \in DOMAIN mine' => Contract(mine.mock)')
  BY DEF Contract, Taught
<1>5. QED  BY <1>1, <1>2, <1>3, <1>4

LEMMA DaoDeployTimelockInv ==
  ASSUME DaoInv, Dao!DeployTimelock
  PROVE  DaoInv'
<1> DEFINE c == [kind |-> "Timelock", admins |-> {Deployer}, proposers |-> {}, executors |-> {},
                 cancellers |-> {}]
<1>1. Dao!DeployNext("timelock", "voting", "timelock", c) /\ pc = "timelock"
  BY DEF Dao!DeployTimelock, Dao!DeployNext, Dao!Deploy, Dao!NewTimelock, Dao!Deployer, Deployer, Dao!Admin
<1>2. c \in DaoContracts /\ c.kind = "Timelock" /\ c.proposers \cup c.executors \subseteq {Deployer}
  BY DEF DaoContracts, DaoTimelocks
<1> HIDE DEF c
<1>3. /\ DaoOrderly'
      /\ \/ DaoProcess'
         \/ /\ pc' = "voting" /\ pending = <<>> /\ UNCHANGED pending
            /\ Taught("timelock", c)
  BY <1>1, <1>2, DaoDeployStep
<1>4. ASSUME pc' = "voting", pending = <<>>, Taught("timelock", c)
      PROVE  DaoProcess'
  <2>1. "mock" \in DOMAIN mine' => Contract(mine.mock)'
    BY <1>4, DaoKnownStays DEF DaoInv, DaoProcess
  <2>2. DaoTimelockKnown'
    BY <1>2, <1>4 DEF DaoTimelockKnown, IsA, Contract, Taught
  <2>3. QED  BY <1>4, <2>1, <2>2, DaoStages DEF DaoProcess
<1>5. QED  BY <1>3, <1>4 DEF DaoInv, DaoOrderly

LEMMA DaoDeployVotingPowerInv ==
  ASSUME DaoInv, Dao!DeployVotingPower
  PROVE  DaoInv'
<1> DEFINE c == [kind |-> "VotingPower"]
<1>1. Dao!DeployNext("voting", "admin", "token", c) /\ pc = "voting"
  BY DEF Dao!DeployVotingPower, Dao!DeployNext, Dao!Deploy, Dao!NewTimelock, Dao!Deployer, Deployer, Dao!Admin
<1>2. c \in DaoContracts /\ c.kind = "VotingPower"
  BY DEF DaoContracts, DaoGivens
<1> HIDE DEF c
<1>3. /\ DaoOrderly'
      /\ \/ DaoProcess'
         \/ /\ pc' = "admin" /\ pending = <<>> /\ UNCHANGED pending
            /\ Taught("token", c)
  BY <1>1, <1>2, DaoDeployStep
<1>4. ASSUME pc' = "admin", pending = <<>>, Taught("token", c)
      PROVE  DaoProcess'
  <2>1. DaoTimelockKnown
    BY <1>1, DaoStages DEF DaoInv, DaoProcess
  <2>2. "mock" \in DOMAIN mine' => Contract(mine.mock)'
    BY <1>4, DaoKnownStays DEF DaoInv, DaoProcess
  <2>3. DaoTimelockKnown'
    BY <1>4, <2>1, DaoKnownStays
  <2>4. DaoTokenKnown'
    BY <1>4 DEF DaoTokenKnown, Contract, Taught
  <2>5. QED  BY <1>4, <2>2, <2>3, <2>4, DaoStages DEF DaoProcess
<1>5. QED  BY <1>3, <1>4 DEF DaoInv, DaoOrderly

LEMMA DaoDeployMockAdminInv ==
  ASSUME DaoInv, Dao!DeployMockAdmin
  PROVE  DaoInv'
<1> DEFINE c == [kind |-> "MockAdmin"]
<1>1. Dao!DeployNext("mock", "governor", "mock", c) /\ pc = "mock"
  BY DEF Dao!DeployMockAdmin, Dao!DeployNext, Dao!Deploy, Dao!NewTimelock, Dao!Deployer, Deployer, Dao!Admin
<1>2. c \in DaoContracts /\ c.kind = "MockAdmin"
  BY DEF DaoContracts, DaoGivens
<1> HIDE DEF c
<1>3. /\ DaoOrderly'
      /\ \/ DaoProcess'
         \/ /\ pc' = "governor" /\ pending = <<>> /\ UNCHANGED pending
            /\ Taught("mock", c)
  BY <1>1, <1>2, DaoDeployStep
<1>4. ASSUME pc' = "governor", pending = <<>>, Taught("mock", c)
      PROVE  DaoProcess'
  <2>1. DaoTimelockKnown /\ DaoTokenKnown
    BY <1>1, DaoStages DEF DaoInv, DaoProcess
  <2>2. Contract(mine.mock)'
    BY <1>4 DEF Contract, Taught
  <2>3. DaoTimelockKnown' /\ DaoTokenKnown'
    BY <1>4, <2>1, DaoKnownStays
  <2>4. QED  BY <1>4, <2>2, <2>3, DaoStages DEF DaoProcess
<1>5. QED  BY <1>3, <1>4 DEF DaoInv, DaoOrderly

LEMMA DaoDeployGovernorInv ==
  ASSUME DaoInv, Dao!DeployGovernor
  PROVE  DaoInv'
<1> DEFINE c == [kind |-> "Governor", token |-> mine.token, timelock |-> mine.timelock, admin |-> Dao!Admin]
<1>1. Dao!DeployNext("governor", "grants", "governor", c) /\ pc = "governor"
  BY DEF Dao!DeployGovernor, Dao!DeployNext, Dao!Deploy, Dao!NewTimelock, Dao!Deployer, Deployer, Dao!Admin
<1>2. c \in DaoContracts /\ c.kind = "Governor"
  <2>1. DaoTimelockKnown /\ DaoTokenKnown /\ DOMAIN chain \subseteq Nat
    BY <1>1, DaoStages DEF DaoInv, DaoProcess, DaoChain
  <2>2. mine.timelock \in Nat /\ mine.token \in Nat /\ Dao!Admin \in Nat
    BY <2>1 DEF DaoTimelockKnown, DaoTokenKnown, DaoInv, DaoProcess, IsA, Contract, Dao!Admin
  <2>3. QED  BY <2>2 DEF DaoContracts, Governors
<1> HIDE DEF c
<1>3. /\ DaoOrderly'
      /\ \/ DaoProcess'
         \/ /\ pc' = "grants" /\ pending = <<>> /\ UNCHANGED pending
            /\ Taught("governor", c)
  BY <1>1, <1>2, DaoDeployStep
<1>4. ASSUME pc' = "grants", pending = <<>>, Taught("governor", c)
      PROVE  DaoProcess'
  <2>1. DaoTimelockKnown /\ DaoTokenKnown
    BY <1>1, DaoStages DEF DaoInv, DaoProcess
  <2>2. "mock" \in DOMAIN mine' => Contract(mine.mock)'
    BY <1>4, DaoKnownStays DEF DaoInv, DaoProcess
  <2>3. DaoTimelockKnown' /\ DaoTokenKnown' /\ mine'["timelock"] = mine["timelock"]
    BY <1>4, <2>1, DaoKnownStays
  <2>4. c.kind = "Governor" /\ c.timelock = mine["timelock"]
    BY DEF c
  <2>5. DaoGovernorKnown'
    BY <1>4, <2>3, <2>4 DEF DaoGovernorKnown, GovernorOf, IsA, Contract, Taught
  <2>6. QED  BY <1>4, <2>2, <2>3, <2>5, DaoStages DEF DaoProcess
<1>5. QED  BY <1>3, <1>4 DEF DaoInv, DaoOrderly

LEMMA DaoDeployBenchmarkRegistryInv ==
  ASSUME DaoInv, Dao!DeployBenchmarkRegistry
  PROVE  DaoInv'
<1> DEFINE c == [kind |-> "BenchmarkRegistry"]
<1>1. Dao!DeployNext("benchmark", "counter", "benchmark", c) /\ pc = "benchmark"
  BY DEF Dao!DeployBenchmarkRegistry, Dao!DeployNext, Dao!Deploy, Dao!NewTimelock, Dao!Deployer, Deployer, Dao!Admin
<1>2. c \in DaoContracts /\ c.kind = "BenchmarkRegistry"
  BY DEF DaoContracts, DaoGivens
<1> HIDE DEF c
<1>3. /\ DaoOrderly'
      /\ \/ DaoProcess'
         \/ /\ pc' = "counter" /\ pending = <<>> /\ UNCHANGED pending
            /\ Taught("benchmark", c)
  BY <1>1, <1>2, DaoDeployStep
<1>4. ASSUME pc' = "counter", pending = <<>>, Taught("benchmark", c)
      PROVE  DaoProcess'
  <2>1. DaoTimelockKnown /\ DaoTokenKnown /\ DaoGovernorKnown
    BY <1>1, DaoStages DEF DaoInv, DaoProcess
  <2>2. \A role \in Roles : Holds(mine.governor, mine.timelock, role)
    BY <1>1, <1>4 DEF DaoInv, DaoProcess, Sent
  <2>3. "mock" \in DOMAIN mine' => Contract(mine.mock)'
    BY <1>4, DaoKnownStays DEF DaoInv, DaoProcess
  <2>4. DaoTimelockKnown' /\ DaoTokenKnown'
    BY <1>4, <2>1, DaoKnownStays
  <2>5. DaoGovernorKnown' /\ \A role \in Roles : Holds(mine.governor, mine.timelock, role)'
    BY <1>4, <2>1, <2>2, DaoKnownStays
  <2>6. QED  BY <1>4, <2>3, <2>4, <2>5, DaoStages DEF DaoProcess
<1>5. QED  BY <1>3, <1>4 DEF DaoInv, DaoOrderly

LEMMA DaoDeployCounterInv ==
  ASSUME DaoInv, Dao!DeployCounter
  PROVE  DaoInv'
<1> DEFINE c == [kind |-> "Counter", owner |-> mine.timelock]
<1>1. Dao!DeployNext("counter", "log", "counter", c) /\ pc = "counter"
  BY DEF Dao!DeployCounter, Dao!DeployNext, Dao!Deploy, Dao!NewTimelock, Dao!Deployer, Deployer, Dao!Admin
<1>2. c \in DaoContracts /\ c.kind = "Counter"
  <2>1. DaoTimelockKnown /\ DOMAIN chain \subseteq Nat
    BY <1>1, DaoStages DEF DaoInv, DaoProcess, DaoChain
  <2>2. QED  BY <2>1 DEF DaoContracts, Counters, DaoTimelockKnown, IsA, Contract
<1> HIDE DEF c
<1>3. /\ DaoOrderly'
      /\ \/ DaoProcess'
         \/ /\ pc' = "log" /\ pending = <<>> /\ UNCHANGED pending
            /\ Taught("counter", c)
  BY <1>1, <1>2, DaoDeployStep
<1>4. ASSUME pc' = "log", pending = <<>>, Taught("counter", c)
      PROVE  DaoProcess'
  <2>1. DaoTimelockKnown /\ DaoTokenKnown /\ DaoGovernorKnown
    BY <1>1, DaoStages DEF DaoInv, DaoProcess
  <2>2. \A role \in Roles : Holds(mine.governor, mine.timelock, role)
    BY <1>1, DaoStages DEF DaoInv, DaoProcess
  <2>3. "mock" \in DOMAIN mine' => Contract(mine.mock)'
    BY <1>4, DaoKnownStays DEF DaoInv, DaoProcess
  <2>4. DaoTimelockKnown' /\ DaoTokenKnown'
    BY <1>4, <2>1, DaoKnownStays
  <2>5. DaoGovernorKnown' /\ \A role \in Roles : Holds(mine.governor, mine.timelock, role)'
    BY <1>4, <2>1, <2>2, DaoKnownStays
  <2>6. QED  BY <1>4, <2>3, <2>4, <2>5, DaoStages DEF DaoProcess
<1>5. QED  BY <1>3, <1>4 DEF DaoInv, DaoOrderly

LEMMA DaoAllDeployVotingPowerInv ==
  ASSUME DaoInv, Dao!AllDeployVotingPower
  PROVE  DaoInv'
<1> DEFINE c == [kind |-> "VotingPower"]
<1>1. Dao!DeployNext("allVoting", "allTimelock", "token", c) /\ pc = "allVoting"
  BY DEF Dao!AllDeployVotingPower, Dao!DeployNext, Dao!Deploy, Dao!NewTimelock, Dao!Deployer, Deployer, Dao!Admin
<1>2. c \in DaoContracts /\ c.kind = "VotingPower"
  BY DEF DaoContracts, DaoGivens
<1> HIDE DEF c
<1>3. /\ DaoOrderly'
      /\ \/ DaoProcess'
         \/ /\ pc' = "allTimelock" /\ pending = <<>> /\ UNCHANGED pending
            /\ Taught("token", c)
  BY <1>1, <1>2, DaoDeployStep
<1>4. ASSUME pc' = "allTimelock", pending = <<>>, Taught("token", c)
      PROVE  DaoProcess'
  <2>1. "mock" \in DOMAIN mine' => Contract(mine.mock)'
    BY <1>4, DaoKnownStays DEF DaoInv, DaoProcess
  <2>2. pc' \notin DaoAfterTimelock /\ pc' \notin DaoAfterVoting /\ pc' \notin DaoAfterGovernor
    BY <1>4, DaoStages
  <2>3. QED  BY <1>4, <2>1, <2>2, DaoStages DEF DaoProcess
<1>5. QED  BY <1>3, <1>4 DEF DaoInv, DaoOrderly

LEMMA DaoAllDeployTimelockInv ==
  ASSUME DaoInv, Dao!AllDeployTimelock
  PROVE  DaoInv'
<1> DEFINE c == [kind |-> "Timelock", admins |-> {Deployer}, proposers |-> {Deployer}, executors |-> {Deployer},
                 cancellers |-> {Deployer}]
<1>1. Dao!DeployNext("allTimelock", "allGovernor", "timelock", c) /\ pc = "allTimelock"
  BY DEF Dao!AllDeployTimelock, Dao!DeployNext, Dao!Deploy, Dao!NewTimelock, Dao!Deployer, Deployer, Dao!Admin
<1>2. c \in DaoContracts /\ c.kind = "Timelock" /\ c.proposers \cup c.executors \subseteq {Deployer}
  BY DEF DaoContracts, DaoTimelocks, Deployer
<1> HIDE DEF c
<1>3. /\ DaoOrderly'
      /\ \/ DaoProcess'
         \/ /\ pc' = "allGovernor" /\ pending = <<>> /\ UNCHANGED pending
            /\ Taught("timelock", c)
  BY <1>1, <1>2, DaoDeployStep
<1>4. ASSUME pc' = "allGovernor", pending = <<>>, Taught("timelock", c)
      PROVE  DaoProcess'
  <2>1. "mock" \in DOMAIN mine' => Contract(mine.mock)'
    BY <1>4, DaoKnownStays DEF DaoInv, DaoProcess
  <2>2. pc' \notin DaoAfterTimelock /\ pc' \notin DaoAfterVoting /\ pc' \notin DaoAfterGovernor
    BY <1>4, DaoStages
  <2>3. QED  BY <1>4, <2>1, <2>2, DaoStages DEF DaoProcess
<1>5. QED  BY <1>3, <1>4 DEF DaoInv, DaoOrderly

LEMMA DaoStartInv ==
  ASSUME DaoInv, Dao!Start \/ Dao!StartAll \/ Dao!AllDeployGovernor
  PROVE  DaoInv'
<1>1. /\ UNCHANGED <<chain, pending, history>> /\ mine' = NoLocals
      /\ pc' \in {"timelock", "allVoting", "failed"}
  BY DEF Dao!Start, Dao!StartAll, Dao!AllDeployGovernor, Dao!Invoke, Dao!Throw, Dao!NoLocals, NoLocals
<1>2. DaoOrderly'
  BY <1>1, DaoUnmoved DEF DaoInv, DaoOrderly
<1>3. DaoProcess'
  BY <1>1, NothingLearnt, DaoStages DEF DaoProcess, Stopped
<1>4. QED  BY <1>2, <1>3 DEF DaoInv, DaoOrderly

LEMMA DaoResolveAdminInv ==
  ASSUME DaoInv, Dao!ResolveAdmin
  PROVE  DaoInv'
<1>1. /\ UNCHANGED <<chain, env, pending, history>> /\ pc = "admin"
      /\ \/ pc' \in {"governor", "mock"} /\ UNCHANGED mine
         \/ pc' = "failed" /\ mine' = NoLocals
  BY DEF Dao!ResolveAdmin, Dao!Goto, Dao!Throw, Dao!NoLocals, NoLocals
<1>2. DaoOrderly'
  BY <1>1, DaoUnmoved DEF DaoInv, DaoOrderly
<1>3. CASE pc' = "failed" /\ mine' = NoLocals
  BY <1>2, <1>3, DaoStoppedKnowsNothing DEF DaoInv, DaoOrderly
<1>4. CASE pc' \in {"governor", "mock"} /\ UNCHANGED mine
  <2>1. DaoTimelockKnown /\ DaoTokenKnown /\ ("mock" \in DOMAIN mine => Contract(mine.mock))
    BY <1>1, DaoStages DEF DaoInv, DaoProcess
  <2>2. DaoTimelockKnown' /\ DaoTokenKnown' /\ ("mock" \in DOMAIN mine' => Contract(mine.mock)')
    BY <1>1, <1>4, <2>1 DEF DaoTimelockKnown, DaoTokenKnown, IsA, Contract
  <2>3. pc' \notin DaoAfterGovernor /\ pc' \notin DaoAfterGrants
    BY <1>4, DaoStages
  <2>4. DaoProcess'
    BY <1>4, <2>2, <2>3, DaoStages DEF DaoProcess
  <2>5. QED  BY <1>2, <2>4 DEF DaoInv, DaoOrderly
<1>5. QED  BY <1>1, <1>3, <1>4

Grants == [role : Roles, timelock : Nat, to : Nat]

(* The grants that are sent join the pending ones. *)
LEMMA DaoSent ==
  ASSUME DaoOrderly, NEW sent \in Seq(Grants), pending' = pending \o sent, UNCHANGED <<chain, history>>,
         \A i \in DOMAIN sent : IsA(sent[i].timelock, "Timelock") /\ GovernorOf(sent[i].to, sent[i].timelock)
  PROVE  DaoOrderly'
<1>1. pending \in Seq(Grants)
  BY DEF DaoOrderly, DaoPending, Grants
<1>2. pending' \in Seq(Grants)
  BY <1>1
<1>3. \A i \in DOMAIN pending' : (\E j \in DOMAIN pending : pending'[i] = pending[j])
                                   \/ (\E j \in DOMAIN sent : pending'[i] = sent[j])
  <2> SUFFICES ASSUME NEW i \in DOMAIN pending'
               PROVE  \/ \E j \in DOMAIN pending : pending'[i] = pending[j]
                      \/ \E j \in DOMAIN sent : pending'[i] = sent[j]
    OBVIOUS
  <2>1. /\ Len(pending') = Len(pending) + Len(sent) /\ Len(pending) \in Nat /\ Len(sent) \in Nat
        /\ DOMAIN pending = 1..Len(pending) /\ DOMAIN sent = 1..Len(sent) /\ i \in 1..Len(pending')
        /\ \A k \in 1..(Len(pending) + Len(sent)) :
             (pending \o sent)[k] = IF k <= Len(pending) THEN pending[k] ELSE sent[k - Len(pending)]
    BY <1>1, <1>2, ConcatProperties, LenProperties
  <2>2. CASE i <= Len(pending)
    BY <2>1, <2>2
  <2>3. CASE ~(i <= Len(pending))
    <3>1. i - Len(pending) \in DOMAIN sent
      BY <2>1, <2>3
    <3>2. pending'[i] = sent[i - Len(pending)]
      BY <2>1, <2>3
    <3>3. QED  BY <3>1, <3>2
  <2>4. QED  BY <2>2, <2>3
<1>4. \A i \in DOMAIN pending' :
        IsA(pending'[i].timelock, "Timelock") /\ GovernorOf(pending'[i].to, pending'[i].timelock)
  BY <1>3 DEF DaoOrderly, DaoPending
<1>5. DaoPending'
  BY <1>2, <1>4 DEF DaoPending, GovernorOf, IsA, Contract, Grants
<1>6. DaoChain' /\ DaoHistory'
  BY DEF DaoOrderly, DaoChain, DaoHistory, Instances, IsA, Contract, GovernorOf, Holds
<1>7. QED  BY <1>5, <1>6 DEF DaoOrderly

LEMMA DaoSendGrantsInv ==
  ASSUME DaoInv, Dao!SendGrants
  PROVE  DaoInv'
<1> DEFINE G(role) == [role |-> role, timelock |-> mine.timelock, to |-> mine.governor]
           three == <<G("proposers"), G("executors"), G("cancellers")>>
<1>1. /\ pc = "grants" /\ UNCHANGED <<chain, env, history>>
      /\ \/ pending' = pending \o three /\ pc' = "benchmark" /\ UNCHANGED mine
         \/ /\ \E n \in 0..3 : pending' = pending \o SubSeq(three, 1, n)
            /\ pc' = "failed" /\ mine' = NoLocals
  BY DEF Dao!SendGrants, Dao!Grants, Dao!Grant, Dao!Goto, Dao!Lost, Dao!NoLocals, NoLocals
<1>2. DaoTimelockKnown /\ DaoTokenKnown /\ DaoGovernorKnown /\ DaoOrderly
      /\ ("mock" \in DOMAIN mine => Contract(mine.mock))
  BY <1>1, DaoStages DEF DaoInv, DaoProcess, DaoOrderly
<1>3. mine.timelock \in Nat /\ mine.governor \in Nat
  BY <1>2 DEF DaoTimelockKnown, DaoGovernorKnown, GovernorOf, IsA, Contract, DaoOrderly, DaoChain
<1>4. three \in Seq(Grants) /\ DOMAIN three = 1..3 /\ Len(three) = 3
      /\ three[1] = G("proposers") /\ three[2] = G("executors") /\ three[3] = G("cancellers")
  BY <1>3 DEF Grants, Roles
<1>5. \A i \in DOMAIN three : three[i].timelock = mine.timelock /\ three[i].to = mine.governor
  BY <1>4
<1> HIDE DEF three, G
<1>6. \A sent \in Seq(Grants) :
        (\A i \in DOMAIN sent : sent[i].timelock = mine.timelock /\ sent[i].to = mine.governor)
          /\ pending' = pending \o sent => DaoOrderly'
  BY <1>1, <1>2, DaoSent DEF DaoTimelockKnown, DaoGovernorKnown
<1>7. CASE pending' = pending \o three /\ pc' = "benchmark" /\ UNCHANGED mine
  <2>1. DaoOrderly'
    BY <1>4, <1>5, <1>6, <1>7
  <2>2. \A role \in Roles : Sent(role)'
    <3>1. /\ pending \in Seq(Grants) /\ Len(pending) \in Nat
          /\ \A k \in 1..(Len(pending) + 3) :
               (pending \o three)[k] = IF k <= Len(pending) THEN pending[k] ELSE three[k - Len(pending)]
          /\ DOMAIN (pending \o three) = 1..(Len(pending) + 3)
      <4>1. pending \in Seq(Grants) /\ three \in Seq(Grants) /\ Len(three) = 3
        BY <1>2, <1>4 DEF DaoOrderly, DaoPending, Grants
      <4>2. /\ Len(pending) \in Nat /\ pending \o three \in Seq(Grants)
            /\ Len(pending \o three) = Len(pending) + 3
            /\ \A k \in 1..(Len(pending) + 3) :
                 (pending \o three)[k] = IF k <= Len(pending) THEN pending[k] ELSE three[k - Len(pending)]
        <5>1. /\ pending \o three \in Seq(Grants)
              /\ Len(pending \o three) = Len(pending) + Len(three)
              /\ \A k \in 1..(Len(pending) + Len(three)) :
                   (pending \o three)[k] = IF k <= Len(pending) THEN pending[k] ELSE three[k - Len(pending)]
          BY <4>1, ConcatProperties
        <5>2. QED  BY <4>1, <5>1, LenProperties
      <4>3. QED  BY <4>1, <4>2, LenProperties
    <3>2. \A j \in 1..3 : Len(pending) + j \in DOMAIN pending' /\ pending'[Len(pending) + j] = three[j]
      <4> TAKE j \in 1..3
      <4> DEFINE k == Len(pending) + j
      <4>1. k \in 1..(Len(pending) + 3) /\ ~(k <= Len(pending)) /\ k - Len(pending) = j
        BY <3>1
      <4> HIDE DEF k
      <4>2. k \in DOMAIN pending' /\ pending'[k] = three[k - Len(pending)]
        BY <1>7, <3>1, <4>1
      <4>3. QED  BY <4>1, <4>2 DEF k
    <3>3. \A role \in Roles : \E j \in 1..3 : three[j] = G(role)
      BY <1>4 DEF Roles
    <3>4. \A role : G(role).role = role /\ G(role).timelock = mine.timelock /\ G(role).to = mine.governor
      BY DEF G
    <3>5. ASSUME NEW role \in Roles PROVE Sent(role)'
      <4>1. PICK j \in 1..3 : three[j] = G(role)
        BY <3>3
      <4>2. /\ Len(pending) + j \in DOMAIN pending'
            /\ pending'[Len(pending) + j] = G(role)
        BY <3>2, <4>1
      <4>3. QED  BY <1>7, <3>4, <4>2 DEF Sent
    <3>6. QED  BY <3>5
  <2>3. DaoTimelockKnown' /\ DaoTokenKnown' /\ DaoGovernorKnown' /\ ("mock" \in DOMAIN mine' => Contract(mine.mock)')
    BY <1>1, <1>2, <1>7 DEF DaoTimelockKnown, DaoTokenKnown, DaoGovernorKnown, GovernorOf, IsA, Contract
  <2>4. pc' \notin DaoAfterGrants
    BY <1>7, DaoStages
  <2>5. DaoProcess'
    BY <1>7, <2>2, <2>3, <2>4, DaoStages DEF DaoProcess
  <2>6. QED  BY <2>1, <2>5 DEF DaoInv, DaoOrderly
<1>8. CASE (\E n \in 0..3 : pending' = pending \o SubSeq(three, 1, n)) /\ pc' = "failed" /\ mine' = NoLocals
  <2>1. PICK n \in 0..3 : pending' = pending \o SubSeq(three, 1, n)
    BY <1>8
  <2> DEFINE sent == SubSeq(three, 1, n)
  <2>2. /\ sent \in Seq(Grants)
        /\ \A i \in DOMAIN sent : sent[i] = three[i] /\ i \in DOMAIN three
    <3>1. /\ \A i \in 1..n : i \in 1..Len(three) /\ three[i] \in Grants
          /\ 1 \in Int /\ n \in Int
      BY <1>4, ElementOfSeq
    <3>2. /\ sent \in Seq(Grants)
          /\ Len(sent) = IF 1 <= n THEN n - 1 + 1 ELSE 0
          /\ \A i \in 1..(n - 1 + 1) : sent[i] = three[1 + i - 1]
      BY <3>1, SubSeqProperties
    <3>3. DOMAIN sent = 1..n
      BY <3>2, LenProperties
    <3>4. QED  BY <1>4, <3>2, <3>3
  <2> HIDE DEF sent
  <2>3. DaoOrderly'
    BY <1>5, <1>6, <2>1, <2>2 DEF sent
  <2>4. QED  BY <1>8, <2>3, DaoStoppedKnowsNothing DEF DaoInv, DaoOrderly
<1>9. QED  BY <1>1, <1>7, <1>8

LEMMA DaoMineGrantInv ==
  ASSUME DaoInv, Dao!MineGrant
  PROVE  DaoInv'
<1> DEFINE g == Head(pending)
           t == g.timelock
           c == [chain[t] EXCEPT ![g.role] = @ \cup {g.to}]
<1>1. /\ pending # <<>> /\ pending' = Tail(pending)
      /\ chain' = [chain EXCEPT ![t] = c]
      /\ UNCHANGED <<mine, pc, history>>
  BY DEF Dao!MineGrant
<1>2. /\ pending \in Seq(Grants) /\ chain \in Seq(DaoContracts)
      /\ \A i \in DOMAIN pending : IsA(pending[i].timelock, "Timelock") /\ GovernorOf(pending[i].to, pending[i].timelock)
  BY DEF DaoInv, DaoPending, DaoChain, Grants
<1>3. /\ g \in Grants /\ g = pending[1] /\ 1 \in DOMAIN pending
      /\ pending' \in Seq(Grants)
      /\ \A i \in DOMAIN pending' : i + 1 \in DOMAIN pending /\ pending'[i] = pending[i + 1]
      /\ \A i \in DOMAIN pending \ {1} : i - 1 \in DOMAIN pending' /\ pending'[i - 1] = pending[i]
  <2>1. /\ g \in Grants /\ pending' \in Seq(Grants)
        /\ Len(pending') = Len(pending) - 1
        /\ \A i \in 1..Len(pending') : pending'[i] = pending[i + 1]
    BY <1>1, <1>2, HeadTailProperties
  <2>2. /\ Len(pending) \in Nat \ {0} /\ DOMAIN pending = 1..Len(pending)
        /\ DOMAIN pending' = 1..(Len(pending) - 1)
    BY <1>1, <1>2, <2>1, LenProperties, EmptySeq
  <2>3. g = pending[1]
    BY <1>1, <1>2
  <2> HIDE DEF g
  <2>4. \A i \in DOMAIN pending' : i + 1 \in DOMAIN pending /\ pending'[i] = pending[i + 1]
    BY <2>1, <2>2
  <2>5. ASSUME NEW i \in DOMAIN pending \ {1}
        PROVE  i - 1 \in DOMAIN pending' /\ pending'[i - 1] = pending[i]
    <3>1. i - 1 \in DOMAIN pending' /\ (i - 1) + 1 = i
      BY <2>2
    <3>2. QED  BY <2>4, <3>1
  <2>6. QED  BY <2>1, <2>2, <2>3, <2>4, <2>5
<1>4. g.role \in Roles /\ g.to \in Nat /\ t \in DOMAIN chain /\ chain[t].kind = "Timelock" /\ GovernorOf(g.to, t)
  BY <1>2, <1>3 DEF Grants, IsA, Contract
<1> HIDE DEF g
<1>5. chain[t] \in DaoTimelocks
  BY <1>2, <1>4, DaoKinds
<1>6. /\ c \in DaoTimelocks
      /\ \A role \in Roles : c[role] = chain[t][role] \cup (IF role = g.role THEN {g.to} ELSE {})
  <2>1. CASE g.role = "proposers"
    BY <1>4, <1>5, <2>1 DEF DaoTimelocks, Roles
  <2>2. CASE g.role = "executors"
    BY <1>4, <1>5, <2>2 DEF DaoTimelocks, Roles
  <2>3. CASE g.role = "cancellers"
    BY <1>4, <1>5, <2>3 DEF DaoTimelocks, Roles
  <2>4. QED  BY <1>4, <2>1, <2>2, <2>3 DEF Roles
<1>7. c \in DaoContracts /\ c.kind = "Timelock"
  BY <1>6 DEF DaoContracts, DaoTimelocks
<1> HIDE DEF c, t
<1>8. /\ chain' \in Seq(DaoContracts) /\ DOMAIN chain' = DOMAIN chain /\ chain'[t] = c
      /\ \A a \in DOMAIN chain \ {t} : chain'[a] = chain[a]
  BY <1>1, <1>2, <1>4, <1>7, Replaced
<1>9. \A a, b : /\ IsA(a, "Timelock") => IsA(a, "Timelock")'
                /\ GovernorOf(a, b) => GovernorOf(a, b)'
  BY <1>4, <1>7, <1>8 DEF GovernorOf, IsA, Contract
<1>10. \A to : \A u \in DOMAIN chain : \A role \in Roles : Holds(to, u, role) => Holds(to, u, role)'
  BY <1>6, <1>8 DEF Holds
<1>11. DaoChain'
  <2> SUFFICES ASSUME NEW u \in DOMAIN chain', chain'[u].kind = "Timelock",
                      NEW h \in (chain'[u].proposers \cup chain'[u].executors) \ {Deployer}
               PROVE  GovernorOf(h, u)'
    BY <1>8 DEF DaoChain, Instances
  <2>1. CASE u # t
    <3>1. u \in DOMAIN chain /\ chain'[u] = chain[u]
      BY <1>8, <2>1
    <3>2. QED  BY <1>9, <3>1 DEF DaoInv, DaoChain, Instances
  <2>2. CASE u = t
    <3>1. /\ c["proposers"] \subseteq chain[t]["proposers"] \cup {g.to}
          /\ c["executors"] \subseteq chain[t]["executors"] \cup {g.to}
      BY <1>6 DEF Roles
    <3>2. h = g.to \/ h \in (chain[t].proposers \cup chain[t].executors) \ {Deployer}
      BY <1>8, <2>2, <3>1
    <3>3. GovernorOf(h, t)
      BY <1>4, <3>2 DEF DaoInv, DaoChain, Instances
    <3>4. QED  BY <1>9, <2>2, <3>3
  <2>3. QED  BY <2>1, <2>2
<1>12. DaoPending'
  BY <1>2, <1>3, <1>9 DEF DaoPending, Grants
<1>13. DaoHistory'
  BY <1>1, <1>9, <1>10 DEF DaoInv, DaoHistory, IsA, Contract
<1>14. DaoProcess'
  <2>1. /\ DaoTimelockKnown => DaoTimelockKnown' /\ Contract(mine.timelock)
        /\ DaoTokenKnown => DaoTokenKnown'
        /\ DaoGovernorKnown => DaoGovernorKnown'
        /\ ("mock" \in DOMAIN mine => Contract(mine.mock)) => ("mock" \in DOMAIN mine' => Contract(mine.mock)')
    BY <1>1, <1>8, <1>9 DEF DaoTimelockKnown, DaoTokenKnown, DaoGovernorKnown, IsA, Contract
  <2>2. ASSUME Contract(mine.timelock), NEW role \in Roles
        PROVE  /\ Holds(mine.governor, mine.timelock, role) => Holds(mine.governor, mine.timelock, role)'
               /\ Sent(role) => Sent(role)' \/ Holds(mine.governor, mine.timelock, role)'
    <3>1. Holds(mine.governor, mine.timelock, role) => Holds(mine.governor, mine.timelock, role)'
      BY <1>1, <1>8, <1>10, <2>2 DEF Contract, Holds
    <3>2. ASSUME NEW i \in DOMAIN pending, pending[i].role = role, pending[i].timelock = mine.timelock,
                 pending[i].to = mine.governor
          PROVE  Sent(role)' \/ Holds(mine.governor, mine.timelock, role)'
      <4>1. CASE i = 1
        BY <1>1, <1>3, <1>6, <1>8, <3>2, <4>1 DEF Holds, t
      <4>2. CASE i # 1
        BY <1>1, <1>3, <3>2, <4>2 DEF Sent
      <4>3. QED  BY <4>1, <4>2
    <3>3. QED  BY <3>1, <3>2 DEF Sent
  <2>3. DaoProcess
    BY DEF DaoInv
  <2>4. pc \in DaoAfterGovernor => DaoTimelockKnown
    BY <2>3, DaoStages DEF DaoProcess
  <2>5. pc = "benchmark" => \A role \in Roles : Holds(mine.governor, mine.timelock, role)' \/ Sent(role)'
    BY <2>1, <2>2, <2>3, <2>4, DaoStages DEF DaoProcess
  <2>6. pc \in DaoAfterGrants => \A role \in Roles : Holds(mine.governor, mine.timelock, role)'
    BY <2>1, <2>2, <2>3, <2>4, DaoStages DEF DaoProcess
  <2>7. QED  BY <1>1, <2>1, <2>3, <2>5, <2>6 DEF DaoProcess
<1>15. QED  BY <1>11, <1>12, <1>13, <1>14 DEF DaoInv

LEMMA DaoLogDeploymentInv ==
  ASSUME DaoInv, Dao!LogDeployment
  PROVE  DaoInv'
<1>1. /\ pc = "log" /\ UNCHANGED <<chain, pending>>
      /\ \/ /\ history' = Append(history, [timelock |-> mine.timelock, governor |-> mine.governor])
            /\ pc' = "done" /\ UNCHANGED mine
         \/ UNCHANGED history /\ pc' = "failed" /\ mine' = NoLocals
  BY DEF Dao!LogDeployment, Dao!Goto, Dao!Lost, Dao!NoLocals, NoLocals
<1>2. CASE UNCHANGED history /\ pc' = "failed" /\ mine' = NoLocals
  BY <1>1, <1>2, DaoUnmoved, DaoStoppedKnowsNothing DEF DaoInv, DaoOrderly
<1>3. CASE /\ history' = Append(history, [timelock |-> mine.timelock, governor |-> mine.governor])
           /\ pc' = "done" /\ UNCHANGED mine
  <2>1. /\ DaoTimelockKnown /\ DaoGovernorKnown /\ ("mock" \in DOMAIN mine => Contract(mine.mock))
        /\ \A role \in Roles : Holds(mine.governor, mine.timelock, role)
    BY <1>1, DaoStages DEF DaoInv, DaoProcess
  <2> DEFINE entry == [timelock |-> mine.timelock, governor |-> mine.governor]
  <2>2. entry \in [timelock : Nat, governor : Nat]
    BY <2>1 DEF DaoTimelockKnown, DaoGovernorKnown, GovernorOf, IsA, Contract, DaoInv, DaoChain
  <2>3. entry.timelock = mine.timelock /\ entry.governor = mine.governor
    OBVIOUS
  <2> HIDE DEF entry
  <2>4. history' = Append(history, entry)
    BY <1>3 DEF entry
  <2>5. /\ history' \in Seq([timelock : Nat, governor : Nat])
        /\ \A i \in DOMAIN history' : history'[i] = entry \/ (i \in DOMAIN history /\ history'[i] = history[i])
    BY <2>2, <2>4 DEF DaoInv, DaoHistory
  <2>6. \A i \in DOMAIN history' :
          /\ IsA(history'[i].timelock, "Timelock")
          /\ \A role \in Roles : Holds(history'[i].governor, history'[i].timelock, role)
    BY <2>1, <2>3, <2>5 DEF DaoInv, DaoHistory, DaoTimelockKnown
  <2>7. DaoHistory'
    BY <1>1, <2>5, <2>6 DEF DaoHistory, IsA, Contract, Holds
  <2>8. DaoChain' /\ DaoPending'
    BY <1>1 DEF DaoInv, DaoChain, DaoPending, Instances, IsA, Contract, GovernorOf
  <2>9. pc' \notin DaoAfterTimelock /\ pc' \notin DaoAfterVoting /\ pc' \notin DaoAfterGovernor
          /\ pc' \notin DaoAfterGrants
    BY <1>3, DaoStages
  <2>10. DaoProcess'
    BY <1>1, <1>3, <2>1, <2>9 DEF DaoProcess, Stopped, Contract
  <2>11. QED  BY <2>7, <2>8, <2>10 DEF DaoInv
<1>4. QED  BY <1>1, <1>2, <1>3

LEMMA DaoStep == DaoInv /\ [Dao!Next]_(Dao!vars) => DaoInv'
<1> SUFFICES ASSUME DaoInv, [Dao!Next]_(Dao!vars) PROVE DaoInv'
  OBVIOUS
<1>1. CASE Dao!Next
  BY <1>1, DaoStartInv, DaoDeployTimelockInv, DaoDeployVotingPowerInv, DaoResolveAdminInv,
     DaoDeployMockAdminInv, DaoDeployGovernorInv, DaoSendGrantsInv, DaoMineGrantInv,
     DaoDeployBenchmarkRegistryInv, DaoDeployCounterInv, DaoLogDeploymentInv,
     DaoAllDeployVotingPowerInv, DaoAllDeployTimelockInv DEF Dao!Next, Dao!Step
<1>2. CASE UNCHANGED Dao!vars
  <2>1. UNCHANGED <<chain, pending, history, mine, pc>>
    BY <1>2 DEF Dao!vars, Dao!script
  <2>2. DaoOrderly'
    BY <2>1, DaoUnmoved DEF DaoInv, DaoOrderly
  <2>3. DaoProcess'
    BY <2>1 DEF DaoInv, DaoProcess, DaoTimelockKnown, DaoTokenKnown, DaoGovernorKnown, Sent, Holds,
                GovernorOf, IsA, Contract
  <2>4. QED  BY <2>2, <2>3 DEF DaoInv, DaoOrderly
<1>3. QED  BY <1>1, <1>2

LEMMA DaoInit == Dao!Init => DaoInv
<1> SUFFICES ASSUME Dao!Init PROVE DaoInv
  OBVIOUS
<1>1. /\ chain = <<[kind |-> "Safe"]>> /\ pending = <<>> /\ history = <<>>
      /\ pc = "idle" /\ mine = NoLocals
  BY DEF Dao!Init, Dao!Safe, Dao!ScriptInit, Dao!NoLocals, NoLocals
<1>2. [kind |-> "Safe"] \in DaoContracts
  BY DEF DaoContracts, DaoGivens
<1>3. DaoChain
  BY <1>1, <1>2 DEF DaoChain, Instances
<1>4. DaoPending /\ DaoHistory
  BY <1>1 DEF DaoPending, DaoHistory
<1>5. DaoProcess
  BY <1>1, NothingLearnt, DaoStages DEF DaoProcess, Stopped
<1>6. QED  BY <1>3, <1>4, <1>5 DEF DaoInv
-----------------------------------------------------------------------------
(* Sessions of either script. *)

LEMMA SessionInitial == SessionInit => SessionInv
BY StackInit, DaoInit DEF SessionInit, SessionInv

LEMMA SessionStep == SessionInv /\ [SessionNext]_all => SessionInv'
<1> SUFFICES ASSUME SessionInv, [SessionNext]_all PROVE SessionInv'
  OBVIOUS
<1>1. CASE session = "stack" /\ Next /\ UNCHANGED NotStack
  BY <1>1, StackStep DEF SessionInv, NotStack
<1>2. CASE session = "dao" /\ Dao!Next /\ UNCHANGED NotDao
  BY <1>2, DaoStep DEF SessionInv, NotDao
<1>3. CASE UNCHANGED all
  <2>1. UNCHANGED vars /\ UNCHANGED Dao!vars /\ UNCHANGED <<session, saved>>
    BY <1>3 DEF all, NotStack, vars, script, Dao!vars, Dao!script
  <2>2. QED  BY <2>1, StackStep, DaoStep DEF SessionInv
<1>4. QED  BY <1>1, <1>2, <1>3 DEF SessionNext

THEOREM SessionInductive == SessionSpec => []SessionInv
BY SessionInitial, SessionStep, PTL DEF SessionSpec

LEMMA SessionConsequences ==
  SessionInv => AlwaysAdministered /\ HandedOver /\ RecordedStack /\ LoggedIsGoverned /\ OwnGovernorOnly
<1> SUFFICES ASSUME SessionInv
             PROVE  AlwaysAdministered /\ HandedOver /\ RecordedStack /\ LoggedIsGoverned /\ OwnGovernorOnly
  OBVIOUS
<1>1. CASE session = "stack" /\ StackInv
  <2>1. RecordedStack
    BY <1>1 DEF StackInv, File, RecordedStack
  <2>2. QED  BY <1>1, <2>1 DEF StackInv, LoggedIsGoverned, OwnGovernorOnly
<1>2. CASE session = "dao" /\ DaoInv /\ saved = Missing
  <2>1. AlwaysAdministered
    BY <1>2, DaoKinds DEF DaoInv, DaoChain, AlwaysAdministered, Instances, DaoTimelocks
  <2>2. \A c \in DaoContracts : c.kind \notin {"Treasury", "Subscription"}
    BY DEF DaoContracts, DaoGivens, Counters, DaoTimelocks, Governors
  <2>3. HandedOver
    BY <1>2, <2>2 DEF DaoInv, DaoChain, HandedOver, Instances
  <2>4. RecordedStack
    BY <1>2 DEF RecordedStack, Recorded
  <2>5. LoggedIsGoverned
    <3>1. ASSUME NEW i \in DOMAIN history
          PROVE  LET t == chain[history[i].timelock]
                 IN history[i].governor \in t.proposers \cap t.executors \cap t.cancellers
      <4>1. \A role \in Roles : history[i].governor \in chain[history[i].timelock][role]
        BY <1>2 DEF DaoInv, DaoHistory, Holds
      <4>2. QED  BY <4>1 DEF Roles
    <3>2. QED  BY <3>1 DEF LoggedIsGoverned, Dao!LoggedIsGoverned
  <2>6. OwnGovernorOnly
    BY <1>2 DEF OwnGovernorOnly, Dao!OwnGovernorOnly, Dao!Instances, Dao!Deployer, Deployer,
                DaoInv, DaoChain, GovernorOf, Instances
  <2>7. QED  BY <2>1, <2>3, <2>4, <2>5, <2>6
<1>3. QED  BY <1>1, <1>2 DEF SessionInv

(* No interruption, in whichever run, leaves a timelock without an           *)
(* administrator, by deploy-governance-stack.ts or deploy.ts.                *)
THEOREM NeverOrphaned == SessionSpec => []AlwaysAdministered
BY SessionInductive, SessionConsequences, PTL

(* Every treasury and subscription on the chain, those of failed runs too,   *)
(* belongs to a timelock that only the admin administers and to which a      *)
(* governor of the same admin can propose.                                   *)
THEOREM DeliveredToGovernance == SessionSpec => []HandedOver
BY SessionInductive, SessionConsequences, PTL

(* governance-stack-deployment.json never mixes contracts of two runs, and   *)
(* names the tokens its governor and its subscription really use.            *)
THEOREM RecordsOneStack == SessionSpec => []RecordedStack
BY SessionInductive, SessionConsequences, PTL

(* What deploy.ts logs can be governed, although its three grants are not    *)
(* waited for.                                                               *)
THEOREM LogsGoverned == SessionSpec => []LoggedIsGoverned
BY SessionInductive, SessionConsequences, PTL

(* A grant that is mined after its run has died gives its governor a role    *)
(* over its own timelock only.                                               *)
THEOREM GovernorsKeepApart == SessionSpec => []OwnGovernorOnly
BY SessionInductive, SessionConsequences, PTL
=============================================================================
