# TLA+ development of the Lightchain smart contracts

The repository holds the Solidity contracts of the Lightchain protocol: the
on-chain side of its AI virtual machine (inference requests, model registry,
node registration and staking), its governance, its token sale and airdrop, and
the chat application's accounting. This directory holds TLA+ models of them, the
configurations TLC checks, and proofs that TLAPS checks. It also holds the
scripts an operator deploys and drives the contracts with, which are modelled as
processes that can lose an answer, be killed and be run again.

One action of a contract's model is one accepted transaction of the EVM.
Transactions are serialised by the chain, so the hard part of these contracts is
not memory races: it is the order in which independent parties send
transactions, what a transaction assumes about parameters and other contracts
that have changed since, deadlines, and money that several parties' claims
share. One action of a script's model is one thing the script awaits.

## Inventory

| Component | State | Operations | Talks to |
|---|---|---|---|
| `AIVMInferenceV2` | requests, challenges, per-worker and per-request bond locks, pending counters, PoI attestations, ETH | request, bond deposit/withdrawal, commit, reveal, cancel, timeout, dispute, resolution, attestation, reclaim, owner's parameters | validator registry (read), payees (calls) |
| `LCAIValidatorRegistry` | validators, their flags and stakes, the list | register, activate, deactivate, updateStake, getActiveValidators | read by `AIVMInferenceV2` |
| `ChallengeBondEscrow` | one bond per challenge id | post, refund, slash, parameters, pause | payees |
| `NodeStaking` | stake per address | deposit, withdraw, slash | reads `NodeOnboarding` before a withdrawal |
| `NodeOnboarding` | validators, workers, reporters, attestation policy | register, verify, heartbeat, exit, policy | reads `NodeStaking`, an attestation verifier |
| `AIVMModelRegistry` | base models, variants, validation stakes, challenges, access policies, tickets | register, stake, score, finalize, challenge, slash, resolve, withdraw | `AIVMTicketManager` |
| `AIVMTicketManager` | tickets | issue, validate, revoke | called by the registry |
| `BenchmarkRegistry` | benchmarks, default assignment per domain and task | register, assign, toggle, look up | none |
| `LCAIGovernor`, `LCAITimeLock` | proposals, queue, pause, admin | propose, vote, queue, execute, cancel, emergency cancel | vote sources, targets |
| `PresaleVotingPower`, `WLCAI`, `WrappedToken` | voting power, wrapped balances | set power, wrap, unwrap, delegate | read by the governor |
| `LCAITreasury`, `NativeLCAITreasury` | funds, spent, lists, pause | transfer, deposit, lists, admin | owned by the timelock |
| `LCAIChatUtility` | sessions, prepaid messages, rewards, plans | store, reward, subscribe, page, rank | treasury |
| `LCAIChatSubscription`, `NativeLCAIChatSubscription` | subscriptions, plan prices | subscribe, prices, pause | payment token, treasury |
| `LCAIPresale`, `LCAIAirdrop` | sale totals, buyers; claims, vesting | buy, sale control; claim, vest | the airdrop reads the presale |
| `LightChainAIToken`, `MultiSender`, `LcaiZap` | balances, trading switch; nothing; nothing | transfer; batch payment; swap and bridge | token, router, bridge |
| Governance deployment scripts | contracts and roles on the chain, the addresses a process knows, the record | deploy, grant, renounce, save, log | the chain, files |
| Chat utility deployment scripts | instances, owner, issuers, funds | attempt, configure, transfer ownership, fund, report | the chain, files |
| Treasury and subscription deployment scripts | environment, contracts | check, deploy, verify | the chain |
| Validator bootstrap scripts | registry, record, consensus configurations, accounts | deploy, record, fund, register | the chain, files shared by three scripts |
| Deployment records (`data_logger`, `updateDeploymentArtifacts`) | lists of deployments, three configurations | append, copy, replace, synchronise | files shared by all scripts |
| Inference client scripts | stored prompts, requests, tasks | store, request, enqueue | coordinator, the chain |

What is hard in each, and what makes it correct, in the order of the plan:

* **Inference.** A request is ended by whichever of six functions gets there
  first (finalization from reveal, from an attestation or from a dispute
  decision; cancellation; reveal timeout; reclaim; a lost dispute). All of them pay
  out of one pool of ETH that also holds worker bonds and dispute bonds. Correct
  means: the pool covers what is owed, a fee leaves once and whole, bonds are
  lost only for cause, a quorum finalizes, counters and locks agree with the
  requests, a requester's money always comes out.
* **Validator registry.** Anybody flips flags and overwrites stakes; the list
  and the flags must agree, and other contracts read them at another time.
* **Challenge bonds.** Settling once; re-posting a settled identifier; the
  remainder of a partial slash.
* **Node staking and onboarding.** Two contracts that read one another: exit,
  withdrawal and slashing in any order; policy that tightens later; the clock.
* **Model registry.** One stake balance per address for all roles and variants;
  slashes skipped when it is short; the challenge window against pending
  challenges; outcomes recorded twice.
* **Scripts.** A transaction that was mined and whose answer was lost looks like
  one that was never mined. Nothing is remembered of a failed run, so a run
  starts again beside what is on the chain; files are shared and torn. Correct
  means: roles end where they belong, money is only in contracts somebody can
  administer, a record describes one deployment, repeating does no harm, and an
  operator who repeats gets there.
* **Governance.** A proposal's life over two contracts (governor and timelock),
  with pause and emergency cancellation; votes without snapshots.
* **Chat, sale, airdrop, utilities.** Expiry and tier changes; vesting rounding;
  sale limits; batch sums; nothing left behind by a swap.

The hazards of `PROJECT.json` list these one by one at their lines.

## Modules

| Module | Models | Role |
|---|---|---|
| `AIVMInferenceV2` | `AIVMInferenceV2.sol`, whole | state, one action per function, `Spec` |
| `AIVMInferenceV2Properties` | | invariants, action properties, fairness, refinement mapping |
| `AIVMInferenceV2Calls` | the functions of `AIVMInferenceV2.sol` that send ETH, taken apart at their calls | what payees may do while they are paid, `CallsSpec` |
| `FeeEscrow` | | abstract: what the contract promises about fees |
| `LCAIValidatorRegistry` | `LCAIValidatorRegistry.sol` | the validator set, composed with the above |
| `AIVMInferenceV2Proofs` | | the inductive invariant and its theorems |
| `AIVMInferenceV2Settlements` | | proofs about how requests end, who is paid and slashed, of the escrow refinement, about the quorum and the registry's list, and all of that again with payees that call back |
| `Tally`, `TallyTheorems` | | totals of money in a mapping, and lemmas about them |
| `ChallengeBondEscrow` | `ChallengeBondEscrow.sol`, whole | bonds, settlement, settings |
| `Custody` | | abstract: money held for entries, which never pays for another entry |
| `ChallengeBondEscrowProofs` | | solvency, settlement, refinement of `Custody` |
| `NodeOnboarding` | `NodeOnboarding.sol` | life of a node |
| `NodeStaking` | `NodeStaking.sol`, composed with `NodeOnboarding` | stake, withdrawal guard, observer of what is relied on |
| `NodeStakingProofs` | | unbonding, exactness, refinement of `Custody` |
| `AIVMModelRegistry` | `AIVMModelRegistry.sol`, variants | staking, results, challenges, settlement |
| `AIVMModelRegistryProofs` | | a challenge decides for good; pots, claims and payments |
| `Script` | what the scripts have in common | one process, its transactions, faults, runs |
| `GovernanceStack` | `deploy-governance-stack.ts` | timelock, governor, treasury, subscription, handover, record |
| `DaoDeployment` | `deploy.ts`, `deploy-smart-contracts.ts` | deployment with grants nobody waits for, history |
| `ChatUtilityDeployment` | `deploy-chat-utility.ts`, `deploy-chat-utility-local.ts`, `RoleAssigner` | attempts, configuration, funding, report |
| `TreasuryDeployment` | `deploy-lcai-treasury.ts`, `deploy-lcai-chat-subscription.ts` | checks before and after a deployment |
| `ValidatorBootstrap` | the multinode script, the quick script, `deploy-validator-registry.ts`, `register-validator.ts` | registry, records, funding, registration |
| `InferenceClient` | `aivm-inference-request-v2.ts`, `aivm-inference-enqueue.ts` and their steps | coordinator, request, task |
| `DeploymentArtifacts` | `data_logger.ts`, `updateDeploymentArtifacts.ts` | the files, written by overlapping processes |
| `GovernanceProofs` | | proofs about the two governance scripts, over every session |
| `OperatorScriptsProofs` | | proofs about the other five groups of scripts, over every session |
| `MCAIVMInferenceV2`, `MCInferenceTuned`, `MCInferenceCalls`, `MCGovernance`, `MCOperatorScripts`, `MCAIVMModelRegistry` | | instances for TLC |

A definition whose comment says "For comparison" is a variant with a mistake in
it. No specification uses one; each is there to show that the property it
belongs to would notice.

### How the inference model corresponds to the contract

* `requests`, `challenges`, `pendingByRequester`, `workerBond`,
  `workerBondLocked`, `requestBondLocked` are the mappings of those names. The
  fields that only events or callers read (model identifiers, prompts, CIDs) are
  left out. `poi` gathers the five `poi...ByTask` mappings of a task, `settings`
  the owner's parameters, `now` is `block.timestamp`, `balance` the contract's
  ETH and `wallet` everybody else's.
* A task identifier is the hash of a request identifier, so tasks are named by
  request identifiers; an attestation may name a task whose request is not made
  yet, and `RequestIdByTaskId` is then 0, as the mapping is.
* A commitment is the keccak hash of request, worker, response and salt. It is
  modelled by the response it opens to for this request and this worker, or by
  `Unopenable` for any other 32 bytes; collision freedom is the abstraction.
* A signature is valid or the transaction reverts: only valid ones are steps.
* `SetTimeouts`, `SetProtocolFee` and `SetPoIQuorum` keep the guards of the
  setters, and the runs offer them values they must refuse.
* `TryFinalize` is the tail of three actions, as `_tryFinalize` is of three
  functions; it is never a step of its own.
* Deadlines are cast to `uint64` by the code: `TimeModulus` stands for `2^64`.
* An account in `Rejecting` reverts when it is sent ETH, and the transaction that
  pays it with it. Whether the code sends when the amount is 0 follows the code
  (`cancelExpired` and `withdrawWorkerBond` send unconditionally).
* Solidity 0.8 reverts on underflow. The model subtracts without a guard, so
  that a subtraction below zero would be a violation of `TypeOK` instead of a
  transaction silently missing; `TypeCorrect` proves there is none.
* The registry's transactions interleave with the contract's own
  (`RegistryStep`), and the owner may configure another registry between two
  attestations (`settings.registry`).

A transaction is atomic in `AIVMInferenceV2`. The contract's payments are calls, though,
and a payee that is a contract may use them to call the functions without
`nonReentrant`. `AIVMInferenceV2Calls` takes the transactions apart there:

* `call` is the transaction under way: what it does next, for which request, how much of a
  finalized fee it has still to pay, and whether the amount just sent was more than 0,
  since the code sends nothing otherwise and nobody runs then.
* An action is what runs from one call to the next (`Begin...` up to the first;
  `PayWorker`, `PaySlashed`, `Conclude`, `RefundFee`, `CloseRejected` from there on). It reads
  the state as the payee has left it, as the code does; what the code keeps in local
  variables is in `call`.
* Requests, deposits, commitments, disputes, plain transfers, the owner's setters and the
  registry are open while a payee runs (`UnlockedStep`), any number of times; the functions with
  the lock are not (`LockedStep`). The clock stands still inside a transaction.
* A call with nothing after it needs no step: what its payee does in it, it could as
  well do right after the transaction. A transaction with a refused payment reverts with all
  that was nested in it, and is no step.

### How the bond escrow corresponds to the contract

* `bonds` is the mapping, `NoBond` its default. A bond that was refunded or
  slashed to nothing has amount 0, which is all that `postBond` looks at: the same
  identifier may be posted again, and the marks are reset with it.
* The escrow's own address is one of the accounts: a refund or slash to it
  succeeds (it has a `receive`), and leaves the ETH where it was.
* Times are cast to `uint64`; `Word` stands for `2^64`.
* `RESOLVER_ROLE` is the set `resolvers`; the owner's setters may come at any time.

### How the node stake corresponds to the contracts

* `nodes` gathers the mappings of `NodeOnboarding` for one address; a record of type
  `"None"` is an address that is not registered. The exit epoch is a time.
* `NodeStaking` is one contract whatever happens; the owner may point it at this
  registry, at none, or at another, whose answers are unknown (`nodeOnboarding`).
* Whether a quote is genuine, and its enclave and TCB level accepted, is the
  environment's choice: a refused attestation reverts and is no step.
* `promise` is an observer. While a node is active and its withdrawals are
  guarded, others rely on the minimum stake of its type, and may do so for as
  long as an exit would take. Only the owner's own changes, or a slash, reduce
  what is relied on. `UnbondingHonoured` says that no withdrawal of the node's own
  goes below it.

### How the model registry corresponds to the contract

* `stakedBalances` is the mapping, one pot per account for all its roles. A refund
  or slash takes the whole claim or nothing (`Met`), as `_slashStake` and
  `_refundStake` do. Loops over validators are sums, because each validator of a
  variant stakes once and a pot is only ever its own validator's.
* `submitScore`, `submitAggregatedResult` and `submitValidationResult` differ in who
  calls them and in what they record; here they are the two outcomes `Approve` and
  `Reject`. The score and the number of validators are the aggregator's word.
* `settled` and `disturbed` are observers: which stakes have been taken or given back,
  and which accounts' pots were touched for something else: their own withdrawal,
  a decision about somebody the owner names, a stake settled for the second
  time. `PotsMatchStakes` speaks of the others, and
  says that as long as nobody does such a thing, a pot is exactly the stakes of
  its account, so no refund or slash is skipped.
* The challenger of `UpholdChallenge` and `DismissChallenge` is the owner's
  parameter, not the record's: the model has both.

### How the scripts' models correspond to the scripts

* `chain` is the sequence of contracts in the order of their creation; a contract's
  address is its position. The kinds of contracts (timelock, governor, token) keep
  what the scripts change in them: roles, owner, balance. They are OpenZeppelin's
  or `src/contracts`' and modelled from how the scripts use them.
* `mine` are the local variables of the running process, `pc` its next `await`. A
  transaction is mined and answered, mined with the answer lost, or never
  mined; the script cannot tell the last two apart. `Throw` is an exception that
  reaches `main().catch`, `Refused` a constructor's revert, or an address that
  ethers does not take: nothing is mined and the script throws.
* A transaction that is mined after its process has died counts as mined at once where no
  later run could tell. Where one could, it stays in `pending`: the three grants `deploy.ts`
  sends without waiting, mined in the order of their nonces, and the fundings of the
  validators' bootstrap, in any order, since every run is given its own key. A run
  decides how much to send from the balance of the latest block, which does not show
  them; `late` counts those that came after all.
* Addresses in the environment are what the code distinguishes: not set, refused by a
  constructor ("bad": zero, or no address), an account, a contract. In
  `GovernanceStack`, `WLCAI_ADDRESS` is the token that votes, and
  `PAYMENT_TOKEN_ADDRESS`, if it is set, the token of the subscription; the record has both.
* A `try` whose `catch` only reports (`deploy-chat-utility.ts`) goes on in either case.
* A file that is being written may stay `Torn`. The next reader's `JSON.parse` throws,
  and what the script does then (start a fresh list, give up, leave the file) is kept. A
  consensus configuration truncated before its address is in `torn`: the bootstrap's regular
  expressions find nothing to replace in it, so it stays as it is.
* The bootstrap asks of a recorded address only whether there is code (`HasCode`). A new chain
  may have other contracts there (`Other`), which have no `getValidatorCount`.
* `Workspace` says which of the three configurations `updateDeploymentArtifacts.ts` finds and which
  keys `consensus.yaml` has with a quoted address. A missing file is skipped, a missing key is added
  to `genesis.json` and `.env` and left out of `consensus.yaml`.
* A new chain may replace the old one between runs of the bootstrap, as a development
  network does; records and configurations survive it.
* The coordinator of the inference clients is external. It stores a prompt and
  answers, stores it and the answer is lost, answers for another prompt, or does neither.

## Runs

| Run | Instance | Distinct states | Question |
|---|---|---|---|
| `inference_one` | 1 request, 2 hashes, 2 validators, quorum 2, values 1 and 2, time to 5 | 263 310 | quorum and the final states of one request under all interleavings and deadlines |
| `inference_two` | 2 requests of one requester, 1 worker, 1 validator, fee at least 1, share of a quarter | 80 191 | shared counters, locks and pool; refinement of `FeeEscrow`; with fairness, every request ends |
| `inference_tuned` | 1 request, two validators, an account that rejects ETH; a session retunes either money or deadlines, quorum and registry | 1 011 328 | payments and finalization while the rules change under way, failing payments |
| `inference_calls` | 2 requests, 1 validator, fee of 2 split in half, bonds of 1; the owner moves the quorum between 1 and 2; time to 4 | 657 727 | every payee calls back, any number of times: what is owed, locks, counters and disputes at every call; quorum; refinement of `FeeEscrow` |
| `governance` | a session runs the stack's script up to 3 times or `deploy.ts` up to 4, 2 faults anywhere | 175 602 | roles, ownership and record stay consistent; it ends deployed |
| `operator_scripts` | a session with one of the five other groups of scripts, see below | 4 981 631 | repeated, interrupted and overlapping runs |
| `challenge_bonds` | 2 challenges, 3 accounts (the escrow and a rejecting one among them), amounts 0 to 2, 3 units of ETH, time to 2 | 311 040 | settlement, solvency, refinement of `Custody` |
| `node_stake` | 1 node, 1 other staker, minimums 1 and 2, unbonding periods 0 and 2, 2 units of ETH, time to 3 | 829 648 | unbonding over two contracts, refinement of `Custody` |
| `model_registry` | 2 variants, an account that is trainer and validator of both and may challenge, an outside challenger, window 0 or 1, time to 2 | 263 810 | the shared pot, decisions |
| `inference_stuck_bond` | 1 request, 1 bond | | violated: a reclaimed request keeps its worker's bond locked |
| `inference_quorum_lowered` | quorum lowered from 2 to 1 | | violated: a quorum that is complete and does not finalize |
| `model_approved_stuck` | as `model_registry` | | violated: an approved variant with its window closed |

Why the bounds are enough. For the contracts with deadlines, one timeout is one
block and the clock goes beyond the last deadline that can be set early in the run,
so that every action is tried before, at and after each deadline. Two
requests are what it takes for a lock or a counter to be shared, two validators
for a count to differ from a membership, a quorum of two for it to be met one
attestation at a time. One unit of ETH per role with fees of one or two units
is what makes a wrong payment visible: paying anybody twice empties the pool
below what is owed. Two variants and one account in several roles are what it
takes for a settlement to touch the stake of another. A node that joins, leaves,
withdraws and joins again needs three blocks with a period of two.

`inference_tuned` splits the owner's setters in two sessions, because all of them
together multiply states without interacting: the session `money` keeps deadlines,
quorum and registry fixed and has one validator, `poi` keeps amounts and roles fixed
and has two. A step outside a session's confinement is not part of it.

`inference_calls` has two requests, so that a payee can make, commit to or dispute one
while another is settled, and a fee of which treasury and worker both get a part, so that
finalization has a call in its middle. How many calls are nested is not bounded but by
the requests and the ETH there are. Its behaviours without call backs are those of the
atomic contract: `Covered` and `WholeAtRest` check there what `Solvent`, `LocksMatch`,
`PendingMatches` and `DisputeMatches` say of `Spec`, and no other run lists these four
again. They are proved of `Spec` as well.

The scripts' runs have two faults: the first makes a run fail and the second hits
the run that repairs it. `operator_scripts` bounds its sessions so: two
validators in the file, one configuration file, a stake of 3, two runs (three for the
clients, whose work is three scripts), two faults, accounts that are empty or have the stake but
no gas to begin with (`Endowments`), two attempts at the chat utility, two prompts, workspaces
(`Workspaces`) with everything there, without `.env`, without `consensus.yaml` and with one key in it, events searched one block back up to block 2, two processes
that log, two calls, one kill.

The runs turn deadlock checking off: time, money and runs are bounded, and in a
contract or at a shell nobody is obliged to act again, so a run may stop.

### Fairness

`FairSpec` of the inference contract: blocks keep coming (`Tick`), a requester
whose refund is due claims it, and the resolver, a role the operator holds,
decides open disputes. Workers, validators and challengers are under no
fairness. Nothing weaker suffices: `cancelExpired` and
`reclaimAfterFinalizeTimeout` are the requester's own calls, and a disputed
request can be ended by nobody but the resolver. `EveryRequestEnds` speaks of the
requests whose last deadline lies inside the run.

`SessionFairness` of the governance scripts: a process that runs gets to its end, the
chain mines what was sent, and the operator starts the script again until it has
succeeded once. Faults are under no fairness; that there are finitely many of
them is the bound `MaxFaults`, without which nothing could be promised, and there is a run
more than there are faults. Environments in which the scripts refuse to go on (no
admin contract and no stand-in, no token, a `WLCAI_ADDRESS` without code, which the governor's
constructor asks for its clock, or a payment token the subscription refuses) are excluded in
`EventuallyDeployed` through `Deployable` and `Usable`.

### Refinements

`ImplementsEscrow`: every transaction of the inference contract is a step of `FeeEscrow`
or leaves it alone. The refinement mapping reads a request's phase from its status, and
takes for the pot what the contract holds beyond worker bonds and dispute bonds.
`CallsImplementEscrow`: so is every stretch between two calls and every call back. A fee that
is released in two payments leaves the abstract escrow with the first of them, so the pot is
less by what the worker has still to get; a fee refunded before the request ends leaves it
with the refund, so the phase of that request runs ahead of its status.
`ImplementsCustody`: the bond escrow and the node stake, two contracts with nothing in common but that they keep other people's ETH, both implement `Custody`: what
leaves reduces the entry it is paid for by as much, whatever is retuned in between.

## What the runs found

Three statements of the source's own comments do not hold of the code; each is a
run that expects the violation.

* `LockCanStillEnd`: the comment of `reclaimAfterFinalizeTimeout` says that the
  worker's bond stays locked "until a dispute/challenge is resolved, or until
  operator slashes". After the reclaim the request is `Cancelled`; no dispute can
  be opened for it, it cannot time out, and there is no operator's slash. The
  bond is out of reach of everybody.
* `QuorumFinalizes` holds as long as the quorum is not lowered (`inference_one`)
  and fails when it is: a validator that attests again returns early, before the
  attempt to finalize, so a complete quorum may wait for an attestation that
  is not needed, and be reclaimed instead.
* `ApprovedIsChallengeable`: the status `Approved` is documented as "in challenge
  window". Dismissing a challenge, and slashing validators without rejecting the
  variant, close the window and leave the status; `finalizeVariant` then refuses,
  and the stakes are never refunded by it.

Met while modelling, kept in the models as the code has them, and not stated as
properties:

* Attesters of an inference result are checked to be active when they attest and
  never again; lowered quorum and replaced registry do not look back.
* `AIVMModelRegistry`: `withdrawStake`, "after validation complete" (line 940), is
  possible at any time, and the slash that comes later is skipped. `resolveChallenge`
  pays the challenger that is named twice its whole pot, whatever it staked on
  this variant, and takes validators' stakes without looking at `isSlashed`.
  `finalizeVariant` ignores a challenge that is still open.
* `ChallengeBondEscrow`: "no prior bond posted for this ID" (line 90) is "no
  unsettled bond"; a bond can be slashed to any beneficiary, not only to the treasury (line 35).
* `NodeOnboarding`: `setWorkerModelsReady` names no models, so it may arrive after the
  worker has changed them.
* `deploy.ts` ends with "Test governance by creating a proposal" (line 229); it limits
  all voting power to 10 000 000 base units, and the governor's proposal threshold is
  140 000 times 10^18.
* `deploy-smart-contracts.ts` makes the deployer's own account admin and stops at the
  governor, which wants a contract; `deploy-lcai-treasury.ts` calls `spent()` without the
  argument it takes (line 147), and `deploy-lcai-chat-subscription.ts` uses a
  variable it does not declare. None of the three reaches its logging, which
  scripts/deployment/README.md:191 promises.
* `deploy-governance-stack.ts` passes `PAYMENT_TOKEN_ADDRESS` and `WLCAI_ADDRESS` on unchecked (lines
  310 and 311). With the first, users pay in another token than the one that votes; it may have no
  code. A `WLCAI_ADDRESS` without code is found out by the governor's constructor, in step 3, with
  the timelock on the chain.
* `deploy-lcai-treasury.ts` tests only that `TIMELOCK_ADDRESS` is set (line 38). A zero or malformed
  one is refused by the treasury's constructor, when a `MockAdmin` may have been deployed (line
  57): the one way in which a script leaves a stand-in without its treasury. `WhatFailureLeaves`
  names it.
* `deploy-chat-utility.ts` reports the timelock as owner and 100 LCAI as funded
  (lines 423 to 425) whether or not the two transactions succeeded, its deployer never
  renounces the timelock ("will renounce after setup", line 76), and the addresses it
  synchronises replace the timelock of the DAO in the shared configuration.
* The validator bootstrap compares numbers ("If all validators are registered", line 261):
  registrations by others make it stop early, which is why `CleanRunBootstraps` counts strangers
  too. A key written with 0x ends the run and starves the validators behind it.
* The bootstrap believes a record whose address has any code (line 199): another contract there
  makes every run fail at `getValidatorCount`, after the configurations were pointed to it. A
  configuration that `writeFileSync` has truncated (line 89) is never repaired, and the run that
  leaves it so ends well.
* A funding of the bootstrap that is mined after its run has given it up is funded a second
  time (lines 304 to 316): `FundingDoesNotPileUp` allows one registration's worth for each of them.
* `data_logger.ts` says the front end's file is replaced by "just the new deployment
  set" (line 68); `logDeploymentsHistory` gives it the whole history (line 142). Code and comment
  disagree, so `NothingLostWhenCalm` and `ReturningHeals` speak of the history and of the library's
  copy only. Entries are lost when two processes log at once.
* `updateDeploymentArtifacts.ts` skips files that are missing (lines 64, 112, 158), and a key that
  `consensus.yaml` lacks or has without quotes (line 144) while the other two get it, so the three
  need not agree. `genesis.json` and `consensus.yaml`, once torn, keep no address in any later
  call; the lists and `.env` recover.
* A lost receipt makes the operator of the inference client pay for a second
  request; the first one stays on the chain, and nothing reminds of it.

## Proofs

The theorems about the contracts hold for any finite sets of accounts, validators,
requests, challenges or variants, and any amounts, settings and deadlines; those about the
scripts for any number of runs, faults, attempts, validators, prompts, processes, calls and
kills. The assumptions are the named `ASSUME`s of the modules, evaluated by every run: roles
are accounts, the zero address and hash are none of them, amounts and bounds are natural
numbers, a run has room for a request, sets that are summed over are finite.

**Inference** (`AIVMInferenceV2Proofs`). `Inductive`: `Spec => []IInv`, with `IInv` the
conjunction of `TypeOK`, `RequestShape`, `DisputeMatches`, `LocksMatch`,
`PendingMatches`, `Solvent`; from it `TypeCorrect`, `AlwaysSolvent`,
`LocksAlwaysMatch`, `PendingAlwaysMatches`, `DisputesAlwaysMatch`, `ShapeAlwaysHolds`.

The invariants need one another. `TypeOK` is not inductive because the contract
subtracts: from the balance (there because of `Solvent`), from a worker's lock
(there because of `LocksMatch`), from the pending counter (there because of
`PendingMatches`). Those hold because a request is settled once, and that is
because its status, its challenge and its fee agree (`DisputeMatches`) and
because the worker that is read from a request is the one that locked the bond
(`RequestShape`).

The argument has three layers. A sum over a mapping is the number of its units
(`Tally`), which makes sums a matter of cardinality: `TallyTheorems` shows from the
library's finite-set theorems that one changed entry moves a sum by the
difference and that an entry never exceeds the sum. On them rest lemmas that say
how the three sums move when one request and one worker change (`CoverStep`,
`LocksStep`, `PendingOpen`, `PendingClose`) and what the invariant guarantees
before a subtraction (`LockBound`, `OwedBound`, `PendingBound`). The steps
then fall into shapes (`QuietStep`, `BondStep`, `EndStep`, `TryFinalizeStep`) with
one lemma per operation above them, and `NextIInv` goes through the disjuncts
of `Next`.

`BInv(D, due)` is `IInv` with an allowance: the requests of `D` may be in the middle of a
decision, and `due` must be covered on top of what is owed. `IInv` is `BInv({}, 0)`; the lemmas
that the model with calls needs as well are stated for `BInv`.

**Settlements** (`AIVMInferenceV2Settlements`). `FinalizationNeedsQuorum`
(`FinalizedByQuorum`) and `EndedStaysEnded` (`EndedForever`). The first is about a step
and needs to know what the count in the state stands for, so `IInv` is strengthened
by `Backed`: the count of a task is the number of its distinct attesters (`Counted`), and
what a worker has revealed is what it committed to (`Answered`). The count is what
`TryFinalize` compares with the quorum, the revealed hash is what it compares with the
attested result; `Backed` says what the two comparisons are worth.

The second part of the module is about payments: `FeesSettledInFull` (`SettledInFull`),
`SlashesJustified` (`SlashJustified`) and `FeesInEscrow` (`ImplementsEscrow`) come from one
case split (`EveryStep`): a transaction moves the money of one request and at most one
worker (`Moves`), settles that request (`Settles`) and takes bond for cause (`Justified`), or
it moves nothing but what it brings (`Idle`). The three theorems are then readings of the
same fact: the other requests cannot have ended (`OthersSettle`), no other worker has lost
anything, and the escrow's pot, the balance less the two sums of bonds, moves by that
request's fee (`PotMoves`). `IInv` gives the types and the parties of a live request; the
only strengthening is `UpheldResolved`, a dispute upheld for the worker is resolved,
without which a rejection could not tell that it is one.

The third part is about the quorum and the registry. `QuorumsFinalize` is `QuorumFinalizes` under the hypothesis
`QuorumKept`, that no step lowers the quorum; without it the property is false, as
`inference_quorum_lowered` shows. Only a call that ends with the attempt to finalize can complete
a quorum, and it looks at what it has written itself; an attestation that comes before its
request finds a request of status `None` (`RequestShape`). `ListIsExact`: the list names the
registered validators, each once, and no other is active. From it `ActiveValidatorsExact`
(`ActiveListExact`): the number of active entries up to an entry gives every active
entry a place of its own in the array, and leaves no place empty.

The fourth part is about `CallsSpec`. Its invariant `CInv` is `BInv` for what the transaction
under way has left undone: the one request whose dispute is being decided, and the share of
a fee that is due; and it says for every stage what the transaction will find when it goes on
(`Stage`). From it `AlwaysCovered` (`Covered`) and `DisputesWholeAtRest` (`WholeAtRest`).
What makes `Stage` survive a payee is `UnlockedLeaves`: a function without the lock changes only
requests of status `None`, `Requested` or `Revealed`, and between two calls of a transaction its
request is `Disputed` or has ended; hence `PayeesDisturbNothing` (`Undisturbed`). The
lock alone would not do: `challenge` has none, and a request that went back to `Revealed` before
its bond is paid could be disputed again in that call. With `Backed`, as before, follow
`CallsFinalizeByQuorum` (`FinalizedByQuorum`), where the quorum is the one that the payee has left,
and `CallsEndForever` (`EndedForever`). `CallsKeepEscrow` (`CallsImplementEscrow`) is the
refinement: a call back moves fees as the atomic transactions do, and of the stretches of a
transaction exactly one moves its fee (`CallMoves`).

**Bonds** (`ChallengeBondEscrowProofs`). `BondsTyped`, `BondsSolvent`, `BondsSettledOneWay`
are one joint induction: no subtraction underflows because the escrow is solvent, and
what is owed only shrinks because a refunded bond has nothing left. `BondsInCustody` is
the refinement, step by step: each action is a deposit, a payment or a stutter of
`Custody`.

**Node stake** (`NodeStakingProofs`). `StakesTyped`, `StakesExact` (the contract's ETH is
exactly the total of its balances), `UnbondingAlwaysHonoured`, `StakesInCustody`. The
unbonding property is about a withdrawal and what was relied on before; the invariant
under it (`Reliance`) says that while something is relied on the withdrawal guard is in
force: this registry is the one asked, the node is registered, its exit epoch, if it has
one, is not before the promise's end, and what is relied on exceeds neither the minimum
in force nor the balance.

**Model registry** (`AIVMModelRegistryProofs`). `ResolvedIsClosed`: a challenge is resolved only
together with the window of its variant, which is past validation from then on.
`ChallengesDecideForGood` (`DecidedForGood`) follows, since nothing opens a window but
the end of a validation.

`OnePotIsEnough` (`PotsMatchStakes`) and `NobodyIsPaidFromAfar` (`PaidFromPots`) are about the
pot an account's stakes share. Their invariant, `PotsInv`, adds to the property the types of
the ledgers (`Ledgers`) and that only a stake that was made has been settled, and a resolved
challenge has none left (`Accounted`). A claim that is due is then part of the pot, so the
transfer is not skipped (`Met`) and takes the pot down by what the sum loses; `TotalPlus`
of `TallyTheorems` moves the sums.

**Governance scripts** (`GovernanceProofs`). One invariant per script, `StackInv` and `DaoInv`,
joined in `SessionInv`; from it `NeverOrphaned` (`AlwaysAdministered`),
`DeliveredToGovernance` (`HandedOver`), `RecordsOneStack` (`RecordedStack`), `LogsGoverned`
(`LoggedIsGoverned`) and `GovernorsKeepApart` (`OwnGovernorOnly`). None of these is inductive,
because each is about what a script has left behind, and what it leaves depends on what it
knew at the time. `RecordedStack` says what the record has in common with the contracts it names:
timelock, treasury, owner, admin, the governor's token and the subscription's, which
are one token only without a `PAYMENT_TOKEN_ADDRESS`. The invariants therefore say for every `pc` which local variables are set
and what their contracts look like by then: which roles the new timelock has given out and
that nothing uses it until its roles are verified; that a grant in flight is to a governor
over its own timelock, and that grants come before whatever the same run sends later, as
their nonces do; that a run has one stand-in and one token, so that the address it looks up
is the same each time. Contracts of earlier runs keep what they had, since no step touches
a contract that the running process does not know.

**Operator scripts** (`OperatorScriptsProofs`). One invariant per group, joined in a `SessionInv`;
every property of the run `operator_scripts` follows from it.

* `TreasuryInv`: up to the choice of an admin the run has no contract on the chain; after it, it
  has the stand-in, if no admin was configured, and nothing else (`StandIn`); after the
  deployment, the treasury with its stand-in (`BoughtTreasury`) or the subscription
  (`BoughtSubscription`). Hence `FailuresLeaveLittle` (`WhatFailureLeaves`).
* `ClientInv`: what is asked for on the chain was compared with what the coordinator stores,
  and neither changes afterwards; a task is what its own request's event says, whatever the
  range that was searched. Hence `RequestsHavePrompts` (`RequestedIsStored`) and `OneTaskEach`
  (`TasksMatchRequests`).
* `ChatInv`: all instances of a run but its last are bare (`ChatChain`), and the process holds
  the last (`ChatProcess`). Hence `AbandonedStayBare` (`AbandonedAreBare`) and `FundsAreManaged`
  (`FundedIsManageable`).
* `BootInv`: what the process knows at each step (`BootProcess`), the three counters against
  the set of validators that are registered and already examined (`Tallied`), balances and
  fundings under way, none of which is more than one registration takes (`BootFunds`, `Cap`; the
  amount a run is about to send keeps to it because what it read can only have been
  increased by a late funding, which raises the cap), and what a run without a fault has established so
  far about record, untorn configurations and registry (`Cleanly`).
  Hence `SummariesAreTrue` (`SummaryIsTrue`), `FundingTopsUp` (`FundingDoesNotPileUp`),
  `CleanRunsBootstrap` (`CleanRunBootstraps`).
* `ArtInv` is about files that processes share. `ArtOnce`: a call that has read nothing yet is
  mentioned in no file and no process's memory, so appending it makes no duplicate;
  hence `NoDuplicates` (`ListedOnce`), under any overlap and any kills. `ArtAlone`: a process that works alone holds a list
  that ends with its own entry and has written it to every file before where it stands;
  hence `ReturnsHeal` (`ReturningHeals`). `ArtCalm`: as long as nothing overlaps and nobody is killed
  there is one list and one book of addresses, those given last for each key (`Latest`), and every
  configuration that is there shows the book for the keys it has, the old book where the call
  has not come yet and the new one in the others; hence `NothingLost` (`NothingLostWhenCalm`).

The groups share variables (`chain`, `mine`, `pc`), so the joint invariant also says what a
group looks like while another one's session runs (`NotBootstrapping` and its neighbours), and
`SessionStep` takes each group's step lemma from its own module.

Model-checked only: `EveryRequestEnds` and `EventuallyDeployed`, which are liveness under
fairness. Every other property of a passing run is stated by a theorem.

Out of reach of the prover and left to TLC: liveness under fairness, and what
recursive definitions over data compute.

## Plan

Done, in this order: the inference contract with its registry, its escrow refinement
and its inductive invariant; governance deployment; the operator's other scripts;
challenge bonds; node stake over its two contracts; the model registry's variants;
proofs about each contract, and about the sessions of every script; the inference contract
taken apart at its calls, with the proofs of its safety over again.

Left, in the order of what it would add:

1. Base models, access policies and tickets: `AIVMTicketManager` and `BenchmarkRegistry`
   composed with the model registry.
2. Governor and timelock with the two vote sources: an abstract proposal life cycle, and
   votes that are read from a table instead of a snapshot.
3. Chat sessions, rewards and subscriptions; presale and airdrop.

## Not modelled

* Calls made by an account while it is being paid, in the contracts other than
  `AIVMInferenceV2`. `ChallengeBondEscrow` and `NodeStaking` have the lock on every function
  that moves ETH, and pay last; the model registry's settlements pay several accounts in
  one transaction, and clear a challenger's stake after it was paid.
* `AIVMTicketManager`, `BenchmarkRegistry`, base models and access policies: tables with an
  owner, which mean something only together (plan, 1).
* `LCAIGovernor` and `LCAITimeLock` as a life cycle: nearly all of it is OpenZeppelin's,
  which is not in the repository. Their wiring after deployment is (`GovernanceStack`).
* Vote sources, treasuries, chat contracts, presale, airdrop as contracts (plan, 2 and 3). The
  deployment of treasury, subscription and chat utility is.
* `LightChainAIToken`, `MultiSender`, `LcaiZap`: an ERC-20 with a switch, one transaction, and
  calls into an external exchange and bridge.
* Scripts that send one transaction or none: inspection, calldata for a multisig, the test
  network's bridge and pool, console output.
* Event payloads, strings and CIDs that no guard reads; gas; signature and hash arithmetic;
  recorded deployments; flattened copies of the contracts; test doubles.
* In the node registry, the policy on quotes (enclave allowlist, TCB minimum), and scores
  and keys, which are written and never read; in node staking, who may slash.
