------------------------------- MODULE Script -------------------------------
(***************************************************************************)
(* A deployment or interaction script: one Node process that sends its     *)
(* transactions one at a time, and may be run again by the operator.       *)
(*                                                                         *)
(* chain   the contracts on the chain, in the order of their creation; the *)
(*         address of a contract is its position                           *)
(* mine    the script's local variables: the addresses it has learnt       *)
(* pc      the next thing the script does, or how it stopped               *)
(* runs    how often it was started; faults: what went wrong so far        *)
(*                                                                         *)
(* A transaction is mined and answered; or it is mined and the answer is   *)
(* lost (the node drops the connection, the process is killed); or it is   *)
(* never mined.  The script cannot tell the last two apart.  A transaction *)
(* that is mined only after its process has died counts as mined at once,  *)
(* but where a later run could tell the difference: the modules in which   *)
(* it could have a variable "pending" (the grants of deploy.ts, the        *)
(* fundings of the validators' bootstrap).                                 *)
(***************************************************************************)
EXTENDS Naturals, Sequences, FiniteSets, TLC

CONSTANTS MaxRuns, MaxFaults     \* bounds on runs and on faults

ASSUME BoundsAssumption == MaxRuns \in Nat /\ MaxFaults \in Nat

VARIABLES chain, mine, pc, runs, faults

script == <<chain, mine, pc, runs, faults>>

Deployer == 0                    \* the signer's own account, which has no code
NoLocals == <<>>
Contract(a) == a \in DOMAIN chain
IsA(a, kind) == Contract(a) /\ chain[a].kind = kind
Instances(kind) == {a \in DOMAIN chain : chain[a].kind = kind}

Stopped == {"idle", "failed", "done"}

ScriptInit == mine = NoLocals /\ pc = "idle" /\ runs = 0 /\ faults = 0

(* The operator starts the script. *)
Invoke(first) ==
  /\ pc \in Stopped
  /\ runs < MaxRuns
  /\ runs' = runs + 1
  /\ pc' = first
  /\ mine' = NoLocals
  /\ UNCHANGED <<chain, faults>>

Goto(next) == pc' = next /\ UNCHANGED <<runs, faults>>

(* An exception nobody catches ends the process with exit code 1. *)
Throw == pc' = "failed" /\ mine' = NoLocals /\ UNCHANGED <<runs, faults>>

Fault == faults < MaxFaults /\ faults' = faults + 1 /\ UNCHANGED runs

(* The node refuses a transaction that would revert, ethers one whose        *)
(* arguments are no addresses; nothing is mined.                             *)
Refused == Throw /\ UNCHANGED chain

Lost == Fault /\ pc' = "failed" /\ mine' = NoLocals

(* A local variable is assigned. *)
Learn(name, value) ==
  mine' = [n \in DOMAIN mine \cup {name} |-> IF n = name THEN value ELSE mine[n]]

(* const x = await factory.deploy(...); await x.waitForDeployment() *)
Deploy(at, next, name, contract) ==
  /\ pc = at
  /\ \/ /\ chain' = Append(chain, contract)
        /\ \/ Goto(next) /\ Learn(name, Len(chain) + 1)
           \/ Lost
     \/ Lost /\ UNCHANGED chain

(* const tx = await contract.f(...); await tx.wait() *)
Send(at, next, a, contract) ==
  /\ pc = at
  /\ \/ /\ chain' = [chain EXCEPT ![a] = contract]
        /\ \/ Goto(next) /\ UNCHANGED mine
           \/ Lost
     \/ Lost /\ UNCHANGED chain
==============================================================================
