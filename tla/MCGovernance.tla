---------------------------- MODULE MCGovernance ----------------------------
(***************************************************************************)
(* The two ways of deploying governance, for TLC: the operator of a        *)
(* session uses deploy-governance-stack.ts, or deploy.ts.  Both run with   *)
(* the same bounds; deploy.ts has one run more, which goes to the other    *)
(* script of its module.                                                   *)
(***************************************************************************)
EXTENDS GovernanceStack

VARIABLES session, pending, history

Dao == INSTANCE DaoDeployment WITH MaxRuns <- MaxRuns + 1

NotStack == <<session, pending, history>>
NotDao   == <<session, saved>>
all      == <<vars, NotStack>>

SessionInit ==
  \/ session = "stack" /\ Init /\ pending = <<>> /\ history = <<>>
  \/ session = "dao" /\ Dao!Init /\ saved = Missing

SessionNext ==
  \/ session = "stack" /\ Next /\ UNCHANGED NotStack
  \/ session = "dao" /\ Dao!Next /\ UNCHANGED NotDao

(* The fairness of the two modules, each in its own sessions. *)
SessionFairness ==
  /\ WF_all(session = "stack" /\ Step /\ UNCHANGED NotStack)
  /\ WF_all(session = "stack" /\ pc # "done" /\ Start /\ UNCHANGED NotStack)
  /\ WF_all(session = "dao" /\ Dao!Step /\ UNCHANGED NotDao)
  /\ WF_all(session = "dao" /\ Dao!MineGrant /\ UNCHANGED NotDao)
  /\ WF_all(session = "dao" /\ pc # "done" /\ Dao!Start /\ UNCHANGED NotDao)

SessionSpec == SessionInit /\ [][SessionNext]_all /\ SessionFairness
-----------------------------------------------------------------------------
(* A deployment of deploy.ts that reached the history is one in which the    *)
(* governor can propose, execute and cancel, although no grant is waited for.*)
LoggedIsGoverned == session = "dao" => Dao!LoggedIsGoverned

(* Grants still pending from a run that died never give a governor power     *)
(* over another run's timelock.                                              *)
OwnGovernorOnly == session = "dao" => Dao!OwnGovernorOnly

(* Both scripts, started again until they succeed, end with a deployment.    *)
EventuallyDeployed ==
  /\ session = "stack" => EventuallyRecorded
  /\ session = "dao" => Dao!EventuallyLogged
=============================================================================
