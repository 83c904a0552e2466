-------------------------- MODULE MCInferenceTuned --------------------------
(***************************************************************************)
(* AIVMInferenceV2 while its owner changes the settings under a request.   *)
(* A session retunes either what is paid to whom, with one validator and   *)
(* the dispute raised by the worker, or deadlines, quorum and registry,    *)
(* with two validators and fees of 1; together the two use every setter.   *)
(***************************************************************************)
EXTENDS MCAIVMInferenceV2

VARIABLE retunes

PoIFields == {"poiQuorum", "registry", "commitTimeoutSecs", "revealTimeoutSecs", "finalizeTimeoutSecs"}
Kept(fields) == \A f \in fields : settings[f] = TunedSettings[f]
Raised(a) == \E id \in RequestIds : challenges[id].challenger = a

InMoneySession ==
  /\ Kept(PoIFields)
  /\ ~validators[v2].registered /\ \A t \in RequestIds : poi[t].slot = 0
  /\ ~Raised(other)

InPoISession ==
  /\ Kept(DOMAIN settings \ PoIFields)
  /\ ~Raised(worker)
  /\ \A id \in RequestIds : requests[id].status \in Live => requests[id].fee = 1

InSession == CASE retunes = "money" -> InMoneySession [] OTHER -> InPoISession

TunedSpec ==
  /\ Init /\ retunes \in {"money", "poi"}
  /\ [][Next /\ UNCHANGED retunes /\ InSession']_<<vars, retunes>>

BothTuned ==
  [MoneyTuned EXCEPT !.timeouts = PoITuned.timeouts, !.poiQuorum = PoITuned.poiQuorum,
                     !.registry = PoITuned.registry]
=============================================================================
