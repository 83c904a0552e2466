--------------------------- MODULE InferenceClient ---------------------------
(***************************************************************************)
(* The client scripts for inference:                                       *)
(*   aivm-inference-request-v2.ts   stores the prompt at the coordinator,  *)
(*                                  then requests the inference on chain   *)
(*   aivm-inference-request.ts      version 1: the prompt goes on chain    *)
(*   aivm-inference-enqueue.ts      turns a version 1 event into a task    *)
(* The coordinator is outside this repository.                             *)
(***************************************************************************)
EXTENDS Script

CONSTANTS Prompts,             \* prompt texts; a text stands for its hash too
          Window,              \* how far back events are searched, in blocks
          MaxBlock             \* bound on the chain's height

VARIABLES stored,              \* prompts at the coordinator; the identifier is the position
          tasks,               \* tasks enqueued at the coordinator
          block                \* height of the chain

vars == <<script, stored, tasks, block>>

Init ==
  /\ chain = <<>> /\ ScriptInit
  /\ stored = <<>> /\ tasks = {} /\ block = 0

RequestsV2 == Instances("InferenceV2")
RequestsV1 == Instances("Inference")

-------------------------------------------------------------------------------
(* The operator gives a prompt; a prompt is hashed and, if there is a key,   *)
(* encrypted before it is stored.                                            *)
StartRequestV2 ==
  /\ pc \in Stopped /\ runs < MaxRuns
  /\ \E p \in Prompts : mine' = [prompt |-> p]
  /\ runs' = runs + 1 /\ pc' = "store"
  /\ UNCHANGED <<chain, faults, stored, tasks, block>>

(* The coordinator keeps the prompt and answers with its identifier and its  *)
(* hash.  When it errs it answers with those of another prompt.              *)
StorePrompt ==
  /\ pc = "store"
  /\ \/ /\ stored' = Append(stored, mine.prompt)
        /\ \/ Goto("compare") /\ Learn("id", Len(stored) + 1)
           \/ Lost
           \/ /\ Fault /\ pc' = "compare"
              /\ \E id \in DOMAIN stored : Learn("id", id)
     \/ Lost /\ UNCHANGED stored
  /\ UNCHANGED <<chain, tasks, block>>

(* For comparison: the answer is trusted. *)
TrustHash ==
  /\ pc = "compare"
  /\ Goto("digest") /\ UNCHANGED mine
  /\ UNCHANGED <<chain, stored, tasks, block>>

CompareHash ==
  /\ pc = "compare"
  /\ \/ stored[mine.id] = mine.prompt /\ Goto("digest") /\ UNCHANGED mine
     \/ stored[mine.id] # mine.prompt /\ Throw
  /\ UNCHANGED <<chain, stored, tasks, block>>

(* /api/tags of the model server, unless the digest is configured. *)
GetModelDigest ==
  /\ pc = "digest"
  /\ \/ Goto("request") /\ UNCHANGED mine
     \/ Lost
  /\ UNCHANGED <<chain, stored, tasks, block>>

(* The fee is paid with the transaction. *)
RequestInferenceV2 ==
  /\ Deploy("request", "receipt", "request",
       [kind |-> "InferenceV2", prompt |-> mine.prompt, promptId |-> mine.id, block |-> block])
  /\ UNCHANGED <<stored, tasks, block>>

FindRequestId ==
  /\ pc = "receipt" /\ Goto("done")
  /\ UNCHANGED <<chain, mine, stored, tasks, block>>
-------------------------------------------------------------------------------
(* Version 1. *)
StartRequest ==
  /\ pc \in Stopped /\ runs < MaxRuns
  /\ \E p \in Prompts : mine' = [prompt |-> p]
  /\ runs' = runs + 1 /\ pc' = "requestV1"
  /\ UNCHANGED <<chain, faults, stored, tasks, block>>

RequestInference ==
  /\ Deploy("requestV1", "done", "request",
       [kind |-> "Inference", prompt |-> mine.prompt, promptId |-> 0, block |-> block])
  /\ UNCHANGED <<stored, tasks, block>>

(* For comparison: the newest event is taken, whosever it is. *)
EventsUnfiltered(id) == {r \in RequestsV1 : block <= chain[r].block + Window}

(* InferenceRequested events of the request, in the blocks searched. *)
Events(id) == {r \in RequestsV1 : r = id /\ block <= chain[r].block + Window}

Newest(events) == CHOOSE r \in events : \A q \in events : q <= r

(* The task is named after the request, so that enqueueing again names the   *)
(* same task (the operator may give another name instead; not modelled).     *)
Task(id, event) == [task_id |-> id, prompt |-> chain[event].prompt]

Enqueue(id) ==
  /\ pc \in Stopped /\ runs < MaxRuns
  /\ runs' = runs + 1 /\ mine' = NoLocals
  /\ \/ Events(id) = {} /\ pc' = "failed" /\ UNCHANGED <<faults, tasks>>
     \/ /\ Events(id) # {}
        /\ \/ pc' = "done" /\ tasks' = tasks \cup {Task(id, Newest(Events(id)))} /\ UNCHANGED faults
           \/ /\ faults < MaxFaults /\ faults' = faults + 1 /\ pc' = "failed"
              /\ tasks' \in {tasks, tasks \cup {Task(id, Newest(Events(id)))}}
  /\ UNCHANGED <<chain, stored, block>>

NewBlock ==
  /\ block < MaxBlock /\ block' = block + 1
  /\ UNCHANGED <<script, stored, tasks>>

Step == StorePrompt \/ CompareHash \/ GetModelDigest \/ RequestInferenceV2 \/ FindRequestId \/ RequestInference

Next == StartRequestV2 \/ StartRequest \/ Step \/ (\E id \in RequestsV1 : Enqueue(id)) \/ NewBlock

Spec == Init /\ [][Next]_vars
-------------------------------------------------------------------------------
(* Whatever is lost, repeated or answered wrongly, a request on the chain    *)
(* refers to a prompt the coordinator has, and to the right one: a worker    *)
(* can always fetch what it is asked to answer.                              *)
RequestedIsStored ==
  \A r \in RequestsV2 : chain[r].promptId \in DOMAIN stored /\ stored[chain[r].promptId] = chain[r].prompt

(* Enqueueing again, after a lost answer or for good measure, adds nothing:  *)
(* a task per request, with that request's prompt.                           *)
TasksMatchRequests ==
  /\ \A t \in tasks : t.task_id \in RequestsV1 /\ t.prompt = chain[t.task_id].prompt
  /\ \A s, t \in tasks : s.task_id = t.task_id => s = t
==============================================================================
