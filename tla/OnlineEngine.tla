---------------------------- MODULE OnlineEngine ----------------------------
(***************************************************************************)
(* OnlineServingEngine::run_loop: the owner thread of a Scheduler takes    *)
(* the submissions, steps while the scheduler has active requests, and     *)
(* waits for a submission otherwise.  A step takes the cancellations, has  *)
(* the scheduler build a batch, computes it, hands the sampled tokens to   *)
(* the scheduler and answers the clients of what finished.                 *)
(*                                                                         *)
(* The queues of submissions and cancellations are read at one point of    *)
(* the loop each, so that a client's call is an action there.              *)
(***************************************************************************)
EXTENDS Scheduler

VARIABLES
  handles,    \* clients in handles_: the answer is still owed
  failures    \* forward passes that failed

engineVars == <<handles, failures>>
vars == <<schedVars, engineVars>>

Init ==
  /\ SchedulerInit
  /\ pc = "loop"
  /\ handles = {} /\ failures = 0

(***************************************************************************)
(* flush_submissions.  A handle whose client left before is cancelled at    *)
(* once.                                                                    *)
(***************************************************************************)
Submit(r) ==
  /\ pc = "loop"
  /\ AddRequest(r)
  /\ handles' = handles \union {r}
  /\ UNCHANGED failures

SubmitCancelled(r) ==
  /\ pc = "loop" /\ IsNext(r) /\ r \in setup.cancels
  /\ seq' = [seq EXCEPT ![r] = Ended("failed")]
  /\ finished' = finished \union {r}
  /\ handles' = handles \union {r}
  /\ UNCHANGED <<setup, context, queueVars, storeVars, stepVars, aborted, pc, failures>>

\* run_loop: without active requests it waits for the next submission.
RunStep ==
  /\ pc = "loop" /\ HasActiveRequests
  /\ pc' = "cancel"
  /\ UNCHANGED <<setup, seq, context, queueVars, storeVars, finished, stepVars, aborted, engineVars>>

\* flush_cancellations: of clients that left, and of stop sequences.
Cancel(r) ==
  /\ pc = "cancel" /\ r \in setup.cancels
  /\ CancelRequest(r)
  /\ UNCHANGED engineVars

CancellationsFlushed ==
  /\ pc = "cancel" /\ aborted = "no"
  /\ pc' = "schedule"
  /\ UNCHANGED <<setup, seq, context, queueVars, storeVars, finished, stepVars, aborted, engineVars>>

Schedule == ScheduleStep /\ UNCHANGED engineVars

(***************************************************************************)
(* execute_step: the batch is built from the pointers into running_; the    *)
(* model then reserves the slots of the prefill rows, row by row, under a   *)
(* CHECK, and computes.  Behaviours end where the batch's pointers are no   *)
(* longer valid.                                                            *)
(***************************************************************************)
PrefillRequests == {batch[i].req : i \in (decodes + 1) .. Len(batch)}
Reserved ==
  [r \in Request |-> IF r \in PrefillRequests THEN context[r] + seq[r].scheduled ELSE context[r]]

Forward ==
  /\ pc = "scheduled" /\ aborted = "no"
  /\ IF moved THEN aborted' = "pointer" /\ UNCHANGED context
     ELSE IF FreeIn(Reserved) < 0 THEN aborted' = "reserve" /\ UNCHANGED context
     ELSE context' = Reserved /\ UNCHANGED aborted
  /\ pc' = "sampled"
  /\ UNCHANGED <<setup, seq, queueVars, storeVars, finished, stepVars, engineVars>>

\* The status of execute_step is an error, after the slots were reserved: run_step
\* returns, with nothing processed or published, and scheduled_tokens as it was.
Abandoned(r) ==
  [seq[r] EXCEPT !.scheduled = 0, !.stuck = @ \/ seq[r].scheduled # 0]

ForwardFails ==
  /\ pc = "scheduled" /\ aborted = "no" /\ ~moved /\ FreeIn(Reserved) >= 0
  /\ failures < setup.fails
  /\ failures' = failures + 1
  /\ context' = Reserved
  /\ seq' = [r \in Request |-> Abandoned(r)]
  /\ DropOutput
  /\ pc' = "loop"
  /\ UNCHANGED <<setup, queueVars, storeVars, finished, aborted, handles>>

Process ==
  /\ pc = "sampled" /\ aborted = "no"
  /\ \E eos \in SUBSET SampledRows : ProcessOutputs(SampledRows, eos)
  /\ pc' = "publish"
  /\ UNCHANGED engineVars

\* publish_finished.
Publish ==
  /\ pc = "publish" /\ aborted = "no"
  /\ handles' = handles \ finished
  /\ finished' = {}
  /\ DropOutput
  /\ pc' = "loop"
  /\ UNCHANGED <<setup, seq, context, queueVars, storeVars, aborted, failures>>

Next ==
  \/ \E r \in Request : Submit(r) \/ SubmitCancelled(r) \/ Cancel(r)
  \/ RunStep \/ CancellationsFlushed \/ Schedule
  \/ Forward \/ ForwardFails \/ Process \/ Publish

Spec == Init /\ [][Next]_vars

\* The loop of the owner thread; clients owe nothing.
FairSpec ==
  Spec /\ WF_vars(RunStep \/ CancellationsFlushed \/ Schedule \/ Forward \/ Process \/ Publish)
-----------------------------------------------------------------------------
Live == {r \in Request : seq[r].status \notin Settled \union {"new"}}
InRunning == ToSet(running)
InWaiting == ToSet(waiting)

\* Types of the state.
TypeOK ==
  /\ setup \in Setup
  /\ \A r \in Request :
       /\ seq[r].status \in {"new", "waiting", "running", "preempted", "suspended"} \union Settled
       /\ {seq[r].computed, seq[r].scheduled, seq[r].generated, seq[r].outputs} \subseteq Nat
       /\ {seq[r].recompute, seq[r].next, seq[r].tired, seq[r].stuck} \subseteq BOOLEAN
       /\ context[r] \in -1 .. Capacity
  /\ waiting \in Seq(Request) /\ running \in Seq(Request)
  /\ suspended \subseteq Request /\ restored \subseteq Request
  /\ finished \subseteq Request /\ handles \subseteq Request
  /\ failures \in Nat
  /\ aborted \in {"no", "free", "reserve", "pointer", "front", "lost", "context"}

\* A request the scheduler accepted is in exactly one of waiting_, running_ and
\* suspended_ (a checkpointed one stays in running_ until it is reaped), and it
\* holds KV exactly while it is in one of the queues: nothing is lost between
\* the queues, and what ended, or is suspended, keeps no block.  Where the
\* element that is admitted is not the one that is popped, a request is lost;
\* ProcessSurvives says when that cannot be.
OneHome ==
  aborted # "lost" =>
    /\ IsInjective(waiting) /\ IsInjective(running)
    /\ InWaiting \intersect InRunning = {}
    /\ InWaiting \intersect suspended = {}
    /\ InWaiting \union InRunning \union suspended = Live
    /\ aborted = "no" =>
         \A r \in Request : context[r] # NoKV <=> r \in (InWaiting \union InRunning) \ suspended

\* What KV of c tokens is to hold for a sequence q with a prompt of p tokens: a
\* prefill what it computed, a decoding sequence its prompt and the tokens it
\* was given but the last.  The end tokens that did not end it are among them
\* until a recompute, which has only the output.  A forward pass that failed
\* leaves slots that nothing was computed for.
KVFits(p, q, c) ==
  IF q.computed < p + (IF q.recompute THEN q.outputs ELSE 0)
  THEN c >= q.computed /\ (failures = 0 => c = q.computed)
  ELSE q.next /\ c >= p + q.outputs - 1 /\ (failures = 0 => c <= p + q.generated - 1)

\* Between steps the KV of a sequence is what its tokens say, whatever preemption
\* and recompute it went through, and a decoding one knows its next input.
ContextExact ==
  pc = "loop" /\ aborted = "no" =>
    \A r \in (InWaiting \union InRunning) \ suspended : KVFits(setup.prompt[r], seq[r], context[r])

\* Every ticket has its record, with all of the KV its sequence needs to go on,
\* so that a suspended request can be restored as it was.
Restorable ==
  aborted = "no" =>
    \A r \in suspended :
      record[r] # NoRecord /\ KVFits(setup.prompt[r], record[r].seq, record[r].context)

\* All three: the scheduler's queues say where every request is, and its counters
\* what KV it has.
RequestsAccounted == OneHome /\ ContextExact /\ Restorable

\* Under FCFS the blocks the scheduler counts for the prefill rows of a batch are
\* there when the model reserves them, nothing leaves running_ while the batch
\* points into it, and the request admitted is the one taken off waiting_; with
\* recompute no handle is freed twice, whenever a client cancels, up to where an
\* admission under priority has lost a request; and unless a forward pass failed no
\* handle outgrows what is to be recomputed into it.
ProcessSurvives ==
  /\ ~setup.priority => aborted \notin {"reserve", "pointer", "front", "lost"}
  /\ ~setup.checkpoint => aborted # "free"
  /\ failures = 0 => aborted # "context"

\* No preemption, restore or recompute takes back a token a client was sent.
OutputsKept ==
  [][\A r \in Request : seq'[r].status \notin Settled => seq'[r].outputs >= seq[r].outputs]_vars

\* Every request the engine took is settled, however often it is preempted.
EveryRequestSettles ==
  \A r \in Request :
    seq[r].status # "new" ~> seq[r].status \in Settled \/ aborted # "no"
=============================================================================
