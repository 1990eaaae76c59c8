------------------------------ MODULE Scheduler ------------------------------
(***************************************************************************)
(* The continuous-batching Scheduler and its RequestCheckpointStore.  The  *)
(* scheduler keeps every request it accepted in waiting_, running_ or, by  *)
(* a checkpoint, suspended_, and builds a batch per step: first a token of *)
(* every decoding sequence, then chunks of running prefills, then chunks   *)
(* of waiting ones it admits.  A sequence that gets no KV block is         *)
(* preempted: its KV is freed and recomputed later, or saved and restored. *)
(*                                                                         *)
(* One thread owns the scheduler; pc is its position in schedule_step, and *)
(* the loop around it is the engine's (OnlineEngine).  A KV handle is the  *)
(* number of tokens it holds, NoKV when it is not active; prefix sharing   *)
(* is off, so a handle holds Blocks(tokens) blocks alone.  Token values    *)
(* are left out: only how many, and whether the next one of a sequence is  *)
(* known.                                                                  *)
(***************************************************************************)
EXTENDS Integers, Sequences, FiniteSets, FiniteSetsExt, SequencesExt, Functions

CONSTANTS
  Setup,          \* the configurations and workloads to consider
  Requests,       \* number of requests; client_request_id is 1 .. Requests
  BlockSize, NumBlocks,
  MaxSeqs, MaxBatchedTokens, PrefillChunkCap,
  MaxRecords      \* max_checkpoint_records

Request == 1 .. Requests
NoKV == -1

ASSUME SetupAssumption ==
  Setup \subseteq
    [priority : BOOLEAN,      \* SchedulingPolicy::kPriority, otherwise kFCFS
     checkpoint : BOOLEAN,    \* PreemptionPolicy kCheckpoint or kAuto
     long : Nat,              \* long_prefill_token_threshold, 0: off
     partial : Nat, longPartial : Nat,  \* max_[long_]partial_prefills, 0: off
     prompt : [Request -> Nat \ {0}], maxNew : [Request -> Nat \ {0}],
     minNew : [Request -> Nat],  \* min_new_tokens; ignore_eos is minNew = maxNew
     rank : [Request -> Nat], \* generation_config.priority
     cancels : SUBSET Request,  \* bound: the requests somebody cancels
     submits : Nat,             \* bound: the requests clients submit
     fails : Nat]               \* bound: the forward passes that fail

ASSUME CapacityAssumption ==
  /\ {BlockSize, NumBlocks, MaxSeqs, MaxBatchedTokens, PrefillChunkCap, MaxRecords}
       \subseteq Nat \ {0}
  /\ Requests \in Nat

VARIABLES
  setup,
  seq,        \* SequenceState of each request
  context,    \* KV tokens of its handle, or NoKV
  waiting, running,   \* waiting_ and running_
  suspended,  \* clients with a ticket in suspended_
  record,     \* checkpoint records: what was saved, or NoRecord
  restored,   \* restored_checkpoints_
  finished,   \* finished_: moved out, not popped yet
  batch,      \* scheduled_seqs: <<[req, tokens]>>, decodes first
  decodes,    \* num_decode_seqs
  budget, freeLeft,   \* remaining_budget, remaining_free_blocks
  idx,        \* loop index; where the reference of admit_waiting_prefills is in waiting_
  moved,      \* running_ erased under a pointer of the batch
  aborted,    \* why the behaviour ends (a failed CHECK, a lost element), or "no"
  pc

queueVars == <<waiting, running>>
storeVars == <<suspended, record, restored>>
stepVars == <<batch, decodes, budget, freeLeft, idx, moved>>
schedVars == <<setup, seq, context, queueVars, storeVars, finished, stepVars, aborted, pc>>

-----------------------------------------------------------------------------
(* Blocks and sequences.                                                    *)

\* Mutant of Blocks: a last, partial block is not counted.
BlocksWhole(n) == IF n <= 0 THEN 0 ELSE n \div BlockSize

Blocks(n) == IF n <= 0 THEN 0 ELSE (n + BlockSize - 1) \div BlockSize
MoreBlocks(held, tokens) == Blocks(held + tokens) - Blocks(held)
Capacity == NumBlocks * BlockSize
SumOver(Op(_), S) == SumFunctionOnSet([x \in S |-> Op(x)], S)
FreeIn(ctx) == NumBlocks - SumOver(LAMBDA r : Blocks(ctx[r]), Request)
Free == FreeIn(context)

Least(a, b) == IF a <= b THEN a ELSE b

\* The elements of queue that are in S, in their order: what erasing the others leaves.
Only(queue, S) == FoldLeft(LAMBDA q, r : IF r \in S THEN Append(q, r) ELSE q, <<>>, queue)

Settled == {"finished", "failed", "erased"}
\* generated counts the sampled tokens, outputs those of them in output_tokens.
\* stuck: scheduled_tokens is left from a forward pass that failed.
NewSeq == [status |-> "new", computed |-> 0, scheduled |-> 0, generated |-> 0, outputs |-> 0,
           recompute |-> FALSE, next |-> FALSE, tired |-> FALSE, stuck |-> FALSE]
NoRecord == [seq |-> NewSeq, context |-> NoKV]
Saved == {r \in Request : record[r] # NoRecord}

Target(r) == setup.prompt[r] + (IF seq[r].recompute THEN seq[r].outputs ELSE 0)
IsPrefill(r) == seq[r].computed < Target(r)
Remaining(r) == Target(r) - seq[r].computed
Long(r) == setup.long > 0 /\ Remaining(r) > setup.long

\* The tokens of a chunk of `want' tokens that fit the open block and `free' blocks.
FitChunk(held, want, free) ==
  LET used == IF held > 0 THEN held % BlockSize ELSE 0
      room == IF used = 0 THEN 0 ELSE BlockSize - used
  IN IF want <= 0 THEN 0 ELSE Least(want, room + free * BlockSize)

WantedChunk(r) ==
  Least(Least(Remaining(r), budget),
        IF Long(r) THEN Least(PrefillChunkCap, setup.long) ELSE PrefillChunkCap)

\* The CHECK of can_admit_waiting_sequence fails.
Overfull(r) == seq[r].recompute /\ context[r] > Target(r)

\* A recomputed request must fit with its next token before it starts again.
AdmitChunk(r, want, free) ==
  IF seq[r].recompute /\ Blocks(Target(r) + 1) - Blocks(context[r]) > free THEN 0
  ELSE FitChunk(context[r], want, free)

DecodeNeed(r) ==
  IF IsPrefill(r) \/ context[r] = NoKV THEN 0
  ELSE MoreBlocks(context[r], Max({0, setup.maxNew[r] - seq[r].generated}))

DecodeRoom == Max({0, Free - SumOver(DecodeNeed, ToSet(running))})

HigherPriority(r, s) ==
  \/ setup.rank[r] > setup.rank[s]
  \/ setup.rank[r] = setup.rank[s] /\ r < s

Enqueue(queue, r) ==
  LET behind == IF setup.priority THEN SelectInSeq(queue, LAMBDA s : HigherPriority(r, s))
                ELSE 0
  IN IF behind = 0 THEN Append(queue, r) ELSE InsertAt(queue, behind, r)

CanScheduleNow(r) ==
  LET partial == {s \in ToSet(running) : IsPrefill(s)}
  IN /\ IsPrefill(r)
     /\ \/ setup.partial = 0
        \/ Cardinality(partial) < setup.partial
        \/ seq[r].status = "running"
     /\ \/ setup.longPartial = 0 \/ ~Long(r)
        \/ Cardinality({s \in partial : Long(s)}) < setup.longPartial
        \/ seq[r].status = "running"

-----------------------------------------------------------------------------
SchedulerInit ==
  /\ setup \in Setup
  /\ seq = [r \in Request |-> NewSeq]
  /\ context = [r \in Request |-> NoKV]
  /\ waiting = <<>> /\ running = <<>>
  /\ suspended = {} /\ record = [r \in Request |-> NoRecord] /\ restored = {}
  /\ finished = {}
  /\ batch = <<>> /\ decodes = 0 /\ budget = 0 /\ freeLeft = 0 /\ idx = 1
  /\ moved = FALSE
  /\ aborted = "no"
  /\ pc = "loop"

\* The next client_request_id.
IsNext(r) ==
  r <= setup.submits /\ seq[r].status = "new" /\ \A s \in 1 .. (r - 1) : seq[s].status # "new"

\* What is left of a sequence that ended; "erased" leaves nothing in finished_.
Ended(status) == [NewSeq EXCEPT !.status = status]

(***************************************************************************)
(* add_request: a prompt beyond the pool fails at once.                     *)
(***************************************************************************)
AddRequest(r) ==
  /\ IsNext(r)
  /\ IF setup.prompt[r] > Capacity
       THEN /\ seq' = [seq EXCEPT ![r] = Ended("failed")]
            /\ finished' = finished \union {r}
            /\ UNCHANGED <<context, waiting>>
       ELSE /\ seq' = [seq EXCEPT ![r].status = "waiting"]
            /\ context' = [context EXCEPT ![r] = 0]
            /\ waiting' = Enqueue(waiting, r)
            /\ UNCHANGED finished
  /\ UNCHANGED <<setup, running, storeVars, stepVars, aborted, pc>>

\* Ends sequence r of running_ (free_request and the move to finished_ of
\* reap_finished_running).
ReapEnded(r, status) ==
  /\ running' = Only(running, Request \ {r})
  /\ record' = [record EXCEPT ![r] = NoRecord]
  /\ restored' = restored \ {r}
  /\ IF context[r] = NoKV
       THEN aborted' = "free" /\ UNCHANGED <<seq, context, finished>>
       ELSE /\ seq' = [seq EXCEPT ![r] = Ended(status)]
            /\ context' = [context EXCEPT ![r] = NoKV]
            /\ finished' = finished \union {r}
            /\ UNCHANGED aborted

(***************************************************************************)
(* cancel_request, for a waiting, a running and a suspended request.        *)
(***************************************************************************)
CancelWaiting(r) ==
  /\ r \in ToSet(waiting)
  /\ waiting' = Only(waiting, Request \ {r})
  /\ seq' = [seq EXCEPT ![r] = Ended("failed")]
  /\ context' = [context EXCEPT ![r] = NoKV]
  /\ record' = [record EXCEPT ![r] = NoRecord]
  /\ restored' = restored \ {r}
  /\ finished' = finished \union {r}
  /\ UNCHANGED <<setup, running, suspended, stepVars, aborted, pc>>

CancelRunning(r) ==
  /\ r \in ToSet(running)
  /\ ReapEnded(r, "failed")
  /\ UNCHANGED <<setup, waiting, suspended, stepVars, pc>>

CancelSuspended(r) ==
  /\ r \in suspended
  /\ r \notin ToSet(waiting) \union ToSet(running)
  /\ record' = [record EXCEPT ![r] = NoRecord]
  /\ suspended' = suspended \ {r}
  /\ seq' = [seq EXCEPT ![r] = Ended("erased")]
  /\ UNCHANGED <<setup, context, queueVars, restored, finished, stepVars, aborted, pc>>

CancelRequest(r) ==
  /\ aborted = "no"
  /\ CancelWaiting(r) \/ CancelRunning(r) \/ CancelSuspended(r)

-----------------------------------------------------------------------------
(* Preemption.                                                              *)

\* Mutant of CanSave: a sequence of the batch being built is saved too.
CanSaveScheduled(r) ==
  /\ setup.checkpoint /\ r \notin suspended
  /\ context[r] # NoKV
  /\ Cardinality(Saved) < MaxRecords
  /\ seq[r].computed <= context[r]

\* save() takes a sequence without scheduled_tokens, so none of the batch being
\* built or of one that failed, while the store has room for another record; the
\* client's older record counts.
CanSave(r) ==
  /\ setup.checkpoint /\ r \notin suspended
  /\ seq[r].scheduled = 0 /\ ~seq[r].stuck /\ context[r] # NoKV
  /\ Cardinality(Saved) < MaxRecords
  /\ seq[r].computed <= context[r]

\* Mutant of PreemptSequence: an older record is not replaced, and a
\* recompute keeps its progress.
PreemptKeepsRevision(r) ==
  \/ /\ CanSave(r)
     /\ record' = [record EXCEPT ![r] = IF @ # NoRecord THEN @
                                       ELSE [seq |-> seq[r], context |-> context[r]]]
     /\ suspended' = suspended \union {r}
     /\ seq' = [seq EXCEPT ![r].status = "suspended"]
     /\ context' = [context EXCEPT ![r] = NoKV]
     /\ UNCHANGED aborted
  \/ /\ ~CanSave(r)
     /\ seq' = [seq EXCEPT ![r].status = "preempted", ![r].recompute = TRUE, ![r].tired = TRUE]
     /\ context' = [context EXCEPT ![r] = 0]
     /\ UNCHANGED <<suspended, record, aborted>>

(***************************************************************************)
(* preempt_sequence: by a checkpoint, or by dropping the KV for recompute.  *)
(***************************************************************************)
PreemptSequence(r) ==
  \/ /\ CanSave(r)
     /\ record' = [record EXCEPT ![r] = [seq |-> seq[r], context |-> context[r]]]
     /\ suspended' = suspended \union {r}
     /\ seq' = [seq EXCEPT ![r].status = "suspended"]
     /\ context' = [context EXCEPT ![r] = NoKV]
     /\ UNCHANGED aborted
  \/ /\ ~CanSave(r) /\ context[r] # NoKV
     /\ seq' = [seq EXCEPT ![r] = [@ EXCEPT !.computed = 0, !.scheduled = 0,
                  !.next = FALSE, !.recompute = TRUE, !.status = "preempted",
                  !.tired = TRUE, !.stuck = FALSE]]
     /\ context' = [context EXCEPT ![r] = 0]
     /\ UNCHANGED <<suspended, record, aborted>>
  \/ /\ ~CanSave(r) /\ context[r] = NoKV
     /\ aborted' = "free"
     /\ UNCHANGED <<seq, context, suspended, record>>

\* reap_preempted_running, for the statuses st: what stays, and the waiting queue.
Preempted(st) == Only(running, {r \in Request : st[r].status = "preempted"})

StillRunning(st) ==
  Only(running, {r \in Request : st[r].status \notin {"preempted", "suspended"}})
WaitingAgain(st) == FoldLeft(Enqueue, waiting, Preempted(st))

-----------------------------------------------------------------------------
(* schedule_step.                                                           *)

\* restore_request of the smallest suspended client, once all other work has
\* drained: back to waiting_ to go on with its prefill, or to running_.
Restore(r) ==
  LET q == [record[r].seq EXCEPT !.scheduled = 0]
      prefill == q.computed < setup.prompt[r] + (IF q.recompute THEN q.outputs ELSE 0)
      need == MoreBlocks(record[r].context, Max({0, setup.maxNew[r] - q.generated}))
      admitted == ~prefill /\ need <= Free - Blocks(record[r].context)
  IN /\ context' = [context EXCEPT ![r] = record[r].context]
     /\ suspended' = suspended \ {r}
     /\ restored' = restored \union {r}
     /\ seq' = [seq EXCEPT ![r] = [q EXCEPT !.status = IF admitted THEN "running" ELSE "waiting",
                                            !.tired = ~prefill /\ ~admitted]]
     /\ waiting' = IF admitted THEN <<>> ELSE <<r>>
     /\ running' = IF admitted THEN <<r>> ELSE <<>>

\* begin_restore: the record is current, and its KV fits.
CanRestore ==
  /\ waiting = <<>> /\ running = <<>> /\ suspended # {}
  /\ LET r == Min(suspended) IN record[r] # NoRecord /\ Blocks(record[r].context) <= Free

Rested(st) == [r \in Request |-> [st[r] EXCEPT !.tired = FALSE]]

\* ++scheduler_step_ ends every ready_step, then maybe_restore_checkpointed_request.
BeginStep ==
  /\ pc = "schedule" /\ aborted = "no"
  /\ \/ CanRestore /\ Restore(Min(suspended))
     \/ /\ ~CanRestore
        /\ seq' = Rested(seq)
        /\ UNCHANGED <<context, queueVars, suspended, restored>>
  /\ batch' = <<>> /\ decodes' = 0 /\ budget' = MaxBatchedTokens
  /\ pc' = "reap"
  /\ UNCHANGED <<setup, record, finished, freeLeft, idx, moved, aborted>>

\* reap_preempted_running (what finished was reaped when it finished).
ReapPreempted ==
  /\ pc = "reap"
  /\ running' = StillRunning(seq)
  /\ waiting' = WaitingAgain(seq)
  /\ pc' = "ready"
  /\ UNCHANGED <<setup, seq, context, storeVars, finished, stepVars, aborted>>

\* admit_waiting_decode_ready_requests: those whose remaining output fits.
AdmitNext(acc, r) ==
  IF /\ Len(running) + Len(acc.in) < MaxSeqs
     /\ ~seq[r].tired /\ ~IsPrefill(r) /\ DecodeNeed(r) <= acc.room
  THEN [in |-> Append(acc.in, r), room |-> acc.room - DecodeNeed(r)] ELSE acc
DecodeReady == FoldLeft(AdmitNext, [in |-> <<>>, room |-> DecodeRoom], waiting).in

AdmitDecodeReady ==
  /\ pc = "ready"
  /\ running' = running \o DecodeReady
  /\ waiting' = Only(waiting, Request \ ToSet(DecodeReady))
  /\ seq' = [r \in Request |->
               IF r \in ToSet(DecodeReady) THEN [seq[r] EXCEPT !.status = "running"] ELSE seq[r]]
  /\ idx' = 1
  /\ pc' = "decode"
  /\ UNCHANGED <<setup, context, storeVars, finished, batch, decodes, budget, freeLeft, moved, aborted>>

\* schedule_decode_sequences: one token of every sequence past its prefill.
NextDecode == {i \in idx .. Len(running) : ~IsPrefill(running[i])}
DecodesLeft == budget > 0 /\ decodes < MaxSeqs /\ NextDecode # {}

ScheduleDecode ==
  /\ pc = "decode" /\ aborted = "no" /\ DecodesLeft
  /\ LET r == running[Min(NextDecode)]
     IN \/ /\ MoreBlocks(context[r], 1) <= Free
           /\ context' = [context EXCEPT ![r] = @ + 1]
           /\ seq' = [seq EXCEPT ![r].status = "running", ![r].scheduled = 1]
           /\ batch' = Append(batch, [req |-> r, tokens |-> 1])
           /\ decodes' = decodes + 1
           /\ budget' = budget - 1
           /\ UNCHANGED <<suspended, record, aborted>>
        \/ /\ MoreBlocks(context[r], 1) > Free
           /\ PreemptSequence(r)
           /\ UNCHANGED <<batch, decodes, budget>>
  /\ idx' = Min(NextDecode) + 1
  /\ UNCHANGED <<setup, queueVars, restored, finished, freeLeft, moved, pc>>

DecodesScheduled ==
  /\ pc = "decode" /\ aborted = "no" /\ ~DecodesLeft
  /\ freeLeft' = Free
  /\ idx' = 1
  /\ pc' = "prefill"
  /\ UNCHANGED <<setup, seq, context, queueVars, storeVars, finished, batch, decodes, budget, moved, aborted>>

TakeChunk(r, tokens) ==
  /\ seq' = [seq EXCEPT ![r].status = "running", ![r].scheduled = tokens]
  /\ batch' = Append(batch, [req |-> r, tokens |-> tokens])
  /\ budget' = budget - tokens
  /\ freeLeft' = freeLeft - MoreBlocks(context[r], tokens)

\* Mutant of RunningChunk: what the batch has already taken is forgotten.
ChunkOfPool(r) == FitChunk(context[r], WantedChunk(r), Free)

\* schedule_running_prefills: a chunk of every running prefill that fits.
RunningChunk(r) == FitChunk(context[r], WantedChunk(r), freeLeft)
NextPrefill ==
  {i \in idx .. Len(running) :
     LET r == running[i]
     IN /\ seq[r].status # "preempted" /\ CanScheduleNow(r)
        /\ budget > 0 /\ RunningChunk(r) > 0}

ScheduleRunningPrefill ==
  /\ pc = "prefill" /\ NextPrefill # {}
  /\ LET r == running[Min(NextPrefill)] IN TakeChunk(r, RunningChunk(r))
  /\ idx' = Min(NextPrefill) + 1
  /\ UNCHANGED <<setup, context, queueVars, storeVars, finished, decodes, moved, aborted, pc>>

PrefillsScheduled ==
  /\ pc = "prefill" /\ NextPrefill = {}
  /\ idx' = 1
  /\ pc' = "admit"
  /\ UNCHANGED <<setup, seq, context, queueVars, storeVars, finished, batch, decodes, budget,
                 freeLeft, moved, aborted>>

\* admit_waiting_prefills: the front of waiting_, while it can be scheduled.  `seq'
\* is a reference to it, and after a preemption the same element is tried again,
\* wherever it is by then.
Candidate == waiting[idx]
FrontReady ==
  /\ waiting # <<>> /\ budget > 0 /\ Len(running) < MaxSeqs
  /\ ~seq[Candidate].tired /\ CanScheduleNow(Candidate)
Considered == pc = "retry" \/ FrontReady
FrontChunk == AdmitChunk(Candidate, WantedChunk(Candidate), freeLeft)

\* The element of the reference goes to running_ and the first one is popped: if
\* they differ, the first request is in no queue any more, while the moved-from
\* element waits on.  The behaviour ends there.
AdmitPrefill ==
  /\ pc \in {"admit", "retry"} /\ aborted = "no" /\ idx # 0 /\ Considered
  /\ ~Overfull(Candidate) /\ FrontChunk > 0
  /\ TakeChunk(Candidate, FrontChunk)
  /\ running' = Append(running, Candidate)
  /\ waiting' = Tail(waiting)
  /\ aborted' = IF idx = 1 THEN "no" ELSE "lost"
  /\ idx' = 1
  /\ pc' = "admit"
  /\ UNCHANGED <<setup, context, storeVars, finished, decodes, moved>>

\* maybe_preempt_for_waiting_sequence: the running sequence of lowest priority,
\* if the front of waiting_ outranks it, in the batch or not.
Victims ==
  {r \in ToSet(running) : /\ seq[r].status # "preempted"
                          /\ HigherPriority(Candidate, r)}
Victim == CHOOSE r \in Victims : \A s \in Victims \ {r} : HigherPriority(s, r)
CanPreempt == setup.priority /\ Victims # {}

\* Erasing from a deque moves its elements, unless they sit at an end by then; the
\* batch points at the elements of running_.
PointersMove(st) ==
  LET gone == {i \in 1 .. Len(running) : st[running[i]].status \in {"preempted", "suspended"}}
  IN \E i \in gone :
       \/ \E j \in 1 .. Len(batch) : batch[j].req = running[i]
       \/ batch # <<>> /\ i # Len(running) /\ ~(1 .. i - 1 \subseteq gone)

\* Inserting into a deque keeps references to its elements valid only at an end.
InsertsAtEnds(st) ==
  LET again == Preempted(st)
  IN \A i \in 1 .. Len(again) :
       LET queue == FoldLeft(Enqueue, waiting, SubSeq(again, 1, i))
       IN again[i] \in {queue[1], queue[Len(queue)]}

\* Where the element of the reference is now, 0 when the reference is invalid.
FrontAfter(st) ==
  IF InsertsAtEnds(st) THEN SelectInSeq(WaitingAgain(st), LAMBDA r : r = Candidate) ELSE 0

\* The free blocks are counted anew, what the batch was promised included.
PreemptForWaiting ==
  /\ pc = "admit" /\ aborted = "no" /\ FrontReady
  /\ ~Overfull(Candidate) /\ FrontChunk = 0 /\ CanPreempt
  /\ PreemptSequence(Victim)
  /\ running' = StillRunning(seq')
  /\ waiting' = WaitingAgain(seq')
  /\ moved' = (moved \/ PointersMove(seq'))
  /\ freeLeft' = FreeIn(context')
  /\ idx' = FrontAfter(seq')
  /\ pc' = "retry"
  /\ UNCHANGED <<setup, restored, finished, batch, decodes, budget>>

\* An invalid reference is read, and the behaviour ends.
FrontMoved ==
  /\ pc = "retry" /\ aborted = "no" /\ idx = 0
  /\ aborted' = "front"
  /\ UNCHANGED <<setup, seq, context, queueVars, storeVars, finished, stepVars, pc>>

\* schedule_step returns the batch; without one it looks for what cannot proceed.
EndAdmission ==
  /\ pc \in {"admit", "retry"} /\ aborted = "no" /\ idx # 0
  /\ Considered => /\ ~Overfull(Candidate) /\ FrontChunk = 0
                   /\ pc = "retry" \/ ~CanPreempt
  /\ pc' = IF batch = <<>> THEN "stalled" ELSE "scheduled"
  /\ UNCHANGED <<setup, seq, context, queueVars, storeVars, finished, stepVars, aborted>>

\* handle_no_progress_step reaps, then rejects a front that cannot start, or
\* fails a running prefill that gets no block.
StartOf(r) == Least(Remaining(r), Least(MaxBatchedTokens, PrefillChunkCap))

\* Mutant of CannotStart: a recompute is never given up.
CannotStartFirst(r, queue) ==
  /\ ~seq[r].tired
  /\ IF ~IsPrefill(r)
     THEN queue = <<>> /\ DecodeNeed(r) > DecodeRoom
     ELSE AdmitChunk(r, StartOf(r), Free) = 0 /\ ~seq[r].recompute

CannotStart(r, queue) ==
  /\ ~seq[r].tired
  /\ IF ~IsPrefill(r)
     THEN /\ queue = <<>>
          /\ DecodeNeed(r) > DecodeRoom
     ELSE /\ AdmitChunk(r, StartOf(r), Free) = 0
          /\ ~seq[r].recompute \/ Target(r) + 1 > Capacity

StalledPrefills ==
  {i \in 1 .. Len(running) :
     IsPrefill(running[i]) /\ FitChunk(context[running[i]], StartOf(running[i]), Free) = 0}

ReapStalled ==
  /\ pc = "stalled"
  /\ running' = StillRunning(seq)
  /\ waiting' = WaitingAgain(seq)
  /\ pc' = "reject"
  /\ UNCHANGED <<setup, seq, context, storeVars, finished, stepVars, aborted>>

FrontCannotStart == waiting # <<>> /\ CannotStart(Head(waiting), running)

\* can_admit_waiting_sequence is asked about a sequence that holds more than it
\* has to compute: a CHECK fails.
FrontOverfull ==
  IF pc = "reject"
  THEN /\ waiting # <<>> /\ ~seq[Head(waiting)].tired
       /\ IsPrefill(Head(waiting)) /\ Overfull(Head(waiting))
  ELSE pc \in {"admit", "retry"} /\ idx # 0 /\ Considered /\ Overfull(Candidate)

CheckFails ==
  /\ aborted = "no" /\ FrontOverfull
  /\ aborted' = "context"
  /\ UNCHANGED <<setup, seq, context, queueVars, storeVars, finished, stepVars, pc>>

RejectWaiting ==
  /\ pc = "reject" /\ aborted = "no" /\ ~FrontOverfull /\ FrontCannotStart
  /\ LET r == Head(waiting)
     IN /\ seq' = [seq EXCEPT ![r] = Ended("failed")]
        /\ context' = [context EXCEPT ![r] = NoKV]
        /\ finished' = finished \union {r}
  /\ waiting' = Tail(waiting)
  /\ pc' = "publish"
  /\ UNCHANGED <<setup, running, storeVars, stepVars, aborted>>

FailStalledPrefill ==
  /\ pc = "reject" /\ aborted = "no" /\ ~FrontOverfull /\ ~FrontCannotStart
  /\ StalledPrefills # {}
  /\ ReapEnded(running[Min(StalledPrefills)], "failed")
  /\ pc' = "publish"
  /\ UNCHANGED <<setup, waiting, suspended, stepVars>>

NothingStalled ==
  /\ pc = "reject" /\ aborted = "no" /\ ~FrontOverfull /\ ~FrontCannotStart
  /\ StalledPrefills = {}
  /\ pc' = "publish"
  /\ UNCHANGED <<setup, seq, context, queueVars, storeVars, finished, stepVars, aborted>>

ScheduleStep ==
  \/ BeginStep \/ ReapPreempted \/ AdmitDecodeReady
  \/ ScheduleDecode \/ DecodesScheduled
  \/ ScheduleRunningPrefill \/ PrefillsScheduled
  \/ AdmitPrefill \/ PreemptForWaiting \/ FrontMoved \/ EndAdmission \/ CheckFails
  \/ ReapStalled \/ RejectWaiting \/ FailStalledPrefill \/ NothingStalled

-----------------------------------------------------------------------------
(* process_outputs: the batch was computed; `sampled' are the requests that      *)
(* have a token, `eos' those of them whose token is an end of the sequence.      *)

Rows == {batch[i].req : i \in 1 .. Len(batch)}
DecodeRows == {batch[i].req : i \in 1 .. decodes}
Reaches(r) == seq[r].computed + seq[r].scheduled = Target(r)
SampledRows == DecodeRows \union {r \in Rows \ DecodeRows : Reaches(r)}

\* record_sampled_token: an end too early, or to be ignored, is the next input but
\* not part of the output.
RecordToken(q, r, eos) ==
  [q EXCEPT !.generated = @ + 1, !.outputs = IF r \in eos THEN @ ELSE @ + 1, !.next = TRUE]
IsLast(r, eos) ==
  \/ r \in eos /\ seq[r].generated + 1 > setup.minNew[r]
  \/ seq[r].generated + 1 >= setup.maxNew[r]

Processed(r, sampled, eos) ==
  LET q == [seq[r] EXCEPT
              !.computed = IF r \in DecodeRows THEN @ ELSE @ + seq[r].scheduled,
              !.recompute = @ /\ ~(r \notin DecodeRows /\ Reaches(r)),
              !.scheduled = 0, !.stuck = FALSE]
  IN IF r \in sampled THEN RecordToken(q, r, eos) ELSE q

ProcessOutputs(sampled, eos) ==
  LET ends == {r \in sampled : IsLast(r, eos)}
  IN /\ seq' = [r \in Request |->
                 IF r \in ends THEN Ended("finished")
                 ELSE IF r \in Rows THEN Processed(r, sampled, eos) ELSE seq[r]]
     /\ context' = [r \in Request |-> IF r \in ends THEN NoKV ELSE context[r]]
     /\ running' = Only(running, Request \ ends)
     /\ finished' = finished \union ends
     /\ record' = [r \in Request |-> IF r \in ends \intersect restored THEN NoRecord ELSE record[r]]
     /\ restored' = restored \ ends
     /\ UNCHANGED <<setup, waiting, suspended, stepVars, aborted>>

\* The SchedulerOutput goes out of scope at the end of the engine's step.
DropOutput ==
  /\ batch' = <<>> /\ decodes' = 0 /\ budget' = 0 /\ freeLeft' = 0 /\ idx' = 1
  /\ moved' = FALSE

HasActiveRequests == waiting # <<>> \/ running # <<>> \/ suspended # {}
=============================================================================
