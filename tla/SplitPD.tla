------------------------------- MODULE SplitPD -------------------------------
(***************************************************************************)
(* Split prefill / decode on one GPU (run_split_pd_loop): a decode process *)
(* D with two lanes, short and long prompts, each served by a prefill      *)
(* process P of its own.  D admits a request against the slots and the     *)
(* future KV tokens of its lane, has P compute the prompt over RPC, copies *)
(* P's pages into its own, tells P to release them, and decodes all        *)
(* requests of both lanes in one batch.                                    *)
(*                                                                         *)
(* D is one thread; its position in the loop is dpc.  Per lane it has one  *)
(* asynchronous exchange with P: the prefill of a request, or the release  *)
(* of its pages.  P has a server thread and a batch thread.  Clients       *)
(* submit and cancel at any time.  An answer that does not come stops D    *)
(* (LOG(FATAL)); the supervisor then discards the whole domain.            *)
(***************************************************************************)
EXTENDS Integers, Sequences, FiniteSets, FiniteSetsExt

CONSTANTS
  Request,        \* the requests clients submit
  LaneOf,         \* 0: prompt within short_prompt_tokens, 1: longer
  Prompt, Output, \* of each request: prompt tokens, max_new_tokens
  Block,          \* tokens of a KV page
  PrefillChunk,   \* prompt tokens P computes per step
  Slots, Tokens,  \* of each lane: decode slots, KV token quota
  MaxQueue,       \* queue limit of a lane
  NoRequest,
  Lossy           \* bound: lanes whose P may die or answer too late

Lane == {0, 1}

ASSUME RequestAssumption ==
  /\ IsFiniteSet(Request)
  /\ LaneOf \in [Request -> Lane]
  /\ Prompt \in [Request -> Nat \ {0}]
  /\ Output \in [Request -> Nat \ {0}]
  /\ NoRequest \notin Request

ASSUME CapacityAssumption ==
  /\ Block \in Nat \ {0} /\ PrefillChunk \in Nat \ {0} /\ MaxQueue \in Nat \ {0}
  /\ Slots \in [Lane -> Nat \ {0}]
  /\ Tokens \in [Lane -> Nat \ {0}]

VARIABLES
  queue,      \* split_submissions_ of each lane
  handle,     \* state of each request's OnlineRequestHandle
  stopping,   \* stop() was called
  dpc,        \* where D's loop is
  lane,       \* of each lane: request, prefill (its thread), releasing, handoff
  active,     \* SplitPDAdmission: slots in use
  used,       \* SplitPDAdmission: tokens promised
  decoding,   \* requests in D's decoder
  finished,   \* the decoder's finished_ list: [request, failed]
  stopped,    \* requests ended by a stop sequence
  context,    \* KV tokens D holds for a request, 0: none
  chan,       \* the exchange of each lane
  orphan,     \* a request D gave up on that P may still serve
  job,        \* P's state of each request
  computed,   \* prompt tokens P has computed
  src,        \* the pages P holds: none, filling, retained
  up          \* P is running

clientVars == <<queue, handle, stopping>>
admissionVars == <<active, used>>
decodeVars == <<decoding, finished, stopped, context>>
rpcVars == <<chan, orphan>>
prefillVars == <<job, computed, src, up>>
vars == <<clientVars, dpc, lane, admissionVars, decodeVars, rpcVars, prefillVars>>

Silent == [type |-> "none"]
IdleLane == [request |-> NoRequest, prefill |-> "none",
             releasing |-> "none", handoff |-> NoRequest]

Init ==
  /\ queue = [l \in Lane |-> <<>>]
  /\ handle = [r \in Request |-> "new"]
  /\ stopping = FALSE
  /\ dpc = <<"result", 0>>
  /\ lane = [l \in Lane |-> IdleLane]
  /\ active = [l \in Lane |-> 0]
  /\ used = [l \in Lane |-> 0]
  /\ decoding = {} /\ finished = {} /\ stopped = {}
  /\ context = [r \in Request |-> 0]
  /\ chan = [l \in Lane |-> Silent]
  /\ orphan = [l \in Lane |-> Silent]
  /\ job = [r \in Request |-> "none"]
  /\ computed = [r \in Request |-> 0]
  /\ src = [r \in Request |-> "none"]
  /\ up = [l \in Lane |-> TRUE]

-----------------------------------------------------------------------------
(* Clients and the request handle. *)

Terminal == {"completed", "failed", "cancelled"}
Cancelled(r) == handle[r] \in {"cancelling", "cancelled"}

\* Mutant of Outcome: finish does not look for a cancellation.
OutcomeForgetsCancel(r, failed) ==
  IF handle[r] \in Terminal THEN handle[r]
  ELSE IF failed THEN "failed" ELSE "completed"

\* OnlineRequestHandle::finish, as the state it leaves.
Outcome(r, failed) ==
  CASE handle[r] \in Terminal -> handle[r]
    [] handle[r] = "cancelling" -> "cancelled"
    [] handle[r] = "open" -> IF failed THEN "failed" ELSE "completed"

Submit(r) ==
  LET l == LaneOf[r] IN
  /\ handle[r] = "new" /\ ~ stopping /\ Len(queue[l]) < MaxQueue
  /\ handle' = [handle EXCEPT ![r] = "open"]
  /\ queue' = [queue EXCEPT ![l] = Append(@, r)]
  /\ UNCHANGED <<stopping, dpc, lane, admissionVars, decodeVars, rpcVars, prefillVars>>

\* The consumer cancels, its deadline passes or it stops polling.
Cancel(r) ==
  /\ handle[r] = "open"
  /\ handle' = [handle EXCEPT ![r] = "cancelling"]
  /\ UNCHANGED <<queue, stopping, dpc, lane, admissionVars, decodeVars, rpcVars, prefillVars>>

Stop ==
  /\ ~ stopping
  /\ stopping' = TRUE
  /\ UNCHANGED <<queue, handle, dpc, lane, admissionVars, decodeVars, rpcVars, prefillVars>>

-----------------------------------------------------------------------------
(* SplitPDAdmission, and the end of a request. *)

Charge(r) == ((Prompt[r] + Output[r] + Block - 1) \div Block) * Block
FitsRequest(r) == Charge(r) <= Tokens[LaneOf[r]]
CanAcquire(r) ==
  LET l == LaneOf[r] IN
  FitsRequest(r) /\ active[l] < Slots[l] /\ used[l] <= Tokens[l] - Charge(r)

ChargeOf(R) == MapThenSumSet(Charge, R)

\* The lambda finish: give the lane's slot and tokens back, settle the handle.
\* A failure is not one if the client cancelled or a stop sequence ended it.
FinishAll(F) ==
  LET R(l) == {f.request : f \in {g \in F : LaneOf[g.request] = l}}
      failed(f) == f.failed /\ ~ Cancelled(f.request) /\ f.request \notin stopped
  IN
  /\ active' = [l \in Lane |-> active[l] - Cardinality(R(l))]
  /\ used' = [l \in Lane |-> used[l] - ChargeOf(R(l))]
  /\ handle' = [r \in Request |->
       IF \E f \in F : f.request = r
       THEN Outcome(r, failed(CHOOSE f \in F : f.request = r)) ELSE handle[r]]

Finish(r, failed) == FinishAll({[request |-> r, failed |-> failed]})

-----------------------------------------------------------------------------
(* D, one lane: the outcome of its exchange. *)

AtResult(l) == dpc = <<"result", l>>
Fresh(l) == lane[l].releasing \notin {"done", "error", "lost"}
Result(l) == lane[l].prefill

ReleaseSettled(l) ==
  /\ AtResult(l) /\ lane[l].releasing = "done"
  /\ lane' = [lane EXCEPT ![l].releasing = "none", ![l].handoff = NoRequest]
  /\ UNCHANGED <<clientVars, dpc, admissionVars, decodeVars, rpcVars, prefillVars>>

NoResult(l) ==
  /\ AtResult(l) /\ Fresh(l)
  /\ Result(l) \in {"none", "start", "submitting", "check", "polling", "cancelling"}
  /\ dpc' = <<"dispatch", l>>
  /\ UNCHANGED <<clientVars, lane, admissionVars, decodeVars, rpcVars, prefillVars>>

\* An exchange threw: the process aborts, what it sent may still be served.
Fatal(l) ==
  /\ AtResult(l)
  /\ \/ lane[l].releasing \in {"error", "lost"}
     \/ Fresh(l) /\ Result(l) \in {"error", "lost"}
  /\ dpc' = <<"dead">>
  /\ chan' = [k \in Lane |-> Silent]
  /\ orphan' = [k \in Lane |-> IF chan[k].type # "none" /\ chan[k].answer = "none"
                               THEN chan[k] ELSE orphan[k]]
  /\ UNCHANGED <<clientVars, lane, admissionVars, decodeVars, prefillVars>>

\* Mutant of PrefillFailed: the early exit forgets the admission.
PrefillFailedHolds(l) ==
  /\ AtResult(l) /\ Fresh(l) /\ Result(l) \in {"failed", "cancelled"}
  /\ handle' = [handle EXCEPT ![lane[l].request] = Outcome(lane[l].request, TRUE)]
  /\ lane' = [lane EXCEPT ![l] = IdleLane]
  /\ dpc' = <<"dispatch", l>>
  /\ UNCHANGED <<queue, stopping, admissionVars, decodeVars, rpcVars, prefillVars>>

\* P freed a failed or cancelled prefill itself: nothing to release.
PrefillFailed(l) ==
  /\ AtResult(l) /\ Fresh(l) /\ Result(l) \in {"failed", "cancelled"}
  /\ Finish(lane[l].request, TRUE)
  /\ lane' = [lane EXCEPT ![l] = IdleLane]
  /\ dpc' = <<"dispatch", l>>
  /\ UNCHANGED <<queue, stopping, decodeVars, rpcVars, prefillVars>>

\* The lane's request is done with; its pages go back to P.
HandBack(l) ==
  /\ lane' = [lane EXCEPT ![l] = [request |-> NoRequest, prefill |-> "none",
                                  releasing |-> "start", handoff |-> @.request]]
  /\ dpc' = <<"dispatch", l>>

\* No decoding: the client cancelled, or the first token ends the sentence.
NothingToDecode(l) ==
  LET r == lane[l].request IN
  /\ AtResult(l) /\ Fresh(l)
  /\ \/ Result(l) \in {"ok", "eos"} /\ Cancelled(r)
     \/ Result(l) = "eos"
  /\ Finish(r, FALSE)
  /\ HandBack(l)
  /\ UNCHANGED <<queue, stopping, decodeVars, rpcVars, prefillVars>>

ReadyToCopy(l) ==
  AtResult(l) /\ Fresh(l) /\ Result(l) = "ok" /\ ~ Cancelled(lane[l].request)

\* copy_shared_kv: destination pages are reserved, the copy goes on D's stream.
CopyBegins(l) ==
  /\ ReadyToCopy(l)
  /\ context' = [context EXCEPT ![lane[l].request] = Prompt[lane[l].request]]
  /\ dpc' = <<"copy", l>>
  /\ UNCHANGED <<clientVars, lane, admissionVars, decoding, finished, stopped,
                 rpcVars, prefillVars>>

\* It throws before the copy: identity, epoch or layout mismatch, no pages.
CopyRejected(l) ==
  /\ ReadyToCopy(l)
  /\ Finish(lane[l].request, TRUE)
  /\ HandBack(l)
  /\ UNCHANGED <<queue, stopping, decodeVars, rpcVars, prefillVars>>

Generated(r) == context[r] - Prompt[r] + 1

\* emit looks for a cancellation before it ends the handle at a stop sequence;
\* one that comes in between still makes the outcome "cancelled".
Emits(r) == handle[r] \in {"open", "cancelling"}

\* The stream is synchronised, the first token emitted, the request decoded on.
\* With one output token the decoder finishes it at once.
CopyEnds(l) ==
  LET r == lane[l].request IN
  /\ dpc = <<"copy", l>>
  /\ decoding' = decoding \cup {r}
  /\ \/ UNCHANGED <<handle, stopped>>
     \/ /\ Emits(r)      \* the first token completes a stop sequence
        /\ handle' = [handle EXCEPT ![r] = Outcome(r, FALSE)]
        /\ stopped' = stopped \cup {r}
  /\ IF Generated(r) >= Output[r]
     THEN /\ finished' = finished \cup {[request |-> r, failed |-> FALSE]}
          /\ context' = [context EXCEPT ![r] = 0]
     ELSE UNCHANGED <<finished, context>>
  /\ HandBack(l)
  /\ UNCHANGED <<queue, stopping, admissionVars, rpcVars, prefillVars>>

CommitFails(l) ==
  LET r == lane[l].request IN
  /\ dpc = <<"copy", l>>
  /\ context' = [context EXCEPT ![r] = 0]
  /\ Finish(r, TRUE)
  /\ HandBack(l)
  /\ UNCHANGED <<queue, stopping, decoding, finished, stopped, rpcVars, prefillVars>>

-----------------------------------------------------------------------------
(* D, one lane: the next request. *)

After(l) == IF l = 0 THEN <<"result", 1>> ELSE <<"sweep">>
LaneBusy(l) == lane[l].prefill # "none" \/ lane[l].releasing # "none"

DispatchBusy(l) ==
  /\ dpc = <<"dispatch", l>> /\ LaneBusy(l)
  /\ dpc' = After(l)
  /\ UNCHANGED <<clientVars, lane, admissionVars, decodeVars, rpcVars, prefillVars>>

\* The queue without the cancelled requests at its front.
Pruned(l) ==
  LET q == queue[l]
      first == Min({k \in 1..(Len(q) + 1) : k > Len(q) \/ ~ Cancelled(q[k])})
  IN  SubSeq(q, first, Len(q))

PrunedHandle(l) ==
  LET kept == Len(Pruned(l))
      gone == {queue[l][k] : k \in 1..(Len(queue[l]) - kept)}
  IN  [r \in Request |-> IF r \in gone THEN Outcome(r, FALSE) ELSE handle[r]]

Dispatching(l) == dpc = <<"dispatch", l>> /\ ~ LaneBusy(l) /\ dpc' = After(l)

\* Nothing is queued, or the head waits for room in its lane.
HeadWaits(l) ==
  LET q == Pruned(l) IN
  /\ Dispatching(l)
  /\ q # <<>> => FitsRequest(Head(q)) /\ ~ CanAcquire(Head(q))
  /\ queue' = [queue EXCEPT ![l] = q]
  /\ handle' = PrunedHandle(l)
  /\ UNCHANGED <<stopping, lane, admissionVars, decodeVars, rpcVars, prefillVars>>

HeadTooLarge(l) ==
  LET q == Pruned(l) IN
  /\ Dispatching(l)
  /\ q # <<>> /\ ~ FitsRequest(Head(q))
  /\ queue' = [queue EXCEPT ![l] = Tail(q)]
  /\ handle' = [PrunedHandle(l) EXCEPT ![Head(q)] = Outcome(Head(q), TRUE)]
  /\ UNCHANGED <<stopping, lane, admissionVars, decodeVars, rpcVars, prefillVars>>

\* Mutant of HeadDispatched: the slot is not counted.
HeadUncounted(l) ==
  LET q == Pruned(l)
      r == Head(q)
  IN
  /\ Dispatching(l)
  /\ q # <<>> /\ CanAcquire(r)
  /\ queue' = [queue EXCEPT ![l] = Tail(q)]
  /\ handle' = PrunedHandle(l)
  /\ lane' = [lane EXCEPT ![l].request = r, ![l].prefill = "start"]
  /\ UNCHANGED <<stopping, admissionVars, decodeVars, rpcVars, prefillVars>>

HeadDispatched(l) ==
  LET q == Pruned(l)
      r == Head(q)
  IN
  /\ Dispatching(l)
  /\ q # <<>> /\ CanAcquire(r)
  /\ queue' = [queue EXCEPT ![l] = Tail(q)]
  /\ handle' = PrunedHandle(l)
  /\ active' = [active EXCEPT ![l] = @ + 1]
  /\ used' = [used EXCEPT ![l] = @ + Charge(r)]
  /\ lane' = [lane EXCEPT ![l].request = r, ![l].prefill = "start"]
  /\ UNCHANGED <<stopping, decodeVars, rpcVars, prefillVars>>

-----------------------------------------------------------------------------
(* D, the batch. *)

Running == decoding \ {f.request : f \in finished}

\* Cancelled and stopped requests leave the decoder, their pages are freed.
Sweep ==
  LET out == {r \in Running : Cancelled(r) \/ r \in stopped} IN
  /\ dpc = <<"sweep">>
  /\ finished' = finished \cup {[request |-> r, failed |-> TRUE] : r \in out}
  /\ context' = [r \in Request |-> IF r \in out THEN 0 ELSE context[r]]
  /\ dpc' = <<"decode">>
  /\ UNCHANGED <<clientVars, lane, admissionVars, decoding, stopped, rpcVars, prefillVars>>

\* One token for every running request: an ordinary one, the end of the
\* sentence, or one that completes a stop sequence.
DecodeStep ==
  \E token \in [Running -> {"text", "eos", "stop"}] :
    LET stops == {r \in Running : token[r] = "stop"}
        ends == {r \in Running : token[r] = "eos" \/ Generated(r) + 1 >= Output[r]}
    IN
    /\ dpc = <<"decode">>
    /\ \A r \in stops : Emits(r)
    /\ handle' = [r \in Request |-> IF r \in stops THEN Outcome(r, FALSE) ELSE handle[r]]
    /\ stopped' = stopped \cup stops
    /\ finished' = finished \cup {[request |-> r, failed |-> FALSE] : r \in ends}
    /\ context' = [r \in Request |->
         IF r \in ends THEN 0 ELSE IF r \in Running THEN context[r] + 1 ELSE context[r]]
    /\ dpc' = <<"reap">>
    /\ UNCHANGED <<queue, stopping, lane, admissionVars, decoding, rpcVars, prefillVars>>

\* pop_finished; then the loop ends, waits for work, or goes round.
Reap ==
  /\ dpc = <<"reap">>
  /\ FinishAll(finished)
  /\ decoding' = Running
  /\ finished' = {}
  /\ dpc' = IF Running # {} \/ (\E l \in Lane : LaneBusy(l) \/ queue[l] # <<>>)
            THEN <<"result", 0>>
            ELSE IF stopping THEN <<"stopped">> ELSE <<"wait">>
  /\ UNCHANGED <<queue, stopping, lane, stopped, context, rpcVars, prefillVars>>

\* Mutant of Wake: stop() does not end the wait.
WakeForWork ==
  /\ dpc = <<"wait">> /\ \E l \in Lane : queue[l] # <<>>
  /\ dpc' = <<"result", 0>>
  /\ UNCHANGED <<clientVars, lane, admissionVars, decodeVars, rpcVars, prefillVars>>

Wake ==
  /\ dpc = <<"wait">> /\ (stopping \/ \E l \in Lane : queue[l] # <<>>)
  /\ dpc' = <<"result", 0>>
  /\ UNCHANGED <<clientVars, lane, admissionVars, decodeVars, rpcVars, prefillVars>>

-----------------------------------------------------------------------------
(* D's asynchronous exchanges. *)

Alive == dpc # <<"dead">>

Send(l, type, r) ==
  chan' = [chan EXCEPT ![l] = [type |-> type, request |-> r, answer |-> "none"]]

PrefillStarts(l) ==
  /\ Alive /\ lane[l].prefill = "start"
  /\ Send(l, "submit", lane[l].request)
  /\ lane' = [lane EXCEPT ![l].prefill = "submitting"]
  /\ UNCHANGED <<clientVars, dpc, admissionVars, decodeVars, orphan, prefillVars>>

\* Between two polls the thread looks whether the client has cancelled.
PrefillChecks(l) ==
  LET type == IF Cancelled(lane[l].request) THEN "cancel" ELSE "poll" IN
  /\ Alive /\ lane[l].prefill = "check"
  /\ Send(l, type, lane[l].request)
  /\ lane' = [lane EXCEPT ![l].prefill =
                IF type = "cancel" THEN "cancelling" ELSE "polling"]
  /\ UNCHANGED <<clientVars, dpc, admissionVars, decodeVars, orphan, prefillVars>>

Answered(l) == Alive /\ chan[l].type # "none" /\ chan[l].answer # "none"

PrefillAnswered(l) ==
  LET answer == chan[l].answer IN
  /\ Answered(l) /\ chan[l].type \in {"submit", "poll", "cancel"}
  /\ lane' = [lane EXCEPT ![l].prefill =
       CASE answer = "error" -> "error"
         [] chan[l].type = "submit" \/ answer = "notready" -> "check"
         [] chan[l].type = "cancel" -> "cancelled"
         [] OTHER -> answer]
  /\ chan' = [chan EXCEPT ![l] = Silent]
  /\ UNCHANGED <<clientVars, dpc, admissionVars, decodeVars, orphan, prefillVars>>

ReleaseStarts(l) ==
  /\ Alive /\ lane[l].releasing = "start"
  /\ Send(l, "release", lane[l].handoff)
  /\ lane' = [lane EXCEPT ![l].releasing = "waiting"]
  /\ UNCHANGED <<clientVars, dpc, admissionVars, decodeVars, orphan, prefillVars>>

ReleaseAnswered(l) ==
  /\ Answered(l) /\ chan[l].type = "release"
  /\ lane' = [lane EXCEPT ![l].releasing = IF chan[l].answer = "ok" THEN "done" ELSE "error"]
  /\ chan' = [chan EXCEPT ![l] = Silent]
  /\ UNCHANGED <<clientVars, dpc, admissionVars, decodeVars, orphan, prefillVars>>

\* No answer within engine_zmq_timeout_ms; P may have served the request, may
\* serve it yet, or never.
Timeout(l) ==
  /\ Alive /\ chan[l].type # "none" /\ (l \in Lossy \/ ~ up[l])
  /\ lane' = [lane EXCEPT ![l] =
       IF chan[l].type = "release" THEN [@ EXCEPT !.releasing = "lost"]
                                   ELSE [@ EXCEPT !.prefill = "lost"]]
  /\ orphan' = [orphan EXCEPT ![l] = IF chan[l].answer = "none" THEN chan[l] ELSE @]
  /\ chan' = [chan EXCEPT ![l] = Silent]
  /\ UNCHANGED <<clientVars, dpc, admissionVars, decodeVars, prefillVars>>

-----------------------------------------------------------------------------
(* P: RemotePrefillBatchWorker. *)

JobsAt(l, state) == {r \in Request : LaneOf[r] = l /\ job[r] = state}
ReadyJob(r) == job[r] \in {"failed", "eos", "ok"}
Free(R) == src' = [r \in Request |-> IF r \in R THEN "none" ELSE src[r]]

\* What serving m does to P; submit, cancel and release wait for the batch
\* under way (exec_mu_).
Effect(l, m) ==
  LET r == m.request IN
  /\ m.type # "poll" => JobsAt(l, "inflight") = {}
  /\ UNCHANGED computed
  /\ \/ /\ m.type = "submit"
        /\ job' = [job EXCEPT ![r] = "waiting"]
        /\ UNCHANGED src
     \/ /\ m.type = "poll"     \* a ready request is forgotten, its pages stay
        /\ job' = [job EXCEPT ![r] = IF ReadyJob(r) THEN "none" ELSE @]
        /\ UNCHANGED src
     \/ /\ m.type = "cancel"
        /\ job' = [job EXCEPT ![r] = "none"]
        /\ Free(IF job[r] = "none" THEN {} ELSE {r})
     \/ /\ m.type = "release"
        /\ UNCHANGED job
        /\ Free({r} \cap {q \in Request : src[q] = "retained"})

Reply(m) ==
  IF m.type # "poll" THEN "ok"
  ELSE CASE ReadyJob(m.request) -> job[m.request]
         [] job[m.request] = "none" -> "error"
         [] OTHER -> "notready"

Serve(l) ==
  /\ up[l] /\ chan[l].type # "none" /\ chan[l].answer = "none"
  /\ Effect(l, chan[l])
  /\ chan' = [chan EXCEPT ![l].answer = Reply(chan[l])]
  /\ UNCHANGED <<clientVars, dpc, lane, admissionVars, decodeVars, orphan, up>>

ServeOrphan(l) ==
  /\ up[l] /\ orphan[l] # Silent
  /\ Effect(l, orphan[l])
  /\ orphan' = [orphan EXCEPT ![l] = Silent]
  /\ UNCHANGED <<clientVars, dpc, lane, admissionVars, decodeVars, chan, up>>

\* The batch thread takes a chunk of every waiting prompt; pages are appended.
BatchStarts(l) ==
  LET R == JobsAt(l, "waiting") IN
  /\ up[l] /\ R # {} /\ JobsAt(l, "inflight") = {}
  /\ job' = [r \in Request |-> IF r \in R THEN "inflight" ELSE job[r]]
  /\ src' = [r \in Request |-> IF r \in R THEN "filling" ELSE src[r]]
  /\ UNCHANGED <<clientVars, dpc, lane, admissionVars, decodeVars, rpcVars, computed, up>>

\* The forward pass fails: every request of the batch fails and is freed.
BatchFails(l) ==
  LET R == JobsAt(l, "inflight") IN
  /\ up[l] /\ R # {}
  /\ job' = [r \in Request |-> IF r \in R THEN "failed" ELSE job[r]]
  /\ Free(R)
  /\ UNCHANGED <<clientVars, dpc, lane, admissionVars, decodeVars, rpcVars, computed, up>>

\* It succeeds: a prompt still incomplete waits for its next chunk; a complete
\* one has a first token and its pages are retained, or it has none and fails.
BatchEnds(l) ==
  LET R == JobsAt(l, "inflight")
      next(r) == Min({Prompt[r], computed[r] + PrefillChunk})
      complete == {r \in R : next(r) = Prompt[r]}
  IN
  /\ up[l] /\ R # {}
  /\ computed' = [r \in Request |-> IF r \in R THEN next(r) ELSE computed[r]]
  /\ \E result \in [complete -> {"ok", "eos", "failed"}] :
       /\ job' = [r \in Request |-> IF r \in complete THEN result[r]
                                    ELSE IF r \in R THEN "waiting" ELSE job[r]]
       /\ src' = [r \in Request |-> IF r \notin complete THEN src[r]
                                    ELSE IF result[r] = "failed" THEN "none" ELSE "retained"]
  /\ UNCHANGED <<clientVars, dpc, lane, admissionVars, decodeVars, rpcVars, up>>

\* Mutant of WorkerStops: P is shut down before D.
WorkerStopsFirst(l) ==
  /\ up[l] /\ stopping /\ JobsAt(l, "inflight") = {}
  /\ up' = [up EXCEPT ![l] = FALSE]
  /\ job' = [r \in Request |-> IF LaneOf[r] = l THEN "none" ELSE job[r]]
  /\ Free({r \in Request : LaneOf[r] = l})
  /\ UNCHANGED <<clientVars, dpc, lane, admissionVars, decodeVars, rpcVars, computed>>

\* The supervisor shuts P down after D: every page P holds is freed.
WorkerStops(l) ==
  /\ up[l] /\ dpc \in {<<"stopped">>, <<"dead">>} /\ JobsAt(l, "inflight") = {}
  /\ up' = [up EXCEPT ![l] = FALSE]
  /\ job' = [r \in Request |-> IF LaneOf[r] = l THEN "none" ELSE job[r]]
  /\ Free({r \in Request : LaneOf[r] = l})
  /\ UNCHANGED <<clientVars, dpc, lane, admissionVars, decodeVars, rpcVars, computed>>

\* P dies; the owner keeps its pages.
WorkerDies(l) ==
  /\ l \in Lossy /\ up[l]
  /\ up' = [up EXCEPT ![l] = FALSE]
  /\ UNCHANGED <<clientVars, dpc, lane, admissionVars, decodeVars, rpcVars, job, computed, src>>

-----------------------------------------------------------------------------
Decode ==
  \/ \E l \in Lane :
       \/ ReleaseSettled(l) \/ NoResult(l) \/ Fatal(l) \/ PrefillFailed(l)
       \/ NothingToDecode(l) \/ CopyBegins(l) \/ CopyRejected(l)
       \/ CopyEnds(l) \/ CommitFails(l)
       \/ DispatchBusy(l) \/ HeadWaits(l) \/ HeadTooLarge(l) \/ HeadDispatched(l)
  \/ Sweep \/ DecodeStep \/ Reap \/ Wake

Exchange(l) ==
  \/ PrefillStarts(l) \/ PrefillChecks(l) \/ PrefillAnswered(l)
  \/ ReleaseStarts(l) \/ ReleaseAnswered(l)

Batch(l) == BatchStarts(l) \/ BatchFails(l) \/ BatchEnds(l)

Next ==
  \/ \E r \in Request : Submit(r) \/ Cancel(r)
  \/ Stop \/ Decode
  \/ \E l \in Lane : \/ Exchange(l) \/ Timeout(l) \/ Serve(l) \/ ServeOrphan(l)
                     \/ Batch(l) \/ WorkerStops(l) \/ WorkerDies(l)

Spec == Init /\ [][Next]_vars

\* The threads of both processes are scheduled, P's loops run while it lives,
\* and a receive ends after its timeout.
FairSpec ==
  /\ Spec /\ WF_vars(Decode)
  /\ \A l \in Lane : /\ WF_vars(Exchange(l)) /\ WF_vars(Serve(l))
                     /\ WF_vars(Batch(l)) /\ WF_vars(Timeout(l))

-----------------------------------------------------------------------------
TypeOK ==
  /\ queue \in [Lane -> Seq(Request)]
  /\ handle \in [Request -> {"new", "open", "cancelling"} \cup Terminal]
  /\ stopping \in BOOLEAN
  /\ \A l \in Lane :
       /\ lane[l].request \in Request \cup {NoRequest}
       /\ lane[l].handoff \in Request \cup {NoRequest}
  /\ active \in [Lane -> Nat] /\ used \in [Lane -> Nat]
  /\ decoding \subseteq Request /\ stopped \subseteq Request
  /\ finished \subseteq [request : Request, failed : BOOLEAN]
  /\ context \in [Request -> Nat] /\ computed \in [Request -> Nat]
  /\ src \in [Request -> {"none", "filling", "retained"}]
  /\ up \in [Lane -> BOOLEAN]

\* While D's copy reads P's pages they hold the whole prompt and P has not
\* freed them, whatever cancels, times out or shuts down meanwhile.
SourceOutlivesCopy ==
  \A l \in Lane : dpc = <<"copy", l>> =>
    LET r == lane[l].request IN src[r] = "retained" /\ computed[r] = Prompt[r]

\* Requests that hold a slot of lane l.
Admitted(l) == ({lane[l].request} \cup {r \in decoding : LaneOf[r] = l}) \ {NoRequest}

\* Every admitted request is released exactly once: the counters are those of
\* the requests in the lane, whichever of the many exits a request takes.
AdmissionExact ==
  \A l \in Lane : /\ active[l] = Cardinality(Admitted(l))
                  /\ used[l] = ChargeOf(Admitted(l))

Pages(tokens) == ((tokens + Block - 1) \div Block) * Block

\* The KV D holds for a lane fits what the lane was promised, and the promise
\* its quota: a decode step never lacks a page and never preempts.
PromiseCovers ==
  \A l \in Lane :
    /\ MapThenSumSet(LAMBDA r : Pages(context[r]), {r \in Request : LaneOf[r] = l}) <= used[l]
    /\ used[l] <= Tokens[l]
    /\ active[l] <= Slots[l]

\* D knows every request P still holds pages of, until D dies: none leaks
\* through a cancellation, a failed copy or a poll that took the result.
SourcesTraced ==
  Alive => \A r \in Request : src[r] # "none" =>
    r \in {lane[LaneOf[r]].request, lane[LaneOf[r]].handoff}

\* Both: what a lane counts is what it promised, and covers what it holds.
AdmissionSound == AdmissionExact /\ PromiseCovers

\* P never answers D with an error: D stops the domain only for an answer that
\* did not come, never because P has forgotten what D asks about.
NoRpcError == \A l \in Lane : "error" \notin {lane[l].prefill, lane[l].releasing}

\* All three: P neither frees nor forgets what D still needs of it.
SourcesHeld == SourceOutlivesCopy /\ SourcesTraced /\ NoRpcError

\* A request that has ended keeps its outcome, though finish runs again for a
\* request that a stop sequence has completed; one whose client cancelled in
\* time ends as cancelled, whatever exit of the loop it takes.
OutcomeIsFinal ==
  [][\A r \in Request :
       /\ handle[r] \in Terminal => handle'[r] = handle[r]
       /\ handle[r] = "cancelling" => handle'[r] \in {"cancelling", "cancelled"}]_vars

\* Every submitted request ends unless the domain fails.
RequestEnds ==
  \A r \in Request :
    (handle[r] \in {"open", "cancelling"}) ~> (handle[r] \in Terminal \/ ~ Alive)

\* P gets back every page it holds for D unless the domain fails.
SourceComesBack ==
  \A r \in Request : (src[r] # "none") ~> (src[r] = "none" \/ ~ Alive)

\* stop() returns: the loop drains what was submitted and ends.
StopReturns == stopping ~> (dpc \in {<<"stopped">>, <<"dead">>})

\* All three: whatever the loop has begun comes to an end.
LoopDrains == RequestEnds /\ SourceComesBack /\ StopReturns
=============================================================================
