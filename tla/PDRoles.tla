------------------------------ MODULE PDRoles ------------------------------
(* The multi-role deployment: the coordinator (ProductionPDCoordinator) takes *)
(* a request through the language role P that prefills and the language role  *)
(* D that decodes.  A role reads commands from a pipe, answers a cancel at    *)
(* once and queues the others for one owner thread.  Every submit runs on a   *)
(* thread of its own and waits for one command at a time, until the deadline  *)
(* of its request: what it gives up stays in the queue of the role.           *)
EXTENDS Integers, Sequences, FiniteSets, FiniteSetsExt, TLC

CONSTANTS
  Request,        \* request generations
  Id, Generation, \* of each
  Demand,         \* of each, the KV blocks it reserves on P and on D
  Pages,          \* of each, the KV pages its prompt fills on P
  Capacity,       \* of each role, KV blocks of its memory budget
  QueueCapacity,  \* commands a role queues
  Hasty,          \* bound: requests whose deadline, or a wait of whose reclaim,
                  \* may pass
  Fickle          \* bound: requests whose client may cancel

Role == {"P", "D"}

ASSUME RoleAssumption ==
  /\ Generation \in [Request -> Nat \ {0}] /\ DOMAIN Id = Request
  /\ \A r, s \in Request : Id[r] = Id[s] /\ Generation[r] = Generation[s] => r = s
  /\ Demand \in [Role -> [Request -> Nat \ {0}]] /\ Capacity \in [Role -> Nat]
  /\ Pages \in [Request -> Nat] /\ \A r \in Request : Pages[r] <= Demand["P"][r]
  /\ QueueCapacity \in Nat \ {0} /\ "none" \notin Request
  /\ Hasty \subseteq Request /\ Fickle \subseteq Request

VARIABLES
  stage,      \* of each submit: the command it waits for, or where it stands
  answer,     \* what its command was answered
  reserved,   \* roles whose reservation it has to give back
  handoff,    \* it has called pd_prefill and read the answer
  outcome,    \* its terminal state
  clean,      \* no command of its reclaim failed
  offered,    \* submits that have sent their pd_decode
  late,       \* its deadline has passed
  flagged,    \* the coordinator has accepted a cancel of it
  telling,    \* roles that a cancel of it has still to reach
  queue,      \* of each role: commands not begun
  running,    \* of each role: the prefill or decode its owner thread is in
  used,       \* of each role: blocks of the budget that are taken
  resv,       \* of each role: requests with a reservation
  cancelled,  \* of each role: requests a cancel has reached
  admitted,   \* requests P has begun to prefill
  holds,      \* handoffs P keeps
  kv,         \* requests whose pages are live on P
  published   \* handoffs the data service has

subVars == <<stage, answer, reserved, handoff, outcome, clean, offered>>
clientVars == <<late, flagged, telling>>
roleVars == <<running, used, resv, cancelled, admitted, holds, kv, published>>
vars == <<subVars, clientVars, queue, roleVars>>

Idle == [op |-> "idle", request |-> "none"]

Init ==
  /\ stage = [r \in Request |-> "new"] /\ answer = [r \in Request |-> "none"]
  /\ reserved = [r \in Request |-> {}] /\ handoff = [r \in Request |-> FALSE]
  /\ outcome = [r \in Request |-> "none"] /\ clean = [r \in Request |-> TRUE]
  /\ offered = {}
  /\ late = [r \in Request |-> FALSE] /\ flagged = [r \in Request |-> FALSE]
  /\ telling = [r \in Request |-> <<>>]
  /\ queue = [w \in Role |-> <<>>] /\ running = [w \in Role |-> Idle]
  /\ used = [w \in Role |-> 0] /\ resv = [w \in Role |-> {}]
  /\ cancelled = [w \in Role |-> {}] /\ admitted = {}
  /\ holds = {} /\ kv = {} /\ published = {}

-----------------------------------------------------------------------------
(* The coordinator. *)

Working == {"encode", "probe", "pd_reserve D", "pd_reserve P", "pd_prefill", "pd_decode"}
Reclaiming == {"pd_unreserve P", "pd_unreserve D", "pd_release"}
Active(r) == stage[r] \in Working \cup Reclaiming \cup {"cancel", "reclaim"}
Waits(r) == stage[r] \in (Working \ {"encode"}) \cup Reclaiming

\* Mutant of Call: a full queue drops the command without an answer.
CallDropped(r, w, op) ==
  /\ stage' = [stage EXCEPT ![r] = op] /\ UNCHANGED outcome
  /\ queue' = [queue EXCEPT ![w] = IF Len(@) < QueueCapacity
                                   THEN Append(@, [op |-> op, request |-> r]) ELSE @]
  /\ answer' = [answer EXCEPT ![r] = "none"]

\* The submit of r sends op to role w and waits: the reader thread of the role
\* queues the command, or refuses it when the queue is full.
Call(r, w, op) ==
  /\ stage' = [stage EXCEPT ![r] = op] /\ UNCHANGED outcome
  /\ IF Len(queue[w]) < QueueCapacity
     THEN /\ queue' = [queue EXCEPT ![w] = Append(@, [op |-> op, request |-> r])]
          /\ answer' = [answer EXCEPT ![r] = "none"]
     ELSE /\ answer' = [answer EXCEPT ![r] = "full"]
          /\ UNCHANGED queue

ReserveOp == [w \in Role |-> IF w = "P" THEN "pd_reserve P" ELSE "pd_reserve D"]
UnreserveOp == [w \in Role |-> IF w = "P" THEN "pd_unreserve P" ELSE "pd_unreserve D"]

\* The submit of r ends with the terminal state o; it first cancels the roles
\* when it ends because the deadline has passed.
Ends(r, o, next) ==
  /\ outcome' = [outcome EXCEPT ![r] = o]
  /\ stage' = [stage EXCEPT ![r] = next]
  /\ UNCHANGED <<answer, queue>>

\* What an exception out of the deadline check or of a timed out call does.
Expires(r) ==
  /\ Ends(r, "timed_out", "cancel")
  /\ flagged' = [flagged EXCEPT ![r] = TRUE]
  /\ telling' = [telling EXCEPT ![r] = IF stage[r] = "encode" THEN <<>> ELSE <<"P", "D">>]

\* _check_active, then the next call, which needs time to be left.
Proceed(r, w, op) ==
  \/ /\ flagged[r] /\ Ends(r, "cancelled", "reclaim") /\ UNCHANGED <<flagged, telling>>
  \/ /\ ~ flagged[r] /\ late[r] /\ Expires(r)
  \/ /\ ~ flagged[r] /\ ~ late[r] /\ Call(r, w, op) /\ UNCHANGED <<flagged, telling>>

\* The terminal state of a submit whose command was answered with an error.
Verdict(r) ==
  IF flagged[r] \/ answer[r] = "cancelled" THEN "cancelled"
  ELSE IF late[r] \/ answer[r] = "deadline" THEN "timed_out" ELSE "failed"

Submit(r) ==
  /\ stage[r] = "new"
  /\ \/ /\ \E s \in Request : Id[s] = Id[r] /\ Generation[s] >= Generation[r]
                              /\ stage[s] # "new"
        /\ Ends(r, "rejected", "done")
     \/ /\ \A s \in Request : Id[s] = Id[r] /\ Generation[s] >= Generation[r] =>
                                stage[s] = "new"
        /\ stage' = [stage EXCEPT ![r] = "encode"]
        /\ UNCHANGED <<answer, outcome, queue>>
  /\ UNCHANGED <<reserved, handoff, clean, offered, clientVars, roleVars>>

\* The vision role has encoded the request, and the roles are chosen.
Encoded(r) ==
  /\ stage[r] = "encode" /\ Proceed(r, "P", "probe")
  /\ UNCHANGED <<reserved, handoff, clean, offered, late, roleVars>>

VisionFails(r) ==
  /\ stage[r] = "encode"
  /\ Ends(r, Verdict(r), "reclaim")
  /\ UNCHANGED <<reserved, handoff, clean, offered, clientVars, roleVars>>

Answered(r, op) == stage[r] = op /\ answer[r] = "ok"

\* P has room: D reserves first, then P.
Probed(r) ==
  /\ Answered(r, "probe")
  /\ IF late[r] THEN Expires(r)
     ELSE Call(r, "D", ReserveOp["D"]) /\ UNCHANGED <<flagged, telling>>
  /\ UNCHANGED <<reserved, handoff, clean, offered, late, roleVars>>

\* Mutant of DecodeReserved: the reservation is recorded when P has made its own.
DecodeUnrecorded(r) ==
  /\ Answered(r, "pd_reserve D") /\ Proceed(r, "P", ReserveOp["P"])
  /\ UNCHANGED <<reserved, handoff, clean, offered, late, roleVars>>

DecodeReserved(r) ==
  /\ Answered(r, "pd_reserve D")
  /\ reserved' = [reserved EXCEPT ![r] = {"D"}]
  /\ Proceed(r, "P", ReserveOp["P"])
  /\ UNCHANGED <<handoff, clean, offered, late, roleVars>>

PrefillReserved(r) ==
  /\ Answered(r, "pd_reserve P")
  /\ reserved' = [reserved EXCEPT ![r] = {"P", "D"}]
  /\ Proceed(r, "P", "pd_prefill")
  /\ UNCHANGED <<handoff, clean, offered, late, roleVars>>

Prefilled(r) ==
  /\ Answered(r, "pd_prefill")
  /\ reserved' = [reserved EXCEPT ![r] = {"D"}]
  /\ handoff' = [handoff EXCEPT ![r] = TRUE]
  /\ Proceed(r, "D", "pd_decode")
  /\ offered' = IF stage'[r] = "pd_decode" THEN offered \cup {r} ELSE offered
  /\ UNCHANGED <<clean, late, roleVars>>

Decoded(r) ==
  /\ Answered(r, "pd_decode")
  /\ reserved' = [reserved EXCEPT ![r] = {}]
  /\ \/ /\ flagged[r] /\ Ends(r, "cancelled", "reclaim") /\ UNCHANGED <<flagged, telling>>
     \/ /\ ~ flagged[r] /\ late[r] /\ Expires(r)
     \/ /\ ~ flagged[r] /\ ~ late[r] /\ Ends(r, "finished", "reclaim")
        /\ UNCHANGED <<flagged, telling>>
  /\ UNCHANGED <<handoff, clean, offered, late, roleVars>>

\* An error: the reservation of the role that answered is no longer given back,
\* and the answer of a failed pd_prefill counts as a handoff.
Refused(r) ==
  /\ stage[r] \in Working /\ answer[r] \notin {"none", "ok"}
  /\ reserved' = [reserved EXCEPT ![r] = CASE stage[r] = "pd_prefill" -> @ \ {"P"}
                                           [] stage[r] = "pd_decode" -> @ \ {"D"}
                                           [] OTHER -> @]
  /\ handoff' = [handoff EXCEPT ![r] = @ \/ stage[r] = "pd_prefill"]
  /\ Ends(r, Verdict(r), "reclaim")
  /\ UNCHANGED <<clean, offered, clientVars, roleVars>>

\* No answer by the deadline: all reservations are given back that no answer
\* has said to be used.
TimesOut(r) ==
  /\ Waits(r) /\ stage[r] \in Working /\ answer[r] = "none" /\ late[r]
  /\ Expires(r)
  /\ UNCHANGED <<reserved, handoff, clean, offered, late, roleVars>>

\* Mutant of Reclaim: the handoff is given back first.
ReleaseFirst(r) ==
  /\ stage[r] = "reclaim" \/ (stage[r] = "cancel" /\ telling[r] = <<>>)
  /\ \/ /\ handoff[r] /\ Call(r, "P", "pd_release")
        /\ handoff' = [handoff EXCEPT ![r] = FALSE] /\ UNCHANGED <<reserved, flagged>>
     \/ \E w \in reserved[r] :
          /\ ~ handoff[r] /\ Call(r, w, UnreserveOp[w])
          /\ reserved' = [reserved EXCEPT ![r] = @ \ {w}] /\ UNCHANGED <<handoff, flagged>>
     \/ /\ reserved[r] = {} /\ ~ handoff[r]
        /\ stage' = [stage EXCEPT ![r] = "done"]
        /\ flagged' = [flagged EXCEPT ![r] = FALSE]
        /\ UNCHANGED <<answer, outcome, queue, reserved, handoff>>
  /\ UNCHANGED <<clean, offered, late, telling, roleVars>>

\* The finally block.
Reclaim(r) ==
  /\ stage[r] = "reclaim" \/ (stage[r] = "cancel" /\ telling[r] = <<>>)
  /\ \/ /\ "P" \in reserved[r] /\ Call(r, "P", UnreserveOp["P"])
        /\ reserved' = [reserved EXCEPT ![r] = @ \ {"P"}] /\ UNCHANGED <<handoff, flagged>>
     \/ /\ reserved[r] = {"D"} /\ Call(r, "D", UnreserveOp["D"])
        /\ reserved' = [reserved EXCEPT ![r] = {}] /\ UNCHANGED <<handoff, flagged>>
     \/ /\ reserved[r] = {} /\ handoff[r] /\ Call(r, "P", "pd_release")
        /\ handoff' = [handoff EXCEPT ![r] = FALSE] /\ UNCHANGED <<reserved, flagged>>
     \/ /\ reserved[r] = {} /\ ~ handoff[r]
        /\ stage' = [stage EXCEPT ![r] = "done"]
        /\ flagged' = [flagged EXCEPT ![r] = FALSE]
        /\ UNCHANGED <<answer, outcome, queue, reserved, handoff>>
  /\ UNCHANGED <<clean, offered, late, telling, roleVars>>

\* A command of the finally block was answered, or ten seconds have passed.
Reclaimed(r) ==
  /\ stage[r] \in Reclaiming /\ (answer[r] # "none" \/ r \in Hasty)
  /\ clean' = [clean EXCEPT ![r] = @ /\ answer[r] = "ok"]
  /\ stage' = [stage EXCEPT ![r] = "reclaim"]
  /\ UNCHANGED <<answer, reserved, handoff, outcome, offered, clientVars, queue, roleVars>>

SubmitStep(r) ==
  \/ Encoded(r) \/ VisionFails(r) \/ Probed(r) \/ DecodeReserved(r)
  \/ PrefillReserved(r) \/ Prefilled(r) \/ Decoded(r) \/ Refused(r)
  \/ TimesOut(r) \/ Reclaim(r) \/ Reclaimed(r)

-----------------------------------------------------------------------------
(* Clients and clocks. *)

\* cancel of an active generation: the roles it is placed on are told in turn.
Cancel(r) ==
  /\ Active(r) /\ r \in Fickle /\ ~ flagged[r]
  /\ flagged' = [flagged EXCEPT ![r] = TRUE]
  /\ telling' = [telling EXCEPT ![r] = IF stage[r] = "encode" THEN <<>> ELSE <<"P", "D">>]
  /\ UNCHANGED <<subVars, late, queue, roleVars>>

\* The reader thread of a role takes the cancel, unless it knows of a later
\* generation; earlier ones are cancelled with it.
CancelReaches(r) ==
  LET w == Head(telling[r])
      known == w = "P" /\ \E s \in admitted : Id[s] = Id[r] /\ Generation[s] > Generation[r]
  IN
  /\ telling[r] # <<>>
  /\ telling' = [telling EXCEPT ![r] = Tail(@)]
  /\ cancelled' = [cancelled EXCEPT ![w] =
       IF known THEN @
       ELSE @ \cup {s \in Request : Id[s] = Id[r] /\ Generation[s] <= Generation[r]}]
  /\ UNCHANGED <<subVars, late, flagged, queue, running, used, resv, admitted,
                 holds, kv, published>>

DeadlinePasses(r) ==
  /\ Active(r) /\ r \in Hasty /\ ~ late[r]
  /\ late' = [late EXCEPT ![r] = TRUE]
  /\ UNCHANGED <<subVars, flagged, telling, queue, roleVars>>

-----------------------------------------------------------------------------
(* The owner threads of the roles. *)

\* The answer to op of r is status; nobody hears it when the submit has given
\* the command up.
Answers(op, r, status) ==
  answer' = [answer EXCEPT ![r] = IF stage[r] = op /\ @ = "none" THEN status ELSE @]

\* The owner of w is free and takes op of r from its queue.
Takes(w, op, r) ==
  /\ running[w] = Idle /\ queue[w] # <<>>
  /\ Head(queue[w]) = [op |-> op, request |-> r]
  /\ queue' = [queue EXCEPT ![w] = Tail(@)]

Free(w) == Capacity[w] - used[w]
Subtract(w, r) == used' = [used EXCEPT ![w] = @ - Demand[w][r]]

\* A command uses the reservation of r; one that is gone is an error.
ConsumePDReservation(w, r) ==
  r \in resv[w] /\ resv' = [resv EXCEPT ![w] = @ \ {r}]

\* P has seen neither this generation of the request nor a later one.
AdmitGeneration(r) == \A s \in admitted : Id[s] = Id[r] => Generation[s] < Generation[r]

\* probe: is there room now?  That it may also fail changes nothing else: an
\* error and a refusal are the same to the submit.
Probe(r) ==
  /\ Takes("P", "probe", r)
  /\ Answers("probe", r, IF Free("P") >= Demand["P"][r] THEN "ok" ELSE "refused")
  /\ UNCHANGED roleVars

\* pd_reserve: all or nothing from the budget.  A submit sends it once, so the
\* branch that finds an earlier reservation is never taken.
PDReserve(w, r) ==
  /\ Takes(w, ReserveOp[w], r)
  /\ \/ /\ late[r] /\ Answers(ReserveOp[w], r, "deadline") /\ UNCHANGED <<used, resv>>
     \/ /\ ~ late[r] /\ r \in cancelled[w]
        /\ Answers(ReserveOp[w], r, "cancelled") /\ UNCHANGED <<used, resv>>
     \/ /\ ~ late[r] /\ r \notin cancelled[w] /\ Free(w) < Demand[w][r]
        /\ Answers(ReserveOp[w], r, "refused") /\ UNCHANGED <<used, resv>>
     \/ /\ ~ late[r] /\ r \notin cancelled[w] /\ Free(w) >= Demand[w][r]
        /\ used' = [used EXCEPT ![w] = @ + Demand[w][r]]
        /\ resv' = [resv EXCEPT ![w] = @ \cup {r}]
        /\ Answers(ReserveOp[w], r, "ok")
  /\ UNCHANGED <<running, cancelled, admitted, holds, kv, published>>

PDUnreserve(w, r) ==
  /\ Takes(w, UnreserveOp[w], r)
  /\ IF r \in resv[w]
     THEN Subtract(w, r) /\ resv' = [resv EXCEPT ![w] = @ \ {r}]
     ELSE UNCHANGED <<used, resv>>
  /\ Answers(UnreserveOp[w], r, "ok")
  /\ UNCHANGED <<running, cancelled, admitted, holds, kv, published>>

PagesLeft == Capacity["P"] - SumFunctionOnSet(Pages, kv)

\* pd_prefill that throws before it has used its reservation: a later
\* generation was here, or the bundle is gone.
PrefillTurnedAway(r) ==
  /\ Takes("P", "pd_prefill", r)
  /\ admitted' = IF AdmitGeneration(r) THEN admitted \cup {r} ELSE admitted
  /\ Answers("pd_prefill", r, "failed")
  /\ UNCHANGED <<running, used, resv, cancelled, holds, kv, published>>

\* Mutant of PrefillBegins: the reservation is not erased.
PrefillKeepsReservation(r) ==
  /\ Takes("P", "pd_prefill", r)
  /\ AdmitGeneration(r) /\ admitted' = admitted \cup {r} /\ r \in resv["P"]
  /\ IF late[r] \/ PagesLeft < Pages[r]
     THEN /\ Subtract("P", r) /\ Answers("pd_prefill", r, "failed")
          /\ UNCHANGED <<running, kv>>
     ELSE /\ running' = [running EXCEPT !["P"] = [op |-> "forward", request |-> r]]
          /\ kv' = kv \cup {r}
          /\ UNCHANGED <<used, answer>>
  /\ UNCHANGED <<resv, cancelled, holds, published>>

\* pd_prefill uses its reservation, unless it has expired, and computes the
\* prompt, unless there are no pages for it.
PrefillBegins(r) ==
  /\ Takes("P", "pd_prefill", r)
  /\ AdmitGeneration(r) /\ admitted' = admitted \cup {r}
  /\ ConsumePDReservation("P", r)
  /\ IF late[r] \/ PagesLeft < Pages[r]
     THEN /\ Subtract("P", r) /\ Answers("pd_prefill", r, "failed")
          /\ UNCHANGED <<running, kv>>
     ELSE /\ running' = [running EXCEPT !["P"] = [op |-> "forward", request |-> r]]
          /\ kv' = kv \cup {r}
          /\ UNCHANGED <<used, answer>>
  /\ UNCHANGED <<cancelled, holds, published>>

\* Mutant of PrefillThrows: no handler gives the budget back.
PrefillThrowsOnly(r) ==
  /\ running["P"].request = r
  /\ Answers("pd_prefill", r, "failed")
  /\ running' = [running EXCEPT !["P"] = Idle]
  /\ UNCHANGED <<queue, used, resv, cancelled, admitted, holds, kv, published>>

\* The forward pass or the export fails, or the request was cancelled or is late
\* after the forward pass; the budget is given back, the pages are not.
PrefillThrows(r) ==
  /\ running["P"].request = r
  /\ Subtract("P", r)
  /\ Answers("pd_prefill", r,
             IF running["P"].op = "export" THEN "failed"
             ELSE IF r \in cancelled["P"] THEN "cancelled"
             ELSE IF late[r] THEN "deadline" ELSE "failed")
  /\ running' = [running EXCEPT !["P"] = Idle]
  /\ UNCHANGED <<queue, resv, cancelled, admitted, holds, kv, published>>

PrefillExports(r) ==
  /\ running["P"] = [op |-> "forward", request |-> r]
  /\ r \notin cancelled["P"] /\ ~ late[r]
  /\ running' = [running EXCEPT !["P"] = [op |-> "export", request |-> r]]
  /\ UNCHANGED <<answer, queue, used, resv, cancelled, admitted, holds, kv, published>>

\* The data service has sealed the handoff: P holds the pages for D, also when
\* writing down its device memory then throws.
PrefillHands(r) ==
  /\ running["P"] = [op |-> "export", request |-> r]
  /\ holds' = holds \cup {r} /\ published' = published \cup {r}
  /\ \E status \in {"ok", "failed"} : Answers("pd_prefill", r, status)
  /\ running' = [running EXCEPT !["P"] = Idle]
  /\ UNCHANGED <<queue, used, resv, cancelled, admitted, kv>>

PDRelease(r) ==
  /\ Takes("P", "pd_release", r)
  /\ IF r \in holds
     THEN /\ Subtract("P", r) /\ holds' = holds \ {r} /\ kv' = kv \ {r}
          /\ published' = published \ {r}
          /\ Answers("pd_release", r, "ok")
     ELSE /\ Answers("pd_release", r, "failed")
          /\ UNCHANGED <<used, holds, kv, published>>
  /\ UNCHANGED <<running, resv, cancelled, admitted>>

\* pd_decode that throws before it has used its reservation.
DecodeTurnedAway(r) ==
  /\ Takes("D", "pd_decode", r)
  /\ late[r] \/ r \in cancelled["D"] \/ r \notin resv["D"]
  /\ Answers("pd_decode", r, IF late[r] THEN "deadline"
                             ELSE IF r \in cancelled["D"] THEN "cancelled" ELSE "failed")
  /\ UNCHANGED roleVars

\* pd_decode uses its reservation and attaches the pages of the handoff, unless
\* the data service refuses the lease or the attach.
DecodeBegins(r) ==
  /\ Takes("D", "pd_decode", r)
  /\ ~ late[r] /\ r \notin cancelled["D"] /\ ConsumePDReservation("D", r)
  /\ \/ /\ r \in published
        /\ running' = [running EXCEPT !["D"] = [op |-> "decode", request |-> r]]
        /\ UNCHANGED <<answer, used>>
     \/ Subtract("D", r) /\ Answers("pd_decode", r, "failed") /\ UNCHANGED running
  /\ UNCHANGED <<cancelled, admitted, holds, kv, published>>

\* The decode ends, is aborted between two tokens or fails; detached, its growth
\* is given back.
DecodeEnds(r) ==
  /\ running["D"] = [op |-> "decode", request |-> r]
  /\ \/ r \in cancelled["D"] /\ Answers("pd_decode", r, "cancelled")
     \/ late[r] /\ Answers("pd_decode", r, "deadline")
     \/ Answers("pd_decode", r, "ok") \/ Answers("pd_decode", r, "failed")
  /\ Subtract("D", r)
  /\ running' = [running EXCEPT !["D"] = Idle]
  /\ UNCHANGED <<queue, resv, cancelled, admitted, holds, kv, published>>

OwnerStep(w) ==
  /\ \E r \in Request :
       \/ PDReserve(w, r) \/ PDUnreserve(w, r)
       \/ /\ w = "P"
          /\ \/ Probe(r) \/ PrefillTurnedAway(r) \/ PrefillBegins(r)
             \/ PrefillThrows(r) \/ PrefillExports(r) \/ PrefillHands(r) \/ PDRelease(r)
       \/ /\ w = "D"
          /\ DecodeTurnedAway(r) \/ DecodeBegins(r) \/ DecodeEnds(r)
  /\ UNCHANGED <<stage, reserved, handoff, outcome, clean, offered, clientVars>>

Next ==
  \/ \E r \in Request :
       Submit(r) \/ SubmitStep(r) \/ Cancel(r) \/ CancelReaches(r) \/ DeadlinePasses(r)
  \/ \E w \in Role : OwnerStep(w)

Spec == Init /\ [][Next]_vars

\* A submit goes on when it is answered, a cancel reaches the roles, and the
\* owner threads work off their queues.
FairSpec ==
  /\ Spec
  /\ \A r \in Request : WF_vars(SubmitStep(r)) /\ WF_vars(CancelReaches(r))
  /\ \A w \in Role : WF_vars(OwnerStep(w))

-----------------------------------------------------------------------------
(* Properties. *)

Stages == Working \cup Reclaiming \cup {"new", "cancel", "reclaim", "done"}
Outcomes == {"none", "finished", "cancelled", "failed", "timed_out", "rejected"}
Statuses == {"none", "ok", "full", "refused", "failed", "cancelled", "deadline"}

\* Every variable has its type.
TypeOK ==
  /\ stage \in [Request -> Stages] /\ answer \in [Request -> Statuses]
  /\ reserved \in [Request -> SUBSET Role] /\ outcome \in [Request -> Outcomes]
  /\ \A f \in {handoff, clean, late, flagged} : f \in [Request -> BOOLEAN]
  /\ \A r \in Request : telling[r] \in {<<>>, <<"D">>, <<"P", "D">>}
  /\ \A w \in Role :
       /\ Len(queue[w]) <= QueueCapacity
       /\ used[w] \in 0..Capacity[w]
       /\ resv[w] \cup cancelled[w] \subseteq Request
  /\ offered \cup admitted \cup holds \cup kv \cup published \subseteq Request

Busy(w) == {r \in Request : running[w].request = r}

\* The budget of a role is what its reservations, its running command and its
\* handoffs have taken: none is counted twice or given back twice, whatever a
\* late command finds when it is served.
BudgetExact ==
  \A w \in Role :
    LET kept == IF w = "P" THEN holds ELSE {} IN
    /\ used[w] = SumFunctionOnSet(Demand[w], resv[w] \cup Busy(w) \cup kept)
    /\ resv[w] \cap Busy(w) = {} /\ (resv[w] \cup Busy(w)) \cap kept = {}

\* D reads the pages of a handoff only while P holds them, also when the submit
\* has given its decode up: the reclaim first waits for D to give a reservation
\* back, which D does behind the decode.  Only if that wait ends without an
\* answer (and the submit records an error) may P free the pages under D.
SourceHeld ==
  \A r \in Busy("D") : clean[r] => r \in holds \cap kv \cap published

\* A submit that was in time and reclaimed without an error has left nothing on
\* either role, but for its reservation on D if it has sent its decode and got an
\* error for it: the coordinator takes the reservation for used, also when D was
\* told of a cancel first or had no room in its queue.
NothingLeft ==
  \A r \in Request :
    stage[r] = "done" /\ clean[r] /\ ~ late[r] =>
      /\ r \notin holds \cup kv \cup published \cup resv["P"] \cup Busy("P") \cup Busy("D")
      /\ r \in resv["D"] => r \in offered /\ outcome[r] # "finished"

\* Every submit returns.
SubmitReturns == \A r \in Request : Active(r) ~> stage[r] = "done"
=============================================================================
