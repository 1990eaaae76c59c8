---------------------------- MODULE SplitPD_proofs ----------------------------
(***************************************************************************)
(* Proofs about the split prefill / decode loop, for any requests, prompt  *)
(* and output lengths, page and chunk sizes and lane capacities, and for   *)
(* either P dying or answering late: the type invariant, that a source     *)
(* page outlives its copy and is always known to D, that the counters of a *)
(* lane are those of its requests and cover their tokens, and that an      *)
(* outcome is final.                                                       *)
(***************************************************************************)
EXTENDS SplitPD, SetLemmas, SequenceTheorems

-----------------------------------------------------------------------------
(* The inductive invariant.  Where a request is: it is queued, or in a lane,  *)
(* or in the decoder, and never in two of these.                             *)

PrefillStates == {"none", "start", "submitting", "check", "polling", "cancelling",
                  "ok", "eos", "failed", "cancelled", "lost"}
ReleaseStates == {"none", "start", "waiting", "done", "lost"}
Types == {"submit", "poll", "cancel", "release"}
Message == [type : Types, request : Request,
            answer : {"none", "ok", "error", "notready", "failed", "eos"}]
LaneRecord == [request : Request \cup {NoRequest}, prefill : PrefillStates,
               releasing : ReleaseStates, handoff : Request \cup {NoRequest}]

Places == {<<"sweep">>, <<"decode">>, <<"reap">>, <<"wait">>, <<"stopped">>, <<"dead">>}
          \cup {<<"result", l>> : l \in Lane} \cup {<<"dispatch", l>> : l \in Lane}
          \cup {<<"copy", l>> : l \in Lane}

\* TypeOK and the types of what TypeOK leaves open.
Typed ==
  /\ TypeOK
  /\ lane \in [Lane -> LaneRecord]
  /\ dpc \in Places
  /\ chan \in [Lane -> {Silent} \cup Message]
  /\ DOMAIN orphan = Lane
  /\ job \in [Request -> {"none", "waiting", "inflight", "failed", "eos", "ok"}]

\* A lane prefills a request, or has a request's pages released, or is idle.
LaneShape(l) ==
  LET x == lane[l] IN
  /\ x.prefill = "none" <=> x.request = NoRequest
  /\ x.releasing = "none" <=> x.handoff = NoRequest
  /\ x.request = NoRequest \/ x.handoff = NoRequest
  /\ x.request \in Request => LaneOf[x.request] = l
  /\ x.handoff \in Request => LaneOf[x.handoff] = l

InLane(r) == r = lane[LaneOf[r]].request
InQueue(r) == \E i \in 1..Len(queue[LaneOf[r]]) : queue[LaneOf[r]][i] = r
Leaving(r) == r = lane[LaneOf[r]].handoff

QueueShape(l) ==
  \A i \in 1..Len(queue[l]) :
    /\ LaneOf[queue[l][i]] = l
    /\ \A j \in 1..Len(queue[l]) : queue[l][i] = queue[l][j] => i = j

\* Where r is agrees with the state of its handle.
Placed(r) ==
  /\ handle[r] = "new" => ~ InQueue(r) /\ ~ InLane(r) /\ ~ Leaving(r) /\ r \notin decoding
  /\ InQueue(r) => ~ InLane(r) /\ ~ Leaving(r) /\ r \notin decoding
  /\ InLane(r) => r \notin decoding

Placement ==
  /\ \A l \in Lane : LaneShape(l) /\ QueueShape(l)
  /\ \A r \in Request : Placed(r)

-----------------------------------------------------------------------------
(* What D believes of an exchange and what P has done agree.                 *)

Gone(r) == job[r] = "none" /\ src[r] = "none"
Held(r) == job[r] = "none" /\ src[r] = "retained" /\ computed[r] = Prompt[r]

\* P works on the prompt of r, or has a result for D.
Working(r) ==
  \/ job[r] = "waiting" /\ src[r] \in {"none", "filling"}
  \/ job[r] = "inflight" /\ src[r] = "filling"
  \/ job[r] = "failed" /\ src[r] = "none"
  \/ job[r] \in {"eos", "ok"} /\ src[r] = "retained" /\ computed[r] = Prompt[r]

\* An exchange of this type is under way, and its answer, if there is one, is
\* one of these.
Asked(l, type, r, answers) ==
  /\ chan[l].type = type /\ chan[l].request = r
  /\ chan[l].answer \in {"none"} \cup answers
Unserved(l) == chan[l].answer = "none"

PrefillAgrees(l) ==
  LET r == lane[l].request
      at == lane[l].prefill
  IN
  /\ at = "start" => chan[l] = Silent /\ Gone(r)
  /\ at = "submitting" =>
       Asked(l, "submit", r, {"ok"}) /\ IF Unserved(l) THEN Gone(r) ELSE Working(r)
  /\ at = "check" => chan[l] = Silent /\ Working(r)
  /\ at = "polling" =>
       /\ Asked(l, "poll", r, {"notready", "failed", "eos", "ok"})
       /\ CASE chan[l].answer \in {"none", "notready"} -> Working(r)
            [] chan[l].answer = "failed" -> Gone(r)
            [] chan[l].answer \in {"eos", "ok"} -> Held(r)
  /\ at = "cancelling" =>
       Asked(l, "cancel", r, {"ok"}) /\ IF Unserved(l) THEN Working(r) ELSE Gone(r)
  /\ at \in {"ok", "eos"} => chan[l] = Silent /\ Held(r)
  /\ at \in {"failed", "cancelled"} => chan[l] = Silent /\ Gone(r)

ReleaseAgrees(l) ==
  LET r == lane[l].handoff
      at == lane[l].releasing
  IN
  /\ at = "start" => chan[l] = Silent /\ Held(r)
  /\ at = "waiting" =>
       Asked(l, "release", r, {"ok"}) /\ IF Unserved(l) THEN Held(r) ELSE Gone(r)
  /\ at = "done" => chan[l] = Silent /\ Gone(r)

\* A lane that lost an answer keeps its request until D gives up; what P may
\* still serve late is about that request.
LostAgrees(l) ==
  LET x == lane[l] IN
  /\ ~ LaneBusy(l) => chan[l] = Silent
  /\ "lost" \in {x.prefill, x.releasing} => chan[l] = Silent
  /\ orphan[l] # Silent => /\ "lost" \in {x.prefill, x.releasing}
                           /\ orphan[l].request \in {x.request, x.handoff} \ {NoRequest}

\* P has nothing of a request that is in no lane.
Agreement ==
  /\ \A l \in Lane : PrefillAgrees(l) /\ ReleaseAgrees(l) /\ LostAgrees(l)
  /\ \A r \in Request : ~ InLane(r) /\ ~ Leaving(r) => Gone(r)
  /\ dpc = <<"stopped">> => \A l \in Lane : ~ LaneBusy(l)

-----------------------------------------------------------------------------
(* What D holds and what it has promised.                                    *)

Copying(r) == dpc = <<"copy", LaneOf[r]>> /\ InLane(r)

Contexts ==
  /\ \A f \in finished : f.request \in decoding
  /\ \A l \in Lane : dpc = <<"copy", l>> => lane[l].prefill = "ok"
  /\ \A r \in Request :
       IF r \in Running THEN context[r] \in Prompt[r]..(Prompt[r] + Output[r] - 2)
       ELSE context[r] = IF Copying(r) THEN Prompt[r] ELSE 0

Promised == \A l \in Lane : active[l] <= Slots[l] /\ used[l] <= Tokens[l]

IInv ==
  /\ Typed
  /\ Placement
  /\ Alive => Agreement
  /\ Contexts
  /\ AdmissionExact
  /\ Promised

-----------------------------------------------------------------------------
(* Where D's loop is.                                                        *)

\* The places of D's loop are distinct.
LEMMA PlacesApart ==
  ASSUME NEW k \in Lane, NEW l \in Lane
  PROVE  /\ <<"copy", k>> # <<"result", l>> /\ <<"copy", k>> # <<"dispatch", l>>
         /\ <<"result", k>> # <<"dispatch", l>>
         /\ (<<"copy", k>> = <<"copy", l>> => k = l)
         /\ \A s \in STRING : /\ <<s>> # <<"copy", l>> /\ <<s>> # <<"result", l>>
                              /\ <<s>> # <<"dispatch", l>>
         /\ <<"dead">> # <<"stopped">> /\ <<"dead">> # <<"wait">>
OBVIOUS

\* Where the loop goes after dispatching a lane.
LEMMA AfterIsPlace ==
  ASSUME NEW l \in Lane
  PROVE  /\ After(l) \in Places /\ After(l) # <<"dead">> /\ After(l) # <<"stopped">>
         /\ \A k \in Lane : After(l) # <<"copy", k>>
BY DEF After, Places, Lane

\* The places of D's loop that belong to a lane.
LEMMA MovedOn ==
  ASSUME NEW l \in Lane
  PROVE  /\ <<"dispatch", l>> \in Places /\ <<"copy", l>> \in Places
         /\ <<"result", l>> \in Places
BY DEF Places

-----------------------------------------------------------------------------
(* Frames: what keeps each part of the invariant.                            *)

\* A request only moves forward: from the client into the queue, from there
\* into its lane, and from the lane to the decoder or to the release.
Moves(r) ==
  /\ handle'[r] = "new" => handle[r] = "new"
  /\ InQueue(r)' => InQueue(r) \/ (handle[r] = "new" /\ handle'[r] # "new")
  /\ InLane(r)' => InLane(r) \/ (InQueue(r) /\ ~ InQueue(r)')
  /\ Leaving(r)' => Leaving(r) \/ InLane(r)
  /\ r \in decoding' => r \in decoding \/ (InLane(r) /\ ~ InLane(r)')

\* Requests that move forward stay in one place each.
LEMMA PlacementStep ==
  ASSUME Placement, \A r \in Request : Moves(r),
         \A l \in Lane : LaneShape(l)' /\ QueueShape(l)'
  PROVE  Placement'
<1>1. ASSUME NEW r \in Request
      PROVE  Placed(r)'
  <2>1. Placed(r) /\ Moves(r)
    BY DEF Placement
  <2>2. QED
    BY <2>1 DEF Placed, Moves
<1>2. QED
  BY <1>1 DEF Placement

\* Lane l is as idle, and about the same requests, as before.
SameRequests(l) ==
  /\ lane'[l].request = lane[l].request /\ lane'[l].handoff = lane[l].handoff
  /\ lane'[l].prefill = "none" <=> lane[l].prefill = "none"
  /\ lane'[l].releasing = "none" <=> lane[l].releasing = "none"

\* The shape of a lane depends on nothing else.
LEMMA LaneShapeFrame ==
  ASSUME NEW l \in Lane, LaneShape(l), SameRequests(l)
  PROVE  LaneShape(l)'
BY DEF LaneShape, SameRequests

\* Steps that move no request.
LEMMA PlacementFrame ==
  ASSUME Placement, \A l \in Lane : SameRequests(l),
         queue' = queue, decoding' = decoding,
         \A r \in Request : handle'[r] = "new" => handle[r] = "new"
  PROVE  Placement'
<1>1. ASSUME NEW l \in Lane
      PROVE  LaneShape(l)' /\ QueueShape(l)'
  BY LaneShapeFrame DEF Placement, QueueShape
<1>2. ASSUME NEW r \in Request
      PROVE  Moves(r)
  <2>1. SameRequests(LaneOf[r])
    BY RequestAssumption
  <2>2. InQueue(r)' => InQueue(r)
    BY DEF InQueue
  <2>3. (InLane(r)' => InLane(r)) /\ (Leaving(r)' => Leaving(r))
    BY <2>1 DEF InLane, Leaving, SameRequests
  <2>4. QED
    BY <2>2, <2>3 DEF Moves
<1>3. QED
  BY <1>1, <1>2, PlacementStep

\* Lane k and its exchange are as before, and so is what P has of r.
SameLane(k) == lane'[k] = lane[k] /\ chan'[k] = chan[k] /\ orphan'[k] = orphan[k]
SameJob(r) == job'[r] = job[r] /\ src'[r] = src[r] /\ computed'[r] = computed[r]

\* A lane and its P keep agreeing while neither is touched.
LEMMA AgreesElsewhere ==
  ASSUME NEW k \in Lane, lane \in [Lane -> LaneRecord], LaneShape(k), SameLane(k),
         \A r \in Request : LaneOf[r] = k => SameJob(r),
         PrefillAgrees(k), ReleaseAgrees(k), LostAgrees(k)
  PROVE  PrefillAgrees(k)' /\ ReleaseAgrees(k)' /\ LostAgrees(k)'
<1> DEFINE r == lane[k].request
           h == lane[k].handoff
<1>1. /\ lane[k].prefill # "none" => r \in Request /\ SameJob(r)
      /\ lane[k].releasing # "none" => h \in Request /\ SameJob(h)
  BY RequestAssumption DEF LaneShape, LaneRecord
<1>2. PrefillAgrees(k)'
  <2>1. /\ lane'[k] = lane[k] /\ chan'[k] = chan[k] /\ (Unserved(k)' <=> Unserved(k))
    BY DEF SameLane, Unserved
  <2>2. ASSUME lane[k].prefill # "none"
        PROVE  (Gone(r)' <=> Gone(r)) /\ (Held(r)' <=> Held(r)) /\ (Working(r)' <=> Working(r))
    BY <1>1, <2>1, <2>2 DEF SameJob, Gone, Held, Working
  <2>3. QED
    BY <2>1, <2>2 DEF PrefillAgrees, Asked
<1>3. ReleaseAgrees(k)'
  BY <1>1 DEF SameLane, SameJob, ReleaseAgrees, Asked, Unserved, Gone, Held
<1>4. LostAgrees(k)'
  BY DEF SameLane, LostAgrees, LaneBusy
<1>5. QED
  BY <1>2, <1>3, <1>4

\* A step of lane l and its P leaves the other lane and its P alone.
OnlyLane(l) ==
  /\ \A k \in Lane : k # l => SameLane(k)
  /\ \A r \in Request : LaneOf[r] # l => SameJob(r)

\* It is then enough to look at lane l.
LEMMA AgreementStep ==
  ASSUME NEW l \in Lane, Typed, Placement, Agreement, OnlyLane(l),
         PrefillAgrees(l)', ReleaseAgrees(l)', LostAgrees(l)',
         \A r \in Request : LaneOf[r] = l /\ ~ InLane(r)' /\ ~ Leaving(r)' => Gone(r)',
         dpc' = <<"stopped">> => dpc = <<"stopped">> /\ ~ LaneBusy(l)'
  PROVE  Agreement'
<1>1. ASSUME NEW k \in Lane
      PROVE  PrefillAgrees(k)' /\ ReleaseAgrees(k)' /\ LostAgrees(k)'
  <2>1. CASE k = l
    BY <2>1
  <2>2. CASE k # l
    BY <2>2, AgreesElsewhere DEF Typed, Placement, Agreement, OnlyLane
  <2>3. QED
    BY <2>1, <2>2
<1>2. ASSUME NEW r \in Request, ~ InLane(r)', ~ Leaving(r)'
      PROVE  Gone(r)'
  <2>1. CASE LaneOf[r] = l
    BY <1>2, <2>1
  <2>2. CASE LaneOf[r] # l
    <3>1. SameLane(LaneOf[r]) /\ SameJob(r)
      BY <2>2, RequestAssumption DEF OnlyLane
    <3>2. ~ InLane(r) /\ ~ Leaving(r)
      BY <1>2, <3>1 DEF SameLane, InLane, Leaving
    <3>3. QED
      BY <3>1, <3>2 DEF Agreement, Gone, SameJob
  <2>3. QED
    BY <2>1, <2>2
<1>3. ASSUME dpc' = <<"stopped">>, NEW k \in Lane
      PROVE  ~ LaneBusy(k)'
  BY <1>3 DEF Agreement, OnlyLane, SameLane, LaneBusy
<1>4. QED
  BY <1>1, <1>2, <1>3 DEF Agreement

\* Steps that touch neither a lane, nor an exchange, nor P.
LEMMA AgreementFrame ==
  ASSUME Agreement, UNCHANGED <<lane, chan, orphan, job, src, computed>>,
         dpc' = <<"stopped">> => \A l \in Lane : ~ LaneBusy(l)
  PROVE  Agreement'
<1>1. ASSUME NEW l \in Lane
      PROVE  PrefillAgrees(l)' /\ ReleaseAgrees(l)' /\ LostAgrees(l)'
  <2>1. PrefillAgrees(l)'
    <3> DEFINE r == lane[l].request
    <3>1. /\ (Gone(r)' <=> Gone(r)) /\ (Held(r)' <=> Held(r))
          /\ (Working(r)' <=> Working(r)) /\ (Unserved(l)' <=> Unserved(l))
      BY DEF Gone, Held, Working, Unserved
    <3>2. PrefillAgrees(l)
      BY DEF Agreement
    <3>3. QED
      BY <3>1, <3>2 DEF PrefillAgrees, Asked
  <2>2. ReleaseAgrees(l)'
    BY DEF Agreement, ReleaseAgrees, Asked, Unserved, Gone, Held
  <2>3. LostAgrees(l)'
    BY DEF Agreement, LostAgrees, LaneBusy
  <2>4. QED
    BY <2>1, <2>2, <2>3
<1>2. \A r \in Request : ~ InLane(r)' /\ ~ Leaving(r)' => Gone(r)'
  BY DEF Agreement, InLane, Leaving, Gone
<1>3. dpc' = <<"stopped">> => \A l \in Lane : ~ LaneBusy(l)'
  BY DEF LaneBusy
<1>4. QED
  BY <1>1, <1>2, <1>3 DEF Agreement

\* Steps that leave the decoder alone and begin or end no copy.
LEMMA ContextsFrame ==
  ASSUME Contexts, UNCHANGED <<decoding, finished, context>>,
         \A l \in Lane : dpc' = <<"copy", l>> <=> dpc = <<"copy", l>>,
         \A l \in Lane : dpc = <<"copy", l>> => lane'[l] = lane[l]
  PROVE  Contexts'
<1>1. Running' = Running
  BY DEF Running
<1>2. ASSUME NEW r \in Request
      PROVE  Copying(r)' = Copying(r)
  <2>1. LaneOf[r] \in Lane
    BY RequestAssumption
  <2>2. Copying(r)' <=> Copying(r)
    BY <2>1 DEF Copying, InLane
  <2>3. QED
    BY <2>2 DEF Copying
<1>3. QED
  BY <1>1, <1>2 DEF Contexts

\* Steps that admit and release no request.
LEMMA AdmissionFrame ==
  ASSUME AdmissionExact, Promised, UNCHANGED admissionVars,
         \A l \in Lane : Admitted(l)' = Admitted(l)
  PROVE  AdmissionExact' /\ Promised'
BY DEF AdmissionExact, Promised, admissionVars, ChargeOf

\* Where requests are decides who is admitted.
LEMMA AdmittedFrame ==
  ASSUME \A l \in Lane : lane'[l].request = lane[l].request, decoding' = decoding
  PROVE  \A l \in Lane : Admitted(l)' = Admitted(l)
BY DEF Admitted

-----------------------------------------------------------------------------
(* The handle: every way out of the loop settles it once.                    *)

\* No handle changes but by finish, for a request that has been submitted.
Settles ==
  /\ DOMAIN handle' = Request
  /\ handle' = [r \in DOMAIN handle' |-> handle'[r]]
  /\ \A r \in Request :
       \/ handle'[r] = handle[r]
       \/ handle[r] # "new" /\ handle'[r] \in {Outcome(r, TRUE), Outcome(r, FALSE)}

\* What OutcomeIsFinal says of one step.
Final ==
  \A r \in Request :
    /\ handle[r] \in Terminal => handle'[r] = handle[r]
    /\ handle[r] = "cancelling" => handle'[r] \in {"cancelling", "cancelled"}

HandleStates == {"new", "open", "cancelling"} \cup Terminal

\* finish leaves a terminal state, and the one it finds if it is terminal; a
\* request cancelled in time is cancelled.
LEMMA OutcomeEnds ==
  ASSUME NEW r \in Request, handle[r] \in HandleStates, handle[r] # "new",
         NEW b \in BOOLEAN
  PROVE  /\ Outcome(r, b) \in Terminal
         /\ handle[r] \in Terminal => Outcome(r, b) = handle[r]
         /\ handle[r] = "cancelling" => Outcome(r, b) = "cancelled"
BY DEF Outcome, HandleStates, Terminal

\* So no step that settles handles changes an outcome or forgets a cancellation.
LEMMA SettlesIsFinal ==
  ASSUME handle \in [Request -> HandleStates], Settles
  PROVE  /\ handle' \in [Request -> HandleStates]
         /\ \A r \in Request : handle'[r] = "new" => handle[r] = "new"
         /\ Final
<1>1. ASSUME NEW r \in Request
      PROVE  /\ handle'[r] \in HandleStates
             /\ handle'[r] = "new" => handle[r] = "new"
             /\ handle[r] \in Terminal => handle'[r] = handle[r]
             /\ handle[r] = "cancelling" => handle'[r] \in {"cancelling", "cancelled"}
  <2>1. CASE handle'[r] = handle[r]
    BY <2>1
  <2>2. CASE handle[r] # "new" /\ handle'[r] \in {Outcome(r, TRUE), Outcome(r, FALSE)}
    <3>1. PICK b \in BOOLEAN : handle'[r] = Outcome(r, b)
      BY <2>2
    <3>2. handle'[r] \in Terminal
      BY <2>2, <3>1, OutcomeEnds
    <3>3. /\ handle[r] \in Terminal => handle'[r] = handle[r]
          /\ handle[r] = "cancelling" => handle'[r] = "cancelled"
      BY <2>2, <3>1, OutcomeEnds
    <3>4. QED
      BY <3>2, <3>3 DEF HandleStates, Terminal
  <2>3. QED
    BY <2>1, <2>2 DEF Settles
<1>2. QED
  BY <1>1 DEF Settles, Final

\* A step that leaves every handle alone settles none.
LEMMA NothingSettles ==
  ASSUME handle \in [Request -> HandleStates], handle' = handle
  PROVE  Settles
BY DEF Settles

\* What finish settles.
LEMMA FinishSettles ==
  ASSUME handle \in [Request -> HandleStates], NEW F,
         \A f \in F : f.request \in Request /\ f.failed \in BOOLEAN,
         \A f \in F : handle[f.request] # "new",
         FinishAll(F)
  PROVE  Settles
<1> DEFINE failed(f) == f.failed /\ ~ Cancelled(f.request) /\ f.request \notin stopped
           the(r) == CHOOSE f \in F : f.request = r
<1>1. handle' = [r \in Request |->
        IF \E f \in F : f.request = r THEN Outcome(r, failed(the(r))) ELSE handle[r]]
  BY DEF FinishAll
<1>2. ASSUME NEW r \in Request, NEW f \in F, f.request = r
      PROVE  handle[r] # "new" /\ failed(the(r)) \in BOOLEAN
  <2>1. the(r) \in F
    BY <1>2
  <2>2. QED
    BY <1>2, <2>1
<1> HIDE DEF failed, the
<1>3. ASSUME NEW r \in Request
      PROVE  \/ handle'[r] = handle[r]
             \/ handle[r] # "new" /\ handle'[r] \in {Outcome(r, TRUE), Outcome(r, FALSE)}
  <2>1. CASE \E f \in F : f.request = r
    <3>1. handle[r] # "new" /\ failed(the(r)) \in BOOLEAN
      BY <1>2, <2>1
    <3>2. handle'[r] = Outcome(r, failed(the(r)))
      BY <1>1, <2>1
    <3>3. CASE failed(the(r)) = TRUE
      BY <3>1, <3>2, <3>3
    <3>4. CASE failed(the(r)) = FALSE
      BY <3>1, <3>2, <3>4
    <3>5. QED
      BY <3>1, <3>3, <3>4
  <2>2. CASE ~ \E f \in F : f.request = r
    BY <1>1, <2>2
  <2>3. QED
    BY <2>1, <2>2
<1>4. QED
  BY <1>1, <1>3 DEF Settles

\* The types of the handle and of a lane, as the invariant has them.
LEMMA TypeFacts ==
  ASSUME Typed
  PROVE  /\ handle \in [Request -> HandleStates]
         /\ queue \in [Lane -> Seq(Request)]
         /\ lane \in [Lane -> LaneRecord]
         /\ \A l \in Lane : /\ lane[l].request \in Request \cup {NoRequest}
                            /\ lane[l].handoff \in Request \cup {NoRequest}
                            /\ lane[l].prefill \in PrefillStates
                            /\ lane[l].releasing \in ReleaseStates
BY DEF Typed, TypeOK, HandleStates, LaneRecord

\* A step that only moves D's loop to another place, and neither begins nor
\* ends a copy, nor the loop, nor a life.
LEMMA LoopMoves ==
  ASSUME IInv, dpc' \in Places, dpc' # <<"dead">>, dpc # <<"dead">>, dpc' # <<"stopped">>,
         \A l \in Lane : dpc # <<"copy", l>> /\ dpc' # <<"copy", l>>,
         UNCHANGED <<clientVars, lane, admissionVars, decodeVars, rpcVars, prefillVars>>
  PROVE  IInv' /\ Settles
<1> USE DEF clientVars, admissionVars, decodeVars, rpcVars, prefillVars
<1>1. Typed'
  BY DEF IInv, Typed, TypeOK
<1>2. Placement'
  BY PlacementFrame DEF IInv, SameRequests
<1>3. Agreement'
  BY AgreementFrame DEF IInv, Alive
<1>4. Contexts'
  BY ContextsFrame DEF IInv
<1>5. AdmissionExact' /\ Promised'
  BY AdmissionFrame, AdmittedFrame DEF IInv
<1>6. Settles
  BY NothingSettles, TypeFacts DEF IInv
<1>7. QED
  BY <1>1, <1>2, <1>3, <1>4, <1>5, <1>6 DEF IInv

\* No answer for lane l yet, a busy lane, the end of a wait: the loop goes on.
LEMMA LoopSteps ==
  ASSUME IInv, NEW l \in Lane, NoResult(l) \/ DispatchBusy(l) \/ Wake
  PROVE  IInv' /\ Settles
<1>1. CASE NoResult(l)
  BY <1>1, LoopMoves, PlacesApart, MovedOn DEF NoResult, AtResult
<1>2. CASE DispatchBusy(l)
  BY <1>2, LoopMoves, PlacesApart, AfterIsPlace DEF DispatchBusy
<1>3. CASE Wake
  <2>1. 0 \in Lane
    BY DEF Lane
  <2>2. <<"result", 0>> \in Places
    BY <2>1, MovedOn
  <2>3. \A k \in Lane : <<"wait">> # <<"copy", k>> /\ <<"result", 0>> # <<"copy", k>>
    BY <2>1, PlacesApart
  <2>4. QED
    BY <1>3, <2>2, <2>3, LoopMoves DEF Wake
<1>4. QED
  BY <1>1, <1>2, <1>3

\* A client step touches the queue and the handles only.
LEMMA ClientFrame ==
  ASSUME IInv, UNCHANGED <<dpc, lane, admissionVars, decodeVars, rpcVars, prefillVars>>
  PROVE  /\ Alive' => Agreement'
         /\ Contexts' /\ AdmissionExact' /\ Promised'
<1> USE DEF admissionVars, decodeVars, rpcVars, prefillVars
<1>1. Alive' => Agreement'
  BY AgreementFrame DEF IInv, Alive, Agreement
<1>2. Contexts'
  BY ContextsFrame DEF IInv
<1>3. AdmissionExact' /\ Promised'
  BY AdmissionFrame, AdmittedFrame DEF IInv
<1>4. QED
  BY <1>1, <1>2, <1>3

\* The submitted request is in no place yet, and the last of its queue.
LEMMA SubmitStep ==
  ASSUME IInv, NEW r \in Request, Submit(r)
  PROVE  IInv' /\ Final
<1> DEFINE l == LaneOf[r]
           q == queue[l]
<1>1. /\ l \in Lane /\ q \in Seq(Request) /\ handle[r] = "new"
      /\ handle' = [handle EXCEPT ![r] = "open"]
      /\ queue' = [queue EXCEPT ![l] = Append(q, r)]
      /\ UNCHANGED <<stopping, dpc, lane, admissionVars, decodeVars, rpcVars, prefillVars>>
  BY RequestAssumption, TypeFacts DEF Submit, IInv
<1>2. Typed'
  <2>1. Append(q, r) \in Seq(Request)
    BY <1>1
  <2> HIDE DEF q
  <2>2. QED
    BY <1>1, <2>1 DEF IInv, Typed, TypeOK, admissionVars, decodeVars, rpcVars, prefillVars
<1>3. /\ queue'[l] = Append(q, r)
      /\ \A k \in Lane : k # l => queue'[k] = queue[k]
  BY <1>1, TypeFacts DEF IInv
<1>4. /\ Len(Append(q, r)) = Len(q) + 1 /\ Len(q) \in Nat
      /\ \A i \in 1..Len(q) : Append(q, r)[i] = q[i]
      /\ Append(q, r)[Len(q) + 1] = r
  BY <1>1
<1>5. /\ ~ InQueue(r) /\ ~ InLane(r) /\ ~ Leaving(r) /\ r \notin decoding
  BY <1>1 DEF IInv, Placement, Placed
<1>6. \A i \in 1..Len(q) : q[i] # r
  BY <1>5 DEF InQueue
<1> HIDE DEF q
<1>7. ASSUME NEW k \in Lane
      PROVE  LaneShape(k)' /\ QueueShape(k)'
  <2>1. LaneShape(k) /\ QueueShape(k)
    BY DEF IInv, Placement
  <2>2. LaneShape(k)'
    BY <1>1, <2>1 DEF LaneShape
  <2>3. CASE k # l
    BY <1>3, <2>1, <2>2, <2>3 DEF QueueShape
  <2>4. CASE k = l
    <3>1. \A i \in 1..Len(q) : /\ LaneOf[q[i]] = l
                               /\ \A j \in 1..Len(q) : q[i] = q[j] => i = j
      BY <2>1, <2>4 DEF QueueShape, q
    <3>2. \A i \in 1..(Len(q) + 1) : i \in 1..Len(q) \/ i = Len(q) + 1
      BY <1>4
    <3>3. QED
      BY <1>3, <1>4, <1>6, <2>2, <2>4, <3>1, <3>2, SMTT(40) DEF QueueShape
  <2>5. QED
    BY <2>3, <2>4
<1>8. ASSUME NEW x \in Request
      PROVE  Moves(x)
  <2>1. handle'[x] = "new" => handle[x] = "new" /\ x # r
    BY <1>1, TypeFacts DEF IInv
  <2>2. (InLane(x)' => InLane(x)) /\ (Leaving(x)' => Leaving(x))
    BY <1>1 DEF InLane, Leaving
  <2>3. InQueue(x)' => InQueue(x) \/ x = r
    <3>1. CASE LaneOf[x] # l
      BY <1>3, <3>1, RequestAssumption DEF InQueue
    <3>2. CASE LaneOf[x] = l
      <4>1. \A i \in 1..(Len(q) + 1) : i \in 1..Len(q) \/ i = Len(q) + 1
        BY <1>4
      <4>2. QED
        BY <1>3, <1>4, <3>2, <4>1, SMTT(40) DEF InQueue, q
    <3>3. QED
      BY <3>1, <3>2
  <2>4. x \in decoding' => x \in decoding
    BY <1>1 DEF decodeVars
  <2>5. QED
    BY <1>1, <2>1, <2>2, <2>3, <2>4 DEF Moves
<1>9. Placement'
  BY <1>7, <1>8, PlacementStep DEF IInv
<1>10. Final
  BY <1>1, TypeFacts DEF Final, IInv, Terminal
<1>11. QED
  BY <1>1, <1>2, <1>9, <1>10, ClientFrame DEF IInv

\* A cancellation or a stop only changes what the loop finds later, and a step
\* of the environment nothing.
LEMMA ClientSteps ==
  ASSUME IInv, (\E r \in Request : Cancel(r)) \/ Stop \/ UNCHANGED vars
  PROVE  IInv' /\ Final
<1>1. /\ \/ handle' = handle
         \/ \E r \in Request : /\ handle[r] = "open"
                               /\ handle' = [handle EXCEPT ![r] = "cancelling"]
      /\ stopping' \in BOOLEAN
      /\ UNCHANGED <<queue, dpc, lane, admissionVars, decodeVars, rpcVars, prefillVars>>
  BY DEF Cancel, Stop, IInv, Typed, TypeOK, vars, clientVars
<1>2. handle' \in [Request -> HandleStates]
  BY <1>1, TypeFacts DEF IInv, HandleStates
<1>3. Typed'
  BY <1>1, <1>2 DEF IInv, Typed, TypeOK, HandleStates, admissionVars, decodeVars, rpcVars,
     prefillVars
<1>4. \A x \in Request : handle'[x] = "new" => handle[x] = "new"
  BY <1>1, TypeFacts DEF IInv
<1>5. Placement'
  BY <1>1, <1>4, PlacementFrame DEF IInv, SameRequests, decodeVars
<1>6. Final
  BY <1>1, TypeFacts DEF Final, IInv, Terminal
<1>7. QED
  BY <1>1, <1>3, <1>5, <1>6, ClientFrame DEF IInv

-----------------------------------------------------------------------------
(* Tokens in whole pages, and their sums.                                    *)

\* Products of naturals grow with their factors.
LEMMA TimesGrows ==
  ASSUME NEW a \in Nat, NEW b \in Nat, NEW c \in Nat, a <= b
  PROVE  c * a \in Nat /\ c * a <= c * b /\ c * a = a * c
<1>1. PICK d \in Nat : b = a + d
  <2>1. b - a \in Nat /\ b = a + (b - a)
    OBVIOUS
  <2>2. QED
    BY <2>1
<1>2. c * b = c * a + c * d
  BY <1>1, Z3T(60)
<1>3. c * d \in Nat /\ c * a \in Nat
  BY Z3T(60)
<1>4. c * a = a * c
  BY Z3T(60)
<1>5. QED
  BY <1>2, <1>3, <1>4

\* Whole pages of a number of tokens: a natural, no fewer for more tokens, none
\* for none.
LEMMA PagesGrow ==
  ASSUME NEW m \in Nat, NEW n \in Nat, m <= n
  PROVE  Pages(m) \in Nat /\ Pages(m) <= Pages(n) /\ Pages(0) = 0
<1> DEFINE D(t) == (t + Block - 1) \div Block
<1>1. Block \in Nat /\ Block > 0
  BY CapacityAssumption
<1>2. ASSUME NEW t \in Nat
      PROVE  D(t) \in Nat /\ Block * D(t) <= t + Block - 1 /\ t + Block - 1 < Block * (D(t) + 1)
  BY <1>1, Z3T(60)
<1> HIDE DEF D
<1>3. D(m) <= D(n)
  <2>1. /\ D(m) \in Nat /\ Block * D(m) <= m + Block - 1
        /\ D(n) \in Nat /\ n + Block - 1 < Block * (D(n) + 1)
    BY <1>2
  <2>2. ASSUME D(n) + 1 <= D(m)
        PROVE  FALSE
    <3>1. Block * (D(n) + 1) <= Block * D(m)
      BY <1>1, <2>1, <2>2, TimesGrows
    <3>2. Block * (D(n) + 1) \in Nat /\ Block * D(m) \in Nat
      BY <1>1, <2>1, TimesGrows
    <3>3. QED
      BY <1>1, <2>1, <3>1, <3>2
  <2>3. QED
    BY <2>1, <2>2
<1>4. D(0) = 0
  BY <1>1, <1>2, Z3T(60)
<1>5. Pages(m) = D(m) * Block /\ Pages(n) = D(n) * Block /\ Pages(0) = D(0) * Block
  BY DEF Pages, D
<1>6. D(m) * Block \in Nat /\ D(m) * Block <= D(n) * Block
  <2>1. D(m) \in Nat /\ D(n) \in Nat
    BY <1>2
  <2>2. D(m) * Block = Block * D(m) /\ D(n) * Block = Block * D(n)
    BY <1>1, <2>1, TimesGrows
  <2>3. QED
    BY <1>1, <1>3, <2>1, <2>2, TimesGrows
<1>7. QED
  BY <1>1, <1>4, <1>5, <1>6

\* What each request is charged, and holds, as functions.
Charges == [r \in Request |-> Charge(r)]
Holds == [r \in Request |-> Pages(context[r])]

\* A charge is a natural number of tokens.
LEMMA ChargeNat ==
  ASSUME NEW r \in Request
  PROVE  Charge(r) \in Nat /\ Charge(r) = Pages(Prompt[r] + Output[r]) /\ Charges[r] = Charge(r)
<1>1. Prompt[r] + Output[r] \in Nat
  BY RequestAssumption
<1>2. Charge(r) = Pages(Prompt[r] + Output[r])
  BY DEF Charge, Pages
<1>3. QED
  BY <1>1, <1>2, PagesGrow DEF Charges

\* ChargeOf is the sum of the charges.
LEMMA ChargeOfIsSum ==
  ASSUME NEW R, R \subseteq Request
  PROVE  ChargeOf(R) = SumFunctionOnSet(Charges, R)
<1> DEFINE Adds(it) == it = [s \in SUBSET R |-> IF s = {} THEN 0
                               ELSE Charge(Pick(s)) + it[s \ {Pick(s)}]]
           sum == CHOOSE it : Adds(it)
<1>1. ChargeOf(R) = sum[R]
  BY DEF ChargeOf, MapThenSumSet, MapThenFoldSet, Pick
<1>2. ASSUME NEW it
      PROVE  Adds(it) <=> AddsUp(it, Charges, R)
  <2>1. \A s \in SUBSET R : s # {} => Charge(Pick(s)) = Charges[Pick(s)]
    BY PickIn DEF Charges
  <2>2. [s \in SUBSET R |-> IF s = {} THEN 0 ELSE Charge(Pick(s)) + it[s \ {Pick(s)}]]
        = [s \in SUBSET R |-> IF s = {} THEN 0 ELSE Charges[Pick(s)] + it[s \ {Pick(s)}]]
    BY <2>1
  <2>3. QED
    BY <2>2 DEF AddsUp
<1>3. IsFiniteSet(R) /\ R \in SUBSET R
  BY FS_Subset, RequestAssumption
<1>4. AddsUp(Adder(Charges, R), Charges, R)
  BY <1>3, AdderExists
<1> HIDE DEF Adds
<1>5. AddsUp(sum, Charges, R)
  BY <1>2, <1>4
<1> HIDE DEF sum
<1>6. sum[R] = Adder(Charges, R)[R]
  BY <1>3, <1>4, <1>5, AddersAgree
<1>7. QED
  BY <1>1, <1>6, SumIsAdder

\* And the pages D holds are a sum of theirs.
LEMMA HoldsIsSum ==
  ASSUME NEW R, R \subseteq Request
  PROVE  MapThenSumSet(LAMBDA r : Pages(context[r]), R) = SumFunctionOnSet(Holds, R)
<1> DEFINE Adds(it) == it = [s \in SUBSET R |-> IF s = {} THEN 0
                               ELSE Pages(context[Pick(s)]) + it[s \ {Pick(s)}]]
           sum == CHOOSE it : Adds(it)
<1>1. MapThenSumSet(LAMBDA r : Pages(context[r]), R) = sum[R]
  BY DEF MapThenSumSet, MapThenFoldSet, Pick
<1>2. ASSUME NEW it
      PROVE  Adds(it) <=> AddsUp(it, Holds, R)
  <2>1. \A s \in SUBSET R : s # {} => Pages(context[Pick(s)]) = Holds[Pick(s)]
    BY PickIn DEF Holds
  <2>2. [s \in SUBSET R |-> IF s = {} THEN 0 ELSE Pages(context[Pick(s)]) + it[s \ {Pick(s)}]]
        = [s \in SUBSET R |-> IF s = {} THEN 0 ELSE Holds[Pick(s)] + it[s \ {Pick(s)}]]
    BY <2>1
  <2>3. QED
    BY <2>2 DEF AddsUp
<1>3. IsFiniteSet(R) /\ R \in SUBSET R
  BY FS_Subset, RequestAssumption
<1>4. AddsUp(Adder(Holds, R), Holds, R)
  BY <1>3, AdderExists
<1> HIDE DEF Adds
<1>5. AddsUp(sum, Holds, R)
  BY <1>2, <1>4
<1> HIDE DEF sum
<1>6. sum[R] = Adder(Holds, R)[R]
  BY <1>3, <1>4, <1>5, AddersAgree
<1>7. QED
  BY <1>1, <1>6, SumIsAdder

-----------------------------------------------------------------------------
(* Admission: the counters follow the requests.                              *)

\* Who is admitted, and what a lane counts for a set of requests.
LEMMA AdmittedFacts ==
  ASSUME Typed, Placement, NEW l \in Lane
  PROVE  /\ Admitted(l) \subseteq Request /\ IsFiniteSet(Admitted(l))
         /\ \A r \in Admitted(l) : LaneOf[r] = l
<1>1. lane[l].request \in Request \cup {NoRequest} /\ decoding \subseteq Request
  BY TypeFacts DEF Typed, TypeOK
<1>2. Admitted(l) \subseteq Request
  BY <1>1 DEF Admitted
<1>3. LaneShape(l)
  BY DEF Placement
<1>4. \A r \in Admitted(l) : LaneOf[r] = l
  BY <1>1, <1>3 DEF Admitted, LaneShape
<1>5. QED
  BY <1>2, <1>4, FS_Subset, RequestAssumption

\* A part of a set is charged a natural number, and the rest the difference.
LEMMA ChargeSplits ==
  ASSUME NEW A, A \subseteq Request, NEW R, R \subseteq A
  PROVE  /\ ChargeOf(A) \in Nat /\ ChargeOf(R) \in Nat /\ ChargeOf(A \ R) \in Nat
         /\ ChargeOf(A) = ChargeOf(R) + ChargeOf(A \ R)
<1>1. \A S \in SUBSET Request : /\ IsFiniteSet(S) /\ ChargeOf(S) = SumFunctionOnSet(Charges, S)
                                /\ \A x \in S : Charges[x] \in Nat
  BY ChargeOfIsSum, ChargeNat, FS_Subset, RequestAssumption
<1>2. \A S \in SUBSET Request : ChargeOf(S) \in Nat
  BY <1>1, SumNat
<1>3. /\ IsFiniteSet(A) /\ R \in SUBSET A /\ A \in SUBSET Request
      /\ R \in SUBSET Request /\ A \ R \in SUBSET Request
      /\ \A x \in A : Charges[x] \in Int
  BY <1>1, SMTT(40)
<1>4. SumFunctionOnSet(Charges, A) =
        SumFunctionOnSet(Charges, R) + SumFunctionOnSet(Charges, A \ R)
  BY <1>3, SumSplits
<1>5. QED
  BY <1>1, <1>2, <1>3, <1>4

\* A request more is charged for as much more.
LEMMA ChargeAdds ==
  ASSUME NEW A, A \subseteq Request, NEW r \in Request, r \notin A
  PROVE  ChargeOf(A \cup {r}) = ChargeOf(A) + Charge(r)
<1>1. /\ A \cup {r} \subseteq Request /\ IsFiniteSet(A) /\ Charges[r] = Charge(r)
      /\ \A x \in A \cup {r} : Charges[x] \in Int
  BY ChargeNat, FS_Subset, RequestAssumption
<1>2. SumFunctionOnSet(Charges, A \cup {r}) = Charges[r] + SumFunctionOnSet(Charges, A)
  BY <1>1, SumAdd
<1>3. ChargeOf(A) \in Nat /\ Charge(r) \in Nat
  BY ChargeNat, ChargeSplits
<1>4. QED
  BY <1>1, <1>2, <1>3, ChargeOfIsSum

\* The requests of F in lane l.
Of(F, l) == {f.request : f \in {g \in F : LaneOf[g.request] = l}}

\* finish gives back exactly what the finished requests were admitted for.
LEMMA FinishReleases ==
  ASSUME IInv, NEW F, FinishAll(F),
         \A l \in Lane : /\ Of(F, l) \subseteq Admitted(l)
                         /\ Admitted(l)' = Admitted(l) \ Of(F, l)
  PROVE  /\ AdmissionExact' /\ Promised'
         /\ active' \in [Lane -> Nat] /\ used' \in [Lane -> Nat]
<1>1. /\ active' = [l \in Lane |-> active[l] - Cardinality(Of(F, l))]
      /\ used' = [l \in Lane |-> used[l] - ChargeOf(Of(F, l))]
  BY DEF FinishAll, Of
<1>2. ASSUME NEW l \in Lane
      PROVE  /\ active'[l] = Cardinality(Admitted(l)') /\ active'[l] \in Nat
             /\ used'[l] = ChargeOf(Admitted(l)') /\ used'[l] \in Nat
             /\ active'[l] <= Slots[l] /\ used'[l] <= Tokens[l]
  <2> DEFINE A == Admitted(l)
             R == Of(F, l)
  <2>1. A \subseteq Request /\ IsFiniteSet(A) /\ R \subseteq A /\ Admitted(l)' = A \ R
    BY AdmittedFacts DEF IInv
  <2>2. /\ active[l] = Cardinality(A) /\ used[l] = ChargeOf(A)
        /\ active[l] <= Slots[l] /\ used[l] <= Tokens[l]
        /\ Slots[l] \in Nat /\ Tokens[l] \in Nat
    BY CapacityAssumption DEF IInv, AdmissionExact, Promised
  <2>3. active'[l] = active[l] - Cardinality(R) /\ used'[l] = used[l] - ChargeOf(R)
    BY <1>1
  <2> HIDE DEF A, R
  <2>4. /\ ChargeOf(A) \in Nat /\ ChargeOf(R) \in Nat /\ ChargeOf(A \ R) \in Nat
        /\ ChargeOf(A) = ChargeOf(R) + ChargeOf(A \ R)
    BY <2>1, ChargeSplits
  <2>5. /\ IsFiniteSet(R) /\ IsFiniteSet(A \ R) /\ A \cap R = R
    BY <2>1, FS_Subset
  <2>6. /\ Cardinality(A) \in Nat /\ Cardinality(R) \in Nat /\ Cardinality(A \ R) \in Nat
        /\ Cardinality(A \ R) = Cardinality(A) - Cardinality(R)
    <3>1. Cardinality(A \ R) = Cardinality(A) - Cardinality(A \cap R)
      BY <2>1, FS_Difference
    <3>2. QED
      BY <2>1, <2>5, <3>1, FS_CardinalityType
  <2>7. /\ active'[l] = Cardinality(A \ R) /\ used'[l] = ChargeOf(A \ R)
        /\ active'[l] <= Slots[l] /\ used'[l] <= Tokens[l]
    BY <2>2, <2>3, <2>4, <2>6
  <2>8. QED
    BY <2>1, <2>4, <2>6, <2>7
<1>3. AdmissionExact'
  BY <1>2 DEF AdmissionExact, ChargeOf
<1>4. active' \in [Lane -> Nat] /\ used' \in [Lane -> Nat]
  BY <1>1, <1>2
<1>5. QED
  BY <1>2, <1>3, <1>4 DEF Promised

\* One request leaves its lane.
LEMMA FinishOne ==
  ASSUME IInv, NEW l \in Lane, NEW r \in Request, r = lane[l].request,
         NEW b \in BOOLEAN, Finish(r, b),
         lane'[l].request = NoRequest,
         \A k \in Lane : k # l => lane'[k].request = lane[k].request,
         decoding' = decoding
  PROVE  /\ AdmissionExact' /\ Promised' /\ Settles
         /\ active' \in [Lane -> Nat] /\ used' \in [Lane -> Nat]
<1> DEFINE F == {[request |-> r, failed |-> b]}
<1>1. LaneOf[r] = l /\ r \notin decoding /\ handle[r] # "new" /\ r # NoRequest
  <2>1. LaneShape(l) /\ Placed(r)
    BY DEF IInv, Placement
  <2>2. LaneOf[r] = l
    BY <2>1 DEF LaneShape
  <2>3. InLane(r)
    BY <2>2 DEF InLane
  <2>4. QED
    BY <2>1, <2>2, <2>3, RequestAssumption DEF Placed
<1>2. FinishAll(F)
  BY DEF Finish
<1>3. \A f \in F : f.request = r /\ f.failed = b
  OBVIOUS
<1>4. ASSUME NEW k \in Lane
      PROVE  Of(F, k) = IF k = l THEN {r} ELSE {}
  <2>1. \E f \in F : f.request = r
    OBVIOUS
  <2> HIDE DEF F
  <2>2. CASE k = l
    <3>1. {g \in F : LaneOf[g.request] = k} = F
      BY <1>1, <1>3, <2>2
    <3>2. {f.request : f \in F} = {r}
      BY <1>3, <2>1
    <3>3. QED
      BY <2>2, <3>1, <3>2 DEF Of
  <2>3. CASE k # l
    BY <1>1, <1>3, <2>3 DEF Of
  <2>4. QED
    BY <2>2, <2>3
<1> HIDE DEF F
<1>5. ASSUME NEW k \in Lane
      PROVE  /\ Of(F, k) \subseteq Admitted(k)
             /\ Admitted(k)' = Admitted(k) \ Of(F, k)
  <2>1. CASE k = l
    <3>1. Of(F, k) = {r} /\ lane'[k].request = NoRequest /\ lane[k].request = r
      BY <1>4, <2>1
    <3>2. r \in Admitted(k)
      BY <1>1, <3>1 DEF Admitted
    <3>3. Admitted(k)' = Admitted(k) \ {r}
      BY <1>1, <3>1, <2>1, RequestAssumption DEF Admitted
    <3>4. QED
      BY <3>1, <3>2, <3>3
  <2>2. CASE k # l
    <3>1. Of(F, k) = {}
      BY <1>4, <2>2
    <3>2. Admitted(k)' = Admitted(k)
      BY <2>2 DEF Admitted
    <3>3. QED
      BY <3>1, <3>2
  <2>3. QED
    BY <2>1, <2>2
<1>6. Settles
  BY <1>1, <1>2, <1>3, FinishSettles, TypeFacts DEF IInv
<1>7. QED
  BY <1>2, <1>5, <1>6, FinishReleases

-----------------------------------------------------------------------------
(* D, one lane.                                                              *)

\* A lane that prefills: its request is in no other place, and nothing of the
\* lane is being released.
LEMMA PrefillLane ==
  ASSUME IInv, NEW l \in Lane, lane[l].prefill # "none"
  PROVE  /\ lane[l].request \in Request /\ LaneOf[lane[l].request] = l
         /\ lane[l].request # NoRequest
         /\ lane[l].releasing = "none" /\ lane[l].handoff = NoRequest
         /\ InLane(lane[l].request) /\ ~ InQueue(lane[l].request)
         /\ lane[l].request \notin decoding /\ handle[lane[l].request] # "new"
<1> DEFINE r == lane[l].request
<1>1. LaneShape(l) /\ r \in Request \cup {NoRequest}
  BY TypeFacts DEF IInv, Placement
<1>2. /\ r \in Request /\ r # NoRequest /\ LaneOf[r] = l
      /\ lane[l].releasing = "none" /\ lane[l].handoff = NoRequest
  BY <1>1 DEF LaneShape
<1>3. InLane(r) /\ Placed(r)
  BY <1>2 DEF InLane, IInv, Placement
<1>4. QED
  BY <1>2, <1>3 DEF Placed

\* A lane that releases: it has no request, and hands one back.
LEMMA ReleaseLane ==
  ASSUME IInv, NEW l \in Lane, lane[l].releasing # "none"
  PROVE  /\ lane[l].handoff \in Request /\ LaneOf[lane[l].handoff] = l
         /\ lane[l].request = NoRequest /\ lane[l].prefill = "none"
<1>1. LaneShape(l) /\ lane[l].handoff \in Request \cup {NoRequest}
  BY TypeFacts DEF IInv, Placement
<1>2. QED
  BY <1>1 DEF LaneShape

\* The request of a lane leaves it, or its pages have been released.
LEMMA LaneMoves ==
  ASSUME IInv, NEW l \in Lane, NEW x \in LaneRecord, lane' = [lane EXCEPT ![l] = x],
         queue' = queue, \A r \in Request : handle'[r] = "new" => handle[r] = "new",
         x.request = NoRequest /\ x.prefill = "none",
         x.releasing = "none" <=> x.handoff = NoRequest,
         x.handoff \in {lane[l].request, NoRequest},
         decoding' = decoding \/ decoding' = decoding \cup {lane[l].request}
  PROVE  /\ Placement'
         /\ \A k \in Lane : k # l => lane'[k] = lane[k]
         /\ lane'[l] = x /\ lane' \in [Lane -> LaneRecord]
<1>1. /\ \A k \in Lane : k # l => lane'[k] = lane[k]
      /\ lane'[l] = x /\ lane' \in [Lane -> LaneRecord]
  BY TypeFacts DEF IInv
<1>2. ASSUME NEW k \in Lane
      PROVE  LaneShape(k)' /\ QueueShape(k)'
  <2>1. LaneShape(k) /\ QueueShape(k) /\ LaneShape(l)
    BY DEF IInv, Placement
  <2>2. QueueShape(k)'
    BY <2>1 DEF QueueShape
  <2>3. CASE k = l
    BY <1>1, <2>1, <2>2, <2>3, RequestAssumption DEF LaneShape
  <2>4. CASE k # l
    BY <1>1, <2>1, <2>2, <2>4 DEF LaneShape
  <2>5. QED
    BY <2>3, <2>4
<1>3. ASSUME NEW r \in Request
      PROVE  Moves(r)
  <2>1. LaneOf[r] \in Lane /\ r # NoRequest /\ LaneShape(l)
    BY RequestAssumption DEF IInv, Placement
  <2>2. InQueue(r)' => InQueue(r)
    BY DEF InQueue
  <2>3. InLane(r)' => InLane(r)
    BY <1>1, <2>1 DEF InLane
  <2>4. Leaving(r)' => Leaving(r) \/ InLane(r)
    BY <1>1, <2>1 DEF InLane, Leaving
  <2>5. r \in decoding' => r \in decoding \/ (InLane(r) /\ ~ InLane(r)')
    <3>1. r = lane[l].request => LaneOf[r] = l
      BY <2>1 DEF LaneShape
    <3>2. QED
      BY <1>1, <2>1, <3>1 DEF InLane
  <2>6. QED
    BY <2>2, <2>3, <2>4, <2>5 DEF Moves
<1>4. QED
  BY <1>1, <1>2, <1>3, PlacementStep DEF IInv

\* A lane with nothing left at P becomes idle.
LEMMA BecomesIdle ==
  ASSUME IInv, Agreement, NEW l \in Lane, lane' = [lane EXCEPT ![l] = IdleLane],
         chan[l] = Silent, orphan[l] = Silent,
         \A r \in Request : r \in {lane[l].request, lane[l].handoff} => Gone(r),
         UNCHANGED <<queue, decoding, chan, orphan, job, src, computed>>,
         \A r \in Request : handle'[r] = "new" => handle[r] = "new",
         dpc' # <<"stopped">>
  PROVE  /\ Placement' /\ Agreement' /\ lane' \in [Lane -> LaneRecord]
         /\ lane'[l] = IdleLane /\ \A k \in Lane : k # l => lane'[k] = lane[k]
<1>1. IdleLane \in LaneRecord
  BY DEF IdleLane, LaneRecord, PrefillStates, ReleaseStates
<1>2. /\ IdleLane.request = NoRequest /\ IdleLane.prefill = "none"
      /\ IdleLane.releasing = "none" /\ IdleLane.handoff = NoRequest
  BY DEF IdleLane
<1>3. /\ Placement' /\ lane' \in [Lane -> LaneRecord] /\ lane'[l] = IdleLane
      /\ \A k \in Lane : k # l => lane'[k] = lane[k]
  BY <1>1, <1>2, LaneMoves
<1>4. OnlyLane(l)
  BY <1>3 DEF OnlyLane, SameLane, SameJob
<1>5. PrefillAgrees(l)' /\ ReleaseAgrees(l)' /\ LostAgrees(l)'
  BY <1>2, <1>3 DEF PrefillAgrees, ReleaseAgrees, LostAgrees
<1>6. ASSUME NEW r \in Request, LaneOf[r] = l
      PROVE  Gone(r)'
  <2>1. Gone(r)
    BY <1>6 DEF Agreement, InLane, Leaving
  <2>2. QED
    BY <2>1 DEF Gone
<1>7. Agreement'
  BY <1>4, <1>5, <1>6, AgreementStep DEF IInv
<1>8. QED
  BY <1>3, <1>7

\* A lane whose request is done with hands P's pages back.
LEMMA BecomesRelease ==
  ASSUME IInv, Agreement, NEW l \in Lane, HandBack(l), lane[l].prefill # "none",
         chan[l] = Silent, orphan[l] = Silent, Held(lane[l].request),
         UNCHANGED <<queue, chan, orphan, job, src, computed>>,
         decoding' = decoding \/ decoding' = decoding \cup {lane[l].request},
         \A r \in Request : handle'[r] = "new" => handle[r] = "new"
  PROVE  /\ Placement' /\ Agreement' /\ lane' \in [Lane -> LaneRecord]
         /\ lane'[l].request = NoRequest /\ \A k \in Lane : k # l => lane'[k] = lane[k]
         /\ dpc' = <<"dispatch", l>>
<1>1. PICK r \in Request : r = lane[l].request /\ LaneOf[r] = l /\ r # NoRequest
  BY PrefillLane
<1> DEFINE x == [request |-> NoRequest, prefill |-> "none", releasing |-> "start", handoff |-> r]
<1>2. x \in LaneRecord
  BY <1>1 DEF LaneRecord, PrefillStates, ReleaseStates
<1>3. lane' = [lane EXCEPT ![l] = x] /\ dpc' = <<"dispatch", l>>
  BY <1>1, TypeFacts DEF HandBack, IInv
<1>4. /\ x.request = NoRequest /\ x.prefill = "none"
      /\ x.releasing = "start" /\ x.handoff = r
  OBVIOUS
<1> HIDE DEF x
<1>5. /\ Placement' /\ lane' \in [Lane -> LaneRecord] /\ lane'[l] = x
      /\ \A k \in Lane : k # l => lane'[k] = lane[k]
  BY <1>1, <1>2, <1>3, <1>4, LaneMoves
<1>6. OnlyLane(l)
  BY <1>5 DEF OnlyLane, SameLane, SameJob
<1>7. Held(r)'
  BY <1>1 DEF Held
<1>8. PrefillAgrees(l)' /\ ReleaseAgrees(l)' /\ LostAgrees(l)'
  BY <1>4, <1>5, <1>7 DEF PrefillAgrees, ReleaseAgrees, LostAgrees, LaneBusy
<1>9. ASSUME NEW q \in Request, LaneOf[q] = l, ~ Leaving(q)'
      PROVE  Gone(q)'
  <2>1. q # r
    BY <1>4, <1>5, <1>9 DEF Leaving
  <2>2. ~ InLane(q) /\ ~ Leaving(q)
    BY <1>1, <1>9, <2>1, PrefillLane, RequestAssumption DEF InLane, Leaving
  <2>3. QED
    BY <2>2 DEF Agreement, Gone
<1>10. dpc' # <<"stopped">>
  BY <1>3, PlacesApart
<1>11. Agreement'
  BY <1>6, <1>8, <1>9, <1>10, AgreementStep DEF IInv
<1>12. QED
  BY <1>3, <1>4, <1>5, <1>11

\* The exchange of a lane that has its result, or its release, is over.
LEMMA ExchangeOver ==
  ASSUME IInv, Alive, NEW l \in Lane
  PROVE  /\ lane[l].prefill \in {"ok", "eos"} =>
              chan[l] = Silent /\ orphan[l] = Silent /\ Held(lane[l].request)
         /\ lane[l].prefill \in {"failed", "cancelled"} =>
              chan[l] = Silent /\ orphan[l] = Silent /\ Gone(lane[l].request)
         /\ lane[l].releasing = "done" =>
              chan[l] = Silent /\ orphan[l] = Silent /\ Gone(lane[l].handoff)
<1>1. PrefillAgrees(l) /\ ReleaseAgrees(l) /\ LostAgrees(l)
  BY DEF IInv, Agreement
<1>2. /\ lane[l].prefill # "none" => lane[l].releasing = "none"
      /\ lane[l].releasing # "none" => lane[l].prefill = "none"
  BY PrefillLane, ReleaseLane
<1>3. "lost" \notin {lane[l].prefill, lane[l].releasing} => orphan[l] = Silent
  BY <1>1 DEF LostAgrees
<1>4. QED
  BY <1>1, <1>2, <1>3 DEF PrefillAgrees, ReleaseAgrees

\* A lane record with other values for its release.
LEMMA ReleaseForgotten ==
  ASSUME NEW x \in LaneRecord, NEW m, NEW n
  PROVE  [x EXCEPT !.releasing = m, !.handoff = n]
         = [request |-> x.request, prefill |-> x.prefill, releasing |-> m, handoff |-> n]
<1>1. x = [request |-> x.request, prefill |-> x.prefill,
           releasing |-> x.releasing, handoff |-> x.handoff]
  BY DEF LaneRecord
<1>2. PICK a, b, c, d : x = [request |-> a, prefill |-> b, releasing |-> c, handoff |-> d]
  BY <1>1
<1>3. PICK y : y = [x EXCEPT !.releasing = m]
  OBVIOUS
<1>4. y = [request |-> a, prefill |-> b, releasing |-> m, handoff |-> d]
  BY <1>2, <1>3
<1>5. [y EXCEPT !.handoff = n] = [request |-> a, prefill |-> b, releasing |-> m, handoff |-> n]
  BY <1>4
<1>6. [x EXCEPT !.releasing = m, !.handoff = n] = [y EXCEPT !.handoff = n]
  BY <1>3
<1>7. x.request = a /\ x.prefill = b
  BY <1>2
<1>8. QED
  BY <1>5, <1>6, <1>7

\* A lane whose release is settled is idle.
LEMMA ReleaseSettledStep ==
  ASSUME IInv, NEW l \in Lane, ReleaseSettled(l)
  PROVE  IInv' /\ Settles
<1>1. /\ dpc = <<"result", l>> /\ lane[l].releasing = "done"
      /\ UNCHANGED <<clientVars, dpc, admissionVars, decodeVars, rpcVars, prefillVars>>
  BY DEF ReleaseSettled, AtResult
<1> USE DEF clientVars, admissionVars, decodeVars, rpcVars, prefillVars
<1>2. lane[l].request = NoRequest /\ lane[l].prefill = "none"
  BY <1>1, ReleaseLane
<1>3. lane' = [lane EXCEPT ![l] = IdleLane]
  <2>1. lane \in [Lane -> LaneRecord]
    BY TypeFacts DEF IInv
  <2>2. [lane[l] EXCEPT !.releasing = "none", !.handoff = NoRequest] = IdleLane
    <3>1. PICK x \in LaneRecord : x = lane[l]
      BY <2>1
    <3>2. x.request = NoRequest /\ x.prefill = "none"
      BY <1>2, <3>1
    <3>3. [x EXCEPT !.releasing = "none", !.handoff = NoRequest]
          = [request |-> x.request, prefill |-> x.prefill,
             releasing |-> "none", handoff |-> NoRequest]
      BY ReleaseForgotten
    <3>4. QED
      BY <3>1, <3>2, <3>3 DEF IdleLane
  <2>3. lane' = [lane EXCEPT ![l] = [lane[l] EXCEPT !.releasing = "none", !.handoff = NoRequest]]
    BY <2>1 DEF ReleaseSettled
  <2>4. QED
    BY <2>2, <2>3
<1>4. Alive /\ Agreement /\ dpc' # <<"stopped">> /\ \A k \in Lane : dpc # <<"copy", k>>
  BY <1>1, PlacesApart DEF Alive, IInv
<1>5. chan[l] = Silent /\ orphan[l] = Silent /\ Gone(lane[l].handoff)
  BY <1>1, <1>4, ExchangeOver
<1>6. \A r \in Request : r \in {lane[l].request, lane[l].handoff} => Gone(r)
  BY <1>2, <1>5, RequestAssumption
<1>7. /\ Placement' /\ Agreement' /\ lane' \in [Lane -> LaneRecord]
      /\ lane'[l] = IdleLane /\ \A k \in Lane : k # l => lane'[k] = lane[k]
  BY <1>1, <1>3, <1>4, <1>5, <1>6, BecomesIdle
<1>8. Typed'
  BY <1>1, <1>7 DEF IInv, Typed, TypeOK, LaneRecord
<1>9. Contexts'
  BY <1>1, <1>4, ContextsFrame DEF IInv
<1>10. AdmissionExact' /\ Promised'
  BY <1>1, <1>2, <1>7, AdmissionFrame, AdmittedFrame DEF IInv, IdleLane
<1>11. Settles
  BY <1>1, NothingSettles, TypeFacts DEF IInv
<1>12. QED
  BY <1>7, <1>8, <1>9, <1>10, <1>11 DEF IInv

\* An answer that did not come ends D; its promises to P are void.
LEMMA FatalStep ==
  ASSUME IInv, NEW l \in Lane, Fatal(l)
  PROVE  IInv' /\ Settles
<1>1. /\ dpc = <<"result", l>> /\ dpc' = <<"dead">>
      /\ chan' = [k \in Lane |-> Silent] /\ DOMAIN orphan' = Lane
      /\ UNCHANGED <<clientVars, lane, admissionVars, decodeVars, prefillVars>>
  BY DEF Fatal, AtResult
<1> USE DEF clientVars, admissionVars, decodeVars, prefillVars
<1>2. ~ Alive' /\ \A k \in Lane : dpc # <<"copy", k>> /\ dpc' # <<"copy", k>>
  BY <1>1, PlacesApart DEF Alive
<1>3. Typed'
  BY <1>1 DEF IInv, Typed, TypeOK, Places
<1>4. Placement'
  BY <1>1, PlacementFrame DEF IInv, SameRequests
<1>5. Contexts'
  BY <1>1, <1>2, ContextsFrame DEF IInv
<1>6. AdmissionExact' /\ Promised'
  BY <1>1, AdmissionFrame, AdmittedFrame DEF IInv
<1>7. Settles
  BY <1>1, NothingSettles, TypeFacts DEF IInv
<1>8. QED
  BY <1>2, <1>3, <1>4, <1>5, <1>6, <1>7 DEF IInv

\* A failed or cancelled prefill: the request is finished, the lane idle.
LEMMA PrefillFailedStep ==
  ASSUME IInv, NEW l \in Lane, PrefillFailed(l)
  PROVE  IInv' /\ Settles
<1>1. /\ dpc = <<"result", l>> /\ dpc' = <<"dispatch", l>>
      /\ lane[l].prefill \in {"failed", "cancelled"}
      /\ Finish(lane[l].request, TRUE) /\ lane' = [lane EXCEPT ![l] = IdleLane]
      /\ UNCHANGED <<queue, stopping, decodeVars, rpcVars, prefillVars>>
  BY DEF PrefillFailed, AtResult, Result
<1> USE DEF decodeVars, rpcVars, prefillVars
<1>2. /\ Alive /\ Agreement /\ dpc' # <<"stopped">>
      /\ \A k \in Lane : dpc # <<"copy", k>> /\ dpc' # <<"copy", k>>
  BY <1>1, PlacesApart DEF Alive, IInv
<1>3. chan[l] = Silent /\ orphan[l] = Silent /\ Gone(lane[l].request)
  BY <1>1, <1>2, ExchangeOver
<1>4. /\ lane[l].request \in Request /\ lane[l].request # NoRequest
      /\ lane[l].handoff = NoRequest
  BY <1>1, PrefillLane
<1>5. \A r \in Request : r \in {lane[l].request, lane[l].handoff} => Gone(r)
  BY <1>3, <1>4, RequestAssumption
<1>6. /\ lane'[l].request = NoRequest
      /\ \A k \in Lane : k # l => lane'[k].request = lane[k].request
  BY <1>1, TypeFacts DEF IInv, IdleLane
<1>7. /\ AdmissionExact' /\ Promised' /\ Settles
      /\ active' \in [Lane -> Nat] /\ used' \in [Lane -> Nat]
  BY <1>1, <1>4, <1>6, FinishOne
<1>8. /\ handle' \in [Request -> HandleStates]
      /\ \A r \in Request : handle'[r] = "new" => handle[r] = "new"
  BY <1>7, SettlesIsFinal, TypeFacts DEF IInv
<1>9. Placement' /\ Agreement' /\ lane' \in [Lane -> LaneRecord]
  BY <1>1, <1>2, <1>3, <1>5, <1>8, BecomesIdle
<1>10. Typed'
  BY <1>1, <1>7, <1>8, <1>9, MovedOn DEF IInv, Typed, TypeOK, LaneRecord, HandleStates
<1>11. Contexts'
  BY <1>1, <1>2, ContextsFrame DEF IInv
<1>12. QED
  BY <1>7, <1>9, <1>10, <1>11 DEF IInv

\* A request with nothing to decode, or whose copy is refused, is finished and
\* its pages go back.
LEMMA FinishedEarlyStep ==
  ASSUME IInv, NEW l \in Lane, NothingToDecode(l) \/ CopyRejected(l)
  PROVE  IInv' /\ Settles
<1>1. /\ dpc = <<"result", l>> /\ lane[l].prefill \in {"ok", "eos"} /\ HandBack(l)
      /\ \E b \in BOOLEAN : Finish(lane[l].request, b)
      /\ UNCHANGED <<queue, stopping, decodeVars, rpcVars, prefillVars>>
  BY DEF NothingToDecode, CopyRejected, ReadyToCopy, AtResult, Result
<1> USE DEF decodeVars, rpcVars, prefillVars
<1>2. /\ Alive /\ Agreement
      /\ \A k \in Lane : dpc # <<"copy", k>> /\ <<"dispatch", l>> # <<"copy", k>>
  BY <1>1, PlacesApart DEF Alive, IInv
<1>3. chan[l] = Silent /\ orphan[l] = Silent /\ Held(lane[l].request)
  BY <1>1, <1>2, ExchangeOver
<1>4. lane[l].prefill # "none" /\ lane[l].request \in Request
  BY <1>1, PrefillLane
<1>5. /\ lane'[l].request = NoRequest
      /\ \A k \in Lane : k # l => lane'[k].request = lane[k].request
  BY <1>1, TypeFacts DEF IInv, HandBack
<1>6. /\ AdmissionExact' /\ Promised' /\ Settles
      /\ active' \in [Lane -> Nat] /\ used' \in [Lane -> Nat]
  BY <1>1, <1>4, <1>5, FinishOne
<1>7. /\ handle' \in [Request -> HandleStates]
      /\ \A r \in Request : handle'[r] = "new" => handle[r] = "new"
  BY <1>6, SettlesIsFinal, TypeFacts DEF IInv
<1>8. /\ Placement' /\ Agreement' /\ lane' \in [Lane -> LaneRecord]
      /\ dpc' = <<"dispatch", l>>
  BY <1>1, <1>2, <1>3, <1>4, <1>7, BecomesRelease
<1>9. Typed'
  BY <1>1, <1>6, <1>7, <1>8, MovedOn DEF IInv, Typed, TypeOK, LaneRecord, HandleStates
<1>10. Contexts'
  BY <1>1, <1>2, <1>8, ContextsFrame DEF IInv
<1>11. QED
  BY <1>6, <1>8, <1>9, <1>10 DEF IInv

\* D reserves pages for the whole prompt and starts the copy.
LEMMA CopyBeginsStep ==
  ASSUME IInv, NEW l \in Lane, CopyBegins(l)
  PROVE  IInv' /\ Settles
<1>1. PICK r \in Request : r = lane[l].request /\ LaneOf[r] = l /\ r \notin decoding
  BY PrefillLane DEF CopyBegins, ReadyToCopy, Result
<1>2. /\ dpc = <<"result", l>> /\ dpc' = <<"copy", l>> /\ lane[l].prefill = "ok"
      /\ context' = [context EXCEPT ![r] = Prompt[r]]
      /\ UNCHANGED <<clientVars, lane, admissionVars, decoding, finished, stopped,
                     rpcVars, prefillVars>>
  BY <1>1 DEF CopyBegins, ReadyToCopy, AtResult, Result
<1> USE DEF clientVars, admissionVars, rpcVars, prefillVars
<1>3. /\ Alive /\ Agreement /\ dpc' # <<"stopped">>
      /\ \A k \in Lane : /\ dpc # <<"copy", k>>
                         /\ dpc' = <<"copy", k>> <=> k = l
  BY <1>2, PlacesApart DEF Alive, IInv
<1>4. Prompt[r] \in Nat /\ context \in [Request -> Nat]
  BY RequestAssumption DEF IInv, Typed, TypeOK
<1>5. Typed'
  BY <1>2, <1>4, MovedOn DEF IInv, Typed, TypeOK
<1>6. Placement'
  BY <1>2, PlacementFrame DEF IInv, SameRequests
<1>7. Agreement'
  BY <1>2, <1>3, AgreementFrame
<1>8. AdmissionExact' /\ Promised'
  BY <1>2, AdmissionFrame, AdmittedFrame DEF IInv
<1>9. Contexts'
  <2>1. Running' = Running /\ r \notin Running
    BY <1>1, <1>2 DEF Running
  <2>2. ASSUME NEW q \in Request
        PROVE  IF q \in Running THEN context'[q] \in Prompt[q]..(Prompt[q] + Output[q] - 2)
               ELSE context'[q] = IF Copying(q)' THEN Prompt[q] ELSE 0
    <3>1. LaneOf[q] \in Lane
      BY RequestAssumption
    <3>2. ~ Copying(q) /\ (Copying(q)' <=> q = r)
      BY <1>1, <1>2, <1>3, <3>1 DEF Copying, InLane
    <3>3. CASE q = r
      BY <1>2, <1>4, <2>1, <3>2, <3>3
    <3>4. CASE q # r
      <4>1. context'[q] = context[q]
        BY <1>2, <1>4, <3>4
      <4>2. QED
        BY <3>2, <3>4, <4>1 DEF IInv, Contexts
    <3>5. QED
      BY <3>3, <3>4
  <2>3. \A f \in finished' : f.request \in decoding'
    BY <1>2 DEF IInv, Contexts
  <2>4. \A k \in Lane : dpc' = <<"copy", k>> => lane'[k].prefill = "ok"
    BY <1>2, <1>3
  <2>5. QED
    BY <2>1, <2>2, <2>3, <2>4 DEF Contexts
<1>10. Settles
  BY <1>2, NothingSettles, TypeFacts DEF IInv
<1>11. QED
  BY <1>5, <1>6, <1>7, <1>8, <1>9, <1>10 DEF IInv

\* While lane l copies, only its request has pages without being decoded.
LEMMA CopyFacts ==
  ASSUME IInv, NEW l \in Lane, dpc = <<"copy", l>>
  PROVE  /\ lane[l].prefill = "ok" /\ Alive /\ Agreement
         /\ chan[l] = Silent /\ orphan[l] = Silent /\ Held(lane[l].request)
         /\ lane[l].request \notin Running
         /\ context[lane[l].request] = Prompt[lane[l].request]
         /\ \A q \in Request : q \notin Running /\ q # lane[l].request => context[q] = 0
<1>1. lane[l].prefill = "ok" /\ Alive /\ Agreement
  BY PlacesApart DEF IInv, Contexts, Alive
<1>2. chan[l] = Silent /\ orphan[l] = Silent /\ Held(lane[l].request)
  BY <1>1, ExchangeOver
<1>3. PICK r \in Request : r = lane[l].request /\ LaneOf[r] = l /\ r \notin decoding
  BY <1>1, PrefillLane
<1>4. r \notin Running /\ Copying(r)
  BY <1>3 DEF Running, Copying, InLane
<1>5. context[r] = Prompt[r]
  BY <1>4 DEF IInv, Contexts
<1>6. ASSUME NEW q \in Request, q \notin Running, q # r
      PROVE  context[q] = 0
  <2>1. LaneOf[q] \in Lane
    BY RequestAssumption
  <2>2. ~ Copying(q)
    BY <1>3, <1>6, <2>1, PlacesApart DEF Copying, InLane
  <2>3. QED
    BY <1>6, <2>2 DEF IInv, Contexts
<1>7. QED
  BY <1>1, <1>2, <1>3, <1>4, <1>5, <1>6

\* The commit of a copy fails: D's pages are freed, the request is finished.
LEMMA CommitFailsStep ==
  ASSUME IInv, NEW l \in Lane, CommitFails(l)
  PROVE  IInv' /\ Settles
<1>1. /\ dpc = <<"copy", l>> /\ HandBack(l) /\ Finish(lane[l].request, TRUE)
      /\ context' = [context EXCEPT ![lane[l].request] = 0]
      /\ UNCHANGED <<queue, stopping, decoding, finished, stopped, rpcVars, prefillVars>>
  BY DEF CommitFails
<1> USE DEF rpcVars, prefillVars
<1>2. /\ lane[l].prefill = "ok" /\ Alive /\ Agreement
      /\ chan[l] = Silent /\ orphan[l] = Silent /\ Held(lane[l].request)
  BY <1>1, CopyFacts
<1>3. PICK r \in Request : r = lane[l].request
  BY <1>2, PrefillLane
<1>4. /\ lane'[l].request = NoRequest
      /\ \A k \in Lane : k # l => lane'[k].request = lane[k].request
  BY <1>1, TypeFacts DEF IInv, HandBack
<1>5. /\ AdmissionExact' /\ Promised' /\ Settles
      /\ active' \in [Lane -> Nat] /\ used' \in [Lane -> Nat]
  BY <1>1, <1>3, <1>4, FinishOne
<1>6. /\ handle' \in [Request -> HandleStates]
      /\ \A q \in Request : handle'[q] = "new" => handle[q] = "new"
  BY <1>5, SettlesIsFinal, TypeFacts DEF IInv
<1>7. /\ Placement' /\ Agreement' /\ lane' \in [Lane -> LaneRecord]
      /\ dpc' = <<"dispatch", l>>
  BY <1>1, <1>2, <1>6, BecomesRelease
<1>8. Typed'
  BY <1>1, <1>3, <1>5, <1>6, <1>7, MovedOn
     DEF IInv, Typed, TypeOK, LaneRecord, HandleStates
<1>9. Contexts'
  <2>1. Running' = Running
    BY <1>1 DEF Running
  <2>2. \A k \in Lane : dpc' # <<"copy", k>>
    BY <1>7, PlacesApart
  <2>3. \A q \in Request : LaneOf[q] \in Lane
    BY RequestAssumption
  <2>4. ASSUME NEW q \in Request
        PROVE  /\ q \in Running => context'[q] = context[q]
               /\ q \notin Running => context'[q] = 0
    BY <1>1, <1>3, CopyFacts, SMT, ZenonT(60) DEF IInv, Typed, TypeOK
  <2>5. QED
    BY <1>1, <2>1, <2>2, <2>3, <2>4 DEF IInv, Contexts, Copying
<1>10. QED
  BY <1>5, <1>7, <1>8, <1>9 DEF IInv

\* The copy is done: the request is decoded on, or finished with its one token.
LEMMA CopyEndsStep ==
  ASSUME IInv, NEW l \in Lane, CopyEnds(l)
  PROVE  IInv' /\ Settles
<1>1. dpc = <<"copy", l>>
  BY DEF CopyEnds
<1>2. /\ lane[l].prefill = "ok" /\ Alive /\ Agreement
      /\ chan[l] = Silent /\ orphan[l] = Silent /\ Held(lane[l].request)
  BY <1>1, CopyFacts
<1>3. PICK r \in Request : /\ r = lane[l].request /\ LaneOf[r] = l /\ r \notin decoding
                           /\ handle[r] # "new"
  BY <1>2, PrefillLane
<1>4. /\ HandBack(l) /\ decoding' = decoding \cup {r}
      /\ \/ UNCHANGED <<handle, stopped>>
         \/ /\ handle' = [handle EXCEPT ![r] = Outcome(r, FALSE)]
            /\ stopped' = stopped \cup {r}
      /\ IF Generated(r) >= Output[r]
         THEN /\ finished' = finished \cup {[request |-> r, failed |-> FALSE]}
              /\ context' = [context EXCEPT ![r] = 0]
         ELSE UNCHANGED <<finished, context>>
      /\ UNCHANGED <<queue, stopping, admissionVars, rpcVars, prefillVars>>
  BY <1>3 DEF CopyEnds
<1> USE DEF admissionVars, rpcVars, prefillVars
<1>5. /\ handle \in [Request -> HandleStates] /\ context \in [Request -> Nat]
      /\ finished \subseteq [request : Request, failed : BOOLEAN]
      /\ Prompt[r] \in Nat /\ Output[r] \in Nat
  BY TypeFacts, RequestAssumption DEF IInv, Typed, TypeOK
<1>6. Settles
  BY <1>3, <1>4, <1>5 DEF Settles
<1>7. /\ handle' \in [Request -> HandleStates]
      /\ \A q \in Request : handle'[q] = "new" => handle[q] = "new"
  BY <1>5, <1>6, SettlesIsFinal
<1>8. /\ Placement' /\ Agreement' /\ lane' \in [Lane -> LaneRecord]
      /\ lane'[l].request = NoRequest /\ \A k \in Lane : k # l => lane'[k] = lane[k]
      /\ dpc' = <<"dispatch", l>>
  BY <1>2, <1>3, <1>4, <1>7, BecomesRelease
<1>9. /\ finished' \subseteq [request : Request, failed : BOOLEAN]
      /\ context' \in [Request -> Nat]
      /\ stopped' \subseteq Request /\ decoding' \subseteq Request
  <2>1. [request |-> r, failed |-> FALSE] \in [request : Request, failed : BOOLEAN]
    OBVIOUS
  <2>2. finished' \subseteq [request : Request, failed : BOOLEAN]
    BY <1>4, <1>5, <2>1, SMT, ZenonT(60)
  <2>3. context' \in [Request -> Nat]
    BY <1>4, <1>5
  <2>4. QED
    BY <1>4, <2>2, <2>3 DEF IInv, Typed, TypeOK
<1>10. Typed'
  BY <1>4, <1>7, <1>8, <1>9, MovedOn
     DEF IInv, Typed, TypeOK, LaneRecord, HandleStates
<1>11. ASSUME NEW k \in Lane
       PROVE  Admitted(k)' = Admitted(k)
  <2>1. r # NoRequest
    BY RequestAssumption
  <2>2. CASE k = l
    BY <1>3, <1>4, <1>8, <2>1, <2>2 DEF Admitted
  <2>3. CASE k # l
    BY <1>3, <1>4, <1>8, <2>3 DEF Admitted
  <2>4. QED
    BY <2>2, <2>3
<1>12. AdmissionExact' /\ Promised'
  BY <1>4, <1>11, AdmissionFrame DEF IInv
<1>13. Contexts'
  <2>1. \A f \in finished : f.request \in decoding /\ f.request # r
    BY <1>3 DEF IInv, Contexts
  <2>2. \A f \in finished' : f.request \in decoding'
    BY <1>4, <2>1
  <2>3. \A k \in Lane : dpc' # <<"copy", k>>
    BY <1>8, PlacesApart
  <2>4. ASSUME NEW q \in Request
        PROVE  ~ Copying(q)'
    BY <2>3, RequestAssumption DEF Copying
  <2>5. /\ r \notin Running /\ context[r] = Prompt[r]
        /\ \A q \in Request : q \notin Running /\ q # r => context[q] = 0
    BY <1>1, <1>3, CopyFacts
  <2>6. CASE Generated(r) >= Output[r]
    <3>1. PICK g : g.request = r /\ finished' = finished \cup {g}
      BY <1>4, <2>6
    <3>2. {f.request : f \in finished'} = {f.request : f \in finished} \cup {r}
      BY <3>1
    <3>3. Running' = Running
      BY <1>3, <1>4, <3>2 DEF Running
    <3>4. ASSUME NEW q \in Request
          PROVE  /\ q \in Running => context'[q] = context[q]
                 /\ q \notin Running => context'[q] = 0
      BY <1>4, <1>5, <2>5, <2>6
    <3>5. QED
      BY <2>2, <2>3, <2>4, <3>3, <3>4 DEF IInv, Contexts
  <2>7. CASE ~ Generated(r) >= Output[r]
    <3>1. finished' = finished /\ context' = context
      BY <1>4, <2>7
    <3>2. Running' = Running \cup {r}
      BY <1>4, <2>1, <3>1 DEF Running
    <3>3. context[r] \in Prompt[r]..(Prompt[r] + Output[r] - 2)
      BY <1>5, <2>5, <2>7 DEF Generated
    <3>4. QED
      BY <2>2, <2>3, <2>4, <2>5, <3>1, <3>2, <3>3 DEF IInv, Contexts
  <2>8. QED
    BY <2>6, <2>7
<1>14. QED
  BY <1>6, <1>8, <1>10, <1>12, <1>13 DEF IInv

-----------------------------------------------------------------------------
(* D, the next request of a lane.                                            *)

\* p is q without its first n elements.
IsRest(p, q, n) ==
  /\ p \in Seq(Request) /\ n \in 0..Len(q) /\ Len(p) = Len(q) - n
  /\ \A i \in 1..Len(p) : p[i] = q[i + n]

\* What dispatching does to a queue: the first n elements, all cancelled, go.
LEMMA PrunedIsRest ==
  ASSUME Typed, NEW l \in Lane
  PROVE  \E n \in Nat : /\ IsRest(Pruned(l), queue[l], n)
                        /\ PrunedHandle(l) =
                             [r \in Request |-> IF \E k \in 1..n : queue[l][k] = r
                                                THEN Outcome(r, FALSE) ELSE handle[r]]
<1> DEFINE q == queue[l]
           S == {k \in 1..(Len(q) + 1) : k > Len(q) \/ ~ Cancelled(q[k])}
           first == Min(S)
<1>1. q \in Seq(Request) /\ Len(q) \in Nat
  BY TypeFacts
<1>2. S \subseteq Nat /\ Len(q) + 1 \in S
  BY <1>1
<1>3. first \in S
  <2> HIDE DEF S
  <2>1. \E x \in S : \A y \in S : x <= y
    BY <1>2, LeastElement
  <2>2. QED
    BY <2>1 DEF Min
<1>4. Pruned(l) = SubSeq(q, first, Len(q))
  BY DEF Pruned
<1>5. first \in 1..(Len(q) + 1)
  BY <1>3
<1> HIDE DEF first, q
<1>6. \A i \in first..Len(q) : q[i] \in Request
  BY <1>1, <1>5
<1>7. /\ SubSeq(q, first, Len(q)) \in Seq(Request)
      /\ Len(SubSeq(q, first, Len(q))) = IF first <= Len(q) THEN Len(q) - first + 1 ELSE 0
      /\ \A i \in 1..(Len(q) - first + 1) :
           SubSeq(q, first, Len(q))[i] = q[first + i - 1]
  BY <1>1, <1>5, <1>6, SubSeqProperties
<1> DEFINE n == first - 1
<1>8. /\ n \in 0..Len(q) /\ n \in Nat /\ Len(Pruned(l)) = Len(q) - n
      /\ \A i \in 1..Len(Pruned(l)) : Pruned(l)[i] = q[i + n]
  <2>1. first \in Int /\ Len(Pruned(l)) = Len(q) - n
    BY <1>1, <1>4, <1>5, <1>7
  <2>2. ASSUME NEW i \in 1..Len(Pruned(l))
        PROVE  Pruned(l)[i] = q[i + n]
    <3>1. i \in 1..(Len(q) - first + 1) /\ first + i - 1 = i + n
      BY <1>1, <2>1
    <3>2. Pruned(l)[i] = q[first + i - 1]
      BY <1>4, <1>7, <3>1
    <3>3. QED
      BY <3>1, <3>2
  <2>3. QED
    BY <1>1, <1>5, <2>1, <2>2
<1>9. IsRest(Pruned(l), q, n)
  BY <1>4, <1>7, <1>8 DEF IsRest
<1>10. PrunedHandle(l) = [r \in Request |-> IF \E k \in 1..n : q[k] = r
                                            THEN Outcome(r, FALSE) ELSE handle[r]]
  <2>1. Len(q) - Len(Pruned(l)) = n
    BY <1>1, <1>8
  <2>2. PrunedHandle(l) = [r \in Request |->
          IF r \in {q[k] : k \in 1..(Len(q) - Len(Pruned(l)))}
          THEN Outcome(r, FALSE) ELSE handle[r]]
    BY DEF PrunedHandle, q
  <2>3. \A r \in Request : r \in {q[k] : k \in 1..n} <=> \E k \in 1..n : q[k] = r
    OBVIOUS
  <2> HIDE DEF n
  <2>4. QED
    BY <2>1, <2>2, <2>3
<1>11. QED
  BY <1>8, <1>9, <1>10 DEF q

\* A queue that loses its first elements keeps its shape.
LEMMA RestKeepsShape ==
  ASSUME Typed, NEW l \in Lane, QueueShape(l), NEW p, NEW n, IsRest(p, queue[l], n),
         queue' = [queue EXCEPT ![l] = p]
  PROVE  /\ queue' \in [Lane -> Seq(Request)]
         /\ QueueShape(l)'
         /\ \A k \in Lane : k # l => queue'[k] = queue[k]
         /\ \A r \in Request : InQueue(r)' => InQueue(r)
         /\ \A k \in 1..n : queue[l][k] \in Request
         /\ \A r \in Request : (\E k \in 1..n : queue[l][k] = r)
                                => InQueue(r) /\ ~ InQueue(r)' /\ LaneOf[r] = l
<1> DEFINE q == queue[l]
<1>1. /\ q \in Seq(Request) /\ Len(q) \in Nat /\ Len(p) \in Nat
      /\ n \in Nat /\ n <= Len(q) /\ Len(p) = Len(q) - n
      /\ \A i \in 1..Len(p) : p[i] = q[i + n] /\ i + n \in 1..Len(q)
      /\ p \in Seq(Request)
  BY TypeFacts DEF IsRest
<1>2. /\ queue'[l] = p /\ \A k \in Lane : k # l => queue'[k] = queue[k]
      /\ queue' \in [Lane -> Seq(Request)]
  BY <1>1, TypeFacts
<1>3. \A i \in 1..Len(q) : /\ LaneOf[q[i]] = l /\ q[i] \in Request
                           /\ \A j \in 1..Len(q) : q[i] = q[j] => i = j
  BY <1>1 DEF QueueShape
<1> HIDE DEF q
<1>4. QueueShape(l)'
  <2>1. ASSUME NEW i \in 1..Len(p)
        PROVE  LaneOf[p[i]] = l /\ \A j \in 1..Len(p) : p[i] = p[j] => i = j
    BY <1>1, <1>3, SMTT(40)
  <2>2. QED
    BY <1>2, <2>1 DEF QueueShape
<1>5. ASSUME NEW r \in Request, InQueue(r)'
      PROVE  InQueue(r)
  <2>1. CASE LaneOf[r] = l
    <3>1. PICK i \in 1..Len(p) : p[i] = r
      BY <1>2, <1>5, <2>1 DEF InQueue
    <3>2. i + n \in 1..Len(q) /\ q[i + n] = r
      BY <1>1, <3>1
    <3>3. QED
      BY <2>1, <3>2 DEF InQueue, q
  <2>2. CASE LaneOf[r] # l
    BY <1>2, <1>5, <2>2, RequestAssumption DEF InQueue
  <2>3. QED
    BY <2>1, <2>2
<1>6. ASSUME NEW r \in Request, NEW k \in 1..n, q[k] = r
      PROVE  InQueue(r) /\ ~ InQueue(r)' /\ LaneOf[r] = l
  <2>1. k \in 1..Len(q)
    BY <1>1
  <2>2. LaneOf[r] = l
    BY <1>3, <1>6, <2>1
  <2>3. InQueue(r)
    BY <1>6, <2>1, <2>2 DEF InQueue, q
  <2>4. \A i \in 1..Len(p) : p[i] # r
    BY <1>1, <1>3, <1>6, <2>1
  <2>5. ~ InQueue(r)'
    BY <1>2, <2>2, <2>4 DEF InQueue
  <2>6. QED
    BY <2>2, <2>3, <2>5
<1>7. \A k \in 1..n : q[k] \in Request
  BY <1>1
<1>8. QED
  BY <1>2, <1>4, <1>5, <1>6, <1>7 DEF q

\* A non-empty rest: its head, and what remains without it.
LEMMA RestHead ==
  ASSUME NEW q \in Seq(Request), NEW p, NEW n \in Nat, IsRest(p, q, n), p # <<>>
  PROVE  /\ IsRest(Tail(p), q, n + 1)
         /\ Head(p) \in Request /\ Head(p) = q[n + 1] /\ n + 1 \in 1..(n + 1)
<1>1. /\ p \in Seq(Request) /\ n \in 0..Len(q) /\ Len(p) = Len(q) - n
      /\ Len(q) \in Nat /\ Len(p) \in Nat
      /\ \A i \in 1..Len(p) : p[i] = q[i + n]
  BY DEF IsRest
<1>2. Len(p) > 0 /\ Head(p) = p[1] /\ Head(p) \in Request
  BY <1>1
<1>3. /\ Tail(p) \in Seq(Request) /\ Len(Tail(p)) = Len(p) - 1
      /\ \A i \in 1..Len(Tail(p)) : Tail(p)[i] = p[i + 1]
  BY <1>1, HeadTailProperties
<1>4. ASSUME NEW i \in 1..Len(Tail(p))
      PROVE  Tail(p)[i] = q[i + (n + 1)]
  <2>1. i + 1 \in 1..Len(p) /\ (i + 1) + n = i + (n + 1)
    BY <1>1, <1>3
  <2>2. QED
    BY <1>1, <1>3, <2>1
<1>5. Head(p) = q[n + 1]
  <2>1. 1 \in 1..Len(p) /\ 1 + n = n + 1
    BY <1>1, <1>2
  <2>2. QED
    BY <1>1, <1>2, <2>1
<1>6. IsRest(Tail(p), q, n + 1)
  BY <1>1, <1>2, <1>3, <1>4 DEF IsRest
<1>7. QED
  BY <1>2, <1>5, <1>6

\* Dispatching settles the handles of cancelled requests, and one too large.
LEMMA DispatchSettles ==
  ASSUME IInv, NEW l \in Lane,
         \/ handle' = PrunedHandle(l)
         \/ \E h \in Request : /\ handle[h] # "new"
                               /\ handle' = [PrunedHandle(l) EXCEPT ![h] = Outcome(h, TRUE)]
  PROVE  Settles
<1>1. PICK n \in Nat :
        /\ IsRest(Pruned(l), queue[l], n)
        /\ PrunedHandle(l) = [r \in Request |-> IF \E k \in 1..n : queue[l][k] = r
                                                THEN Outcome(r, FALSE) ELSE handle[r]]
  BY PrunedIsRest DEF IInv
<1>2. ASSUME NEW r \in Request, NEW k \in 1..n, queue[l][k] = r
      PROVE  handle[r] # "new"
  <2>1. QueueShape(l) /\ Placed(r)
    BY DEF IInv, Placement
  <2>2. queue[l] \in Seq(Request) /\ Len(queue[l]) \in Nat
    BY TypeFacts DEF IInv
  <2>3. k \in 1..Len(queue[l])
    BY <1>1, <2>2 DEF IsRest
  <2>4. InQueue(r)
    BY <1>2, <2>1, <2>3 DEF QueueShape, InQueue
  <2>5. QED
    BY <2>1, <2>4 DEF Placed
<1>3. ASSUME NEW r \in Request
      PROVE  \/ PrunedHandle(l)[r] = handle[r]
             \/ handle[r] # "new" /\ PrunedHandle(l)[r] = Outcome(r, FALSE)
  BY <1>1, <1>2
<1>4. DOMAIN PrunedHandle(l) = Request
  BY <1>1
<1>5. CASE handle' = PrunedHandle(l)
  <2>1. handle' = [r \in DOMAIN handle' |-> handle'[r]]
    BY <1>1, <1>5
  <2>2. QED
    BY <1>3, <1>4, <1>5, <2>1 DEF Settles
<1>6. ASSUME NEW h \in Request, handle[h] # "new",
             handle' = [PrunedHandle(l) EXCEPT ![h] = Outcome(h, TRUE)]
      PROVE  Settles
  <2>1. DOMAIN handle' = Request /\ handle' = [r \in DOMAIN handle' |-> handle'[r]]
    BY <1>4, <1>6
  <2>2. /\ handle'[h] = Outcome(h, TRUE)
        /\ \A r \in Request : r # h => handle'[r] = PrunedHandle(l)[r]
    BY <1>4, <1>6
  <2>3. QED
    BY <1>3, <1>6, <2>1, <2>2, SMT, ZenonT(60) DEF Settles
<1>7. QED
  BY <1>5, <1>6

\* The head of a queue waits, or is turned away for good.
LEMMA HeadStaysOrGoes ==
  ASSUME IInv, NEW l \in Lane, HeadWaits(l) \/ HeadTooLarge(l)
  PROVE  IInv' /\ Settles
<1>1. /\ dpc = <<"dispatch", l>> /\ dpc' = After(l)
      /\ UNCHANGED <<stopping, lane, admissionVars, decodeVars, rpcVars, prefillVars>>
  BY DEF HeadWaits, HeadTooLarge, Dispatching
<1> USE DEF admissionVars, decodeVars, rpcVars, prefillVars
<1>2. PICK n \in Nat : IsRest(Pruned(l), queue[l], n)
  BY PrunedIsRest DEF IInv
<1>3. queue[l] \in Seq(Request) /\ QueueShape(l)
  BY TypeFacts DEF IInv, Placement
<1>4. \E p, m : IsRest(p, queue[l], m) /\ queue' = [queue EXCEPT ![l] = p]
  <2>1. CASE HeadWaits(l)
    BY <1>2, <2>1 DEF HeadWaits
  <2>2. CASE HeadTooLarge(l)
    BY <1>2, <1>3, <2>2, RestHead DEF HeadTooLarge
  <2>3. QED
    BY <2>1, <2>2
<1>5. Settles
  <2>1. CASE HeadWaits(l)
    BY <2>1, DispatchSettles DEF HeadWaits
  <2>2. CASE HeadTooLarge(l)
    <3>1. PICK h \in Request : /\ h = Head(Pruned(l)) /\ h = queue[l][n + 1]
                               /\ IsRest(Tail(Pruned(l)), queue[l], n + 1)
      BY <1>2, <1>3, <2>2, RestHead DEF HeadTooLarge
    <3>2. n + 1 \in 1..Len(queue[l])
      BY <1>3, <3>1 DEF IsRest
    <3>3. InQueue(h)
      BY <1>3, <3>1, <3>2 DEF QueueShape, InQueue
    <3>4. handle[h] # "new"
      BY <3>3 DEF IInv, Placement, Placed
    <3>5. handle' = [PrunedHandle(l) EXCEPT ![h] = Outcome(h, TRUE)]
      BY <2>2, <3>1 DEF HeadTooLarge
    <3>6. QED
      BY <3>4, <3>5, DispatchSettles
  <2>3. QED
    BY <2>1, <2>2
<1>6. /\ handle' \in [Request -> HandleStates]
      /\ \A r \in Request : handle'[r] = "new" => handle[r] = "new"
  BY <1>5, SettlesIsFinal, TypeFacts DEF IInv
<1>7. /\ queue' \in [Lane -> Seq(Request)] /\ QueueShape(l)'
      /\ \A k \in Lane : k # l => queue'[k] = queue[k]
      /\ \A r \in Request : InQueue(r)' => InQueue(r)
  BY <1>3, <1>4, RestKeepsShape DEF IInv
<1>8. Placement'
  <2>1. ASSUME NEW k \in Lane
        PROVE  LaneShape(k)' /\ QueueShape(k)'
    <3>1. LaneShape(k) /\ QueueShape(k)
      BY DEF IInv, Placement
    <3>2. LaneShape(k)'
      BY <1>1, <3>1 DEF LaneShape
    <3>3. QueueShape(k)'
      BY <1>7, <3>1 DEF QueueShape
    <3>4. QED
      BY <3>2, <3>3
  <2>2. ASSUME NEW r \in Request
        PROVE  Moves(r)
    <3>1. (InLane(r)' => InLane(r)) /\ (Leaving(r)' => Leaving(r))
      BY <1>1 DEF InLane, Leaving
    <3>2. r \in decoding' => r \in decoding
      BY <1>1
    <3>3. QED
      BY <1>6, <1>7, <3>1, <3>2 DEF Moves
  <2>3. QED
    BY <2>1, <2>2, PlacementStep DEF IInv
<1>9. /\ Alive /\ After(l) \in Places /\ After(l) # <<"stopped">> /\ After(l) # <<"dead">>
      /\ \A k \in Lane : dpc # <<"copy", k>> /\ dpc' # <<"copy", k>>
  BY <1>1, AfterIsPlace, PlacesApart DEF Alive
<1>10. Typed'
  BY <1>1, <1>6, <1>7, <1>9 DEF IInv, Typed, TypeOK, HandleStates
<1>11. Agreement'
  BY <1>1, <1>9, AgreementFrame DEF IInv
<1>12. Contexts'
  BY <1>1, <1>9, ContextsFrame DEF IInv
<1>13. AdmissionExact' /\ Promised'
  BY <1>1, AdmissionFrame, AdmittedFrame DEF IInv
<1>14. QED
  BY <1>5, <1>8, <1>10, <1>11, <1>12, <1>13 DEF IInv

\* A lane that is not busy has no request, no exchange and nothing late at P.
LEMMA IdleLaneFacts ==
  ASSUME IInv, Agreement, NEW l \in Lane, ~ LaneBusy(l)
  PROVE  /\ lane[l].prefill = "none" /\ lane[l].releasing = "none"
         /\ lane[l].request = NoRequest /\ lane[l].handoff = NoRequest
         /\ chan[l] = Silent /\ orphan[l] = Silent
<1>1. LaneShape(l) /\ LostAgrees(l)
  BY DEF IInv, Placement, Agreement
<1>2. QED
  BY <1>1 DEF LaneBusy, LaneShape, LostAgrees

\* One more request is admitted, and counted.
LEMMA AdmitOne ==
  ASSUME IInv, NEW l \in Lane, NEW r \in Request, LaneOf[r] = l, CanAcquire(r),
         r \notin Admitted(l), Admitted(l)' = Admitted(l) \cup {r},
         \A k \in Lane : k # l => Admitted(k)' = Admitted(k),
         active' = [active EXCEPT ![l] = @ + 1],
         used' = [used EXCEPT ![l] = @ + Charge(r)]
  PROVE  /\ AdmissionExact' /\ Promised'
         /\ active' \in [Lane -> Nat] /\ used' \in [Lane -> Nat]
<1>1. active \in [Lane -> Nat] /\ used \in [Lane -> Nat] /\ Charge(r) \in Nat
  BY ChargeNat DEF IInv, Typed, TypeOK
<1>2. /\ active' \in [Lane -> Nat] /\ used' \in [Lane -> Nat]
      /\ active'[l] = active[l] + 1 /\ used'[l] = used[l] + Charge(r)
      /\ \A k \in Lane : k # l => active'[k] = active[k] /\ used'[k] = used[k]
  BY <1>1
<1>3. Slots[l] \in Nat /\ Tokens[l] \in Nat
  BY CapacityAssumption
<1>4. active'[l] <= Slots[l] /\ used'[l] <= Tokens[l]
  BY <1>1, <1>2, <1>3 DEF CanAcquire
<1>5. Admitted(l) \subseteq Request /\ IsFiniteSet(Admitted(l))
  BY AdmittedFacts DEF IInv
<1>6. Cardinality(Admitted(l) \cup {r}) = Cardinality(Admitted(l)) + 1
  BY <1>5, FS_AddElement
<1>7. ChargeOf(Admitted(l) \cup {r}) = ChargeOf(Admitted(l)) + Charge(r)
  BY <1>5, ChargeAdds
<1>8. ASSUME NEW k \in Lane
      PROVE  active'[k] = Cardinality(Admitted(k)') /\ used'[k] = ChargeOf(Admitted(k)')
  <2>1. active[k] = Cardinality(Admitted(k)) /\ used[k] = ChargeOf(Admitted(k))
    BY DEF IInv, AdmissionExact
  <2>2. CASE k = l
    BY <1>2, <1>6, <1>7, <2>1, <2>2
  <2>3. CASE k # l
    BY <1>2, <2>1, <2>3
  <2>4. QED
    BY <2>2, <2>3
<1>9. AdmissionExact'
  BY <1>8 DEF AdmissionExact, ChargeOf
<1>10. Promised'
  BY <1>2, <1>4 DEF Promised, IInv
<1>11. QED
  BY <1>2, <1>9, <1>10

\* The head of a queue is admitted and becomes the request of its lane.
LEMMA HeadDispatchedStep ==
  ASSUME IInv, NEW l \in Lane, HeadDispatched(l)
  PROVE  IInv' /\ Settles
<1>1. /\ dpc = <<"dispatch", l>> /\ dpc' = After(l) /\ ~ LaneBusy(l)
      /\ Pruned(l) # <<>> /\ handle' = PrunedHandle(l)
      /\ UNCHANGED <<stopping, decodeVars, rpcVars, prefillVars>>
  BY DEF HeadDispatched, Dispatching
<1> USE DEF decodeVars, rpcVars, prefillVars
<1>2. PICK n \in Nat : IsRest(Pruned(l), queue[l], n)
  BY PrunedIsRest DEF IInv
<1>3. queue[l] \in Seq(Request) /\ QueueShape(l) /\ lane \in [Lane -> LaneRecord]
  BY TypeFacts DEF IInv, Placement
<1>4. PICK r \in Request : /\ r = Head(Pruned(l)) /\ r = queue[l][n + 1]
                           /\ n + 1 \in 1..(n + 1)
                           /\ IsRest(Tail(Pruned(l)), queue[l], n + 1)
  BY <1>1, <1>2, <1>3, RestHead
<1>5. /\ queue' = [queue EXCEPT ![l] = Tail(Pruned(l))] /\ CanAcquire(r)
      /\ active' = [active EXCEPT ![l] = @ + 1] /\ used' = [used EXCEPT ![l] = @ + Charge(r)]
      /\ lane' = [lane EXCEPT ![l].request = r, ![l].prefill = "start"]
  BY <1>4 DEF HeadDispatched
<1>6. /\ queue' \in [Lane -> Seq(Request)] /\ QueueShape(l)'
      /\ \A k \in Lane : k # l => queue'[k] = queue[k]
      /\ \A q \in Request : InQueue(q)' => InQueue(q)
      /\ \A q \in Request : (\E k \in 1..(n + 1) : queue[l][k] = q)
                             => InQueue(q) /\ ~ InQueue(q)' /\ LaneOf[q] = l
  <2> DEFINE m == n + 1
  <2>1. PICK p : IsRest(p, queue[l], m) /\ queue' = [queue EXCEPT ![l] = p] /\ Typed
    BY <1>4, <1>5 DEF IInv
  <2> HIDE DEF m
  <2>2. QueueShape(l)
    BY <1>3
  <2>3. /\ queue' \in [Lane -> Seq(Request)] /\ QueueShape(l)'
        /\ \A k \in Lane : k # l => queue'[k] = queue[k]
        /\ \A q \in Request : InQueue(q)' => InQueue(q)
    BY <2>1, <2>2, RestKeepsShape
  <2>4. ASSUME NEW q \in Request, NEW k \in 1..m, queue[l][k] = q
        PROVE  InQueue(q) /\ ~ InQueue(q)' /\ LaneOf[q] = l
    BY <2>1, <2>2, <2>4, RestKeepsShape, SMT, ZenonT(60)
  <2>5. QED
    BY <2>3, <2>4 DEF m
<1>7. InQueue(r) /\ ~ InQueue(r)' /\ LaneOf[r] = l /\ r # NoRequest
  BY <1>4, <1>6, RequestAssumption
<1>8. ~ InLane(r) /\ ~ Leaving(r) /\ r \notin decoding
  BY <1>7 DEF IInv, Placement, Placed
<1>9. /\ Alive /\ Agreement /\ After(l) \in Places /\ After(l) # <<"stopped">>
      /\ \A k \in Lane : dpc # <<"copy", k>> /\ dpc' # <<"copy", k>>
  BY <1>1, AfterIsPlace, PlacesApart DEF Alive, IInv
<1>10. /\ lane[l].prefill = "none" /\ lane[l].releasing = "none"
       /\ lane[l].request = NoRequest /\ lane[l].handoff = NoRequest
       /\ chan[l] = Silent /\ orphan[l] = Silent
  BY <1>1, <1>9, IdleLaneFacts
<1>11. /\ lane' \in [Lane -> LaneRecord]
       /\ lane'[l].request = r /\ lane'[l].prefill = "start"
       /\ lane'[l].releasing = "none" /\ lane'[l].handoff = NoRequest
       /\ \A k \in Lane : k # l => lane'[k] = lane[k]
  BY <1>3, <1>5, <1>10 DEF LaneRecord, PrefillStates
<1>12. Settles
  BY <1>1, DispatchSettles
<1>13. /\ handle' \in [Request -> HandleStates]
       /\ \A q \in Request : handle'[q] = "new" => handle[q] = "new"
  BY <1>12, SettlesIsFinal, TypeFacts DEF IInv
<1>14. Placement'
  <2>1. ASSUME NEW k \in Lane
        PROVE  LaneShape(k)' /\ QueueShape(k)'
    <3>1. LaneShape(k) /\ QueueShape(k)
      BY DEF IInv, Placement
    <3>2. QueueShape(k)'
      BY <1>6, <3>1, SMTT(40) DEF QueueShape
    <3>3. CASE k = l
      BY <1>7, <1>11, <3>2, <3>3, RequestAssumption DEF LaneShape
    <3>4. CASE k # l
      BY <1>11, <3>1, <3>2, <3>4 DEF LaneShape
    <3>5. QED
      BY <3>3, <3>4
  <2>2. ASSUME NEW q \in Request
        PROVE  Moves(q)
    <3>1. LaneOf[q] \in Lane /\ q # NoRequest
      BY RequestAssumption
    <3>2. InLane(q)' => InLane(q) \/ q = r
      BY <1>11, <3>1 DEF InLane
    <3>3. Leaving(q)' => Leaving(q)
      BY <1>11, <3>1 DEF Leaving
    <3>4. q \in decoding' => q \in decoding
      BY <1>1
    <3>5. QED
      BY <1>6, <1>7, <1>13, <3>2, <3>3, <3>4 DEF Moves
  <2>3. QED
    BY <2>1, <2>2, PlacementStep DEF IInv
<1>15. Agreement'
  <2>1. OnlyLane(l)
    BY <1>1, <1>11 DEF OnlyLane, SameLane, SameJob
  <2>2. Gone(r)'
    BY <1>1, <1>8, <1>9 DEF Agreement, Gone
  <2>3. PrefillAgrees(l)' /\ ReleaseAgrees(l)' /\ LostAgrees(l)'
    BY <1>1, <1>10, <1>11, <2>2 DEF PrefillAgrees, ReleaseAgrees, LostAgrees, LaneBusy
  <2>4. ASSUME NEW q \in Request, LaneOf[q] = l, ~ InLane(q)'
        PROVE  Gone(q)'
    <3>1. ~ InLane(q) /\ ~ Leaving(q)
      BY <1>10, <2>4, RequestAssumption DEF InLane, Leaving
    <3>2. QED
      BY <1>1, <1>9, <3>1 DEF Agreement, Gone
  <2>5. QED
    BY <1>1, <1>9, <2>1, <2>3, <2>4, AgreementStep DEF IInv
<1>16. /\ AdmissionExact' /\ Promised'
       /\ active' \in [Lane -> Nat] /\ used' \in [Lane -> Nat]
  <2>1. r \notin Admitted(l) /\ Admitted(l)' = Admitted(l) \cup {r}
    BY <1>1, <1>7, <1>8, <1>10, <1>11 DEF Admitted
  <2>2. \A k \in Lane : k # l => Admitted(k)' = Admitted(k)
    BY <1>1, <1>11 DEF Admitted
  <2>3. QED
    BY <1>5, <1>7, <2>1, <2>2, AdmitOne
<1>17. Typed'
  BY <1>1, <1>6, <1>9, <1>11, <1>13, <1>16, SMT, ZenonT(60)
  DEF IInv, Typed, TypeOK, LaneRecord, HandleStates
<1>18. Contexts'
  BY <1>1, <1>9, ContextsFrame DEF IInv
<1>19. QED
  BY <1>12, <1>14, <1>15, <1>16, <1>17, <1>18 DEF IInv

-----------------------------------------------------------------------------
(* D, the batch.                                                             *)

\* Requests that end in the decoder are no longer running.
LEMMA RunningEnds ==
  ASSUME IInv, NEW out, out \subseteq Running, NEW b \in BOOLEAN,
         finished' = finished \cup {[request |-> r, failed |-> b] : r \in out},
         decoding' = decoding
  PROVE  /\ Running' = Running \ out
         /\ finished' \subseteq [request : Request, failed : BOOLEAN]
         /\ \A f \in finished' : f.request \in decoding'
<1>1. /\ finished \subseteq [request : Request, failed : BOOLEAN]
      /\ decoding \subseteq Request /\ \A f \in finished : f.request \in decoding
  BY DEF IInv, Typed, TypeOK, Contexts
<1> DEFINE new == {[request |-> r, failed |-> b] : r \in out}
<1>2. /\ \A f \in new : f.request \in out
      /\ \A r \in out : \E f \in new : f.request = r
      /\ new \subseteq [request : Request, failed : BOOLEAN]
  <2>1. \A f \in new : f.request \in out
    OBVIOUS
  <2>2. ASSUME NEW r \in out
        PROVE  \E f \in new : f.request = r
    <3>1. [request |-> r, failed |-> b] \in new
      OBVIOUS
    <3>2. QED
      BY <3>1
  <2>3. ASSUME NEW f \in new
        PROVE  f \in [request : Request, failed : BOOLEAN]
    BY <1>1 DEF Running
  <2>4. QED
    BY <2>1, <2>2, <2>3
<1>3. finished' = finished \cup new
  OBVIOUS
<1> HIDE DEF new
<1>4. Running' = Running \ out
  BY <1>2, <1>3 DEF Running
<1>5. \A f \in finished' : f.request \in decoding'
  BY <1>1, <1>2, <1>3 DEF Running
<1>6. QED
  BY <1>1, <1>2, <1>3, <1>4, <1>5

\* A step of the batch: some requests end, the others have their tokens.
LEMMA BatchContexts ==
  ASSUME IInv, NEW out, out \subseteq Running, NEW b \in BOOLEAN,
         finished' = finished \cup {[request |-> r, failed |-> b] : r \in out},
         decoding' = decoding,
         \A l \in Lane : dpc # <<"copy", l>> /\ dpc' # <<"copy", l>>,
         \A r \in Request :
           /\ r \in out => context'[r] = 0
           /\ r \in Running \ out =>
                context'[r] \in Prompt[r]..(Prompt[r] + Output[r] - 2)
           /\ r \notin Running => context'[r] = context[r]
  PROVE  Contexts'
<1>1. /\ Running' = Running \ out
      /\ \A f \in finished' : f.request \in decoding'
  BY RunningEnds
<1>2. \A r \in Request : ~ Copying(r) /\ ~ Copying(r)'
  BY RequestAssumption DEF Copying
<1>3. \A r \in Request : r \notin Running => context[r] = 0
  BY <1>2 DEF IInv, Contexts
<1>4. QED
  BY <1>1, <1>2, <1>3 DEF Contexts

\* What a step of the batch leaves alone.
LEMMA BatchFrame ==
  ASSUME IInv, Alive, Settles,
         UNCHANGED <<queue, stopping, lane, decoding, admissionVars, rpcVars, prefillVars>>,
         dpc' # <<"stopped">>
  PROVE  /\ Placement' /\ Agreement' /\ AdmissionExact' /\ Promised'
         /\ handle' \in [Request -> HandleStates]
<1> USE DEF admissionVars, rpcVars, prefillVars
<1>1. /\ handle' \in [Request -> HandleStates]
      /\ \A r \in Request : handle'[r] = "new" => handle[r] = "new"
  BY SettlesIsFinal, TypeFacts DEF IInv
<1>2. Placement'
  BY <1>1, PlacementFrame DEF IInv, SameRequests
<1>3. Agreement'
  BY AgreementFrame DEF IInv
<1>4. AdmissionExact' /\ Promised'
  BY AdmissionFrame, AdmittedFrame DEF IInv
<1>5. QED
  BY <1>1, <1>2, <1>3, <1>4

\* Cancelled and stopped requests leave the decoder.
LEMMA SweepStep ==
  ASSUME IInv, Sweep
  PROVE  IInv' /\ Settles
<1>1. PICK out : out = {r \in Running : Cancelled(r) \/ r \in stopped}
  OBVIOUS
<1>2. /\ dpc = <<"sweep">> /\ dpc' = <<"decode">>
      /\ finished' = finished \cup {[request |-> r, failed |-> TRUE] : r \in out}
      /\ context' = [r \in Request |-> IF r \in out THEN 0 ELSE context[r]]
      /\ UNCHANGED <<clientVars, lane, admissionVars, decoding, stopped, rpcVars, prefillVars>>
      /\ out \subseteq Running
  BY <1>1 DEF Sweep
<1> USE DEF clientVars
<1>3. /\ Alive /\ dpc' # <<"stopped">>
      /\ \A l \in Lane : dpc # <<"copy", l>> /\ dpc' # <<"copy", l>>
  BY <1>2, PlacesApart DEF Alive
<1>4. Settles
  BY <1>2, NothingSettles, TypeFacts DEF IInv
<1>5. /\ Placement' /\ Agreement' /\ AdmissionExact' /\ Promised'
      /\ handle' \in [Request -> HandleStates]
  BY <1>2, <1>3, <1>4, BatchFrame
<1>6. finished' \subseteq [request : Request, failed : BOOLEAN]
  BY <1>2, RunningEnds
<1>7. context' \in [Request -> Nat]
  BY <1>2 DEF IInv, Typed, TypeOK
<1>8. Typed'
  BY <1>2, <1>5, <1>6, <1>7
     DEF IInv, Typed, TypeOK, HandleStates, Places, admissionVars, rpcVars, prefillVars
<1>9. Contexts'
  <2>1. ASSUME NEW r \in Request
        PROVE  /\ r \in out => context'[r] = 0
               /\ r \in Running \ out =>
                    context'[r] \in Prompt[r]..(Prompt[r] + Output[r] - 2)
               /\ r \notin Running => context'[r] = context[r]
    BY <1>2 DEF IInv, Contexts
  <2>2. QED
    BY <1>2, <1>3, <2>1, BatchContexts
<1>10. QED
  BY <1>4, <1>5, <1>8, <1>9 DEF IInv

\* Every running request has one token more, or ends.
LEMMA DecodeStepStep ==
  ASSUME IInv, DecodeStep
  PROVE  IInv' /\ Settles
<1>1. PICK stops, out :
        /\ \E token \in [Running -> {"text", "eos", "stop"}] :
             /\ stops = {r \in Running : token[r] = "stop"}
             /\ out = {r \in Running : token[r] = "eos" \/ Generated(r) + 1 >= Output[r]}
        /\ dpc = <<"decode">> /\ dpc' = <<"reap">>
        /\ \A r \in stops : Emits(r)
        /\ handle' = [r \in Request |-> IF r \in stops THEN Outcome(r, FALSE) ELSE handle[r]]
        /\ stopped' = stopped \cup stops
        /\ finished' = finished \cup {[request |-> r, failed |-> FALSE] : r \in out}
        /\ context' = [r \in Request |->
             IF r \in out THEN 0 ELSE IF r \in Running THEN context[r] + 1 ELSE context[r]]
        /\ UNCHANGED <<queue, stopping, lane, admissionVars, decoding, rpcVars, prefillVars>>
  <2>1. PICK token \in [Running -> {"text", "eos", "stop"}] :
    LET stops == {r \in Running : token[r] = "stop"}
        ends == {r \in Running : token[r] = "eos" \/ Generated(r) + 1 >= Output[r]}
    IN
    /\ dpc = <<"decode">>
    /\ \A r \in stops : Emits(r)
    /\ handle' = [r \in Request |-> IF r \in stops THEN Outcome(r, FALSE) ELSE handle[r]]
    /\ stopped' = stopped \cup stops
    /\ finished' = finished \cup {[request |-> r, failed |-> FALSE] : r \in ends}
    /\ context' = [r \in Request |->
         IF r \in ends THEN 0 ELSE IF r \in Running THEN context[r] + 1 ELSE context[r]]
    /\ dpc' = <<"reap">>
    /\ UNCHANGED <<queue, stopping, lane, admissionVars, decoding, rpcVars, prefillVars>>
    BY DEF DecodeStep
  <2>2. QED
    BY <2>1
<1>2. /\ Alive /\ dpc' # <<"stopped">>
      /\ \A l \in Lane : dpc # <<"copy", l>> /\ dpc' # <<"copy", l>>
  BY <1>1, PlacesApart DEF Alive
<1>3. Settles
  <2>1. \A r \in stops : handle[r] # "new"
    BY <1>1 DEF Emits
  <2>2. QED
    BY <1>1, <2>1 DEF Settles
<1>4. /\ Placement' /\ Agreement' /\ AdmissionExact' /\ Promised'
      /\ handle' \in [Request -> HandleStates]
  BY <1>1, <1>2, <1>3, BatchFrame
<1>5. out \subseteq Running /\ stops \subseteq Running /\ Running \subseteq Request
  BY <1>1 DEF Running, IInv, Typed, TypeOK
<1>6. finished' \subseteq [request : Request, failed : BOOLEAN]
  BY <1>1, <1>5, RunningEnds
<1>7. context' \in [Request -> Nat] /\ stopped' \subseteq Request
  BY <1>1, <1>5 DEF IInv, Typed, TypeOK
<1>8. Typed'
  BY <1>1, <1>4, <1>6, <1>7
     DEF IInv, Typed, TypeOK, HandleStates, Places, admissionVars, rpcVars, prefillVars
<1>9. Contexts'
  <2>1. ASSUME NEW r \in Request
        PROVE  /\ r \in out => context'[r] = 0
               /\ r \in Running \ out =>
                    context'[r] \in Prompt[r]..(Prompt[r] + Output[r] - 2)
               /\ r \notin Running => context'[r] = context[r]
    <3>1. Prompt[r] \in Nat /\ Output[r] \in Nat /\ context[r] \in Nat
      BY RequestAssumption DEF IInv, Typed, TypeOK
    <3>2. r \in Running => context[r] \in Prompt[r]..(Prompt[r] + Output[r] - 2)
      BY DEF IInv, Contexts
    <3>3. r \in Running \ out => context[r] - Prompt[r] + 1 + 1 < Output[r]
      BY <1>1, <3>1 DEF Generated
    <3>4. QED
      BY <1>1, <1>5, <3>1, <3>2, <3>3
  <2>2. QED
    BY <1>1, <1>2, <1>5, <2>1, BatchContexts
<1>10. QED
  BY <1>3, <1>4, <1>8, <1>9 DEF IInv

\* Every request that ended in the decoder leaves it and its lane at once.
LEMMA ReapStep ==
  ASSUME IInv, Reap
  PROVE  IInv' /\ Settles
<1>1. /\ dpc = <<"reap">> /\ FinishAll(finished) /\ decoding' = Running /\ finished' = {}
      /\ UNCHANGED <<queue, stopping, lane, stopped, context, rpcVars, prefillVars>>
      /\ dpc' \in {<<"result", 0>>, <<"stopped">>, <<"wait">>}
      /\ dpc' = <<"stopped">> => \A l \in Lane : ~ LaneBusy(l)
  <2>1. 0 \in Lane
    BY DEF Lane
  <2>2. <<"result", 0>> # <<"stopped">> /\ <<"wait">> # <<"stopped">>
    BY <2>1, PlacesApart
  <2>3. QED
    BY <2>2 DEF Reap
<1> USE DEF rpcVars, prefillVars
<1>2. /\ Alive /\ Agreement /\ dpc' \in Places
      /\ \A l \in Lane : dpc # <<"copy", l>> /\ dpc' # <<"copy", l>>
  BY <1>1, PlacesApart DEF Alive, Places, Lane, IInv
<1>3. /\ finished \subseteq [request : Request, failed : BOOLEAN]
      /\ \A f \in finished : f.request \in decoding
      /\ Running = decoding \ {f.request : f \in finished}
      /\ decoding \subseteq Request
  BY DEF IInv, Typed, TypeOK, Contexts, Running
<1>4. \A f \in finished : f.request \in Request /\ f.failed \in BOOLEAN
                          /\ handle[f.request] # "new"
  BY <1>3 DEF IInv, Placement, Placed
<1>5. Settles
  BY <1>1, <1>4, FinishSettles, TypeFacts DEF IInv
<1>6. /\ handle' \in [Request -> HandleStates]
      /\ \A r \in Request : handle'[r] = "new" => handle[r] = "new"
  BY <1>5, SettlesIsFinal, TypeFacts DEF IInv
<1>7. ASSUME NEW l \in Lane
      PROVE  /\ Of(finished, l) \subseteq Admitted(l)
             /\ Admitted(l)' = Admitted(l) \ Of(finished, l)
  <2>1. \A x : x \in Of(finished, l) <=>
                 /\ LaneOf[x] = l /\ \E f \in finished : f.request = x
    BY DEF Of
  <2>2. lane[l].request \in decoding => FALSE
    <3>1. ASSUME lane[l].request \in decoding
          PROVE  FALSE
      <4>1. PICK r \in Request : r = lane[l].request /\ r \in decoding
        BY <1>3, <3>1
      <4>2. LaneShape(l) /\ Placed(r)
        BY DEF IInv, Placement
      <4>3. InLane(r)
        BY <4>1, <4>2 DEF LaneShape, InLane
      <4>4. QED
        BY <4>1, <4>2, <4>3 DEF Placed
    <3>2. QED
      BY <3>1
  <2>3. \A r \in decoding : r # NoRequest
    BY <1>3, RequestAssumption
  <2>4. Of(finished, l) \subseteq Admitted(l)
    BY <1>3, <2>1, <2>3 DEF Admitted
  <2>5. \A x : x \in Running <=> x \in decoding /\ ~ \E f \in finished : f.request = x
    BY <1>3
  <2>6. \A x : x \in Admitted(l)' <=>
                 /\ x # NoRequest
                 /\ x = lane[l].request \/ (x \in Running /\ LaneOf[x] = l)
    BY <1>1 DEF Admitted
  <2>7. \A x : x \in Admitted(l) <=>
                 /\ x # NoRequest
                 /\ x = lane[l].request \/ (x \in decoding /\ LaneOf[x] = l)
    BY DEF Admitted
  <2>8. \A x : x \in Admitted(l)' <=> x \in Admitted(l) /\ x \notin Of(finished, l)
    BY <1>3, <2>1, <2>2, <2>5, <2>6, <2>7
  <2>9. QED
    BY <2>4, <2>8
<1>8. /\ AdmissionExact' /\ Promised'
      /\ active' \in [Lane -> Nat] /\ used' \in [Lane -> Nat]
  BY <1>1, <1>7, FinishReleases
<1>9. Placement'
  <2>1. ASSUME NEW l \in Lane
        PROVE  LaneShape(l)' /\ QueueShape(l)'
    BY <1>1 DEF IInv, Placement, LaneShape, QueueShape
  <2>2. ASSUME NEW r \in Request
        PROVE  Moves(r)
    <3>1. (InLane(r)' => InLane(r)) /\ (Leaving(r)' => Leaving(r)) /\ (InQueue(r)' => InQueue(r))
      BY <1>1 DEF InLane, Leaving, InQueue
    <3>2. r \in decoding' => r \in decoding
      BY <1>1, <1>3
    <3>3. QED
      BY <1>6, <3>1, <3>2 DEF Moves
  <2>3. QED
    BY <2>1, <2>2, PlacementStep DEF IInv
<1>10. Agreement'
  BY <1>1, <1>2, AgreementFrame
<1>11. Typed'
  BY <1>1, <1>2, <1>3, <1>6, <1>8 DEF IInv, Typed, TypeOK, HandleStates
<1>12. Contexts'
  <2>1. Running' = Running
    BY <1>1 DEF Running
  <2>2. \A r \in Request : ~ Copying(r) /\ ~ Copying(r)'
    BY <1>2, RequestAssumption DEF Copying
  <2>3. QED
    BY <1>1, <1>2, <2>1, <2>2 DEF IInv, Contexts
<1>13. QED
  BY <1>5, <1>8, <1>9, <1>10, <1>11, <1>12 DEF IInv

-----------------------------------------------------------------------------
(* The exchanges of D with a P.                                              *)

\* The types an exchange must keep.
ExchangeTyped ==
  /\ lane \in [Lane -> LaneRecord]
  /\ chan \in [Lane -> {Silent} \cup Message]
  /\ DOMAIN orphan = Lane
  /\ job \in [Request -> {"none", "waiting", "inflight", "failed", "eos", "ok"}]
  /\ src \in [Request -> {"none", "filling", "retained"}]
  /\ computed \in [Request -> Nat] /\ up \in [Lane -> BOOLEAN]

\* An exchange, or a step of P, keeps all but the agreement.
LEMMA ExchangeFrame ==
  ASSUME IInv, ExchangeTyped', UNCHANGED <<clientVars, dpc, admissionVars, decodeVars>>,
         \A k \in Lane : SameRequests(k),
         \A k \in Lane : dpc = <<"copy", k>> => lane'[k] = lane[k],
         Alive => Agreement'
  PROVE  IInv' /\ Settles
<1> USE DEF clientVars, admissionVars, decodeVars
<1>1. Typed'
  BY DEF IInv, Typed, TypeOK, ExchangeTyped, LaneRecord
<1>2. Placement'
  BY PlacementFrame DEF IInv
<1>3. Contexts'
  BY ContextsFrame DEF IInv
<1>4. AdmissionExact' /\ Promised'
  BY AdmissionFrame, AdmittedFrame DEF IInv, SameRequests
<1>5. Settles
  BY NothingSettles, TypeFacts DEF IInv
<1>6. QED
  BY <1>1, <1>2, <1>3, <1>4, <1>5 DEF IInv, Alive

\* An exchange of lane l that moves no request, and what it asks of P.
LEMMA ExchangeAgrees ==
  ASSUME IInv, Agreement, NEW l \in Lane, OnlyLane(l), SameRequests(l), LaneBusy(l),
         PrefillAgrees(l)', ReleaseAgrees(l)', LostAgrees(l)', dpc' = dpc,
         \A r \in Request :
           r = lane[l].request \/ r = lane[l].handoff \/ LaneOf[r] # l \/ SameJob(r)
  PROVE  Agreement'
<1>1. ASSUME NEW r \in Request, LaneOf[r] = l, ~ InLane(r)', ~ Leaving(r)'
      PROVE  Gone(r)'
  <2>1. ~ InLane(r) /\ ~ Leaving(r)
    BY <1>1 DEF SameRequests, InLane, Leaving
  <2>2. SameJob(r)
    BY <1>1, <2>1 DEF InLane, Leaving
  <2>3. QED
    BY <2>1, <2>2 DEF Agreement, Gone, SameJob
<1>2. dpc' # <<"stopped">>
  BY DEF Agreement
<1>3. QED
  BY <1>1, <1>2, AgreementStep DEF IInv

\* The prefill of a lane goes to another state.
LEMMA PrefillSet ==
  ASSUME IInv, NEW l \in Lane, lane[l].prefill # "none",
         NEW s \in PrefillStates, s # "none",
         lane' = [lane EXCEPT ![l].prefill = s]
  PROVE  /\ lane' \in [Lane -> LaneRecord]
         /\ \A k \in Lane : k # l => lane'[k] = lane[k]
         /\ \A k \in Lane : SameRequests(k)
         /\ lane'[l].prefill = s
         /\ lane'[l].request = lane[l].request
         /\ lane'[l].releasing = "none" /\ lane'[l].handoff = NoRequest
<1>1. lane \in [Lane -> LaneRecord]
  BY TypeFacts DEF IInv
<1>2. lane[l].releasing = "none" /\ lane[l].handoff = NoRequest
  BY PrefillLane
<1>3. /\ lane' \in [Lane -> LaneRecord]
      /\ \A k \in Lane : k # l => lane'[k] = lane[k]
      /\ lane'[l].prefill = s /\ lane'[l].request = lane[l].request
      /\ lane'[l].releasing = lane[l].releasing /\ lane'[l].handoff = lane[l].handoff
  BY <1>1 DEF LaneRecord
<1>4. \A k \in Lane : SameRequests(k)
  BY <1>2, <1>3 DEF SameRequests
<1>5. QED
  BY <1>2, <1>3, <1>4

\* The release of a lane goes to another state.
LEMMA ReleaseSet ==
  ASSUME IInv, NEW l \in Lane, lane[l].releasing # "none",
         NEW s \in ReleaseStates, s # "none",
         lane' = [lane EXCEPT ![l].releasing = s]
  PROVE  /\ lane' \in [Lane -> LaneRecord]
         /\ \A k \in Lane : k # l => lane'[k] = lane[k]
         /\ \A k \in Lane : SameRequests(k)
         /\ lane'[l].releasing = s
         /\ lane'[l].handoff = lane[l].handoff
         /\ lane'[l].prefill = "none" /\ lane'[l].request = NoRequest
<1>1. lane \in [Lane -> LaneRecord]
  BY TypeFacts DEF IInv
<1>2. lane[l].prefill = "none" /\ lane[l].request = NoRequest
  BY ReleaseLane
<1>3. /\ lane' \in [Lane -> LaneRecord]
      /\ \A k \in Lane : k # l => lane'[k] = lane[k]
      /\ lane'[l].releasing = s /\ lane'[l].handoff = lane[l].handoff
      /\ lane'[l].prefill = lane[l].prefill /\ lane'[l].request = lane[l].request
  BY <1>1 DEF LaneRecord
<1>4. \A k \in Lane : SameRequests(k)
  BY <1>2, <1>3 DEF SameRequests
<1>5. QED
  BY <1>2, <1>3, <1>4

\* The four exchanges there can be.
Submitting(l) == lane[l].prefill = "submitting" /\ Asked(l, "submit", lane[l].request, {"ok"})
Polling(l) == /\ lane[l].prefill = "polling"
              /\ Asked(l, "poll", lane[l].request, {"notready", "failed", "eos", "ok"})
Cancelling(l) == lane[l].prefill = "cancelling" /\ Asked(l, "cancel", lane[l].request, {"ok"})
Releasing(l) == lane[l].releasing = "waiting" /\ Asked(l, "release", lane[l].handoff, {"ok"})
Prefilling(l) == Submitting(l) \/ Polling(l) \/ Cancelling(l)

\* An exchange under way is one of them, and nothing is late at that P.
LEMMA ExchangeUnderWay ==
  ASSUME IInv, Agreement, NEW l \in Lane, chan[l].type # "none"
  PROVE  /\ Prefilling(l) \/ Releasing(l)
         /\ orphan[l] = Silent /\ LaneBusy(l)
         /\ chan[l] \in Message
         /\ dpc # <<"copy", l>>
<1>1. chan[l] # Silent
  BY DEF Silent
<1>2. PrefillAgrees(l) /\ ReleaseAgrees(l) /\ LostAgrees(l)
  BY DEF Agreement
<1>3. lane[l].prefill \in PrefillStates /\ lane[l].releasing \in ReleaseStates
  BY TypeFacts DEF IInv
<1>4. LaneBusy(l) /\ "lost" \notin {lane[l].prefill, lane[l].releasing}
  BY <1>1, <1>2 DEF LostAgrees
<1>5. /\ lane[l].prefill # "none" => lane[l].releasing = "none"
      /\ lane[l].releasing # "none" => lane[l].prefill = "none"
  BY PrefillLane, ReleaseLane
<1>6. \/ lane[l].prefill \in {"submitting", "polling", "cancelling"}
      \/ lane[l].releasing = "waiting"
  BY <1>1, <1>2, <1>3, <1>4, <1>5
     DEF PrefillAgrees, ReleaseAgrees, LaneBusy, PrefillStates, ReleaseStates
<1>7. Prefilling(l) \/ Releasing(l)
  BY <1>2, <1>6
     DEF PrefillAgrees, ReleaseAgrees, Prefilling, Submitting, Polling, Cancelling, Releasing
<1>8. orphan[l] = Silent
  BY <1>2, <1>4 DEF LostAgrees
<1>9. chan[l] \in Message
  BY <1>1 DEF IInv, Typed
<1>10. dpc # <<"copy", l>>
  BY <1>5, <1>6 DEF IInv, Contexts
<1>11. QED
  BY <1>4, <1>7, <1>8, <1>9, <1>10

\* A message of D is unanswered.
LEMMA Sent ==
  ASSUME IInv, NEW l \in Lane, NEW t \in Types, NEW r \in Request, Send(l, t, r)
  PROVE  /\ chan' \in [Lane -> {Silent} \cup Message]
         /\ chan'[l].type = t /\ chan'[l].request = r /\ chan'[l].answer = "none"
         /\ \A k \in Lane : k # l => chan'[k] = chan[k]
<1>1. PICK m : m = [type |-> t, request |-> r, answer |-> "none"]
  OBVIOUS
<1>2. m.type = t /\ m.request = r /\ m.answer = "none"
  BY <1>1
<1>6. m \in Message
  BY <1>1 DEF Message
<1>3. chan' = [chan EXCEPT ![l] = m]
  BY <1>1 DEF Send
<1>4. chan \in [Lane -> {Silent} \cup Message]
  BY DEF IInv, Typed
<1>7. chan' \in [Lane -> {Silent} \cup Message]
  BY <1>3, <1>4, <1>6
<1>5. QED
  BY <1>2, <1>3, <1>4, <1>7

\* D sends P a message about the prompt of a lane.
LEMMA PrefillSends ==
  ASSUME IInv, NEW l \in Lane, NEW t \in Types, NEW s \in {"submitting", "polling", "cancelling"},
         t = IF s = "submitting" THEN "submit" ELSE IF s = "polling" THEN "poll" ELSE "cancel",
         lane[l].prefill = IF s = "submitting" THEN "start" ELSE "check",
         Alive, Send(l, t, lane[l].request),
         lane' = [lane EXCEPT ![l].prefill = s],
         UNCHANGED <<clientVars, dpc, admissionVars, decodeVars, orphan, prefillVars>>
  PROVE  IInv' /\ Settles
<1>1. /\ lane[l].prefill = IF s = "submitting" THEN "start" ELSE "check"
      /\ Alive /\ Send(l, t, lane[l].request)
      /\ lane' = [lane EXCEPT ![l].prefill = s]
      /\ UNCHANGED <<clientVars, dpc, admissionVars, decodeVars, orphan, prefillVars>>
  OBVIOUS
<1> USE DEF prefillVars
<1>2. PICK r \in Request : r = lane[l].request
  BY <1>1, PrefillLane
<1>3. /\ chan' \in [Lane -> {Silent} \cup Message]
      /\ chan'[l].type = t /\ chan'[l].request = r /\ chan'[l].answer = "none"
      /\ \A k \in Lane : k # l => chan'[k] = chan[k]
  BY <1>1, <1>2, Sent
<1>4. /\ lane' \in [Lane -> LaneRecord]
      /\ \A k \in Lane : k # l => lane'[k] = lane[k]
      /\ \A k \in Lane : SameRequests(k)
      /\ lane'[l].prefill = s /\ lane'[l].request = r
      /\ lane'[l].releasing = "none"
  BY <1>1, <1>2, PrefillSet DEF PrefillStates
<1>5. Agreement /\ PrefillAgrees(l) /\ LostAgrees(l) /\ LaneBusy(l)
  BY <1>1 DEF IInv, Agreement, LaneBusy
<1>6. orphan[l] = Silent
  BY <1>1, <1>5, PrefillLane DEF LostAgrees
<1>7. IF s = "submitting" THEN Gone(r)' ELSE Working(r)'
  BY <1>1, <1>2, <1>5 DEF PrefillAgrees, Gone, Working
<1>8. PrefillAgrees(l)'
  BY <1>1, <1>3, <1>4, <1>7 DEF PrefillAgrees, Asked, Unserved
<1>9. ReleaseAgrees(l)' /\ LostAgrees(l)'
  BY <1>1, <1>4, <1>6 DEF ReleaseAgrees, LostAgrees, LaneBusy
<1>10. OnlyLane(l)
  BY <1>1, <1>3, <1>4 DEF OnlyLane, SameLane, SameJob
<1>11. Agreement'
  BY <1>1, <1>4, <1>5, <1>8, <1>9, <1>10, ExchangeAgrees DEF SameJob
<1>12. ExchangeTyped'
  BY <1>1, <1>3, <1>4 DEF ExchangeTyped, IInv, Typed, TypeOK
<1>13. \A k \in Lane : dpc = <<"copy", k>> => lane'[k] = lane[k]
  BY <1>1, <1>4 DEF IInv, Contexts
<1>14. QED
  BY <1>1, <1>4, <1>11, <1>12, <1>13, ExchangeFrame

\* D hands a prompt to P, or asks after it, or cancels it.
LEMMA PrefillAsks ==
  ASSUME IInv, NEW l \in Lane, PrefillStarts(l) \/ PrefillChecks(l)
  PROVE  IInv' /\ Settles
<1>1. CASE PrefillStarts(l)
  <2>1. /\ lane[l].prefill = "start" /\ Alive /\ Send(l, "submit", lane[l].request)
        /\ lane' = [lane EXCEPT ![l].prefill = "submitting"]
        /\ UNCHANGED <<clientVars, dpc, admissionVars, decodeVars, orphan, prefillVars>>
    BY <1>1 DEF PrefillStarts
  <2>2. QED
    BY <2>1, PrefillSends DEF Types
<1>2. CASE PrefillChecks(l) /\ Cancelled(lane[l].request)
  <2>1. /\ lane[l].prefill = "check" /\ Alive /\ Send(l, "cancel", lane[l].request)
        /\ lane' = [lane EXCEPT ![l].prefill = "cancelling"]
        /\ UNCHANGED <<clientVars, dpc, admissionVars, decodeVars, orphan, prefillVars>>
    BY <1>2 DEF PrefillChecks
  <2>2. QED
    BY <2>1, PrefillSends DEF Types
<1>3. CASE PrefillChecks(l) /\ ~ Cancelled(lane[l].request)
  <2>1. /\ lane[l].prefill = "check" /\ Alive /\ Send(l, "poll", lane[l].request)
        /\ lane' = [lane EXCEPT ![l].prefill = "polling"]
        /\ UNCHANGED <<clientVars, dpc, admissionVars, decodeVars, orphan, prefillVars>>
    BY <1>3 DEF PrefillChecks
  <2>2. QED
    BY <2>1, PrefillSends DEF Types
<1>4. QED
  BY <1>1, <1>2, <1>3

\* D tells P to release the pages of a request.
LEMMA ReleaseStartsStep ==
  ASSUME IInv, NEW l \in Lane, ReleaseStarts(l)
  PROVE  IInv' /\ Settles
<1>1. /\ Alive /\ lane[l].releasing = "start" /\ Send(l, "release", lane[l].handoff)
      /\ lane' = [lane EXCEPT ![l].releasing = "waiting"]
      /\ UNCHANGED <<clientVars, dpc, admissionVars, decodeVars, orphan, prefillVars>>
  BY DEF ReleaseStarts
<1> USE DEF prefillVars
<1>2. PICK r \in Request : r = lane[l].handoff
  BY <1>1, ReleaseLane
<1>3. /\ chan' \in [Lane -> {Silent} \cup Message]
      /\ chan'[l].type = "release" /\ chan'[l].request = r /\ chan'[l].answer = "none"
      /\ \A k \in Lane : k # l => chan'[k] = chan[k]
  <2>1. Send(l, "release", r)
    BY <1>1, <1>2
  <2>2. PICK t \in Types : t = "release"
    BY DEF Types
  <2>3. Send(l, t, r)
    BY <2>1, <2>2
  <2>4. QED
    BY <2>2, <2>3, Sent
<1>4. /\ lane' \in [Lane -> LaneRecord]
      /\ \A k \in Lane : k # l => lane'[k] = lane[k]
      /\ \A k \in Lane : SameRequests(k)
      /\ lane'[l].releasing = "waiting" /\ lane'[l].handoff = r
      /\ lane'[l].prefill = "none"
  BY <1>1, <1>2, ReleaseSet DEF ReleaseStates
<1>5. Agreement /\ ReleaseAgrees(l) /\ LostAgrees(l) /\ LaneBusy(l)
  BY <1>1 DEF IInv, Agreement, LaneBusy
<1>6. orphan[l] = Silent
  BY <1>1, <1>5, ReleaseLane DEF LostAgrees
<1>7. Held(r)'
  BY <1>1, <1>2, <1>5 DEF ReleaseAgrees, Held
<1>8. ReleaseAgrees(l)'
  BY <1>3, <1>4, <1>7 DEF ReleaseAgrees, Asked, Unserved
<1>9. PrefillAgrees(l)' /\ LostAgrees(l)'
  BY <1>1, <1>4, <1>6 DEF PrefillAgrees, LostAgrees, LaneBusy
<1>10. OnlyLane(l)
  BY <1>1, <1>3, <1>4 DEF OnlyLane, SameLane, SameJob
<1>11. Agreement'
  BY <1>1, <1>4, <1>5, <1>8, <1>9, <1>10, ExchangeAgrees DEF SameJob
<1>12. ExchangeTyped'
  BY <1>1, <1>3, <1>4 DEF ExchangeTyped, IInv, Typed, TypeOK
<1>13. \A k \in Lane : dpc = <<"copy", k>> => lane'[k] = lane[k]
  <2>1. lane[l].prefill = "none"
    BY <1>1, ReleaseLane
  <2>2. QED
    BY <1>4, <2>1 DEF IInv, Contexts
<1>14. QED
  BY <1>1, <1>4, <1>11, <1>12, <1>13, ExchangeFrame

\* D takes an answer of P about a prompt; it is never an error.
LEMMA PrefillAnsweredStep ==
  ASSUME IInv, NEW l \in Lane, PrefillAnswered(l)
  PROVE  IInv' /\ Settles
<1>1. /\ Alive /\ chan[l].type \in {"submit", "poll", "cancel"} /\ chan[l].answer # "none"
      /\ chan' = [chan EXCEPT ![l] = Silent]
      /\ UNCHANGED <<clientVars, dpc, admissionVars, decodeVars, orphan, prefillVars>>
  BY DEF PrefillAnswered, Answered
<1> USE DEF prefillVars
<1>2. Agreement /\ PrefillAgrees(l)
  BY <1>1 DEF IInv, Agreement
<1>3. /\ Prefilling(l) \/ Releasing(l)
      /\ orphan[l] = Silent /\ LaneBusy(l) /\ dpc # <<"copy", l>>
  BY <1>1, <1>2, ExchangeUnderWay
<1>4. Prefilling(l)
  BY <1>1, <1>3 DEF Releasing, Asked
<1>5. lane[l].prefill # "none"
  BY <1>4 DEF Prefilling, Submitting, Polling, Cancelling
<1>6. PICK r \in Request : r = lane[l].request
  BY <1>5, PrefillLane
<1>7. PICK s \in {"check", "cancelled", "failed", "eos", "ok"} :
        /\ lane' = [lane EXCEPT ![l].prefill = s]
        /\ s = "check" => Working(r)
        /\ s \in {"eos", "ok"} => Held(r)
        /\ s \in {"failed", "cancelled"} => Gone(r)
  <2> DEFINE v == CASE chan[l].answer = "error" -> "error"
         [] chan[l].type = "submit" \/ chan[l].answer = "notready" -> "check"
         [] chan[l].type = "cancel" -> "cancelled"
         [] OTHER -> chan[l].answer
  <2>1. lane' = [lane EXCEPT ![l].prefill = v]
    BY DEF PrefillAnswered
  <2>2. CASE Submitting(l)
    <3>1. v = "check" /\ Working(r)
      BY <1>1, <1>2, <1>6, <2>2 DEF Submitting, Asked, PrefillAgrees, Unserved
    <3> HIDE DEF v
    <3>2. QED
      BY <2>1, <3>1
  <2>3. CASE Cancelling(l)
    <3>1. v = "cancelled" /\ Gone(r)
      BY <1>1, <1>2, <1>6, <2>3 DEF Cancelling, Asked, PrefillAgrees, Unserved
    <3> HIDE DEF v
    <3>2. QED
      BY <2>1, <3>1
  <2>4. CASE Polling(l) /\ chan[l].answer = "notready"
    <3>1. v = "check" /\ Working(r)
      BY <1>1, <1>2, <1>6, <2>4 DEF Polling, Asked, PrefillAgrees
    <3> HIDE DEF v
    <3>2. QED
      BY <2>1, <3>1
  <2>5. CASE Polling(l) /\ chan[l].answer = "failed"
    <3>1. v = "failed" /\ Gone(r)
      BY <1>1, <1>2, <1>6, <2>5 DEF Polling, Asked, PrefillAgrees
    <3> HIDE DEF v
    <3>2. QED
      BY <2>1, <3>1
  <2>6. CASE Polling(l) /\ chan[l].answer \in {"eos", "ok"}
    <3>1. v \in {"eos", "ok"} /\ Held(r)
      BY <1>1, <1>2, <1>6, <2>6 DEF Polling, Asked, PrefillAgrees
    <3> HIDE DEF v
    <3>2. QED
      BY <2>1, <3>1
  <2>7. QED
    BY <1>1, <1>4, <2>2, <2>3, <2>4, <2>5, <2>6 DEF Prefilling, Polling, Asked
<1>8. /\ lane' \in [Lane -> LaneRecord]
      /\ \A k \in Lane : k # l => lane'[k] = lane[k]
      /\ \A k \in Lane : SameRequests(k)
      /\ lane'[l].prefill = s /\ lane'[l].request = r
      /\ lane'[l].releasing = "none"
  BY <1>5, <1>6, <1>7, PrefillSet DEF PrefillStates
<1>9. /\ chan' \in [Lane -> {Silent} \cup Message]
      /\ chan'[l] = Silent /\ \A k \in Lane : k # l => chan'[k] = chan[k]
  BY <1>1 DEF IInv, Typed
<1>10. /\ s = "check" => Working(r)'
       /\ s \in {"eos", "ok"} => Held(r)'
       /\ s \in {"failed", "cancelled"} => Gone(r)'
  BY <1>1, <1>7 DEF Working, Held, Gone
<1>11. PrefillAgrees(l)'
  BY <1>7, <1>8, <1>9, <1>10 DEF PrefillAgrees
<1>12. ReleaseAgrees(l)' /\ LostAgrees(l)'
  BY <1>1, <1>3, <1>8, <1>9 DEF ReleaseAgrees, LostAgrees, LaneBusy
<1>13. OnlyLane(l)
  BY <1>1, <1>8, <1>9 DEF OnlyLane, SameLane, SameJob
<1>14. Agreement'
  BY <1>1, <1>2, <1>3, <1>8, <1>11, <1>12, <1>13, ExchangeAgrees DEF SameJob
<1>15. ExchangeTyped'
  BY <1>1, <1>8, <1>9 DEF ExchangeTyped, IInv, Typed, TypeOK
<1>16. \A k \in Lane : dpc = <<"copy", k>> => lane'[k] = lane[k]
  BY <1>3, <1>8
<1>17. QED
  BY <1>1, <1>8, <1>14, <1>15, <1>16, ExchangeFrame

\* D takes P's answer to a release; it is never an error.
LEMMA ReleaseAnsweredStep ==
  ASSUME IInv, NEW l \in Lane, ReleaseAnswered(l)
  PROVE  IInv' /\ Settles
<1>1. /\ Alive /\ chan[l].type = "release" /\ chan[l].answer # "none"
      /\ lane' = [lane EXCEPT ![l].releasing = IF chan[l].answer = "ok" THEN "done" ELSE "error"]
      /\ chan' = [chan EXCEPT ![l] = Silent]
      /\ UNCHANGED <<clientVars, dpc, admissionVars, decodeVars, orphan, prefillVars>>
  BY DEF ReleaseAnswered, Answered
<1> USE DEF prefillVars
<1>2. Agreement /\ ReleaseAgrees(l)
  BY <1>1 DEF IInv, Agreement
<1>3. /\ Prefilling(l) \/ Releasing(l)
      /\ orphan[l] = Silent /\ LaneBusy(l) /\ dpc # <<"copy", l>>
  BY <1>1, <1>2, ExchangeUnderWay
<1>4. Releasing(l)
  BY <1>1, <1>3 DEF Prefilling, Submitting, Polling, Cancelling, Asked
<1>5. lane[l].releasing = "waiting" /\ chan[l].answer = "ok" /\ Gone(lane[l].handoff)
  BY <1>1, <1>2, <1>4 DEF Releasing, Asked, ReleaseAgrees, Unserved
<1>6. PICK r \in Request : r = lane[l].handoff /\ Gone(r)
  BY <1>5, ReleaseLane
<1>7. lane' = [lane EXCEPT ![l].releasing = "done"]
  BY <1>1, <1>5
<1>8. /\ lane' \in [Lane -> LaneRecord]
      /\ \A k \in Lane : k # l => lane'[k] = lane[k]
      /\ \A k \in Lane : SameRequests(k)
      /\ lane'[l].releasing = "done" /\ lane'[l].handoff = r
      /\ lane'[l].prefill = "none"
  BY <1>5, <1>6, <1>7, ReleaseSet DEF ReleaseStates
<1>9. /\ chan' \in [Lane -> {Silent} \cup Message]
      /\ chan'[l] = Silent /\ \A k \in Lane : k # l => chan'[k] = chan[k]
  BY <1>1 DEF IInv, Typed
<1>10. Gone(r)'
  BY <1>1, <1>6 DEF Gone
<1>11. PrefillAgrees(l)' /\ ReleaseAgrees(l)' /\ LostAgrees(l)'
  BY <1>1, <1>3, <1>8, <1>9, <1>10 DEF PrefillAgrees, ReleaseAgrees, LostAgrees, LaneBusy
<1>12. OnlyLane(l)
  BY <1>1, <1>8, <1>9 DEF OnlyLane, SameLane, SameJob
<1>13. Agreement'
  BY <1>1, <1>2, <1>3, <1>8, <1>11, <1>12, ExchangeAgrees DEF SameJob
<1>14. ExchangeTyped'
  BY <1>1, <1>8, <1>9 DEF ExchangeTyped, IInv, Typed, TypeOK
<1>15. \A k \in Lane : dpc = <<"copy", k>> => lane'[k] = lane[k]
  BY <1>3, <1>8
<1>16. QED
  BY <1>1, <1>8, <1>13, <1>14, <1>15, ExchangeFrame

\* D gives up waiting for P; what P has not answered it may serve late.
LEMMA TimeoutStep ==
  ASSUME IInv, NEW l \in Lane, Timeout(l)
  PROVE  IInv' /\ Settles
<1>1. /\ Alive /\ chan[l].type # "none"
      /\ lane' = [lane EXCEPT ![l] =
           IF chan[l].type = "release" THEN [lane[l] EXCEPT !.releasing = "lost"]
                                       ELSE [lane[l] EXCEPT !.prefill = "lost"]]
      /\ orphan' = [orphan EXCEPT ![l] = IF chan[l].answer = "none" THEN chan[l] ELSE orphan[l]]
      /\ chan' = [chan EXCEPT ![l] = Silent]
      /\ UNCHANGED <<clientVars, dpc, admissionVars, decodeVars, prefillVars>>
  BY DEF Timeout
<1> USE DEF prefillVars
<1>2. Agreement
  BY <1>1 DEF IInv
<1>3. /\ Prefilling(l) \/ Releasing(l)
      /\ orphan[l] = Silent /\ LaneBusy(l) /\ dpc # <<"copy", l>>
  BY <1>1, <1>2, ExchangeUnderWay
<1>4. /\ chan' \in [Lane -> {Silent} \cup Message]
      /\ chan'[l] = Silent /\ \A k \in Lane : k # l => chan'[k] = chan[k]
  BY <1>1 DEF IInv, Typed
<1>5. /\ DOMAIN orphan' = Lane
      /\ \A k \in Lane : k # l => orphan'[k] = orphan[k]
      /\ orphan'[l] # Silent => orphan'[l] = chan[l]
  BY <1>1, <1>3 DEF IInv, Typed
<1>6. /\ lane' \in [Lane -> LaneRecord]
      /\ \A k \in Lane : k # l => lane'[k] = lane[k]
      /\ \A k \in Lane : SameRequests(k)
      /\ PrefillAgrees(l)' /\ ReleaseAgrees(l)' /\ LostAgrees(l)'
  <2>1. CASE Prefilling(l)
    <3>1. /\ lane[l].prefill # "none" /\ chan[l].request = lane[l].request
          /\ chan[l].type # "release"
      BY <2>1 DEF Prefilling, Submitting, Polling, Cancelling, Asked
    <3>2. lane' = [lane EXCEPT ![l].prefill = "lost"]
      BY <1>1, <3>1
    <3>3. PICK r \in Request : r = lane[l].request
      BY <3>1, PrefillLane
    <3>4. /\ lane' \in [Lane -> LaneRecord]
          /\ \A k \in Lane : k # l => lane'[k] = lane[k]
          /\ \A k \in Lane : SameRequests(k)
          /\ lane'[l].prefill = "lost" /\ lane'[l].request = r
          /\ lane'[l].releasing = "none"
      BY <3>1, <3>2, <3>3, PrefillSet DEF PrefillStates
    <3>5. LostAgrees(l)'
      BY <1>4, <1>5, <3>1, <3>3, <3>4, RequestAssumption DEF LostAgrees, LaneBusy
    <3>6. PrefillAgrees(l)' /\ ReleaseAgrees(l)'
      BY <3>4 DEF PrefillAgrees, ReleaseAgrees
    <3>7. QED
      BY <3>4, <3>5, <3>6
  <2>2. CASE Releasing(l)
    <3>1. /\ lane[l].releasing # "none" /\ chan[l].request = lane[l].handoff
          /\ chan[l].type = "release"
      BY <2>2 DEF Releasing, Asked
    <3>2. lane' = [lane EXCEPT ![l].releasing = "lost"]
      BY <1>1, <3>1
    <3>3. PICK r \in Request : r = lane[l].handoff
      BY <3>1, ReleaseLane
    <3>4. /\ lane' \in [Lane -> LaneRecord]
          /\ \A k \in Lane : k # l => lane'[k] = lane[k]
          /\ \A k \in Lane : SameRequests(k)
          /\ lane'[l].releasing = "lost" /\ lane'[l].handoff = r
          /\ lane'[l].prefill = "none"
      BY <3>1, <3>2, <3>3, ReleaseSet DEF ReleaseStates
    <3>5. LostAgrees(l)'
      BY <1>4, <1>5, <3>1, <3>3, <3>4, RequestAssumption DEF LostAgrees, LaneBusy
    <3>6. PrefillAgrees(l)' /\ ReleaseAgrees(l)'
      BY <3>4 DEF PrefillAgrees, ReleaseAgrees
    <3>7. QED
      BY <3>4, <3>5, <3>6
  <2>3. QED
    BY <1>3, <2>1, <2>2
<1>7. OnlyLane(l)
  BY <1>1, <1>4, <1>5, <1>6 DEF OnlyLane, SameLane, SameJob
<1>8. Agreement'
  BY <1>1, <1>2, <1>3, <1>6, <1>7, ExchangeAgrees DEF SameJob
<1>9. ExchangeTyped'
  BY <1>1, <1>4, <1>5, <1>6 DEF ExchangeTyped, IInv, Typed, TypeOK
<1>10. \A k \in Lane : dpc = <<"copy", k>> => lane'[k] = lane[k]
  BY <1>3, <1>6
<1>11. QED
  BY <1>1, <1>6, <1>8, <1>9, <1>10, ExchangeFrame

-----------------------------------------------------------------------------
(* P: the server and the batch thread.                                       *)

\* What P does of its own accord keeps what D may rely on.
Keeps(r) ==
  /\ Gone(r) => Gone(r)'
  /\ Held(r) => Held(r)'
  /\ Working(r) => Working(r)'

\* Then lanes and P still agree.
LEMMA WorkerAgrees ==
  ASSUME IInv, Agreement, UNCHANGED <<dpc, lane, chan, orphan>>,
         \A r \in Request : Keeps(r)
  PROVE  Agreement'
<1>1. ASSUME NEW k \in Lane
      PROVE  PrefillAgrees(k)' /\ ReleaseAgrees(k)' /\ LostAgrees(k)'
  <2>1. PrefillAgrees(k) /\ ReleaseAgrees(k) /\ LostAgrees(k)
    BY DEF Agreement
  <2>2. ASSUME lane[k].prefill # "none"
        PROVE  PrefillAgrees(k)'
    <3>1. PICK r \in Request : r = lane[k].request
      BY <2>2, PrefillLane
    <3>2. Keeps(r) /\ r = lane'[k].request
      BY <3>1
    <3>3. QED
      BY <2>1, <3>1, <3>2 DEF PrefillAgrees, Asked, Unserved, Keeps
  <2>3. ASSUME lane[k].releasing # "none"
        PROVE  ReleaseAgrees(k)'
    <3>1. PICK r \in Request : r = lane[k].handoff
      BY <2>3, ReleaseLane
    <3>2. Keeps(r) /\ r = lane'[k].handoff
      BY <3>1
    <3>3. QED
      BY <2>1, <3>1, <3>2 DEF ReleaseAgrees, Asked, Unserved, Keeps
  <2>4. lane[k].prefill = "none" => PrefillAgrees(k)'
    BY DEF PrefillAgrees
  <2>5. lane[k].releasing = "none" => ReleaseAgrees(k)'
    BY DEF ReleaseAgrees
  <2>6. LostAgrees(k)'
    BY <2>1 DEF LostAgrees, LaneBusy
  <2>7. QED
    BY <2>2, <2>3, <2>4, <2>5, <2>6
<1>2. ASSUME NEW r \in Request, ~ InLane(r)', ~ Leaving(r)'
      PROVE  Gone(r)'
  <2>1. Gone(r)
    BY <1>2 DEF Agreement, InLane, Leaving
  <2>2. QED
    BY <2>1 DEF Keeps
<1>3. dpc' = <<"stopped">> => \A k \in Lane : ~ LaneBusy(k)'
  BY DEF Agreement, LaneBusy
<1>4. QED
  BY <1>1, <1>2, <1>3 DEF Agreement

\* So P's own steps keep the invariant.
LEMMA WorkerFrame ==
  ASSUME IInv,
         job' \in [Request -> {"none", "waiting", "inflight", "failed", "eos", "ok"}],
         src' \in [Request -> {"none", "filling", "retained"}],
         computed' \in [Request -> Nat], up' \in [Lane -> BOOLEAN],
         UNCHANGED <<clientVars, dpc, lane, admissionVars, decodeVars, rpcVars>>,
         Alive => \A r \in Request : Keeps(r)
  PROVE  IInv' /\ Settles
<1>1. Alive => Agreement'
  BY WorkerAgrees DEF IInv, rpcVars
<1>2. ExchangeTyped'
  BY DEF IInv, Typed, ExchangeTyped, rpcVars
<1>3. \A k \in Lane : SameRequests(k)
  BY DEF SameRequests
<1>4. QED
  BY <1>1, <1>2, <1>3, ExchangeFrame

\* The types of P's variables, and which requests of P are in a batch.
LEMMA WorkerTypes ==
  ASSUME IInv
  PROVE  /\ job \in [Request -> {"none", "waiting", "inflight", "failed", "eos", "ok"}]
         /\ src \in [Request -> {"none", "filling", "retained"}]
         /\ computed \in [Request -> Nat] /\ up \in [Lane -> BOOLEAN]
         /\ \A l \in Lane : \A s : JobsAt(l, s) \subseteq Request
         /\ \A l \in Lane : \A s : \A r \in JobsAt(l, s) : job[r] = s
BY DEF IInv, Typed, TypeOK, JobsAt

\* P takes every waiting prompt into a batch.
LEMMA BatchStartsStep ==
  ASSUME IInv, NEW l \in Lane, BatchStarts(l)
  PROVE  IInv' /\ Settles
<1>1. PICK R : R = JobsAt(l, "waiting")
  OBVIOUS
<1>2. /\ job' = [r \in Request |-> IF r \in R THEN "inflight" ELSE job[r]]
      /\ src' = [r \in Request |-> IF r \in R THEN "filling" ELSE src[r]]
      /\ UNCHANGED <<clientVars, dpc, lane, admissionVars, decodeVars, rpcVars, computed, up>>
  BY <1>1 DEF BatchStarts
<1>3. ASSUME NEW r \in Request
      PROVE  Keeps(r)
  <2>1. r \in R => job[r] = "waiting"
    BY <1>1, WorkerTypes
  <2>2. QED
    BY <1>2, <2>1 DEF Keeps, Gone, Held, Working
<1>4. QED
  BY <1>2, <1>3, WorkerTypes, WorkerFrame

\* The batch fails as a whole, and its pages are freed.
LEMMA BatchFailsStep ==
  ASSUME IInv, NEW l \in Lane, BatchFails(l)
  PROVE  IInv' /\ Settles
<1>1. PICK R : R = JobsAt(l, "inflight")
  OBVIOUS
<1>2. /\ job' = [r \in Request |-> IF r \in R THEN "failed" ELSE job[r]]
      /\ src' = [r \in Request |-> IF r \in R THEN "none" ELSE src[r]]
      /\ UNCHANGED <<clientVars, dpc, lane, admissionVars, decodeVars, rpcVars, computed, up>>
  BY <1>1 DEF BatchFails, Free
<1>3. ASSUME NEW r \in Request
      PROVE  Keeps(r)
  <2>1. r \in R => job[r] = "inflight"
    BY <1>1, WorkerTypes
  <2>2. QED
    BY <1>2, <2>1 DEF Keeps, Gone, Held, Working
<1>4. QED
  BY <1>2, <1>3, WorkerTypes, WorkerFrame

\* The smaller of two numbers.
LEMMA MinOfTwo ==
  ASSUME NEW a \in Nat, NEW b \in Nat
  PROVE  Min({a, b}) \in Nat
<1>1. \E x \in {a, b} : \A y \in {a, b} : x <= y
  OBVIOUS
<1>2. Min({a, b}) \in {a, b}
  BY <1>1 DEF Min
<1>3. QED
  BY <1>2

\* The batch succeeds: a complete prompt has a result, another one waits.
LEMMA BatchEndsStep ==
  ASSUME IInv, NEW l \in Lane, BatchEnds(l)
  PROVE  IInv' /\ Settles
<1> DEFINE next(r) == Min({Prompt[r], computed[r] + PrefillChunk})
<1>1. PICK R : R = JobsAt(l, "inflight")
  OBVIOUS
<1>2. PICK C : C = {r \in R : next(r) = Prompt[r]}
  OBVIOUS
<1>3. PICK result \in [C -> {"ok", "eos", "failed"}] :
        /\ job' = [r \in Request |-> IF r \in C THEN result[r]
                                     ELSE IF r \in R THEN "waiting" ELSE job[r]]
        /\ src' = [r \in Request |-> IF r \notin C THEN src[r]
                                     ELSE IF result[r] = "failed" THEN "none" ELSE "retained"]
  <2> DEFINE J == JobsAt(l, "inflight")
             K == {r \in J : next(r) = Prompt[r]}
  <2>1. \E result \in [K -> {"ok", "eos", "failed"}] :
          /\ job' = [r \in Request |-> IF r \in K THEN result[r]
                                       ELSE IF r \in J THEN "waiting" ELSE job[r]]
          /\ src' = [r \in Request |-> IF r \notin K THEN src[r]
                                       ELSE IF result[r] = "failed" THEN "none" ELSE "retained"]
    BY DEF BatchEnds
  <2>2. J = R /\ K = C
    BY <1>1, <1>2
  <2> HIDE DEF J, K
  <2>3. QED
    BY <2>1, <2>2
<1>4. /\ computed' = [r \in Request |-> IF r \in R THEN next(r) ELSE computed[r]]
      /\ UNCHANGED <<clientVars, dpc, lane, admissionVars, decodeVars, rpcVars, up>>
  BY <1>1 DEF BatchEnds
<1>5. ASSUME NEW r \in Request
      PROVE  next(r) \in Nat
  <2>1. Prompt[r] \in Nat /\ computed[r] + PrefillChunk \in Nat
    BY RequestAssumption, CapacityAssumption, WorkerTypes
  <2>2. QED
    BY <2>1, MinOfTwo
<1>6. \A r \in C : r \in R /\ next(r) = Prompt[r]
  BY <1>2
<1> HIDE DEF next
<1>7. ASSUME NEW r \in Request
      PROVE  Keeps(r)
  <2>1. r \in R => job[r] = "inflight"
    BY <1>1, WorkerTypes
  <2>2. r \in C => computed'[r] = Prompt[r] /\ result[r] \in {"ok", "eos", "failed"}
    BY <1>3, <1>4, <1>6
  <2>3. CASE r \in C
    <3>1. job[r] = "inflight"
      BY <1>6, <2>1, <2>3
    <3>2. job'[r] = result[r] /\ src'[r] = IF result[r] = "failed" THEN "none" ELSE "retained"
      BY <1>3, <2>3
    <3>3. Working(r)'
      BY <2>2, <2>3, <3>2 DEF Working
    <3>4. QED
      BY <3>1, <3>3 DEF Keeps, Gone, Held
  <2>4. CASE r \notin C /\ r \in R
    <3>1. job[r] = "inflight" /\ job'[r] = "waiting" /\ src'[r] = src[r]
      BY <1>3, <2>1, <2>4
    <3>2. QED
      BY <3>1 DEF Keeps, Gone, Held, Working
  <2>5. CASE r \notin C /\ r \notin R
    <3>1. SameJob(r)
      BY <1>3, <1>4, <2>5 DEF SameJob
    <3>2. QED
      BY <3>1 DEF Keeps, Gone, Held, Working, SameJob
  <2>6. QED
    BY <2>3, <2>4, <2>5
<1>8. job' \in [Request -> {"none", "waiting", "inflight", "failed", "eos", "ok"}]
  BY <1>3, WorkerTypes
<1>9. src' \in [Request -> {"none", "filling", "retained"}]
  BY <1>3, WorkerTypes
<1>10. computed' \in [Request -> Nat]
  BY <1>4, <1>5, WorkerTypes
<1>11. QED
  BY <1>4, <1>7, <1>8, <1>9, <1>10, WorkerTypes, WorkerFrame

\* Once D's loop has ended P has nothing of any request.
LEMMA StoppedIsEmpty ==
  ASSUME IInv, Agreement, dpc = <<"stopped">>, NEW r \in Request
  PROVE  Gone(r)
<1>1. LaneOf[r] \in Lane
  BY RequestAssumption
<1>2. ~ LaneBusy(LaneOf[r])
  BY <1>1 DEF Agreement
<1>3. lane[LaneOf[r]].request = NoRequest /\ lane[LaneOf[r]].handoff = NoRequest
  BY <1>1, <1>2 DEF IInv, Placement, LaneShape, LaneBusy
<1>4. QED
  BY <1>3, RequestAssumption DEF Agreement, InLane, Leaving

\* P is shut down after D's loop, or dies and keeps its pages.
LEMMA WorkerEnds ==
  ASSUME IInv, NEW l \in Lane, WorkerStops(l) \/ WorkerDies(l)
  PROVE  IInv' /\ Settles
<1>1. CASE WorkerStops(l)
  <2>1. PICK R : R = {r \in Request : LaneOf[r] = l}
    OBVIOUS
  <2>2. /\ dpc \in {<<"stopped">>, <<"dead">>}
        /\ up' = [up EXCEPT ![l] = FALSE]
        /\ job' = [r \in Request |-> IF LaneOf[r] = l THEN "none" ELSE job[r]]
        /\ src' = [r \in Request |-> IF r \in R THEN "none" ELSE src[r]]
        /\ UNCHANGED <<clientVars, dpc, lane, admissionVars, decodeVars, rpcVars, computed>>
    BY <1>1, <2>1 DEF WorkerStops, Free
  <2>3. ASSUME Alive, NEW r \in Request
        PROVE  Keeps(r)
    <3>1. Gone(r)
      BY <2>2, <2>3, StoppedIsEmpty DEF IInv, Alive
    <3>2. Gone(r)'
      BY <2>2, <3>1 DEF Gone
    <3>3. QED
      BY <3>1, <3>2 DEF Keeps, Gone, Held, Working
  <2>4. QED
    BY <2>2, <2>3, WorkerTypes, WorkerFrame
<1>2. CASE WorkerDies(l)
  <2>1. /\ up' = [up EXCEPT ![l] = FALSE]
        /\ UNCHANGED <<clientVars, dpc, lane, admissionVars, decodeVars, rpcVars, job, computed, src>>
    BY <1>2 DEF WorkerDies
  <2>2. \A r \in Request : Keeps(r)
    BY <2>1 DEF Keeps, Gone, Held, Working
  <2>3. QED
    BY <2>1, <2>2, WorkerTypes, WorkerFrame
<1>3. QED
  BY <1>1, <1>2

\* What serving a message leaves of P's state is of its type, and it is about
\* the request of the message only.
LEMMA EffectIsLocal ==
  ASSUME IInv, NEW l \in Lane, NEW m, Effect(l, m)
  PROVE  /\ job' \in [Request -> {"none", "waiting", "inflight", "failed", "eos", "ok"}]
         /\ src' \in [Request -> {"none", "filling", "retained"}]
         /\ computed' = computed
         /\ \A q \in Request : q # m.request => SameJob(q)
<1>1. PICK r : r = m.request
  OBVIOUS
<1>2. computed' = computed
  BY DEF Effect
<1>3. \/ job' = job
      \/ \E s \in {"waiting", "none"} : job' = [job EXCEPT ![r] = s]
  <2>1. CASE m.type = "submit"
    BY <1>1, <2>1 DEF Effect
  <2>2. CASE m.type = "poll"
    <3>1. job' = [job EXCEPT ![r] = IF ReadyJob(r) THEN "none" ELSE job[r]]
      BY <1>1, <2>2 DEF Effect
    <3>2. CASE ReadyJob(r)
      BY <3>1, <3>2
    <3>3. CASE ~ ReadyJob(r)
      BY <3>1, <3>3, WorkerTypes
    <3>4. QED
      BY <3>2, <3>3
  <2>3. CASE m.type = "cancel"
    BY <1>1, <2>3 DEF Effect
  <2>4. CASE m.type = "release"
    BY <2>4 DEF Effect
  <2>5. QED
    BY <2>1, <2>2, <2>3, <2>4 DEF Effect
<1>4. \/ src' = src
      \/ \E R \in {{}, {r}} : src' = [q \in Request |-> IF q \in R THEN "none" ELSE src[q]]
  <2>1. CASE m.type \in {"submit", "poll"}
    BY <2>1 DEF Effect
  <2>2. CASE m.type = "cancel"
    BY <1>1, <2>2 DEF Effect, Free
  <2>3. CASE m.type = "release"
    <3>1. PICK R : R = {r} \cap {q \in Request : src[q] = "retained"}
      OBVIOUS
    <3>2. src' = [q \in Request |-> IF q \in R THEN "none" ELSE src[q]]
      BY <1>1, <2>3, <3>1 DEF Effect, Free
    <3>3. R = {} \/ R = {r}
      BY <3>1
    <3>4. QED
      BY <3>2, <3>3
  <2>4. QED
    BY <2>1, <2>2, <2>3 DEF Effect
<1>5. /\ job' \in [Request -> {"none", "waiting", "inflight", "failed", "eos", "ok"}]
      /\ \A q \in Request : q # r => job'[q] = job[q]
  BY <1>3, WorkerTypes
<1>6. /\ src' \in [Request -> {"none", "filling", "retained"}]
      /\ \A q \in Request : q # r => src'[q] = src[q]
  <2>1. CASE src' = src
    BY <2>1, WorkerTypes
  <2>2. ASSUME NEW R \in {{}, {r}},
               src' = [q \in Request |-> IF q \in R THEN "none" ELSE src[q]]
        PROVE  /\ src' \in [Request -> {"none", "filling", "retained"}]
               /\ \A q \in Request : q # r => src'[q] = src[q]
    BY <2>2, WorkerTypes
  <2>3. QED
    BY <1>4, <2>1, <2>2
<1>7. QED
  BY <1>1, <1>2, <1>5, <1>6 DEF SameJob

\* What serving it does to that request.
LEMMA EffectOnRequest ==
  ASSUME IInv, NEW l \in Lane, NEW m, NEW r \in Request, m.request = r, Effect(l, m)
  PROVE  /\ m.type = "submit" /\ Gone(r) => Working(r)'
         /\ m.type = "poll" /\ Working(r) =>
              CASE Reply(m) = "notready" -> Working(r)'
                [] Reply(m) = "failed" -> Gone(r)'
                [] Reply(m) \in {"eos", "ok"} -> Held(r)'
                [] OTHER -> FALSE
         /\ m.type = "cancel" /\ Working(r) => Gone(r)'
         /\ m.type = "release" /\ Held(r) => Gone(r)'
<1>1. computed' = computed
  BY DEF Effect
<1>2. ASSUME m.type = "submit", Gone(r)
      PROVE  Working(r)'
  <2>1. job' = [job EXCEPT ![r] = "waiting"] /\ src' = src
    BY <1>2 DEF Effect
  <2>2. QED
    BY <1>2, <2>1, WorkerTypes DEF Gone, Working
<1>3. ASSUME m.type = "poll", Working(r)
      PROVE  CASE Reply(m) = "notready" -> Working(r)'
               [] Reply(m) = "failed" -> Gone(r)'
               [] Reply(m) \in {"eos", "ok"} -> Held(r)'
               [] OTHER -> FALSE
  <2>1. job' = [job EXCEPT ![r] = IF ReadyJob(r) THEN "none" ELSE job[r]] /\ src' = src
    BY <1>3 DEF Effect
  <2>2. CASE ReadyJob(r)
    <3>1. Reply(m) = job[r] /\ job[r] \in {"failed", "eos", "ok"} /\ job'[r] = "none"
      BY <1>3, <2>1, <2>2, WorkerTypes DEF Reply, ReadyJob
    <3>2. job[r] = "failed" => Gone(r)'
      BY <1>3, <2>1, <3>1 DEF Working, Gone
    <3>3. job[r] \in {"eos", "ok"} => Held(r)'
      BY <1>1, <1>3, <2>1, <3>1 DEF Working, Held
    <3>4. QED
      BY <3>1, <3>2, <3>3
  <2>3. CASE ~ ReadyJob(r)
    <3>1. Reply(m) = "notready"
      BY <1>3, <2>3 DEF Reply, Working, ReadyJob
    <3>2. job'[r] = job[r]
      BY <2>1, <2>3, WorkerTypes
    <3>3. Working(r)'
      BY <1>1, <1>3, <2>1, <3>2 DEF Working
    <3>4. QED
      BY <3>1, <3>3
  <2>4. QED
    BY <2>2, <2>3
<1>4. ASSUME m.type = "cancel", Working(r)
      PROVE  Gone(r)'
  <2>1. job[r] # "none"
    BY <1>4 DEF Working
  <2>2. /\ job' = [job EXCEPT ![r] = "none"]
        /\ src' = [q \in Request |-> IF q \in {r} THEN "none" ELSE src[q]]
    BY <1>4, <2>1 DEF Effect, Free
  <2>3. QED
    BY <2>2, WorkerTypes DEF Gone
<1>5. ASSUME m.type = "release", Held(r)
      PROVE  Gone(r)'
  <2>1. job' = job
    BY <1>5 DEF Effect
  <2>2. PICK R : R = {r} \cap {q \in Request : src[q] = "retained"}
    OBVIOUS
  <2>3. src' = [q \in Request |-> IF q \in R THEN "none" ELSE src[q]]
    BY <1>5, <2>2 DEF Effect, Free
  <2>4. r \in R
    BY <1>5, <2>2 DEF Held
  <2>5. QED
    BY <1>5, <2>1, <2>3, <2>4 DEF Gone, Held
<1>6. QED
  BY <1>2, <1>3, <1>4, <1>5

\* P answers D.
LEMMA ServeStep ==
  ASSUME IInv, NEW l \in Lane, Serve(l)
  PROVE  IInv' /\ Settles
<1>1. /\ chan[l].type # "none" /\ chan[l].answer = "none" /\ Effect(l, chan[l])
      /\ UNCHANGED <<clientVars, dpc, lane, admissionVars, decodeVars, orphan, up>>
  BY DEF Serve
<1>2. PICK m : m = chan[l]
  OBVIOUS
<1>3. m \in Message
  BY <1>1, <1>2 DEF IInv, Typed, Silent
<1>4. PICK r \in Request : r = m.request
  BY <1>3 DEF Message
<1>5. PICK a : a = Reply(m)
  OBVIOUS
<1>6. a \in {"ok", "error", "notready", "failed", "eos"}
  BY <1>5 DEF Reply, ReadyJob
<1>7. chan' = [chan EXCEPT ![l] = [m EXCEPT !.answer = a]]
  BY <1>2, <1>5 DEF Serve
<1>8. PICK n : n = [m EXCEPT !.answer = a]
  OBVIOUS
<1>9. n \in Message /\ n.type = m.type /\ n.request = r /\ n.answer = a
  BY <1>3, <1>4, <1>6, <1>8 DEF Message
<1>10. /\ chan' \in [Lane -> {Silent} \cup Message]
       /\ chan'[l] = n /\ \A k \in Lane : k # l => chan'[k] = chan[k]
  BY <1>7, <1>8, <1>9 DEF IInv, Typed
<1>11. /\ job' \in [Request -> {"none", "waiting", "inflight", "failed", "eos", "ok"}]
       /\ src' \in [Request -> {"none", "filling", "retained"}]
       /\ computed' = computed
       /\ \A q \in Request : q # r => SameJob(q)
  BY <1>1, <1>2, <1>4, EffectIsLocal
<1>12. \A k \in Lane : SameRequests(k)
  BY <1>1 DEF SameRequests
<1>13. ASSUME Alive
       PROVE  Agreement'
  <2>1. Agreement /\ PrefillAgrees(l) /\ ReleaseAgrees(l) /\ LostAgrees(l)
    BY <1>13 DEF IInv, Agreement
  <2>2. (Prefilling(l) \/ Releasing(l)) /\ orphan[l] = Silent /\ LaneBusy(l)
    BY <1>1, <2>1, ExchangeUnderWay
  <2>3. /\ m.type = "submit" /\ Gone(r) => Working(r)'
        /\ m.type = "poll" /\ Working(r) =>
             CASE a = "notready" -> Working(r)'
               [] a = "failed" -> Gone(r)'
               [] a \in {"eos", "ok"} -> Held(r)'
               [] OTHER -> FALSE
        /\ m.type = "cancel" /\ Working(r) => Gone(r)'
        /\ m.type = "release" /\ Held(r) => Gone(r)'
    BY <1>1, <1>2, <1>4, <1>5, EffectOnRequest
  <2>4. m.type # "poll" => a = "ok"
    BY <1>5 DEF Reply
  <2>5. CASE Prefilling(l)
    <3>1. lane[l].request = r /\ lane[l].prefill # "none"
      BY <1>2, <1>4, <2>5 DEF Prefilling, Submitting, Polling, Cancelling, Asked
    <3>2. lane[l].releasing = "none" /\ lane[l].handoff = NoRequest
      BY <3>1, PrefillLane
    <3>3. LaneOf[r] = l
      BY <3>1, <1>4 DEF IInv, Placement, LaneShape
    <3>4. PrefillAgrees(l)'
      <4>1. CASE Submitting(l)
        <5>1. m.type = "submit" /\ Gone(r)
          BY <1>1, <1>2, <2>1, <3>1, <4>1 DEF Submitting, Asked, PrefillAgrees, Unserved
        <5>2. Working(r)' /\ a = "ok"
          BY <2>3, <2>4, <5>1
        <5>3. QED
          BY <1>1, <1>9, <1>10, <3>1, <4>1, <5>1, <5>2
             DEF Submitting, PrefillAgrees, Asked, Unserved
      <4>2. CASE Polling(l)
        <5>1. m.type = "poll" /\ Working(r)
          BY <1>1, <1>2, <2>1, <3>1, <4>2 DEF Polling, Asked, PrefillAgrees
        <5>2. /\ a \in {"notready", "failed", "eos", "ok"}
              /\ a = "notready" => Working(r)'
              /\ a = "failed" => Gone(r)'
              /\ a \in {"eos", "ok"} => Held(r)'
          BY <2>3, <5>1
        <5>3. QED
          BY <1>1, <1>9, <1>10, <3>1, <4>2, <5>1, <5>2
             DEF Polling, PrefillAgrees, Asked
      <4>3. CASE Cancelling(l)
        <5>1. m.type = "cancel" /\ Working(r)
          BY <1>1, <1>2, <2>1, <3>1, <4>3 DEF Cancelling, Asked, PrefillAgrees, Unserved
        <5>2. Gone(r)' /\ a = "ok"
          BY <2>3, <2>4, <5>1
        <5>3. QED
          BY <1>1, <1>9, <1>10, <3>1, <4>3, <5>1, <5>2
             DEF Cancelling, PrefillAgrees, Asked, Unserved
      <4>4. QED
        BY <2>5, <4>1, <4>2, <4>3 DEF Prefilling
    <3>5. ReleaseAgrees(l)'
      BY <1>1, <3>2 DEF ReleaseAgrees
    <3>6. LostAgrees(l)'
      BY <1>1, <2>1, <2>2, <2>5, <3>2
         DEF LostAgrees, LaneBusy, Prefilling, Submitting, Polling, Cancelling
    <3>7. OnlyLane(l)
      BY <1>1, <1>10, <1>11, <3>3 DEF OnlyLane, SameLane
    <3>8. QED
      BY <1>1, <1>11, <1>12, <2>1, <2>2, <3>1, <3>4, <3>5, <3>6, <3>7, ExchangeAgrees
  <2>6. CASE Releasing(l)
    <3>1. lane[l].handoff = r /\ lane[l].releasing = "waiting" /\ m.type = "release"
      BY <1>2, <1>4, <2>6 DEF Releasing, Asked
    <3>2. lane[l].prefill = "none" /\ lane[l].request = NoRequest
      BY <3>1, ReleaseLane
    <3>3. LaneOf[r] = l
      BY <3>1, <1>4 DEF IInv, Placement, LaneShape
    <3>4. Gone(r)' /\ a = "ok"
      BY <1>1, <2>1, <2>3, <2>4, <3>1 DEF ReleaseAgrees, Unserved
    <3>5. ReleaseAgrees(l)'
      BY <1>1, <1>9, <1>10, <3>1, <3>4 DEF ReleaseAgrees, Asked, Unserved
    <3>6. PrefillAgrees(l)' /\ LostAgrees(l)'
      BY <1>1, <2>2, <3>1, <3>2 DEF PrefillAgrees, LostAgrees, LaneBusy
    <3>7. OnlyLane(l)
      BY <1>1, <1>10, <1>11, <3>3 DEF OnlyLane, SameLane
    <3>8. QED
      BY <1>1, <1>11, <1>12, <2>1, <2>2, <3>1, <3>5, <3>6, <3>7, ExchangeAgrees
  <2>7. QED
    BY <2>2, <2>5, <2>6
<1>14. ExchangeTyped'
  BY <1>1, <1>10, <1>11 DEF ExchangeTyped, IInv, Typed, TypeOK
<1>15. QED
  BY <1>1, <1>12, <1>13, <1>14, ExchangeFrame

\* P serves a request D has given up on; D no longer relies on it.
LEMMA ServeOrphanStep ==
  ASSUME IInv, NEW l \in Lane, ServeOrphan(l)
  PROVE  IInv' /\ Settles
<1>1. /\ orphan[l] # Silent /\ Effect(l, orphan[l])
      /\ orphan' = [orphan EXCEPT ![l] = Silent]
      /\ UNCHANGED <<clientVars, dpc, lane, admissionVars, decodeVars, chan, up>>
  BY DEF ServeOrphan
<1>2. /\ DOMAIN orphan' = Lane
      /\ orphan'[l] = Silent /\ \A k \in Lane : k # l => orphan'[k] = orphan[k]
  BY <1>1 DEF IInv, Typed
<1>3. PICK r : r = orphan[l].request
  OBVIOUS
<1>4. /\ job' \in [Request -> {"none", "waiting", "inflight", "failed", "eos", "ok"}]
      /\ src' \in [Request -> {"none", "filling", "retained"}]
      /\ computed' = computed
      /\ \A q \in Request : q # r => SameJob(q)
  BY <1>1, <1>3, EffectIsLocal
<1>5. \A k \in Lane : SameRequests(k)
  BY <1>1 DEF SameRequests
<1>6. ASSUME Alive
      PROVE  Agreement'
  <2>1. Agreement /\ LostAgrees(l)
    BY <1>6 DEF IInv, Agreement
  <2>2. /\ "lost" \in {lane[l].prefill, lane[l].releasing} /\ LaneBusy(l)
        /\ r \in {lane[l].request, lane[l].handoff} \ {NoRequest}
        /\ chan[l] = Silent
    BY <1>1, <1>3, <2>1 DEF LostAgrees, LaneBusy
  <2>3. /\ lane[l].prefill = "lost" => lane[l].releasing = "none"
        /\ lane[l].releasing = "lost" => lane[l].prefill = "none"
    BY PrefillLane, ReleaseLane
  <2>4. PrefillAgrees(l)' /\ ReleaseAgrees(l)' /\ LostAgrees(l)'
    BY <1>1, <1>2, <2>2, <2>3 DEF PrefillAgrees, ReleaseAgrees, LostAgrees, LaneBusy
  <2>5. r \in Request /\ LaneOf[r] = l
    <3>1. lane[l].request \in Request \cup {NoRequest} /\ lane[l].handoff \in Request \cup {NoRequest}
      BY TypeFacts DEF IInv
    <3>2. LaneShape(l)
      BY DEF IInv, Placement
    <3>3. QED
      BY <2>2, <3>1, <3>2 DEF LaneShape
  <2>6. OnlyLane(l)
    BY <1>1, <1>2, <1>4, <2>5 DEF OnlyLane, SameLane
  <2>7. QED
    BY <1>1, <1>4, <1>5, <2>1, <2>2, <2>4, <2>6, ExchangeAgrees
<1>7. ExchangeTyped'
  BY <1>1, <1>2, <1>4 DEF ExchangeTyped, IInv, Typed, TypeOK
<1>8. QED
  BY <1>1, <1>5, <1>6, <1>7, ExchangeFrame

-----------------------------------------------------------------------------
(* The invariant holds initially, and every step keeps it.                   *)

\* What the program starts with satisfies it.
LEMMA InitHolds == Init => IInv
<1> SUFFICES ASSUME Init PROVE IInv
  OBVIOUS
<1>1. /\ queue = [l \in Lane |-> <<>>] /\ handle = [r \in Request |-> "new"]
      /\ lane = [l \in Lane |-> IdleLane] /\ dpc = <<"result", 0>>
      /\ decoding = {} /\ finished = {} /\ stopped = {}
      /\ active = [l \in Lane |-> 0] /\ used = [l \in Lane |-> 0]
      /\ context = [r \in Request |-> 0]
  BY DEF Init
<1>2. /\ chan = [l \in Lane |-> Silent] /\ orphan = [l \in Lane |-> Silent]
      /\ job = [r \in Request |-> "none"] /\ src = [r \in Request |-> "none"]
      /\ computed = [r \in Request |-> 0] /\ up = [l \in Lane |-> TRUE]
      /\ stopping = FALSE
  BY DEF Init
<1>3. /\ \A l \in Lane : lane[l] = IdleLane /\ queue[l] = <<>> /\ Len(queue[l]) = 0
      /\ \A r \in Request : LaneOf[r] \in Lane
  BY <1>1, RequestAssumption
<1>4. /\ IdleLane \in LaneRecord
      /\ IdleLane.request = NoRequest /\ IdleLane.handoff = NoRequest
      /\ IdleLane.prefill = "none" /\ IdleLane.releasing = "none"
  BY DEF IdleLane, LaneRecord, PrefillStates, ReleaseStates
<1>5. 0 \in Lane /\ <<"result", 0>> \in Places
  BY DEF Lane, Places
<1>6. Typed
  <2>1. TypeOK
    <3>1. queue \in [Lane -> Seq(Request)]
      BY <1>1
    <3>2. /\ handle \in [Request -> {"new", "open", "cancelling"} \cup Terminal]
          /\ stopping \in BOOLEAN
      BY <1>1, <1>2
    <3>3. /\ active \in [Lane -> Nat] /\ used \in [Lane -> Nat]
          /\ context \in [Request -> Nat] /\ computed \in [Request -> Nat]
      BY <1>1, <1>2
    <3>4. /\ src \in [Request -> {"none", "filling", "retained"}]
          /\ up \in [Lane -> BOOLEAN]
      BY <1>2
    <3>5. /\ decoding \subseteq Request /\ stopped \subseteq Request
          /\ finished \subseteq [request : Request, failed : BOOLEAN]
      BY <1>1
    <3>6. \A l \in Lane : /\ lane[l].request \in Request \cup {NoRequest}
                         /\ lane[l].handoff \in Request \cup {NoRequest}
      BY <1>3, <1>4
    <3>7. QED
      BY <3>1, <3>2, <3>3, <3>4, <3>5, <3>6 DEF TypeOK
  <2>2. lane \in [Lane -> LaneRecord]
    BY <1>1, <1>4
  <2>3. /\ dpc \in Places /\ DOMAIN orphan = Lane
        /\ chan \in [Lane -> {Silent} \cup Message]
        /\ job \in [Request -> {"none", "waiting", "inflight", "failed", "eos", "ok"}]
    BY <1>1, <1>2, <1>5
  <2>4. QED
    BY <2>1, <2>2, <2>3 DEF Typed
<1>7. Placement
  <2>1. \A l \in Lane : LaneShape(l)
    BY <1>3, <1>4, RequestAssumption DEF LaneShape
  <2>2. \A l \in Lane : QueueShape(l)
    BY <1>3 DEF QueueShape
  <2>3. \A r \in Request : Placed(r)
    BY <1>1, <1>3, <1>4, RequestAssumption DEF Placed, InQueue, InLane, Leaving
  <2>4. QED
    BY <2>1, <2>2, <2>3 DEF Placement
<1>8. Agreement
  <2>1. \A l \in Lane : PrefillAgrees(l) /\ ReleaseAgrees(l) /\ LostAgrees(l)
    BY <1>2, <1>3, <1>4 DEF PrefillAgrees, ReleaseAgrees, LostAgrees, LaneBusy
  <2>2. QED
    BY <1>1, <1>2, <1>5, <2>1, PlacesApart DEF Agreement, Gone
<1>9. Contexts
  <2>1. \A l \in Lane : dpc # <<"copy", l>>
    BY <1>1, <1>5, PlacesApart
  <2>2. \A r \in Request : ~ Copying(r) /\ r \notin Running /\ context[r] = 0
    BY <1>1, <1>3, <2>1 DEF Copying, Running
  <2>3. QED
    BY <1>1, <2>1, <2>2 DEF Contexts
<1>10. AdmissionExact
  <2>1. ASSUME NEW l \in Lane
        PROVE  Admitted(l) = {}
    BY <1>1, <1>3, <1>4 DEF Admitted
  <2>2. Cardinality({}) = 0
    BY FS_EmptySet
  <2>3. ChargeOf({}) = 0
    BY ChargeOfIsSum, SumUnfolds, FS_EmptySet
  <2>4. QED
    BY <1>1, <2>1, <2>2, <2>3 DEF AdmissionExact
<1>11. Promised
  BY <1>1, CapacityAssumption DEF Promised
<1>12. QED
  BY <1>6, <1>7, <1>8, <1>9, <1>10, <1>11 DEF IInv

\* D's steps.
LEMMA DecodeKeeps ==
  ASSUME IInv, Decode
  PROVE  IInv' /\ Settles
<1>1. ASSUME NEW l \in Lane,
             \/ ReleaseSettled(l) \/ NoResult(l) \/ Fatal(l) \/ PrefillFailed(l)
             \/ NothingToDecode(l) \/ CopyBegins(l) \/ CopyRejected(l)
             \/ CopyEnds(l) \/ CommitFails(l)
             \/ DispatchBusy(l) \/ HeadWaits(l) \/ HeadTooLarge(l) \/ HeadDispatched(l)
      PROVE  IInv' /\ Settles
  BY <1>1, ReleaseSettledStep, LoopSteps, FatalStep, PrefillFailedStep, FinishedEarlyStep,
     CopyBeginsStep, CopyEndsStep, CommitFailsStep, HeadStaysOrGoes, HeadDispatchedStep
<1>2. CASE Wake
  <2>1. 0 \in Lane
    BY DEF Lane
  <2>2. QED
    BY <1>2, <2>1, LoopSteps
<1>3. QED
  BY <1>1, <1>2, SweepStep, DecodeStepStep, ReapStep DEF Decode

\* Every step keeps the invariant and every outcome.
LEMMA NextKeeps ==
  ASSUME IInv, [Next]_vars
  PROVE  IInv' /\ Final
<1>1. ASSUME IInv' /\ Settles
      PROVE  IInv' /\ Final
  BY <1>1, TypeFacts, SettlesIsFinal DEF IInv
<1>2. CASE (\E r \in Request : Cancel(r)) \/ Stop \/ UNCHANGED vars
  BY <1>2, ClientSteps
<1>3. CASE Decode
  BY <1>1, <1>3, DecodeKeeps
<1>4. ASSUME NEW l \in Lane, Exchange(l) \/ Timeout(l)
      PROVE  IInv' /\ Settles
  BY <1>4, PrefillAsks, PrefillAnsweredStep, ReleaseStartsStep, ReleaseAnsweredStep, TimeoutStep
     DEF Exchange
<1>5. ASSUME NEW l \in Lane, \/ Serve(l) \/ ServeOrphan(l) \/ Batch(l)
                             \/ WorkerStops(l) \/ WorkerDies(l)
      PROVE  IInv' /\ Settles
  BY <1>5, ServeStep, ServeOrphanStep, BatchStartsStep, BatchFailsStep, BatchEndsStep, WorkerEnds
     DEF Batch
<1>6. ASSUME NEW r \in Request, Submit(r)
      PROVE  IInv' /\ Final
  BY <1>6, SubmitStep
<1>7. QED
  BY <1>1, <1>2, <1>3, <1>4, <1>5, <1>6 DEF Next

-----------------------------------------------------------------------------
(* What the invariant implies.                                               *)

\* While the copy reads them, P's pages are held; D knows of all P holds; and
\* no exchange is in an error.
LEMMA ImpliesHeld ==
  ASSUME IInv
  PROVE  SourcesHeld
<1>1. SourceOutlivesCopy
  BY CopyFacts DEF SourceOutlivesCopy, Held
<1>2. SourcesTraced
  <2>1. ASSUME Alive, NEW r \in Request, src[r] # "none"
        PROVE  r \in {lane[LaneOf[r]].request, lane[LaneOf[r]].handoff}
    <3>1. ~ Gone(r)
      BY <2>1 DEF Gone
    <3>2. InLane(r) \/ Leaving(r)
      BY <2>1, <3>1 DEF IInv, Agreement
    <3>3. QED
      BY <3>2 DEF InLane, Leaving
  <2>2. QED
    BY <2>1 DEF SourcesTraced
<1>3. NoRpcError
  <2>1. ASSUME NEW l \in Lane
        PROVE  "error" \notin {lane[l].prefill, lane[l].releasing}
    <3>1. lane[l].prefill \in PrefillStates /\ lane[l].releasing \in ReleaseStates
      BY TypeFacts DEF IInv
    <3>2. QED
      BY <3>1 DEF PrefillStates, ReleaseStates
  <2>2. QED
    BY <2>1 DEF NoRpcError
<1>4. QED
  BY <1>1, <1>2, <1>3 DEF SourcesHeld

\* D holds no more for a request than it was charged, and nothing for one that
\* is not admitted.
LEMMA HoldsWithinCharge ==
  ASSUME IInv, NEW r \in Request
  PROVE  /\ Holds[r] \in Nat /\ Holds[r] <= Charges[r]
         /\ r \notin Admitted(LaneOf[r]) => Holds[r] = 0
<1>1. Prompt[r] \in Nat /\ Output[r] \in Nat /\ context[r] \in Nat /\ LaneOf[r] \in Lane
  BY RequestAssumption DEF IInv, Typed, TypeOK
<1>2. Holds[r] = Pages(context[r]) /\ Charges[r] = Pages(Prompt[r] + Output[r])
  BY ChargeNat DEF Holds
<1>3. context[r] <= Prompt[r] + Output[r]
  BY <1>1 DEF IInv, Contexts
<1>4. Holds[r] \in Nat /\ Holds[r] <= Charges[r]
  <2>1. Prompt[r] + Output[r] \in Nat
    BY <1>1
  <2>2. QED
    BY <1>1, <1>2, <1>3, <2>1, PagesGrow
<1>5. ASSUME r \notin Admitted(LaneOf[r])
      PROVE  Holds[r] = 0
  <2>1. r # NoRequest
    BY RequestAssumption
  <2>2. r \notin decoding /\ ~ InLane(r)
    BY <1>5, <2>1 DEF Admitted, InLane
  <2>3. r \notin Running /\ ~ Copying(r)
    BY <2>2 DEF Running, Copying
  <2>4. context[r] = 0
    BY <2>3 DEF IInv, Contexts
  <2>5. Pages(0) = 0
    BY <1>1, PagesGrow
  <2>6. QED
    BY <1>2, <2>4, <2>5
<1>6. QED
  BY <1>4, <1>5

\* What a lane counts is what it promised, and covers what D holds for it.
LEMMA ImpliesAdmission ==
  ASSUME IInv
  PROVE  AdmissionSound
<1>1. ASSUME NEW l \in Lane
      PROVE  MapThenSumSet(LAMBDA r : Pages(context[r]), {r \in Request : LaneOf[r] = l}) <= used[l]
  <2>1. PICK R : R = {r \in Request : LaneOf[r] = l}
    OBVIOUS
  <2>2. PICK A : A = Admitted(l)
    OBVIOUS
  <2>3. /\ R \subseteq Request /\ IsFiniteSet(R)
        /\ A \in SUBSET R /\ IsFiniteSet(A) /\ IsFiniteSet(R \ A)
    <3>1. A \subseteq Request /\ \A r \in A : LaneOf[r] = l
      BY <2>2, AdmittedFacts DEF IInv
    <3>2. R \subseteq Request /\ A \in SUBSET R
      BY <2>1, <3>1
    <3>3. QED
      BY <3>2, FS_Subset, RequestAssumption
  <2>4. /\ \A r \in R : Holds[r] \in Int
        /\ \A r \in A : Holds[r] \in Int /\ Charges[r] \in Int /\ Holds[r] <= Charges[r]
        /\ \A r \in R \ A : Holds[r] = 0
    <3>1. ASSUME NEW r \in R
          PROVE  /\ Holds[r] \in Nat /\ Charges[r] \in Nat /\ Holds[r] <= Charges[r]
                 /\ r \notin A => Holds[r] = 0
      BY <2>1, <2>2, HoldsWithinCharge, ChargeNat
    <3>2. QED
      BY <2>3, <3>1
  <2>5. SumFunctionOnSet(Holds, R) =
          SumFunctionOnSet(Holds, A) + SumFunctionOnSet(Holds, R \ A)
    BY <2>3, <2>4, SumSplits
  <2>6. SumFunctionOnSet(Holds, R \ A) = 0
    BY <2>3, <2>4, SumZero
  <2>7. SumFunctionOnSet(Holds, A) <= SumFunctionOnSet(Charges, A)
    BY <2>3, <2>4, SumBounded
  <2>8. SumFunctionOnSet(Holds, A) \in Int
    BY <2>3, <2>4, SumInt
  <2>9. used[l] = SumFunctionOnSet(Charges, A)
    BY <2>2, <2>3, ChargeOfIsSum DEF IInv, AdmissionExact
  <2>10. MapThenSumSet(LAMBDA r : Pages(context[r]), R) = SumFunctionOnSet(Holds, R)
    BY <2>3, HoldsIsSum
  <2>11. MapThenSumSet(LAMBDA r : Pages(context[r]), R) <= used[l]
    BY <2>5, <2>6, <2>7, <2>8, <2>9, <2>10
  <2>12. QED
    BY <2>1, <2>11
<1>2. PromiseCovers
  BY <1>1 DEF PromiseCovers, IInv, Promised
<1>3. QED
  BY <1>2 DEF AdmissionSound, IInv

-----------------------------------------------------------------------------
(* The theorems.                                                             *)

\* So it is an invariant.
LEMMA Invariance == Spec => []IInv
<1>1. Init => IInv
  BY InitHolds
<1>2. IInv /\ [Next]_vars => IInv'
  BY NextKeeps
<1>3. QED
  BY <1>1, <1>2, PTL DEF Spec

\* Every variable of D, its lanes and both P has its type.
THEOREM TypeCorrect == Spec => []TypeOK
<1>1. IInv => TypeOK
  BY DEF IInv, Typed
<1>2. QED
  BY <1>1, Invariance, PTL

\* P neither frees nor forgets what D still needs of it: a copy reads whole
\* prompts that are held, D knows every request P has pages of until it dies,
\* and P never answers it with an error, whatever is cancelled, times out,
\* fails or is served late.
THEOREM SourcesAreHeld == Spec => []SourcesHeld
<1>1. IInv => SourcesHeld
  BY ImpliesHeld
<1>2. QED
  BY <1>1, Invariance, PTL

\* The counters of a lane are those of its requests, through every exit of the
\* loop; they stay within its slots and quota and cover the KV tokens D holds.
THEOREM AdmissionIsSound == Spec => []AdmissionSound
<1>1. IInv => AdmissionSound
  BY ImpliesAdmission
<1>2. QED
  BY <1>1, Invariance, PTL

\* A request keeps the outcome it has, and one cancelled in time is cancelled.
THEOREM OutcomesAreFinal == Spec => OutcomeIsFinal
<1> DEFINE Kept == \A r \in Request :
             /\ handle[r] \in Terminal => handle'[r] = handle[r]
             /\ handle[r] = "cancelling" => handle'[r] \in {"cancelling", "cancelled"}
<1>1. IInv /\ [Next]_vars => [Kept]_vars
  BY NextKeeps DEF Final
<1>2. Spec => [][Kept]_vars
  BY <1>1, Invariance, PTL DEF Spec
<1>3. QED
  BY <1>2 DEF OutcomeIsFinal
=============================================================================
