---------------------------- MODULE PDRoles_proofs ----------------------------
(***************************************************************************)
(* The roles give every block of their budget back exactly once, D reads   *)
(* only what P holds, and a submit that was in time leaves nothing behind: *)
(* for all requests, demands, capacities and interleavings.                *)
(***************************************************************************)
EXTENDS PDRoles, SetLemmas, SequenceTheorems

-----------------------------------------------------------------------------
(* The state of one request. *)

DecodeOps == {"pd_reserve D", "pd_decode", "pd_unreserve D"}
PrefillOps == {"probe", "pd_reserve P", "pd_prefill", "pd_unreserve P", "pd_release"}
Ops == DecodeOps \cup PrefillOps
RoleOf(op) == IF op \in DecodeOps THEN "D" ELSE "P"
Cmd(op, r) == [op |-> op, request |-> r]

Entry(q, c) == \E i \in 1..Len(q) : q[i] = c
Distinct(q) == \A i, j \in 1..Len(q) : q[i] = q[j] => i = j
InOrder(q, c, d) == \A i, j \in 1..Len(q) : q[i] = c /\ q[j] = d => i < j

\* Commands of r that no owner thread has begun, and the roles where r has a
\* reservation or runs.
Pend(r) == {op \in Ops : Entry(queue[RoleOf(op)], Cmd(op, r))}
Has(r) == {w \in Role : r \in resv[w]}
Runs(r) == {w \in Role : running[w].request = r}
On(r, w) == w \in Has(r) \cup Runs(r) \/ (w = "P" /\ r \in holds)

\* Stages of a submit that has not come to op.
Ahead(op) ==
  CASE op = "probe" -> {"new", "encode"}
    [] op = "pd_reserve D" -> {"new", "encode", "probe"}
    [] op = "pd_reserve P" -> {"new", "encode", "probe", "pd_reserve D"}
    [] op = "pd_prefill" -> {"new", "encode", "probe", "pd_reserve D", "pd_reserve P"}
    [] op = "pd_decode" -> {"new", "encode", "probe", "pd_reserve D", "pd_reserve P",
                            "pd_prefill"}
    [] OTHER -> Working \cup {"new"}

\* The submit of r may still send op.
Unsent(r, op) ==
  \/ stage[r] \in Ahead(op)
  \/ op = "pd_unreserve P" /\ "P" \in reserved[r]
  \/ op = "pd_unreserve D" /\ "D" \in reserved[r]
  \/ op = "pd_release" /\ handoff[r]

Fresh(r, w) == stage[r] \in Ahead(ReserveOp[w]) \/ ReserveOp[w] \in Pend(r)

-----------------------------------------------------------------------------
(* The inductive invariant. *)

\* Every command is sent once, and the reclaim gives back what was recorded.
Sending(r) ==
  /\ \A op \in Pend(r) : ~ Unsent(r, op)
  /\ stage[r] \in {"new", "encode", "probe", "pd_reserve D"} => reserved[r] = {}
  /\ stage[r] \in {"pd_reserve P", "pd_prefill"} => "D" \in reserved[r]
  /\ stage[r] = "pd_decode" => reserved[r] = {"D"} /\ handoff[r]
  /\ stage[r] \in Ahead("pd_decode") => ~ handoff[r]
  /\ stage[r] = "done" => reserved[r] = {} /\ ~ handoff[r]
  /\ "pd_release" \in Pend(r) => /\ reserved[r] = {}
                                 /\ stage[r] \in {"pd_release", "reclaim", "done"}

\* What a role has of r was reserved once, and is in one place.
Taking(r) ==
  /\ \A w \in Role : Fresh(r, w) => ~ On(r, w)
  /\ Has(r) \cap Runs(r) = {}
  /\ r \in holds => "P" \notin Has(r) \cup Runs(r) /\ r \in kv
  /\ stage[r] \in Ahead("pd_prefill") => r \notin kv
  /\ "P" \in Runs(r) => r \in kv /\ "pd_prefill" \notin Pend(r)
  /\ "D" \in Runs(r) => stage[r] \notin Ahead("pd_decode") /\ "pd_decode" \notin Pend(r)

\* A decode of r that may still run, or still be served, is one the submit waits
\* for, or waits behind, unless its reclaim has seen an error.
Reading(r) ==
  clean[r] /\ ("D" \in Runs(r) \/ "pd_decode" \in Pend(r)) =>
    /\ "D" \in Runs(r) => r \in holds
    /\ \/ stage[r] = "pd_decode" /\ answer[r] = "none"
       \/ stage[r] \in {"cancel", "reclaim", "pd_unreserve P"} /\ "D" \in reserved[r]
       \/ stage[r] = "pd_unreserve D" /\ answer[r] # "ok"

\* The submit of r waits for a decode it has sent.
Offering(r) == stage[r] = "pd_decode" => r \in offered

\* In time and without an error: only the command the submit waits for is under
\* way, and what the roles have of r is what the submit knows of.
InTime(r) == clean[r] /\ ~ late[r]

Waiting(r) ==
  InTime(r) =>
    /\ \A op \in Pend(r) : stage[r] = op /\ answer[r] = "none"
    /\ "P" \in Runs(r) => stage[r] = "pd_prefill" /\ answer[r] = "none"
    /\ "D" \in Runs(r) => stage[r] = "pd_decode" /\ answer[r] = "none"

KnownToP(r) ==
  \/ stage[r] \in {"pd_reserve P", "pd_prefill"} \/ "P" \in reserved[r] \/ handoff[r]
  \/ stage[r] \in {"pd_unreserve P", "pd_release"} /\ answer[r] # "ok"

KnownToD(r) ==
  \/ stage[r] \in {"pd_reserve D", "pd_reserve P", "pd_prefill", "pd_decode"}
  \/ "D" \in reserved[r]
  \/ stage[r] = "pd_unreserve D" /\ answer[r] # "ok"
  \/ r \in offered /\ outcome[r] # "finished"

Clearing(r) ==
  InTime(r) =>
    /\ \A w \in Role : stage[r] = ReserveOp[w] /\ answer[r] # "ok" => w \notin Has(r)
    /\ stage[r] = "pd_decode" /\ answer[r] = "ok" => "D" \notin Has(r)
    /\ On(r, "P") \/ r \in kv => KnownToP(r)
    /\ stage[r] = "pd_unreserve P" \/ (stage[r] # "pd_prefill" /\ "P" \in reserved[r]) =>
         r \notin kv
    /\ "D" \in Has(r) => KnownToD(r)

RequestOK(r) ==
  /\ Sending(r) /\ Taking(r) /\ Reading(r) /\ Offering(r) /\ Waiting(r) /\ Clearing(r)

QueueOK ==
  /\ \A w \in Role : Distinct(queue[w])
  /\ \A r \in Request : InOrder(queue["D"], Cmd("pd_decode", r), Cmd("pd_unreserve D", r))

Taken(w) == resv[w] \cup Busy(w) \cup (IF w = "P" THEN holds ELSE {})

BudgetOK ==
  \A w \in Role :
    IsFiniteSet(Taken(w)) /\ used[w] = SumFunctionOnSet(Demand[w], Taken(w))

Running == [op : {"forward", "export", "decode"}, request : Request] \cup {Idle}

Typed ==
  /\ TypeOK
  /\ telling \in [Request -> {<<>>, <<"D">>, <<"P", "D">>}]
  /\ queue \in [Role -> Seq([op : Ops, request : Request])]
  /\ running \in [Role -> Running]
  /\ used \in [Role -> Nat] /\ resv \in [Role -> SUBSET Request]
  /\ cancelled \in [Role -> SUBSET Request]
  /\ published = holds

IInv == Typed /\ QueueOK /\ BudgetOK /\ \A r \in Request : RequestOK(r)

-----------------------------------------------------------------------------
(* Queues. *)

\* What a queue holds after a command was put at its end.
LEMMA AppendEffect ==
  ASSUME NEW C, NEW q \in Seq(C), NEW c \in C
  PROVE  /\ Append(q, c) \in Seq(C) /\ Len(Append(q, c)) = Len(q) + 1
         /\ \A d : Entry(Append(q, c), d) <=> Entry(q, d) \/ d = c
         /\ Distinct(q) /\ ~ Entry(q, c) => Distinct(Append(q, c))
         /\ \A a, b : InOrder(q, a, b) /\ ~ Entry(q, c) /\ (c = a => b # a /\ ~ Entry(q, b))
                        => InOrder(Append(q, c), a, b)
<1> DEFINE p == Append(q, c)
<1>1. /\ p \in Seq(C) /\ Len(p) = Len(q) + 1 /\ Len(q) \in Nat
      /\ \A i \in 1..Len(q) : p[i] = q[i]
      /\ p[Len(q) + 1] = c
  BY AppendProperties
<1>2. 1..Len(p) = 1..Len(q) \cup {Len(q) + 1}
  BY <1>1
<1> HIDE DEF p
<1>3. \A d : Entry(p, d) <=> Entry(q, d) \/ d = c
  BY <1>1, <1>2 DEF Entry
<1>4. Distinct(q) /\ ~ Entry(q, c) => Distinct(p)
  BY <1>1, <1>2 DEF Entry, Distinct
<1>5. ASSUME NEW a, NEW b, InOrder(q, a, b), ~ Entry(q, c), c = a => b # a /\ ~ Entry(q, b)
      PROVE  InOrder(p, a, b)
  <2>1. SUFFICES ASSUME NEW i \in 1..Len(p), NEW j \in 1..Len(p), p[i] = a, p[j] = b
                 PROVE  i < j
    BY DEF InOrder
  <2>2. CASE i \in 1..Len(q) /\ j \in 1..Len(q)
    BY <1>1, <1>5, <2>1, <2>2 DEF InOrder
  <2>3. CASE i = Len(q) + 1
    BY <1>1, <1>2, <1>5, <2>1, <2>3 DEF Entry
  <2>4. CASE i \in 1..Len(q) /\ j = Len(q) + 1
    BY <1>1, <2>4
  <2>5. QED
    BY <1>2, <2>1, <2>2, <2>3, <2>4
<1>6. QED
  BY <1>1, <1>3, <1>4, <1>5 DEF p

\* What a queue without repetitions holds when its head was taken.
LEMMA TailEffect ==
  ASSUME NEW C, NEW q \in Seq(C), q # <<>>, Distinct(q)
  PROVE  /\ Tail(q) \in Seq(C) /\ Len(Tail(q)) = Len(q) - 1 /\ Distinct(Tail(q))
         /\ Head(q) \in C /\ Entry(q, Head(q))
         /\ \A d : Entry(Tail(q), d) <=> Entry(q, d) /\ d # Head(q)
         /\ \A a, b : InOrder(q, a, b) => InOrder(Tail(q), a, b)
         /\ \A a : InOrder(q, a, Head(q)) => ~ Entry(q, a)
<1> DEFINE t == Tail(q)
<1>1. /\ t \in Seq(C) /\ Len(t) = Len(q) - 1 /\ Len(q) \in Nat \ {0} /\ Head(q) \in C
      /\ Head(q) = q[1]
      /\ \A i \in 1..Len(t) : t[i] = q[i + 1] /\ i + 1 \in 1..Len(q)
  BY HeadTailProperties
<1>2. 1 \in 1..Len(q) /\ \A j \in 1..Len(q) : j = 1 \/ (j - 1 \in 1..Len(t) /\ t[j - 1] = q[j])
  BY <1>1
<1> HIDE DEF t
<1>3. Distinct(t)
  BY <1>1 DEF Distinct
<1>4. ASSUME NEW d
      PROVE  Entry(t, d) <=> Entry(q, d) /\ d # Head(q)
  <2>1. ASSUME Entry(t, d)
        PROVE  Entry(q, d) /\ d # Head(q)
    <3>1. PICK i \in 1..Len(t) : t[i] = d
      BY <2>1 DEF Entry
    <3>2. i + 1 \in 1..Len(q) /\ q[i + 1] = d /\ i + 1 # 1
      BY <1>1, <3>1
    <3>3. QED
      BY <1>1, <1>2, <3>2 DEF Entry, Distinct
  <2>2. ASSUME Entry(q, d), d # Head(q)
        PROVE  Entry(t, d)
    BY <1>1, <1>2, <2>2 DEF Entry
  <2>3. QED
    BY <2>1, <2>2
<1>5. ASSUME NEW a, NEW b, InOrder(q, a, b)
      PROVE  InOrder(t, a, b)
  BY <1>1, <1>5, SMTT(30) DEF InOrder
<1>6. ASSUME NEW a, InOrder(q, a, Head(q))
      PROVE  ~ Entry(q, a)
  BY <1>1, <1>2, <1>6 DEF InOrder, Entry
<1>7. QED
  BY <1>1, <1>2, <1>3, <1>4, <1>5, <1>6 DEF t, Entry

-----------------------------------------------------------------------------
(* Frames: what a step leaves as it was. *)

\* Nothing the invariant says of s has changed.
Same(s) ==
  /\ stage'[s] = stage[s] /\ answer'[s] = answer[s] /\ outcome'[s] = outcome[s]
  /\ reserved'[s] = reserved[s] /\ handoff'[s] = handoff[s] /\ clean'[s] = clean[s]
  /\ late'[s] = late[s] /\ Pend(s)' = Pend(s)
  /\ Has(s)' = Has(s) /\ Runs(s)' = Runs(s)
  /\ (s \in holds <=> s \in holds') /\ (s \in kv <=> s \in kv')
  /\ (s \in offered <=> s \in offered')

LEMMA SameKeeps ==
  ASSUME NEW s, RequestOK(s), Same(s)
  PROVE  RequestOK(s)'
<1>1. Sending(s)'
  BY DEF RequestOK, Same, Sending, Unsent
<1>2. Taking(s)'
  BY DEF RequestOK, Same, Taking, Fresh, On
<1>3. Reading(s)' /\ Offering(s)' /\ Waiting(s)'
  BY DEF RequestOK, Same, Reading, Offering, Waiting, InTime
<1>4. Clearing(s)'
  BY DEF RequestOK, Same, Clearing, InTime, KnownToP, KnownToD, On
<1>5. QED
  BY <1>1, <1>2, <1>3, <1>4 DEF RequestOK

\* A step that is about r keeps the invariant if it keeps what is said of r.
LEMMA OthersKeep ==
  ASSUME IInv, NEW r \in Request, \A s \in Request \ {r} : Same(s), RequestOK(r)',
         Typed', QueueOK', BudgetOK'
  PROVE  IInv'
<1>1. \A s \in Request \ {r} : RequestOK(s)'
  BY SameKeeps DEF IInv
<1>2. QED
  BY <1>1 DEF IInv

\* What a submit may change of stage, answer, outcome, flags and queues, and of
\* what it has written down.
Talks(r) ==
  /\ stage' \in [Request -> Stages] /\ answer' \in [Request -> Statuses]
  /\ outcome' \in [Request -> Outcomes] /\ flagged' \in [Request -> BOOLEAN]
  /\ telling' \in [Request -> {<<>>, <<"D">>, <<"P", "D">>}]
  /\ queue' \in [Role -> Seq([op : Ops, request : Request])]
  /\ \A w \in Role : Len(queue'[w]) <= QueueCapacity
  /\ QueueOK'
  /\ \A s \in Request \ {r} : /\ stage'[s] = stage[s] /\ answer'[s] = answer[s]
                              /\ outcome'[s] = outcome[s] /\ Pend(s)' = Pend(s)

Notes(r) ==
  /\ reserved' \in [Request -> SUBSET Role] /\ handoff' \in [Request -> BOOLEAN]
  /\ clean' \in [Request -> BOOLEAN] /\ offered' \in {offered, offered \cup {r}}
  /\ \A s \in Request \ {r} : /\ reserved'[s] = reserved[s] /\ handoff'[s] = handoff[s]
                              /\ clean'[s] = clean[s]

\* The submit of r stays with its answer, or sends op.
Goes(r) == Talks(r) /\ answer'[r] = answer[r] /\ Pend(r)' = Pend(r)
Sends(r, op) ==
  /\ Talks(r) /\ stage'[r] = op /\ outcome'[r] = outcome[r]
  /\ \/ answer'[r] = "none" /\ Pend(r)' = Pend(r) \cup {op}
     \/ answer'[r] = "full" /\ Pend(r)' = Pend(r)

RolesSame(r) ==
  /\ late'[r] = late[r] /\ Has(r)' = Has(r) /\ Runs(r)' = Runs(r)
  /\ (r \in holds <=> r \in holds') /\ (r \in kv <=> r \in kv')
  /\ r \in offered => r \in offered'

LEMMA SubmitFrame ==
  ASSUME IInv, NEW r \in Request, Talks(r), Notes(r), UNCHANGED <<late, roleVars>>
  PROVE  /\ RolesSame(r)
         /\ RequestOK(r)' => IInv'
<1>1. \A s : Has(s)' = Has(s) /\ Runs(s)' = Runs(s)
  BY DEF Has, Runs, roleVars
<1>2. RolesSame(r)
  BY <1>1 DEF RolesSame, Notes, roleVars
<1>3. \A s \in Request \ {r} : Same(s)
  BY <1>1 DEF Same, Talks, Notes, roleVars
<1>4. Typed'
  BY SMT, ZenonT(60) DEF IInv, Typed, TypeOK, Talks, Notes, roleVars
<1>5. BudgetOK'
  BY DEF IInv, BudgetOK, Taken, Busy, roleVars
<1>6. QED
  BY <1>2, <1>3, <1>4, <1>5, OthersKeep DEF Talks

LEMMA SameQueue ==
  ASSUME IInv, UNCHANGED queue
  PROVE  /\ QueueOK' /\ queue' \in [Role -> Seq([op : Ops, request : Request])]
         /\ \A w \in Role : Len(queue'[w]) <= QueueCapacity
         /\ \A s : Pend(s)' = Pend(s)
BY DEF IInv, Typed, TypeOK, QueueOK, Pend

LEMMA EndsEffect ==
  ASSUME IInv, NEW r \in Request, NEW o \in Outcomes, NEW next \in Stages,
         Ends(r, o, next), UNCHANGED <<flagged, telling>>
  PROVE  Goes(r) /\ stage'[r] = next /\ outcome'[r] = o
<1>1. UNCHANGED queue
  BY DEF Ends
<1>2. QED
  BY <1>1, SameQueue DEF IInv, Typed, TypeOK, Ends, Goes, Talks

LEMMA ExpiresEffect ==
  ASSUME IInv, NEW r \in Request, Expires(r)
  PROVE  Goes(r) /\ stage'[r] = "cancel" /\ outcome'[r] = "timed_out"
<1>1. UNCHANGED queue
  BY DEF Expires, Ends
<1>2. stage' \in [Request -> Stages] /\ outcome' \in [Request -> Outcomes]
  BY DEF IInv, Typed, TypeOK, Expires, Ends, Stages, Outcomes
<1>3. QED
  BY <1>1, <1>2, SameQueue DEF IInv, Typed, TypeOK, Expires, Ends, Goes, Talks

LEMMA NoMore == \A m, k \in Nat : m < k => m + 1 <= k
OBVIOUS

\* A command that is not in the queue is appended to it, or refused.
LEMMA CallEffect ==
  ASSUME IInv, NEW r \in Request, NEW op \in Ops, Call(r, RoleOf(op), op),
         UNCHANGED <<flagged, telling>>,
         op \notin Pend(r), op = "pd_decode" => "pd_unreserve D" \notin Pend(r)
  PROVE  Sends(r, op)
<1> DEFINE w == RoleOf(op)
           C == [op : Ops, request : Request]
           c == Cmd(op, r)
<1>1. /\ w \in Role /\ op \in Stages /\ c \in C /\ queue \in [Role -> Seq(C)]
      /\ stage \in [Request -> Stages] /\ answer \in [Request -> Statuses]
      /\ QueueOK
  BY DEF IInv, Typed, TypeOK, RoleOf, Role, Ops, DecodeOps, PrefillOps, Stages, Working,
         Reclaiming, Cmd
<1>2. /\ stage' \in [Request -> Stages] /\ stage'[r] = op
      /\ outcome' = outcome /\ outcome' \in [Request -> Outcomes]
      /\ flagged' \in [Request -> BOOLEAN]
      /\ telling' \in [Request -> {<<>>, <<"D">>, <<"P", "D">>}]
      /\ \A s \in Request \ {r} : stage'[s] = stage[s] /\ outcome'[s] = outcome[s]
  BY <1>1 DEF IInv, Typed, TypeOK, Call
<1>3. CASE Len(queue[w]) < QueueCapacity
  <2>1. /\ queue' = [queue EXCEPT ![w] = Append(@, c)]
        /\ answer' = [answer EXCEPT ![r] = "none"]
    BY <1>3 DEF Call, Cmd
  <2>2. queue'[w] = Append(queue[w], c) /\ \A v \in Role \ {w} : queue'[v] = queue[v]
    BY <1>1, <2>1
  <2>3. ~ Entry(queue[w], c)
    BY DEF Pend
  <2>4. /\ queue'[w] \in Seq(C) /\ Len(queue'[w]) = Len(queue[w]) + 1
        /\ \A d : Entry(queue'[w], d) <=> Entry(queue[w], d) \/ d = c
        /\ Distinct(queue'[w])
        /\ \A a, b : InOrder(queue[w], a, b) /\ (c = a => b # a /\ ~ Entry(queue[w], b))
                       => InOrder(queue'[w], a, b)
    <3>1. Distinct(queue[w])
      BY <1>1 DEF QueueOK
    <3>2. queue[w] \in Seq(C)
      BY <1>1
    <3>3. c \in C
      BY <1>1
    <3> HIDE DEF w, C, c
    <3> DEFINE p == Append(queue[w], c)
    <3>4. /\ p \in Seq(C) /\ Len(p) = Len(queue[w]) + 1
          /\ \A d : Entry(p, d) <=> Entry(queue[w], d) \/ d = c
          /\ Distinct(p)
          /\ \A a, b : InOrder(queue[w], a, b) /\ (c = a => b # a /\ ~ Entry(queue[w], b))
                         => InOrder(p, a, b)
      BY <2>3, <3>1, <3>2, <3>3, AppendEffect
    <3> HIDE DEF p
    <3>5. queue'[w] = p
      BY <2>2 DEF p
    <3>6. QED
      BY <3>4, <3>5
  <2>5. queue' \in [Role -> Seq(C)] /\ \A v \in Role : Len(queue'[v]) <= QueueCapacity
    <3>1. queue' \in [Role -> Seq(C)]
      BY <1>1, <2>1, <2>2, <2>4
    <3>2. Len(queue[w]) \in Nat
      <4>1. queue[w] \in Seq(C)
        BY <1>1
      <4> HIDE DEF w, C
      <4>2. QED
        BY <4>1, LenProperties
    <3>3. Len(queue'[w]) <= QueueCapacity
      <4>1. QueueCapacity \in Nat
        BY RoleAssumption DEF RoleAssumption
      <4>2. Len(queue'[w]) = Len(queue[w]) + 1
        BY <2>4
      <4>3. QED
        BY <1>3, <3>2, <4>1, <4>2, NoMore, Zenon
    <3>4. QED
      BY <2>2, <3>1, <3>3 DEF IInv, Typed, TypeOK
  <2>6. QueueOK'
    <3>1. \A v \in Role : Distinct(queue'[v])
      BY <1>1, <2>2, <2>4 DEF QueueOK
    <3>2. ASSUME NEW s \in Request
          PROVE  InOrder(queue'["D"], Cmd("pd_decode", s), Cmd("pd_unreserve D", s))
      <4>1. CASE w = "D"
        <5>1. c = Cmd("pd_decode", s) => ~ Entry(queue[w], Cmd("pd_unreserve D", s))
          <6>1. SUFFICES ASSUME c = Cmd("pd_decode", s)
                         PROVE  ~ Entry(queue[w], Cmd("pd_unreserve D", s))
            OBVIOUS
          <6>2. op = "pd_decode" /\ s = r
            BY <6>1 DEF Cmd
          <6>3. "pd_unreserve D" \notin Pend(r)
            BY <6>2
          <6>4. RoleOf("pd_unreserve D") = "D" /\ "pd_unreserve D" \in Ops
            BY DEF RoleOf, Ops, DecodeOps
          <6>5. QED
            BY <4>1, <6>2, <6>3, <6>4 DEF Pend
        <5>2. Cmd("pd_unreserve D", s) # Cmd("pd_decode", s)
          BY DEF Cmd
        <5>3. InOrder(queue["D"], Cmd("pd_decode", s), Cmd("pd_unreserve D", s))
          BY <1>1 DEF QueueOK
        <5> HIDE DEF w, c
        <5>4. QED
          BY <2>4, <4>1, <5>1, <5>2, <5>3
      <4>2. CASE w # "D"
        BY <1>1, <2>2, <4>2 DEF QueueOK, Role
      <4>3. QED
        BY <4>1, <4>2
    <3>3. QED
      BY <3>1, <3>2 DEF QueueOK
  <2>7. ASSUME NEW s, NEW o \in Ops
        PROVE  Entry(queue'[RoleOf(o)], Cmd(o, s)) <=>
                 Entry(queue[RoleOf(o)], Cmd(o, s)) \/ (o = op /\ s = r)
    <3>1. RoleOf(o) \in Role
      BY DEF RoleOf, Role
    <3>2. Cmd(o, s) = c <=> o = op /\ s = r
      BY DEF Cmd
    <3>3. CASE RoleOf(o) = w
      <4> HIDE DEF c, w
      <4>1. QED
        BY <2>4, <3>2, <3>3
    <3>4. CASE RoleOf(o) # w
      BY <2>2, <3>1, <3>4
    <3>5. QED
      BY <3>3, <3>4
  <2>8. Pend(r)' = Pend(r) \cup {op} /\ \A s \in Request \ {r} : Pend(s)' = Pend(s)
    BY <2>7 DEF Pend
  <2>9. /\ answer' \in [Request -> Statuses] /\ answer'[r] = "none"
        /\ \A s \in Request \ {r} : answer'[s] = answer[s]
    BY <1>1, <2>1 DEF Statuses
  <2>10. QED
    BY <1>2, <2>5, <2>6, <2>8, <2>9 DEF Sends, Talks
<1>4. CASE ~ Len(queue[w]) < QueueCapacity
  <2>1. answer' = [answer EXCEPT ![r] = "full"] /\ UNCHANGED queue
    BY <1>4 DEF Call
  <2>2. /\ answer' \in [Request -> Statuses] /\ answer'[r] = "full"
        /\ \A s \in Request \ {r} : answer'[s] = answer[s]
    BY <1>1, <2>1 DEF Statuses
  <2>3. QED
    BY <1>2, <2>1, <2>2, SameQueue DEF Sends, Talks
<1>5. QED
  BY <1>3, <1>4

-----------------------------------------------------------------------------
(* The steps of a submit. *)

\* The submit of r ends because it is cancelled or late.
Halts(r) ==
  /\ Goes(r) /\ outcome'[r] \in {"cancelled", "timed_out"}
  /\ stage'[r] = "reclaim" \/ (stage'[r] = "cancel" /\ late[r])

LEMMA AheadIsWorking ==
  /\ \A op : Ahead(op) \subseteq Working \cup {"new"}
  /\ (Working \cup {"new"}) \cap (Reclaiming \cup {"cancel", "reclaim", "done"}) = {}
<1>1. \A op : Ahead(op) \subseteq Working \cup {"new"}
  BY DEF Ahead, Working
<1>2. QED
  BY <1>1 DEF Working, Reclaiming

LEMMA UnsentNotPending ==
  ASSUME IInv, NEW r \in Request, NEW op, Unsent(r, op)
  PROVE  op \notin Pend(r)
BY DEF IInv, RequestOK, Sending

LEMMA ProceedEffect ==
  ASSUME IInv, NEW r \in Request, NEW op \in Ops, Proceed(r, RoleOf(op), op),
         stage[r] \in Ahead(op) \cap Working
  PROVE  Sends(r, op) \/ Halts(r)
<1>1. CASE Ends(r, "cancelled", "reclaim") /\ UNCHANGED <<flagged, telling>>
  BY <1>1, EndsEffect DEF Halts, Outcomes, Stages
<1>2. CASE late[r] /\ Expires(r)
  BY <1>2, ExpiresEffect DEF Halts
<1>3. CASE Call(r, RoleOf(op), op) /\ UNCHANGED <<flagged, telling>>
  <2>1. op \notin Pend(r)
    BY UnsentNotPending DEF Unsent
  <2>2. "pd_unreserve D" \notin Pend(r)
    BY UnsentNotPending DEF Unsent, Ahead
  <2>3. QED
    BY <1>3, <2>1, <2>2, CallEffect
<1>4. QED
  BY <1>1, <1>2, <1>3 DEF Proceed

LEMMA ReserveOps ==
  /\ ReserveOp["P"] = "pd_reserve P" /\ ReserveOp["D"] = "pd_reserve D"
  /\ UnreserveOp["P"] = "pd_unreserve P" /\ UnreserveOp["D"] = "pd_unreserve D"
BY DEF ReserveOp, UnreserveOp, Role

LEMMA ProbedEffect ==
  ASSUME IInv, NEW r \in Request, Probed(r)
  PROVE  Sends(r, "pd_reserve D") \/ Halts(r)
<1>1. stage[r] = "probe"
  BY DEF Probed, Answered
<1>2. CASE late[r] /\ Expires(r)
  BY <1>2, ExpiresEffect DEF Halts
<1>3. CASE Call(r, "D", "pd_reserve D") /\ UNCHANGED <<flagged, telling>>
  <2>1. "pd_reserve D" \notin Pend(r)
    BY <1>1, UnsentNotPending DEF Unsent, Ahead
  <2>2. RoleOf("pd_reserve D") = "D" /\ "pd_reserve D" \in Ops
    BY DEF RoleOf, Ops, DecodeOps
  <2>3. QED
    BY <1>3, <2>1, <2>2, CallEffect
<1>4. QED
  BY <1>2, <1>3, ReserveOps DEF Probed

LEMMA EncodedKeeps ==
  ASSUME IInv, NEW r \in Request, Encoded(r)
  PROVE  IInv'
<1>1. stage[r] = "encode" /\ UNCHANGED <<reserved, handoff, clean, offered, late, roleVars>>
  BY DEF Encoded
<1>2. Sends(r, "probe") \/ Halts(r)
  BY ProceedEffect DEF Encoded, Ops, PrefillOps, DecodeOps, RoleOf, Ahead, Working
<1>3. Notes(r)
  BY <1>1 DEF Notes, IInv, Typed, TypeOK, Role
<1>4. RolesSame(r) /\ (RequestOK(r)' => IInv')
  BY <1>1, <1>2, <1>3, SubmitFrame DEF Sends, Halts, Goes
<1>5. /\ reserved'[r] = reserved[r] /\ handoff'[r] = handoff[r] /\ clean'[r] = clean[r]
      /\ RequestOK(r) /\ Pend(r) \subseteq Ops /\ reserved[r] \subseteq Role
  BY <1>1 DEF IInv, Pend, Typed, TypeOK
<1>6. Sending(r)'
  BY <1>1, <1>2, <1>5
  DEF RequestOK, Sending, Unsent, Ahead, Working, Reclaiming, Sends, Halts, Goes
<1>7. Taking(r)'
  BY <1>1, <1>2, <1>4, <1>5, ReserveOps
  DEF RequestOK, Taking, Fresh, On, Ahead, Working, Reclaiming, Role,
      Sends, Halts, Goes, RolesSame
<1>8. Reading(r)' /\ Offering(r)'
  BY <1>1, <1>2, <1>4, <1>5
  DEF RequestOK, Reading, Offering, Sending, Unsent, Ahead, Taking, Working, Reclaiming,
      Sends, Halts, Goes, RolesSame
<1>9. Waiting(r)'
  BY <1>1, <1>2, <1>4, <1>5, SMT, ZenonT(60)
  DEF RequestOK, Waiting, InTime, Ops, DecodeOps, PrefillOps,
      Sends, Halts, Goes, RolesSame
<1>10. Clearing(r)'
  BY <1>1, <1>2, <1>4, <1>5, ReserveOps
  DEF RequestOK, Clearing, Taking, Sending, Reading, Offering, Waiting, Fresh, On, Ahead,
      InTime, KnownToP, KnownToD, Working, Reclaiming, Role,
      Sends, Halts, Goes, RolesSame
<1>11. QED
  BY <1>4, <1>6, <1>7, <1>8, <1>9, <1>10 DEF RequestOK

LEMMA ProbedKeeps ==
  ASSUME IInv, NEW r \in Request, Probed(r)
  PROVE  IInv'
<1>1. /\ stage[r] = "probe" /\ answer[r] = "ok"
      /\ UNCHANGED <<reserved, handoff, clean, offered, late, roleVars>>
  BY DEF Probed, Answered
<1>2. Sends(r, "pd_reserve D") \/ Halts(r)
  BY ProbedEffect
<1>3. Notes(r)
  BY <1>1 DEF Notes, IInv, Typed, TypeOK, Role
<1>4. RolesSame(r) /\ (RequestOK(r)' => IInv')
  BY <1>1, <1>2, <1>3, SubmitFrame DEF Sends, Halts, Goes
<1>5. /\ reserved'[r] = reserved[r] /\ handoff'[r] = handoff[r] /\ clean'[r] = clean[r]
      /\ RequestOK(r) /\ Pend(r) \subseteq Ops /\ reserved[r] \subseteq Role
  BY <1>1 DEF IInv, Pend, Typed, TypeOK
<1>6. Sending(r)'
  BY <1>1, <1>2, <1>5
  DEF RequestOK, Sending, Unsent, Ahead, Working, Reclaiming, Sends, Halts, Goes
<1>7. Taking(r)'
  BY <1>1, <1>2, <1>4, <1>5, ReserveOps
  DEF RequestOK, Taking, Fresh, On, Ahead, Working, Reclaiming, Role,
      Sends, Halts, Goes, RolesSame
<1>8. Reading(r)' /\ Offering(r)'
  BY <1>1, <1>2, <1>4, <1>5
  DEF RequestOK, Reading, Offering, Sending, Unsent, Ahead, Taking, Working, Reclaiming,
      Sends, Halts, Goes, RolesSame
<1>9. Waiting(r)'
  BY <1>1, <1>2, <1>4, <1>5
  DEF RequestOK, Waiting, InTime, Ops, DecodeOps, PrefillOps,
      Sends, Halts, Goes, RolesSame
<1>10. Clearing(r)'
  BY <1>1, <1>2, <1>4, <1>5, ReserveOps
  DEF RequestOK, Clearing, Taking, Sending, Reading, Offering, Waiting, Fresh, On, Ahead,
      InTime, KnownToP, KnownToD, Working, Reclaiming, Role,
      Sends, Halts, Goes, RolesSame
<1>11. QED
  BY <1>4, <1>6, <1>7, <1>8, <1>9, <1>10 DEF RequestOK

LEMMA DecodeReservedKeeps ==
  ASSUME IInv, NEW r \in Request, DecodeReserved(r)
  PROVE  IInv'
<1>1. /\ stage[r] = "pd_reserve D" /\ answer[r] = "ok"
      /\ reserved' = [reserved EXCEPT ![r] = {"D"}]
      /\ UNCHANGED <<handoff, clean, offered, late, roleVars>>
  BY DEF DecodeReserved, Answered
<1>2. Sends(r, "pd_reserve P") \/ Halts(r)
  BY ProceedEffect, ReserveOps
  DEF DecodeReserved, Answered, Ops, PrefillOps, DecodeOps, RoleOf, Ahead, Working
<1>3. Notes(r)
  BY <1>1 DEF Notes, IInv, Typed, TypeOK, Role
<1>4. RolesSame(r) /\ (RequestOK(r)' => IInv')
  BY <1>1, <1>2, <1>3, SubmitFrame DEF Sends, Halts, Goes
<1>5. /\ reserved'[r] = {"D"}
      /\ handoff'[r] = handoff[r] /\ clean'[r] = clean[r]
      /\ RequestOK(r) /\ Pend(r) \subseteq Ops /\ reserved[r] \subseteq Role
  BY <1>1 DEF IInv, Pend, Typed, TypeOK
<1>6. Sending(r)'
  BY <1>1, <1>2, <1>5
  DEF RequestOK, Sending, Unsent, Ahead, Working, Reclaiming, Sends, Halts, Goes
<1>7. Taking(r)'
  BY <1>1, <1>2, <1>4, <1>5, ReserveOps
  DEF RequestOK, Taking, Fresh, On, Ahead, Working, Reclaiming, Role,
      Sends, Halts, Goes, RolesSame
<1>8. Reading(r)' /\ Offering(r)'
  BY <1>1, <1>2, <1>4, <1>5
  DEF RequestOK, Reading, Offering, Sending, Unsent, Ahead, Taking, Working, Reclaiming,
      Sends, Halts, Goes, RolesSame
<1>9. Waiting(r)'
  BY <1>1, <1>2, <1>4, <1>5, SMT, ZenonT(60)
  DEF RequestOK, Waiting, InTime, Ops, DecodeOps, PrefillOps,
      Sends, Halts, Goes, RolesSame
<1>10. Clearing(r)'
  BY <1>1, <1>2, <1>4, <1>5, ReserveOps
  DEF RequestOK, Clearing, Taking, Sending, Reading, Offering, Waiting, Fresh, On, Ahead,
      InTime, KnownToP, KnownToD, Working, Reclaiming, Role,
      Sends, Halts, Goes, RolesSame
<1>11. QED
  BY <1>4, <1>6, <1>7, <1>8, <1>9, <1>10 DEF RequestOK

LEMMA PrefillReservedKeeps ==
  ASSUME IInv, NEW r \in Request, PrefillReserved(r)
  PROVE  IInv'
<1>1. /\ stage[r] = "pd_reserve P" /\ answer[r] = "ok"
      /\ reserved' = [reserved EXCEPT ![r] = {"P", "D"}]
      /\ UNCHANGED <<handoff, clean, offered, late, roleVars>>
  BY DEF PrefillReserved, Answered
<1>2. Sends(r, "pd_prefill") \/ Halts(r)
  BY ProceedEffect
  DEF PrefillReserved, Answered, Ops, PrefillOps, DecodeOps, RoleOf, Ahead, Working
<1>3. Notes(r)
  BY <1>1 DEF Notes, IInv, Typed, TypeOK, Role
<1>4. RolesSame(r) /\ (RequestOK(r)' => IInv')
  BY <1>1, <1>2, <1>3, SubmitFrame DEF Sends, Halts, Goes
<1>5. /\ reserved'[r] = {"P", "D"}
      /\ handoff'[r] = handoff[r] /\ clean'[r] = clean[r]
      /\ RequestOK(r) /\ Pend(r) \subseteq Ops /\ reserved[r] \subseteq Role
  BY <1>1 DEF IInv, Pend, Typed, TypeOK
<1>6. Sending(r)'
  BY <1>1, <1>2, <1>5
  DEF RequestOK, Sending, Unsent, Ahead, Working, Reclaiming, Sends, Halts, Goes
<1>7. Taking(r)'
  BY <1>1, <1>2, <1>4, <1>5, ReserveOps
  DEF RequestOK, Taking, Fresh, On, Ahead, Working, Reclaiming, Role,
      Sends, Halts, Goes, RolesSame
<1>8. Reading(r)' /\ Offering(r)'
  BY <1>1, <1>2, <1>4, <1>5
  DEF RequestOK, Reading, Offering, Sending, Unsent, Ahead, Taking, Working, Reclaiming,
      Sends, Halts, Goes, RolesSame
<1>9. Waiting(r)'
  BY <1>1, <1>2, <1>4, <1>5, SMT, ZenonT(60)
  DEF RequestOK, Waiting, InTime, Ops, DecodeOps, PrefillOps,
      Sends, Halts, Goes, RolesSame
<1>10. Clearing(r)'
  BY <1>1, <1>2, <1>4, <1>5, ReserveOps
  DEF RequestOK, Clearing, Taking, Sending, Reading, Offering, Waiting, Fresh, On, Ahead,
      InTime, KnownToP, KnownToD, Working, Reclaiming, Role,
      Sends, Halts, Goes, RolesSame
<1>11. QED
  BY <1>4, <1>6, <1>7, <1>8, <1>9, <1>10 DEF RequestOK

LEMMA PrefilledKeeps ==
  ASSUME IInv, NEW r \in Request, Prefilled(r)
  PROVE  IInv'
<1>1. /\ stage[r] = "pd_prefill" /\ answer[r] = "ok"
      /\ reserved' = [reserved EXCEPT ![r] = {"D"}]
      /\ handoff' = [handoff EXCEPT ![r] = TRUE]
      /\ offered' = IF stage'[r] = "pd_decode" THEN offered \cup {r} ELSE offered
      /\ UNCHANGED <<clean, late, roleVars>>
  BY DEF Prefilled, Answered
<1>2. Sends(r, "pd_decode") \/ Halts(r)
  BY ProceedEffect
  DEF Prefilled, Answered, Ops, PrefillOps, DecodeOps, RoleOf, Ahead, Working
<1>3. Notes(r)
  BY <1>1 DEF Notes, IInv, Typed, TypeOK, Role
<1>4. RolesSame(r) /\ (RequestOK(r)' => IInv')
  BY <1>1, <1>2, <1>3, SubmitFrame DEF Sends, Halts, Goes
<1>5. /\ reserved'[r] = {"D"} /\ handoff'[r] /\ (Sends(r, "pd_decode") => r \in offered')
      /\ clean'[r] = clean[r]
      /\ RequestOK(r) /\ Pend(r) \subseteq Ops /\ reserved[r] \subseteq Role
  BY <1>1 DEF IInv, Pend, Typed, TypeOK, Sends
<1>6. Sending(r)'
  BY <1>1, <1>2, <1>5
  DEF RequestOK, Sending, Unsent, Ahead, Working, Reclaiming, Sends, Halts, Goes
<1>7. Taking(r)'
  BY <1>1, <1>2, <1>4, <1>5, ReserveOps
  DEF RequestOK, Taking, Fresh, On, Ahead, Working, Reclaiming, Role,
      Sends, Halts, Goes, RolesSame
<1>8. Reading(r)' /\ Offering(r)'
  BY <1>1, <1>2, <1>4, <1>5
  DEF RequestOK, Reading, Offering, Sending, Unsent, Ahead, Taking, Working, Reclaiming,
      Sends, Halts, Goes, RolesSame
<1>9. Waiting(r)'
  BY <1>1, <1>2, <1>4, <1>5, SMT, ZenonT(60)
  DEF RequestOK, Waiting, InTime, Ops, DecodeOps, PrefillOps,
      Sends, Halts, Goes, RolesSame
<1>10. Clearing(r)'
  BY <1>1, <1>2, <1>4, <1>5, ReserveOps
  DEF RequestOK, Clearing, Taking, Sending, Reading, Offering, Waiting, Fresh, On, Ahead,
      InTime, KnownToP, KnownToD, Working, Reclaiming, Role,
      Sends, Halts, Goes, RolesSame
<1>11. QED
  BY <1>4, <1>6, <1>7, <1>8, <1>9, <1>10 DEF RequestOK

LEMMA VisionFailsKeeps ==
  ASSUME IInv, NEW r \in Request, VisionFails(r)
  PROVE  IInv'
<1>1. stage[r] = "encode" /\ UNCHANGED <<reserved, handoff, clean, offered, late, roleVars>>
  BY DEF VisionFails, clientVars
<1>2. Goes(r) /\ stage'[r] = "reclaim" /\ outcome'[r] # "finished"
  BY EndsEffect DEF VisionFails, Verdict, Outcomes, Stages, clientVars
<1>3. Notes(r)
  BY <1>1 DEF Notes, IInv, Typed, TypeOK, Role
<1>4. RolesSame(r) /\ (RequestOK(r)' => IInv')
  BY <1>1, <1>2, <1>3, SubmitFrame DEF Sends, Halts, Goes
<1>5. /\ reserved'[r] = reserved[r] /\ handoff'[r] = handoff[r] /\ clean'[r] = clean[r]
      /\ RequestOK(r) /\ Pend(r) \subseteq Ops /\ reserved[r] \subseteq Role
  BY <1>1 DEF IInv, Pend, Typed, TypeOK
<1>6. Sending(r)'
  BY <1>1, <1>2, <1>5
  DEF RequestOK, Sending, Unsent, Ahead, Working, Reclaiming, Sends, Halts, Goes
<1>7. Taking(r)'
  BY <1>1, <1>2, <1>4, <1>5, ReserveOps
  DEF RequestOK, Taking, Fresh, On, Ahead, Working, Reclaiming, Role,
      Sends, Halts, Goes, RolesSame
<1>8. Reading(r)' /\ Offering(r)'
  BY <1>1, <1>2, <1>4, <1>5
  DEF RequestOK, Reading, Offering, Sending, Unsent, Ahead, Taking, Working, Reclaiming,
      Sends, Halts, Goes, RolesSame
<1>9. Waiting(r)'
  BY <1>1, <1>2, <1>4, <1>5
  DEF RequestOK, Waiting, InTime, Ops, DecodeOps, PrefillOps,
      Sends, Halts, Goes, RolesSame
<1>10. Clearing(r)'
  BY <1>1, <1>2, <1>4, <1>5, ReserveOps
  DEF RequestOK, Clearing, Taking, Sending, Reading, Offering, Waiting, Fresh, On, Ahead,
      InTime, KnownToP, KnownToD, Working, Reclaiming, Role,
      Sends, Halts, Goes, RolesSame
<1>11. QED
  BY <1>4, <1>6, <1>7, <1>8, <1>9, <1>10 DEF RequestOK

LEMMA RefusedKeeps ==
  ASSUME IInv, NEW r \in Request, Refused(r)
  PROVE  IInv'
<1>1. /\ stage[r] \in Working /\ answer[r] \notin {"none", "ok"}
      /\ reserved' = [reserved EXCEPT ![r] = CASE stage[r] = "pd_prefill" -> @ \ {"P"}
                                               [] stage[r] = "pd_decode" -> @ \ {"D"}
                                               [] OTHER -> @]
      /\ handoff' = [handoff EXCEPT ![r] = @ \/ stage[r] = "pd_prefill"]
      /\ UNCHANGED <<clean, offered, late, roleVars>>
  BY DEF Refused, clientVars
<1>2. Goes(r) /\ stage'[r] = "reclaim" /\ outcome'[r] # "finished"
  BY EndsEffect DEF Refused, Verdict, Outcomes, Stages, clientVars
<1>3. Notes(r)
  BY <1>1 DEF Notes, IInv, Typed, TypeOK, Role
<1>4. RolesSame(r) /\ (RequestOK(r)' => IInv')
  BY <1>1, <1>2, <1>3, SubmitFrame DEF Sends, Halts, Goes
<1>5. /\ stage[r] = "pd_prefill" => reserved'[r] = reserved[r] \ {"P"} /\ handoff'[r]
      /\ stage[r] = "pd_decode" => reserved'[r] = reserved[r] \ {"D"} /\ handoff'[r] = handoff[r]
      /\ stage[r] \notin {"pd_prefill", "pd_decode"} =>
           reserved'[r] = reserved[r] /\ handoff'[r] = handoff[r]
      /\ clean'[r] = clean[r]
      /\ RequestOK(r) /\ Pend(r) \subseteq Ops /\ reserved[r] \subseteq Role
  BY <1>1 DEF IInv, Pend, Typed, TypeOK
<1>6. Sending(r)'
  BY <1>1, <1>2, <1>5
  DEF RequestOK, Sending, Unsent, Ahead, Working, Reclaiming, Sends, Halts, Goes
<1>7. Taking(r)'
  BY <1>1, <1>2, <1>4, <1>5, ReserveOps, SMT, ZenonT(60)
  DEF RequestOK, Taking, Fresh, On, Ahead, Working, Reclaiming, Role,
      Sends, Halts, Goes, RolesSame
<1>8. Reading(r)' /\ Offering(r)'
  BY <1>1, <1>2, <1>4, <1>5
  DEF RequestOK, Reading, Offering, Sending, Unsent, Ahead, Taking, Working, Reclaiming,
      Sends, Halts, Goes, RolesSame
<1>9. Waiting(r)'
  BY <1>1, <1>2, <1>4, <1>5
  DEF RequestOK, Waiting, InTime, Ops, DecodeOps, PrefillOps,
      Sends, Halts, Goes, RolesSame
<1>10. Clearing(r)'
  BY <1>1, <1>2, <1>4, <1>5, ReserveOps
  DEF RequestOK, Clearing, Taking, Sending, Reading, Offering, Waiting, Fresh, On, Ahead,
      InTime, KnownToP, KnownToD, Working, Reclaiming, Role,
      Sends, Halts, Goes, RolesSame
<1>11. QED
  BY <1>4, <1>6, <1>7, <1>8, <1>9, <1>10 DEF RequestOK

LEMMA TimesOutKeeps ==
  ASSUME IInv, NEW r \in Request, TimesOut(r)
  PROVE  IInv'
<1>1. /\ stage[r] \in Working /\ late[r]
      /\ UNCHANGED <<reserved, handoff, clean, offered, late, roleVars>>
  BY DEF TimesOut
<1>2. Halts(r)
  BY <1>1, ExpiresEffect DEF TimesOut, Halts
<1>3. Notes(r)
  BY <1>1 DEF Notes, IInv, Typed, TypeOK, Role
<1>4. RolesSame(r) /\ (RequestOK(r)' => IInv')
  BY <1>1, <1>2, <1>3, SubmitFrame DEF Sends, Halts, Goes
<1>5. /\ reserved'[r] = reserved[r] /\ handoff'[r] = handoff[r] /\ clean'[r] = clean[r]
      /\ RequestOK(r) /\ Pend(r) \subseteq Ops /\ reserved[r] \subseteq Role
  BY <1>1 DEF IInv, Pend, Typed, TypeOK
<1>6. Sending(r)'
  BY <1>1, <1>2, <1>5
  DEF RequestOK, Sending, Unsent, Ahead, Working, Reclaiming, Sends, Halts, Goes
<1>7. Taking(r)'
  BY <1>1, <1>2, <1>4, <1>5, ReserveOps
  DEF RequestOK, Taking, Fresh, On, Ahead, Working, Reclaiming, Role,
      Sends, Halts, Goes, RolesSame
<1>8. Reading(r)' /\ Offering(r)'
  BY <1>1, <1>2, <1>4, <1>5
  DEF RequestOK, Reading, Offering, Sending, Unsent, Ahead, Taking, Working, Reclaiming,
      Sends, Halts, Goes, RolesSame
<1>9. Waiting(r)'
  BY <1>1, <1>2, <1>4, <1>5
  DEF RequestOK, Waiting, InTime, Ops, DecodeOps, PrefillOps,
      Sends, Halts, Goes, RolesSame
<1>10. Clearing(r)'
  BY <1>1, <1>2, <1>4, <1>5, ReserveOps
  DEF RequestOK, Clearing, Taking, Sending, Reading, Offering, Waiting, Fresh, On, Ahead,
      InTime, KnownToP, KnownToD, Working, Reclaiming, Role,
      Sends, Halts, Goes, RolesSame
<1>11. QED
  BY <1>4, <1>6, <1>7, <1>8, <1>9, <1>10 DEF RequestOK

LEMMA DecodedKeeps ==
  ASSUME IInv, NEW r \in Request, Decoded(r)
  PROVE  IInv'
<1>1. /\ stage[r] = "pd_decode" /\ answer[r] = "ok"
      /\ reserved' = [reserved EXCEPT ![r] = {}]
      /\ UNCHANGED <<handoff, clean, offered, late, roleVars>>
  BY DEF Decoded, Answered
<1>2. /\ Goes(r)
      /\ stage'[r] = "reclaim" \/ (stage'[r] = "cancel" /\ late[r])
  BY EndsEffect, ExpiresEffect DEF Decoded, Outcomes, Stages
<1>3. Notes(r)
  BY <1>1 DEF Notes, IInv, Typed, TypeOK, Role
<1>4. RolesSame(r) /\ (RequestOK(r)' => IInv')
  BY <1>1, <1>2, <1>3, SubmitFrame DEF Sends, Halts, Goes
<1>5. /\ reserved'[r] = {}
      /\ handoff'[r] = handoff[r] /\ clean'[r] = clean[r]
      /\ RequestOK(r) /\ Pend(r) \subseteq Ops /\ reserved[r] \subseteq Role
  BY <1>1 DEF IInv, Pend, Typed, TypeOK
<1>6. Sending(r)'
  BY <1>1, <1>2, <1>5
  DEF RequestOK, Sending, Unsent, Ahead, Working, Reclaiming, Sends, Halts, Goes
<1>7. Taking(r)'
  BY <1>1, <1>2, <1>4, <1>5, ReserveOps
  DEF RequestOK, Taking, Fresh, On, Ahead, Working, Reclaiming, Role,
      Sends, Halts, Goes, RolesSame
<1>8. Reading(r)' /\ Offering(r)'
  BY <1>1, <1>2, <1>4, <1>5
  DEF RequestOK, Reading, Offering, Sending, Unsent, Ahead, Taking, Working, Reclaiming,
      Sends, Halts, Goes, RolesSame
<1>9. Waiting(r)'
  BY <1>1, <1>2, <1>4, <1>5
  DEF RequestOK, Waiting, InTime, Ops, DecodeOps, PrefillOps,
      Sends, Halts, Goes, RolesSame
<1>10. Clearing(r)'
  BY <1>1, <1>2, <1>4, <1>5, ReserveOps
  DEF RequestOK, Clearing, Taking, Sending, Reading, Offering, Waiting, Fresh, On, Ahead,
      InTime, KnownToP, KnownToD, Working, Reclaiming, Role,
      Sends, Halts, Goes, RolesSame
<1>11. QED
  BY <1>4, <1>6, <1>7, <1>8, <1>9, <1>10 DEF RequestOK

LEMMA ReclaimedKeeps ==
  ASSUME IInv, NEW r \in Request, Reclaimed(r)
  PROVE  IInv'
<1>1. /\ stage[r] \in Reclaiming
      /\ clean' = [clean EXCEPT ![r] = @ /\ answer[r] = "ok"]
      /\ stage' = [stage EXCEPT ![r] = "reclaim"]
      /\ UNCHANGED <<answer, reserved, handoff, outcome, offered, flagged, telling, late, queue,
                     roleVars>>
  BY DEF Reclaimed, clientVars
<1>2. Goes(r) /\ stage'[r] = "reclaim" /\ outcome'[r] = outcome[r]
  BY <1>1, SameQueue DEF Goes, Talks, IInv, Typed, TypeOK, Stages
<1>3. Notes(r)
  BY <1>1 DEF Notes, IInv, Typed, TypeOK, Role
<1>4. RolesSame(r) /\ (RequestOK(r)' => IInv')
  BY <1>1, <1>2, <1>3, SubmitFrame DEF Sends, Halts, Goes
<1>5. /\ reserved'[r] = reserved[r] /\ handoff'[r] = handoff[r]
      /\ clean'[r] => clean[r] /\ answer[r] = "ok"
      /\ RequestOK(r) /\ Pend(r) \subseteq Ops /\ reserved[r] \subseteq Role
  BY <1>1 DEF IInv, Pend, Typed, TypeOK
<1>6. Sending(r)'
  BY <1>1, <1>2, <1>5,
  AheadIsWorking DEF RequestOK, Sending, Unsent, Goes
<1>7. Taking(r)'
  BY <1>1, <1>2, <1>4, <1>5, AheadIsWorking
  DEF RequestOK, Taking, Fresh, On, Goes, RolesSame
<1>8. Reading(r)' /\ Offering(r)'
  BY <1>1, <1>2, <1>4, <1>5
  DEF RequestOK, Reading, Offering, Sending, Unsent, Ahead, Taking, Working, Reclaiming,
      Sends, Halts, Goes, RolesSame
<1>9. Waiting(r)'
  BY <1>1, <1>2, <1>4, <1>5
  DEF RequestOK, Waiting, InTime, Ops, DecodeOps, PrefillOps,
      Sends, Halts, Goes, RolesSame
<1>10. Clearing(r)'
  BY <1>1, <1>2, <1>4, <1>5, ReserveOps
  DEF RequestOK, Clearing, Taking, Sending, Reading, Offering, Waiting, Fresh, On, Ahead,
      InTime, KnownToP, KnownToD, Working, Reclaiming, Role,
      Sends, Halts, Goes, RolesSame
<1>11. QED
  BY <1>4, <1>6, <1>7, <1>8, <1>9, <1>10 DEF RequestOK

LEMMA SubmitKeeps ==
  ASSUME IInv, NEW r \in Request, Submit(r)
  PROVE  IInv'
<1>1. /\ stage[r] = "new"
      /\ UNCHANGED <<reserved, handoff, clean, offered, flagged, telling, late, roleVars, answer,
                     queue>>
      /\ \/ Ends(r, "rejected", "done")
         \/ stage' = [stage EXCEPT ![r] = "encode"] /\ outcome' = outcome
  BY DEF Submit, Ends, clientVars
<1>2. Goes(r) /\ stage'[r] \in {"encode", "done"}
  <2>1. CASE Ends(r, "rejected", "done")
    BY <1>1, <2>1, EndsEffect DEF Outcomes, Stages
  <2>2. CASE stage' = [stage EXCEPT ![r] = "encode"] /\ outcome' = outcome
    BY <1>1, <2>2, SameQueue DEF Goes, Talks, IInv, Typed, TypeOK, Stages, Working
  <2>3. QED
    BY <1>1, <2>1, <2>2
<1>3. Notes(r)
  BY <1>1 DEF Notes, IInv, Typed, TypeOK, Role
<1>4. RolesSame(r) /\ (RequestOK(r)' => IInv')
  BY <1>1, <1>2, <1>3, SubmitFrame DEF Sends, Halts, Goes
<1>5. /\ reserved'[r] = reserved[r] /\ handoff'[r] = handoff[r] /\ clean'[r] = clean[r]
      /\ RequestOK(r) /\ Pend(r) \subseteq Ops /\ reserved[r] \subseteq Role
  BY <1>1 DEF IInv, Pend, Typed, TypeOK
<1>6. Sending(r)'
  BY <1>1, <1>2, <1>5
  DEF RequestOK, Sending, Unsent, Ahead, Working, Reclaiming, Sends, Halts, Goes
<1>7. Taking(r)'
  BY <1>1, <1>2, <1>4, <1>5, ReserveOps
  DEF RequestOK, Taking, Fresh, On, Ahead, Working, Reclaiming, Role,
      Sends, Halts, Goes, RolesSame
<1>8. Reading(r)' /\ Offering(r)'
  BY <1>1, <1>2, <1>4, <1>5
  DEF RequestOK, Reading, Offering, Sending, Unsent, Ahead, Taking, Working, Reclaiming,
      Sends, Halts, Goes, RolesSame
<1>9. Waiting(r)'
  BY <1>1, <1>2, <1>4, <1>5
  DEF RequestOK, Waiting, InTime, Ops, DecodeOps, PrefillOps,
      Sends, Halts, Goes, RolesSame
<1>10. Clearing(r)'
  BY <1>1, <1>2, <1>4, <1>5, ReserveOps
  DEF RequestOK, Clearing, Taking, Sending, Reading, Offering, Waiting, Fresh, On, Ahead,
      InTime, KnownToP, KnownToD, Working, Reclaiming, Role,
      Sends, Halts, Goes, RolesSame
<1>11. QED
  BY <1>4, <1>6, <1>7, <1>8, <1>9, <1>10 DEF RequestOK

LEMMA ReclaimKeeps ==
  ASSUME IInv, NEW r \in Request, Reclaim(r)
  PROVE  IInv'
<1>1. /\ stage[r] \in {"reclaim", "cancel"}
      /\ UNCHANGED <<clean, offered, late, telling, roleVars>>
      /\ RequestOK(r) /\ Pend(r) \subseteq Ops /\ reserved[r] \subseteq Role
      /\ clean'[r] = clean[r]
      /\ reserved \in [Request -> SUBSET Role] /\ handoff \in [Request -> BOOLEAN]
      /\ clean' \in [Request -> BOOLEAN] /\ \A s \in Request : clean'[s] = clean[s]
  BY DEF Reclaim, IInv, Pend, Typed, TypeOK
<1>2. \A op : stage[r] \notin Ahead(op)
  BY <1>1, AheadIsWorking
<1>3. /\ "P" \in reserved[r] => "pd_unreserve P" \notin Pend(r)
      /\ "D" \in reserved[r] => "pd_unreserve D" \notin Pend(r)
      /\ handoff[r] => "pd_release" \notin Pend(r)
  BY UnsentNotPending DEF Unsent
<1>4. InTime(r) => Pend(r) = {} /\ Runs(r) = {}
  <2>1. InTime(r) => Pend(r) = {}
    BY <1>1 DEF RequestOK, Waiting, Ops, DecodeOps, PrefillOps
  <2>2. InTime(r) => Runs(r) = {}
    BY <1>1 DEF RequestOK, Waiting, Runs, Role
  <2>3. QED
    BY <2>1, <2>2
<1>5. CASE "P" \in reserved[r] /\ Call(r, "P", "pd_unreserve P")
           /\ reserved' = [reserved EXCEPT ![r] = @ \ {"P"}] /\ UNCHANGED <<handoff, flagged>>
  <2>1. Sends(r, "pd_unreserve P")
    BY <1>1, <1>3, <1>5, CallEffect DEF RoleOf, Ops, DecodeOps, PrefillOps
  <2>2. Notes(r) /\ reserved'[r] = reserved[r] \ {"P"} /\ handoff'[r] = handoff[r]
    BY <1>1, <1>5 DEF Notes
  <2>3. RolesSame(r) /\ (RequestOK(r)' => IInv')
    BY <1>1, <2>1, <2>2, SubmitFrame DEF Sends
  <2>4. Sending(r)'
    BY <1>1, <1>2, <1>5, <2>1, <2>2, AheadIsWorking
    DEF RequestOK, Sending, Unsent, Sends, Reclaiming
  <2>5. Taking(r)'
    BY <1>1, <1>2, <1>5, <2>1, <2>2, <2>3, AheadIsWorking, ReserveOps, SMT, ZenonT(60)
    DEF RequestOK, Taking, Fresh, On, Sends, Reclaiming, RolesSame, Role
  <2>6. Reading(r)' /\ Offering(r)'
    BY <1>1, <1>2, <1>5, <2>1, <2>2, <2>3
    DEF RequestOK, Reading, Offering, Sends, RolesSame
  <2>7. Waiting(r)'
    BY <1>1, <1>4, <2>1, <2>2, <2>3 DEF Waiting, InTime, Sends, RolesSame
  <2>8. Clearing(r)'
    BY <1>1, <1>2, <1>5, <2>1, <2>2, <2>3, ReserveOps
    DEF RequestOK, Clearing, Waiting, On, InTime, KnownToP, KnownToD, Sends, RolesSame, Role
  <2>9. QED
    BY <2>3, <2>4, <2>5, <2>6, <2>7, <2>8 DEF RequestOK
<1>6. CASE reserved[r] = {"D"} /\ Call(r, "D", "pd_unreserve D")
           /\ reserved' = [reserved EXCEPT ![r] = {}] /\ UNCHANGED <<handoff, flagged>>
  <2>1. Sends(r, "pd_unreserve D")
    BY <1>1, <1>3, <1>6, CallEffect DEF RoleOf, Ops, DecodeOps, PrefillOps
  <2>2. Notes(r) /\ reserved'[r] = {} /\ handoff'[r] = handoff[r]
    BY <1>1, <1>6 DEF Notes
  <2>3. RolesSame(r) /\ (RequestOK(r)' => IInv')
    BY <1>1, <2>1, <2>2, SubmitFrame DEF Sends
  <2>4. Sending(r)'
    BY <1>1, <1>2, <1>6, <2>1, <2>2, AheadIsWorking
    DEF RequestOK, Sending, Unsent, Sends, Reclaiming
  <2>5. Taking(r)'
    BY <1>1, <1>2, <1>6, <2>1, <2>2, <2>3, AheadIsWorking, ReserveOps, SMT, ZenonT(60)
    DEF RequestOK, Taking, Fresh, On, Sends, Reclaiming, RolesSame, Role
  <2>6. Reading(r)' /\ Offering(r)'
    BY <1>1, <1>2, <1>6, <2>1, <2>2, <2>3
    DEF RequestOK, Reading, Offering, Sends, RolesSame
  <2>7. Waiting(r)'
    BY <1>1, <1>4, <2>1, <2>2, <2>3 DEF Waiting, InTime, Sends, RolesSame
  <2>8. Clearing(r)'
    BY <1>1, <1>2, <1>6, <2>1, <2>2, <2>3, ReserveOps
    DEF RequestOK, Clearing, Waiting, On, InTime, KnownToP, KnownToD, Sends, RolesSame, Role
  <2>9. QED
    BY <2>3, <2>4, <2>5, <2>6, <2>7, <2>8 DEF RequestOK
<1>7. CASE reserved[r] = {} /\ handoff[r] /\ Call(r, "P", "pd_release")
           /\ handoff' = [handoff EXCEPT ![r] = FALSE] /\ UNCHANGED <<reserved, flagged>>
  <2>1. Sends(r, "pd_release")
    BY <1>1, <1>3, <1>7, CallEffect DEF RoleOf, Ops, DecodeOps, PrefillOps
  <2>2. Notes(r) /\ reserved'[r] = {} /\ ~ handoff'[r]
    BY <1>1, <1>7 DEF Notes
  <2>3. RolesSame(r) /\ (RequestOK(r)' => IInv')
    BY <1>1, <2>1, <2>2, SubmitFrame DEF Sends
  <2>4. Sending(r)'
    BY <1>1, <1>2, <1>7, <2>1, <2>2, AheadIsWorking
    DEF RequestOK, Sending, Unsent, Sends, Reclaiming
  <2>5. Taking(r)'
    BY <1>1, <1>2, <1>7, <2>1, <2>2, <2>3, AheadIsWorking, ReserveOps, SMT, ZenonT(60)
    DEF RequestOK, Taking, Fresh, On, Sends, Reclaiming, RolesSame, Role
  <2>6. Reading(r)' /\ Offering(r)'
    BY <1>1, <1>2, <1>7, <2>1, <2>2, <2>3
    DEF RequestOK, Reading, Offering, Sends, RolesSame
  <2>7. Waiting(r)'
    BY <1>1, <1>4, <2>1, <2>2, <2>3 DEF Waiting, InTime, Sends, RolesSame
  <2>8. Clearing(r)'
    BY <1>1, <1>2, <1>7, <2>1, <2>2, <2>3, ReserveOps
    DEF RequestOK, Clearing, Waiting, On, InTime, KnownToP, KnownToD, Sends, RolesSame, Role
  <2>9. QED
    BY <2>3, <2>4, <2>5, <2>6, <2>7, <2>8 DEF RequestOK
<1>8. CASE reserved[r] = {} /\ ~ handoff[r] /\ stage' = [stage EXCEPT ![r] = "done"]
           /\ flagged' = [flagged EXCEPT ![r] = FALSE]
           /\ UNCHANGED <<answer, outcome, queue, reserved, handoff>>
  <2>1. Goes(r) /\ stage'[r] = "done" /\ outcome'[r] = outcome[r]
    BY <1>1, <1>8, SameQueue DEF Goes, Talks, IInv, Typed, TypeOK, Stages
  <2>2. Notes(r) /\ reserved'[r] = {} /\ ~ handoff'[r]
    BY <1>1, <1>8 DEF Notes
  <2>3. RolesSame(r) /\ (RequestOK(r)' => IInv')
    BY <1>1, <2>1, <2>2, SubmitFrame DEF Goes
  <2>4. Sending(r)'
    BY <1>1, <1>2, <1>8, <2>1, <2>2, AheadIsWorking
    DEF RequestOK, Sending, Unsent, Goes, Reclaiming
  <2>5. Taking(r)'
    BY <1>1, <1>2, <1>8, <2>1, <2>2, <2>3, AheadIsWorking, ReserveOps, SMT, ZenonT(60)
    DEF RequestOK, Taking, Fresh, On, Goes, Reclaiming, RolesSame, Role
  <2>6. Reading(r)' /\ Offering(r)'
    BY <1>1, <1>2, <1>8, <2>1, <2>2, <2>3
    DEF RequestOK, Reading, Offering, Goes, RolesSame
  <2>7. Waiting(r)'
    BY <1>1, <1>4, <2>1, <2>2, <2>3 DEF Waiting, InTime, Goes, RolesSame
  <2>8. Clearing(r)'
    BY <1>1, <1>2, <1>8, <2>1, <2>2, <2>3, ReserveOps
    DEF RequestOK, Clearing, Waiting, On, InTime, KnownToP, KnownToD, Goes, RolesSame, Role
  <2>9. QED
    BY <2>3, <2>4, <2>5, <2>6, <2>7, <2>8 DEF RequestOK
<1>9. QED
  BY <1>5, <1>6, <1>7, <1>8, ReserveOps DEF Reclaim

-----------------------------------------------------------------------------
(* Clients and clocks. *)

LEMMA ClientKeeps ==
  ASSUME IInv, UNCHANGED <<subVars, queue, running, used, resv, admitted, holds, kv, published>>,
         flagged' \in [Request -> BOOLEAN], late' \in [Request -> BOOLEAN],
         \A r \in Request : late[r] => late'[r],
         telling' \in [Request -> {<<>>, <<"D">>, <<"P", "D">>}],
         cancelled' \in [Role -> SUBSET Request]
  PROVE  IInv'
<1>1. QueueOK' /\ \A s : Pend(s)' = Pend(s)
  BY SameQueue
<1>2. \A s : Has(s)' = Has(s) /\ Runs(s)' = Runs(s)
  BY DEF Has, Runs
<1>3. Typed'
  BY SMT, ZenonT(60) DEF IInv, Typed, TypeOK, subVars
<1>4. BudgetOK'
  BY DEF IInv, BudgetOK, Taken, Busy
<1>5. ASSUME NEW r \in Request
      PROVE  RequestOK(r)'
  <2>1. /\ stage'[r] = stage[r] /\ answer'[r] = answer[r] /\ outcome'[r] = outcome[r]
        /\ reserved'[r] = reserved[r] /\ handoff'[r] = handoff[r] /\ clean'[r] = clean[r]
        /\ offered' = offered /\ (InTime(r)' => InTime(r))
    BY DEF subVars, InTime
  <2>2. RequestOK(r)
    BY DEF IInv
  <2>3. Sending(r)' /\ Taking(r)'
    BY <1>1, <1>2, <2>1, <2>2 DEF RequestOK, Sending, Unsent, Taking, Fresh, On
  <2>4. Reading(r)' /\ Offering(r)' /\ Waiting(r)'
    BY <1>1, <1>2, <2>1, <2>2 DEF RequestOK, Reading, Offering, Waiting
  <2>5. Clearing(r)'
    BY <1>1, <1>2, <2>1, <2>2 DEF RequestOK, Clearing, KnownToP, KnownToD, On
  <2>6. QED
    BY <2>3, <2>4, <2>5 DEF RequestOK
<1>6. QED
  BY <1>1, <1>3, <1>4, <1>5 DEF IInv

LEMMA CancelKeeps ==
  ASSUME IInv, NEW r \in Request, Cancel(r)
  PROVE  IInv'
<1>1. telling' \in [Request -> {<<>>, <<"D">>, <<"P", "D">>}]
  BY DEF Cancel, IInv, Typed
<1>2. QED
  BY <1>1, ClientKeeps DEF Cancel, roleVars, IInv, Typed, TypeOK

LEMMA CancelReachesKeeps ==
  ASSUME IInv, NEW r \in Request, CancelReaches(r)
  PROVE  IInv'
<1>1. telling[r] \in {<<"D">>, <<"P", "D">>}
  BY DEF CancelReaches, IInv, Typed
<1>2. Head(telling[r]) \in Role /\ Tail(telling[r]) \in {<<>>, <<"D">>}
  <2>1. CASE telling[r] = <<"D">>
    BY <2>1 DEF Role
  <2>2. CASE telling[r] = <<"P", "D">>
    BY <2>2 DEF Role
  <2>3. QED
    BY <1>1, <2>1, <2>2
<1>3. telling' \in [Request -> {<<>>, <<"D">>, <<"P", "D">>}]
  BY <1>2 DEF CancelReaches, IInv, Typed
<1>4. cancelled' \in [Role -> SUBSET Request]
  BY <1>2 DEF CancelReaches, IInv, Typed
<1>5. QED
  BY <1>3, <1>4, ClientKeeps DEF CancelReaches, IInv, Typed, TypeOK

LEMMA DeadlinePassesKeeps ==
  ASSUME IInv, NEW r \in Request, DeadlinePasses(r)
  PROVE  IInv'
<1>1. late' \in [Request -> BOOLEAN] /\ \A s \in Request : late[s] => late'[s]
  BY DEF DeadlinePasses, IInv, Typed, TypeOK
<1>2. QED
  BY <1>1, ClientKeeps DEF DeadlinePasses, roleVars, IInv, Typed, TypeOK

-----------------------------------------------------------------------------
(* The owner threads: the command they take, and the budget. *)

LEMMA TakeEffect ==
  ASSUME IInv, NEW r \in Request, NEW op \in Ops, Takes(RoleOf(op), op, r)
  PROVE  /\ queue' \in [Role -> Seq([op : Ops, request : Request])]
         /\ \A w \in Role : Len(queue'[w]) <= QueueCapacity
         /\ QueueOK' /\ \A s \in Request \ {r} : Pend(s)' = Pend(s)
         /\ op \in Pend(r) /\ Pend(r)' = Pend(r) \ {op}
         /\ op = "pd_unreserve D" => "pd_decode" \notin Pend(r)
         /\ running[RoleOf(op)] = Idle
<1> DEFINE w == RoleOf(op)
           C == [op : Ops, request : Request]
           c == Cmd(op, r)
<1>1. /\ w \in Role /\ queue \in [Role -> Seq(C)] /\ QueueOK
      /\ running[w] = Idle /\ queue[w] # <<>> /\ Head(queue[w]) = c
      /\ queue' = [queue EXCEPT ![w] = Tail(@)]
  BY DEF IInv, Typed, RoleOf, Role, Takes, Cmd
<1>2. queue'[w] = Tail(queue[w]) /\ \A v \in Role \ {w} : queue'[v] = queue[v]
  BY <1>1
<1>3. /\ queue'[w] \in Seq(C) /\ Len(queue'[w]) = Len(queue[w]) - 1 /\ Distinct(queue'[w])
      /\ Entry(queue[w], c)
      /\ \A d : Entry(queue'[w], d) <=> Entry(queue[w], d) /\ d # c
      /\ \A a, b : InOrder(queue[w], a, b) => InOrder(queue'[w], a, b)
      /\ \A a : InOrder(queue[w], a, c) => ~ Entry(queue[w], a)
  <2>1. queue[w] \in Seq(C) /\ queue[w] # <<>> /\ Distinct(queue[w])
    BY <1>1 DEF QueueOK
  <2> HIDE DEF w, C, c
  <2> DEFINE q == queue[w]
             t == Tail(q)
  <2>2. /\ t \in Seq(C) /\ Len(t) = Len(q) - 1 /\ Distinct(t) /\ Entry(q, Head(q))
        /\ \A d : Entry(t, d) <=> Entry(q, d) /\ d # Head(q)
        /\ \A a, b : InOrder(q, a, b) => InOrder(t, a, b)
        /\ \A a : InOrder(q, a, Head(q)) => ~ Entry(q, a)
    BY <2>1, TailEffect
  <2>3. queue'[w] = t /\ Head(q) = c
    BY <1>1, <1>2
  <2> HIDE DEF t
  <2>4. QED
    BY <2>2, <2>3
<1>4. queue' \in [Role -> Seq(C)]
  BY <1>1, <1>2, <1>3
<1>5. \A v \in Role : Len(queue'[v]) <= QueueCapacity
  <2>1. Len(queue[w]) <= QueueCapacity /\ QueueCapacity \in Nat
    BY <1>1, RoleAssumption DEF IInv, Typed, TypeOK, RoleAssumption
  <2>2. Len(queue[w]) \in Nat
    <3>1. queue[w] \in Seq(C)
      BY <1>1
    <3> HIDE DEF w, C
    <3>2. QED
      BY <3>1, LenProperties
  <2>3. Len(queue'[w]) <= QueueCapacity
    <3> HIDE DEF w
    <3>1. QED
      BY <1>3, <2>1, <2>2
  <2>4. QED
    BY <1>2, <2>3 DEF IInv, Typed, TypeOK
<1>6. QueueOK'
  <2>1. \A v \in Role : Distinct(queue'[v])
    BY <1>1, <1>2, <1>3 DEF QueueOK
  <2>2. ASSUME NEW s \in Request
        PROVE  InOrder(queue'["D"], Cmd("pd_decode", s), Cmd("pd_unreserve D", s))
    <3>1. InOrder(queue["D"], Cmd("pd_decode", s), Cmd("pd_unreserve D", s))
      BY <1>1 DEF QueueOK
    <3>2. CASE w = "D"
      <4> HIDE DEF w
      <4>1. QED
        BY <1>3, <3>1, <3>2
    <3>3. CASE w # "D"
      BY <1>2, <3>1, <3>3 DEF Role
    <3>4. QED
      BY <3>2, <3>3
  <2>3. QED
    BY <2>1, <2>2 DEF QueueOK
<1>7. ASSUME NEW s, NEW o \in Ops
      PROVE  Entry(queue'[RoleOf(o)], Cmd(o, s)) <=>
               Entry(queue[RoleOf(o)], Cmd(o, s)) /\ ~ (o = op /\ s = r)
  <2>1. RoleOf(o) \in Role
    BY DEF RoleOf, Role
  <2>2. Cmd(o, s) = c <=> o = op /\ s = r
    BY DEF Cmd
  <2>3. CASE RoleOf(o) = w
    <3> HIDE DEF c, w
    <3>1. QED
      BY <1>3, <2>2, <2>3
  <2>4. CASE RoleOf(o) # w
    BY <1>2, <2>1, <2>4
  <2>5. QED
    BY <2>3, <2>4
<1>8. /\ \A s \in Request \ {r} : Pend(s)' = Pend(s)
      /\ op \in Pend(r) /\ Pend(r)' = Pend(r) \ {op}
  BY <1>3, <1>7 DEF Pend
<1>9. op = "pd_unreserve D" => "pd_decode" \notin Pend(r)
  <2>1. SUFFICES ASSUME op = "pd_unreserve D"
                 PROVE  "pd_decode" \notin Pend(r)
    OBVIOUS
  <2>2. RoleOf(op) = "D" /\ RoleOf("pd_decode") = "D" /\ w = "D"
    BY <2>1 DEF RoleOf, DecodeOps
  <2>3. InOrder(queue["D"], Cmd("pd_decode", r), c)
    BY <1>1, <2>1 DEF QueueOK
  <2>4. ~ Entry(queue["D"], Cmd("pd_decode", r))
    <3> HIDE DEF c, w
    <3>1. QED
      BY <1>3, <2>2, <2>3
  <2>5. QED
    BY <2>2, <2>4 DEF Pend
<1>10. QED
  BY <1>1, <1>4, <1>5, <1>6, <1>8, <1>9

LEMMA TakenIsOn ==
  ASSUME NEW w \in Role
  PROVE  /\ Typed => Taken(w) = {s \in Request : On(s, w)}
         /\ Typed' => Taken(w)' = {s \in Request : On(s, w)'}
<1>1. Typed => Taken(w) = {s \in Request : On(s, w)}
  BY DEF Typed, TypeOK, Taken, Busy, On, Has, Runs
<1>2. Typed' => Taken(w)' = {s \in Request : On(s, w)'}
  BY DEF Typed, TypeOK, Taken, Busy, On, Has, Runs
<1>3. QED
  BY <1>1, <1>2

\* A step of the owner of w changes at most what the roles have of r, and the
\* budget of w by the demand of r.
BudgetMoves(r, w) ==
  /\ \A s \in Request, v \in Role : s # r \/ v # w => (On(s, v)' <=> On(s, v))
  /\ \/ used' = used /\ (On(r, w)' <=> On(r, w))
     \/ /\ ~ On(r, w) /\ On(r, w)' /\ Free(w) >= Demand[w][r]
        /\ used' = [used EXCEPT ![w] = @ + Demand[w][r]]
     \/ On(r, w) /\ ~ On(r, w)' /\ Subtract(w, r)

LEMMA BudgetEffect ==
  ASSUME IInv, NEW r \in Request, NEW w \in Role, BudgetMoves(r, w),
         resv' \in [Role -> SUBSET Request], running' \in [Role -> Running],
         holds' \subseteq Request
  PROVE  /\ BudgetOK'
         /\ used' \in [Role -> Nat] /\ \A v \in Role : used'[v] \in 0..Capacity[v]
<1>1. \A v \in Role : Taken(v) = {s \in Request : On(s, v)}
  BY DEF IInv, Typed, TypeOK, Taken, Busy, On, Has, Runs
<1>2. \A v \in Role : Taken(v)' = {s \in Request : On(s, v)'}
  BY DEF Taken, Busy, On, Has, Runs
<1>3. \A v \in Role : /\ IsFiniteSet(Taken(v))
                      /\ used[v] = SumFunctionOnSet(Demand[v], Taken(v))
                      /\ used[v] \in Nat /\ used[v] \in 0..Capacity[v]
                      /\ Capacity[v] \in Nat /\ \A s \in Request : Demand[v][s] \in Nat
  BY RoleAssumption DEF IInv, Typed, TypeOK, BudgetOK, RoleAssumption
<1>4. \A v \in Role \ {w} : Taken(v)' = Taken(v)
  BY <1>1, <1>2 DEF BudgetMoves
<1>5. used \in [Role -> Nat]
  BY DEF IInv, Typed
<1>6. CASE used' = used /\ (On(r, w)' <=> On(r, w))
  <2>1. Taken(w)' = Taken(w)
    BY <1>1, <1>2, <1>6 DEF BudgetMoves
  <2>2. \A v \in Role : Taken(v)' = Taken(v) /\ used'[v] = used[v]
    BY <1>4, <1>6, <2>1
  <2>3. BudgetOK'
    BY <1>3, <2>2 DEF BudgetOK
  <2>4. QED
    BY <1>3, <1>5, <1>6, <2>3
<1>7. CASE /\ ~ On(r, w) /\ On(r, w)' /\ Free(w) >= Demand[w][r]
           /\ used' = [used EXCEPT ![w] = @ + Demand[w][r]]
  <2>1. Taken(w)' = Taken(w) \cup {r} /\ r \notin Taken(w)
    BY <1>1, <1>2, <1>7 DEF BudgetMoves
  <2>2. IsFiniteSet(Taken(w)')
    BY <1>3, <2>1, FS_AddElement
  <2>3. Taken(w) \subseteq Request
    BY <1>1
  <2>4. SumFunctionOnSet(Demand[w], Taken(w)') = Demand[w][r] + used[w]
    <3> DEFINE f == Demand[w]
               S == Taken(w)
    <3>1. IsFiniteSet(S) /\ r \notin S /\ \A x \in S \cup {r} : f[x] \in Int
      BY <1>3, <2>1, <2>3
    <3>2. used[w] = SumFunctionOnSet(f, S) /\ Taken(w)' = S \cup {r}
      BY <1>3, <2>1
    <3> HIDE DEF f, S
    <3>3. SumFunctionOnSet(f, S \cup {r}) = f[r] + SumFunctionOnSet(f, S)
      BY <3>1, SumAdd
    <3>4. QED
      BY <3>2, <3>3 DEF f
  <2>5. /\ used'[w] = used[w] + Demand[w][r] /\ used'[w] \in Nat /\ used'[w] \in 0..Capacity[w]
        /\ \A v \in Role \ {w} : used'[v] = used[v]
    BY <1>3, <1>5, <1>7 DEF Free
  <2>6. used'[w] = SumFunctionOnSet(Demand[w], Taken(w)')
    BY <1>3, <2>4, <2>5
  <2>7. used' \in [Role -> Nat]
    BY <1>5, <1>7, <2>5
  <2>8. QED
    BY <1>3, <1>4, <2>2, <2>5, <2>6, <2>7 DEF BudgetOK
<1>8. CASE On(r, w) /\ ~ On(r, w)' /\ Subtract(w, r)
  <2>1. Taken(w)' = Taken(w) \ {r} /\ r \in Taken(w)
    BY <1>1, <1>2, <1>8 DEF BudgetMoves
  <2>2. IsFiniteSet(Taken(w)')
    BY <1>3, <2>1, FS_RemoveElement
  <2>3. Taken(w) \subseteq Request
    BY <1>1
  <2>4. /\ used[w] = Demand[w][r] + SumFunctionOnSet(Demand[w], Taken(w)')
        /\ SumFunctionOnSet(Demand[w], Taken(w)') \in Nat
    <3> DEFINE f == Demand[w]
               S == Taken(w)
    <3>1. IsFiniteSet(S) /\ r \in S /\ \A x \in S : f[x] \in Int /\ f[x] \in Nat
      BY <1>3, <2>1, <2>3
    <3>2. used[w] = SumFunctionOnSet(f, S) /\ Taken(w)' = S \ {r}
      BY <1>3, <2>1
    <3> HIDE DEF f, S
    <3>3. SumFunctionOnSet(f, S) = f[r] + SumFunctionOnSet(f, S \ {r})
      BY <3>1, SumRemove
    <3>4. IsFiniteSet(S \ {r})
      BY <3>1, FS_RemoveElement
    <3>5. SumFunctionOnSet(f, S \ {r}) \in Nat
      BY <3>1, <3>4, SumNat
    <3>6. QED
      BY <3>2, <3>3, <3>5 DEF f
  <2>5. /\ used'[w] = used[w] - Demand[w][r]
        /\ \A v \in Role \ {w} : used'[v] = used[v]
    BY <1>5, <1>8 DEF Subtract
  <2>6. used'[w] = SumFunctionOnSet(Demand[w], Taken(w)') /\ used'[w] \in Nat
    BY <1>3, <2>4, <2>5
  <2>7. used'[w] \in 0..Capacity[w]
    BY <1>3, <2>5, <2>6
  <2>8. used' \in [Role -> Nat]
    BY <1>5, <1>8, <2>6 DEF Subtract
  <2>9. QED
    BY <1>3, <1>4, <2>2, <2>5, <2>6, <2>7, <2>8 DEF BudgetOK
<1>9. QED
  BY <1>6, <1>7, <1>8 DEF BudgetMoves

\* Nothing the coordinator keeps has changed, nor what the queues and answers
\* say of another request than r.
Serves(r) ==
  /\ UNCHANGED <<stage, reserved, handoff, outcome, clean, offered, clientVars, cancelled>>
  /\ answer' \in [Request -> Statuses] /\ \A s \in Request \ {r} : answer'[s] = answer[s]
  /\ queue' \in [Role -> Seq([op : Ops, request : Request])]
  /\ \A w \in Role : Len(queue'[w]) <= QueueCapacity
  /\ QueueOK' /\ \A s \in Request \ {r} : Pend(s)' = Pend(s)

\* Nor what the roles have of another request.
Touches(r) ==
  /\ resv' \in [Role -> SUBSET Request] /\ running' \in [Role -> Running]
  /\ holds' \subseteq Request /\ kv' \subseteq Request /\ admitted' \subseteq Request
  /\ published' = holds'
  /\ \A s \in Request \ {r} :
       /\ Has(s)' = Has(s) /\ Runs(s)' = Runs(s)
       /\ (s \in holds <=> s \in holds') /\ (s \in kv <=> s \in kv')

LEMMA WorkFrame ==
  ASSUME IInv, NEW r \in Request, NEW w \in Role, Serves(r), Touches(r),
         \A v \in Role \ {w} : On(r, v)' <=> On(r, v),
         \/ used' = used /\ (On(r, w)' <=> On(r, w))
         \/ /\ ~ On(r, w) /\ On(r, w)' /\ Free(w) >= Demand[w][r]
            /\ used' = [used EXCEPT ![w] = @ + Demand[w][r]]
         \/ On(r, w) /\ ~ On(r, w)' /\ Subtract(w, r),
         RequestOK(r)'
  PROVE  IInv'
<1>1. BudgetMoves(r, w)
  BY DEF BudgetMoves, Touches, On
<1>2. BudgetOK' /\ used' \in [Role -> Nat] /\ \A v \in Role : used'[v] \in 0..Capacity[v]
  BY <1>1, BudgetEffect DEF Touches
<1>3. Typed'
  BY <1>2 DEF IInv, Typed, TypeOK, Serves, Touches, clientVars
<1>4. \A s \in Request \ {r} : Same(s)
  BY DEF Same, Serves, Touches, clientVars
<1>5. QED
  BY <1>2, <1>3, <1>4, OthersKeep DEF Serves

-----------------------------------------------------------------------------
(* The owner threads: commands that are answered and move nothing. *)

Hears(r, op, status) ==
  answer'[r] = IF stage[r] = op /\ answer[r] = "none" THEN status ELSE answer[r]

Keeps(r) ==
  /\ stage'[r] = stage[r] /\ reserved'[r] = reserved[r] /\ handoff'[r] = handoff[r]
  /\ outcome'[r] = outcome[r] /\ clean'[r] = clean[r] /\ late'[r] = late[r]
  /\ offered' = offered

LEMMA AnswersEffect ==
  ASSUME IInv, NEW r \in Request, NEW op, NEW status \in Statuses, Answers(op, r, status)
  PROVE  /\ answer' \in [Request -> Statuses] /\ Hears(r, op, status)
         /\ \A s \in Request \ {r} : answer'[s] = answer[s]
BY DEF IInv, Typed, TypeOK, Answers, Hears

LEMMA ServesEffect ==
  ASSUME IInv, NEW r \in Request, NEW op \in Ops, NEW status \in Statuses,
         Takes(RoleOf(op), op, r), answer' = answer \/ Answers(op, r, status),
         UNCHANGED <<stage, reserved, handoff, outcome, clean, offered, clientVars, cancelled>>
  PROVE  /\ Serves(r) /\ Keeps(r) /\ op \in Pend(r) /\ Pend(r)' = Pend(r) \ {op}
         /\ op = "pd_unreserve D" => "pd_decode" \notin Pend(r)
         /\ RoleOf(op) \notin Runs(r)
         /\ answer'[r] = answer[r] \/ Hears(r, op, status)
<1>1. /\ answer' \in [Request -> Statuses] /\ (answer'[r] = answer[r] \/ Hears(r, op, status))
      /\ \A s \in Request \ {r} : answer'[s] = answer[s]
  BY AnswersEffect DEF IInv, Typed, TypeOK
<1>2. Serves(r)
  BY <1>1, TakeEffect DEF Serves
<1>3. Keeps(r)
  BY DEF Keeps, clientVars
<1>4. RoleOf(op) \notin Runs(r)
  <2>1. running[RoleOf(op)].request = "none"
    BY DEF Takes, Idle
  <2>2. QED
    BY <2>1, RoleAssumption DEF RoleAssumption, Runs
<1>5. QED
  BY <1>1, <1>2, <1>3, <1>4, TakeEffect

\* r is answered status, and nothing that the roles have of it has changed.
AnsweredOnly(r, op, status) ==
  /\ Hears(r, op, status)
  /\ Has(r)' = Has(r) /\ Runs(r)' = Runs(r)
  /\ (r \in holds <=> r \in holds') /\ (r \in kv <=> r \in kv')

LEMMA AnswerKeeps ==
  ASSUME IInv, NEW r \in Request, NEW op \in Ops, NEW status \in Statuses \ {"none"},
         Keeps(r), op \in Pend(r), Pend(r)' = Pend(r) \ {op}, RoleOf(op) \notin Runs(r),
         op = "pd_unreserve D" => "pd_decode" \notin Pend(r),
         AnsweredOnly(r, op, status),
         status = "ok" => \/ op = "probe"
                          \/ \E w \in Role : op = UnreserveOp[w] /\ w \notin Has(r)
  PROVE  RequestOK(r)'
<1>1. RequestOK(r) /\ Pend(r) \subseteq Ops /\ answer'[r] \in Statuses
  BY DEF IInv, Typed, TypeOK, Pend, AnsweredOnly, Hears
<1>2. status = "ok" => \/ op = "probe"
                       \/ op = "pd_unreserve P" /\ "P" \notin Has(r)
                       \/ op = "pd_unreserve D" /\ "D" \notin Has(r)
  BY ReserveOps DEF Role
<1>3. InTime(r) => Pend(r) = {op} /\ stage[r] = op /\ answer[r] = "none"
  BY <1>1 DEF RequestOK, Waiting
<1>4. Sending(r)'
  BY <1>1 DEF RequestOK, Sending, Unsent, Keeps
<1>5. Taking(r)'
  BY <1>1 DEF RequestOK, Taking, Fresh, On, Keeps, AnsweredOnly
<1>6. Reading(r)'
  <2>1. op = "pd_decode" => RoleOf(op) = "D"
    BY DEF RoleOf, DecodeOps
  <2>2. op = "pd_unreserve D" => RoleOf(op) = "D"
    BY DEF RoleOf, DecodeOps
  <2>3. QED
    BY <1>1, <1>2, <2>1, <2>2 DEF RequestOK, Reading, Keeps, AnsweredOnly, Hears
<1>7. Offering(r)'
  BY <1>1, <1>2 DEF RequestOK, Offering, Keeps, AnsweredOnly, Hears
<1>8. Waiting(r)'
  <2>1. op = "pd_decode" => RoleOf(op) = "D"
    BY DEF RoleOf, DecodeOps
  <2>2. op = "pd_prefill" => RoleOf(op) = "P"
    BY DEF RoleOf, DecodeOps
  <2>3. InTime(r) => Runs(r) \cap Role = {}
    BY <1>1, <1>3, <2>1, <2>2 DEF RequestOK, Waiting, Role
  <2>4. QED
    BY <1>3, <2>3 DEF Waiting, InTime, Keeps, AnsweredOnly, Role
<1>9. Clearing(r)'
  BY <1>1, <1>2, <1>3, ReserveOps
  DEF RequestOK, Clearing, Taking, Waiting, On, InTime, KnownToP, KnownToD, Role,
      Keeps, AnsweredOnly, Hears
<1>10. QED
  BY <1>4, <1>5, <1>6, <1>7, <1>8, <1>9 DEF RequestOK

LEMMA OpRoles ==
  /\ \A w \in Role : /\ ReserveOp[w] \in Ops /\ RoleOf(ReserveOp[w]) = w
                     /\ UnreserveOp[w] \in Ops /\ RoleOf(UnreserveOp[w]) = w
  /\ RoleOf("probe") = "P" /\ RoleOf("pd_prefill") = "P" /\ RoleOf("pd_release") = "P"
  /\ RoleOf("pd_decode") = "D"
  /\ {"probe", "pd_prefill", "pd_release", "pd_decode"} \subseteq Ops
BY ReserveOps DEF Role, RoleOf, Ops, DecodeOps, PrefillOps

\* What no owner thread changes.
OwnerFrame == UNCHANGED <<stage, reserved, handoff, outcome, clean, offered, clientVars, cancelled>>

LEMMA AnswerStepKeeps ==
  ASSUME IInv, OwnerFrame, NEW r \in Request, NEW op \in Ops,
         NEW status \in Statuses \ {"none"},
         Takes(RoleOf(op), op, r), Answers(op, r, status),
         UNCHANGED <<running, used, resv, holds, kv, published>>,
         admitted' = admitted \/ admitted' = admitted \cup {r},
         status = "ok" => \/ op = "probe"
                          \/ \E w \in Role : op = UnreserveOp[w] /\ w \notin Has(r)
  PROVE  IInv'
<1>1. /\ Serves(r) /\ Keeps(r) /\ op \in Pend(r) /\ Pend(r)' = Pend(r) \ {op}
      /\ op = "pd_unreserve D" => "pd_decode" \notin Pend(r)
      /\ RoleOf(op) \notin Runs(r)
  BY ServesEffect DEF OwnerFrame
<1>2. Hears(r, op, status)
  BY AnswersEffect
<1>3. \A s : Has(s)' = Has(s) /\ Runs(s)' = Runs(s)
  BY DEF Has, Runs
<1>4. Touches(r)
  BY <1>3 DEF Touches, IInv, Typed, TypeOK
<1>5. AnsweredOnly(r, op, status)
  BY <1>2, <1>3 DEF AnsweredOnly
<1>6. RequestOK(r)'
  BY <1>1, <1>5, AnswerKeeps
<1>7. \A v \in Role : On(r, v)' <=> On(r, v)
  BY <1>3 DEF On
<1>8. RoleOf(op) \in Role
  BY DEF RoleOf, Role
<1>9. QED
  BY <1>1, <1>4, <1>6, <1>7, <1>8, WorkFrame

LEMMA ProbeKeeps ==
  ASSUME IInv, OwnerFrame, NEW r \in Request, Probe(r)
  PROVE  IInv'
<1>1. Takes(RoleOf("probe"), "probe", r) /\ UNCHANGED roleVars
  BY OpRoles DEF Probe
<1>2. PICK status \in {"ok", "refused"} : Answers("probe", r, status)
  BY DEF Probe
<1>3. status \in Statuses \ {"none"} /\ "probe" \in Ops
  BY OpRoles DEF Statuses
<1>4. QED
  BY <1>1, <1>2, <1>3, AnswerStepKeeps DEF roleVars

LEMMA PrefillTurnedAwayKeeps ==
  ASSUME IInv, OwnerFrame, NEW r \in Request, PrefillTurnedAway(r)
  PROVE  IInv'
<1>1. /\ Takes(RoleOf("pd_prefill"), "pd_prefill", r) /\ "pd_prefill" \in Ops
      /\ Answers("pd_prefill", r, "failed") /\ "failed" \in Statuses \ {"none"}
      /\ admitted' = admitted \/ admitted' = admitted \cup {r}
      /\ UNCHANGED <<running, used, resv, holds, kv, published>>
  BY OpRoles DEF PrefillTurnedAway, Statuses
<1>2. QED
  BY <1>1, AnswerStepKeeps

LEMMA DecodeTurnedAwayKeeps ==
  ASSUME IInv, OwnerFrame, NEW r \in Request, DecodeTurnedAway(r)
  PROVE  IInv'
<1>1. Takes(RoleOf("pd_decode"), "pd_decode", r) /\ UNCHANGED roleVars
  BY OpRoles DEF DecodeTurnedAway
<1>2. PICK status \in {"deadline", "cancelled", "failed"} : Answers("pd_decode", r, status)
  BY DEF DecodeTurnedAway
<1>3. status \in Statuses \ {"none"} /\ status # "ok" /\ "pd_decode" \in Ops
  BY OpRoles DEF Statuses
<1>4. QED
  BY <1>1, <1>2, <1>3, AnswerStepKeeps DEF roleVars

-----------------------------------------------------------------------------
(* The owner threads: reservations. *)

LEMMA PDReserveKeeps ==
  ASSUME IInv, OwnerFrame, NEW r \in Request, NEW w \in Role, PDReserve(w, r)
  PROVE  IInv'
<1> DEFINE op == ReserveOp[w]
<1>1. /\ Takes(RoleOf(op), op, r) /\ op \in Ops /\ RoleOf(op) = w
      /\ UNCHANGED <<running, admitted, holds, kv, published>>
  BY OpRoles DEF PDReserve
<1>2. CASE UNCHANGED <<used, resv>> /\ \E status \in {"deadline", "cancelled", "refused"} :
                                         Answers(op, r, status)
  <2>1. PICK status \in {"deadline", "cancelled", "refused"} : Answers(op, r, status)
    BY <1>2
  <2>2. status \in Statuses \ {"none"} /\ status # "ok"
    BY DEF Statuses
  <2> HIDE DEF op
  <2>3. QED
    BY <1>1, <1>2, <2>1, <2>2, AnswerStepKeeps
<1>3. CASE /\ Free(w) >= Demand[w][r] /\ Answers(op, r, "ok")
           /\ used' = [used EXCEPT ![w] = @ + Demand[w][r]]
           /\ resv' = [resv EXCEPT ![w] = @ \cup {r}]
  <2>1. /\ Serves(r) /\ Keeps(r) /\ op \in Pend(r) /\ Pend(r)' = Pend(r) \ {op}
        /\ w \notin Runs(r) /\ Hears(r, op, "ok")
    <3>1. "ok" \in Statuses
      BY DEF Statuses
    <3> HIDE DEF op
    <3>2. QED
      BY <1>1, <1>3, <3>1, ServesEffect, AnswersEffect DEF OwnerFrame
  <2>2. /\ resv' \in [Role -> SUBSET Request] /\ Has(r)' = Has(r) \cup {w}
        /\ \A s : Runs(s)' = Runs(s)
        /\ \A s \in Request \ {r} : Has(s)' = Has(s)
    BY <1>1, <1>3 DEF Has, Runs, IInv, Typed
  <2>3. Touches(r)
    BY <1>1, <2>2 DEF Touches, IInv, Typed, TypeOK
  <2>4. RequestOK(r) /\ Pend(r) \subseteq Ops
    BY DEF IInv, Pend
  <2>5. ~ On(r, w) /\ stage[r] \notin Ahead(op)
    BY <2>1, <2>4 DEF RequestOK, Taking, Fresh, Sending, Unsent
  <2>6. On(r, w)' /\ \A v \in Role \ {w} : On(r, v)' <=> On(r, v)
    BY <1>1, <2>2 DEF On
  <2>7. InTime(r) => Pend(r) = {op} /\ stage[r] = op /\ answer[r] = "none" /\ Runs(r) = {}
    <3>1. InTime(r) => Pend(r) = {op} /\ stage[r] = op /\ answer[r] = "none"
      BY <2>1, <2>4 DEF RequestOK, Waiting
    <3>2. op \notin {"pd_prefill", "pd_decode"}
      BY ReserveOps DEF Role
    <3>3. QED
      BY <2>4, <3>1, <3>2 DEF RequestOK, Waiting, Runs, Role
  <2>8. Sending(r)'
    BY <2>1, <2>4 DEF RequestOK, Sending, Unsent, Keeps
  <2>9. Taking(r)'
    <3>1. \A v \in Role : Fresh(r, v)' => ~ On(r, v)'
      BY <2>1, <2>4, <2>5, <2>6 DEF RequestOK, Taking, Fresh, Keeps
    <3>2. QED
      BY <1>1, <2>1, <2>2, <2>4, <2>5, <3>1 DEF RequestOK, Taking, On, Keeps
  <2>10. Reading(r)' /\ Offering(r)'
    BY <1>1, <2>1, <2>2, <2>4, ReserveOps
    DEF RequestOK, Reading, Offering, Keeps, Hears, Role
  <2>11. Waiting(r)'
    BY <2>1, <2>2, <2>7 DEF Waiting, InTime, Keeps
  <2>12. Clearing(r)'
    BY <1>1, <2>1, <2>2, <2>4, <2>7, ReserveOps
    DEF RequestOK, Clearing, On, InTime, KnownToP, KnownToD, Role, Keeps, Hears
  <2>13. RequestOK(r)'
    BY <2>8, <2>9, <2>10, <2>11, <2>12 DEF RequestOK
  <2>14. QED
    BY <1>3, <2>1, <2>3, <2>5, <2>6, <2>13, WorkFrame
<1>4. QED
  BY <1>2, <1>3 DEF PDReserve

LEMMA PDUnreserveKeeps ==
  ASSUME IInv, OwnerFrame, NEW r \in Request, NEW w \in Role, PDUnreserve(w, r)
  PROVE  IInv'
<1> DEFINE op == UnreserveOp[w]
<1>1. /\ Takes(RoleOf(op), op, r) /\ op \in Ops /\ RoleOf(op) = w
      /\ UNCHANGED <<running, admitted, holds, kv, published>>
      /\ Answers(op, r, "ok") /\ "ok" \in Statuses \ {"none"}
  BY OpRoles DEF PDUnreserve, Statuses
<1>2. CASE r \notin resv[w]
  <2>1. UNCHANGED <<used, resv>> /\ w \notin Has(r)
    BY <1>2 DEF PDUnreserve, Has
  <2>2. \E v \in Role : op = UnreserveOp[v] /\ v \notin Has(r)
    BY <2>1
  <2> HIDE DEF op
  <2>3. QED
    BY <1>1, <2>1, <2>2, AnswerStepKeeps
<1>3. CASE r \in resv[w]
  <2>1. Subtract(w, r) /\ resv' = [resv EXCEPT ![w] = @ \ {r}]
    BY <1>3 DEF PDUnreserve
  <2>2. /\ Serves(r) /\ Keeps(r) /\ op \in Pend(r) /\ Pend(r)' = Pend(r) \ {op}
        /\ op = "pd_unreserve D" => "pd_decode" \notin Pend(r)
        /\ w \notin Runs(r) /\ Hears(r, op, "ok")
    <3> HIDE DEF op
    <3>1. QED
      BY <1>1, ServesEffect, AnswersEffect DEF OwnerFrame
  <2>3. /\ resv' \in [Role -> SUBSET Request] /\ Has(r)' = Has(r) \ {w} /\ w \in Has(r)
        /\ \A s : Runs(s)' = Runs(s)
        /\ \A s \in Request \ {r} : Has(s)' = Has(s)
    BY <1>1, <1>3, <2>1 DEF Has, Runs, IInv, Typed
  <2>4. Touches(r)
    BY <1>1, <2>3 DEF Touches, IInv, Typed, TypeOK
  <2>5. RequestOK(r) /\ Pend(r) \subseteq Ops
    BY DEF IInv, Pend
  <2>6. On(r, w) /\ ~ On(r, w)'
    BY <1>1, <2>2, <2>3, <2>5 DEF RequestOK, Taking, On
  <2>7. \A v \in Role \ {w} : On(r, v)' <=> On(r, v)
    BY <1>1, <2>3 DEF On
  <2>8. InTime(r) => Pend(r) = {op} /\ stage[r] = op /\ answer[r] = "none" /\ Runs(r) = {}
    <3>1. InTime(r) => Pend(r) = {op} /\ stage[r] = op /\ answer[r] = "none"
      BY <2>2, <2>5 DEF RequestOK, Waiting
    <3>2. op \notin {"pd_prefill", "pd_decode"}
      BY ReserveOps DEF Role
    <3>3. QED
      BY <2>5, <3>1, <3>2 DEF RequestOK, Waiting, Runs, Role
  <2>9. Sending(r)'
    BY <2>2, <2>5 DEF RequestOK, Sending, Unsent, Keeps
  <2>10. Taking(r)'
    <3>1. \A v \in Role : Fresh(r, v)' => ~ On(r, v)'
      BY <2>2, <2>5, <2>6, <2>7 DEF RequestOK, Taking, Fresh, Keeps
    <3>2. QED
      BY <1>1, <2>2, <2>3, <2>5, <3>1 DEF RequestOK, Taking, Keeps
  <2>11. Reading(r)' /\ Offering(r)'
    BY <1>1, <2>2, <2>3, <2>5, ReserveOps
    DEF RequestOK, Reading, Offering, Keeps, Hears, Role
  <2>12. Waiting(r)'
    BY <2>2, <2>3, <2>8 DEF Waiting, InTime, Keeps
  <2>13. Clearing(r)'
    BY <1>1, <2>2, <2>3, <2>5, <2>6, <2>8, ReserveOps
    DEF RequestOK, Clearing, On, InTime, KnownToP, KnownToD, Role, Keeps, Hears
  <2>14. RequestOK(r)'
    BY <2>9, <2>10, <2>11, <2>12, <2>13 DEF RequestOK
  <2>15. QED
    BY <2>1, <2>2, <2>4, <2>6, <2>7, <2>14, WorkFrame
<1>4. QED
  BY <1>2, <1>3

LEMMA PDReleaseKeeps ==
  ASSUME IInv, OwnerFrame, NEW r \in Request, PDRelease(r)
  PROVE  IInv'
<1> DEFINE op == "pd_release"
<1>1. /\ Takes(RoleOf(op), op, r) /\ op \in Ops /\ RoleOf(op) = "P"
      /\ UNCHANGED <<running, resv, admitted>>
      /\ {"ok", "failed"} \subseteq Statuses \ {"none"}
  BY OpRoles DEF PDRelease, Statuses
<1>2. CASE r \notin holds
  <2>1. UNCHANGED <<used, holds, kv, published>> /\ Answers(op, r, "failed")
    BY <1>2 DEF PDRelease
  <2> HIDE DEF op
  <2>2. QED
    BY <1>1, <2>1, AnswerStepKeeps
<1>3. CASE r \in holds
  <2>1. /\ Subtract("P", r) /\ holds' = holds \ {r} /\ kv' = kv \ {r}
        /\ published' = published \ {r} /\ Answers(op, r, "ok")
    BY <1>3 DEF PDRelease
  <2>2. /\ Serves(r) /\ Keeps(r) /\ op \in Pend(r) /\ Pend(r)' = Pend(r) \ {op}
        /\ "P" \notin Runs(r) /\ Hears(r, op, "ok")
    <3> HIDE DEF op
    <3>1. QED
      BY <1>1, <2>1, ServesEffect, AnswersEffect DEF OwnerFrame
  <2>3. \A s : Has(s)' = Has(s) /\ Runs(s)' = Runs(s)
    BY <1>1 DEF Has, Runs
  <2>4. Touches(r)
    BY <1>1, <2>1, <2>3 DEF Touches, IInv, Typed, TypeOK
  <2>5. RequestOK(r) /\ Pend(r) \subseteq Ops
    BY DEF IInv, Pend
  <2>6. On(r, "P") /\ ~ On(r, "P")'
    BY <1>3, <2>1, <2>2, <2>3, <2>5 DEF RequestOK, Taking, On
  <2>7. \A v \in Role \ {"P"} : On(r, v)' <=> On(r, v)
    BY <2>3 DEF On
  <2>8. InTime(r) => Pend(r) = {op} /\ stage[r] = op /\ answer[r] = "none" /\ Runs(r) = {}
    <3>1. InTime(r) => Pend(r) = {op} /\ stage[r] = op /\ answer[r] = "none"
      BY <2>2, <2>5 DEF RequestOK, Waiting
    <3>2. QED
      BY <2>5, <3>1 DEF RequestOK, Waiting, Runs, Role
  <2>9. Sending(r)'
    BY <2>2, <2>5 DEF RequestOK, Sending, Unsent, Keeps
  <2>10. Taking(r)'
    <3>1. \A v \in Role : Fresh(r, v)' => ~ On(r, v)'
      BY <2>2, <2>5, <2>6, <2>7 DEF RequestOK, Taking, Fresh, Keeps
    <3>2. QED
      BY <1>1, <2>1, <2>2, <2>3, <2>5, <3>1 DEF RequestOK, Taking, Keeps
  <2>11. Reading(r)' /\ Offering(r)'
    BY <1>1, <2>2, <2>3, <2>5 DEF RequestOK, Sending, Reading, Offering, Keeps, Hears
  <2>12. Waiting(r)'
    BY <2>2, <2>3, <2>8 DEF Waiting, InTime, Keeps
  <2>13. Clearing(r)'
    BY <1>1, <2>1, <2>2, <2>3, <2>5, <2>6, <2>8, ReserveOps
    DEF RequestOK, Clearing, InTime, KnownToP, KnownToD, Role, Keeps, Hears
  <2>14. RequestOK(r)'
    BY <2>9, <2>10, <2>11, <2>12, <2>13 DEF RequestOK
  <2>15. "P" \in Role
    BY DEF Role
  <2>16. QED
    BY <2>1, <2>2, <2>4, <2>6, <2>7, <2>14, <2>15, WorkFrame
<1>4. QED
  BY <1>2, <1>3

-----------------------------------------------------------------------------
(* The owner threads: prefill. *)

LEMMA RunStarts ==
  ASSUME IInv, NEW r \in Request, NEW w \in Role, running[w] = Idle,
         NEW op \in {"forward", "export", "decode"},
         running' = [running EXCEPT ![w] = [op |-> op, request |-> r]]
  PROVE  /\ running' \in [Role -> Running] /\ Runs(r)' = Runs(r) \cup {w}
         /\ \A s \in Request \ {r} : Runs(s)' = Runs(s)
<1>1. "none" \notin Request /\ running[w].request = "none"
  BY RoleAssumption DEF RoleAssumption, Idle
<1>2. [op |-> op, request |-> r] \in Running
  BY DEF Running
<1>3. running' \in [Role -> Running]
  BY <1>2 DEF IInv, Typed
<1>4. running'[w].request = r /\ \A v \in Role \ {w} : running'[v] = running[v]
  BY DEF IInv, Typed
<1>5. QED
  BY <1>1, <1>3, <1>4 DEF Runs

LEMMA RunEnds ==
  ASSUME IInv, NEW r \in Request, NEW w \in Role, running[w].request = r,
         running' = [running EXCEPT ![w] = Idle]
  PROVE  /\ running' \in [Role -> Running]
         /\ Runs(r)' = Runs(r) \ {w} /\ w \in Runs(r)
         /\ \A s \in Request \ {r} : Runs(s)' = Runs(s)
<1>1. "none" \notin Request
  BY RoleAssumption DEF RoleAssumption
<1>2. running' \in [Role -> Running]
  BY DEF IInv, Typed, Running
<1>3. running'[w].request = "none" /\ \A v \in Role \ {w} : running'[v] = running[v]
  BY DEF IInv, Typed, Idle
<1>4. QED
  BY <1>1, <1>2, <1>3 DEF Runs

LEMMA PrefillBeginsKeeps ==
  ASSUME IInv, OwnerFrame, NEW r \in Request, PrefillBegins(r)
  PROVE  IInv'
<1> DEFINE op == "pd_prefill"
<1>1. /\ Takes(RoleOf(op), op, r) /\ op \in Ops /\ RoleOf(op) = "P"
      /\ admitted' = admitted \cup {r} /\ r \in resv["P"]
      /\ resv' = [resv EXCEPT !["P"] = @ \ {r}] /\ UNCHANGED <<holds, published>>
      /\ "failed" \in Statuses /\ "P" \in Role
  BY OpRoles DEF PrefillBegins, ConsumePDReservation, Statuses, Role
<1>2. RequestOK(r) /\ Pend(r) \subseteq Ops
  BY DEF IInv, Pend
<1>3. /\ resv' \in [Role -> SUBSET Request] /\ Has(r)' = Has(r) \ {"P"} /\ "P" \in Has(r)
      /\ \A s \in Request \ {r} : Has(s)' = Has(s)
  BY <1>1 DEF Has, IInv, Typed
<1>4. CASE Subtract("P", r) /\ Answers(op, r, "failed") /\ UNCHANGED <<running, kv>>
  <2>1. /\ Serves(r) /\ Keeps(r) /\ op \in Pend(r) /\ Pend(r)' = Pend(r) \ {op}
        /\ "P" \notin Runs(r) /\ Hears(r, op, "failed")
    <3> HIDE DEF op
    <3>1. QED
      BY <1>1, <1>4, ServesEffect, AnswersEffect DEF OwnerFrame
  <2>2. \A s : Runs(s)' = Runs(s)
    BY <1>4 DEF Runs
  <2>3. Touches(r)
    BY <1>1, <1>3, <1>4, <2>2 DEF Touches, IInv, Typed, TypeOK
  <2>4. On(r, "P") /\ ~ On(r, "P")'
    BY <1>1, <1>2, <1>3, <2>1, <2>2 DEF RequestOK, Taking, On
  <2>5. \A v \in Role \ {"P"} : On(r, v)' <=> On(r, v)
    BY <1>3, <2>2 DEF On
  <2>6. InTime(r) => Pend(r) = {op} /\ stage[r] = op /\ answer[r] = "none" /\ Runs(r) = {}
    <3>1. InTime(r) => Pend(r) = {op} /\ stage[r] = op /\ answer[r] = "none"
      BY <1>2, <2>1 DEF RequestOK, Waiting
    <3>2. QED
      BY <1>2, <2>1, <3>1 DEF RequestOK, Waiting, Runs, Role
  <2>7. Sending(r)'
    BY <1>2, <2>1 DEF RequestOK, Sending, Unsent, Keeps
  <2>8. Taking(r)'
    <3>1. \A v \in Role : Fresh(r, v)' => ~ On(r, v)'
      BY <1>2, <2>1, <2>4, <2>5 DEF RequestOK, Taking, Fresh, Keeps
    <3>2. QED
      BY <1>1, <1>2, <1>3, <1>4, <2>1, <2>2, <3>1 DEF RequestOK, Taking, Keeps
  <2>9. Reading(r)' /\ Offering(r)'
    BY <1>1, <1>2, <2>1, <2>2 DEF RequestOK, Reading, Offering, Keeps, Hears
  <2>10. Waiting(r)'
    BY <2>1, <2>2, <2>6 DEF Waiting, InTime, Keeps
  <2>11. Clearing(r)'
    BY <1>1, <1>2, <1>3, <1>4, <2>1, <2>2, <2>4, <2>6, ReserveOps
    DEF RequestOK, Clearing, InTime, KnownToP, KnownToD, Role, Keeps, Hears
  <2>12. RequestOK(r)'
    BY <2>7, <2>8, <2>9, <2>10, <2>11 DEF RequestOK
  <2>13. QED
    BY <1>1, <1>4, <2>1, <2>3, <2>4, <2>5, <2>12, WorkFrame
<1>5. CASE /\ running' = [running EXCEPT !["P"] = [op |-> "forward", request |-> r]]
           /\ kv' = kv \cup {r} /\ UNCHANGED <<used, answer>>
  <2>1. /\ Serves(r) /\ Keeps(r) /\ op \in Pend(r) /\ Pend(r)' = Pend(r) \ {op}
        /\ "P" \notin Runs(r) /\ answer'[r] = answer[r]
    <3> HIDE DEF op
    <3>1. QED
      BY <1>1, <1>5, ServesEffect DEF OwnerFrame
  <2>2. running["P"] = Idle
    BY <1>1 DEF Takes
  <2>3. /\ running' \in [Role -> Running] /\ Runs(r)' = Runs(r) \cup {"P"}
        /\ \A s \in Request \ {r} : Runs(s)' = Runs(s)
    BY <1>1, <1>5, <2>2, RunStarts
  <2>4. Touches(r)
    BY <1>1, <1>3, <1>5, <2>3 DEF Touches, IInv, Typed, TypeOK
  <2>5. On(r, "P") /\ \A v \in Role : On(r, v)' <=> On(r, v)
    BY <1>1, <1>3, <2>3 DEF On
  <2>6. InTime(r) => Pend(r) = {op} /\ stage[r] = op /\ answer[r] = "none" /\ Runs(r) = {}
    <3>1. InTime(r) => Pend(r) = {op} /\ stage[r] = op /\ answer[r] = "none"
      BY <1>2, <2>1 DEF RequestOK, Waiting
    <3>2. QED
      BY <1>2, <2>1, <3>1 DEF RequestOK, Waiting, Runs, Role
  <2>7. Sending(r)'
    BY <1>2, <2>1 DEF RequestOK, Sending, Unsent, Keeps
  <2>8. Taking(r)'
    <3>1. \A v \in Role : Fresh(r, v)' => ~ On(r, v)'
      BY <1>2, <2>1, <2>5 DEF RequestOK, Taking, Fresh, Keeps
    <3>2. stage[r] \notin Ahead(op)
      BY <1>2, <2>1 DEF RequestOK, Sending, Unsent
    <3>3. r \notin holds
      BY <1>2, <1>3 DEF RequestOK, Taking
    <3>4. QED
      BY <1>1, <1>2, <1>3, <1>5, <2>1, <2>3, <3>1, <3>2, <3>3 DEF RequestOK, Taking, Keeps
  <2>9. Reading(r)' /\ Offering(r)'
    BY <1>1, <1>2, <2>1, <2>3 DEF RequestOK, Reading, Offering, Keeps
  <2>10. Waiting(r)'
    BY <2>1, <2>3, <2>6 DEF Waiting, InTime, Keeps
  <2>11. Clearing(r)'
    BY <1>1, <1>2, <1>3, <1>5, <2>1, <2>3, <2>5, <2>6, ReserveOps
    DEF RequestOK, Clearing, InTime, KnownToP, KnownToD, Role, Keeps
  <2>12. RequestOK(r)'
    BY <2>7, <2>8, <2>9, <2>10, <2>11 DEF RequestOK
  <2>13. QED
    BY <1>1, <1>5, <2>1, <2>4, <2>5, <2>12, WorkFrame
<1>6. QED
  BY <1>4, <1>5 DEF PrefillBegins

LEMMA ServesInPlace ==
  ASSUME IInv, OwnerFrame, NEW r \in Request, NEW op, NEW status \in Statuses, UNCHANGED queue,
         answer' = answer \/ Answers(op, r, status)
  PROVE  Serves(r) /\ Keeps(r) /\ Pend(r)' = Pend(r)
<1>1. /\ answer' \in [Request -> Statuses]
      /\ \A s \in Request \ {r} : answer'[s] = answer[s]
  BY AnswersEffect DEF IInv, Typed, TypeOK
<1>2. QED
  BY <1>1, SameQueue DEF Serves, Keeps, OwnerFrame, clientVars

LEMMA PrefillThrowsKeeps ==
  ASSUME IInv, OwnerFrame, NEW r \in Request, PrefillThrows(r)
  PROVE  IInv'
<1>1. /\ running["P"].request = r /\ Subtract("P", r) /\ "P" \in Role
      /\ running' = [running EXCEPT !["P"] = Idle]
      /\ UNCHANGED <<queue, resv, admitted, holds, kv, published>>
  BY DEF PrefillThrows, Role
<1>2. PICK status \in {"failed", "cancelled", "deadline"} : Answers("pd_prefill", r, status)
  BY DEF PrefillThrows
<1>3. status \in Statuses
  BY DEF Statuses
<1>4. /\ Serves(r) /\ Keeps(r) /\ Pend(r)' = Pend(r) /\ Hears(r, "pd_prefill", status)
  BY <1>1, <1>2, <1>3, ServesInPlace, AnswersEffect
<1>5. /\ running' \in [Role -> Running]
      /\ Runs(r)' = Runs(r) \ {"P"} /\ "P" \in Runs(r)
      /\ \A s \in Request \ {r} : Runs(s)' = Runs(s)
  BY <1>1, RunEnds
<1>6. \A s : Has(s)' = Has(s)
  BY <1>1 DEF Has
<1>7. Touches(r)
  BY <1>1, <1>5, <1>6 DEF Touches, IInv, Typed, TypeOK
<1>8. RequestOK(r) /\ Pend(r) \subseteq Ops
  BY DEF IInv, Pend
<1>9. On(r, "P") /\ ~ On(r, "P")'
  BY <1>1, <1>5, <1>6, <1>8 DEF RequestOK, Taking, On
<1>10. \A v \in Role \ {"P"} : On(r, v)' <=> On(r, v)
  BY <1>5, <1>6 DEF On
<1>11. InTime(r) => Pend(r) = {} /\ stage[r] = "pd_prefill" /\ Runs(r)' = {}
  <2>1. InTime(r) => Pend(r) = {} /\ stage[r] = "pd_prefill"
    BY <1>5, <1>8 DEF RequestOK, Waiting, Taking
  <2>2. QED
    BY <1>5, <1>8, <2>1 DEF RequestOK, Waiting, Runs, Role
<1>12. Sending(r)'
  BY <1>4, <1>8 DEF RequestOK, Sending, Unsent, Keeps
<1>13. Taking(r)'
  <2>1. \A v \in Role : Fresh(r, v)' => ~ On(r, v)'
    BY <1>4, <1>8, <1>9, <1>10 DEF RequestOK, Taking, Fresh, Keeps
  <2>2. QED
    BY <1>1, <1>4, <1>5, <1>6, <1>8, <2>1 DEF RequestOK, Taking, Keeps
<1>14. Reading(r)' /\ Offering(r)'
  BY <1>1, <1>4, <1>5, <1>8 DEF RequestOK, Reading, Offering, Keeps, Hears
<1>15. Waiting(r)'
  BY <1>4, <1>11 DEF Waiting, InTime, Keeps
<1>16. Clearing(r)'
  BY <1>1, <1>4, <1>6, <1>8, <1>9, <1>11, ReserveOps
  DEF RequestOK, Clearing, InTime, KnownToP, KnownToD, Role, Keeps
<1>17. RequestOK(r)'
  BY <1>12, <1>13, <1>14, <1>15, <1>16 DEF RequestOK
<1>18. QED
  BY <1>1, <1>4, <1>7, <1>9, <1>10, <1>17, WorkFrame

LEMMA PrefillExportsKeeps ==
  ASSUME IInv, OwnerFrame, NEW r \in Request, PrefillExports(r)
  PROVE  IInv'
<1>1. /\ running["P"].request = r /\ "P" \in Role
      /\ running' = [running EXCEPT !["P"] = [op |-> "export", request |-> r]]
      /\ UNCHANGED <<answer, queue, used, resv, admitted, holds, kv, published>>
  BY DEF PrefillExports, Role
<1>2. Serves(r) /\ Keeps(r) /\ Pend(r)' = Pend(r) /\ answer'[r] = answer[r]
  <2>1. "ok" \in Statuses
    BY DEF Statuses
  <2>2. QED
    BY <1>1, <2>1, ServesInPlace
<1>3. \A s : Has(s)' = Has(s) /\ Runs(s)' = Runs(s)
  <2>1. \A v \in Role : running'[v].request = running[v].request
    BY <1>1 DEF IInv, Typed
  <2>2. QED
    BY <1>1, <2>1 DEF Has, Runs
<1>4. running' \in [Role -> Running]
  BY <1>1 DEF IInv, Typed, Running
<1>5. Touches(r)
  BY <1>1, <1>3, <1>4 DEF Touches, IInv, Typed, TypeOK
<1>6. RequestOK(r)'
  <2>1. Same(r) /\ RequestOK(r)
    BY <1>1, <1>2, <1>3 DEF Same, Keeps, IInv
  <2>2. QED
    BY <2>1, SameKeeps
<1>7. \A v \in Role : On(r, v)' <=> On(r, v)
  BY <1>1, <1>3 DEF On
<1>8. QED
  BY <1>1, <1>2, <1>5, <1>6, <1>7, WorkFrame

LEMMA PrefillHandsKeeps ==
  ASSUME IInv, OwnerFrame, NEW r \in Request, PrefillHands(r)
  PROVE  IInv'
<1> PICK status \in {"ok", "failed"} : Answers("pd_prefill", r, status)
  BY DEF PrefillHands
<1>1. /\ running["P"].request = r /\ "P" \in Role /\ status \in Statuses
      /\ running' = [running EXCEPT !["P"] = Idle]
      /\ holds' = holds \cup {r} /\ published' = published \cup {r}
      /\ Answers("pd_prefill", r, status)
      /\ UNCHANGED <<queue, used, resv, admitted, kv>>
  BY DEF PrefillHands, Role, Statuses
<1>2. /\ Serves(r) /\ Keeps(r) /\ Pend(r)' = Pend(r) /\ Hears(r, "pd_prefill", status)
  BY <1>1, ServesInPlace, AnswersEffect
<1>3. /\ running' \in [Role -> Running]
      /\ Runs(r)' = Runs(r) \ {"P"} /\ "P" \in Runs(r)
      /\ \A s \in Request \ {r} : Runs(s)' = Runs(s)
  BY <1>1, RunEnds
<1>4. \A s : Has(s)' = Has(s)
  BY <1>1 DEF Has
<1>5. Touches(r)
  BY <1>1, <1>3, <1>4 DEF Touches, IInv, Typed, TypeOK
<1>6. RequestOK(r) /\ Pend(r) \subseteq Ops
  BY DEF IInv, Pend
<1>7. On(r, "P") /\ \A v \in Role : On(r, v)' <=> On(r, v)
  BY <1>1, <1>3, <1>4 DEF On
<1>8. InTime(r) => Pend(r) = {} /\ stage[r] = "pd_prefill" /\ Runs(r)' = {}
  <2>1. InTime(r) => Pend(r) = {} /\ stage[r] = "pd_prefill"
    BY <1>3, <1>6 DEF RequestOK, Waiting, Taking
  <2>2. QED
    BY <1>3, <1>6, <2>1 DEF RequestOK, Waiting, Runs, Role
<1>9. Sending(r)'
  BY <1>2, <1>6 DEF RequestOK, Sending, Unsent, Keeps
<1>10. Taking(r)'
  <2>1. \A v \in Role : Fresh(r, v)' => ~ On(r, v)'
    BY <1>2, <1>6, <1>7 DEF RequestOK, Taking, Fresh, Keeps
  <2>2. QED
    BY <1>1, <1>2, <1>3, <1>4, <1>6, <2>1 DEF RequestOK, Taking, Keeps
<1>11. Reading(r)' /\ Offering(r)'
  BY <1>1, <1>2, <1>3, <1>6 DEF RequestOK, Taking, Reading, Offering, Keeps, Hears
<1>12. Waiting(r)'
  BY <1>2, <1>8 DEF Waiting, InTime, Keeps
<1>13. Clearing(r)'
  BY <1>1, <1>2, <1>4, <1>6, <1>8, ReserveOps
  DEF RequestOK, Clearing, InTime, KnownToP, KnownToD, Role, Keeps
<1>14. RequestOK(r)'
  BY <1>9, <1>10, <1>11, <1>12, <1>13 DEF RequestOK
<1>15. QED
  BY <1>1, <1>2, <1>5, <1>7, <1>14, WorkFrame

-----------------------------------------------------------------------------
(* The owner threads: decode. *)

LEMMA DecodeBeginsKeeps ==
  ASSUME IInv, OwnerFrame, NEW r \in Request, DecodeBegins(r)
  PROVE  IInv'
<1> DEFINE op == "pd_decode"
<1>1. /\ Takes(RoleOf(op), op, r) /\ op \in Ops /\ RoleOf(op) = "D"
      /\ r \in resv["D"] /\ resv' = [resv EXCEPT !["D"] = @ \ {r}]
      /\ UNCHANGED <<admitted, holds, kv, published>>
      /\ "failed" \in Statuses /\ "D" \in Role
  BY OpRoles DEF DecodeBegins, ConsumePDReservation, Statuses, Role
<1>2. RequestOK(r) /\ Pend(r) \subseteq Ops
  BY DEF IInv, Pend
<1>3. /\ resv' \in [Role -> SUBSET Request] /\ Has(r)' = Has(r) \ {"D"} /\ "D" \in Has(r)
      /\ \A s \in Request \ {r} : Has(s)' = Has(s)
  BY <1>1 DEF Has, IInv, Typed
<1>4. CASE Subtract("D", r) /\ Answers(op, r, "failed") /\ UNCHANGED running
  <2>1. /\ Serves(r) /\ Keeps(r) /\ op \in Pend(r) /\ Pend(r)' = Pend(r) \ {op}
        /\ "D" \notin Runs(r) /\ Hears(r, op, "failed")
    <3> HIDE DEF op
    <3>1. QED
      BY <1>1, <1>4, ServesEffect, AnswersEffect DEF OwnerFrame
  <2>2. \A s : Runs(s)' = Runs(s)
    BY <1>4 DEF Runs
  <2>3. Touches(r)
    BY <1>1, <1>3, <1>4, <2>2 DEF Touches, IInv, Typed, TypeOK
  <2>4. On(r, "D") /\ ~ On(r, "D")'
    BY <1>1, <1>2, <1>3, <2>1, <2>2 DEF On
  <2>5. \A v \in Role \ {"D"} : On(r, v)' <=> On(r, v)
    BY <1>1, <1>3, <2>2 DEF On
  <2>6. InTime(r) => Pend(r) = {op} /\ stage[r] = op /\ answer[r] = "none" /\ Runs(r) = {}
    <3>1. InTime(r) => Pend(r) = {op} /\ stage[r] = op /\ answer[r] = "none"
      BY <1>2, <2>1 DEF RequestOK, Waiting
    <3>2. QED
      BY <1>2, <2>1, <3>1 DEF RequestOK, Waiting, Runs, Role
  <2>7. Sending(r)'
    BY <1>2, <2>1 DEF RequestOK, Sending, Unsent, Keeps
  <2>8. Taking(r)'
    <3>1. \A v \in Role : Fresh(r, v)' => ~ On(r, v)'
      BY <1>2, <2>1, <2>4, <2>5 DEF RequestOK, Taking, Fresh, Keeps
    <3>2. QED
      BY <1>1, <1>2, <1>3, <2>1, <2>2, <3>1 DEF RequestOK, Taking, Keeps
  <2>9. Reading(r)' /\ Offering(r)'
    BY <1>1, <1>2, <2>1, <2>2 DEF RequestOK, Reading, Offering, Keeps, Hears
  <2>10. Waiting(r)'
    BY <2>1, <2>2, <2>6 DEF Waiting, InTime, Keeps
  <2>11. Clearing(r)'
    BY <1>1, <1>2, <1>3, <2>1, <2>2, <2>4, <2>5, <2>6, ReserveOps
    DEF RequestOK, Clearing, InTime, KnownToP, KnownToD, Role, Keeps, Hears
  <2>12. RequestOK(r)'
    BY <2>7, <2>8, <2>9, <2>10, <2>11 DEF RequestOK
  <2>13. QED
    BY <1>1, <1>4, <2>1, <2>3, <2>4, <2>5, <2>12, WorkFrame
<1>5. CASE /\ r \in published
           /\ running' = [running EXCEPT !["D"] = [op |-> "decode", request |-> r]]
           /\ UNCHANGED <<answer, used>>
  <2>1. /\ Serves(r) /\ Keeps(r) /\ op \in Pend(r) /\ Pend(r)' = Pend(r) \ {op}
        /\ "D" \notin Runs(r) /\ answer'[r] = answer[r]
    <3> HIDE DEF op
    <3>1. QED
      BY <1>1, <1>5, ServesEffect DEF OwnerFrame
  <2>2. running["D"] = Idle
    BY <1>1 DEF Takes
  <2>3. /\ running' \in [Role -> Running] /\ Runs(r)' = Runs(r) \cup {"D"}
        /\ \A s \in Request \ {r} : Runs(s)' = Runs(s)
    BY <1>1, <1>5, <2>2, RunStarts
  <2>4. Touches(r)
    BY <1>1, <1>3, <2>3 DEF Touches, IInv, Typed, TypeOK
  <2>5. On(r, "D") /\ \A v \in Role : On(r, v)' <=> On(r, v)
    BY <1>1, <1>3, <2>3 DEF On
  <2>6. InTime(r) => Pend(r) = {op} /\ stage[r] = op /\ answer[r] = "none" /\ Runs(r) = {}
    <3>1. InTime(r) => Pend(r) = {op} /\ stage[r] = op /\ answer[r] = "none"
      BY <1>2, <2>1 DEF RequestOK, Waiting
    <3>2. QED
      BY <1>2, <2>1, <3>1 DEF RequestOK, Waiting, Runs, Role
  <2>7. Sending(r)'
    BY <1>2, <2>1 DEF RequestOK, Sending, Unsent, Keeps
  <2>8. Taking(r)'
    <3>1. \A v \in Role : Fresh(r, v)' => ~ On(r, v)'
      BY <1>2, <2>1, <2>5 DEF RequestOK, Taking, Fresh, Keeps
    <3>2. stage[r] \notin Ahead(op)
      BY <1>2, <2>1 DEF RequestOK, Sending, Unsent
    <3>3. QED
      BY <1>1, <1>2, <1>3, <2>1, <2>3, <3>1, <3>2 DEF RequestOK, Taking, Keeps
  <2>9. Reading(r)' /\ Offering(r)'
    <3>1. r \in holds
      BY <1>5 DEF IInv, Typed
    <3>2. QED
      BY <1>1, <1>2, <2>1, <2>3, <3>1 DEF RequestOK, Reading, Offering, Keeps
  <2>10. Waiting(r)'
    BY <2>1, <2>3, <2>6 DEF Waiting, InTime, Keeps
  <2>11. Clearing(r)'
    BY <1>1, <1>2, <1>3, <2>1, <2>3, <2>5, <2>6, ReserveOps
    DEF RequestOK, Clearing, InTime, KnownToP, KnownToD, Role, Keeps
  <2>12. RequestOK(r)'
    BY <2>7, <2>8, <2>9, <2>10, <2>11 DEF RequestOK
  <2>13. QED
    BY <1>1, <1>5, <2>1, <2>4, <2>5, <2>12, WorkFrame
<1>6. QED
  BY <1>4, <1>5 DEF DecodeBegins

LEMMA DecodeEndsKeeps ==
  ASSUME IInv, OwnerFrame, NEW r \in Request, DecodeEnds(r)
  PROVE  IInv'
<1>1. /\ running["D"].request = r /\ Subtract("D", r) /\ "D" \in Role
      /\ running' = [running EXCEPT !["D"] = Idle]
      /\ UNCHANGED <<queue, resv, admitted, holds, kv, published>>
  BY DEF DecodeEnds, Role
<1>2. PICK status \in {"ok", "failed", "cancelled", "deadline"} :
        Answers("pd_decode", r, status)
  BY DEF DecodeEnds
<1>3. status \in Statuses
  BY DEF Statuses
<1>4. /\ Serves(r) /\ Keeps(r) /\ Pend(r)' = Pend(r) /\ Hears(r, "pd_decode", status)
  BY <1>1, <1>2, <1>3, ServesInPlace, AnswersEffect
<1>5. /\ running' \in [Role -> Running]
      /\ Runs(r)' = Runs(r) \ {"D"} /\ "D" \in Runs(r)
      /\ \A s \in Request \ {r} : Runs(s)' = Runs(s)
  BY <1>1, RunEnds
<1>6. \A s : Has(s)' = Has(s)
  BY <1>1 DEF Has
<1>7. Touches(r)
  BY <1>1, <1>5, <1>6 DEF Touches, IInv, Typed, TypeOK
<1>8. RequestOK(r) /\ Pend(r) \subseteq Ops
  BY DEF IInv, Pend
<1>9. "D" \notin Has(r) /\ On(r, "D") /\ ~ On(r, "D")'
  BY <1>1, <1>5, <1>6, <1>8 DEF RequestOK, Taking, On
<1>10. \A v \in Role \ {"D"} : On(r, v)' <=> On(r, v)
  BY <1>1, <1>5, <1>6 DEF On
<1>11. "pd_decode" \notin Pend(r)
  BY <1>5, <1>8 DEF RequestOK, Taking
<1>12. InTime(r) => Pend(r) = {} /\ stage[r] = "pd_decode" /\ Runs(r)' = {}
  <2>1. InTime(r) => Pend(r) = {} /\ stage[r] = "pd_decode"
    BY <1>5, <1>8, <1>11 DEF RequestOK, Waiting
  <2>2. QED
    BY <1>5, <1>8, <2>1 DEF RequestOK, Waiting, Runs, Role
<1>13. Sending(r)'
  BY <1>4, <1>8 DEF RequestOK, Sending, Unsent, Keeps
<1>14. Taking(r)'
  <2>1. \A v \in Role : Fresh(r, v)' => ~ On(r, v)'
    BY <1>4, <1>8, <1>9, <1>10 DEF RequestOK, Taking, Fresh, Keeps
  <2>2. QED
    BY <1>1, <1>4, <1>5, <1>6, <1>8, <2>1 DEF RequestOK, Taking, Keeps
<1>15. Reading(r)' /\ Offering(r)'
  BY <1>1, <1>4, <1>5, <1>8, <1>11 DEF RequestOK, Reading, Offering, Keeps, Hears
<1>16. Waiting(r)'
  BY <1>4, <1>12 DEF Waiting, InTime, Keeps
<1>17. Clearing(r)'
  BY <1>1, <1>4, <1>6, <1>8, <1>9, <1>10, <1>12, ReserveOps
  DEF RequestOK, Clearing, InTime, KnownToP, KnownToD, Role, Keeps
<1>18. RequestOK(r)'
  BY <1>13, <1>14, <1>15, <1>16, <1>17 DEF RequestOK
<1>19. QED
  BY <1>1, <1>4, <1>7, <1>9, <1>10, <1>18, WorkFrame

-----------------------------------------------------------------------------
(* The invariant is inductive. *)

LEMMA InitIInv == Init => IInv
<1> SUFFICES ASSUME Init
             PROVE  IInv
  OBVIOUS
<1>1. \A r \in Request : Pend(r) = {} /\ Has(r) = {} /\ Runs(r) = {}
  <2>1. \A w \in Role : queue[w] = <<>> /\ resv[w] = {} /\ running[w].request = "none"
    BY DEF Init, Idle
  <2>2. \A op : RoleOf(op) \in Role
    BY DEF RoleOf, Role
  <2>3. \A op, c : ~ Entry(queue[RoleOf(op)], c)
    BY <2>1, <2>2 DEF Entry
  <2>4. "none" \notin Request
    BY RoleAssumption DEF RoleAssumption
  <2>5. QED
    BY <2>1, <2>3, <2>4 DEF Pend, Has, Runs
<1>2. Typed
  <2>1. queue \in [Role -> Seq([op : Ops, request : Request])]
    BY DEF Init
  <2>2. \A w \in Role : Len(queue[w]) <= QueueCapacity
    BY RoleAssumption DEF Init, RoleAssumption
  <2>3. used \in [Role -> Nat] /\ \A w \in Role : used[w] \in 0..Capacity[w]
    BY RoleAssumption DEF Init, RoleAssumption
  <2>4. running \in [Role -> Running]
    BY DEF Init, Running
  <2>5. /\ resv \in [Role -> SUBSET Request] /\ cancelled \in [Role -> SUBSET Request]
        /\ telling \in [Request -> {<<>>, <<"D">>, <<"P", "D">>}]
        /\ offered \cup admitted \cup holds \cup kv \cup published \subseteq Request
        /\ published = holds
    BY DEF Init
  <2>6. /\ stage \in [Request -> Stages] /\ answer \in [Request -> Statuses]
        /\ reserved \in [Request -> SUBSET Role] /\ outcome \in [Request -> Outcomes]
        /\ \A f \in {handoff, clean, late, flagged} : f \in [Request -> BOOLEAN]
    BY DEF Init, Stages, Statuses, Outcomes
  <2>7. QED
    BY <2>1, <2>2, <2>3, <2>4, <2>5, <2>6 DEF Typed, TypeOK
<1>3. QueueOK
  BY DEF Init, QueueOK, Distinct, InOrder, Role
<1>4. BudgetOK
  <2>1. \A w \in Role : Taken(w) = {}
    BY <1>1 DEF Init, Taken, Busy, Runs
  <2>2. IsFiniteSet({}) /\ \A f : SumFunctionOnSet(f, {}) = 0
    BY FS_EmptySet, SumUnfolds
  <2>3. \A w \in Role : used[w] = 0
    BY DEF Init
  <2>4. QED
    BY <2>1, <2>2, <2>3 DEF BudgetOK
<1>5. ASSUME NEW r \in Request
      PROVE  RequestOK(r)
  <2>1. /\ stage[r] = "new" /\ reserved[r] = {} /\ ~ handoff[r]
        /\ r \notin holds /\ r \notin kv
    BY DEF Init
  <2>2. Sending(r)
    BY <1>1, <2>1 DEF Sending
  <2>3. Taking(r)
    BY <1>1, <2>1 DEF Taking, On
  <2>4. Reading(r) /\ Offering(r) /\ Waiting(r)
    BY <1>1, <2>1 DEF Reading, Offering, Waiting
  <2>5. Clearing(r)
    BY <1>1, <2>1 DEF Clearing, On
  <2>6. QED
    BY <2>2, <2>3, <2>4, <2>5 DEF RequestOK
<1>6. QED
  BY <1>2, <1>3, <1>4, <1>5 DEF IInv

LEMMA NextKeeps ==
  ASSUME IInv, [Next]_vars
  PROVE  IInv'
<1>1. ASSUME NEW r \in Request, Submit(r) \/ SubmitStep(r)
      PROVE  IInv'
  BY <1>1, SubmitKeeps, EncodedKeeps, VisionFailsKeeps, ProbedKeeps, DecodeReservedKeeps,
     PrefillReservedKeeps, PrefilledKeeps, DecodedKeeps, RefusedKeeps, TimesOutKeeps,
     ReclaimKeeps, ReclaimedKeeps DEF SubmitStep
<1>2. ASSUME NEW r \in Request, Cancel(r) \/ CancelReaches(r) \/ DeadlinePasses(r)
      PROVE  IInv'
  BY <1>2, CancelKeeps, CancelReachesKeeps, DeadlinePassesKeeps
<1>3. ASSUME NEW w \in Role, OwnerStep(w)
      PROVE  IInv'
  <2>1. UNCHANGED <<stage, reserved, handoff, outcome, clean, offered, clientVars>>
    BY <1>3 DEF OwnerStep
  <2>2. PICK r \in Request :
          \/ PDReserve(w, r) \/ PDUnreserve(w, r)
          \/ Probe(r) \/ PrefillTurnedAway(r) \/ PrefillBegins(r)
          \/ PrefillThrows(r) \/ PrefillExports(r) \/ PrefillHands(r) \/ PDRelease(r)
          \/ DecodeTurnedAway(r) \/ DecodeBegins(r) \/ DecodeEnds(r)
    BY <1>3 DEF OwnerStep
  <2>3. UNCHANGED cancelled
    BY <2>2
    DEF PDReserve, PDUnreserve, Probe, PrefillTurnedAway, PrefillBegins, PrefillThrows,
                PrefillExports, PrefillHands, PDRelease, DecodeTurnedAway, DecodeBegins,
                DecodeEnds, roleVars
  <2>4. OwnerFrame
    BY <2>1, <2>3 DEF OwnerFrame
  <2>5. QED
    BY <2>2, <2>4, PDReserveKeeps, PDUnreserveKeeps, ProbeKeeps, PrefillTurnedAwayKeeps,
       PrefillBeginsKeeps, PrefillThrowsKeeps, PrefillExportsKeeps, PrefillHandsKeeps,
       PDReleaseKeeps, DecodeTurnedAwayKeeps, DecodeBeginsKeeps, DecodeEndsKeeps
<1>4. CASE UNCHANGED vars
  BY <1>4, ClientKeeps DEF vars, clientVars, roleVars, IInv, Typed, TypeOK
<1>5. QED
  BY <1>1, <1>2, <1>3, <1>4 DEF Next

LEMMA IInvImplies == IInv => TypeOK /\ BudgetExact /\ SourceHeld /\ NothingLeft
<1> SUFFICES ASSUME IInv
             PROVE  TypeOK /\ BudgetExact /\ SourceHeld /\ NothingLeft
  OBVIOUS
<1>1. TypeOK
  BY DEF IInv, Typed
<1>2. BudgetExact
  <2>1. SUFFICES ASSUME NEW w \in Role
                 PROVE  LET kept == IF w = "P" THEN holds ELSE {} IN
                        /\ used[w] = SumFunctionOnSet(Demand[w], resv[w] \cup Busy(w) \cup kept)
                        /\ resv[w] \cap Busy(w) = {} /\ (resv[w] \cup Busy(w)) \cap kept = {}
    BY DEF BudgetExact
  <2>2. used[w] = SumFunctionOnSet(Demand[w],
                                   resv[w] \cup Busy(w) \cup (IF w = "P" THEN holds ELSE {}))
    BY DEF IInv, BudgetOK, Taken
  <2>3. \A r \in Request : ~ (r \in resv[w] /\ r \in Busy(w))
    BY DEF IInv, RequestOK, Taking, Has, Runs, Busy
  <2>4. \A r \in Request : w = "P" /\ r \in holds => r \notin resv[w] \cup Busy(w)
    BY DEF IInv, RequestOK, Taking, Has, Runs, Busy
  <2>5. holds \subseteq Request /\ Busy(w) \subseteq Request
    BY DEF IInv, Typed, TypeOK, Busy
  <2>6. QED
    BY <2>2, <2>3, <2>4, <2>5
<1>3. SourceHeld
  BY DEF IInv, Typed, RequestOK, Taking, Reading, SourceHeld, Busy, Runs, Role
<1>4. NothingLeft
  <2>1. SUFFICES ASSUME NEW r \in Request, stage[r] = "done", clean[r], ~ late[r]
                 PROVE  /\ r \notin holds \cup kv \cup published \cup resv["P"] \cup Busy("P")
                                      \cup Busy("D")
                        /\ r \in resv["D"] => r \in offered /\ outcome[r] # "finished"
    BY DEF NothingLeft
  <2>2. InTime(r) /\ RequestOK(r) /\ published = holds
    BY <2>1 DEF InTime, IInv, Typed
  <2>3. ~ KnownToP(r) /\ (KnownToD(r) => r \in offered /\ outcome[r] # "finished")
    BY <2>1, <2>2 DEF RequestOK, Sending, KnownToP, KnownToD
  <2>4. "P" \notin Runs(r) /\ "D" \notin Runs(r)
    BY <2>1, <2>2 DEF RequestOK, Waiting
  <2>5. QED
    BY <2>2, <2>3, <2>4 DEF RequestOK, Clearing, On, Has, Runs, Busy, Role
<1>5. QED
  BY <1>1, <1>2, <1>3, <1>4

-----------------------------------------------------------------------------
(* The theorems. *)

LEMMA Inductive == Spec => []IInv
<1>1. Init => IInv
  BY InitIInv
<1>2. IInv /\ [Next]_vars => IInv'
  BY NextKeeps
<1>3. QED
  BY <1>1, <1>2, PTL DEF Spec

\* Every variable has its type: no role takes more of its budget than it has,
\* and no queue is longer than the role allows.
THEOREM TypeCorrect == Spec => []TypeOK
<1>1. IInv => TypeOK
  BY IInvImplies
<1>2. QED
  BY <1>1, Inductive, PTL

\* The budget of a role is what its reservations, its running command and its
\* handoffs have taken, each once.
THEOREM BudgetIsExact == Spec => []BudgetExact
<1>1. IInv => BudgetExact
  BY IInvImplies
<1>2. QED
  BY <1>1, Inductive, PTL

\* D reads the pages of a handoff only while P holds them, unless the reclaim
\* of the request has recorded an error.
THEOREM SourceIsHeld == Spec => []SourceHeld
<1>1. IInv => SourceHeld
  BY IInvImplies
<1>2. QED
  BY <1>1, Inductive, PTL

\* A submit that was in time and reclaimed without an error has left nothing,
\* but for its reservation on D if it has sent its decode and got an error for it.
THEOREM NothingIsLeft == Spec => []NothingLeft
<1>1. IInv => NothingLeft
  BY IInvImplies
<1>2. QED
  BY <1>1, Inductive, PTL

=============================================================================
