------------------------------- MODULE IpcSlots -------------------------------
(***************************************************************************)
(* The slot pool of the node agent and the roles that use it.  A provider  *)
(* (prefill role, serving process) reserves slots, keeps its KV pages in   *)
(* them and publishes a handoff; a consumer (decode role) imports the      *)
(* handoff under a metadata lease of the data service, attaches to the     *)
(* provider's pages, reads them, detaches and drops the metadata lease.    *)
(* Requests may be served late and in any order, as in DataService.  The   *)
(* agent checks the metadata lease of an attach under the mutex of the     *)
(* registry and then serves it under the mutex of the pool: two steps.     *)
(* Any client may be killed; the agent does not notice.                    *)
(***************************************************************************)
EXTENDS SlotPool

CONSTANTS
  Provider, Consumer,
  Count,         \* slots each provider reserves
  MaxRestarts    \* bound: restarts of the agent

Client == Provider \cup Consumer
Calls == {"reserve_slots", "release_slots", "acquire_attach", "release_attach",
          "release_metadata"}

ASSUME ClientAssumption ==
  /\ Provider \cap Consumer = {} /\ Nothing \notin Client
  /\ Count \in [Provider -> 1..NumSlots]
  /\ Resent \subseteq Calls
  /\ MaxRestarts \in Nat

VARIABLES
  pool,       \* the pool of the running agent
  metadata,   \* consumers whose metadata lease the registry knows
  wire,       \* requests that are sent and not served
  validated,  \* attach requests between the two mutexes
  client,     \* of each client: call it waits for, attempt, argument, what it holds
  lost        \* clients that have given up on an answer, or were killed

vars == <<pool, metadata, wire, validated, client, lost>>

Init ==
  /\ pool = FreshPool(1)
  /\ metadata = {} /\ wire = {} /\ validated = {} /\ lost = {}
  /\ client = [c \in Client |-> Resting("start", Nothing)]

-----------------------------------------------------------------------------
(* The clients. *)

\* The client k after its call has returned.
Returned(k, status, value) ==
  IF Repeats(k, status) THEN Again(k)
  ELSE CASE k.at \in {"reserve_slots", "acquire_attach"} /\ status = "ok" ->
              Resting("hold", value)
         [] k.at = "reserve_slots" /\ status = "invalid_argument" ->
              Resting("rejected", Nothing)
         [] k.at = "acquire_attach" /\ status # "ok" -> Waiting("release_metadata", Nothing, Nothing)
         [] k.at = "release_attach" -> Waiting("release_metadata", Nothing, Nothing)
         [] OTHER -> Resting("done", Nothing)

\* Client c becomes k; what it waits for goes on the wire.
Becomes(c, k, pending) ==
  /\ client' = [client EXCEPT ![c] = k]
  /\ wire' = pending \cup Sent(c, k)

CallReserve(p) ==
  /\ client[p].at = "start"
  /\ Becomes(p, Waiting("reserve_slots", [consumer |-> p], Nothing), wire)
  /\ UNCHANGED <<pool, metadata, validated, lost>>

\* The role ends: its model and its mapping of the pool are gone.
CallRelease(p) ==
  /\ client[p].at = "hold"
  /\ Becomes(p, Waiting("release_slots", client[p].held.token, Nothing), wire)
  /\ UNCHANGED <<pool, metadata, validated, lost>>

\* The consumer leases the handoff provider p has published: p's grant, and the
\* slots of it the request's pages are in.
Import(c, p) ==
  /\ client[c].at = "start" /\ client[p].at = "hold"
  /\ client[p].held.token.inc = pool.inc
  /\ metadata' = metadata \cup {c}
  /\ \E pages \in SUBSET client[p].held.slots \ {{}} :
       Becomes(c, Waiting("acquire_attach",
                          [source |-> client[p].held.token, slots |-> pages], Nothing), wire)
  /\ UNCHANGED <<pool, validated, lost>>

\* Decoding is over; the page table no longer maps the provider's pages.
CallDetach(c) ==
  /\ client[c].at = "hold"
  /\ Becomes(c, Waiting("release_attach", client[c].held.token, Nothing), wire)
  /\ UNCHANGED <<pool, metadata, validated, lost>>

\* The deadline of transact has passed.
TimeOut(c) ==
  /\ IsWaiting(client[c])
  /\ Becomes(c, Returned(client[c], "not_ready", Nothing), wire)
  /\ lost' = lost \cup {c}
  /\ UNCHANGED <<pool, metadata, validated>>

\* The process of client c is killed: it gives nothing back.
Die(c) ==
  /\ client[c].at # "done"
  /\ client' = [client EXCEPT ![c] = Resting("done", Nothing)]
  /\ lost' = lost \cup {c}
  /\ UNCHANGED <<pool, metadata, wire, validated>>

-----------------------------------------------------------------------------
(* The agent. *)

\* The answer a to request r reaches its client, if that still waits for it.
Answered(r, a) ==
  IF Awaits(client[r.from], r)
  THEN Becomes(r.from, Returned(client[r.from], a.status, a.value), wire \ {r})
  ELSE wire' = wire \ {r} /\ UNCHANGED client

Operation(r) == [consumer |-> r.from]

ServePool(r) ==
  LET a == CASE r.call = "reserve_slots" -> ReserveSlots(pool, r.arg, Count[r.from])
             [] r.call = "release_slots" -> ReleaseSlots(pool, r.arg)
             [] r.call = "release_attach" -> ReleaseAttach(pool, r.arg)
  IN /\ r \in wire /\ r.call \in {"reserve_slots", "release_slots", "release_attach"}
     /\ pool' = a.state
     /\ Answered(r, a)
     /\ UNCHANGED <<metadata, validated, lost>>

ServeMetadata(r) ==
  /\ r \in wire /\ r.call = "release_metadata"
  /\ metadata' = metadata \ {r.from}
  /\ Answered(r, Refuse(pool, "ok"))
  /\ UNCHANGED <<pool, validated, lost>>

\* The first half of an attach: the grant is of this agent, and the registry
\* knows the metadata lease.
Validate(r) ==
  /\ r \in wire /\ r.call = "acquire_attach"
  /\ IF r.arg.source.inc = pool.inc /\ r.from \in metadata
     THEN /\ validated' = validated \cup {r} /\ wire' = wire \ {r}
          /\ UNCHANGED client
     ELSE Answered(r, Refuse(pool, "invalid_argument")) /\ UNCHANGED validated
  /\ UNCHANGED <<pool, metadata, lost>>

\* The second half, under the mutex of the pool.
Attach(r) ==
  LET a == AcquireAttach(pool, Operation(r), r.arg.source, r.arg.slots) IN
  /\ r \in validated
  /\ validated' = validated \ {r}
  /\ pool' = a.state
  /\ Answered(r, a)
  /\ UNCHANGED <<metadata, lost>>

\* The agent stops or dies; a new one creates another pool.
Restart ==
  /\ pool.inc <= MaxRestarts
  /\ pool' = FreshPool(pool.inc + 1)
  /\ metadata' = {} /\ wire' = {} /\ validated' = {}
  /\ UNCHANGED <<client, lost>>

Serve(r) == ServePool(r) \/ ServeMetadata(r) \/ Validate(r) \/ Attach(r)

Next ==
  \/ \E p \in Provider : CallReserve(p) \/ CallRelease(p)
  \/ \E c \in Consumer, p \in Provider : Import(c, p)
  \/ \E c \in Consumer : CallDetach(c)
  \/ \E c \in Client : TimeOut(c) \/ Die(c)
  \/ \E r \in wire \cup validated : Serve(r)
  \/ Restart

Spec == Init /\ [][Next]_vars

\* A worker thread serves a connection until it is answered, and a decode ends:
\* it has a deadline.
Fairness ==
  /\ \A c \in Client : WF_vars(\E r \in wire \cup validated : r.from = c /\ Serve(r))
  /\ \A c \in Consumer : WF_vars(CallDetach(c))

LiveSpec == Spec /\ Fairness
-----------------------------------------------------------------------------
(* Properties. *)

\* Every variable has its type; a grant has as many slots as were asked for.
TypeOK ==
  /\ pool.inc \in 1..MaxRestarts + 1
  /\ pool.owner \in [Slot -> 0..pool.nextGrant - 1]
  /\ \A g \in DOMAIN pool.grants :
       LET t == pool.grants[g] IN
       /\ g \in 1..pool.nextGrant - 1 /\ t.op.consumer \in Provider /\ t.attachRefs \in Nat
       /\ t.slots \subseteq Slot /\ Cardinality(t.slots) = Count[t.op.consumer]
  /\ \A a \in DOMAIN pool.attaches : pool.attaches[a].op.consumer \in Consumer
  /\ metadata \subseteq Consumer /\ lost \subseteq Client
  /\ \A r \in wire : r.from \in Client /\ r.call \in Calls
  /\ \A r \in validated : r.call = "acquire_attach"

\* Slots and grants agree: a slot names the grant it belongs to and every
\* grant its slots, so no slot is granted twice and none is lost.
SlotsPartitioned ==
  /\ \A n \in Slot : pool.owner[n] # 0 =>
       pool.owner[n] \in DOMAIN pool.grants /\ n \in pool.grants[pool.owner[n]].slots
  /\ \A g \in DOMAIN pool.grants : \A n \in pool.grants[g].slots : pool.owner[n] = g

\* An attach keeps its source grant and the grant's slots, also after the
\* provider has asked for the release; the grant counts its attaches.
AttachPinsSlots ==
  /\ \A a \in DOMAIN pool.attaches :
       LET t == pool.attaches[a] IN
       t.source \in DOMAIN pool.grants /\ t.slots \subseteq pool.grants[t.source].slots
  /\ \A g \in DOMAIN pool.grants : pool.grants[g].attachRefs =
       Cardinality({a \in DOMAIN pool.attaches : pool.attaches[a].source = g})

\* A retried attach never pins the grant twice.
OneLiveAttach ==
  \A a, b \in DOMAIN pool.attaches : pool.attaches[a].op = pool.attaches[b].op => a = b

\* The three maps of the pool say the same, in whatever order grants, attaches
\* and their releases are served, repeated or late.
PoolConsistent == SlotsPartitioned /\ AttachPinsSlots /\ OneLiveAttach

\* The grant a client reads or writes pages under.
GrantHeld(c) == IF c \in Provider THEN client[c].held.token ELSE client[c].held.source

\* No page changes hands under a client that maps it: while the agent lives,
\* the slots a client holds are those of one grant, and clients that hold a
\* slot in common hold it under the same grant.  A late release, a repeated
\* attach or a provider that leaves does not end this.
HeldSlotsExclusive ==
  LET Holder == {c \in Client : client[c].at = "hold" /\ GrantHeld(c).inc = pool.inc} IN
  /\ \A c \in Holder : \A n \in client[c].held.slots : pool.owner[n] = GrantHeld(c).lease
  /\ \A b, c \in Holder : GrantHeld(b) # GrantHeld(c) =>
       client[b].held.slots \cap client[c].held.slots = {}

\* Both: a slot belongs to the pool or to one grant, on either side.
SlotsExclusive == PoolConsistent /\ HeldSlotsExclusive

\* Only a client that gave up on an answer or was killed leaves a grant or an
\* attach behind: any other has the token in hand or on the wire, or its
\* released grant waits for attaches.
NothingStranded ==
  /\ \A g \in DOMAIN pool.grants :
       LET p == pool.grants[g].op.consumer
           token == TokenOf(pool, p, g)
       IN \/ p \in lost
          \/ client[p].at = "hold" /\ client[p].held.token = token
          \/ client[p].at = "release_slots" /\ client[p].arg = token
          \/ pool.grants[g].releaseRequested /\ pool.grants[g].attachRefs > 0
  /\ \A a \in DOMAIN pool.attaches :
       LET c == pool.attaches[a].op.consumer
           token == TokenOf(pool, c, a)
       IN \/ c \in lost
          \/ client[c].at = "hold" /\ client[c].held.token = token
          \/ client[c].at = "release_attach" /\ client[c].arg = token

\* The slots of a provider that leaves come back, however many consumers are
\* attached to them, unless it or a consumer gave up or was killed.
SlotsComeBack ==
  \A p \in Provider :
    client[p].at = "release_slots" ~>
      \/ ({p} \cup Consumer) \cap lost # {}
      \/ \A g \in DOMAIN pool.grants : pool.grants[g].op.consumer # p
=============================================================================
