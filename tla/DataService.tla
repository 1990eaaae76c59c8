----------------------------- MODULE DataService -----------------------------
(***************************************************************************)
(* The data service and its clients.  A request may be served after its    *)
(* client has given up on it, by any of the eight worker threads and in    *)
(* any order with the client's other requests.                             *)
(*                                                                         *)
(* A producer (the prefill role, put) pings, reserves, seals, drops its    *)
(* reference, and later withdraws what it published.  A consumer (the      *)
(* decode role) acquires a lease, uses it and releases it.  The service    *)
(* may be restarted; it comes back empty, under a new incarnation.         *)
(***************************************************************************)
EXTENDS ContentRegistry

CONSTANTS
  Producer, Consumer,
  Identity, Bytes, Sum,  \* of each producer's object: identity, size, checksum
  Wanted,                \* the identity each consumer asks for
  Process,               \* consumer incarnation of each consumer's DataClient
  MaxRestarts,           \* bound: restarts of the service
  Casts,                 \* bound: which clients take part, and from which incarnation on
  Impatient              \* bound: clients whose deadline may pass under a live service

Client == Producer \cup Consumer
Calls == {"reserve", "seal", "release_producer", "withdraw", "acquire", "release"}

\* Only acquire is repeated by the DataClient; a seal never is.
ASSUME ClientAssumption ==
  /\ Producer \cap Consumer = {} /\ Nothing \notin Client
  /\ Nothing \notin [inc : Nat, id : Nat, identity : Range(Identity)]
  /\ MaxRestarts \in Nat
  /\ Bytes \in [Producer -> Nat \ {0}]
  /\ DOMAIN Identity = Producer /\ DOMAIN Sum = Producer
  /\ DOMAIN Wanted = Consumer /\ DOMAIN Process = Consumer
  /\ Resent \subseteq Calls \ {"seal"} /\ Impatient \subseteq Client
  /\ Casts \subseteq [clients : SUBSET Client, inc : 1..MaxRestarts + 1]

VARIABLES
  registry,   \* the registry of the running service
  wire,       \* requests that are sent and not served
  client,     \* of each client: call it waits for, attempt, argument, what it holds
  lost        \* clients that have given up on an answer

vars == <<registry, wire, client, lost>>

\* The clients outside the cast have left.
Init ==
  \E cast \in Casts :
    /\ registry = FreshRegistry(cast.inc)
    /\ wire = {}
    /\ client = [c \in Client |->
                   Resting(IF c \in cast.clients THEN "start" ELSE "done", Nothing)]
    /\ lost = {}

-----------------------------------------------------------------------------
(* The clients. *)

\* The client k after its call has returned.  A producer drops its reference
\* whether or not the seal succeeded.
Returned(k, status, value) ==
  IF Repeats(k, status) THEN Again(k)
  ELSE CASE k.at = "reserve" /\ status = "ok" -> Waiting("seal", value, Nothing)
         [] k.at = "seal" -> Waiting("release_producer", k.arg,
                                     IF status = "ok" THEN value ELSE Nothing)
         [] k.at = "release_producer" /\ k.held # Nothing -> Resting("hold", k.held)
         [] k.at = "acquire" /\ status = "ok" -> Resting("hold", value)
         [] k.at = "release" /\ status = "ok" -> Resting("released", Nothing)
         [] OTHER -> Resting("done", Nothing)

\* Client c becomes k; what it waits for goes on the wire.
Becomes(c, k, pending) ==
  /\ client' = [client EXCEPT ![c] = k]
  /\ wire' = pending \cup Sent(c, k)

\* The producer learns the incarnation its operation id has to name.
Ping(p) ==
  /\ client[p].at = "start" /\ ~ registry.down
  /\ Becomes(p, Resting("pinged", registry.inc), wire)
  /\ UNCHANGED <<registry, lost>>

CallReserve(p) ==
  /\ client[p].at = "pinged"
  /\ Becomes(p, Waiting("reserve", [inc |-> client[p].held, producer |-> p], Nothing), wire)
  /\ UNCHANGED <<registry, lost>>

\* The handoff is over: PDRelease, or the end of the role.
CallWithdraw(p) ==
  /\ client[p].at = "hold"
  /\ Becomes(p, Waiting("withdraw", client[p].held, Nothing), wire)
  /\ UNCHANGED <<registry, lost>>

CallAcquire(c) ==
  /\ client[c].at = "start"
  /\ Becomes(c, Waiting("acquire", [consumer |-> Process[c], sequence |-> c], Nothing), wire)
  /\ UNCHANGED <<registry, lost>>

CallRelease(c) ==
  /\ client[c].at = "hold"
  /\ Becomes(c, Waiting("release", client[c].held, Nothing), wire)
  /\ UNCHANGED <<registry, lost>>

\* The deadline of transact has passed, or the connection has broken.
TimeOut(c) ==
  /\ IsWaiting(client[c])
  /\ c \in Impatient \/ registry.down \/ Sent(c, client[c]) \cap wire = {}
  /\ Becomes(c, Returned(client[c], "not_ready", Nothing), wire)
  /\ lost' = lost \cup {c}
  /\ UNCHANGED registry

-----------------------------------------------------------------------------
(* The service. *)

Answer(s, r) ==
  CASE r.call = "reserve" -> Reserve(s, r.arg, Identity[r.from], Bytes[r.from])
    [] r.call = "seal" -> Seal(s, r.arg, Sum[r.from])
    [] r.call = "release_producer" -> ReleaseProducer(s, r.arg)
    [] r.call = "withdraw" -> Withdraw(s, r.arg)
    [] r.call = "acquire" -> Acquire(s, r.arg, Wanted[r.from])
    [] r.call = "release" -> Release(s, r.arg)

\* A worker thread serves a request, whether or not its client still waits.
\* (An answer that is lost is a time-out before the request was served.)
Serve(r) ==
  LET a == Answer(registry, r) IN
  /\ ~ registry.down
  /\ registry' = a.state
  /\ IF Awaits(client[r.from], r) /\ ~ a.state.down
     THEN Becomes(r.from, Returned(client[r.from], a.status, a.value), wire \ {r})
     ELSE wire' = wire \ {r} /\ UNCHANGED client
  /\ UNCHANGED lost

\* The service is shut down, or dies, and a new one binds the endpoint.
Restart ==
  /\ registry.inc <= MaxRestarts
  /\ registry' = FreshRegistry(registry.inc + 1)
  /\ wire' = {}
  /\ UNCHANGED <<client, lost>>

Next ==
  \/ \E p \in Producer : Ping(p) \/ CallReserve(p) \/ CallWithdraw(p)
  \/ \E c \in Consumer : CallAcquire(c) \/ CallRelease(c)
  \/ \E c \in Client : TimeOut(c)
  \/ \E r \in wire : Serve(r)
  \/ Restart

Spec == Init /\ [][Next]_vars
-----------------------------------------------------------------------------
(* Properties. *)

Object == [op : [inc : Nat, producer : Producer], identity : Range(Identity),
           state : {"reserved", "sealed", "retired", "quarantined"},
           storage : Nat, sum : Range(Sum) \cup {Nothing}, winner : Nat,
           refs : Nat, producer : BOOLEAN]

\* Every variable has its type.
TypeOK ==
  /\ registry.inc \in 1..MaxRestarts + 1 /\ registry.down \in BOOLEAN
  /\ Range(registry.objects) \subseteq Object
  /\ registry.bytes \in Nat /\ registry.quarantined \in Nat
  /\ {r.from : r \in wire} \subseteq Client /\ {r.call : r \in wire} \subseteq Calls
  /\ \A c \in Client : client[c].at \in
       Calls \cup {"start", "pinged", "hold", "released", "done"}
  /\ lost \subseteq Client

\* No order of requests reaches std::terminate in release_consumer, or a
\* map::at whose key is gone: the service process survives its clients.
NeverTerminates == ~ registry.down

\* An object counts its leases, and is stored and complete while it has one,
\* whoever withdrew it and however often the acquire was sent: a repeated
\* acquire makes no second lease while the first one lives.
LeasePinsObject ==
  LET s == registry IN
  /\ \A id \in DOMAIN s.objects :
       s.objects[id].refs = Cardinality({l \in DOMAIN s.leases : s.leases[l].object = id})
  /\ \A l \in DOMAIN s.leases :
       /\ s.leases[l].object \in DOMAIN s.objects
       /\ s.objects[s.leases[l].object].state \in {"sealed", "retired"}
       /\ s.objects[s.leases[l].object].storage > 0
  /\ \A l, m \in DOMAIN s.leases : s.leases[l].op = s.leases[m].op => l = m

\* Producers of the same content converge: an identity names the one object
\* that is sealed for it, and every sealed object is named.
OnePublished ==
  LET s == registry IN
  /\ \A i \in DOMAIN s.canonical :
       /\ s.canonical[i] \in DOMAIN s.objects
       /\ s.objects[s.canonical[i]].identity = i
       /\ s.objects[s.canonical[i]].state = "sealed"
  /\ \A id \in DOMAIN s.objects : s.objects[id].state = "sealed" =>
       /\ s.objects[id].identity \in DOMAIN s.canonical
       /\ s.canonical[s.objects[id].identity] = id

\* bytes_used_ and quarantined_bytes_ are what the objects store, through
\* yielding, collection and quarantine, and stay within the capacity.
BytesExact ==
  LET s == registry
      Stored(S) == SumFunctionOnSet([id \in DOMAIN s.objects |-> s.objects[id].storage], S)
  IN /\ s.bytes = Stored(DOMAIN s.objects) /\ s.bytes <= CapacityBytes
     /\ s.quarantined =
          Stored({id \in DOMAIN s.objects : s.objects[id].state = "quarantined"})

\* All three: what the registry says of its content is what it stores and lends.
ContentExact == OnePublished /\ BytesExact /\ LeasePinsObject

\* A token is good for as long as its holder and the service both live: no
\* other client's release, late, repeated or from before a restart, ends it.
TokenHonoured ==
  \A c \in Consumer :
    client[c].at = "hold" /\ client[c].held.inc = registry.inc =>
      LET l == client[c].held.lease IN
      /\ l \in DOMAIN registry.leases
      /\ registry.leases[l].op.sequence = c
      /\ registry.objects[registry.leases[l].object].identity = Wanted[c]

\* What the registry keeps is wanted: only a client that gave up on an answer
\* leaves an object or a lease behind, or a conflict with published content,
\* which no request of the service ever reclaims.
NothingStranded ==
  LET s == registry IN
  /\ \A id \in DOMAIN s.objects :
       LET o == s.objects[id]
           p == o.op.producer
       IN \/ p \in lost \/ o.state = "quarantined" \/ o.refs > 0
          \/ client[p].at \in {"seal", "release_producer"}
          \/ client[p].at \in {"hold", "withdraw"} /\ o.state = "sealed"
  /\ \A l \in DOMAIN s.leases :
       LET c == s.leases[l].op.sequence IN
       \/ c \in lost
       \/ \E t \in {client[c].held, client[c].arg} :
            t = TokenOf(s, s.leases[l].op, l)

\* Both: what the clients hold is there, and what is there some client holds.
TokensAgree == TokenHonoured /\ NothingStranded
=============================================================================
