--------------------------- MODULE ContentRegistry ---------------------------
(***************************************************************************)
(* data::ContentRegistry over data::LocalDataRuntime: the metadata of the  *)
(* data service.  A producer reserves an object, seals it under an         *)
(* identity (kind, content and representation), and drops its reference; a *)
(* consumer leases what is published under an identity; a withdrawn object *)
(* lives until its last lease.  One mutex serialises the operations, so    *)
(* each is a function from the registry to its answer: the registry it     *)
(* leaves, a status and a value.  The three kinds of lease only differ in  *)
(* which counter they use; refs is their sum.                              *)
(*                                                                         *)
(* Where the code calls std::terminate, or lets the exception of map::at   *)
(* leave a worker thread, the process is gone: the answer is Terminated.   *)
(***************************************************************************)
EXTENDS DataProtocol, FiniteSets, Functions

CONSTANTS
  CapacityBytes,    \* of stored objects
  CapacityObjects,
  CapacityLeases

ASSUME CapacityAssumption ==
  CapacityBytes \in Nat /\ CapacityObjects \in Nat /\ CapacityLeases \in Nat

\* A registry as the service incarnation inc creates it.
FreshRegistry(inc) ==
  [inc |-> inc, down |-> FALSE,
   objects |-> <<>>, operations |-> <<>>, canonical |-> <<>>,
   leases |-> <<>>, acquires |-> <<>>,
   nextObject |-> 1, nextLease |-> 1, bytes |-> 0, quarantined |-> 0]

Terminated(s) == Refuse([s EXCEPT !.down = TRUE], "terminated")

HandleOf(s, id) == [inc |-> s.inc, id |-> id]
RefOf(s, id) ==
  [inc |-> s.inc, id |-> id, identity |-> s.objects[id].identity]

\* find_current.  Ids are not used twice, so a generation is never stale.
HandleStatus(s, h) ==
  IF h.inc # s.inc THEN "owner_restarted"
  ELSE IF h.id \notin DOMAIN s.objects THEN "unknown_object" ELSE "ok"

\* Mutant of CollectIfUnused: the leases are not looked at.
CollectUnproduced(s, id) ==
  LET o == s.objects[id] IN
  IF ~ o.producer /\ o.state \in {"reserved", "retired"}
  THEN [s EXCEPT !.bytes = @ - o.storage, !.operations = Without(@, o.op),
                 !.objects = Without(@, id)]
  ELSE s

CollectIfUnused(s, id) ==
  LET o == s.objects[id] IN
  IF o.refs = 0 /\ ~ o.producer /\ o.state \in {"reserved", "retired"}
  THEN [s EXCEPT !.bytes = @ - o.storage, !.operations = Without(@, o.op),
                 !.objects = Without(@, id)]
  ELSE s

-----------------------------------------------------------------------------
(* Producers. *)

\* An operation that is known answers with the object it reserved.
Reserve(s, op, identity, bytes) ==
  LET id == s.nextObject
      new == [op |-> op, identity |-> identity, state |-> "reserved",
              storage |-> bytes, sum |-> Nothing, winner |-> 0,
              refs |-> 0, producer |-> TRUE]
  IN IF op.inc # s.inc THEN Refuse(s, "invalid_argument")
     ELSE IF op \in DOMAIN s.operations
     THEN IF s.operations[op] \in DOMAIN s.objects
          THEN Reply(s, "ok", HandleOf(s, s.operations[op])) ELSE Terminated(s)
     ELSE IF \/ Cardinality(DOMAIN s.objects) >= CapacityObjects
             \/ bytes > CapacityBytes - s.bytes
     THEN Refuse(s, "capacity_exhausted")
     ELSE Reply([s EXCEPT !.objects = With(@, id, new), !.bytes = @ + bytes,
                          !.operations = With(@, op, id), !.nextObject = id + 1],
                "ok", HandleOf(s, id))

Publish(s, id, sum) ==
  LET t == [s EXCEPT !.objects[id].state = "sealed", !.objects[id].sum = sum,
                     !.canonical = With(@, s.objects[id].identity, id)]
  IN Reply(t, "ok", RefOf(t, id))

\* The identity is published with other bytes.
Quarantine(s, id, sum) ==
  Refuse([s EXCEPT !.objects[id].state = "quarantined", !.objects[id].sum = sum,
                   !.quarantined = @ + s.objects[id].storage], "checksum_mismatch")

\* Mutant of YieldTo: the storage is given back but not emptied.
YieldKeepingStorage(s, id, winner) ==
  LET t == [s EXCEPT !.objects[id].state = "retired", !.objects[id].winner = winner,
                     !.bytes = @ - s.objects[id].storage]
  IN Reply(CollectIfUnused(t, id), "ok", RefOf(s, winner))

\* The identity is published with the same bytes: that object is used.
YieldTo(s, id, winner) ==
  LET t == [s EXCEPT !.objects[id].state = "retired", !.objects[id].winner = winner,
                     !.objects[id].storage = 0, !.bytes = @ - s.objects[id].storage]
  IN Reply(CollectIfUnused(t, id), "ok", RefOf(s, winner))

\* The first seal of a reserved object.
Settle(s, id, sum) ==
  LET identity == s.objects[id].identity IN
  IF identity \notin DOMAIN s.canonical THEN Publish(s, id, sum)
  ELSE IF s.canonical[identity] \notin DOMAIN s.objects THEN Terminated(s)
  ELSE IF s.objects[s.canonical[identity]].sum # sum THEN Quarantine(s, id, sum)
  ELSE YieldTo(s, id, s.canonical[identity])

\* seal: begin_write answers already_sealed for all but a reserved object, and
\* the runtime then answers for what the object has become.
Seal(s, h, sum) ==
  LET o == s.objects[h.id] IN
  IF HandleStatus(s, h) # "ok" THEN Refuse(s, HandleStatus(s, h))
  ELSE CASE o.state = "reserved" -> Settle(s, h.id, sum)
         [] o.state = "sealed" -> Reply(s, "ok", RefOf(s, h.id))
         [] o.state = "retired" /\ o.winner # 0 ->
              IF o.winner \in DOMAIN s.objects
              THEN Reply(s, "ok", RefOf(s, o.winner)) ELSE Terminated(s)
         [] OTHER -> Refuse(s, "quarantined")

ReleaseProducer(s, h) ==
  LET o == s.objects[h.id]
      t == [s EXCEPT !.objects[h.id].producer = FALSE,
                     !.objects[h.id].state = IF @ = "reserved" THEN "retired" ELSE @]
  IN IF HandleStatus(s, h) # "ok" THEN Refuse(s, HandleStatus(s, h))
     ELSE Refuse(CollectIfUnused(t, h.id), "ok")

Withdraw(s, ref) ==
  LET current == ref.identity \in DOMAIN s.canonical /\ s.canonical[ref.identity] = ref.id
      t == [s EXCEPT !.canonical = Without(@, ref.identity),
                     !.objects[ref.id].state = "retired"]
  IN IF HandleStatus(s, ref) # "ok" THEN Refuse(s, HandleStatus(s, ref))
     ELSE IF current THEN Refuse(CollectIfUnused(t, ref.id), "ok")
     ELSE Refuse(s, IF s.objects[ref.id].state = "retired"
                    THEN "ok" ELSE "unknown_object")

-----------------------------------------------------------------------------
(* Consumers. *)

TokenOf(s, op, l) == [inc |-> s.inc, consumer |-> op.consumer, lease |-> l]

\* A lease on what is published under the identity.
NewLease(s, op, identity) ==
  LET id == s.canonical[identity]
      l == s.nextLease
  IN IF Cardinality(DOMAIN s.leases) >= CapacityLeases
     THEN Refuse(s, "capacity_exhausted")
     ELSE IF identity \notin DOMAIN s.canonical THEN Refuse(s, "not_ready")
     ELSE IF id \notin DOMAIN s.objects THEN Terminated(s)
     ELSE IF s.objects[id].state # "sealed" THEN Refuse(s, "not_ready")
     ELSE Reply([s EXCEPT !.objects[id].refs = @ + 1, !.nextLease = l + 1,
                          !.leases = With(@, l, [op |-> op, object |-> id]),
                          !.acquires = With(@, op, l)],
                "ok", TokenOf(s, op, l))

\* Mutant of Acquire: a known operation is served again.
AcquireAgain(s, op, identity) == NewLease(s, op, identity)

Acquire(s, op, identity) ==
  IF op \in DOMAIN s.acquires
  THEN IF s.acquires[op] \in DOMAIN s.leases
       THEN Reply(s, "ok", TokenOf(s, op, s.acquires[op]))
       ELSE Refuse(s, "invalid_argument")
  ELSE NewLease(s, op, identity)

\* The end of a DataLease, release_consumer.
DropLease(s, l) ==
  LET id == s.leases[l].object
      t == [s EXCEPT !.leases = Without(@, l), !.acquires = Without(@, s.leases[l].op),
                     !.objects[id].refs = @ - 1]
  IN IF id \notin DOMAIN s.objects \/ s.objects[id].refs = 0
     THEN Terminated(s) ELSE Refuse(CollectIfUnused(t, id), "ok")

\* Mutant of Release: the incarnation of the service is not compared.
ReleaseAnyIncarnation(s, token) ==
  LET l == token.lease IN
  IF l \notin DOMAIN s.leases THEN Refuse(s, "ok")
  ELSE IF s.leases[l].op.consumer # token.consumer THEN Refuse(s, "invalid_argument")
  ELSE DropLease(s, l)

Release(s, token) ==
  LET l == token.lease IN
  IF token.inc # s.inc THEN Refuse(s, "owner_restarted")
  ELSE IF l \notin DOMAIN s.leases THEN Refuse(s, "ok")
  ELSE IF s.leases[l].op.consumer # token.consumer THEN Refuse(s, "invalid_argument")
  ELSE DropLease(s, l)
=============================================================================
