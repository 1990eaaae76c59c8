------------------------------- MODULE SlotPool -------------------------------
(***************************************************************************)
(* The CUDA IPC slot pool of the node agent: grants of slots to processes, *)
(* and attaches, by which another process may read slots of a grant.  A    *)
(* grant whose release was requested is collected when no attach refers to *)
(* it.  ipc_pool_mutex_ serialises the operations; each is a function from *)
(* the pool to the pool it leaves and its answer.                          *)
(***************************************************************************)
EXTENDS DataProtocol, FiniteSets

CONSTANT NumSlots    \* ipc_pool_num_blocks

ASSUME SlotAssumption == NumSlots \in Nat

Slot == 0..NumSlots - 1

\* A pool as the agent incarnation inc creates it; owner 0: the slot is free.
FreshPool(inc) ==
  [inc |-> inc, owner |-> [n \in Slot |-> 0],
   grants |-> <<>>, grantOps |-> <<>>, attaches |-> <<>>, attachOps |-> <<>>,
   nextGrant |-> 1, nextAttach |-> 1]

TokenOf(s, consumer, id) == [inc |-> s.inc, consumer |-> consumer, lease |-> id]

-----------------------------------------------------------------------------
(* Grants. *)

FreeSlots(s) == {n \in Slot : s.owner[n] = 0}

\* Mutant of FirstFree: the scan does not stop at count.
AllFree(s, count) == FreeSlots(s)

\* The scan takes free slots in the order of their index.
FirstFree(s, count) ==
  CHOOSE S \in SUBSET FreeSlots(s) :
    Cardinality(S) = count /\ \A n \in S, m \in FreeSlots(s) \ S : n < m

\* Mutant of CollectGrant: attaches are not looked at.
CollectReleased(s, g) ==
  IF g \in DOMAIN s.grants /\ s.grants[g].releaseRequested
  THEN [s EXCEPT !.owner = [n \in Slot |-> IF @[n] = g THEN 0 ELSE @[n]],
                 !.grantOps = Without(@, s.grants[g].op), !.grants = Without(@, g)]
  ELSE s

CollectGrant(s, g) ==
  IF g \in DOMAIN s.grants /\ s.grants[g].attachRefs = 0 /\ s.grants[g].releaseRequested
  THEN [s EXCEPT !.owner = [n \in Slot |-> IF @[n] = g THEN 0 ELSE @[n]],
                 !.grantOps = Without(@, s.grants[g].op), !.grants = Without(@, g)]
  ELSE s

\* A known operation is looked up, but status keeps the invalid_argument it
\* was initialised with: the replay is refused whatever its count is.
ReserveSlots(s, op, count) ==
  LET g == s.nextGrant
      slots == FirstFree(s, count)
      grant == [op |-> op, slots |-> slots, attachRefs |-> 0, releaseRequested |-> FALSE]
  IN IF op \in DOMAIN s.grantOps THEN Refuse(s, "invalid_argument")
     ELSE IF Cardinality(FreeSlots(s)) < count THEN Refuse(s, "capacity_exhausted")
     ELSE Reply([s EXCEPT !.owner = [n \in Slot |-> IF n \in slots THEN g ELSE @[n]],
                          !.grants = With(@, g, grant), !.grantOps = With(@, op, g),
                          !.nextGrant = g + 1],
                "ok", [token |-> TokenOf(s, op.consumer, g), slots |-> slots])

ReleaseSlots(s, token) ==
  LET g == token.lease IN
  IF token.inc # s.inc THEN Refuse(s, "owner_restarted")
  ELSE IF g \notin DOMAIN s.grants THEN Refuse(s, "ok")
  ELSE IF s.grants[g].op.consumer # token.consumer THEN Refuse(s, "invalid_argument")
  ELSE Refuse(CollectGrant([s EXCEPT !.grants[g].releaseRequested = TRUE], g), "ok")

-----------------------------------------------------------------------------
(* Attaches. *)

\* The grant is the source's, it is not being released, and owns the slots.
SourceGrants(s, source, slots) ==
  /\ source.lease \in DOMAIN s.grants
  /\ ~ s.grants[source.lease].releaseRequested
  /\ s.grants[source.lease].op.consumer = source.consumer
  /\ \A n \in slots : s.owner[n] = source.lease

\* What the consumer is told of attach a.
AttachGrant(s, op, a, source, slots) ==
  [token |-> TokenOf(s, op.consumer, a), source |-> source, slots |-> slots]

\* The part of the request under the mutex of the pool.
AcquireAttach(s, op, source, slots) ==
  LET a == s.nextAttach
      attach == [op |-> op, source |-> source.lease, slots |-> slots]
  IN IF op \in DOMAIN s.attachOps
     THEN IF s.attaches[s.attachOps[op]] = attach
          THEN Reply(s, "ok", AttachGrant(s, op, s.attachOps[op], source, slots))
          ELSE Refuse(s, "invalid_argument")
     ELSE IF ~ SourceGrants(s, source, slots) THEN Refuse(s, "invalid_argument")
     ELSE Reply([s EXCEPT !.attaches = With(@, a, attach), !.attachOps = With(@, op, a),
                          !.nextAttach = a + 1, !.grants[source.lease].attachRefs = @ + 1],
                "ok", AttachGrant(s, op, a, source, slots))

\* The state after attach a is forgotten and its grant g has one reference less.
Forget(s, a, g) ==
  LET counted == [h \in DOMAIN s.grants |->
                    IF h = g /\ s.grants[h].attachRefs > 0
                    THEN [s.grants[h] EXCEPT !.attachRefs = @ - 1] ELSE s.grants[h]]
  IN [s EXCEPT !.attachOps = Without(@, s.attaches[a].op), !.attaches = Without(@, a),
               !.grants = counted]

\* Mutant of DropAttach: the grant is not collected by its last attach.
DropAttachOnly(s, a) == Forget(s, a, s.attaches[a].source)

\* The attach goes, and with it a grant that waited for it.
DropAttach(s, a) ==
  LET g == s.attaches[a].source IN CollectGrant(Forget(s, a, g), g)

ReleaseAttach(s, token) ==
  LET a == token.lease IN
  IF token.inc # s.inc THEN Refuse(s, "owner_restarted")
  ELSE IF a \notin DOMAIN s.attaches THEN Refuse(s, "ok")
  ELSE IF s.attaches[a].op.consumer # token.consumer THEN Refuse(s, "invalid_argument")
  ELSE Refuse(DropAttach(s, a), "ok")
=============================================================================
