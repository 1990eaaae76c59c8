---------------------------- MODULE IpcSlots_proofs ----------------------------
(***************************************************************************)
(* Proofs about the slot pool and its clients, for every number of slots,  *)
(* set of providers and consumers, and reservation sizes.                  *)
(***************************************************************************)
EXTENDS IpcSlots, SetLemmas

Op(c) == [consumer |-> c]

Grant == [op : {Op(p) : p \in Provider}, slots : SUBSET Slot,
          attachRefs : Nat, releaseRequested : BOOLEAN]

AttachRecord == [op : {Op(c) : c \in Consumer}, source : Nat, slots : SUBSET Slot]

\* The attaches of grant g.
AttachesOf(s, g) == {a \in DOMAIN s.attaches : s.attaches[a].source = g}

IsPool(s) ==
  s = [inc |-> s.inc, owner |-> s.owner, grants |-> s.grants, grantOps |-> s.grantOps,
       attaches |-> s.attaches, attachOps |-> s.attachOps,
       nextGrant |-> s.nextGrant, nextAttach |-> s.nextAttach]

PoolTyped(s) ==
  /\ IsPool(s)
  /\ s.inc \in Nat /\ s.nextGrant \in Nat \ {0} /\ s.nextAttach \in Nat \ {0}
  /\ s.owner \in [Slot -> 0..s.nextGrant - 1]
  /\ \A g \in DOMAIN s.grants :
       /\ g \in 1..s.nextGrant - 1
       /\ s.grants[g] \in Grant
       /\ Cardinality(s.grants[g].slots) = Count[s.grants[g].op.consumer]
  /\ \A a \in DOMAIN s.attaches :
       /\ a \in 1..s.nextAttach - 1
       /\ s.attaches[a] \in AttachRecord

Partitioned(s) ==
  /\ \A n \in Slot : s.owner[n] # 0 =>
       s.owner[n] \in DOMAIN s.grants /\ n \in s.grants[s.owner[n]].slots
  /\ \A g \in DOMAIN s.grants : \A n \in s.grants[g].slots : s.owner[n] = g

OpsInverse(s) ==
  /\ \A g \in DOMAIN s.grants :
       s.grants[g].op \in DOMAIN s.grantOps /\ s.grantOps[s.grants[g].op] = g
  /\ \A o \in DOMAIN s.grantOps :
       s.grantOps[o] \in DOMAIN s.grants /\ s.grants[s.grantOps[o]].op = o
  /\ \A a \in DOMAIN s.attaches :
       s.attaches[a].op \in DOMAIN s.attachOps /\ s.attachOps[s.attaches[a].op] = a
  /\ \A o \in DOMAIN s.attachOps :
       s.attachOps[o] \in DOMAIN s.attaches /\ s.attaches[s.attachOps[o]].op = o

Pinned(s) ==
  /\ \A a \in DOMAIN s.attaches :
       /\ s.attaches[a].source \in DOMAIN s.grants
       /\ s.attaches[a].slots \subseteq s.grants[s.attaches[a].source].slots
  /\ \A g \in DOMAIN s.grants : s.grants[g].attachRefs = Cardinality(AttachesOf(s, g))

ReleasedWaits(s) ==
  \A g \in DOMAIN s.grants : s.grants[g].releaseRequested => s.grants[g].attachRefs > 0

\* All but the last hold between the two halves of an operation that releases.
PoolCore(s) == PoolTyped(s) /\ Partitioned(s) /\ OpsInverse(s) /\ Pinned(s)

PoolInv(s) == PoolCore(s) /\ ReleasedWaits(s)

-----------------------------------------------------------------------------
(* Finite sets of slots and attaches. *)

\* The set of slots is finite, and so is any set of slots.
LEMMA SlotsFinite ==
  /\ IsFiniteSet(Slot) /\ Slot \subseteq Nat
  /\ \A S \in SUBSET Slot : IsFiniteSet(S) /\ Cardinality(S) \in Nat
<1>1. IsFiniteSet(Slot) /\ Slot \subseteq Nat
  BY SlotAssumption, FS_Interval DEF Slot
<1>2. ASSUME NEW S \in SUBSET Slot
      PROVE  IsFiniteSet(S) /\ Cardinality(S) \in Nat
  BY <1>1, FS_Subset, FS_CardinalityType
<1>3. QED
  BY <1>1, <1>2

\* The scan finds as many free slots as were asked for, when there are enough.
LEMMA FirstFreeCount ==
  ASSUME NEW s, NEW count \in Nat, count <= Cardinality(FreeSlots(s))
  PROVE  /\ FirstFree(s, count) \subseteq FreeSlots(s)
         /\ Cardinality(FirstFree(s, count)) = count
<1>1. FreeSlots(s) \subseteq Nat /\ IsFiniteSet(FreeSlots(s))
  BY SlotsFinite DEF FreeSlots
<1>2. \E S \in SUBSET FreeSlots(s) :
        Cardinality(S) = count /\ \A i \in S, j \in FreeSlots(s) \ S : i < j
  BY <1>1, LowerPart
<1>3. QED
  BY <1>2 DEF FirstFree

\* A pool has finitely many attaches.
LEMMA AttachesFinite ==
  ASSUME NEW s, PoolTyped(s)
  PROVE  /\ IsFiniteSet(DOMAIN s.attaches)
         /\ \A S \in SUBSET DOMAIN s.attaches : IsFiniteSet(S) /\ Cardinality(S) \in Nat
<1>1. IsFiniteSet(1..s.nextAttach - 1)
  BY FS_Interval DEF PoolTyped
<1>2. DOMAIN s.attaches \in SUBSET (1..s.nextAttach - 1)
  BY DEF PoolTyped
<1>3. IsFiniteSet(DOMAIN s.attaches)
  BY <1>1, <1>2, FS_Subset
<1>4. QED
  BY <1>3, FS_Subset, FS_CardinalityType

-----------------------------------------------------------------------------
(* ReserveSlots. *)

\* What a reservation that succeeds leaves.
Reserved(s, t, p, slots) ==
  /\ IsPool(t)
  /\ t.inc = s.inc /\ t.attaches = s.attaches /\ t.attachOps = s.attachOps
  /\ t.nextAttach = s.nextAttach /\ t.nextGrant = s.nextGrant + 1
  /\ t.owner = [n \in Slot |-> IF n \in slots THEN s.nextGrant ELSE s.owner[n]]
  /\ t.grants = With(s.grants, s.nextGrant,
                     [op |-> Op(p), slots |-> slots, attachRefs |-> 0,
                      releaseRequested |-> FALSE])
  /\ t.grantOps = With(s.grantOps, Op(p), s.nextGrant)

\* What ReserveSlots does: it leaves the pool alone and refuses, or it takes as
\* many free slots as were asked for and answers with them.
LEMMA ReserveEffect ==
  ASSUME NEW s, PoolInv(s), NEW p \in Provider
  PROVE  LET a == ReserveSlots(s, Op(p), Count[p]) IN
         \/ a.state = s /\ a.status \in {"invalid_argument", "capacity_exhausted"}
         \/ \E slots \in SUBSET FreeSlots(s) :
              /\ Cardinality(slots) = Count[p]
              /\ Op(p) \notin DOMAIN s.grantOps
              /\ Reserved(s, a.state, p, slots)
              /\ a.status = "ok"
              /\ a.value = [token |-> TokenOf(s, p, s.nextGrant), slots |-> slots]
<1>1. CASE Op(p) \in DOMAIN s.grantOps
  BY <1>1 DEF ReserveSlots, Refuse, Reply
<1>2. CASE Op(p) \notin DOMAIN s.grantOps /\ Cardinality(FreeSlots(s)) < Count[p]
  BY <1>2 DEF ReserveSlots, Refuse, Reply
<1>3. CASE Op(p) \notin DOMAIN s.grantOps /\ ~ (Cardinality(FreeSlots(s)) < Count[p])
  <2> DEFINE slots == FirstFree(s, Count[p])
  <2>1. slots \in SUBSET FreeSlots(s) /\ Cardinality(slots) = Count[p]
    <3>1. Count[p] \in Nat
      BY ClientAssumption
    <3>2. Cardinality(FreeSlots(s)) \in Nat
      BY SlotsFinite DEF FreeSlots
    <3>3. QED
      BY <1>3, <3>1, <3>2, FirstFreeCount
  <2> HIDE DEF slots
  <2>2. /\ ReserveSlots(s, Op(p), Count[p]).status = "ok"
        /\ ReserveSlots(s, Op(p), Count[p]).value =
             [token |-> TokenOf(s, p, s.nextGrant), slots |-> slots]
    BY <1>3 DEF ReserveSlots, Refuse, Reply, slots, Op
  <2>3. IsPool(s) /\ s.owner \in [Slot -> 0..s.nextGrant - 1]
    BY DEF PoolInv, PoolCore, PoolTyped
  <2>4. Reserved(s, ReserveSlots(s, Op(p), Count[p]).state, p, slots)
    BY <1>3, <2>3 DEF ReserveSlots, Refuse, Reply, slots, Reserved, IsPool
  <2>5. QED
    BY <1>3, <2>1, <2>2, <2>4
<1>4. QED
  BY <1>1, <1>2, <1>3

\* A reservation keeps the pool consistent.
LEMMA ReservedKeeps ==
  ASSUME NEW s, PoolInv(s), NEW t, NEW p \in Provider,
         NEW slots \in SUBSET FreeSlots(s), Cardinality(slots) = Count[p],
         Op(p) \notin DOMAIN s.grantOps, Reserved(s, t, p, slots)
  PROVE  PoolInv(t)
<1> DEFINE g == s.nextGrant
           grant == [op |-> Op(p), slots |-> slots, attachRefs |-> 0, releaseRequested |-> FALSE]
<1>1. /\ DOMAIN t.grants = DOMAIN s.grants \cup {g} /\ t.grants[g] = grant
      /\ \A h \in DOMAIN s.grants \ {g} : t.grants[h] = s.grants[h]
  BY DEF Reserved, With
<1>2. /\ DOMAIN t.grantOps = DOMAIN s.grantOps \cup {Op(p)} /\ t.grantOps[Op(p)] = g
      /\ \A o \in DOMAIN s.grantOps \ {Op(p)} : t.grantOps[o] = s.grantOps[o]
  BY DEF Reserved, With
<1>3. /\ t.attaches = s.attaches /\ t.attachOps = s.attachOps
      /\ t.inc = s.inc /\ t.nextAttach = s.nextAttach /\ t.nextGrant = g + 1 /\ IsPool(t)
      /\ t.owner = [n \in Slot |-> IF n \in slots THEN g ELSE s.owner[n]]
  BY DEF Reserved
<1>4. g \in Nat \ {0} /\ g \notin DOMAIN s.grants
  BY DEF PoolInv, PoolCore, PoolTyped
<1>5. slots \subseteq Slot /\ \A n \in slots : s.owner[n] = 0
  BY DEF FreeSlots
<1>6. grant \in Grant
  BY <1>5 DEF Grant
<1>7. PoolTyped(t)
  <2>1. t.owner \in [Slot -> 0..t.nextGrant - 1]
    BY <1>3, <1>4 DEF PoolInv, PoolCore, PoolTyped
  <2>2. \A h \in DOMAIN t.grants :
          /\ h \in 1..t.nextGrant - 1 /\ t.grants[h] \in Grant
          /\ Cardinality(t.grants[h].slots) = Count[t.grants[h].op.consumer]
    BY <1>1, <1>3, <1>4, <1>6 DEF PoolInv, PoolCore, PoolTyped, Op
  <2>3. QED
    BY <1>3, <1>4, <2>1, <2>2 DEF PoolInv, PoolCore, PoolTyped
<1>8. Partitioned(t)
  <2>1. \A h \in DOMAIN s.grants : \A n \in s.grants[h].slots :
          n \in Slot /\ n \notin slots /\ s.owner[n] = h
    BY <1>4, <1>5 DEF PoolInv, PoolCore, Partitioned, PoolTyped, Grant
  <2>2. QED
    BY <1>1, <1>3, <1>4, <1>5, <2>1 DEF PoolInv, PoolCore, Partitioned
<1>9. OpsInverse(t)
  BY <1>1, <1>2, <1>3, <1>4 DEF PoolInv, PoolCore, OpsInverse
<1>10. Pinned(t)
  <2>1. AttachesOf(t, g) = {}
    BY <1>3, <1>4 DEF AttachesOf, PoolInv, PoolCore, Pinned
  <2>2. \A h \in DOMAIN s.grants : AttachesOf(t, h) = AttachesOf(s, h)
    BY <1>3 DEF AttachesOf
  <2>3. t.grants[g].attachRefs = Cardinality(AttachesOf(t, g))
    BY <1>1, <2>1, FS_EmptySet
  <2>4. \A h \in DOMAIN s.grants : t.grants[h].attachRefs = Cardinality(AttachesOf(t, h))
    BY <1>1, <1>4, <2>2 DEF PoolInv, PoolCore, Pinned
  <2>5. \A a \in DOMAIN t.attaches :
          /\ t.attaches[a].source \in DOMAIN t.grants
          /\ t.attaches[a].slots \subseteq t.grants[t.attaches[a].source].slots
    BY <1>1, <1>3, <1>4 DEF PoolInv, PoolCore, Pinned
  <2>6. QED
    BY <1>1, <2>3, <2>4, <2>5 DEF Pinned
<1>11. ReleasedWaits(t)
  BY <1>1, <1>4 DEF PoolInv, ReleasedWaits
<1>12. QED
  BY <1>7, <1>8, <1>9, <1>10, <1>11 DEF PoolInv, PoolCore

-----------------------------------------------------------------------------
(* CollectGrant and ReleaseSlots. *)

Collectable(s, g) ==
  g \in DOMAIN s.grants /\ s.grants[g].attachRefs = 0 /\ s.grants[g].releaseRequested

\* What collecting grant g leaves.
Collected(s, t, g) ==
  /\ IsPool(t)
  /\ t.inc = s.inc /\ t.attaches = s.attaches /\ t.attachOps = s.attachOps
  /\ t.nextAttach = s.nextAttach /\ t.nextGrant = s.nextGrant
  /\ t.owner = [n \in Slot |-> IF s.owner[n] = g THEN 0 ELSE s.owner[n]]
  /\ t.grants = Without(s.grants, g)
  /\ t.grantOps = Without(s.grantOps, s.grants[g].op)

\* What CollectGrant does: nothing, or the grant goes and its slots are free.
LEMMA CollectEffect ==
  ASSUME NEW s, IsPool(s), NEW g
  PROVE  \/ ~ Collectable(s, g) /\ CollectGrant(s, g) = s
         \/ Collectable(s, g) /\ Collected(s, CollectGrant(s, g), g)
<1>1. CASE Collectable(s, g)
  BY <1>1 DEF CollectGrant, Collectable, Collected, IsPool
<1>2. CASE ~ Collectable(s, g)
  BY <1>2 DEF CollectGrant, Collectable
<1>3. QED
  BY <1>1, <1>2

\* Collecting a grant keeps the pool consistent.
LEMMA CollectedKeeps ==
  ASSUME NEW s, PoolCore(s), NEW t, NEW g, Collectable(s, g), Collected(s, t, g)
  PROVE  PoolCore(t)
<1>1. /\ DOMAIN t.grants = DOMAIN s.grants \ {g}
      /\ \A h \in DOMAIN t.grants : t.grants[h] = s.grants[h]
  BY DEF Collected, Without
<1>2. /\ DOMAIN t.grantOps = DOMAIN s.grantOps \ {s.grants[g].op}
      /\ \A o \in DOMAIN t.grantOps : t.grantOps[o] = s.grantOps[o]
  BY DEF Collected, Without
<1>3. /\ t.attaches = s.attaches /\ t.attachOps = s.attachOps
      /\ t.inc = s.inc /\ t.nextAttach = s.nextAttach /\ t.nextGrant = s.nextGrant /\ IsPool(t)
      /\ t.owner = [n \in Slot |-> IF s.owner[n] = g THEN 0 ELSE s.owner[n]]
  BY DEF Collected
<1>4. g \in DOMAIN s.grants /\ g # 0
  BY DEF Collectable, PoolCore, PoolTyped
<1>5. PoolTyped(t)
  <2>1. t.owner \in [Slot -> 0..t.nextGrant - 1]
    BY <1>3 DEF PoolCore, PoolTyped
  <2>2. QED
    BY <1>1, <1>3, <2>1 DEF PoolCore, PoolTyped
<1>6. Partitioned(t)
  <2>1. \A h \in DOMAIN s.grants : s.grants[h].slots \subseteq Slot
    BY DEF PoolCore, PoolTyped, Grant
  <2>2. QED
    BY <1>1, <1>3, <1>4, <2>1 DEF PoolCore, Partitioned
<1>7. OpsInverse(t)
  BY <1>1, <1>2, <1>3, <1>4 DEF PoolCore, OpsInverse
<1>8. Pinned(t)
  <2>1. \A h : AttachesOf(t, h) = AttachesOf(s, h)
    BY <1>3 DEF AttachesOf
  <2>2. IsFiniteSet(AttachesOf(s, g)) /\ Cardinality(AttachesOf(s, g)) = 0
    BY <1>4, AttachesFinite DEF Collectable, PoolCore, Pinned, AttachesOf
  <2>3. AttachesOf(s, g) = {}
    BY <2>2, FS_EmptySet
  <2>4. \A a \in DOMAIN s.attaches : s.attaches[a].source # g
    BY <2>3 DEF AttachesOf
  <2>5. QED
    BY <1>1, <1>3, <2>1, <2>4 DEF PoolCore, Pinned
<1>9. QED
  BY <1>5, <1>6, <1>7, <1>8 DEF PoolCore

\* CollectGrant ends what a release of grant g or of its last attach has begun.
LEMMA CollectKeeps ==
  ASSUME NEW s, PoolCore(s), NEW g,
         \A h \in DOMAIN s.grants \ {g} :
           s.grants[h].releaseRequested => s.grants[h].attachRefs > 0
  PROVE  LET t == CollectGrant(s, g) IN
         /\ PoolInv(t)
         /\ t.inc = s.inc /\ t.attaches = s.attaches
         /\ t.nextGrant = s.nextGrant /\ t.nextAttach = s.nextAttach
         /\ DOMAIN t.grants = DOMAIN s.grants \ (IF Collectable(s, g) THEN {g} ELSE {})
         /\ \A h \in DOMAIN t.grants : t.grants[h] = s.grants[h]
<1> DEFINE t == CollectGrant(s, g)
<1>1. IsPool(s)
  BY DEF PoolCore, PoolTyped
<1>2. CASE ~ Collectable(s, g) /\ t = s
  <2>1. ReleasedWaits(s)
    <3>1. \A h \in DOMAIN s.grants : s.grants[h].attachRefs \in Nat
      BY DEF PoolCore, PoolTyped, Grant
    <3>2. QED
      BY <1>2, <3>1 DEF Collectable, ReleasedWaits
  <2>2. QED
    BY <1>2, <2>1 DEF PoolInv
<1>3. CASE Collectable(s, g) /\ Collected(s, t, g)
  <2>1. PoolCore(t)
    BY <1>3, CollectedKeeps
  <2>2. /\ DOMAIN t.grants = DOMAIN s.grants \ {g}
        /\ \A h \in DOMAIN t.grants : t.grants[h] = s.grants[h]
    BY <1>3 DEF Collected, Without
  <2>3. ReleasedWaits(t)
    BY <2>2 DEF ReleasedWaits
  <2>4. QED
    BY <1>3, <2>1, <2>2, <2>3 DEF PoolInv, Collected
<1>4. QED
  BY <1>1, <1>2, <1>3, CollectEffect

\* The first half of a release: grant g is marked.
Marked(s, u, g) ==
  /\ IsPool(u)
  /\ u.inc = s.inc /\ u.attaches = s.attaches /\ u.attachOps = s.attachOps
  /\ u.nextAttach = s.nextAttach /\ u.nextGrant = s.nextGrant
  /\ u.owner = s.owner /\ u.grantOps = s.grantOps
  /\ DOMAIN u.grants = DOMAIN s.grants
  /\ \A h \in DOMAIN s.grants \ {g} : u.grants[h] = s.grants[h]
  /\ u.grants[g] = [s.grants[g] EXCEPT !.releaseRequested = TRUE]

\* Marking a grant for release keeps the pool consistent, but for that grant,
\* which need not wait for an attach.
LEMMA MarkedKeeps ==
  ASSUME NEW s, PoolInv(s), NEW g \in DOMAIN s.grants, NEW u, Marked(s, u, g)
  PROVE  /\ PoolCore(u)
         /\ \A h \in DOMAIN u.grants \ {g} :
              u.grants[h].releaseRequested => u.grants[h].attachRefs > 0
<1>1. /\ u.grants[g] \in Grant /\ u.grants[g].op = s.grants[g].op
      /\ u.grants[g].slots = s.grants[g].slots
      /\ u.grants[g].attachRefs = s.grants[g].attachRefs
      /\ u.grants[g].releaseRequested
  BY DEF Marked, PoolInv, PoolCore, PoolTyped, Grant
<1>2. \A h \in DOMAIN s.grants :
        /\ u.grants[h] \in Grant /\ u.grants[h].op = s.grants[h].op
        /\ u.grants[h].slots = s.grants[h].slots
        /\ u.grants[h].attachRefs = s.grants[h].attachRefs
  BY <1>1 DEF Marked, PoolInv, PoolCore, PoolTyped
<1>3. PoolTyped(u)
  BY <1>2 DEF Marked, PoolInv, PoolCore, PoolTyped
<1>4. Partitioned(u)
  BY <1>2 DEF Marked, PoolInv, PoolCore, Partitioned
<1>5. OpsInverse(u)
  BY <1>2, SMTT(40) DEF Marked, PoolInv, PoolCore, OpsInverse
<1>6. Pinned(u)
  <2>1. \A h : AttachesOf(u, h) = AttachesOf(s, h)
    BY DEF AttachesOf, Marked
  <2>2. QED
    BY <1>2, <2>1 DEF Marked, PoolInv, PoolCore, Pinned
<1>7. \A h \in DOMAIN u.grants \ {g} :
        u.grants[h].releaseRequested => u.grants[h].attachRefs > 0
  BY DEF Marked, PoolInv, ReleasedWaits
<1>8. QED
  BY <1>3, <1>4, <1>5, <1>6, <1>7 DEF PoolCore

\* What the release of a grant does to the pool: nothing, or it takes one grant
\* of the caller, at once or when its last attach goes.
LEMMA ReleaseEffect ==
  ASSUME NEW s, PoolInv(s), NEW token
  PROVE  LET a == ReleaseSlots(s, token)
             t == a.state
             g == token.lease
         IN
         /\ PoolInv(t)
         /\ t.inc = s.inc /\ t.attaches = s.attaches
         /\ t.nextGrant = s.nextGrant /\ t.nextAttach = s.nextAttach
         /\ a.status # "not_ready"
         /\ \/ /\ t = s
               /\ token.inc # s.inc \/ g \notin DOMAIN s.grants
                    \/ s.grants[g].op.consumer # token.consumer
            \/ /\ token.inc = s.inc /\ g \in DOMAIN s.grants
               /\ s.grants[g].op.consumer = token.consumer
               /\ DOMAIN t.grants = DOMAIN s.grants
                                     \ (IF s.grants[g].attachRefs = 0 THEN {g} ELSE {})
               /\ \A h \in DOMAIN t.grants \ {g} : t.grants[h] = s.grants[h]
               /\ g \in DOMAIN t.grants =>
                    t.grants[g] = [s.grants[g] EXCEPT !.releaseRequested = TRUE]
<1> DEFINE g == token.lease
           u == [s EXCEPT !.grants[g].releaseRequested = TRUE]
<1>1. IsPool(s)
  BY DEF PoolInv, PoolCore, PoolTyped
<1>2. CASE token.inc # s.inc \/ g \notin DOMAIN s.grants
             \/ s.grants[g].op.consumer # token.consumer
  BY <1>2 DEF ReleaseSlots, Refuse, Reply
<1>3. CASE token.inc = s.inc /\ g \in DOMAIN s.grants /\ s.grants[g].op.consumer = token.consumer
  <2>1. Marked(s, u, g)
    BY <1>1, <1>3 DEF IsPool, Marked
  <2>2. /\ ReleaseSlots(s, token).state = CollectGrant(u, g)
        /\ ReleaseSlots(s, token).status = "ok"
    BY <1>3 DEF ReleaseSlots, Refuse, Reply
  <2> HIDE DEF u
  <2>3. /\ PoolCore(u)
        /\ \A h \in DOMAIN u.grants \ {g} :
             u.grants[h].releaseRequested => u.grants[h].attachRefs > 0
    BY <1>3, <2>1, MarkedKeeps
  <2> DEFINE t == CollectGrant(u, g)
  <2>4. /\ PoolInv(t) /\ t.inc = u.inc /\ t.attaches = u.attaches
        /\ t.nextGrant = u.nextGrant /\ t.nextAttach = u.nextAttach
        /\ DOMAIN t.grants = DOMAIN u.grants \ (IF Collectable(u, g) THEN {g} ELSE {})
        /\ \A h \in DOMAIN t.grants : t.grants[h] = u.grants[h]
    BY <2>3, CollectKeeps
  <2>5. Collectable(u, g) <=> s.grants[g].attachRefs = 0
    BY <1>3, <2>1 DEF Collectable, Marked, PoolInv, PoolCore, PoolTyped, Grant
  <2> HIDE DEF t
  <2>6. QED
    BY <1>3, <2>1, <2>2, <2>4, <2>5 DEF Marked, t
<1>4. QED
  BY <1>2, <1>3

-----------------------------------------------------------------------------
(* AcquireAttach. *)

\* What an attach that succeeds leaves.
Attached(s, t, c, g, slots) ==
  /\ IsPool(t)
  /\ t.inc = s.inc /\ t.owner = s.owner /\ t.grantOps = s.grantOps
  /\ t.nextGrant = s.nextGrant /\ t.nextAttach = s.nextAttach + 1
  /\ t.attaches = With(s.attaches, s.nextAttach, [op |-> Op(c), source |-> g, slots |-> slots])
  /\ t.attachOps = With(s.attachOps, Op(c), s.nextAttach)
  /\ DOMAIN t.grants = DOMAIN s.grants
  /\ \A h \in DOMAIN s.grants \ {g} : t.grants[h] = s.grants[h]
  /\ t.grants[g] = [s.grants[g] EXCEPT !.attachRefs = s.grants[g].attachRefs + 1]

\* What AcquireAttach does: it refuses, repeats the answer it gave to the same
\* operation, or pins the source grant.
LEMMA AttachEffect ==
  ASSUME NEW s, PoolInv(s), NEW c \in Consumer, NEW source, NEW slots \in SUBSET Slot
  PROVE  LET a == AcquireAttach(s, Op(c), source, slots)
         IN
         \/ a.state = s /\ a.status = "invalid_argument"
         \/ /\ a.state = s /\ a.status = "ok"
            /\ \E b \in DOMAIN s.attaches :
                 /\ s.attaches[b] = [op |-> Op(c), source |-> source.lease, slots |-> slots]
                 /\ a.value = [token |-> TokenOf(s, c, b), source |-> source, slots |-> slots]
         \/ /\ Op(c) \notin DOMAIN s.attachOps
            /\ SourceGrants(s, source, slots)
            /\ Attached(s, a.state, c, source.lease, slots)
            /\ a.status = "ok"
            /\ a.value = [token |-> TokenOf(s, c, s.nextAttach), source |-> source,
                          slots |-> slots]
<1> DEFINE op == Op(c)
           attach == [op |-> op, source |-> source.lease, slots |-> slots]
<1>1. op.consumer = c
  BY DEF Op
<1>2. CASE op \in DOMAIN s.attachOps
  <2>1. s.attachOps[op] \in DOMAIN s.attaches
    BY <1>2 DEF PoolInv, PoolCore, OpsInverse
  <2> HIDE DEF op
  <2>2. CASE s.attaches[s.attachOps[op]] = attach
    BY <1>1, <1>2, <2>1, <2>2 DEF AcquireAttach, Reply, AttachGrant, op
  <2>3. CASE s.attaches[s.attachOps[op]] # attach
    BY <1>2, <2>3 DEF AcquireAttach, Refuse, Reply, op
  <2>4. QED
    BY <2>2, <2>3
<1>3. CASE op \notin DOMAIN s.attachOps /\ ~ SourceGrants(s, source, slots)
  BY <1>3 DEF AcquireAttach, Refuse, Reply
<1>4. CASE op \notin DOMAIN s.attachOps /\ SourceGrants(s, source, slots)
  <2> DEFINE a == AcquireAttach(s, op, source, slots)
  <2>1. IsPool(s) /\ source.lease \in DOMAIN s.grants
        /\ s.grants[source.lease] \in Grant
    BY <1>4 DEF PoolInv, PoolCore, PoolTyped, SourceGrants
  <2>2. /\ a.status = "ok"
        /\ a.value = [token |-> TokenOf(s, c, s.nextAttach), source |-> source, slots |-> slots]
    BY <1>1, <1>4 DEF AcquireAttach, Reply, AttachGrant
  <2> DEFINE attaches == With(s.attaches, s.nextAttach, attach)
             ops == With(s.attachOps, op, s.nextAttach)
  <2>3. a.state = [s EXCEPT !.attaches = attaches, !.attachOps = ops,
                            !.nextAttach = s.nextAttach + 1,
                            !.grants[source.lease].attachRefs = @ + 1]
    BY <1>4 DEF AcquireAttach, Reply
  <2> HIDE DEF a, attaches, ops
  <2>4. Attached(s, a.state, c, source.lease, slots)
    <3> DEFINE t == a.state
    <3>1. /\ t.inc = s.inc /\ t.owner = s.owner /\ t.grantOps = s.grantOps
          /\ t.nextGrant = s.nextGrant /\ t.nextAttach = s.nextAttach + 1
          /\ t.attaches = attaches /\ t.attachOps = ops
          /\ t.grants = [s.grants EXCEPT ![source.lease].attachRefs = @ + 1]
          /\ IsPool(t)
      BY <2>1, <2>3 DEF IsPool
    <3> HIDE DEF t
    <3>2. /\ DOMAIN t.grants = DOMAIN s.grants
          /\ \A h \in DOMAIN s.grants \ {source.lease} : t.grants[h] = s.grants[h]
          /\ t.grants[source.lease] = [s.grants[source.lease] EXCEPT
                                         !.attachRefs = s.grants[source.lease].attachRefs + 1]
      BY <2>1, <3>1
    <3>3. QED
      BY <3>1, <3>2 DEF Attached, attaches, ops, t
  <2>5. QED
    BY <1>4, <2>2, <2>4 DEF a
<1>5. QED
  BY <1>2, <1>3, <1>4

\* An attach keeps the pool consistent.
LEMMA AttachedKeeps ==
  ASSUME NEW s, PoolInv(s), NEW t, NEW c \in Consumer, NEW source, NEW slots \in SUBSET Slot,
         Op(c) \notin DOMAIN s.attachOps, SourceGrants(s, source, slots),
         Attached(s, t, c, source.lease, slots)
  PROVE  PoolInv(t)
<1> DEFINE g == source.lease
           b == s.nextAttach
           attach == [op |-> Op(c), source |-> g, slots |-> slots]
<1>1. /\ DOMAIN t.attaches = DOMAIN s.attaches \cup {b} /\ t.attaches[b] = attach
      /\ \A a \in DOMAIN s.attaches \ {b} : t.attaches[a] = s.attaches[a]
  BY DEF Attached, With
<1>2. /\ DOMAIN t.attachOps = DOMAIN s.attachOps \cup {Op(c)} /\ t.attachOps[Op(c)] = b
      /\ \A o \in DOMAIN s.attachOps \ {Op(c)} : t.attachOps[o] = s.attachOps[o]
  BY DEF Attached, With
<1>3. /\ t.owner = s.owner /\ t.grantOps = s.grantOps /\ IsPool(t)
      /\ t.inc = s.inc /\ t.nextAttach = b + 1 /\ t.nextGrant = s.nextGrant
      /\ DOMAIN t.grants = DOMAIN s.grants
      /\ \A h \in DOMAIN s.grants \ {g} : t.grants[h] = s.grants[h]
  BY DEF Attached
<1>4. b \in Nat \ {0} /\ b \notin DOMAIN s.attaches
  BY DEF PoolInv, PoolCore, PoolTyped
<1>5. g \in DOMAIN s.grants /\ g \in Nat
  BY DEF SourceGrants, PoolInv, PoolCore, PoolTyped
<1>6. /\ t.grants[g] \in Grant /\ t.grants[g].op = s.grants[g].op
      /\ t.grants[g].slots = s.grants[g].slots
      /\ t.grants[g].attachRefs = s.grants[g].attachRefs + 1
      /\ t.grants[g].attachRefs > 0
      /\ t.grants[g].releaseRequested = s.grants[g].releaseRequested
  BY <1>5 DEF Attached, PoolInv, PoolCore, PoolTyped, Grant
<1>7. \A h \in DOMAIN s.grants :
        /\ t.grants[h] \in Grant /\ t.grants[h].op = s.grants[h].op
        /\ t.grants[h].slots = s.grants[h].slots
  BY <1>3, <1>6 DEF PoolInv, PoolCore, PoolTyped
<1>8. PoolTyped(t)
  <2>1. attach \in AttachRecord
    BY <1>5 DEF AttachRecord
  <2>2. \A a \in DOMAIN t.attaches : a \in 1..t.nextAttach - 1 /\ t.attaches[a] \in AttachRecord
    BY <1>1, <1>3, <1>4, <2>1 DEF PoolInv, PoolCore, PoolTyped
  <2>3. QED
    BY <1>3, <1>4, <1>7, <2>2 DEF PoolInv, PoolCore, PoolTyped
<1>9. Partitioned(t)
  BY <1>3, <1>7 DEF PoolInv, PoolCore, Partitioned
<1>10. OpsInverse(t)
  <2>1. /\ \A h \in DOMAIN t.grants :
             t.grants[h].op \in DOMAIN t.grantOps /\ t.grantOps[t.grants[h].op] = h
        /\ \A o \in DOMAIN t.grantOps :
             t.grantOps[o] \in DOMAIN t.grants /\ t.grants[t.grantOps[o]].op = o
    BY <1>3, <1>7, SMTT(40) DEF PoolInv, PoolCore, OpsInverse
  <2>2. /\ \A a \in DOMAIN t.attaches :
             t.attaches[a].op \in DOMAIN t.attachOps /\ t.attachOps[t.attaches[a].op] = a
        /\ \A o \in DOMAIN t.attachOps :
             t.attachOps[o] \in DOMAIN t.attaches /\ t.attaches[t.attachOps[o]].op = o
    BY <1>1, <1>2, <1>4 DEF PoolInv, PoolCore, OpsInverse
  <2>3. QED
    BY <2>1, <2>2 DEF OpsInverse
<1>11. Pinned(t)
  <2>1. AttachesOf(t, g) = AttachesOf(s, g) \cup {b}
    BY <1>1, <1>4 DEF AttachesOf
  <2>2. \A h \in DOMAIN s.grants \ {g} : AttachesOf(t, h) = AttachesOf(s, h)
    BY <1>1, <1>4 DEF AttachesOf
  <2>3. IsFiniteSet(AttachesOf(s, g)) /\ b \notin AttachesOf(s, g)
    BY <1>4, AttachesFinite DEF AttachesOf, PoolInv, PoolCore
  <2>4. Cardinality(AttachesOf(t, g)) = Cardinality(AttachesOf(s, g)) + 1
    BY <2>1, <2>3, FS_AddElement
  <2>5. \A h \in DOMAIN t.grants : t.grants[h].attachRefs = Cardinality(AttachesOf(t, h))
    BY <1>3, <1>5, <1>6, <2>2, <2>4 DEF PoolInv, PoolCore, Pinned
  <2>6. slots \subseteq s.grants[g].slots
    BY <1>5 DEF SourceGrants, PoolInv, PoolCore, Partitioned, PoolTyped
  <2>7. \A a \in DOMAIN t.attaches :
          /\ t.attaches[a].source \in DOMAIN t.grants
          /\ t.attaches[a].slots \subseteq t.grants[t.attaches[a].source].slots
    BY <1>1, <1>3, <1>4, <1>5, <1>7, <2>6 DEF PoolInv, PoolCore, Pinned
  <2>8. QED
    BY <2>5, <2>7 DEF Pinned
<1>12. ReleasedWaits(t)
  BY <1>3, <1>6 DEF PoolInv, ReleasedWaits
<1>13. QED
  BY <1>8, <1>9, <1>10, <1>11, <1>12 DEF PoolInv, PoolCore

-----------------------------------------------------------------------------
(* ReleaseAttach. *)

\* The first half of the release of attach a of grant g: it is forgotten.
Forgotten(s, u, a, g) ==
  /\ IsPool(u)
  /\ u.inc = s.inc /\ u.owner = s.owner /\ u.grantOps = s.grantOps
  /\ u.nextGrant = s.nextGrant /\ u.nextAttach = s.nextAttach
  /\ u.attaches = Without(s.attaches, a)
  /\ u.attachOps = Without(s.attachOps, s.attaches[a].op)
  /\ DOMAIN u.grants = DOMAIN s.grants
  /\ \A h \in DOMAIN s.grants \ {g} : u.grants[h] = s.grants[h]
  /\ u.grants[g] = [s.grants[g] EXCEPT !.attachRefs = s.grants[g].attachRefs - 1]

\* The reference count of the grant of an attach is not zero.
LEMMA GrantCounted ==
  ASSUME NEW s, PoolInv(s), NEW a \in DOMAIN s.attaches
  PROVE  LET g == s.attaches[a].source IN
         /\ g \in DOMAIN s.grants /\ s.grants[g] \in Grant
         /\ s.grants[g].attachRefs > 0
<1> DEFINE g == s.attaches[a].source
<1>1. g \in DOMAIN s.grants /\ s.grants[g] \in Grant /\ s.grants[g].attachRefs \in Nat
  BY DEF PoolInv, PoolCore, Pinned, PoolTyped, Grant
<1>2. a \in AttachesOf(s, g)
  BY DEF AttachesOf
<1>3. IsFiniteSet(AttachesOf(s, g))
  BY AttachesFinite DEF AttachesOf, PoolInv, PoolCore
<1>4. Cardinality(AttachesOf(s, g)) # 0
  BY <1>2, <1>3, FS_EmptySet
<1>5. s.grants[g].attachRefs = Cardinality(AttachesOf(s, g))
  BY <1>1 DEF PoolInv, PoolCore, Pinned
<1>6. QED
  BY <1>1, <1>4, <1>5

\* Forgetting an attach takes one reference off its grant: the test for zero in
\* the code never fails.
LEMMA ForgetEffect ==
  ASSUME NEW s, PoolInv(s), NEW a \in DOMAIN s.attaches
  PROVE  Forgotten(s, Forget(s, a, s.attaches[a].source), a, s.attaches[a].source)
<1> DEFINE g == s.attaches[a].source
           u == Forget(s, a, g)
<1>1. g \in DOMAIN s.grants /\ s.grants[g] \in Grant /\ s.grants[g].attachRefs > 0
  BY GrantCounted
<1>2. IsPool(s)
  BY DEF PoolInv, PoolCore, PoolTyped
<1> DEFINE ops == Without(s.attachOps, s.attaches[a].op)
           attaches == Without(s.attaches, a)
           grants == [h \in DOMAIN s.grants |->
                        IF h = g /\ s.grants[h].attachRefs > 0
                        THEN [s.grants[h] EXCEPT !.attachRefs = @ - 1] ELSE s.grants[h]]
<1>3. u = [s EXCEPT !.attachOps = ops, !.attaches = attaches, !.grants = grants]
  BY DEF Forget
<1> HIDE DEF ops, attaches, grants
<1>4. /\ u.inc = s.inc /\ u.owner = s.owner /\ u.grantOps = s.grantOps
      /\ u.nextGrant = s.nextGrant /\ u.nextAttach = s.nextAttach
      /\ u.attaches = attaches /\ u.attachOps = ops /\ u.grants = grants
      /\ IsPool(u)
  <2> HIDE DEF u
  <2>1. QED
    BY <1>2, <1>3 DEF IsPool
<1> HIDE DEF u, g
<1>5. /\ DOMAIN grants = DOMAIN s.grants
      /\ \A h \in DOMAIN s.grants \ {g} : grants[h] = s.grants[h]
      /\ grants[g] = [s.grants[g] EXCEPT !.attachRefs = s.grants[g].attachRefs - 1]
  BY <1>1 DEF grants
<1>6. Forgotten(s, u, a, g)
  BY <1>4, <1>5 DEF Forgotten, ops, attaches
<1>7. QED
  BY <1>6 DEF u, g

\* Forgetting an attach keeps the pool consistent, but for its grant, which may
\* have waited for it.
LEMMA ForgottenKeeps ==
  ASSUME NEW s, PoolInv(s), NEW a \in DOMAIN s.attaches, NEW u,
         Forgotten(s, u, a, s.attaches[a].source)
  PROVE  /\ PoolCore(u)
         /\ \A h \in DOMAIN u.grants \ {s.attaches[a].source} :
              u.grants[h].releaseRequested => u.grants[h].attachRefs > 0
<1> DEFINE g == s.attaches[a].source
<1>1. g \in DOMAIN s.grants /\ s.grants[g] \in Grant /\ s.grants[g].attachRefs > 0
  BY GrantCounted
<1>2. /\ DOMAIN u.attaches = DOMAIN s.attaches \ {a}
      /\ \A b \in DOMAIN u.attaches : u.attaches[b] = s.attaches[b]
  BY DEF Forgotten, Without
<1>3. /\ DOMAIN u.attachOps = DOMAIN s.attachOps \ {s.attaches[a].op}
      /\ \A o \in DOMAIN u.attachOps : u.attachOps[o] = s.attachOps[o]
  BY DEF Forgotten, Without
<1>4. /\ u.owner = s.owner /\ u.grantOps = s.grantOps /\ IsPool(u)
      /\ u.inc = s.inc /\ u.nextAttach = s.nextAttach /\ u.nextGrant = s.nextGrant
      /\ DOMAIN u.grants = DOMAIN s.grants
      /\ \A h \in DOMAIN s.grants \ {g} : u.grants[h] = s.grants[h]
  BY DEF Forgotten
<1>5. /\ u.grants[g] \in Grant /\ u.grants[g].op = s.grants[g].op
      /\ u.grants[g].slots = s.grants[g].slots
      /\ u.grants[g].attachRefs = s.grants[g].attachRefs - 1
  <2>1. \A o \in Grant : o.attachRefs > 0 =>
          LET n == [o EXCEPT !.attachRefs = o.attachRefs - 1] IN
          n \in Grant /\ n.op = o.op /\ n.slots = o.slots /\ n.attachRefs = o.attachRefs - 1
    BY DEF Grant
  <2>2. u.grants[g] = [s.grants[g] EXCEPT !.attachRefs = s.grants[g].attachRefs - 1]
    BY DEF Forgotten
  <2> HIDE DEF g
  <2>3. QED
    BY <1>1, <2>1, <2>2
<1>6. \A h \in DOMAIN s.grants :
        /\ u.grants[h] \in Grant /\ u.grants[h].op = s.grants[h].op
        /\ u.grants[h].slots = s.grants[h].slots
  BY <1>4, <1>5 DEF PoolInv, PoolCore, PoolTyped
<1>7. PoolTyped(u)
  BY <1>2, <1>4, <1>6 DEF PoolInv, PoolCore, PoolTyped
<1>8. Partitioned(u)
  BY <1>4, <1>6 DEF PoolInv, PoolCore, Partitioned
<1>9. OpsInverse(u)
  <2>1. /\ \A h \in DOMAIN u.grants :
             u.grants[h].op \in DOMAIN u.grantOps /\ u.grantOps[u.grants[h].op] = h
        /\ \A o \in DOMAIN u.grantOps :
             u.grantOps[o] \in DOMAIN u.grants /\ u.grants[u.grantOps[o]].op = o
    BY <1>4, <1>6 DEF PoolInv, PoolCore, OpsInverse
  <2>2. /\ \A b \in DOMAIN u.attaches :
             u.attaches[b].op \in DOMAIN u.attachOps /\ u.attachOps[u.attaches[b].op] = b
        /\ \A o \in DOMAIN u.attachOps :
             u.attachOps[o] \in DOMAIN u.attaches /\ u.attaches[u.attachOps[o]].op = o
    BY <1>2, <1>3 DEF PoolInv, PoolCore, OpsInverse
  <2>3. QED
    BY <2>1, <2>2 DEF OpsInverse
<1>10. Pinned(u)
  <2>1. AttachesOf(u, g) = AttachesOf(s, g) \ {a} /\ a \in AttachesOf(s, g)
    BY <1>2 DEF AttachesOf
  <2>2. \A h \in DOMAIN s.grants \ {g} : AttachesOf(u, h) = AttachesOf(s, h)
    BY <1>2 DEF AttachesOf
  <2>3. IsFiniteSet(AttachesOf(s, g))
    BY AttachesFinite DEF AttachesOf, PoolInv, PoolCore
  <2>4. Cardinality(AttachesOf(u, g)) = Cardinality(AttachesOf(s, g)) - 1
    BY <2>1, <2>3, FS_RemoveElement
  <2>5. \A h \in DOMAIN u.grants : u.grants[h].attachRefs = Cardinality(AttachesOf(u, h))
    BY <1>1, <1>4, <1>5, <2>2, <2>4 DEF PoolInv, PoolCore, Pinned
  <2>6. \A b \in DOMAIN u.attaches :
          /\ u.attaches[b].source \in DOMAIN u.grants
          /\ u.attaches[b].slots \subseteq u.grants[u.attaches[b].source].slots
    BY <1>2, <1>4, <1>6 DEF PoolInv, PoolCore, Pinned
  <2>7. QED
    BY <2>5, <2>6 DEF Pinned
<1>11. QED
  BY <1>4, <1>7, <1>8, <1>9, <1>10 DEF PoolInv, PoolCore, ReleasedWaits

\* From s to t attach a has gone, and no grant but one that waited for it.
Detached(s, t, a) ==
  /\ a \in DOMAIN s.attaches
  /\ DOMAIN t.attaches = DOMAIN s.attaches \ {a}
  /\ \A b \in DOMAIN t.attaches : t.attaches[b] = s.attaches[b]
  /\ DOMAIN t.grants \subseteq DOMAIN s.grants
  /\ \A h \in DOMAIN s.grants \ DOMAIN t.grants : s.grants[h].releaseRequested
  /\ \A h \in DOMAIN t.grants :
       /\ t.grants[h].op = s.grants[h].op /\ t.grants[h].slots = s.grants[h].slots
       /\ t.grants[h].releaseRequested = s.grants[h].releaseRequested

\* What the release of an attach does to the pool: nothing, or one attach of the
\* caller goes, and with it the grant that waited for it.
LEMMA DetachEffect ==
  ASSUME NEW s, PoolInv(s), NEW token
  PROVE  LET r == ReleaseAttach(s, token)
             t == r.state
             a == token.lease
         IN
         /\ PoolInv(t)
         /\ t.inc = s.inc /\ t.nextGrant = s.nextGrant /\ t.nextAttach = s.nextAttach
         /\ r.status # "not_ready"
         /\ \/ /\ t = s
               /\ token.inc # s.inc \/ a \notin DOMAIN s.attaches
                    \/ s.attaches[a].op.consumer # token.consumer
            \/ /\ token.inc = s.inc /\ Detached(s, t, a)
               /\ s.attaches[a].op.consumer = token.consumer
<1> DEFINE a == token.lease
           g == s.attaches[a].source
           u == Forget(s, a, g)
<1>1. CASE token.inc # s.inc \/ a \notin DOMAIN s.attaches
             \/ s.attaches[a].op.consumer # token.consumer
  BY <1>1 DEF ReleaseAttach, Refuse, Reply
<1>2. CASE /\ token.inc = s.inc /\ a \in DOMAIN s.attaches
           /\ s.attaches[a].op.consumer = token.consumer
  <2>1. Forgotten(s, u, a, g)
    BY <1>2, ForgetEffect
  <2>2. /\ ReleaseAttach(s, token).state = CollectGrant(u, g)
        /\ ReleaseAttach(s, token).status = "ok"
    BY <1>2 DEF ReleaseAttach, DropAttach, Refuse, Reply
  <2> HIDE DEF u
  <2>3. /\ PoolCore(u)
        /\ \A h \in DOMAIN u.grants \ {g} :
             u.grants[h].releaseRequested => u.grants[h].attachRefs > 0
    BY <1>2, <2>1, ForgottenKeeps
  <2> DEFINE t == CollectGrant(u, g)
  <2>4. /\ PoolInv(t) /\ t.inc = u.inc /\ t.attaches = u.attaches
        /\ t.nextGrant = u.nextGrant /\ t.nextAttach = u.nextAttach
        /\ DOMAIN t.grants = DOMAIN u.grants \ (IF Collectable(u, g) THEN {g} ELSE {})
        /\ \A h \in DOMAIN t.grants : t.grants[h] = u.grants[h]
    BY <2>3, CollectKeeps
  <2> HIDE DEF t
  <2>5. /\ DOMAIN u.attaches = DOMAIN s.attaches \ {a}
        /\ \A b \in DOMAIN u.attaches : u.attaches[b] = s.attaches[b]
        /\ DOMAIN u.grants = DOMAIN s.grants
        /\ u.inc = s.inc /\ u.nextGrant = s.nextGrant /\ u.nextAttach = s.nextAttach
    BY <2>1 DEF Forgotten, Without
  <2>6. \A h \in DOMAIN s.grants :
          /\ u.grants[h].op = s.grants[h].op /\ u.grants[h].slots = s.grants[h].slots
          /\ u.grants[h].releaseRequested = s.grants[h].releaseRequested
    <3>1. s.grants[g] \in Grant
      BY <1>2, GrantCounted
    <3>2. QED
      BY <2>1, <3>1, SMT, ZenonT(60) DEF Forgotten, Grant
  <2>7. \A h \in DOMAIN s.grants \ DOMAIN t.grants : s.grants[h].releaseRequested
    BY <2>4, <2>5, <2>6, SMT, ZenonT(60) DEF Collectable
  <2>8. \A h \in DOMAIN t.grants :
          /\ h \in DOMAIN s.grants
          /\ t.grants[h].op = s.grants[h].op /\ t.grants[h].slots = s.grants[h].slots
          /\ t.grants[h].releaseRequested = s.grants[h].releaseRequested
    BY <2>4, <2>5, <2>6
  <2>9. \A b \in DOMAIN t.attaches : b \in DOMAIN s.attaches /\ t.attaches[b] = s.attaches[b]
    BY <2>4, <2>5
  <2>10. /\ PoolInv(t) /\ t.inc = s.inc /\ t.nextGrant = s.nextGrant
         /\ t.nextAttach = s.nextAttach
         /\ DOMAIN t.attaches = DOMAIN s.attaches \ {a}
    BY <2>4, <2>5
  <2>11. ReleaseAttach(s, token).state = t /\ ReleaseAttach(s, token).status = "ok"
    BY <2>2 DEF t
  <2>12. Detached(s, t, a)
    BY <1>2, <2>4, <2>5, <2>7, <2>8, <2>9 DEF Detached
  <2>13. QED
    BY <1>2, <2>10, <2>11, <2>12
<1>3. QED
  BY <1>1, <1>2

-----------------------------------------------------------------------------
(* The clients.  Each predicate is about one client or one request and the  *)
(* pool s, so that what a step does not touch is carried over at once.      *)

IsToken(t, s) ==
  /\ t = [inc |-> t.inc, consumer |-> t.consumer, lease |-> t.lease]
  /\ t.inc \in Nat /\ t.lease \in Nat /\ t.inc <= s.inc

\* A token of a grant that is, was, or will never again be the pool's.
Genuine(t, s) ==
  /\ IsToken(t, s)
  /\ t.inc = s.inc =>
       /\ t.lease < s.nextGrant
       /\ t.lease \in DOMAIN s.grants => s.grants[t.lease].op = Op(t.consumer)

ProviderHolds(p, h, s) ==
  /\ Genuine(h.token, s) /\ h.token.consumer = p /\ h.slots \in SUBSET Slot
  /\ h.token.inc = s.inc =>
       /\ h.token.lease \in DOMAIN s.grants
       /\ ~ s.grants[h.token.lease].releaseRequested
       /\ h.slots = s.grants[h.token.lease].slots

ConsumerHolds(c, h, s) ==
  /\ Genuine(h.source, s) /\ IsToken(h.token, s)
  /\ h.token.consumer = c /\ h.token.inc = h.source.inc
  /\ h.source.inc = s.inc =>
       /\ h.token.lease \in DOMAIN s.attaches
       /\ s.attaches[h.token.lease] = [op |-> Op(c), source |-> h.source.lease, slots |-> h.slots]

\* The argument of a call.
ArgOf(c, call, arg, s) ==
  /\ call = "reserve_slots" => c \in Provider /\ arg = Op(c)
  /\ call = "release_slots" => c \in Provider /\ Genuine(arg, s) /\ arg.consumer = c
  /\ call = "acquire_attach" =>
       c \in Consumer /\ Genuine(arg.source, s) /\ arg.slots \in SUBSET Slot
  /\ call = "release_attach" => c \in Consumer /\ IsToken(arg, s) /\ arg.consumer = c
  /\ call = "release_metadata" => c \in Consumer

ClientOK(c, k, s) ==
  /\ k = [at |-> k.at, try |-> k.try, arg |-> k.arg, held |-> k.held]
  /\ k.try \in 0..2
  /\ k.try > 0 <=> k.at \in Calls
  /\ c \in Provider =>
       k.at \in {"start", "reserve_slots", "hold", "release_slots", "rejected", "done"}
  /\ c \in Consumer =>
       k.at \in {"start", "acquire_attach", "hold", "release_attach", "release_metadata", "done"}
  /\ ArgOf(c, k.at, k.arg, s)
  /\ c \in Provider /\ k.at = "hold" => ProviderHolds(c, k.held, s)
  /\ c \in Consumer /\ k.at = "hold" => ConsumerHolds(c, k.held, s)

\* Request r, whose client is k and has given up or was killed if gone.
RequestOK(r, k, s, gone) ==
  /\ r = [from |-> r.from, call |-> r.call, try |-> r.try, arg |-> r.arg]
  /\ r.from \in Client /\ r.call \in Calls
  /\ ArgOf(r.from, r.call, r.arg, s)
  /\ r.call = "release_slots" => k.at \in {"release_slots", "done"}
  /\ r.call = "release_attach" => k.at \in {"release_attach", "release_metadata", "done"}
  /\ ~ gone => k.at = r.call /\ k.try = r.try /\ k.arg = r.arg

\* Somebody wants grant g, whose provider is k; somebody wants attach a.
GrantWanted(g, k, s, gone) ==
  LET token == TokenOf(s, s.grants[g].op.consumer, g) IN
  \/ gone
  \/ k.at = "hold" /\ k.held.token = token
  \/ k.at = "release_slots" /\ k.arg = token
  \/ s.grants[g].releaseRequested /\ s.grants[g].attachRefs > 0

AttachWanted(a, k, s, gone) ==
  LET token == TokenOf(s, s.attaches[a].op.consumer, a) IN
  \/ gone
  \/ k.at = "hold" /\ k.held.token = token
  \/ k.at = "release_attach" /\ k.arg = token

ClientInv ==
  /\ client = [c \in Client |-> client[c]]
  /\ \A c \in Client : ClientOK(c, client[c], pool)

RequestInv ==
  /\ \A r \in wire \cup validated : RequestOK(r, client[r.from], pool, r.from \in lost)
  /\ \A r \in validated : r.call = "acquire_attach" /\ r.arg.source.inc = pool.inc
  /\ \A r \in wire \cap validated : r.from \in lost

WantedInv ==
  /\ \A g \in DOMAIN pool.grants :
       LET p == pool.grants[g].op.consumer IN GrantWanted(g, client[p], pool, p \in lost)
  /\ \A a \in DOMAIN pool.attaches :
       LET c == pool.attaches[a].op.consumer IN AttachWanted(a, client[c], pool, c \in lost)

\* The inductive invariant.
IInv ==
  /\ PoolInv(pool) /\ pool.inc \in 1..MaxRestarts + 1
  /\ metadata \subseteq Consumer /\ lost \subseteq Client
  /\ ClientInv /\ RequestInv /\ WantedInv

\* It implies what the runs check.
LEMMA InvariantImplies ==
  ASSUME IInv
  PROVE  TypeOK /\ SlotsExclusive /\ NothingStranded
<1>1. TypeOK
  <2>1. /\ pool.owner \in [Slot -> 0..pool.nextGrant - 1]
        /\ \A g \in DOMAIN pool.grants :
             /\ g \in 1..pool.nextGrant - 1
             /\ pool.grants[g].op.consumer \in Provider
             /\ pool.grants[g].attachRefs \in Nat /\ pool.grants[g].slots \subseteq Slot
             /\ Cardinality(pool.grants[g].slots) = Count[pool.grants[g].op.consumer]
        /\ \A a \in DOMAIN pool.attaches : pool.attaches[a].op.consumer \in Consumer
    BY DEF IInv, PoolInv, PoolCore, PoolTyped, Grant, AttachRecord, Op
  <2>2. /\ \A r \in wire : r.from \in Client /\ r.call \in Calls
        /\ \A r \in validated : r.call = "acquire_attach"
    BY DEF IInv, RequestInv, RequestOK
  <2>3. QED
    BY <2>1, <2>2 DEF IInv, TypeOK
<1>2. PoolConsistent
  <2>1. SlotsPartitioned
    BY DEF IInv, PoolInv, PoolCore, Partitioned, SlotsPartitioned
  <2>2. AttachPinsSlots
    BY DEF IInv, PoolInv, PoolCore, Pinned, AttachesOf, AttachPinsSlots
  <2>3. OneLiveAttach
    BY DEF IInv, PoolInv, PoolCore, OpsInverse, OneLiveAttach
  <2>4. QED
    BY <2>1, <2>2, <2>3 DEF PoolConsistent
<1>3. HeldSlotsExclusive
  <2> DEFINE Holder == {c \in Client : client[c].at = "hold" /\ GrantHeld(c).inc = pool.inc}
  <2>1. ASSUME NEW c \in Holder
        PROVE  /\ GrantHeld(c).lease \in DOMAIN pool.grants
               /\ client[c].held.slots \subseteq pool.grants[GrantHeld(c).lease].slots
               /\ Genuine(GrantHeld(c), pool)
    <3>1. CASE c \in Provider
      <4>1. ProviderHolds(c, client[c].held, pool)
        BY <3>1 DEF IInv, ClientInv, ClientOK
      <4>2. QED
        BY <3>1, <4>1 DEF ProviderHolds, GrantHeld
    <3>2. CASE c \notin Provider
      <4>1. ConsumerHolds(c, client[c].held, pool) /\ GrantHeld(c) = client[c].held.source
        BY <3>2 DEF IInv, ClientInv, ClientOK, Client, GrantHeld
      <4>2. QED
        BY <4>1 DEF ConsumerHolds, IInv, PoolInv, PoolCore, Pinned
    <3>3. QED
      BY <3>1, <3>2
  <2>2. \A c \in Holder : \A n \in client[c].held.slots : pool.owner[n] = GrantHeld(c).lease
    BY <2>1 DEF IInv, PoolInv, PoolCore, Partitioned
  <2>3. ASSUME NEW b \in Holder, NEW c \in Holder, GrantHeld(b) # GrantHeld(c),
               NEW n \in client[b].held.slots \cap client[c].held.slots
        PROVE  FALSE
    <3>1. GrantHeld(b).lease = GrantHeld(c).lease /\ GrantHeld(b).inc = GrantHeld(c).inc
      BY <2>2, <2>3
    <3>2. /\ Genuine(GrantHeld(b), pool) /\ Genuine(GrantHeld(c), pool)
          /\ GrantHeld(b).lease \in DOMAIN pool.grants /\ GrantHeld(b).inc = pool.inc
      BY <2>1
    <3>3. Op(GrantHeld(b).consumer) = Op(GrantHeld(c).consumer)
      BY <3>1, <3>2 DEF Genuine
    <3>4. GrantHeld(b).consumer = GrantHeld(c).consumer
      BY <3>3 DEF Op
    <3>5. QED
      BY <2>3, <3>1, <3>2, <3>4 DEF Genuine, IsToken
  <2>4. QED
    BY <2>2, <2>3 DEF HeldSlotsExclusive
<1>4. NothingStranded
  BY DEF IInv, WantedInv, GrantWanted, AttachWanted, NothingStranded
<1>5. QED
  BY <1>1, <1>2, <1>3, <1>4 DEF SlotsExclusive

-----------------------------------------------------------------------------
(* What an operation of the pool leaves alone.                              *)

\* From s to t: identities are not reused, and only grants and attaches of the
\* client by can end, or a grant that was already being released.
PoolStep(s, t, by) ==
  /\ t.inc = s.inc /\ t.nextGrant \in Nat /\ s.nextGrant <= t.nextGrant
  /\ \A g \in DOMAIN t.grants :
       IF g \in DOMAIN s.grants
       THEN /\ t.grants[g].op = s.grants[g].op /\ t.grants[g].slots = s.grants[g].slots
            /\ s.grants[g].releaseRequested => t.grants[g].releaseRequested
       ELSE g = s.nextGrant
  /\ \A g \in DOMAIN s.grants :
       s.grants[g].op.consumer # by /\ ~ s.grants[g].releaseRequested =>
         g \in DOMAIN t.grants /\ ~ t.grants[g].releaseRequested
  /\ \A a \in DOMAIN s.attaches :
       s.attaches[a].op.consumer # by => a \in DOMAIN t.attaches
  /\ \A a \in DOMAIN s.attaches \cap DOMAIN t.attaches : t.attaches[a] = s.attaches[a]

\* A refusal is a step of the pool.
LEMMA SamePool ==
  ASSUME NEW s, PoolInv(s), NEW by
  PROVE  PoolStep(s, s, by)
BY DEF PoolStep, PoolInv, PoolCore, PoolTyped

\* A reservation is a step of the pool.
LEMMA ReservedStep ==
  ASSUME NEW s, PoolInv(s), NEW t, NEW p, NEW slots, Reserved(s, t, p, slots), NEW by
  PROVE  PoolStep(s, t, by)
<1>1. /\ DOMAIN t.grants = DOMAIN s.grants \cup {s.nextGrant}
      /\ \A h \in DOMAIN s.grants \ {s.nextGrant} : t.grants[h] = s.grants[h]
  BY DEF Reserved, With
<1>2. s.nextGrant \notin DOMAIN s.grants /\ s.nextGrant \in Nat
  BY DEF PoolInv, PoolCore, PoolTyped
<1>3. t.inc = s.inc /\ t.attaches = s.attaches /\ t.nextGrant = s.nextGrant + 1
  BY DEF Reserved
<1>4. QED
  BY <1>1, <1>2, <1>3 DEF PoolStep

\* The release of a grant ends no grant but one of the caller.
LEMMA ReleaseStep ==
  ASSUME NEW s, PoolInv(s), NEW token
  PROVE  PoolStep(s, ReleaseSlots(s, token).state, token.consumer)
<1> DEFINE t == ReleaseSlots(s, token).state
           g == token.lease
<1>1. CASE t = s
  BY <1>1, SamePool
<1>2. CASE t # s
  <2>1. /\ t.inc = s.inc /\ t.attaches = s.attaches /\ t.nextGrant = s.nextGrant
        /\ g \in DOMAIN s.grants /\ s.grants[g].op.consumer = token.consumer
        /\ DOMAIN t.grants \subseteq DOMAIN s.grants
        /\ DOMAIN s.grants \ {g} \subseteq DOMAIN t.grants
        /\ \A h \in DOMAIN t.grants \ {g} : t.grants[h] = s.grants[h]
        /\ g \in DOMAIN t.grants =>
             t.grants[g] = [s.grants[g] EXCEPT !.releaseRequested = TRUE]
    BY <1>2, ReleaseEffect
  <2>2. s.grants[g] \in Grant /\ s.nextGrant \in Nat
    BY <2>1 DEF PoolInv, PoolCore, PoolTyped
  <2> HIDE DEF t, g
  <2>3. g \in DOMAIN t.grants =>
          /\ t.grants[g].op = s.grants[g].op /\ t.grants[g].slots = s.grants[g].slots
          /\ t.grants[g].releaseRequested
    BY <2>1, <2>2 DEF Grant
  <2>4. PoolStep(s, t, token.consumer)
    BY <2>1, <2>2, <2>3 DEF PoolStep
  <2>5. QED
    BY <2>4 DEF t
<1>3. QED
  BY <1>1, <1>2

\* An attach is a step of the pool.
LEMMA AttachedStep ==
  ASSUME NEW s, PoolInv(s), NEW t, NEW c, NEW g \in DOMAIN s.grants, NEW slots,
         Attached(s, t, c, g, slots), NEW by
  PROVE  PoolStep(s, t, by)
<1>1. /\ DOMAIN t.attaches = DOMAIN s.attaches \cup {s.nextAttach}
      /\ \A a \in DOMAIN s.attaches \ {s.nextAttach} : t.attaches[a] = s.attaches[a]
  BY DEF Attached, With
<1>2. s.nextAttach \notin DOMAIN s.attaches /\ s.nextGrant \in Nat
  BY DEF PoolInv, PoolCore, PoolTyped
<1>3. s.grants[g] \in Grant
  BY DEF PoolInv, PoolCore, PoolTyped
<1>4. /\ t.grants[g].op = s.grants[g].op /\ t.grants[g].slots = s.grants[g].slots
      /\ t.grants[g].releaseRequested = s.grants[g].releaseRequested
  BY <1>3 DEF Attached, Grant
<1>5. /\ t.inc = s.inc /\ t.nextGrant = s.nextGrant /\ DOMAIN t.grants = DOMAIN s.grants
      /\ \A h \in DOMAIN s.grants \ {g} : t.grants[h] = s.grants[h]
  BY DEF Attached
<1>6. \A h \in DOMAIN s.grants :
        /\ t.grants[h].op = s.grants[h].op /\ t.grants[h].slots = s.grants[h].slots
        /\ t.grants[h].releaseRequested = s.grants[h].releaseRequested
  BY <1>4, <1>5
<1>7. QED
  BY <1>1, <1>2, <1>5, <1>6 DEF PoolStep

\* The release of an attach ends no attach but one of the caller, and no grant
\* but one that was being released.
LEMMA DetachStep ==
  ASSUME NEW s, PoolInv(s), NEW token
  PROVE  PoolStep(s, ReleaseAttach(s, token).state, token.consumer)
<1> DEFINE t == ReleaseAttach(s, token).state
<1>0. s.nextGrant \in Nat
  BY DEF PoolInv, PoolCore, PoolTyped
<1>1. CASE t = s
  BY <1>1, SamePool
<1>2. CASE /\ t.inc = s.inc /\ t.nextGrant = s.nextGrant
           /\ Detached(s, t, token.lease)
           /\ s.attaches[token.lease].op.consumer = token.consumer
  <2> HIDE DEF t
  <2>1. PoolStep(s, t, token.consumer)
    BY <1>0, <1>2 DEF PoolStep, Detached
  <2>2. QED
    BY <2>1 DEF t
<1>3. QED
  <2> HIDE DEF t
  <2>1. /\ t.inc = s.inc /\ t.nextGrant = s.nextGrant
        /\ t = s \/ (Detached(s, t, token.lease)
                     /\ s.attaches[token.lease].op.consumer = token.consumer)
    BY DetachEffect DEF t
  <2>2. QED
    BY <1>1, <1>2, <2>1 DEF t

\* A token stays genuine.
LEMMA StepKeepsTokens ==
  ASSUME NEW s, PoolInv(s), NEW t, NEW by, PoolStep(s, t, by), NEW x
  PROVE  /\ IsToken(x, s) => IsToken(x, t)
         /\ Genuine(x, s) => Genuine(x, t)
<1>1. s.nextGrant \in Nat /\ t.inc = s.inc
  BY DEF PoolStep, PoolInv, PoolCore, PoolTyped
<1>2. IsToken(x, s) => IsToken(x, t)
  BY <1>1 DEF IsToken
<1>3. ASSUME Genuine(x, s), x.inc = t.inc
      PROVE  x.lease < t.nextGrant
             /\ (x.lease \in DOMAIN t.grants => t.grants[x.lease].op = Op(x.consumer))
  <2>1. x.lease \in Nat /\ x.lease < s.nextGrant
    BY <1>1, <1>3 DEF Genuine, IsToken
  <2>2. s.nextGrant <= t.nextGrant /\ t.nextGrant \in Int
    BY DEF PoolStep
  <2>3. ASSUME x.lease \in DOMAIN t.grants
        PROVE  t.grants[x.lease].op = Op(x.consumer)
    BY <1>1, <1>3, <2>1, <2>3 DEF PoolStep, Genuine
  <2>4. QED
    BY <1>1, <2>1, <2>2, <2>3
<1>4. QED
  BY <1>2, <1>3 DEF Genuine

\* What a client holds stays good, unless the step is its own release.
LEMMA StepKeepsClient ==
  ASSUME NEW s, PoolInv(s), NEW t, NEW by, PoolStep(s, t, by),
         NEW c \in Client, NEW k, ClientOK(c, k, s), by = c => k.at # "hold"
  PROVE  ClientOK(c, k, t)
<1>1. ArgOf(c, k.at, k.arg, t)
  BY StepKeepsTokens DEF ClientOK, ArgOf
<1>2. ASSUME c \in Provider, k.at = "hold"
      PROVE  ProviderHolds(c, k.held, t)
  <2> DEFINE h == k.held
  <2>1. ProviderHolds(c, h, s)
    BY <1>2 DEF ClientOK
  <2>2. Genuine(h.token, t)
    BY <2>1, StepKeepsTokens DEF ProviderHolds
  <2>3. ASSUME h.token.inc = t.inc
        PROVE  /\ h.token.lease \in DOMAIN t.grants
               /\ ~ t.grants[h.token.lease].releaseRequested
               /\ h.slots = t.grants[h.token.lease].slots
    <3>1. /\ h.token.lease \in DOMAIN s.grants
          /\ ~ s.grants[h.token.lease].releaseRequested
          /\ h.slots = s.grants[h.token.lease].slots
          /\ s.grants[h.token.lease].op = Op(c)
      BY <2>1, <2>3 DEF ProviderHolds, PoolStep, Genuine
    <3>2. s.grants[h.token.lease].op.consumer # by
      BY <1>2, <3>1 DEF Op
    <3>3. QED
      BY <3>1, <3>2 DEF PoolStep
  <2>4. QED
    BY <2>1, <2>2, <2>3 DEF ProviderHolds
<1>3. ASSUME c \in Consumer, k.at = "hold"
      PROVE  ConsumerHolds(c, k.held, t)
  <2> DEFINE h == k.held
  <2>1. ConsumerHolds(c, h, s)
    BY <1>3 DEF ClientOK
  <2>2. Genuine(h.source, t) /\ IsToken(h.token, t)
    BY <2>1, StepKeepsTokens DEF ConsumerHolds
  <2>3. ASSUME h.source.inc = t.inc
        PROVE  /\ h.token.lease \in DOMAIN t.attaches
               /\ t.attaches[h.token.lease] =
                    [op |-> Op(c), source |-> h.source.lease, slots |-> h.slots]
    <3>1. /\ h.token.lease \in DOMAIN s.attaches
          /\ s.attaches[h.token.lease] =
                    [op |-> Op(c), source |-> h.source.lease, slots |-> h.slots]
      BY <2>1, <2>3 DEF ConsumerHolds, PoolStep
    <3>2. s.attaches[h.token.lease].op.consumer # by
      BY <1>3, <3>1 DEF Op
    <3>3. QED
      BY <3>1, <3>2 DEF PoolStep
  <2>4. QED
    BY <2>1, <2>2, <2>3 DEF ConsumerHolds
<1>4. QED
  BY <1>1, <1>2, <1>3 DEF ClientOK

\* A request stays in order when the pool takes a step.
LEMMA StepKeepsRequest ==
  ASSUME NEW s, PoolInv(s), NEW t, NEW by, PoolStep(s, t, by),
         NEW r, NEW k, NEW gone, RequestOK(r, k, s, gone)
  PROVE  RequestOK(r, k, t, gone)
<1>1. ArgOf(r.from, r.call, r.arg, t)
  BY StepKeepsTokens DEF RequestOK, ArgOf
<1>2. QED
  BY <1>1 DEF RequestOK

\* A grant or an attach that is not new, and does not belong to a client whose
\* release this is, is wanted as before.
LEMMA StepKeepsWanted ==
  ASSUME NEW s, PoolInv(s), NEW t, PoolInv(t), NEW by, PoolStep(s, t, by), NEW k, NEW gone
  PROVE  /\ \A g \in DOMAIN s.grants \cap DOMAIN t.grants :
              GrantWanted(g, k, s, gone) => GrantWanted(g, k, t, gone)
         /\ \A a \in DOMAIN s.attaches \cap DOMAIN t.attaches :
              AttachWanted(a, k, s, gone) => AttachWanted(a, k, t, gone)
<1>1. \A x, c : TokenOf(s, c, x) = TokenOf(t, c, x)
  BY DEF PoolStep, TokenOf
<1>2. \A g \in DOMAIN s.grants \cap DOMAIN t.grants :
        /\ t.grants[g].op = s.grants[g].op
        /\ s.grants[g].releaseRequested =>
             t.grants[g].releaseRequested /\ t.grants[g].attachRefs > 0
  BY DEF PoolStep, PoolInv, ReleasedWaits
<1>3. \A a \in DOMAIN s.attaches \cap DOMAIN t.attaches : t.attaches[a].op = s.attaches[a].op
  BY DEF PoolStep
<1>4. QED
  BY <1>1, <1>2, <1>3 DEF GrantWanted, AttachWanted
-----------------------------------------------------------------------------
(* One client at a time.                                                    *)

\* What a step of client c, or of the agent for c, may do: c becomes k, its
\* requests may only be served, retried or left behind, the pool takes a step.
Move(c, k, by) ==
  /\ PoolInv(pool') /\ PoolStep(pool, pool', by)
  /\ by # c => by \notin Client
  /\ by = c => client[c].at # "hold"
  /\ metadata' \subseteq Consumer
  /\ lost \subseteq lost' /\ lost' \subseteq Client
  /\ client' = [client EXCEPT ![c] = k]
  /\ wire' \subseteq wire \cup Sent(c, k) /\ validated' \subseteq validated \cup wire
  /\ ClientOK(c, k, pool')

\* The requests that client c leaves behind are those of a client that is
\* lost, or those of the call it still waits for.
LeavesRequests(c, k) ==
  /\ \A r \in (wire' \cup validated') \cap (wire \cup validated) :
       r.from = c => RequestOK(r, k, pool, c \in lost')
  /\ \A r \in validated' : r.call = "acquire_attach" /\ r.arg.source.inc = pool.inc
  /\ \A r \in wire' \cap validated' : r.from \in lost'

\* What the pool has of client c is wanted; what it has got is of c.
LeavesWanted(c, k) ==
  /\ \A g \in DOMAIN pool'.grants :
       /\ pool'.grants[g].op.consumer = c => GrantWanted(g, k, pool', c \in lost')
       /\ g \notin DOMAIN pool.grants => pool'.grants[g].op.consumer = c
  /\ \A a \in DOMAIN pool'.attaches :
       /\ pool'.attaches[a].op.consumer = c => AttachWanted(a, k, pool', c \in lost')
       /\ a \notin DOMAIN pool.attaches => pool'.attaches[a].op.consumer = c

\* What client c sends is the call it waits for.
LEMMA SentOK ==
  ASSUME NEW s, NEW c \in Client, NEW k, ClientOK(c, k, s), NEW r \in Sent(c, k), NEW gone
  PROVE  r.from = c /\ RequestOK(r, k, s, gone)
<1>1. /\ r = [from |-> c, call |-> k.at, try |-> k.try, arg |-> k.arg]
      /\ k.try > 0
  BY DEF Sent, IsWaiting
<1>2. k.at \in Calls /\ ArgOf(c, k.at, k.arg, s)
  BY <1>1 DEF ClientOK
<1>3. QED
  BY <1>1, <1>2 DEF RequestOK

\* Such a step keeps the inductive invariant.
LEMMA MoveKeeps ==
  ASSUME IInv, NEW c \in Client, NEW k, NEW by, Move(c, k, by),
         LeavesRequests(c, k), LeavesWanted(c, k)
  PROVE  IInv'
<1>1. PoolInv(pool) /\ PoolStep(pool, pool', by) /\ PoolInv(pool')
  BY DEF IInv, Move
<1>2. pool'.inc = pool.inc
  BY <1>1 DEF PoolStep
<1>3. client'[c] = k /\ \A d \in Client \ {c} : client'[d] = client[d]
  BY DEF Move, IInv, ClientInv
<1>4. ClientInv'
  <2>1. ASSUME NEW d \in Client
        PROVE  ClientOK(d, client'[d], pool')
    <3>1. CASE d = c
      BY <1>3, <3>1 DEF Move
    <3>2. CASE d # c
      <4>1. ClientOK(d, client[d], pool) /\ by # d
        BY <3>2 DEF IInv, ClientInv, Move
      <4>2. ClientOK(d, client[d], pool')
        BY <1>1, <4>1, StepKeepsClient
      <4>3. QED
        BY <1>3, <3>2, <4>2
    <3>3. QED
      BY <3>1, <3>2
  <2>2. client' = [d \in Client |-> client'[d]]
    BY DEF Move, IInv, ClientInv
  <2>3. QED
    BY <2>1, <2>2 DEF ClientInv
<1>5. RequestInv'
  <2>1. ASSUME NEW r \in wire' \cup validated'
        PROVE  RequestOK(r, client'[r.from], pool', r.from \in lost')
    <3>1. CASE r \in wire \cup validated
      <4>1. RequestOK(r, client[r.from], pool, r.from \in lost) /\ r.from \in Client
        BY <3>1 DEF IInv, RequestInv, RequestOK
      <4>2. RequestOK(r, client'[r.from], pool, r.from \in lost')
        <5>1. CASE r.from = c
          BY <1>3, <2>1, <3>1, <5>1 DEF LeavesRequests
        <5>2. CASE r.from # c
          <6>1. client'[r.from] = client[r.from] /\ (r.from \in lost => r.from \in lost')
            BY <1>3, <4>1, <5>2 DEF Move
          <6>2. QED
            BY <4>1, <6>1 DEF RequestOK
        <5>3. QED
          BY <5>1, <5>2
      <4>3. QED
        BY <1>1, <4>2, StepKeepsRequest
    <3>2. CASE r \in Sent(c, k)
      BY <1>3, <3>2, SentOK DEF Move
    <3>3. QED
      BY <2>1, <3>1, <3>2 DEF Move
  <2>2. QED
    BY <1>2, <2>1 DEF RequestInv, LeavesRequests
<1>6. WantedInv'
  <2>1. ASSUME NEW g \in DOMAIN pool'.grants
        PROVE  LET p == pool'.grants[g].op.consumer IN
               GrantWanted(g, client'[p], pool', p \in lost')
    <3> DEFINE p == pool'.grants[g].op.consumer
    <3>1. CASE p = c
      BY <1>3, <3>1 DEF LeavesWanted
    <3>2. CASE p # c
      <4>1. g \in DOMAIN pool.grants /\ pool.grants[g].op.consumer = p /\ p \in Client
        BY <1>1, <3>2
        DEF LeavesWanted, PoolStep, PoolInv, PoolCore, PoolTyped, Grant, Op, Client
      <4>2. GrantWanted(g, client[p], pool, p \in lost)
        BY <4>1 DEF IInv, WantedInv
      <4>3. client'[p] = client[p] /\ (p \in lost => p \in lost')
        BY <1>3, <3>2, <4>1 DEF Move
      <4> HIDE DEF p
      <4>4. GrantWanted(g, client[p], pool', p \in lost)
        BY <1>1, <4>1, <4>2, StepKeepsWanted
      <4>5. QED
        BY <4>3, <4>4 DEF GrantWanted, p
    <3>3. QED
      BY <3>1, <3>2
  <2>2. ASSUME NEW a \in DOMAIN pool'.attaches
        PROVE  LET d == pool'.attaches[a].op.consumer IN
               AttachWanted(a, client'[d], pool', d \in lost')
    <3> DEFINE d == pool'.attaches[a].op.consumer
    <3>1. CASE d = c
      BY <1>3, <3>1 DEF LeavesWanted
    <3>2. CASE d # c
      <4>1. a \in DOMAIN pool.attaches /\ pool.attaches[a].op.consumer = d /\ d \in Client
        BY <1>1, <3>2
        DEF LeavesWanted, PoolStep, PoolInv, PoolCore, PoolTyped, AttachRecord, Op, Client
      <4>2. AttachWanted(a, client[d], pool, d \in lost)
        BY <4>1 DEF IInv, WantedInv
      <4>3. client'[d] = client[d] /\ (d \in lost => d \in lost')
        BY <1>3, <3>2, <4>1 DEF Move
      <4> HIDE DEF d
      <4>4. AttachWanted(a, client[d], pool', d \in lost)
        BY <1>1, <4>1, <4>2, StepKeepsWanted
      <4>5. QED
        BY <4>3, <4>4 DEF AttachWanted, d
    <3>3. QED
      BY <3>1, <3>2
  <2>3. QED
    BY <2>1, <2>2 DEF WantedInv
<1>7. QED
  BY <1>1, <1>2, <1>4, <1>5, <1>6 DEF IInv, Move
-----------------------------------------------------------------------------
(* Which requests and which leases of a client there are.                   *)

\* Once a client has sent a release it does not go back to where another call
\* of it could be undone by that release.
Follows(k, next) ==
  /\ k.at \in {"release_slots", "done"} => next.at \in {"release_slots", "done"}
  /\ k.at \in {"release_attach", "release_metadata", "done"} =>
       next.at \in {"release_attach", "release_metadata", "done"}

\* The requests a lost client c has left are in order whatever it becomes.
LEMMA LostRequests ==
  ASSUME IInv, NEW c \in Client, NEW k, Follows(client[c], k),
         NEW r \in wire \cup validated, r.from = c
  PROVE  RequestOK(r, k, pool, TRUE)
<1>1. RequestOK(r, client[c], pool, c \in lost)
  BY DEF IInv, RequestInv
<1>2. QED
  BY <1>1 DEF RequestOK, Follows

\* A client that is not lost has no request but the one it waits for.
LEMMA OnlyRequest ==
  ASSUME IInv, NEW c \in Client, c \notin lost, NEW r \in wire \cup validated, r.from = c
  PROVE  /\ r = [from |-> c, call |-> client[c].at, try |-> client[c].try,
                 arg |-> client[c].arg]
         /\ client[c].at \in Calls
BY DEF IInv, RequestInv, RequestOK

\* A client that waits for no release and holds nothing has no attach, and no
\* grant but one that is being released.
LEMMA NothingOwned ==
  ASSUME IInv, NEW c \in Client, c \notin lost,
         client[c].at \notin {"hold", "release_slots", "release_attach"}
  PROVE  /\ \A g \in DOMAIN pool.grants : pool.grants[g].op.consumer = c =>
              pool.grants[g].releaseRequested /\ pool.grants[g].attachRefs > 0
         /\ \A a \in DOMAIN pool.attaches : pool.attaches[a].op.consumer # c
BY DEF IInv, WantedInv, GrantWanted, AttachWanted

\* Grants are of providers, attaches of consumers.
LEMMA OwnersDiffer ==
  ASSUME NEW s, PoolInv(s)
  PROVE  /\ \A g \in DOMAIN s.grants : s.grants[g].op.consumer \in Provider
         /\ \A a \in DOMAIN s.attaches : s.attaches[a].op.consumer \in Consumer
BY DEF PoolInv, PoolCore, PoolTyped, Grant, AttachRecord, Op

\* The answer of a call takes a client to a state it may be in.
LEMMA ReturnedOK ==
  ASSUME NEW s, NEW c \in Client, NEW k, ClientOK(c, k, s), IsWaiting(k),
         NEW status, NEW value,
         k.at = "reserve_slots" /\ status = "ok" => ProviderHolds(c, value, s),
         k.at = "acquire_attach" /\ status = "ok" => ConsumerHolds(c, value, s)
  PROVE  /\ ClientOK(c, Returned(k, status, value), s)
         /\ Follows(k, Returned(k, status, value))
<1>1. /\ k = [at |-> k.at, try |-> k.try, arg |-> k.arg, held |-> k.held]
      /\ k.try \in 1..2 /\ k.at \in Calls /\ ArgOf(c, k.at, k.arg, s)
      /\ c \in Provider => k.at \in {"reserve_slots", "release_slots"}
      /\ c \in Consumer => k.at \in {"acquire_attach", "release_attach", "release_metadata"}
      /\ c \in Provider \/ c \in Consumer
  BY DEF ClientOK, IsWaiting, Calls, Client
<1>2. CASE Repeats(k, status)
  <2>1. Returned(k, status, value) = [at |-> k.at, try |-> 2, arg |-> k.arg, held |-> k.held]
    BY <1>1, <1>2 DEF Returned, Again
  <2>2. QED
    BY <1>1, <2>1 DEF ClientOK, Follows, Calls
<1>3. CASE ~ Repeats(k, status) /\ k.at \in {"reserve_slots", "acquire_attach"} /\ status = "ok"
  <2>1. Returned(k, status, value) = [at |-> "hold", try |-> 0, arg |-> Nothing, held |-> value]
    BY <1>3 DEF Returned, Resting
  <2>2. QED
    BY <1>1, <1>3, <2>1, ClientAssumption DEF ClientOK, Follows, Calls, ArgOf
<1>4. CASE ~ Repeats(k, status) /\ k.at = "reserve_slots" /\ status = "invalid_argument"
  <2>1. Returned(k, status, value) = [at |-> "rejected", try |-> 0, arg |-> Nothing,
                                      held |-> Nothing]
    BY <1>4 DEF Returned, Resting
  <2>2. QED
    BY <1>1, <1>4, <2>1, ClientAssumption DEF ClientOK, Follows, Calls, ArgOf
<1>5. CASE /\ ~ Repeats(k, status)
           /\ (k.at = "acquire_attach" /\ status # "ok") \/ k.at = "release_attach"
  <2>1. Returned(k, status, value) = [at |-> "release_metadata", try |-> 1, arg |-> Nothing,
                                      held |-> Nothing]
    BY <1>5 DEF Returned, Waiting
  <2>2. QED
    BY <1>1, <1>5, <2>1, ClientAssumption DEF ClientOK, Follows, Calls, ArgOf
<1>6. CASE /\ ~ Repeats(k, status)
           /\ (k.at = "reserve_slots" /\ status \notin {"ok", "invalid_argument"})
                \/ k.at \in {"release_slots", "release_metadata"}
  <2>1. Returned(k, status, value) = [at |-> "done", try |-> 0, arg |-> Nothing,
                                      held |-> Nothing]
    BY <1>6 DEF Returned, Resting
  <2>2. QED
    BY <1>1, <1>6, <2>1, ClientAssumption DEF ClientOK, Follows, Calls, ArgOf
<1>7. QED
  BY <1>1, <1>2, <1>3, <1>4, <1>5, <1>6 DEF Calls
-----------------------------------------------------------------------------
(* The steps of the clients.                                                *)

\* A client at rest makes a call: its first one, or one that gives back what it
\* holds.
LEMMA CallKeeps ==
  ASSUME IInv, NEW c \in Client, NEW k,
         ClientOK(c, k, pool), Becomes(c, k, wire),
         \/ client[c].at = "start"
         \/ /\ client[c].at = "hold" /\ k.arg = client[c].held.token
            /\ k.at \in {"release_slots", "release_attach"}
            /\ c \in Provider => k.at = "release_slots"
            /\ c \in Consumer => k.at = "release_attach",
         metadata' \subseteq Consumer, UNCHANGED <<pool, validated, lost>>
  PROVE  IInv'
<1>1. PoolInv(pool) /\ PoolStep(pool, pool, Nothing)
  BY SamePool DEF IInv
<1>2. Nothing \notin Client
  BY ClientAssumption
<1>3. Move(c, k, Nothing)
  BY <1>1, <1>2 DEF Move, Becomes, IInv
<1>4. client[c].at \notin Calls \cup {"done"}
  BY DEF Calls
<1>5. \A r \in wire \cup validated : r.from = c => c \in lost
  BY <1>4, OnlyRequest
<1>6. LeavesRequests(c, k)
  <2>1. Follows(client[c], k)
    BY <1>4 DEF Follows, Calls
  <2>2. \A r \in wire \cup validated : r.from = c => RequestOK(r, k, pool, c \in lost)
    <3>1. ASSUME NEW r \in wire \cup validated, r.from = c
          PROVE  RequestOK(r, k, pool, TRUE)
      BY <2>1, <3>1, LostRequests
    <3>2. QED
      BY <1>5, <3>1
  <2>3. \A r \in wire' \cap validated' : r.from \in lost
    <3>1. \A r \in Sent(c, k) : r.from = c
      BY DEF Sent
    <3>2. QED
      BY <1>5, <3>1 DEF Becomes, IInv, RequestInv
  <2>4. QED
    BY <2>2, <2>3 DEF LeavesRequests, IInv, RequestInv
<1>7. LeavesWanted(c, k)
  <2>1. \A g \in DOMAIN pool.grants : pool.grants[g].op.consumer = c =>
          GrantWanted(g, client[c], pool, c \in lost)
    BY DEF IInv, WantedInv
  <2>2. \A a \in DOMAIN pool.attaches : pool.attaches[a].op.consumer = c =>
          AttachWanted(a, client[c], pool, c \in lost)
    BY DEF IInv, WantedInv
  <2>3. \A g \in DOMAIN pool.grants : pool.grants[g].op.consumer = c =>
          GrantWanted(g, k, pool, c \in lost)
    BY <1>1, <2>1, OwnersDiffer DEF GrantWanted
  <2>4. \A a \in DOMAIN pool.attaches : pool.attaches[a].op.consumer = c =>
          AttachWanted(a, k, pool, c \in lost)
    BY <1>1, <2>2, OwnersDiffer DEF AttachWanted
  <2>5. QED
    BY <2>3, <2>4 DEF LeavesWanted
<1>8. QED
  BY <1>3, <1>6, <1>7, MoveKeeps

\* A provider asks for its slots.
LEMMA CallReserveKeeps ==
  ASSUME IInv, NEW p \in Provider, CallReserve(p)
  PROVE  IInv'
<1> DEFINE k == [at |-> "reserve_slots", try |-> 1, arg |-> Op(p), held |-> Nothing]
<1>1. p \in Client /\ p \notin Consumer
  BY ClientAssumption DEF Client
<1>2. ClientOK(p, k, pool)
  BY <1>1 DEF ClientOK, ArgOf, Calls
<1>3. client[p].at = "start" /\ Becomes(p, k, wire) /\ UNCHANGED <<pool, metadata, validated, lost>>
  BY DEF CallReserve, Waiting, Op
<1>4. metadata' \subseteq Consumer
  BY <1>3 DEF IInv
<1> HIDE DEF k
<1>5. QED
  BY <1>1, <1>2, <1>3, <1>4, CallKeeps

\* A provider gives its grant back.
LEMMA CallReleaseKeeps ==
  ASSUME IInv, NEW p \in Provider, CallRelease(p)
  PROVE  IInv'
<1> DEFINE k == [at |-> "release_slots", try |-> 1, arg |-> client[p].held.token,
                 held |-> Nothing]
<1>1. p \in Client /\ p \notin Consumer
  BY ClientAssumption DEF Client
<1>2. ClientOK(p, k, pool)
  <2>1. ClientOK(p, client[p], pool) /\ client[p].at = "hold"
    BY <1>1 DEF IInv, ClientInv, CallRelease
  <2>2. Genuine(client[p].held.token, pool) /\ client[p].held.token.consumer = p
    BY <2>1 DEF ClientOK, ProviderHolds
  <2>3. QED
    BY <1>1, <2>2 DEF ClientOK, ArgOf, Calls
<1>3. /\ client[p].at = "hold" /\ Becomes(p, k, wire)
      /\ UNCHANGED <<pool, metadata, validated, lost>>
  BY DEF CallRelease, Waiting
<1>4. metadata' \subseteq Consumer /\ k.at = "release_slots" /\ k.arg = client[p].held.token
  BY <1>3 DEF IInv
<1> HIDE DEF k
<1>5. QED
  BY <1>1, <1>2, <1>3, <1>4, CallKeeps

\* A consumer gives its attach back.
LEMMA CallDetachKeeps ==
  ASSUME IInv, NEW c \in Consumer, CallDetach(c)
  PROVE  IInv'
<1> DEFINE k == [at |-> "release_attach", try |-> 1, arg |-> client[c].held.token,
                 held |-> Nothing]
<1>1. c \in Client /\ c \notin Provider
  BY ClientAssumption DEF Client
<1>2. ClientOK(c, k, pool)
  <2>1. ClientOK(c, client[c], pool) /\ client[c].at = "hold"
    BY <1>1 DEF IInv, ClientInv, CallDetach
  <2>2. IsToken(client[c].held.token, pool) /\ client[c].held.token.consumer = c
    BY <2>1 DEF ClientOK, ConsumerHolds
  <2>3. QED
    BY <1>1, <2>2 DEF ClientOK, ArgOf, Calls
<1>3. /\ client[c].at = "hold" /\ Becomes(c, k, wire)
      /\ UNCHANGED <<pool, metadata, validated, lost>>
  BY DEF CallDetach, Waiting
<1>4. metadata' \subseteq Consumer /\ k.at = "release_attach" /\ k.arg = client[c].held.token
  BY <1>3 DEF IInv
<1> HIDE DEF k
<1>5. QED
  BY <1>1, <1>2, <1>3, <1>4, CallKeeps

\* A consumer takes over a handoff and asks for the attach to it.
LEMMA ImportKeeps ==
  ASSUME IInv, NEW c \in Consumer, NEW p \in Provider, Import(c, p)
  PROVE  IInv'
<1>1. c \in Client /\ c \notin Provider /\ p \in Client
  BY ClientAssumption DEF Client
<1>2. PICK pages \in SUBSET client[p].held.slots \ {{}} :
        Becomes(c, Waiting("acquire_attach",
                           [source |-> client[p].held.token, slots |-> pages], Nothing), wire)
  BY DEF Import
<1> DEFINE arg == [source |-> client[p].held.token, slots |-> pages]
           k == [at |-> "acquire_attach", try |-> 1, arg |-> arg, held |-> Nothing]
<1>3. ProviderHolds(p, client[p].held, pool)
  BY <1>1 DEF IInv, ClientInv, ClientOK, Import
<1>4. ClientOK(c, k, pool)
  <2>1. Genuine(arg.source, pool) /\ arg.slots \in SUBSET Slot
    BY <1>3 DEF ProviderHolds
  <2> HIDE DEF arg
  <2>2. QED
    BY <1>1, <2>1 DEF ClientOK, ArgOf, Calls
<1>5. client[c].at = "start" /\ Becomes(c, k, wire) /\ UNCHANGED <<pool, validated, lost>>
  BY <1>2 DEF Import, Waiting
<1>6. metadata' \subseteq Consumer
  BY DEF IInv, Import
<1> HIDE DEF k
<1>7. QED
  BY <1>1, <1>4, <1>5, <1>6, CallKeeps

\* A client that gives up, or is killed, is lost, and its requests stay.
LEMMA LostKeeps ==
  ASSUME IInv, NEW c \in Client, NEW k,
         ClientOK(c, k, pool), Follows(client[c], k),
         client' = [client EXCEPT ![c] = k],
         wire' \subseteq wire \cup Sent(c, k), lost' = lost \cup {c},
         UNCHANGED <<pool, metadata, validated>>
  PROVE  IInv'
<1>1. PoolInv(pool) /\ PoolStep(pool, pool, Nothing)
  BY SamePool DEF IInv
<1>2. Nothing \notin Client
  BY ClientAssumption
<1>3. Move(c, k, Nothing)
  BY <1>1, <1>2 DEF Move, IInv
<1>4. LeavesRequests(c, k)
  <2>1. \A r \in wire \cup validated : r.from = c => RequestOK(r, k, pool, TRUE)
    BY LostRequests
  <2>2. \A r \in wire' \cap validated' : r.from \in lost'
    <3>1. \A r \in Sent(c, k) : r.from = c
      BY DEF Sent
    <3>2. QED
      BY <3>1 DEF IInv, RequestInv
  <2>3. (c \in lost') = TRUE
    OBVIOUS
  <2>4. QED
    BY <2>1, <2>2, <2>3 DEF LeavesRequests, IInv, RequestInv
<1>5. LeavesWanted(c, k)
  BY DEF LeavesWanted, GrantWanted, AttachWanted
<1>6. QED
  BY <1>3, <1>4, <1>5, MoveKeeps

\* The deadline of a call passes.
LEMMA TimeOutKeeps ==
  ASSUME IInv, NEW c \in Client, TimeOut(c)
  PROVE  IInv'
<1> DEFINE k == Returned(client[c], "not_ready", Nothing)
<1>1. ClientOK(c, client[c], pool)
  BY DEF IInv, ClientInv
<1>2. IsWaiting(client[c])
  BY DEF TimeOut
<1>3. ClientOK(c, k, pool) /\ Follows(client[c], k)
  BY <1>1, <1>2, ReturnedOK
<1>4. /\ client' = [client EXCEPT ![c] = k] /\ wire' = wire \cup Sent(c, k)
      /\ lost' = lost \cup {c} /\ UNCHANGED <<pool, metadata, validated>>
  BY DEF TimeOut, Becomes
<1> HIDE DEF k
<1>5. QED
  BY <1>3, <1>4, LostKeeps

\* A client is killed.
LEMMA DieKeeps ==
  ASSUME IInv, NEW c \in Client, Die(c)
  PROVE  IInv'
<1> DEFINE k == [at |-> "done", try |-> 0, arg |-> Nothing, held |-> Nothing]
<1>1. ClientOK(c, k, pool) /\ Follows(client[c], k)
  BY ClientAssumption DEF ClientOK, Follows, ArgOf, Calls
<1>2. /\ client' = [client EXCEPT ![c] = k] /\ wire' = wire
      /\ lost' = lost \cup {c} /\ UNCHANGED <<pool, metadata, validated>>
  BY DEF Die, Resting
<1> HIDE DEF k
<1>3. QED
  BY <1>1, <1>2, LostKeeps
-----------------------------------------------------------------------------
(* The steps of the agent.                                                  *)

\* The request r is served: it is not on the wire any more, or not validated.
Consumed(r) ==
  \/ r \in wire /\ validated' = validated
  \/ r \in validated /\ validated' = validated \ {r}

\* What the answer a to request r does to its client: nothing if it is not the
\* one awaited; a client that is not lost awaits it.
LEMMA AnswerMoves ==
  ASSUME IInv, NEW r \in wire \cup validated, NEW a, Answered(r, a)
  PROVE  LET c == r.from
             k == IF Awaits(client[c], r) THEN Returned(client[c], a.status, a.value)
                  ELSE client[c]
         IN
         /\ c \in Client /\ (c \notin lost => Awaits(client[c], r))
         /\ client' = [client EXCEPT ![c] = k]
         /\ wire' \subseteq (wire \ {r}) \cup Sent(c, k)
         /\ ~ Awaits(client[c], r) => wire' = wire \ {r}
<1>1. /\ RequestOK(r, client[r.from], pool, r.from \in lost)
      /\ client = [d \in Client |-> client[d]]
  BY DEF IInv, RequestInv, ClientInv
<1>2. r.from \in Client /\ (r.from \notin lost => Awaits(client[r.from], r))
  BY <1>1 DEF RequestOK, Awaits
<1>3. CASE Awaits(client[r.from], r)
  BY <1>2, <1>3 DEF Answered, Becomes
<1>4. CASE ~ Awaits(client[r.from], r)
  BY <1>1, <1>2, <1>4 DEF Answered
<1>5. QED
  BY <1>2, <1>3, <1>4

\* Serving request r keeps the inductive invariant if the pool takes a step for
\* its client, the answer is good, and what the pool has of it is wanted.
LEMMA ServeKeeps ==
  ASSUME IInv, NEW r \in wire \cup validated, NEW a, NEW by,
         Answered(r, a), Consumed(r), lost' = lost, metadata' \subseteq Consumer,
         a.status # "not_ready",
         PoolInv(pool'), PoolStep(pool, pool', by), by \in {r.from, Nothing},
         by = r.from => client[r.from].at # "hold",
         r.call = "reserve_slots" /\ a.status = "ok" => ProviderHolds(r.from, a.value, pool'),
         r.call = "acquire_attach" /\ a.status = "ok" => ConsumerHolds(r.from, a.value, pool'),
         \A k : (r.from \notin lost => k = Returned(client[r.from], a.status, a.value))
                  => LeavesWanted(r.from, k)
  PROVE  IInv'
<1> DEFINE c == r.from
           k == IF Awaits(client[c], r) THEN Returned(client[c], a.status, a.value)
                ELSE client[c]
<1>1. /\ c \in Client /\ (c \notin lost => Awaits(client[c], r))
      /\ client' = [client EXCEPT ![c] = k]
      /\ wire' \subseteq (wire \ {r}) \cup Sent(c, k)
      /\ ~ Awaits(client[c], r) => wire' = wire \ {r}
  BY AnswerMoves
<1>2. /\ RequestOK(r, client[c], pool, c \in lost) /\ r.call \in Calls
      /\ ClientOK(c, client[c], pool) /\ PoolInv(pool)
  BY <1>1 DEF IInv, RequestInv, RequestOK, ClientInv
<1>3. ClientOK(c, client[c], pool')
  BY <1>1, <1>2, StepKeepsClient
<1>4. Awaits(client[c], r) => IsWaiting(client[c]) /\ client[c].at = r.call
  BY <1>2 DEF Awaits, IsWaiting, ClientOK
<1>5. ClientOK(c, k, pool') /\ Follows(client[c], k)
  <2>1. CASE Awaits(client[c], r)
    BY <1>1, <1>3, <1>4, <2>1, ReturnedOK
  <2>2. CASE ~ Awaits(client[c], r)
    BY <1>3, <2>2 DEF Follows
  <2>3. QED
    BY <2>1, <2>2
<1>6. Sent(c, k) \cap validated' = {} \/ wire' = wire \ {r}
  <2>1. CASE Awaits(client[c], r)
    <3>1. k.at # "acquire_attach"
      BY <1>4, <2>1 DEF Returned, Repeats, Resting, Waiting
    <3>2. \A q \in Sent(c, k) : q.call = k.at
      BY DEF Sent
    <3>3. \A q \in validated' : q.call = "acquire_attach"
      BY DEF Consumed, IInv, RequestInv
    <3>4. QED
      BY <3>1, <3>2, <3>3
  <2>2. QED
    BY <1>1, <2>1
<1> HIDE DEF k
<1>7. Move(c, k, by)
  <2>1. validated' \subseteq validated \cup wire
    BY DEF Consumed
  <2>2. by # c => by \notin Client
    BY ClientAssumption
  <2>3. QED
    BY <1>1, <1>5, <2>1, <2>2 DEF Move, IInv
<1>8. LeavesRequests(c, k)
  <2>1. ASSUME NEW q \in (wire' \cup validated') \cap (wire \cup validated), q.from = c
        PROVE  RequestOK(q, k, pool, c \in lost')
    <3>1. RequestOK(q, k, pool, TRUE)
      BY <1>1, <1>5, <2>1, LostRequests
    <3>2. CASE c \in lost
      BY <3>1, <3>2 DEF RequestOK
    <3>3. CASE c \notin lost
      <4>1. q = r
        BY <1>1, <2>1, <3>3, OnlyRequest
      <4>2. r \notin wire \/ r \notin validated
        BY <3>3 DEF IInv, RequestInv
      <4>3. r \notin validated' /\ r \notin wire \ {r}
        BY <4>2 DEF Consumed
      <4>4. r \in Sent(c, k)
        BY <1>1, <2>1, <4>1, <4>3
      <4>5. k.at = q.call /\ k.try = q.try /\ k.arg = q.arg
        BY <4>1, <4>4 DEF Sent
      <4>6. QED
        BY <3>1, <4>5 DEF RequestOK
    <3>4. QED
      BY <3>2, <3>3
  <2>2. \A q \in validated' : q.call = "acquire_attach" /\ q.arg.source.inc = pool.inc
    BY DEF Consumed, IInv, RequestInv
  <2>3. \A q \in wire' \cap validated' : q.from \in lost'
    <3>1. wire' \cap validated' \subseteq wire \cap validated
      BY <1>1, <1>6 DEF Consumed
    <3>2. QED
      BY <3>1 DEF IInv, RequestInv
  <2>4. QED
    BY <2>1, <2>2, <2>3 DEF LeavesRequests
<1>9. LeavesWanted(c, k)
  BY <1>1 DEF k
<1>10. QED
  BY <1>1, <1>7, <1>8, <1>9, MoveKeeps
-----------------------------------------------------------------------------
(* The operations, one lemma each.                                          *)

\* The agent serves a reservation.
LEMMA ServeReserveKeeps ==
  ASSUME IInv, NEW r \in wire, ServePool(r), r.call = "reserve_slots"
  PROVE  IInv'
<1> DEFINE p == r.from
           a == ReserveSlots(pool, Op(p), Count[p])
           g == pool.nextGrant
<1>1. /\ p \in Provider /\ p \notin Consumer /\ p \in Client /\ r.arg = Op(p)
      /\ RequestOK(r, client[p], pool, p \in lost)
  BY ClientAssumption DEF IInv, RequestInv, RequestOK, ArgOf, Client
<1>2. /\ pool' = a.state /\ Answered(r, a) /\ Consumed(r)
      /\ lost' = lost /\ metadata' \subseteq Consumer
  BY <1>1 DEF ServePool, Consumed, IInv
<1>3. PoolInv(pool)
  BY DEF IInv
<1>4. p \notin lost => client[p].at = "reserve_slots"
  BY <1>1 DEF RequestOK
<1>5. \A b \in DOMAIN pool.attaches : pool.attaches[b].op.consumer # p
  BY <1>1, <1>3, OwnersDiffer
<1>6. \A h \in DOMAIN pool.grants : pool.grants[h].op.consumer = p =>
        \A k : GrantWanted(h, k, pool, p \in lost)
  BY <1>1, <1>4, NothingOwned DEF GrantWanted
<1>7. \/ a.state = pool /\ a.status \in {"invalid_argument", "capacity_exhausted"}
      \/ \E slots \in SUBSET FreeSlots(pool) :
           /\ Cardinality(slots) = Count[p] /\ Op(p) \notin DOMAIN pool.grantOps
           /\ Reserved(pool, a.state, p, slots) /\ a.status = "ok"
           /\ a.value = [token |-> TokenOf(pool, p, g), slots |-> slots]
  BY <1>1, <1>3, ReserveEffect
<1> HIDE DEF a
<1>8. CASE a.state = pool /\ a.status \in {"invalid_argument", "capacity_exhausted"}
  <2>1. PoolStep(pool, pool', Nothing) /\ PoolInv(pool')
    BY <1>2, <1>3, <1>8, SamePool
  <2>2. \A k : LeavesWanted(p, k)
    BY <1>2, <1>5, <1>6, <1>8 DEF LeavesWanted
  <2>3. a.status # "ok" /\ a.status # "not_ready"
    BY <1>8
  <2>4. QED
    BY <1>1, <1>2, <2>1, <2>2, <2>3, ServeKeeps, ClientAssumption
<1>9. ASSUME NEW slots \in SUBSET FreeSlots(pool), Cardinality(slots) = Count[p],
             Op(p) \notin DOMAIN pool.grantOps, Reserved(pool, a.state, p, slots),
             a.status = "ok",
             a.value = [token |-> TokenOf(pool, p, g), slots |-> slots]
      PROVE  IInv'
  <2>1. Reserved(pool, pool', p, slots)
    BY <1>2, <1>9
  <2>2. PoolInv(pool') /\ PoolStep(pool, pool', Nothing)
    BY <1>1, <1>3, <1>9, <2>1, ReservedKeeps, ReservedStep
  <2>3. /\ DOMAIN pool'.grants = DOMAIN pool.grants \cup {g}
        /\ pool'.grants[g] = [op |-> Op(p), slots |-> slots, attachRefs |-> 0,
                              releaseRequested |-> FALSE]
        /\ pool'.inc = pool.inc /\ pool'.nextGrant = g + 1 /\ pool'.attaches = pool.attaches
    BY <2>1 DEF Reserved, With
  <2>4. g \in Nat /\ pool.inc \in Nat
    BY <1>3 DEF PoolInv, PoolCore, PoolTyped
  <2>5. ProviderHolds(p, a.value, pool')
    <3>1. Genuine(a.value.token, pool')
      BY <1>9, <2>3, <2>4 DEF Genuine, IsToken, TokenOf
    <3>2. slots \in SUBSET Slot
      BY DEF FreeSlots
    <3>3. QED
      BY <1>9, <2>3, <3>1, <3>2 DEF ProviderHolds, TokenOf
  <2>6. ASSUME NEW k, p \notin lost => k = Returned(client[p], a.status, a.value)
        PROVE  LeavesWanted(p, k)
    <3>1. p \notin lost => k.at = "hold" /\ k.held = a.value
      BY <1>4, <1>9, <2>6 DEF Returned, Repeats, Resting
    <3>2. GrantWanted(g, k, pool', p \in lost)
      BY <1>9, <2>3, <3>1 DEF GrantWanted, TokenOf, Op
    <3>3. ASSUME NEW h \in DOMAIN pool'.grants, h # g, pool'.grants[h].op.consumer = p
          PROVE  GrantWanted(h, k, pool', p \in lost)
      <4>1. h \in DOMAIN pool.grants /\ pool.grants[h].op.consumer = p
        BY <2>2, <2>3, <3>3 DEF PoolStep
      <4>2. GrantWanted(h, k, pool, p \in lost)
        BY <1>6, <4>1
      <4>3. QED
        BY <1>3, <2>2, <3>3, <4>1, <4>2, StepKeepsWanted
    <3>4. \A h \in DOMAIN pool'.grants :
            /\ pool'.grants[h].op.consumer = p => GrantWanted(h, k, pool', p \in lost')
            /\ h \notin DOMAIN pool.grants => pool'.grants[h].op.consumer = p
      BY <1>2, <2>3, <3>2, <3>3 DEF Op
    <3>5. QED
      BY <1>5, <2>3, <3>4 DEF LeavesWanted
  <2>7. QED
    BY <1>1, <1>2, <1>9, <2>2, <2>5, <2>6, ServeKeeps, ClientAssumption
<1>10. QED
  BY <1>7, <1>8, <1>9

\* The agent serves the release of a grant, which may be late or repeated.
LEMMA ServeReleaseKeeps ==
  ASSUME IInv, NEW r \in wire, ServePool(r), r.call = "release_slots"
  PROVE  IInv'
<1> DEFINE p == r.from
           token == r.arg
           a == ReleaseSlots(pool, token)
           g == token.lease
<1>1. /\ p \in Provider /\ p \notin Consumer /\ p \in Client
      /\ Genuine(token, pool) /\ token.consumer = p
      /\ RequestOK(r, client[p], pool, p \in lost) /\ client[p].at # "hold"
  BY ClientAssumption DEF IInv, RequestInv, RequestOK, ArgOf, Client
<1>2. /\ pool' = a.state /\ Answered(r, a) /\ Consumed(r)
      /\ lost' = lost /\ metadata' \subseteq Consumer
  BY DEF ServePool, Consumed, IInv
<1>3. PoolInv(pool)
  BY DEF IInv
<1>4. p \notin lost => client[p].at = "release_slots" /\ client[p].arg = token
  BY <1>1 DEF RequestOK
<1>5. PoolStep(pool, pool', p)
  BY <1>1, <1>2, <1>3, ReleaseStep
<1> HIDE DEF a
<1>6. /\ PoolInv(pool') /\ a.status # "not_ready"
      /\ pool'.attaches = pool.attaches /\ DOMAIN pool'.grants \subseteq DOMAIN pool.grants
      /\ (/\ pool' = pool
          /\ token.inc # pool.inc \/ g \notin DOMAIN pool.grants
               \/ pool.grants[g].op.consumer # p)
           \/ (g \in DOMAIN pool'.grants =>
                 pool'.grants[g] = [pool.grants[g] EXCEPT !.releaseRequested = TRUE])
  BY <1>1, <1>2, <1>3, ReleaseEffect DEF a
<1>7. TokenOf(pool, p, g) = token /\ g \in DOMAIN pool'.grants =>
        \A k : GrantWanted(g, k, pool', FALSE)
  <2>1. SUFFICES ASSUME TokenOf(pool, p, g) = token, g \in DOMAIN pool'.grants
                 PROVE  pool'.grants[g].releaseRequested
    BY <1>6 DEF GrantWanted, PoolInv, ReleasedWaits
  <2>2. g \in DOMAIN pool.grants /\ token.inc = pool.inc /\ pool.grants[g].op.consumer = p
    BY <1>1, <1>6, <2>1 DEF TokenOf, Genuine, Op
  <2>3. pool.grants[g] \in Grant
    BY <1>3, <2>2 DEF PoolInv, PoolCore, PoolTyped
  <2>4. QED
    BY <1>6, <2>1, <2>2, <2>3 DEF Grant
<1>8. ASSUME NEW k
      PROVE  LeavesWanted(p, k)
  <2>1. ASSUME NEW h \in DOMAIN pool'.grants, pool'.grants[h].op.consumer = p, p \notin lost
        PROVE  GrantWanted(h, k, pool', FALSE)
    <3>1. h \in DOMAIN pool.grants /\ pool.grants[h].op.consumer = p
      BY <1>5, <1>6, <2>1 DEF PoolStep
    <3>2. GrantWanted(h, client[p], pool, FALSE)
      BY <2>1, <3>1 DEF IInv, WantedInv, GrantWanted
    <3>3. CASE TokenOf(pool, p, h) = token
      <4>1. h = g
        BY <3>3 DEF TokenOf
      <4>2. QED
        BY <1>7, <2>1, <3>3, <4>1
    <3>4. CASE TokenOf(pool, p, h) # token
      <4>1. GrantWanted(h, k, pool, FALSE)
        BY <1>4, <2>1, <3>1, <3>2, <3>4 DEF GrantWanted
      <4>2. QED
        BY <1>3, <1>5, <1>6, <2>1, <3>1, <4>1, StepKeepsWanted
    <3>5. QED
      BY <3>3, <3>4
  <2>2. \A h \in DOMAIN pool'.grants :
          /\ pool'.grants[h].op.consumer = p => GrantWanted(h, k, pool', p \in lost')
          /\ h \in DOMAIN pool.grants
    BY <1>2, <1>6, <2>1 DEF GrantWanted
  <2>3. \A b \in DOMAIN pool.attaches : pool.attaches[b].op.consumer # p
    BY <1>1, <1>3, OwnersDiffer
  <2>4. QED
    BY <1>6, <2>2, <2>3 DEF LeavesWanted
<1>9. QED
  BY <1>1, <1>2, <1>5, <1>6, <1>8, ServeKeeps

\* The agent serves the release of an attach, which may be late or repeated.
LEMMA ServeDetachKeeps ==
  ASSUME IInv, NEW r \in wire, ServePool(r), r.call = "release_attach"
  PROVE  IInv'
<1> DEFINE c == r.from
           token == r.arg
           a == ReleaseAttach(pool, token)
           b == token.lease
<1>1. /\ c \in Consumer /\ c \notin Provider /\ c \in Client
      /\ IsToken(token, pool) /\ token.consumer = c
      /\ RequestOK(r, client[c], pool, c \in lost) /\ client[c].at # "hold"
  BY ClientAssumption DEF IInv, RequestInv, RequestOK, ArgOf, Client
<1>2. /\ pool' = a.state /\ Answered(r, a) /\ Consumed(r)
      /\ lost' = lost /\ metadata' \subseteq Consumer
  BY DEF ServePool, Consumed, IInv
<1>3. PoolInv(pool)
  BY DEF IInv
<1>4. c \notin lost => client[c].at = "release_attach" /\ client[c].arg = token
  BY <1>1 DEF RequestOK
<1>5. PoolStep(pool, pool', c)
  BY <1>1, <1>2, <1>3, DetachStep
<1> HIDE DEF a
<1>6. /\ PoolInv(pool') /\ a.status # "not_ready"
      /\ (/\ pool' = pool
          /\ token.inc # pool.inc \/ b \notin DOMAIN pool.attaches
               \/ pool.attaches[b].op.consumer # c)
           \/ Detached(pool, pool', b)
  <2>1. PoolInv(a.state) /\ a.status # "not_ready"
    BY <1>3, DetachEffect, SMT, ZenonT(60) DEF a
  <2>2. (/\ a.state = pool
         /\ token.inc # pool.inc \/ token.lease \notin DOMAIN pool.attaches
              \/ pool.attaches[token.lease].op.consumer # token.consumer)
          \/ Detached(pool, a.state, token.lease)
    BY <1>3, DetachEffect DEF a
  <2>3. QED
    BY <1>1, <1>2, <2>1, <2>2
<1>7. /\ DOMAIN pool'.attaches \subseteq DOMAIN pool.attaches
      /\ DOMAIN pool'.grants \subseteq DOMAIN pool.grants
  BY <1>6 DEF Detached
<1>8. ASSUME NEW k
      PROVE  LeavesWanted(c, k)
  <2>1. ASSUME NEW d \in DOMAIN pool'.attaches, pool'.attaches[d].op.consumer = c, c \notin lost
        PROVE  FALSE
    <3>1. d \in DOMAIN pool.attaches /\ pool.attaches[d].op.consumer = c
      BY <1>5, <1>7, <2>1 DEF PoolStep
    <3>2. AttachWanted(d, client[c], pool, FALSE)
      BY <2>1, <3>1 DEF IInv, WantedInv, AttachWanted
    <3>3. TokenOf(pool, c, d) = token
      BY <1>4, <2>1, <3>1, <3>2 DEF AttachWanted
    <3>4. d = b /\ token.inc = pool.inc
      BY <3>3 DEF TokenOf
    <3>5. QED
      BY <1>6, <2>1, <3>1, <3>4 DEF Detached
  <2>2. \A h \in DOMAIN pool'.grants : pool'.grants[h].op.consumer # c
    BY <1>1, <1>6, OwnersDiffer
  <2>3. \A d \in DOMAIN pool'.attaches :
          /\ pool'.attaches[d].op.consumer = c => AttachWanted(d, k, pool', c \in lost')
          /\ d \in DOMAIN pool.attaches
    BY <1>2, <1>7, <2>1 DEF AttachWanted
  <2>4. QED
    BY <1>7, <2>2, <2>3 DEF LeavesWanted
<1>9. QED
  BY <1>1, <1>2, <1>5, <1>6, <1>8, ServeKeeps

\* An answer that leaves the pool alone, to a client that owns nothing.
LEMMA RefusalKeeps ==
  ASSUME IInv, NEW r \in wire, NEW status,
         r.call = "release_metadata" \/ (r.call = "acquire_attach" /\ status # "ok"),
         status # "not_ready", Answered(r, Refuse(pool, status)),
         metadata' \subseteq Consumer, UNCHANGED <<pool, validated, lost>>
  PROVE  IInv'
<1> DEFINE c == r.from
           a == Refuse(pool, status)
<1>1. c \in Consumer /\ c \notin Provider /\ c \in Client
      /\ RequestOK(r, client[c], pool, c \in lost)
  BY ClientAssumption DEF IInv, RequestInv, RequestOK, ArgOf, Client
<1>2. PoolInv(pool) /\ PoolStep(pool, pool, Nothing)
  BY SamePool DEF IInv
<1>3. c \notin lost => client[c].at \in {"acquire_attach", "release_metadata"}
  BY <1>1 DEF RequestOK
<1>4. c \notin lost => \A b \in DOMAIN pool.attaches : pool.attaches[b].op.consumer # c
  BY <1>1, <1>3, NothingOwned
<1>5. \A g \in DOMAIN pool.grants : pool.grants[g].op.consumer # c
  BY <1>1, <1>2, OwnersDiffer
<1>6. \A k : LeavesWanted(c, k)
  BY <1>4, <1>5 DEF LeavesWanted, AttachWanted
<1>7. Consumed(r) /\ a.status = status /\ lost' = lost
  BY DEF Consumed, Refuse, Reply
<1> HIDE DEF a
<1>8. Answered(r, a) /\ pool' = pool
  BY DEF a
<1>9. QED
  BY <1>1, <1>2, <1>6, <1>7, <1>8, ServeKeeps, ClientAssumption

\* The agent serves the release of a metadata lease.
LEMMA ServeMetadataKeeps ==
  ASSUME IInv, NEW r \in wire, ServeMetadata(r)
  PROVE  IInv'
<1>1. metadata' \subseteq Consumer
  BY DEF ServeMetadata, IInv
<1>2. QED
  BY <1>1, RefusalKeeps DEF ServeMetadata

\* The agent checks the metadata lease of an attach, under the registry's mutex.
LEMMA ValidateKeeps ==
  ASSUME IInv, NEW r \in wire, Validate(r)
  PROVE  IInv'
<1>1. CASE r.arg.source.inc = pool.inc /\ r.from \in metadata
  <2> DEFINE c == r.from
  <2>1. /\ validated' = validated \cup {r} /\ wire' = wire \ {r}
        /\ UNCHANGED <<client, pool, metadata, lost>> /\ r.call = "acquire_attach"
    BY <1>1 DEF Validate
  <2>2. PoolInv(pool) /\ PoolStep(pool, pool, Nothing) /\ Nothing \notin Client
    BY SamePool, ClientAssumption DEF IInv
  <2>3. c \in Client /\ ClientOK(c, client[c], pool)
    BY DEF IInv, ClientInv, RequestInv, RequestOK
  <2>4. client' = [client EXCEPT ![c] = client[c]]
    BY <2>1 DEF IInv, ClientInv
  <2>5. Move(c, client[c], Nothing)
    BY <2>1, <2>2, <2>3, <2>4 DEF Move, IInv
  <2>6. LeavesRequests(c, client[c])
    BY <1>1, <2>1 DEF LeavesRequests, IInv, RequestInv
  <2>7. LeavesWanted(c, client[c])
    BY <2>1 DEF LeavesWanted, IInv, WantedInv
  <2>8. QED
    BY <2>3, <2>5, <2>6, <2>7, MoveKeeps
<1>2. CASE ~ (r.arg.source.inc = pool.inc /\ r.from \in metadata)
  <2>1. Answered(r, Refuse(pool, "invalid_argument")) /\ r.call = "acquire_attach"
        /\ metadata' = metadata /\ UNCHANGED <<pool, validated, lost>>
    BY <1>2 DEF Validate
  <2>2. metadata' \subseteq Consumer
    BY <2>1 DEF IInv
  <2>3. QED
    BY <2>1, <2>2, RefusalKeeps
<1>3. QED
  BY <1>1, <1>2

\* The agent serves a validated attach under the mutex of the pool: the source
\* may be released or collected since, the client may have died.
LEMMA AttachKeeps ==
  ASSUME IInv, NEW r \in validated, Attach(r)
  PROVE  IInv'
<1> DEFINE c == r.from
           source == r.arg.source
           slots == r.arg.slots
           a == AcquireAttach(pool, Op(c), source, slots)
           b == pool.nextAttach
<1>1. /\ c \in Consumer /\ c \notin Provider /\ c \in Client
      /\ Genuine(source, pool) /\ slots \in SUBSET Slot /\ source.inc = pool.inc
      /\ r.call = "acquire_attach" /\ RequestOK(r, client[c], pool, c \in lost)
  BY ClientAssumption DEF IInv, RequestInv, RequestOK, ArgOf, Client
<1>2. /\ pool' = a.state /\ Answered(r, a) /\ Consumed(r)
      /\ lost' = lost /\ metadata' \subseteq Consumer
  BY DEF Attach, Consumed, IInv, Operation, Op
<1>3. PoolInv(pool) /\ Nothing \notin Client
  BY ClientAssumption DEF IInv
<1>4. c \notin lost => client[c].at = "acquire_attach"
  BY <1>1 DEF RequestOK
<1>5. c \notin lost => \A d \in DOMAIN pool.attaches : pool.attaches[d].op.consumer # c
  BY <1>1, <1>4, NothingOwned
<1>6. \/ a.state = pool /\ a.status = "invalid_argument"
      \/ /\ a.state = pool /\ a.status = "ok"
         /\ \E d \in DOMAIN pool.attaches :
              /\ pool.attaches[d] = [op |-> Op(c), source |-> source.lease, slots |-> slots]
              /\ a.value = [token |-> TokenOf(pool, c, d), source |-> source, slots |-> slots]
      \/ /\ Op(c) \notin DOMAIN pool.attachOps /\ SourceGrants(pool, source, slots)
         /\ Attached(pool, a.state, c, source.lease, slots) /\ a.status = "ok"
         /\ a.value = [token |-> TokenOf(pool, c, b), source |-> source, slots |-> slots]
  BY <1>1, <1>3, AttachEffect
<1> HIDE DEF a
<1>7. \A d \in DOMAIN pool.attaches : d \in Nat /\ pool.inc \in Nat
  BY <1>3 DEF PoolInv, PoolCore, PoolTyped
<1>8. CASE a.state = pool
  <2>1. PoolStep(pool, pool', Nothing) /\ PoolInv(pool')
    BY <1>2, <1>3, <1>8, SamePool
  <2>2. a.status = "ok" => ConsumerHolds(c, a.value, pool')
    <3>1. SUFFICES ASSUME NEW d \in DOMAIN pool.attaches,
                     pool.attaches[d] = [op |-> Op(c), source |-> source.lease, slots |-> slots],
                     a.value = [token |-> TokenOf(pool, c, d), source |-> source, slots |-> slots]
                   PROVE  ConsumerHolds(c, a.value, pool)
      <4>1. ~ Attached(pool, pool, c, source.lease, slots)
        BY <1>3 DEF Attached, PoolInv, PoolCore, PoolTyped
      <4>2. QED
        BY <1>2, <1>6, <1>8, <4>1
    <3>2. IsToken(TokenOf(pool, c, d), pool)
      BY <1>7 DEF IsToken, TokenOf
    <3>3. QED
      BY <1>1, <3>1, <3>2 DEF ConsumerHolds, TokenOf
  <2>3. \A k : LeavesWanted(c, k)
    <3>1. \A g \in DOMAIN pool.grants : pool.grants[g].op.consumer # c
      BY <1>1, <1>3, OwnersDiffer
    <3>2. QED
      BY <1>2, <1>5, <1>8, <3>1 DEF LeavesWanted, AttachWanted
  <2>4. a.status # "not_ready"
    BY <1>6
  <2>5. QED
    BY <1>1, <1>2, <1>3, <2>1, <2>2, <2>3, <2>4, ServeKeeps
<1>9. CASE /\ Op(c) \notin DOMAIN pool.attachOps /\ SourceGrants(pool, source, slots)
           /\ Attached(pool, a.state, c, source.lease, slots) /\ a.status = "ok"
           /\ a.value = [token |-> TokenOf(pool, c, b), source |-> source, slots |-> slots]
  <2>1. source.lease \in DOMAIN pool.grants
    BY <1>9 DEF SourceGrants
  <2>2. Attached(pool, pool', c, source.lease, slots)
    BY <1>2, <1>9
  <2>3. PoolInv(pool') /\ PoolStep(pool, pool', Nothing)
    BY <1>1, <1>3, <1>9, <2>1, <2>2, AttachedKeeps, AttachedStep
  <2>4. /\ DOMAIN pool'.attaches = DOMAIN pool.attaches \cup {b}
        /\ pool'.attaches[b] = [op |-> Op(c), source |-> source.lease, slots |-> slots]
        /\ \A d \in DOMAIN pool.attaches \ {b} : pool'.attaches[d] = pool.attaches[d]
        /\ pool'.inc = pool.inc /\ DOMAIN pool'.grants = DOMAIN pool.grants
    BY <2>2 DEF Attached, With
  <2>5. b \in Nat /\ pool.inc \in Nat /\ pool.nextGrant \in Nat
    BY <1>3 DEF PoolInv, PoolCore, PoolTyped
  <2>6. ConsumerHolds(c, a.value, pool')
    <3>1. IsToken(TokenOf(pool, c, b), pool')
      BY <2>4, <2>5 DEF IsToken, TokenOf
    <3>2. Genuine(source, pool')
      BY <1>1, <1>3, <2>3, StepKeepsTokens
    <3>3. QED
      BY <1>1, <1>9, <2>4, <3>1, <3>2 DEF ConsumerHolds, TokenOf
  <2>7. ASSUME NEW k, c \notin lost => k = Returned(client[c], a.status, a.value)
        PROVE  LeavesWanted(c, k)
    <3>1. c \notin lost => k.at = "hold" /\ k.held = a.value
      BY <1>4, <1>9, <2>7 DEF Returned, Repeats, Resting
    <3>2. AttachWanted(b, k, pool', c \in lost)
      BY <1>9, <2>4, <3>1 DEF AttachWanted, TokenOf, Op
    <3>3. \A d \in DOMAIN pool'.attaches :
            /\ pool'.attaches[d].op.consumer = c => AttachWanted(d, k, pool', c \in lost')
            /\ d \notin DOMAIN pool.attaches => pool'.attaches[d].op.consumer = c
      BY <1>2, <1>5, <2>4, <3>2 DEF Op, AttachWanted
    <3>4. \A g \in DOMAIN pool'.grants : pool'.grants[g].op.consumer # c
      BY <1>1, <2>3, OwnersDiffer
    <3>5. QED
      BY <2>4, <3>3, <3>4 DEF LeavesWanted
  <2>8. QED
    BY <1>1, <1>2, <1>3, <1>9, <2>3, <2>6, <2>7, ServeKeeps
<1>10. QED
  BY <1>6, <1>8, <1>9

\* The pool of a new agent is consistent, and empty.
LEMMA FreshPoolOK ==
  ASSUME NEW i \in Nat
  PROVE  /\ PoolInv(FreshPool(i)) /\ FreshPool(i).inc = i
         /\ DOMAIN FreshPool(i).grants = {} /\ DOMAIN FreshPool(i).attaches = {}
<1> DEFINE s == FreshPool(i)
<1>1. /\ s.inc = i /\ s.owner = [n \in Slot |-> 0] /\ IsPool(s)
      /\ s.nextGrant = 1 /\ s.nextAttach = 1
      /\ s.grants = <<>> /\ s.grantOps = <<>> /\ s.attaches = <<>> /\ s.attachOps = <<>>
  BY DEF FreshPool, IsPool
<1>2. DOMAIN <<>> = {}
  OBVIOUS
<1> HIDE DEF s
<1>3. PoolTyped(s) /\ Partitioned(s) /\ OpsInverse(s) /\ Pinned(s) /\ ReleasedWaits(s)
  BY <1>1, <1>2 DEF PoolTyped, Partitioned, OpsInverse, Pinned, ReleasedWaits
<1>4. QED
  BY <1>1, <1>2, <1>3 DEF PoolInv, PoolCore, s

\* After a restart no token is of the pool: nothing is asked of what clients hold.
LEMMA RestartKeeps ==
  ASSUME IInv, Restart
  PROVE  IInv'
<1>1. /\ pool' = FreshPool(pool.inc + 1) /\ pool.inc \in Nat /\ MaxRestarts \in Nat
      /\ wire' = {} /\ validated' = {} /\ metadata' = {} /\ UNCHANGED <<client, lost>>
      /\ pool.inc + 1 \in 1..MaxRestarts + 1
  BY ClientAssumption DEF IInv, Restart
<1>2. /\ PoolInv(pool') /\ pool'.inc = pool.inc + 1
      /\ DOMAIN pool'.grants = {} /\ DOMAIN pool'.attaches = {}
  BY <1>1, FreshPoolOK
<1>3. ASSUME NEW x, IsToken(x, pool)
      PROVE  IsToken(x, pool') /\ Genuine(x, pool') /\ x.inc # pool'.inc
  BY <1>1, <1>2, <1>3 DEF IsToken, Genuine
<1>4. ClientInv'
  <2>1. ASSUME NEW c \in Client
        PROVE  ClientOK(c, client[c], pool')
    <3>1. ClientOK(c, client[c], pool)
      BY DEF IInv, ClientInv
    <3>2. ArgOf(c, client[c].at, client[c].arg, pool')
      BY <1>3, <3>1 DEF ClientOK, ArgOf, Genuine
    <3>3. c \in Provider /\ client[c].at = "hold" => ProviderHolds(c, client[c].held, pool')
      BY <1>3, <3>1 DEF ClientOK, ProviderHolds, Genuine
    <3>4. c \in Consumer /\ client[c].at = "hold" => ConsumerHolds(c, client[c].held, pool')
      BY <1>3, <3>1 DEF ClientOK, ConsumerHolds, Genuine
    <3>5. QED
      BY <3>1, <3>2, <3>3, <3>4 DEF ClientOK
  <2>2. QED
    BY <1>1, <2>1 DEF IInv, ClientInv
<1>5. RequestInv' /\ WantedInv'
  BY <1>1, <1>2 DEF RequestInv, WantedInv
<1>6. QED
  BY <1>1, <1>2, <1>4, <1>5 DEF IInv

\* The inductive invariant holds at the start.
LEMMA InitHolds == Init => IInv
<1> SUFFICES ASSUME Init PROVE IInv
  OBVIOUS
<1>1. /\ pool = FreshPool(1) /\ metadata = {} /\ wire = {} /\ validated = {} /\ lost = {}
      /\ client = [c \in Client |-> [at |-> "start", try |-> 0, arg |-> Nothing,
                                     held |-> Nothing]]
  BY DEF Init, Resting
<1>2. /\ PoolInv(pool) /\ pool.inc = 1
      /\ DOMAIN pool.grants = {} /\ DOMAIN pool.attaches = {}
  BY <1>1, FreshPoolOK
<1>3. ClientInv
  <2>1. \A c \in Client : client[c] = [at |-> "start", try |-> 0, arg |-> Nothing,
                                       held |-> Nothing]
    BY <1>1
  <2>2. \A c \in Client : ClientOK(c, client[c], pool)
    BY <2>1 DEF ClientOK, ArgOf, Calls
  <2>3. QED
    BY <1>1, <2>2 DEF ClientInv
<1>4. QED
  BY <1>1, <1>2, <1>3, ClientAssumption DEF IInv, RequestInv, WantedInv

\* It holds while nothing happens.
LEMMA StutterKeeps ==
  ASSUME IInv, UNCHANGED vars
  PROVE  IInv'
BY DEF vars, IInv, ClientInv, RequestInv, WantedInv

\* Every step of the system keeps it.
LEMMA NextKeeps == IInv /\ [Next]_vars => IInv'
<1> SUFFICES ASSUME IInv, [Next]_vars PROVE IInv'
  OBVIOUS
<1>1. ASSUME NEW p \in Provider, CallReserve(p) \/ CallRelease(p) PROVE IInv'
  BY <1>1, CallReserveKeeps, CallReleaseKeeps
<1>2. ASSUME NEW c \in Consumer, NEW p \in Provider, Import(c, p) PROVE IInv'
  BY <1>2, ImportKeeps
<1>3. ASSUME NEW c \in Consumer, CallDetach(c) PROVE IInv'
  BY <1>3, CallDetachKeeps
<1>4. ASSUME NEW c \in Client, TimeOut(c) \/ Die(c) PROVE IInv'
  BY <1>4, TimeOutKeeps, DieKeeps
<1>5. ASSUME NEW r \in wire \cup validated, Serve(r) PROVE IInv'
  <2>1. CASE ServePool(r)
    <3>1. r \in wire /\ r.call \in {"reserve_slots", "release_slots", "release_attach"}
      BY <2>1 DEF ServePool
    <3>2. QED
      BY <2>1, <3>1, ServeReserveKeeps, ServeReleaseKeeps, ServeDetachKeeps
  <2>2. CASE ServeMetadata(r)
    BY <2>2, ServeMetadataKeeps DEF ServeMetadata
  <2>3. CASE Validate(r)
    BY <2>3, ValidateKeeps DEF Validate
  <2>4. CASE Attach(r)
    BY <2>4, AttachKeeps DEF Attach
  <2>5. QED
    BY <1>5, <2>1, <2>2, <2>3, <2>4 DEF Serve
<1>6. CASE Restart
  BY <1>6, RestartKeeps
<1>7. CASE UNCHANGED vars
  BY <1>7, StutterKeeps
<1>8. QED
  BY <1>1, <1>2, <1>3, <1>4, <1>5, <1>6, <1>7 DEF Next

-----------------------------------------------------------------------------
(* The theorems. *)

\* So it is an invariant.
LEMMA Invariance == Spec => []IInv
<1>1. Init => IInv
  BY InitHolds
<1>2. IInv /\ [Next]_vars => IInv'
  BY NextKeeps
<1>3. QED
  BY <1>1, <1>2, PTL DEF Spec

\* Every variable of the agent and its clients has its type, and a grant has as
\* many slots as its provider asked for.
THEOREM TypeCorrect == Spec => []TypeOK
<1>1. IInv => TypeOK
  BY InvariantImplies
<1>2. QED
  BY <1>1, Invariance, PTL

\* No slot is granted twice or lost, an attach keeps its grant, and no page
\* changes hands under a client that maps it, in whatever order reservations,
\* attaches and their releases are served, repeated, or late.
THEOREM SlotsAreExclusive == Spec => []SlotsExclusive
<1>1. IInv => SlotsExclusive
  BY InvariantImplies
<1>2. QED
  BY <1>1, Invariance, PTL

\* A grant or an attach nobody can give back any more is that of a client that
\* gave up on an answer or was killed.
THEOREM NothingIsStranded == Spec => []NothingStranded
<1>1. IInv => NothingStranded
  BY InvariantImplies
<1>2. QED
  BY <1>1, Invariance, PTL
=============================================================================
