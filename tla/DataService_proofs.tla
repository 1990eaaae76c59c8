--------------------------- MODULE DataService_proofs ---------------------------
(***************************************************************************)
(* Proofs about the registry of the data service and its clients, for      *)
(* every set of producers and consumers, sizes, capacities and repeated    *)
(* calls (a seal is sent once).                                            *)
(***************************************************************************)
EXTENDS DataService, SetLemmas

(* The registry. *)

AcquireOp(c) == [consumer |-> Process[c], sequence |-> c]

IsRegistry(s) ==
  /\ DOMAIN s = {"inc", "down", "objects", "operations", "canonical", "leases", "acquires",
                 "nextObject", "nextLease", "bytes", "quarantined"}
  /\ s.down = FALSE

ObjectOK(o, s) ==
  /\ o \in Object
  /\ o.op.inc = s.inc /\ o.identity = Identity[o.op.producer]
  /\ o.state = "reserved" => o.producer
  /\ o.storage = 0 => o.state = "retired"

LeaseOK(w) ==
  /\ w = [op |-> w.op, object |-> w.object]
  /\ \E c \in Consumer : w.op = AcquireOp(c)

RegTyped(s) ==
  /\ IsRegistry(s)
  /\ s.inc \in Nat /\ s.nextObject \in Nat \ {0} /\ s.nextLease \in Nat \ {0}
  /\ \A id \in DOMAIN s.objects : id \in 1..s.nextObject - 1 /\ ObjectOK(s.objects[id], s)
  /\ \A l \in DOMAIN s.leases : l \in 1..s.nextLease - 1 /\ LeaseOK(s.leases[l])

\* operations_ and acquires_ index the objects and the leases by operation.
OpsInverse(s) ==
  /\ \A id \in DOMAIN s.objects :
       s.objects[id].op \in DOMAIN s.operations /\ s.operations[s.objects[id].op] = id
  /\ \A o \in DOMAIN s.operations :
       s.operations[o] \in DOMAIN s.objects /\ s.objects[s.operations[o]].op = o
  /\ \A l \in DOMAIN s.leases :
       s.leases[l].op \in DOMAIN s.acquires /\ s.acquires[s.leases[l].op] = l
  /\ \A o \in DOMAIN s.acquires :
       s.acquires[o] \in DOMAIN s.leases /\ s.leases[s.acquires[o]].op = o

LeasesOf(s, id) == {l \in DOMAIN s.leases : s.leases[l].object = id}

Lent(s) ==
  /\ \A id \in DOMAIN s.objects : s.objects[id].refs = Cardinality(LeasesOf(s, id))
  /\ \A l \in DOMAIN s.leases :
       LET id == s.leases[l].object IN
       /\ id \in DOMAIN s.objects /\ s.objects[id].state \in {"sealed", "retired"}
       /\ s.objects[id].storage > 0
       /\ s.objects[id].identity = Wanted[s.leases[l].op.sequence]

Published(s) ==
  /\ \A i \in DOMAIN s.canonical :
       /\ s.canonical[i] \in DOMAIN s.objects
       /\ s.objects[s.canonical[i]].identity = i
       /\ s.objects[s.canonical[i]].state = "sealed"
  /\ \A id \in DOMAIN s.objects : s.objects[id].state = "sealed" =>
       /\ s.objects[id].identity \in DOMAIN s.canonical
       /\ s.canonical[s.objects[id].identity] = id

Storage(s) == [id \in DOMAIN s.objects |-> s.objects[id].storage]
Quarantined(s) == {id \in DOMAIN s.objects : s.objects[id].state = "quarantined"}

BytesAddUp(s) ==
  /\ s.bytes = SumFunctionOnSet(Storage(s), DOMAIN s.objects) /\ s.bytes <= CapacityBytes
  /\ s.quarantined = SumFunctionOnSet(Storage(s), Quarantined(s))

\* What the producers and the consumers have let go is collected.
NoGarbage(s) ==
  \A id \in DOMAIN s.objects :
    s.objects[id].state = "retired" /\ ~ s.objects[id].producer => s.objects[id].refs > 0

\* All but the last hold before the collection that ends an operation.
RegCore(s) == RegTyped(s) /\ OpsInverse(s) /\ Lent(s) /\ Published(s) /\ BytesAddUp(s)

RegInv(s) == RegCore(s) /\ NoGarbage(s)

-----------------------------------------------------------------------------
(* The clients.  Each predicate is about one client or one request and the  *)
(* registry s, so that what a step does not touch is carried over at once.  *)

\* A handle p may hold: an object of p, or none any more.
OwnHandle(h, p, s) ==
  /\ h = [inc |-> h.inc, id |-> h.id]
  /\ h.inc \in Nat /\ h.id \in Nat /\ h.inc <= s.inc
  /\ h.inc = s.inc =>
       /\ h.id < s.nextObject
       /\ h.id \in DOMAIN s.objects => s.objects[h.id].op.producer = p

IsRef(f) == f \in [inc : Nat, id : Nat, identity : Range(Identity)]

\* A token c may hold: a lease of c, or none any more.
OwnLease(t, c, s) ==
  /\ t = [inc |-> t.inc, consumer |-> t.consumer, lease |-> t.lease]
  /\ t.inc \in Nat /\ t.lease \in Nat /\ t.inc <= s.inc
  /\ t.inc = s.inc =>
       /\ t.lease < s.nextLease
       /\ t.lease \in DOMAIN s.leases => s.leases[t.lease].op = AcquireOp(c)

\* The argument of a call.
ArgOf(c, call, arg, s) ==
  /\ call = "reserve" =>
       /\ c \in Producer /\ arg = [inc |-> arg.inc, producer |-> c] /\ arg.inc \in Nat
  /\ call \in {"seal", "release_producer"} => c \in Producer /\ OwnHandle(arg, c, s)
  /\ call = "withdraw" => c \in Producer /\ IsRef(arg)
  /\ call = "acquire" => c \in Consumer /\ arg = AcquireOp(c)
  /\ call = "release" => c \in Consumer /\ OwnLease(arg, c, s)

Early == {"start", "pinged", "reserve"}

ClientOK(c, k, s) ==
  /\ k = [at |-> k.at, try |-> k.try, arg |-> k.arg, held |-> k.held]
  /\ k.try \in 0..2
  /\ k.try > 0 <=> k.at \in Calls
  /\ k.at = "seal" => k.try = 1
  /\ c \in Producer =>
       k.at \in Early \cup {"seal", "release_producer", "hold", "withdraw", "done"}
  /\ c \in Consumer => k.at \in {"start", "acquire", "hold", "release", "released", "done"}
  /\ ArgOf(c, k.at, k.arg, s)
  /\ k.at = "pinged" => k.held \in Nat
  /\ k.at = "release_producer" => k.held = Nothing \/ IsRef(k.held)
  /\ c \in Producer /\ k.at = "hold" => IsRef(k.held)
  /\ c \in Consumer /\ k.at = "hold" =>
       /\ OwnLease(k.held, c, s)
       /\ k.held.inc = s.inc => k.held.lease \in DOMAIN s.leases
  /\ c \in Producer /\ k.at \in Early =>
       \A id \in DOMAIN s.objects :
         s.objects[id].op.producer = c => s.objects[id].state = "reserved"

\* Request r, whose client is k and has given up if gone.  A seal is sent once,
\* for an object that has not been sealed.
RequestOK(r, k, s, gone) ==
  /\ r = [from |-> r.from, call |-> r.call, try |-> r.try, arg |-> r.arg]
  /\ r.from \in Client /\ r.call \in Calls
  /\ ArgOf(r.from, r.call, r.arg, s)
  /\ r.call = "seal" =>
       /\ r.try = 1 /\ k.at \notin Early
       /\ r.arg.inc = s.inc /\ r.arg.id \in DOMAIN s.objects =>
            s.objects[r.arg.id].state = "reserved"
  /\ r.call \in {"release_producer", "withdraw"} => k.at \notin Early
  /\ r.call = "release" => k.at \in {"release", "released", "done"}
  /\ ~ gone => k.at = r.call /\ k.try = r.try /\ k.arg = r.arg

\* Somebody wants object id, whose producer is k; somebody wants lease l.
ObjectWanted(id, k, s, gone) ==
  LET o == s.objects[id] IN
  \/ gone
  \/ /\ k.at \in {"seal", "release_producer"} /\ k.arg = HandleOf(s, id)
     /\ k.at = "release_producer" /\ o.state = "sealed" => k.held = RefOf(s, id)
  \/ /\ k.at \in {"hold", "withdraw", "done"} /\ ~ o.producer
     /\ \/ o.state \in {"quarantined", "retired"}
        \/ k.at = "hold" /\ k.held = RefOf(s, id)
        \/ k.at = "withdraw" /\ k.arg = RefOf(s, id)

LeaseWanted(l, k, s, gone) ==
  LET token == TokenOf(s, s.leases[l].op, l) IN
  \/ gone
  \/ k.at = "hold" /\ k.held = token
  \/ k.at = "release" /\ k.arg = token

ClientInv ==
  /\ client = [c \in Client |-> client[c]]
  /\ \A c \in Client : ClientOK(c, client[c], registry)

RequestInv ==
  \A r \in wire : RequestOK(r, client[r.from], registry, r.from \in lost)

WantedInv ==
  /\ \A id \in DOMAIN registry.objects :
       LET p == registry.objects[id].op.producer IN
       ObjectWanted(id, client[p], registry, p \in lost)
  /\ \A l \in DOMAIN registry.leases :
       LET c == registry.leases[l].op.sequence IN
       LeaseWanted(l, client[c], registry, c \in lost)

\* The inductive invariant.
IInv ==
  /\ RegInv(registry) /\ registry.inc \in 1..MaxRestarts + 1 /\ lost \subseteq Client
  /\ ClientInv /\ RequestInv /\ WantedInv

-----------------------------------------------------------------------------
(* Finite sets of objects and leases, and what they store. *)

\* A registry has finitely many objects and leases.
LEMMA RegistryFinite ==
  ASSUME NEW s, RegTyped(s)
  PROVE  /\ IsFiniteSet(DOMAIN s.objects)
         /\ \A S \in SUBSET DOMAIN s.objects : IsFiniteSet(S)
         /\ \A S \in SUBSET DOMAIN s.leases : IsFiniteSet(S) /\ Cardinality(S) \in Nat
<1>0. IsFiniteSet(1..s.nextObject - 1) /\ IsFiniteSet(1..s.nextLease - 1)
  <2>1. s.nextObject - 1 \in Int /\ s.nextLease - 1 \in Int /\ 1 \in Int
    BY DEF RegTyped
  <2>2. QED
    BY <2>1, FS_Interval
<1>1. IsFiniteSet(1..s.nextLease - 1)
  BY <1>0
<1>2. /\ DOMAIN s.objects \in SUBSET (1..s.nextObject - 1)
      /\ DOMAIN s.leases \in SUBSET (1..s.nextLease - 1)
  BY DEF RegTyped
<1>3. IsFiniteSet(DOMAIN s.objects) /\ IsFiniteSet(DOMAIN s.leases)
  BY <1>0, <1>1, <1>2, FS_Subset
<1>4. QED
  BY <1>3, FS_Subset, FS_CardinalityType

\* The bytes of an object are a number.
LEMMA StorageNat ==
  ASSUME NEW s, RegTyped(s)
  PROVE  /\ DOMAIN Storage(s) = DOMAIN s.objects
         /\ \A id \in DOMAIN s.objects :
              Storage(s)[id] = s.objects[id].storage /\ Storage(s)[id] \in Nat
BY DEF RegTyped, ObjectOK, Object, Storage

\* Bytes in use and in quarantine are numbers.
LEMMA BytesNat ==
  ASSUME NEW s, RegCore(s)
  PROVE  s.bytes \in Nat /\ s.quarantined \in Nat
<1>1. SumFunctionOnSet(Storage(s), DOMAIN s.objects) \in Nat
  BY RegistryFinite, StorageNat, SumNat DEF RegCore
<1>2. SumFunctionOnSet(Storage(s), Quarantined(s)) \in Nat
  <2>1. IsFiniteSet(Quarantined(s)) /\ \A id \in Quarantined(s) : Storage(s)[id] \in Nat
    BY RegistryFinite, StorageNat DEF RegCore, Quarantined
  <2>2. QED
    BY <2>1, SumNat
<1>3. QED
  BY <1>1, <1>2 DEF RegCore, BytesAddUp

\* The books after object id is changed to o: the bytes of the difference.
LEMMA BytesChanged ==
  ASSUME NEW s, RegCore(s), NEW t, RegTyped(t), NEW id \in DOMAIN s.objects, NEW o,
         t.objects = [s.objects EXCEPT ![id] = o],
         t.bytes = s.bytes - s.objects[id].storage + o.storage,
         o.storage <= s.objects[id].storage,
         s.objects[id].state # "quarantined",
         t.quarantined = s.quarantined
                           + (IF o.state = "quarantined" THEN o.storage ELSE 0)
  PROVE  BytesAddUp(t)
<1> DEFINE D == DOMAIN s.objects
<1>1. /\ DOMAIN t.objects = D /\ t.objects[id] = o
      /\ \A x \in D \ {id} : t.objects[x] = s.objects[x]
  OBVIOUS
<1>2. /\ IsFiniteSet(D) /\ \A S \in SUBSET D : IsFiniteSet(S)
      /\ \A x \in D : Storage(s)[x] \in Nat /\ Storage(t)[x] \in Nat
      /\ \A x \in D \ {id} : Storage(t)[x] = Storage(s)[x]
      /\ Storage(s)[id] = s.objects[id].storage /\ Storage(t)[id] = o.storage
  BY <1>1, RegistryFinite, StorageNat DEF RegCore
<1>3. /\ s.bytes \in Nat /\ s.quarantined \in Nat
      /\ s.bytes = SumFunctionOnSet(Storage(s), D) /\ s.bytes <= CapacityBytes
      /\ s.quarantined = SumFunctionOnSet(Storage(s), Quarantined(s))
  BY BytesNat DEF RegCore, BytesAddUp
<1>4. SumFunctionOnSet(Storage(t), D)
        = SumFunctionOnSet(Storage(s), D) + (Storage(t)[id] - Storage(s)[id])
  BY <1>2, SumChange
<1>5. t.quarantined = SumFunctionOnSet(Storage(t), Quarantined(t))
  <2> DEFINE Q == Quarantined(s)
  <2>1. Q \in SUBSET D /\ id \notin Q
    BY DEF Quarantined
  <2>2. SumFunctionOnSet(Storage(t), Q) = SumFunctionOnSet(Storage(s), Q)
    BY <1>2, <2>1, SumSame
  <2>3. CASE o.state = "quarantined"
    <3>1. Quarantined(t) = Q \cup {id}
      BY <1>1, <2>3 DEF Quarantined
    <3>2. SumFunctionOnSet(Storage(t), Q \cup {id})
            = Storage(t)[id] + SumFunctionOnSet(Storage(t), Q)
      <4>1. \A x \in Q \cup {id} : Storage(t)[x] \in Int
        BY <1>2, <2>1
      <4>2. QED
        BY <1>2, <2>1, <4>1, SumAdd
    <3>3. QED
      BY <1>2, <1>3, <2>2, <2>3, <3>1, <3>2
  <2>4. CASE o.state # "quarantined"
    <3>1. Quarantined(t) = Q
      BY <1>1, <2>1, <2>4 DEF Quarantined
    <3>2. QED
      BY <1>3, <2>2, <2>4, <3>1
  <2>5. QED
    BY <2>3, <2>4
<1>6. t.bytes <= s.bytes
  BY <1>2, <1>3
<1>7. t.bytes <= CapacityBytes
  BY <1>2, <1>3, <1>6, CapacityAssumption
<1>8. QED
  BY <1>1, <1>2, <1>3, <1>4, <1>5, <1>7 DEF BytesAddUp

\* The books after object id, neither stored elsewhere nor quarantined, is gone.
LEMMA BytesRemoved ==
  ASSUME NEW s, RegCore(s), NEW t, NEW id \in DOMAIN s.objects,
         t.objects = Without(s.objects, id),
         t.bytes = s.bytes - s.objects[id].storage,
         s.objects[id].state # "quarantined", t.quarantined = s.quarantined
  PROVE  BytesAddUp(t)
<1> DEFINE D == DOMAIN s.objects
<1>1. /\ DOMAIN t.objects = D \ {id}
      /\ \A x \in D \ {id} : t.objects[x] = s.objects[x]
  BY DEF Without
<1>2. /\ IsFiniteSet(D) /\ \A S \in SUBSET D : IsFiniteSet(S)
      /\ \A x \in D : Storage(s)[x] \in Nat
      /\ \A x \in D \ {id} : Storage(t)[x] = Storage(s)[x]
      /\ Storage(s)[id] = s.objects[id].storage
  BY <1>1, RegistryFinite, StorageNat DEF RegCore, Storage
<1>3. /\ s.bytes \in Nat /\ s.quarantined \in Nat
      /\ s.bytes = SumFunctionOnSet(Storage(s), D) /\ s.bytes <= CapacityBytes
      /\ s.quarantined = SumFunctionOnSet(Storage(s), Quarantined(s))
  BY BytesNat DEF RegCore, BytesAddUp
<1>4. SumFunctionOnSet(Storage(s), D)
        = Storage(s)[id] + SumFunctionOnSet(Storage(s), D \ {id})
  <2>1. \A x \in D : Storage(s)[x] \in Int
    BY <1>2
  <2>2. QED
    BY <1>2, <2>1, SumRemove
<1>5. SumFunctionOnSet(Storage(t), D \ {id}) = SumFunctionOnSet(Storage(s), D \ {id})
  BY <1>2, SumSame
<1>6. SumFunctionOnSet(Storage(s), D \ {id}) \in Nat
  <2>1. IsFiniteSet(D \ {id}) /\ \A x \in D \ {id} : Storage(s)[x] \in Nat
    BY <1>2
  <2>2. QED
    BY <2>1, SumNat
<1>7. t.quarantined = SumFunctionOnSet(Storage(t), Quarantined(t))
  <2>1. Quarantined(t) = Quarantined(s)
    BY <1>1 DEF Quarantined
  <2>2. Quarantined(s) \in SUBSET D /\ id \notin Quarantined(s)
    BY DEF Quarantined
  <2>3. SumFunctionOnSet(Storage(t), Quarantined(s))
          = SumFunctionOnSet(Storage(s), Quarantined(s))
    BY <1>2, <2>2, SumSame
  <2>4. QED
    BY <1>3, <2>1, <2>3
<1>8. QED
  BY <1>1, <1>2, <1>3, <1>4, <1>5, <1>6, <1>7, CapacityAssumption DEF BytesAddUp

\* The books after object id, not quarantined, is added.
LEMMA BytesAdded ==
  ASSUME NEW s, RegCore(s), NEW t, RegTyped(t), NEW id, id \notin DOMAIN s.objects, NEW o,
         t.objects = With(s.objects, id, o),
         t.bytes = s.bytes + o.storage, o.storage <= CapacityBytes - s.bytes,
         o.state # "quarantined", t.quarantined = s.quarantined
  PROVE  BytesAddUp(t)
<1> DEFINE D == DOMAIN s.objects
<1>1. /\ DOMAIN t.objects = D \cup {id} /\ t.objects[id] = o
      /\ \A x \in D : t.objects[x] = s.objects[x]
  BY DEF With
<1>2. /\ IsFiniteSet(D) /\ \A S \in SUBSET D : IsFiniteSet(S)
      /\ \A x \in D : Storage(t)[x] = Storage(s)[x]
      /\ \A x \in D \cup {id} : Storage(t)[x] \in Nat
      /\ Storage(t)[id] = o.storage
  BY <1>1, RegistryFinite, StorageNat DEF RegCore
<1>3. /\ s.bytes \in Nat /\ s.quarantined \in Nat
      /\ s.bytes = SumFunctionOnSet(Storage(s), D) /\ s.bytes <= CapacityBytes
      /\ s.quarantined = SumFunctionOnSet(Storage(s), Quarantined(s))
  BY BytesNat DEF RegCore, BytesAddUp
<1>4. SumFunctionOnSet(Storage(t), D \cup {id})
        = Storage(t)[id] + SumFunctionOnSet(Storage(t), D)
  <2>1. \A x \in D \cup {id} : Storage(t)[x] \in Int
    BY <1>2
  <2>2. QED
    BY <1>2, <2>1, SumAdd
<1>5. SumFunctionOnSet(Storage(t), D) = SumFunctionOnSet(Storage(s), D)
  BY <1>2, SumSame
<1>6. t.quarantined = SumFunctionOnSet(Storage(t), Quarantined(t))
  <2>1. Quarantined(t) = Quarantined(s) /\ Quarantined(s) \in SUBSET D
    BY <1>1 DEF Quarantined
  <2>2. SumFunctionOnSet(Storage(t), Quarantined(s))
          = SumFunctionOnSet(Storage(s), Quarantined(s))
    BY <1>2, <2>1, SumSame
  <2>3. QED
    BY <1>3, <2>1, <2>2
<1>7. QED
  BY <1>1, <1>2, <1>3, <1>4, <1>5, <1>6, CapacityAssumption DEF BytesAddUp
-----------------------------------------------------------------------------
(* Operations that change one object. *)

\* From s to t object id becomes o; leases and operations stay.
Changed(s, t, id, o) ==
  /\ IsRegistry(t)
  /\ t.inc = s.inc /\ t.operations = s.operations
  /\ t.leases = s.leases /\ t.acquires = s.acquires
  /\ t.nextObject = s.nextObject /\ t.nextLease = s.nextLease
  /\ t.objects = [s.objects EXCEPT ![id] = o]

\* What o keeps of the object it succeeds; leased objects stay complete.
Succeeds(o, old) ==
  /\ o.op = old.op /\ o.identity = old.identity /\ o.refs = old.refs
  /\ o.refs > 0 => o.state \in {"sealed", "retired"} /\ o.storage > 0

\* Such a change keeps the registry consistent if it does for the bytes and for
\* what is published.
LEMMA ChangedKeeps ==
  ASSUME NEW s, RegCore(s), NEW t, NEW id \in DOMAIN s.objects, NEW o,
         Changed(s, t, id, o), ObjectOK(o, s), Succeeds(o, s.objects[id]),
         RegTyped(t) => BytesAddUp(t), Published(t)
  PROVE  RegCore(t)
<1>1. /\ DOMAIN t.objects = DOMAIN s.objects /\ t.objects[id] = o
      /\ \A x \in DOMAIN s.objects \ {id} : t.objects[x] = s.objects[x]
      /\ IsRegistry(t) /\ t.inc = s.inc /\ t.operations = s.operations
      /\ t.leases = s.leases /\ t.acquires = s.acquires
      /\ t.nextObject = s.nextObject /\ t.nextLease = s.nextLease
  BY DEF Changed
<1>2. \A x \in DOMAIN s.objects : ObjectOK(t.objects[x], t)
  <2>1. \A x \in DOMAIN s.objects : ObjectOK(t.objects[x], s)
    BY <1>1 DEF RegCore, RegTyped
  <2>2. QED
    BY <1>1, <2>1 DEF ObjectOK
<1>3. RegTyped(t)
  BY <1>1, <1>2 DEF RegCore, RegTyped
<1>4. \A x \in DOMAIN s.objects :
        /\ t.objects[x].op = s.objects[x].op
        /\ t.objects[x].identity = s.objects[x].identity
        /\ t.objects[x].refs = s.objects[x].refs
  BY <1>1 DEF Succeeds
<1>5. OpsInverse(t)
  BY <1>1, <1>4 DEF RegCore, OpsInverse
<1>6. Lent(t)
  <2>1. \A x : LeasesOf(t, x) = LeasesOf(s, x)
    BY <1>1 DEF LeasesOf
  <2>2. \A x \in DOMAIN t.objects : t.objects[x].refs = Cardinality(LeasesOf(t, x))
    BY <1>1, <1>4, <2>1 DEF RegCore, Lent
  <2>3. ASSUME NEW l \in DOMAIN t.leases
        PROVE  LET x == t.leases[l].object IN
               /\ x \in DOMAIN t.objects /\ t.objects[x].state \in {"sealed", "retired"}
               /\ t.objects[x].storage > 0
               /\ t.objects[x].identity = Wanted[t.leases[l].op.sequence]
    <3> DEFINE x == s.leases[l].object
    <3>1. /\ l \in DOMAIN s.leases /\ x \in DOMAIN s.objects
          /\ s.objects[x].state \in {"sealed", "retired"} /\ s.objects[x].storage > 0
          /\ s.objects[x].identity = Wanted[s.leases[l].op.sequence]
      BY <1>1 DEF RegCore, Lent
    <3>2. s.objects[x].refs > 0
      <4>1. l \in LeasesOf(s, x) /\ IsFiniteSet(LeasesOf(s, x))
        BY <3>1, RegistryFinite DEF LeasesOf, RegCore
      <4>2. Cardinality(LeasesOf(s, x)) # 0 /\ Cardinality(LeasesOf(s, x)) \in Nat
        BY <4>1, FS_EmptySet, FS_CardinalityType
      <4>3. QED
        BY <3>1, <4>2 DEF RegCore, Lent
    <3>3. QED
      BY <1>1, <1>4, <3>1, <3>2 DEF Succeeds
  <2>4. QED
    BY <2>2, <2>3 DEF Lent
<1>7. QED
  BY <1>3, <1>5, <1>6 DEF RegCore

\* What is published when only a reserved object changes, to a state that is
\* not sealed.
LEMMA PublishedStays ==
  ASSUME NEW s, RegCore(s), NEW t, NEW id \in DOMAIN s.objects, NEW o,
         t.objects = [s.objects EXCEPT ![id] = o], t.canonical = s.canonical,
         \/ s.objects[id].state # "sealed" /\ o.state # "sealed"
         \/ o.state = s.objects[id].state /\ o.identity = s.objects[id].identity
  PROVE  Published(t)
<1>1. /\ DOMAIN t.objects = DOMAIN s.objects /\ t.objects[id] = o
      /\ \A x \in DOMAIN s.objects \ {id} : t.objects[x] = s.objects[x]
  OBVIOUS
<1>2. Published(s)
  BY DEF RegCore
<1>3. QED
  BY <1>1, <1>2 DEF Published

-----------------------------------------------------------------------------
(* CollectIfUnused. *)

Unused(s, id) ==
  /\ s.objects[id].refs = 0 /\ ~ s.objects[id].producer
  /\ s.objects[id].state \in {"reserved", "retired"}

\* From s to t object id has gone.
Collected(s, t, id) ==
  /\ IsRegistry(t)
  /\ t.inc = s.inc /\ t.canonical = s.canonical /\ t.quarantined = s.quarantined
  /\ t.leases = s.leases /\ t.acquires = s.acquires
  /\ t.nextObject = s.nextObject /\ t.nextLease = s.nextLease
  /\ t.objects = Without(s.objects, id)
  /\ t.operations = Without(s.operations, s.objects[id].op)
  /\ t.bytes = s.bytes - s.objects[id].storage

\* CollectIfUnused does nothing, or forgets the object.
LEMMA CollectEffect ==
  ASSUME NEW s, IsRegistry(s), NEW id
  PROVE  IF Unused(s, id) THEN Collected(s, CollectIfUnused(s, id), id)
                          ELSE CollectIfUnused(s, id) = s
<1> DEFINE t == CollectIfUnused(s, id)
           objects == Without(s.objects, id)
           operations == Without(s.operations, s.objects[id].op)
           bytes == s.bytes - s.objects[id].storage
<1>1. CASE ~ Unused(s, id)
  BY <1>1 DEF Unused, CollectIfUnused
<1>2. CASE Unused(s, id)
  <2>1. t = [s EXCEPT !.bytes = bytes, !.operations = operations, !.objects = objects]
    BY <1>2 DEF Unused, CollectIfUnused
  <2> HIDE DEF t, bytes, operations, objects
  <2>2. /\ t.inc = s.inc /\ t.canonical = s.canonical /\ t.quarantined = s.quarantined
        /\ t.leases = s.leases /\ t.acquires = s.acquires
        /\ t.nextObject = s.nextObject /\ t.nextLease = s.nextLease
        /\ t.objects = objects /\ t.operations = operations /\ t.bytes = bytes
        /\ IsRegistry(t)
    BY <2>1 DEF IsRegistry
  <2>3. Collected(s, t, id)
    BY <2>2 DEF Collected, bytes, operations, objects
  <2>4. QED
    BY <1>2, <2>3 DEF t
<1>3. QED
  BY <1>1, <1>2

\* An object nobody uses can be forgotten.
LEMMA CollectedKeeps ==
  ASSUME NEW s, RegCore(s), NEW id \in DOMAIN s.objects, Unused(s, id),
         NEW t, Collected(s, t, id)
  PROVE  RegCore(t)
<1>1. /\ DOMAIN t.objects = DOMAIN s.objects \ {id}
      /\ \A x \in DOMAIN t.objects : t.objects[x] = s.objects[x]
  BY DEF Collected, Without
<1>2. /\ DOMAIN t.operations = DOMAIN s.operations \ {s.objects[id].op}
      /\ \A x \in DOMAIN t.operations : t.operations[x] = s.operations[x]
  BY DEF Collected, Without
<1>3. /\ IsRegistry(t) /\ t.inc = s.inc /\ t.canonical = s.canonical
      /\ t.leases = s.leases /\ t.acquires = s.acquires
      /\ t.nextObject = s.nextObject /\ t.nextLease = s.nextLease
  BY DEF Collected
<1>4. RegTyped(t)
  <2>1. \A x \in DOMAIN t.objects : ObjectOK(t.objects[x], t)
    BY <1>1, <1>3 DEF RegCore, RegTyped, ObjectOK
  <2>2. QED
    BY <1>1, <1>3, <2>1 DEF RegCore, RegTyped
<1>5. OpsInverse(t)
  BY <1>1, <1>2, <1>3 DEF RegCore, OpsInverse
<1>6. Lent(t)
  <2>1. \A x : LeasesOf(t, x) = LeasesOf(s, x)
    BY <1>3 DEF LeasesOf
  <2>2. IsFiniteSet(LeasesOf(s, id)) /\ Cardinality(LeasesOf(s, id)) = 0
    BY RegistryFinite DEF Unused, RegCore, Lent, LeasesOf
  <2>3. LeasesOf(s, id) = {}
    BY <2>2, FS_EmptySet
  <2>4. \A l \in DOMAIN s.leases : s.leases[l].object # id
    BY <2>3 DEF LeasesOf
  <2>5. QED
    BY <1>1, <1>3, <2>1, <2>4 DEF RegCore, Lent
<1>7. Published(t)
  BY <1>1, <1>3 DEF RegCore, Published, Unused
<1>8. BytesAddUp(t)
  <2>1. s.objects[id].state # "quarantined"
    BY DEF Unused
  <2>2. QED
    BY <2>1, BytesRemoved DEF Collected
<1>9. QED
  BY <1>4, <1>5, <1>6, <1>7, <1>8 DEF RegCore

\* What a collection leaves.
LEMMA CollectKeeps ==
  ASSUME NEW s, RegCore(s), NEW id \in DOMAIN s.objects,
         \A x \in DOMAIN s.objects \ {id} :
           s.objects[x].state = "retired" /\ ~ s.objects[x].producer => s.objects[x].refs > 0
  PROVE  LET t == CollectIfUnused(s, id) IN
         /\ RegInv(t)
         /\ t.inc = s.inc /\ t.leases = s.leases
         /\ t.nextObject = s.nextObject /\ t.nextLease = s.nextLease
         /\ DOMAIN t.objects = DOMAIN s.objects \ (IF Unused(s, id) THEN {id} ELSE {})
         /\ \A x \in DOMAIN t.objects : t.objects[x] = s.objects[x]
<1> DEFINE t == CollectIfUnused(s, id)
<1>1. IsRegistry(s)
  BY DEF RegCore, RegTyped
<1>2. CASE ~ Unused(s, id) /\ t = s
  <2>1. NoGarbage(s)
    <3>1. \A x \in DOMAIN s.objects : s.objects[x].refs \in Nat
      BY DEF RegCore, RegTyped, ObjectOK, Object
    <3>2. QED
      BY <1>2, <3>1 DEF Unused, NoGarbage
  <2>2. QED
    BY <1>2, <2>1 DEF RegInv
<1>3. CASE Unused(s, id) /\ Collected(s, t, id)
  <2>1. RegCore(t)
    BY <1>3, CollectedKeeps
  <2>2. /\ DOMAIN t.objects = DOMAIN s.objects \ {id}
        /\ \A x \in DOMAIN t.objects : t.objects[x] = s.objects[x]
    BY <1>3 DEF Collected, Without
  <2>3. NoGarbage(t)
    BY <2>2 DEF NoGarbage
  <2>4. QED
    BY <1>3, <2>1, <2>2, <2>3 DEF RegInv, Collected
<1>4. QED
  BY <1>1, <1>2, <1>3, CollectEffect
-----------------------------------------------------------------------------
(* What an operation leaves alone. *)

\* From s to t: identities are not reused, the objects of others than by only
\* change when they are withdrawn or collected, and others lose no lease.
RegStep(s, t, by) ==
  /\ t.inc = s.inc /\ s.nextObject <= t.nextObject /\ s.nextLease <= t.nextLease
  /\ \A id \in DOMAIN t.objects :
       IF id \in DOMAIN s.objects
       THEN /\ t.objects[id].op = s.objects[id].op
            /\ t.objects[id].identity = s.objects[id].identity
            /\ t.objects[id].op.producer # by =>
                 /\ t.objects[id].producer = s.objects[id].producer
                 /\ \/ t.objects[id].state = s.objects[id].state
                    \/ s.objects[id].state = "sealed" /\ t.objects[id].state = "retired"
       ELSE id = s.nextObject /\ t.objects[id].state = "reserved"
  /\ \A l \in DOMAIN t.leases :
       IF l \in DOMAIN s.leases THEN t.leases[l] = s.leases[l] ELSE l = s.nextLease
  /\ \A l \in DOMAIN s.leases : s.leases[l].op.sequence # by => l \in DOMAIN t.leases

\* A refusal is such a step.
LEMMA SameRegistry ==
  ASSUME NEW s, RegInv(s), NEW by
  PROVE  RegStep(s, s, by)
BY DEF RegStep, RegInv, RegCore, RegTyped

\* From s to t object id became o, or went; the leases stayed.
Affects(s, t, id, o) ==
  /\ t.inc = s.inc /\ t.leases = s.leases
  /\ t.nextObject = s.nextObject /\ t.nextLease = s.nextLease
  /\ DOMAIN t.objects \in {DOMAIN s.objects, DOMAIN s.objects \ {id}}
  /\ id \in DOMAIN s.objects
  /\ \A x \in DOMAIN t.objects \ {id} : t.objects[x] = s.objects[x]
  /\ id \in DOMAIN t.objects => t.objects[id] = o

\* A change of object id, and the collection that ends it, keep the registry
\* consistent.
LEMMA ChangeCollected ==
  ASSUME NEW s, RegInv(s), NEW u, NEW id \in DOMAIN s.objects, NEW o,
         Changed(s, u, id, o), ObjectOK(o, s), Succeeds(o, s.objects[id]),
         RegTyped(u) => BytesAddUp(u), Published(u)
  PROVE  LET t == CollectIfUnused(u, id) IN
         /\ RegInv(t) /\ Affects(s, t, id, o)
         /\ o.producer => id \in DOMAIN t.objects
<1> DEFINE t == CollectIfUnused(u, id)
<1>1. RegCore(u)
  BY ChangedKeeps DEF RegInv
<1>2. /\ DOMAIN u.objects = DOMAIN s.objects /\ u.objects[id] = o
      /\ \A x \in DOMAIN s.objects \ {id} : u.objects[x] = s.objects[x]
      /\ u.inc = s.inc /\ u.leases = s.leases
      /\ u.nextObject = s.nextObject /\ u.nextLease = s.nextLease
  BY DEF Changed
<1>3. \A x \in DOMAIN u.objects \ {id} :
        u.objects[x].state = "retired" /\ ~ u.objects[x].producer => u.objects[x].refs > 0
  BY <1>2 DEF RegInv, NoGarbage
<1>4. /\ RegInv(t) /\ t.inc = u.inc /\ t.leases = u.leases
      /\ t.nextObject = u.nextObject /\ t.nextLease = u.nextLease
      /\ DOMAIN t.objects = DOMAIN u.objects \ (IF Unused(u, id) THEN {id} ELSE {})
      /\ \A x \in DOMAIN t.objects : t.objects[x] = u.objects[x]
  BY <1>1, <1>2, <1>3, CollectKeeps
<1>5. o.producer => ~ Unused(u, id)
  BY <1>2 DEF Unused
<1> HIDE DEF t
<1>6. RegInv(t) /\ Affects(s, t, id, o) /\ (o.producer => id \in DOMAIN t.objects)
  BY <1>2, <1>4, <1>5 DEF Affects
<1>7. QED
  BY <1>6 DEF t

-----------------------------------------------------------------------------
(* Reserve. *)

\* What a reservation that succeeds leaves.
Added(s, t, o) ==
  /\ IsRegistry(t)
  /\ t.inc = s.inc /\ t.canonical = s.canonical /\ t.quarantined = s.quarantined
  /\ t.leases = s.leases /\ t.acquires = s.acquires /\ t.nextLease = s.nextLease
  /\ t.nextObject = s.nextObject + 1
  /\ t.objects = With(s.objects, s.nextObject, o)
  /\ t.operations = With(s.operations, o.op, s.nextObject)
  /\ t.bytes = s.bytes + o.storage

NewObject(op, identity, bytes) ==
  [op |-> op, identity |-> identity, state |-> "reserved", storage |-> bytes,
   sum |-> Nothing, winner |-> 0, refs |-> 0, producer |-> TRUE]

\* What Reserve does: it refuses, repeats its answer, or adds an object.
LEMMA ReserveEffect ==
  ASSUME NEW s, RegInv(s), NEW op, NEW identity, NEW bytes \in Nat
  PROVE  LET a == Reserve(s, op, identity, bytes)
             id == s.operations[op]
             o == NewObject(op, identity, bytes)
         IN
         \/ a.state = s /\ a.status # "ok"
         \/ /\ a.state = s /\ a.status = "ok" /\ a.value = HandleOf(s, id)
            /\ id \in DOMAIN s.objects /\ s.objects[id].op = op
         \/ /\ op.inc = s.inc /\ op \notin DOMAIN s.operations
            /\ bytes <= CapacityBytes - s.bytes
            /\ Added(s, a.state, o) /\ a.value = HandleOf(s, s.nextObject)
            /\ a.status = "ok"
<1> DEFINE a == Reserve(s, op, identity, bytes)
           o == NewObject(op, identity, bytes)
<1>1. CASE op.inc # s.inc
  BY <1>1 DEF Reserve, Refuse, Reply
<1>2. CASE op.inc = s.inc /\ op \in DOMAIN s.operations
  <2>1. /\ s.operations[op] \in DOMAIN s.objects
        /\ s.objects[s.operations[op]].op = op
    BY <1>2 DEF RegInv, RegCore, OpsInverse
  <2>2. QED
    BY <1>2, <2>1 DEF Reserve, Reply
<1>3. CASE /\ op.inc = s.inc /\ op \notin DOMAIN s.operations
           /\ (\/ Cardinality(DOMAIN s.objects) >= CapacityObjects
               \/ bytes > CapacityBytes - s.bytes)
  BY <1>3 DEF Reserve, Refuse, Reply
<1>4. CASE /\ op.inc = s.inc /\ op \notin DOMAIN s.operations
           /\ ~ (\/ Cardinality(DOMAIN s.objects) >= CapacityObjects
                 \/ bytes > CapacityBytes - s.bytes)
  <2> DEFINE objects == With(s.objects, s.nextObject, o)
             operations == With(s.operations, op, s.nextObject)
             t == [s EXCEPT !.objects = objects, !.bytes = s.bytes + bytes,
                            !.operations = operations, !.nextObject = s.nextObject + 1]
  <2>1. a.state = t /\ a.value = HandleOf(s, s.nextObject) /\ a.status = "ok"
    BY <1>4 DEF Reserve, Reply, NewObject
  <2>2. IsRegistry(s) /\ o.op = op /\ o.storage = bytes
    BY DEF RegInv, RegCore, RegTyped, NewObject
  <2>3. bytes <= CapacityBytes - s.bytes
    <3>1. ~ (bytes > CapacityBytes - s.bytes)
      BY <1>4
    <3>2. s.bytes \in Nat
      BY BytesNat DEF RegInv
    <3>3. QED
      BY <3>1, <3>2, CapacityAssumption
  <2> HIDE DEF objects, operations, o, a
  <2>4. /\ IsRegistry(t) /\ t.inc = s.inc /\ t.canonical = s.canonical
        /\ t.quarantined = s.quarantined /\ t.leases = s.leases
        /\ t.acquires = s.acquires /\ t.nextLease = s.nextLease
        /\ t.nextObject = s.nextObject + 1 /\ t.objects = objects
        /\ t.operations = operations /\ t.bytes = s.bytes + bytes
    BY <2>2 DEF IsRegistry
  <2> HIDE DEF t
  <2>5. Added(s, t, o)
    BY <2>2, <2>4 DEF Added, objects, operations
  <2>6. QED
    BY <1>4, <2>1, <2>3, <2>5 DEF a, o
<1>5. QED
  BY <1>1, <1>2, <1>3, <1>4

\* The new object keeps the registry consistent.
LEMMA AddedKeeps ==
  ASSUME NEW s, RegInv(s), NEW p \in Producer, NEW op,
         op = [inc |-> s.inc, producer |-> p], op \notin DOMAIN s.operations,
         NEW o, o = NewObject(op, Identity[p], Bytes[p]),
         o.storage <= CapacityBytes - s.bytes, NEW t, Added(s, t, o)
  PROVE  RegInv(t) /\ \A by : RegStep(s, t, by)
<1> DEFINE id == s.nextObject
<1>1. /\ DOMAIN t.objects = DOMAIN s.objects \cup {id} /\ t.objects[id] = o
      /\ \A x \in DOMAIN s.objects \ {id} : t.objects[x] = s.objects[x]
  BY DEF Added, With
<1>2. /\ DOMAIN t.operations = DOMAIN s.operations \cup {op} /\ t.operations[op] = id
      /\ \A x \in DOMAIN s.operations \ {op} : t.operations[x] = s.operations[x]
      /\ o.op = op
  BY DEF Added, With, NewObject
<1>3. /\ IsRegistry(t) /\ t.inc = s.inc /\ t.canonical = s.canonical
      /\ t.leases = s.leases /\ t.acquires = s.acquires
      /\ t.nextObject = id + 1 /\ t.nextLease = s.nextLease
  BY DEF Added
<1>4. id \in Nat \ {0} /\ id \notin DOMAIN s.objects /\ s.inc \in Nat /\ s.nextLease \in Nat
  BY DEF RegInv, RegCore, RegTyped
<1>5. /\ o.state = "reserved" /\ o.producer /\ o.refs = 0 /\ o.identity = Identity[p]
      /\ o.storage \in Nat \ {0} /\ o.storage = Bytes[p]
  BY ClientAssumption DEF NewObject
<1>6. ObjectOK(o, t)
  <2>1. Identity[p] \in Range(Identity)
    BY ClientAssumption DEF Range
  <2>2. op \in [inc : Nat, producer : Producer] /\ op.inc = s.inc /\ op.producer = p
    BY <1>4
  <2>3. o \in Object
    BY <1>5, <2>1, <2>2 DEF Object, NewObject
  <2>4. QED
    BY <1>2, <1>3, <1>5, <2>2, <2>3 DEF ObjectOK
<1>7. RegTyped(t)
  <2>1. \A x \in DOMAIN t.objects : ObjectOK(t.objects[x], t)
    <3>1. \A x \in DOMAIN s.objects : ObjectOK(s.objects[x], t)
      BY <1>3 DEF ObjectOK, RegInv, RegCore, RegTyped
    <3>2. QED
      BY <1>1, <1>6, <3>1
  <2>2. QED
    BY <1>1, <1>3, <1>4, <2>1 DEF RegInv, RegCore, RegTyped
<1>8. OpsInverse(t)
  <2>1. \A x \in DOMAIN t.objects :
          t.objects[x].op \in DOMAIN t.operations /\ t.operations[t.objects[x].op] = x
    BY <1>1, <1>2, <1>4 DEF RegInv, RegCore, OpsInverse
  <2>2. \A x \in DOMAIN t.operations :
          t.operations[x] \in DOMAIN t.objects /\ t.objects[t.operations[x]].op = x
    BY <1>1, <1>2, <1>4 DEF RegInv, RegCore, OpsInverse
  <2>3. QED
    BY <1>3, <2>1, <2>2 DEF RegInv, RegCore, OpsInverse
<1>9. Lent(t)
  <2>1. \A x : LeasesOf(t, x) = LeasesOf(s, x)
    BY <1>3 DEF LeasesOf
  <2>2. LeasesOf(s, id) = {}
    BY <1>4 DEF LeasesOf, RegInv, RegCore, Lent
  <2>3. Cardinality(LeasesOf(s, id)) = 0
    BY <2>2, FS_EmptySet
  <2>4. \A x \in DOMAIN t.objects : t.objects[x].refs = Cardinality(LeasesOf(t, x))
    <3>1. \A x \in DOMAIN s.objects : s.objects[x].refs = Cardinality(LeasesOf(s, x))
      BY DEF RegInv, RegCore, Lent
    <3>2. QED
      BY <1>1, <1>4, <1>5, <2>1, <2>3, <3>1
  <2>5. ASSUME NEW m \in DOMAIN t.leases
        PROVE  LET x == t.leases[m].object IN
               /\ x \in DOMAIN t.objects /\ t.objects[x].state \in {"sealed", "retired"}
               /\ t.objects[x].storage > 0
               /\ t.objects[x].identity = Wanted[t.leases[m].op.sequence]
    <3>1. Lent(s) /\ t.leases = s.leases /\ s.leases[m].object # id
      BY <1>3, <1>4 DEF RegInv, RegCore, Lent
    <3>2. QED
      BY <1>1, <3>1 DEF Lent
  <2>6. QED
    BY <2>4, <2>5 DEF Lent
<1>10. Published(t)
  BY <1>1, <1>3, <1>4, <1>5 DEF RegInv, RegCore, Published
<1>11. BytesAddUp(t)
  <2>1. o.state # "quarantined"
    BY <1>5
  <2>2. QED
    BY <1>4, <1>7, <2>1, BytesAdded DEF Added, RegInv
<1>12. NoGarbage(t)
  BY <1>1, <1>4, <1>5 DEF RegInv, NoGarbage
<1>13. ASSUME NEW by
       PROVE  RegStep(s, t, by)
  BY <1>1, <1>3, <1>4, <1>5 DEF RegStep
<1>14. QED
  BY <1>7, <1>8, <1>9, <1>10, <1>11, <1>12, <1>13 DEF RegInv, RegCore

-----------------------------------------------------------------------------
(* Seal.  A request finds its object reserved, or not at all.              *)

\* A seal publishes a reserved object, yields to one with the same bytes, or is
\* quarantined for a conflict with other bytes; it never terminates the process.
LEMMA SettleEffect ==
  ASSUME NEW s, RegInv(s), NEW id \in DOMAIN s.objects, s.objects[id].state = "reserved",
         NEW sum \in Range(Sum)
  PROVE  LET a == Settle(s, id, sum)
             t == a.state
         IN
         /\ RegInv(t) /\ DOMAIN t.objects = DOMAIN s.objects
         /\ \E o : /\ Affects(s, t, id, o) /\ o.op = s.objects[id].op
                   /\ o.identity = s.objects[id].identity /\ o.producer
                   /\ o.state # "reserved"
         /\ a.status = "ok" => IsRef(a.value)
         /\ t.objects[id].state = "sealed" =>
              a.status = "ok" /\ a.value = RefOf(t, id)
<1> DEFINE old == s.objects[id]
           identity == old.identity
           a == Settle(s, id, sum)
<1>1. /\ IsRegistry(s) /\ RegCore(s) /\ RegTyped(s) /\ id \in Nat /\ s.inc \in Nat
      /\ old \in Object /\ ObjectOK(old, s) /\ old.producer = TRUE
      /\ old.storage > 0 /\ old.storage \in Nat
      /\ identity \in Range(Identity)
  BY DEF RegInv, RegCore, RegTyped, ObjectOK, Object
<1>2. old.refs = 0
  <2>1. LeasesOf(s, id) = {}
    BY <1>1 DEF LeasesOf, RegCore, Lent
  <2>2. QED
    BY <1>1, <2>1, FS_EmptySet DEF RegCore, Lent
<1>3. s.bytes \in Nat /\ s.quarantined \in Nat
  BY <1>1, BytesNat
<1>4. \A x \in DOMAIN s.objects : IsRef(RefOf(s, x))
  BY <1>1 DEF RegTyped, ObjectOK, Object, RefOf, IsRef
<1>5. CASE identity \notin DOMAIN s.canonical
  <2> DEFINE o == [old EXCEPT !.state = "sealed", !.sum = sum]
             canonical == With(s.canonical, identity, id)
             t == [s EXCEPT !.objects[id].state = "sealed", !.objects[id].sum = sum,
                            !.canonical = canonical]
  <2>1. a.state = t /\ a.status = "ok" /\ a.value = RefOf(t, id)
    BY <1>5 DEF Settle, Publish, Reply
  <2> HIDE DEF canonical
  <2>2. /\ Changed(s, t, id, o) /\ t.canonical = canonical /\ t.bytes = s.bytes
        /\ t.quarantined = s.quarantined
    BY <1>1 DEF IsRegistry, Changed
  <2> HIDE DEF t
  <2>3. /\ o \in Object /\ o.op = old.op /\ o.identity = identity /\ o.refs = old.refs
        /\ o.state = "sealed" /\ o.storage = old.storage /\ o.producer = TRUE
    BY <1>1 DEF Object
  <2> HIDE DEF o
  <2>4. ObjectOK(o, s) /\ Succeeds(o, old)
    BY <1>1, <2>3 DEF ObjectOK, Succeeds
  <2>5. /\ DOMAIN t.objects = DOMAIN s.objects /\ t.objects[id] = o
        /\ \A x \in DOMAIN s.objects \ {id} : t.objects[x] = s.objects[x]
        /\ t.inc = s.inc /\ t.leases = s.leases
        /\ t.nextObject = s.nextObject /\ t.nextLease = s.nextLease
    BY <2>2 DEF Changed
  <2>6. Published(t)
    <3>1. /\ DOMAIN t.canonical = DOMAIN s.canonical \cup {identity}
          /\ t.canonical[identity] = id
          /\ \A i \in DOMAIN s.canonical : t.canonical[i] = s.canonical[i]
      BY <1>5, <2>2 DEF With, canonical
    <3>2. \A i \in DOMAIN s.canonical : s.canonical[i] # id
      BY <1>1 DEF RegCore, Published
    <3>3. QED
      BY <1>1, <1>5, <2>3, <2>5, <3>1, <3>2 DEF RegCore, Published
  <2>7. ASSUME RegTyped(t)
        PROVE  BytesAddUp(t)
    <3>1. /\ t.bytes = s.bytes - old.storage + o.storage /\ o.storage <= old.storage
          /\ t.quarantined = s.quarantined + (IF o.state = "quarantined" THEN o.storage ELSE 0)
      BY <1>1, <1>3, <2>2, <2>3
    <3>2. t.objects = [s.objects EXCEPT ![id] = o] /\ old.state # "quarantined"
      BY <2>2 DEF Changed
    <3>3. QED
      BY <1>1, <2>7, <3>1, <3>2, BytesChanged
  <2>8. RegCore(t)
    BY <1>1, <2>2, <2>4, <2>6, <2>7, ChangedKeeps
  <2>9. NoGarbage(t)
    BY <2>3, <2>5 DEF RegInv, NoGarbage
  <2>10. Affects(s, t, id, o)
    BY <2>5 DEF Affects
  <2>11. IsRef(RefOf(t, id))
    BY <1>1, <2>3, <2>5 DEF RefOf, IsRef
  <2>12. QED
    BY <2>1, <2>3, <2>5, <2>8, <2>9, <2>10, <2>11 DEF RegInv
<1>6. CASE identity \in DOMAIN s.canonical
  <2> DEFINE w == s.canonical[identity]
  <2>1. w \in DOMAIN s.objects /\ s.objects[w].state = "sealed" /\ w # id
    BY <1>1, <1>6 DEF RegCore, Published
  <2>2. CASE s.objects[w].sum # sum
    <3> DEFINE o == [old EXCEPT !.state = "quarantined", !.sum = sum]
               t == [s EXCEPT !.objects[id].state = "quarantined", !.objects[id].sum = sum,
                              !.quarantined = s.quarantined + old.storage]
    <3>1. a.state = t /\ a.status = "checksum_mismatch"
      BY <1>1, <1>6, <2>1, <2>2 DEF Settle, Quarantine, Refuse, Reply, IsRegistry
    <3>2. /\ Changed(s, t, id, o) /\ t.canonical = s.canonical /\ t.bytes = s.bytes
          /\ t.quarantined = s.quarantined + old.storage
      BY <1>1 DEF IsRegistry, Changed
    <3> HIDE DEF t
    <3>3. /\ o \in Object /\ o.op = old.op /\ o.identity = identity /\ o.refs = old.refs
          /\ o.state = "quarantined" /\ o.storage = old.storage /\ o.producer = TRUE
      BY <1>1 DEF Object
    <3> HIDE DEF o
    <3>4. ObjectOK(o, s) /\ Succeeds(o, old)
      BY <1>1, <1>2, <3>3 DEF ObjectOK, Succeeds
    <3>5. /\ DOMAIN t.objects = DOMAIN s.objects /\ t.objects[id] = o
          /\ \A x \in DOMAIN s.objects \ {id} : t.objects[x] = s.objects[x]
          /\ t.inc = s.inc /\ t.leases = s.leases
          /\ t.nextObject = s.nextObject /\ t.nextLease = s.nextLease
          /\ t.objects = [s.objects EXCEPT ![id] = o]
      BY <3>2 DEF Changed
    <3>6. Published(t)
      <4>1. s.objects[id].state # "sealed" /\ o.state # "sealed"
        BY <3>3
      <4>2. QED
        BY <1>1, <3>2, <3>5, <4>1, PublishedStays
    <3>7. ASSUME RegTyped(t)
          PROVE  BytesAddUp(t)
      <4>1. /\ t.bytes = s.bytes - old.storage + o.storage /\ o.storage <= old.storage
            /\ t.quarantined = s.quarantined + (IF o.state = "quarantined" THEN o.storage ELSE 0)
        BY <1>1, <1>3, <3>2, <3>3
      <4>2. QED
        BY <1>1, <3>5, <3>7, <4>1, BytesChanged
    <3>8. RegCore(t)
      BY <1>1, <3>2, <3>4, <3>6, <3>7, ChangedKeeps
    <3>9. NoGarbage(t)
      BY <3>3, <3>5 DEF RegInv, NoGarbage
    <3>10. Affects(s, t, id, o)
      BY <3>5 DEF Affects
    <3>11. QED
      BY <3>1, <3>3, <3>5, <3>8, <3>9, <3>10 DEF RegInv
  <2>3. CASE s.objects[w].sum = sum
    <3> DEFINE o == [old EXCEPT !.state = "retired", !.winner = w, !.storage = 0]
               u == [s EXCEPT !.objects[id].state = "retired", !.objects[id].winner = w,
                              !.objects[id].storage = 0, !.bytes = s.bytes - old.storage]
               t == CollectIfUnused(u, id)
    <3>1. a.state = t /\ a.status = "ok" /\ a.value = RefOf(s, w)
      BY <1>1, <1>6, <2>1, <2>3 DEF Settle, YieldTo, Reply, IsRegistry
    <3>2. /\ Changed(s, u, id, o) /\ u.canonical = s.canonical
          /\ u.bytes = s.bytes - old.storage /\ u.quarantined = s.quarantined
      BY <1>1 DEF IsRegistry, Changed
    <3> HIDE DEF u
    <3>3. /\ o \in Object /\ o.op = old.op /\ o.identity = identity /\ o.refs = old.refs
          /\ o.state = "retired" /\ o.storage = 0 /\ o.producer = TRUE
      <4>1. w \in Nat
        BY <1>1, <2>1 DEF RegTyped
      <4>2. QED
        BY <1>1, <4>1 DEF Object
    <3> HIDE DEF o
    <3>4. ObjectOK(o, s) /\ Succeeds(o, old)
      BY <1>1, <1>2, <3>3 DEF ObjectOK, Succeeds
    <3>5. u.objects = [s.objects EXCEPT ![id] = o]
      BY <3>2 DEF Changed
    <3>6. Published(u)
      BY <1>1, <3>2, <3>3, <3>5, PublishedStays
    <3>7. ASSUME RegTyped(u)
          PROVE  BytesAddUp(u)
      <4>1. /\ u.bytes = s.bytes - old.storage + o.storage /\ o.storage <= old.storage
            /\ u.quarantined = s.quarantined + (IF o.state = "quarantined" THEN o.storage ELSE 0)
        BY <1>1, <1>3, <3>2, <3>3
      <4>2. QED
        BY <1>1, <3>5, <3>7, <4>1, BytesChanged
    <3>8. RegInv(t) /\ Affects(s, t, id, o) /\ id \in DOMAIN t.objects
      BY <3>2, <3>3, <3>4, <3>6, <3>7, ChangeCollected
    <3> HIDE DEF t
    <3>9. DOMAIN t.objects = DOMAIN s.objects /\ t.objects[id] = o
      BY <3>8 DEF Affects
    <3>10. IsRef(RefOf(s, w))
      BY <1>4, <2>1
    <3>11. QED
      BY <3>1, <3>3, <3>8, <3>9, <3>10
  <2>4. QED
    BY <2>2, <2>3
<1>7. QED
  BY <1>5, <1>6
\* What the request to seal an object does: nothing if the object has gone.
LEMMA SealEffect ==
  ASSUME NEW s, RegInv(s), NEW h, NEW sum \in Range(Sum),
         h.inc = s.inc /\ h.id \in DOMAIN s.objects => s.objects[h.id].state = "reserved"
  PROVE  LET a == Seal(s, h, sum)
             t == a.state
             id == h.id
         IN
         /\ RegInv(t) /\ DOMAIN t.objects = DOMAIN s.objects
         /\ \/ t = s /\ (h.inc # s.inc \/ id \notin DOMAIN s.objects)
            \/ /\ h.inc = s.inc
               /\ \E o : /\ Affects(s, t, id, o) /\ o.op = s.objects[id].op
                         /\ o.identity = s.objects[id].identity /\ o.producer
                         /\ o.state # "reserved"
         /\ a.status = "ok" => IsRef(a.value)
         /\ h.inc = s.inc /\ id \in DOMAIN s.objects /\ t.objects[id].state = "sealed" =>
              a.status = "ok" /\ a.value = RefOf(t, id)
<1>1. CASE h.inc # s.inc \/ h.id \notin DOMAIN s.objects
  <2>1. HandleStatus(s, h) # "ok"
    BY <1>1 DEF HandleStatus
  <2>2. /\ Seal(s, h, sum).state = s /\ Seal(s, h, sum).status = HandleStatus(s, h)
    BY <2>1 DEF Seal, Refuse, Reply
  <2>3. QED
    BY <1>1, <2>1, <2>2
<1>2. CASE h.inc = s.inc /\ h.id \in DOMAIN s.objects
  <2>1. HandleStatus(s, h) = "ok" /\ s.objects[h.id].state = "reserved"
    BY <1>2 DEF HandleStatus
  <2>2. Seal(s, h, sum) = Settle(s, h.id, sum)
    BY <2>1 DEF Seal
  <2> DEFINE a == Settle(s, h.id, sum)
  <2>3. /\ RegInv(a.state) /\ DOMAIN a.state.objects = DOMAIN s.objects
        /\ \E o : /\ Affects(s, a.state, h.id, o) /\ o.op = s.objects[h.id].op
                  /\ o.identity = s.objects[h.id].identity /\ o.producer
                  /\ o.state # "reserved"
        /\ a.status = "ok" => IsRef(a.value)
        /\ a.state.objects[h.id].state = "sealed" =>
             a.status = "ok" /\ a.value = RefOf(a.state, h.id)
    BY <1>2, <2>1, SettleEffect
  <2> HIDE DEF a
  <2>4. QED
    BY <1>2, <2>2, <2>3 DEF a
<1>3. QED
  BY <1>1, <1>2

-----------------------------------------------------------------------------
(* ReleaseProducer and Withdraw. *)

\* The producer's reference goes; an object that was never sealed goes with it.
LEMMA ReleaseProducerEffect ==
  ASSUME NEW s, RegInv(s), NEW h
  PROVE  LET a == ReleaseProducer(s, h)
             t == a.state
             id == h.id
         IN
         /\ RegInv(t) /\ a.status # "not_ready"
         /\ \/ t = s /\ (h.inc # s.inc \/ id \notin DOMAIN s.objects)
            \/ /\ h.inc = s.inc
               /\ \E o : /\ Affects(s, t, id, o) /\ o.op = s.objects[id].op
                         /\ o.identity = s.objects[id].identity /\ ~ o.producer
                         /\ id \in DOMAIN t.objects => o.state = s.objects[id].state
<1>1. CASE h.inc # s.inc \/ h.id \notin DOMAIN s.objects
  <2>1. HandleStatus(s, h) \in {"owner_restarted", "unknown_object"}
    BY <1>1 DEF HandleStatus
  <2>2. /\ ReleaseProducer(s, h).state = s
        /\ ReleaseProducer(s, h).status = HandleStatus(s, h)
    BY <2>1 DEF ReleaseProducer, Refuse, Reply
  <2>3. QED
    BY <1>1, <2>1, <2>2
<1>2. CASE h.inc = s.inc /\ h.id \in DOMAIN s.objects
  <2> DEFINE id == h.id
             old == s.objects[id]
             state == IF old.state = "reserved" THEN "retired" ELSE old.state
             o == [old EXCEPT !.producer = FALSE, !.state = state]
             u == [s EXCEPT !.objects[h.id].producer = FALSE,
                            !.objects[h.id].state = IF @ = "reserved" THEN "retired" ELSE @]
             t == CollectIfUnused(u, id)
  <2>1. ReleaseProducer(s, h).state = t /\ ReleaseProducer(s, h).status = "ok"
    <3>1. HandleStatus(s, h) = "ok"
      BY <1>2 DEF HandleStatus
    <3>2. QED
      BY <3>1 DEF ReleaseProducer, Refuse, Reply
  <2>2. /\ IsRegistry(s) /\ RegCore(s) /\ RegTyped(s) /\ ObjectOK(old, s) /\ old \in Object
        /\ old.storage \in Nat /\ old.refs \in Nat
    BY <1>2 DEF RegInv, RegCore, RegTyped, ObjectOK, Object
  <2>3. /\ Changed(s, u, id, o) /\ u.canonical = s.canonical /\ u.bytes = s.bytes
        /\ u.quarantined = s.quarantined
    BY <1>2, <2>2 DEF IsRegistry, Changed, Object
  <2> HIDE DEF u
  <2>4. /\ o \in Object /\ o.op = old.op /\ o.identity = old.identity /\ o.refs = old.refs
        /\ o.state = state /\ o.storage = old.storage /\ o.producer = FALSE
        /\ state \in {"retired", old.state} /\ state # "reserved"
    BY <2>2 DEF Object
  <2>5. state = old.state \/ (old.state = "reserved" /\ state = "retired")
    OBVIOUS
  <2> HIDE DEF o, state
  <2>6. old.refs > 0 => old.state \in {"sealed", "retired"} /\ old.storage > 0
    <3>1. SUFFICES ASSUME old.refs > 0
                   PROVE  old.state \in {"sealed", "retired"} /\ old.storage > 0
      OBVIOUS
    <3>2. LeasesOf(s, id) # {}
      BY <1>2, <2>2, <3>1, FS_EmptySet DEF RegCore, Lent
    <3>3. QED
      BY <2>2, <3>2 DEF LeasesOf, RegCore, Lent
  <2>7. ObjectOK(o, s) /\ Succeeds(o, old)
    BY <2>2, <2>4, <2>5, <2>6 DEF ObjectOK, Succeeds
  <2>8. u.objects = [s.objects EXCEPT ![id] = o]
    BY <2>3 DEF Changed
  <2>9. Published(u)
    BY <1>2, <2>2, <2>3, <2>4, <2>5, <2>8, PublishedStays
  <2>10. ASSUME RegTyped(u)
         PROVE  BytesAddUp(u)
    <3>1. s.bytes \in Nat /\ s.quarantined \in Nat
      BY <2>2, BytesNat
    <3>2. CASE old.state = "quarantined"
      <4>1. /\ Storage(u) = Storage(s) /\ Quarantined(u) = Quarantined(s)
            /\ DOMAIN u.objects = DOMAIN s.objects
        BY <1>2, <2>4, <2>5, <2>8, <3>2 DEF Storage, Quarantined
      <4>2. QED
        BY <2>2, <2>3, <4>1 DEF RegCore, BytesAddUp
    <3>3. CASE old.state # "quarantined"
      <4>1. /\ u.bytes = s.bytes - old.storage + o.storage /\ o.storage <= old.storage
            /\ u.quarantined = s.quarantined + (IF o.state = "quarantined" THEN o.storage ELSE 0)
        BY <2>2, <2>3, <2>4, <2>5, <3>1, <3>3
      <4>2. QED
        BY <1>2, <2>2, <2>8, <2>10, <3>3, <4>1, BytesChanged
    <3>4. QED
      BY <3>2, <3>3
  <2>11. RegInv(t) /\ Affects(s, t, id, o)
    BY <1>2, <2>3, <2>7, <2>9, <2>10, ChangeCollected
  <2>12. id \in DOMAIN t.objects => o.state = old.state
    <3>1. SUFFICES ASSUME old.state = "reserved", o.state = "retired", id \in DOMAIN t.objects
                   PROVE  FALSE
      BY <2>4, <2>5
    <3>2. t.objects[id] = o
      BY <2>11, <3>1 DEF Affects
    <3>3. o.refs > 0
      BY <2>4, <2>11, <3>1, <3>2 DEF RegInv, NoGarbage
    <3>4. QED
      BY <2>4, <2>6, <3>1, <3>3
  <2> HIDE DEF t
  <2>13. QED
    BY <1>2, <2>1, <2>4, <2>11, <2>12
<1>3. QED
  BY <1>1, <1>2

\* From s to t what ref names is withdrawn; it was not published if t is s.
Withdrawn(s, t, ref) ==
  LET id == ref.id IN
  \/ /\ t = s
     /\ id \in DOMAIN s.objects /\ ref = RefOf(s, id) => s.objects[id].state # "sealed"
  \/ /\ ref.inc = s.inc /\ s.objects[id].state = "sealed"
     /\ \E o : /\ Affects(s, t, id, o) /\ o.op = s.objects[id].op
               /\ o.identity = s.objects[id].identity
               /\ o.producer = s.objects[id].producer /\ o.state = "retired"

\* A withdrawn object is not published any more, and goes with its last user.
LEMMA WithdrawEffect ==
  ASSUME NEW s, RegInv(s), NEW ref
  PROVE  LET a == Withdraw(s, ref) IN
         RegInv(a.state) /\ a.status # "not_ready" /\ Withdrawn(s, a.state, ref)
<1> DEFINE id == ref.id
           current == ref.identity \in DOMAIN s.canonical /\ s.canonical[ref.identity] = id
<1>1. CASE ref.inc # s.inc \/ id \notin DOMAIN s.objects
  <2>1. HandleStatus(s, ref) \in {"owner_restarted", "unknown_object"}
    BY <1>1 DEF HandleStatus
  <2>2. Withdraw(s, ref).state = s /\ Withdraw(s, ref).status = HandleStatus(s, ref)
    BY <2>1 DEF Withdraw, Refuse, Reply
  <2>3. QED
    BY <1>1, <2>1, <2>2 DEF RefOf, Withdrawn
<1>2. CASE ref.inc = s.inc /\ id \in DOMAIN s.objects /\ ~ current
  <2>1. HandleStatus(s, ref) = "ok"
    BY <1>2 DEF HandleStatus
  <2>2. Withdraw(s, ref).state = s /\ Withdraw(s, ref).status \in {"ok", "unknown_object"}
    BY <1>2, <2>1 DEF Withdraw, Refuse, Reply
  <2>3. ref = RefOf(s, id) => s.objects[id].state # "sealed"
    <3>1. ref = RefOf(s, id) => ref.identity = s.objects[id].identity
      BY DEF RefOf
    <3>2. QED
      BY <1>2, <3>1 DEF RegInv, RegCore, Published
  <2>4. QED
    BY <2>2, <2>3 DEF Withdrawn
<1>3. CASE ref.inc = s.inc /\ id \in DOMAIN s.objects /\ current
  <2> DEFINE old == s.objects[id]
             o == [old EXCEPT !.state = "retired"]
             canonical == Without(s.canonical, ref.identity)
             u == [s EXCEPT !.canonical = canonical, !.objects[id].state = "retired"]
             t == CollectIfUnused(u, id)
  <2>1. Withdraw(s, ref).state = t /\ Withdraw(s, ref).status = "ok"
    <3>1. HandleStatus(s, ref) = "ok"
      BY <1>3 DEF HandleStatus
    <3>2. IsRegistry(s)
      BY DEF RegInv, RegCore, RegTyped
    <3>3. QED
      BY <1>3, <3>1, <3>2 DEF Withdraw, Refuse, Reply, IsRegistry
  <2>2. /\ IsRegistry(s) /\ RegCore(s) /\ RegTyped(s) /\ ObjectOK(old, s) /\ old \in Object
        /\ old.storage \in Nat /\ old.storage > 0 /\ old.state = "sealed"
        /\ old.identity = ref.identity
    BY <1>3 DEF RegInv, RegCore, RegTyped, ObjectOK, Object, Published
  <2> HIDE DEF canonical
  <2>3. /\ Changed(s, u, id, o) /\ u.canonical = canonical /\ u.bytes = s.bytes
        /\ u.quarantined = s.quarantined
    BY <1>3, <2>2 DEF IsRegistry, Changed
  <2> HIDE DEF u
  <2>4. /\ o \in Object /\ o.op = old.op /\ o.identity = old.identity /\ o.refs = old.refs
        /\ o.state = "retired" /\ o.storage = old.storage /\ o.producer = old.producer
    BY <2>2 DEF Object
  <2> HIDE DEF o
  <2>5. ObjectOK(o, s) /\ Succeeds(o, old)
    BY <2>2, <2>4 DEF ObjectOK, Succeeds
  <2>6. u.objects = [s.objects EXCEPT ![id] = o]
    BY <2>3 DEF Changed
  <2>7. Published(u)
    <3>1. /\ DOMAIN u.canonical = DOMAIN s.canonical \ {ref.identity}
          /\ \A i \in DOMAIN u.canonical : u.canonical[i] = s.canonical[i]
      BY <2>3 DEF Without, canonical
    <3>2. Published(s)
      BY <2>2 DEF RegCore
    <3>3. /\ DOMAIN u.objects = DOMAIN s.objects /\ u.objects[id] = o
          /\ \A x \in DOMAIN s.objects \ {id} : u.objects[x] = s.objects[x]
      BY <1>3, <2>6
    <3>4. QED
      BY <1>3, <2>2, <2>4, <3>1, <3>2, <3>3 DEF Published
  <2>8. ASSUME RegTyped(u)
        PROVE  BytesAddUp(u)
    <3>1. s.bytes \in Nat /\ s.quarantined \in Nat
      BY <2>2, BytesNat
    <3>2. /\ u.bytes = s.bytes - old.storage + o.storage /\ o.storage <= old.storage
          /\ u.quarantined = s.quarantined + (IF o.state = "quarantined" THEN o.storage ELSE 0)
          /\ old.state # "quarantined"
      BY <2>2, <2>3, <2>4, <3>1
    <3>3. QED
      BY <1>3, <2>2, <2>6, <2>8, <3>2, BytesChanged
  <2>9. RegInv(t) /\ Affects(s, t, id, o)
    BY <1>3, <2>3, <2>5, <2>7, <2>8, ChangeCollected
  <2> HIDE DEF t
  <2>10. QED
    BY <1>3, <2>1, <2>2, <2>4, <2>9 DEF Withdrawn
<1>4. QED
  BY <1>1, <1>2, <1>3
-----------------------------------------------------------------------------
(* Acquire. *)

\* What an acquire that succeeds leaves: a lease of c on object id.
Leased(s, t, c, id) ==
  /\ IsRegistry(t)
  /\ t.inc = s.inc /\ t.operations = s.operations /\ t.canonical = s.canonical
  /\ t.bytes = s.bytes /\ t.quarantined = s.quarantined /\ t.nextObject = s.nextObject
  /\ t.nextLease = s.nextLease + 1
  /\ t.leases = With(s.leases, s.nextLease, [op |-> AcquireOp(c), object |-> id])
  /\ t.acquires = With(s.acquires, AcquireOp(c), s.nextLease)
  /\ DOMAIN t.objects = DOMAIN s.objects
  /\ \A x \in DOMAIN s.objects \ {id} : t.objects[x] = s.objects[x]
  /\ t.objects[id] = [s.objects[id] EXCEPT !.refs = s.objects[id].refs + 1]

\* What Acquire does: it refuses, repeats its answer, or leases what is
\* published; it never terminates the process.
LEMMA AcquireEffect ==
  ASSUME NEW s, RegInv(s), NEW c \in Consumer, NEW identity
  PROVE  LET a == Acquire(s, AcquireOp(c), identity)
             l == s.acquires[AcquireOp(c)]
             id == s.canonical[identity]
         IN
         \/ a.state = s /\ a.status # "ok"
         \/ /\ a.state = s /\ a.status = "ok" /\ a.value = TokenOf(s, AcquireOp(c), l)
            /\ l \in DOMAIN s.leases /\ s.leases[l].op = AcquireOp(c)
         \/ /\ AcquireOp(c) \notin DOMAIN s.acquires
            /\ id \in DOMAIN s.objects /\ s.objects[id].state = "sealed"
            /\ s.objects[id].identity = identity
            /\ Leased(s, a.state, c, id) /\ a.status = "ok"
            /\ a.value = TokenOf(s, AcquireOp(c), s.nextLease)
<1> DEFINE op == AcquireOp(c)
           a == Acquire(s, op, identity)
           id == s.canonical[identity]
<1>1. CASE op \in DOMAIN s.acquires
  <2>1. s.acquires[op] \in DOMAIN s.leases /\ s.leases[s.acquires[op]].op = op
    BY <1>1 DEF RegInv, RegCore, OpsInverse
  <2> HIDE DEF op
  <2>2. QED
    BY <1>1, <2>1 DEF Acquire, Reply, op
<1>2. CASE /\ op \notin DOMAIN s.acquires
           /\ (\/ Cardinality(DOMAIN s.leases) >= CapacityLeases
               \/ identity \notin DOMAIN s.canonical)
  BY <1>2 DEF Acquire, NewLease, Refuse, Reply
<1>3. CASE /\ op \notin DOMAIN s.acquires
           /\ ~ (Cardinality(DOMAIN s.leases) >= CapacityLeases)
           /\ identity \in DOMAIN s.canonical
  <2> DEFINE old == s.objects[id]
             leases == With(s.leases, s.nextLease, [op |-> op, object |-> id])
             acquires == With(s.acquires, op, s.nextLease)
             t == [s EXCEPT !.objects[id].refs = @ + 1, !.nextLease = s.nextLease + 1,
                            !.leases = leases, !.acquires = acquires]
  <2>1. /\ id \in DOMAIN s.objects /\ old.state = "sealed" /\ old.identity = identity
        /\ IsRegistry(s) /\ old \in Object
    BY <1>3 DEF RegInv, RegCore, Published, RegTyped, ObjectOK
  <2>2. a.state = t /\ a.status = "ok" /\ a.value = TokenOf(s, op, s.nextLease)
    BY <1>3, <2>1 DEF Acquire, NewLease, Reply
  <2> HIDE DEF leases, acquires, op
  <2>3. /\ IsRegistry(t) /\ t.inc = s.inc /\ t.operations = s.operations
        /\ t.canonical = s.canonical /\ t.bytes = s.bytes
        /\ t.quarantined = s.quarantined /\ t.nextObject = s.nextObject
        /\ t.nextLease = s.nextLease + 1 /\ t.leases = leases /\ t.acquires = acquires
        /\ t.objects = [s.objects EXCEPT ![id].refs = @ + 1]
    BY <2>1 DEF IsRegistry
  <2> HIDE DEF t
  <2>4. /\ DOMAIN t.objects = DOMAIN s.objects
        /\ \A x \in DOMAIN s.objects \ {id} : t.objects[x] = s.objects[x]
        /\ t.objects[id] = [old EXCEPT !.refs = old.refs + 1]
    BY <2>1, <2>3
  <2>5. Leased(s, t, c, id)
    BY <2>3, <2>4 DEF Leased, leases, acquires, op
  <2>6. QED
    BY <1>3, <2>1, <2>2, <2>5 DEF op
<1>4. QED
  BY <1>1, <1>2, <1>3

\* A lease of a sealed object of the right identity keeps the registry
\* consistent.
LEMMA LeasedKeeps ==
  ASSUME NEW s, RegInv(s), NEW c \in Consumer, AcquireOp(c) \notin DOMAIN s.acquires,
         NEW id \in DOMAIN s.objects, s.objects[id].state = "sealed",
         s.objects[id].identity = Wanted[c], NEW t, Leased(s, t, c, id)
  PROVE  RegInv(t) /\ \A by : RegStep(s, t, by)
<1> DEFINE l == s.nextLease
           op == AcquireOp(c)
           old == s.objects[id]
<1>1. /\ DOMAIN t.leases = DOMAIN s.leases \cup {l}
      /\ t.leases[l] = [op |-> op, object |-> id]
      /\ \A m \in DOMAIN s.leases \ {l} : t.leases[m] = s.leases[m]
  BY DEF Leased, With
<1>2. /\ DOMAIN t.acquires = DOMAIN s.acquires \cup {op} /\ t.acquires[op] = l
      /\ \A x \in DOMAIN s.acquires \ {op} : t.acquires[x] = s.acquires[x]
  BY DEF Leased, With
<1>3. /\ IsRegistry(t) /\ t.inc = s.inc /\ t.operations = s.operations
      /\ t.canonical = s.canonical /\ t.bytes = s.bytes /\ t.quarantined = s.quarantined
      /\ t.nextObject = s.nextObject /\ t.nextLease = l + 1
      /\ DOMAIN t.objects = DOMAIN s.objects
      /\ \A x \in DOMAIN s.objects \ {id} : t.objects[x] = s.objects[x]
  BY DEF Leased
<1>4. l \in Nat \ {0} /\ l \notin DOMAIN s.leases /\ s.nextObject \in Nat
  BY DEF RegInv, RegCore, RegTyped
<1>5. old \in Object /\ ObjectOK(old, s) /\ old.refs \in Nat /\ old.storage > 0
  BY DEF RegInv, RegCore, RegTyped, ObjectOK, Object
<1>6. /\ t.objects[id] \in Object /\ t.objects[id].refs = old.refs + 1
      /\ t.objects[id].op = old.op /\ t.objects[id].identity = old.identity
      /\ t.objects[id].state = old.state /\ t.objects[id].storage = old.storage
      /\ t.objects[id].producer = old.producer
  BY <1>5 DEF Leased, Object
<1>7. \A x \in DOMAIN s.objects :
        /\ t.objects[x].op = s.objects[x].op
        /\ t.objects[x].identity = s.objects[x].identity
        /\ t.objects[x].state = s.objects[x].state
        /\ t.objects[x].storage = s.objects[x].storage
        /\ t.objects[x].producer = s.objects[x].producer
  BY <1>3, <1>6
<1>8. RegTyped(t)
  <2>1. \A x \in DOMAIN t.objects : ObjectOK(t.objects[x], t)
    <3>1. \A x \in DOMAIN s.objects : ObjectOK(s.objects[x], s)
      BY DEF RegInv, RegCore, RegTyped
    <3>2. \A x \in DOMAIN s.objects : t.objects[x] \in Object
      BY <1>3, <1>6, <3>1 DEF ObjectOK
    <3>3. QED
      BY <1>3, <1>7, <3>1, <3>2 DEF ObjectOK
  <2>2. \A m \in DOMAIN t.leases : m \in 1..t.nextLease - 1 /\ LeaseOK(t.leases[m])
    <3>1. LeaseOK(t.leases[l])
      BY <1>1 DEF LeaseOK
    <3>2. \A m \in DOMAIN s.leases : m \in 1..l - 1 /\ LeaseOK(s.leases[m])
      BY DEF RegInv, RegCore, RegTyped
    <3>3. QED
      BY <1>1, <1>3, <1>4, <3>1, <3>2
  <2>3. QED
    BY <1>3, <1>4, <2>1, <2>2 DEF RegInv, RegCore, RegTyped
<1>9. OpsInverse(t)
  <2>1. /\ \A x \in DOMAIN t.objects :
             t.objects[x].op \in DOMAIN t.operations /\ t.operations[t.objects[x].op] = x
        /\ \A o \in DOMAIN t.operations :
             t.operations[o] \in DOMAIN t.objects /\ t.objects[t.operations[o]].op = o
    <3>1. /\ \A x \in DOMAIN s.objects :
               s.objects[x].op \in DOMAIN s.operations /\ s.operations[s.objects[x].op] = x
          /\ \A o \in DOMAIN s.operations :
               s.operations[o] \in DOMAIN s.objects /\ s.objects[s.operations[o]].op = o
      BY DEF RegInv, RegCore, OpsInverse
    <3>2. /\ DOMAIN t.objects = DOMAIN s.objects /\ t.operations = s.operations
          /\ \A x \in DOMAIN s.objects : t.objects[x].op = s.objects[x].op
      BY <1>3, <1>7
    <3>3. QED
      BY <3>1, <3>2
  <2>2. /\ \A m \in DOMAIN t.leases :
             t.leases[m].op \in DOMAIN t.acquires /\ t.acquires[t.leases[m].op] = m
        /\ \A o \in DOMAIN t.acquires :
             t.acquires[o] \in DOMAIN t.leases /\ t.leases[t.acquires[o]].op = o
    <3>1. /\ \A m \in DOMAIN s.leases : /\ s.leases[m].op \in DOMAIN s.acquires \ {op}
                                       /\ s.acquires[s.leases[m].op] = m
          /\ \A o \in DOMAIN s.acquires : /\ s.acquires[o] \in DOMAIN s.leases \ {l}
                                         /\ s.leases[s.acquires[o]].op = o
      BY <1>4 DEF RegInv, RegCore, OpsInverse
    <3>2. op \notin DOMAIN s.acquires
      OBVIOUS
    <3> HIDE DEF op, l
    <3>3. QED
      BY <1>1, <1>2, <3>1, <3>2
  <2>3. QED
    BY <2>1, <2>2 DEF OpsInverse
<1>10. Lent(t)
  <2>1. LeasesOf(t, id) = LeasesOf(s, id) \cup {l}
    BY <1>1, <1>4 DEF LeasesOf
  <2>2. \A x \in DOMAIN s.objects \ {id} : LeasesOf(t, x) = LeasesOf(s, x)
    BY <1>1, <1>4 DEF LeasesOf
  <2>3. IsFiniteSet(LeasesOf(s, id)) /\ l \notin LeasesOf(s, id)
    BY <1>4, RegistryFinite DEF LeasesOf, RegInv, RegCore
  <2>4. Cardinality(LeasesOf(t, id)) = Cardinality(LeasesOf(s, id)) + 1
    BY <2>1, <2>3, FS_AddElement
  <2>5. \A x \in DOMAIN t.objects : t.objects[x].refs = Cardinality(LeasesOf(t, x))
    <3>1. \A x \in DOMAIN s.objects : s.objects[x].refs = Cardinality(LeasesOf(s, x))
      BY DEF RegInv, RegCore, Lent
    <3>2. QED
      BY <1>3, <1>6, <2>2, <2>4, <3>1
  <2>6. /\ t.leases[l].object = id /\ t.leases[l].op.sequence = c
        /\ t.objects[id].state = "sealed" /\ t.objects[id].storage > 0
        /\ t.objects[id].identity = Wanted[c]
    BY <1>1, <1>5, <1>6 DEF AcquireOp
  <2>7. ASSUME NEW m \in DOMAIN s.leases
        PROVE  LET x == t.leases[m].object IN
               /\ x \in DOMAIN t.objects /\ t.objects[x].state \in {"sealed", "retired"}
               /\ t.objects[x].storage > 0
               /\ t.objects[x].identity = Wanted[t.leases[m].op.sequence]
    <3>1. Lent(s) /\ t.leases[m] = s.leases[m]
      BY <1>1, <1>4 DEF RegInv, RegCore
    <3>2. QED
      BY <1>3, <1>7, <3>1 DEF Lent
  <2>8. QED
    BY <1>1, <1>3, <2>5, <2>6, <2>7 DEF Lent
<1>11. Published(t)
  <2>1. Published(s)
    BY DEF RegInv, RegCore
  <2>2. QED
    BY <1>3, <1>7, <2>1 DEF Published
<1>12. BytesAddUp(t)
  <2>1. Storage(t) = Storage(s) /\ Quarantined(t) = Quarantined(s)
    BY <1>3, <1>7 DEF Storage, Quarantined
  <2>2. QED
    BY <1>3, <2>1 DEF RegInv, RegCore, BytesAddUp
<1>13. NoGarbage(t)
  BY <1>3, <1>5, <1>6 DEF RegInv, NoGarbage
<1>14. ASSUME NEW by
       PROVE  RegStep(s, t, by)
  BY <1>1, <1>3, <1>4, <1>7 DEF RegStep
<1>15. QED
  BY <1>8, <1>9, <1>10, <1>11, <1>12, <1>13, <1>14 DEF RegInv, RegCore
-----------------------------------------------------------------------------
(* Release. *)

\* The first half of the release of lease l of object id: it is forgotten.
Unleased(s, u, l, id) ==
  /\ IsRegistry(u)
  /\ u.inc = s.inc /\ u.operations = s.operations /\ u.canonical = s.canonical
  /\ u.bytes = s.bytes /\ u.quarantined = s.quarantined
  /\ u.nextObject = s.nextObject /\ u.nextLease = s.nextLease
  /\ u.leases = Without(s.leases, l)
  /\ u.acquires = Without(s.acquires, s.leases[l].op)
  /\ DOMAIN u.objects = DOMAIN s.objects
  /\ \A x \in DOMAIN s.objects \ {id} : u.objects[x] = s.objects[x]
  /\ u.objects[id] = [s.objects[id] EXCEPT !.refs = s.objects[id].refs - 1]

\* The object of a lease is there and counts it: the service does not terminate.
LEMMA LeaseCounted ==
  ASSUME NEW s, RegInv(s), NEW l \in DOMAIN s.leases
  PROVE  LET id == s.leases[l].object IN
         /\ id \in DOMAIN s.objects /\ s.objects[id] \in Object
         /\ s.objects[id].refs \in Nat /\ s.objects[id].refs > 0
<1> DEFINE id == s.leases[l].object
<1>1. /\ id \in DOMAIN s.objects /\ s.objects[id] \in Object /\ s.objects[id].refs \in Nat
      /\ s.objects[id].refs = Cardinality(LeasesOf(s, id))
  BY DEF RegInv, RegCore, Lent, RegTyped, ObjectOK, Object
<1>2. l \in LeasesOf(s, id) /\ IsFiniteSet(LeasesOf(s, id))
  BY RegistryFinite DEF LeasesOf, RegInv, RegCore
<1>3. Cardinality(LeasesOf(s, id)) # 0
  BY <1>2, FS_EmptySet
<1>4. QED
  BY <1>1, <1>3

\* Forgetting a lease keeps the registry consistent, but for its object, which
\* may have been withdrawn and may have waited for it.
LEMMA UnleasedKeeps ==
  ASSUME NEW s, RegInv(s), NEW l \in DOMAIN s.leases, NEW u,
         Unleased(s, u, l, s.leases[l].object)
  PROVE  /\ RegCore(u)
         /\ \A x \in DOMAIN u.objects \ {s.leases[l].object} :
              u.objects[x].state = "retired" /\ ~ u.objects[x].producer
                => u.objects[x].refs > 0
<1> DEFINE id == s.leases[l].object
           old == s.objects[id]
<1>1. /\ DOMAIN u.leases = DOMAIN s.leases \ {l}
      /\ \A m \in DOMAIN u.leases : u.leases[m] = s.leases[m]
  BY DEF Unleased, Without
<1>2. /\ DOMAIN u.acquires = DOMAIN s.acquires \ {s.leases[l].op}
      /\ \A x \in DOMAIN u.acquires : u.acquires[x] = s.acquires[x]
  BY DEF Unleased, Without
<1>3. /\ IsRegistry(u) /\ u.inc = s.inc /\ u.operations = s.operations
      /\ u.canonical = s.canonical /\ u.bytes = s.bytes /\ u.quarantined = s.quarantined
      /\ u.nextObject = s.nextObject /\ u.nextLease = s.nextLease
      /\ DOMAIN u.objects = DOMAIN s.objects
      /\ \A x \in DOMAIN s.objects \ {id} : u.objects[x] = s.objects[x]
  BY DEF Unleased
<1>4. id \in DOMAIN s.objects /\ old \in Object /\ old.refs \in Nat /\ old.refs > 0
  BY LeaseCounted
<1>5. /\ u.objects[id] \in Object /\ u.objects[id].refs = old.refs - 1
      /\ u.objects[id].op = old.op /\ u.objects[id].identity = old.identity
      /\ u.objects[id].state = old.state /\ u.objects[id].storage = old.storage
      /\ u.objects[id].producer = old.producer
  <2>1. \A o \in Object : o.refs \in Nat /\ o.refs > 0 =>
          LET n == [o EXCEPT !.refs = o.refs - 1] IN
          /\ n \in Object /\ n.refs = o.refs - 1 /\ n.op = o.op /\ n.identity = o.identity
          /\ n.state = o.state /\ n.storage = o.storage /\ n.producer = o.producer
    BY DEF Object
  <2>2. u.objects[id] = [old EXCEPT !.refs = old.refs - 1]
    BY DEF Unleased
  <2> HIDE DEF id, old
  <2>3. QED
    BY <1>4, <2>1, <2>2
<1>6. \A x \in DOMAIN s.objects :
        /\ u.objects[x].op = s.objects[x].op
        /\ u.objects[x].identity = s.objects[x].identity
        /\ u.objects[x].state = s.objects[x].state
        /\ u.objects[x].storage = s.objects[x].storage
        /\ u.objects[x].producer = s.objects[x].producer
  BY <1>3, <1>5
<1>7. RegTyped(u)
  <2>1. \A x \in DOMAIN u.objects : ObjectOK(u.objects[x], u)
    <3>1. \A x \in DOMAIN s.objects : ObjectOK(s.objects[x], s)
      BY DEF RegInv, RegCore, RegTyped
    <3>2. \A x \in DOMAIN s.objects : u.objects[x] \in Object
      BY <1>3, <1>5, <3>1, SMT, ZenonT(60) DEF ObjectOK
    <3>3. QED
      BY <1>3, <1>6, <3>1, <3>2 DEF ObjectOK
  <2>2. QED
    BY <1>1, <1>3, <2>1 DEF RegInv, RegCore, RegTyped
<1>8. OpsInverse(u)
  <2>1. /\ \A x \in DOMAIN u.objects :
             u.objects[x].op \in DOMAIN u.operations /\ u.operations[u.objects[x].op] = x
        /\ \A o \in DOMAIN u.operations :
             u.operations[o] \in DOMAIN u.objects /\ u.objects[u.operations[o]].op = o
    <3>1. /\ \A x \in DOMAIN s.objects :
               s.objects[x].op \in DOMAIN s.operations /\ s.operations[s.objects[x].op] = x
          /\ \A o \in DOMAIN s.operations :
               s.operations[o] \in DOMAIN s.objects /\ s.objects[s.operations[o]].op = o
      BY DEF RegInv, RegCore, OpsInverse
    <3>2. /\ DOMAIN u.objects = DOMAIN s.objects /\ u.operations = s.operations
          /\ \A x \in DOMAIN s.objects : u.objects[x].op = s.objects[x].op
      BY <1>3, <1>6
    <3>3. QED
      BY <3>1, <3>2
  <2>2. /\ \A m \in DOMAIN u.leases :
             u.leases[m].op \in DOMAIN u.acquires /\ u.acquires[u.leases[m].op] = m
        /\ \A o \in DOMAIN u.acquires :
             u.acquires[o] \in DOMAIN u.leases /\ u.leases[u.acquires[o]].op = o
    BY <1>1, <1>2 DEF RegInv, RegCore, OpsInverse
  <2>3. QED
    BY <2>1, <2>2 DEF OpsInverse
<1>9. Lent(u)
  <2>1. LeasesOf(u, id) = LeasesOf(s, id) \ {l} /\ l \in LeasesOf(s, id)
    BY <1>1 DEF LeasesOf
  <2>2. \A x \in DOMAIN s.objects \ {id} : LeasesOf(u, x) = LeasesOf(s, x)
    BY <1>1 DEF LeasesOf
  <2>3. IsFiniteSet(LeasesOf(s, id))
    BY RegistryFinite DEF LeasesOf, RegInv, RegCore
  <2>4. Cardinality(LeasesOf(u, id)) = Cardinality(LeasesOf(s, id)) - 1
    BY <2>1, <2>3, FS_RemoveElement
  <2>5. \A x \in DOMAIN u.objects : u.objects[x].refs = Cardinality(LeasesOf(u, x))
    <3>1. \A x \in DOMAIN s.objects : s.objects[x].refs = Cardinality(LeasesOf(s, x))
      BY DEF RegInv, RegCore, Lent
    <3>2. QED
      BY <1>3, <1>4, <1>5, <2>2, <2>4, <3>1
  <2>6. ASSUME NEW m \in DOMAIN u.leases
        PROVE  LET x == u.leases[m].object IN
               /\ x \in DOMAIN u.objects /\ u.objects[x].state \in {"sealed", "retired"}
               /\ u.objects[x].storage > 0
               /\ u.objects[x].identity = Wanted[u.leases[m].op.sequence]
    <3>1. Lent(s) /\ u.leases[m] = s.leases[m] /\ m \in DOMAIN s.leases
      BY <1>1 DEF RegInv, RegCore
    <3>2. QED
      BY <1>3, <1>6, <3>1 DEF Lent
  <2>7. QED
    BY <2>5, <2>6 DEF Lent
<1>10. Published(u)
  <2>1. Published(s)
    BY DEF RegInv, RegCore
  <2>2. QED
    BY <1>3, <1>6, <2>1 DEF Published
<1>11. BytesAddUp(u)
  <2>1. Storage(u) = Storage(s) /\ Quarantined(u) = Quarantined(s)
    BY <1>3, <1>6 DEF Storage, Quarantined
  <2>2. QED
    BY <1>3, <2>1 DEF RegInv, RegCore, BytesAddUp
<1>12. QED
  BY <1>3, <1>7, <1>8, <1>9, <1>10, <1>11 DEF RegInv, RegCore, NoGarbage

\* From s to t lease l has gone, and no object has changed but in its count.
Ended(s, t, l) ==
  /\ l \in DOMAIN s.leases /\ t.inc = s.inc
  /\ t.nextObject = s.nextObject /\ t.nextLease = s.nextLease
  /\ DOMAIN t.leases = DOMAIN s.leases \ {l}
  /\ \A m \in DOMAIN t.leases : t.leases[m] = s.leases[m]
  /\ DOMAIN t.objects \subseteq DOMAIN s.objects
  /\ \A x \in DOMAIN t.objects :
       /\ t.objects[x].op = s.objects[x].op
       /\ t.objects[x].identity = s.objects[x].identity
       /\ t.objects[x].state = s.objects[x].state
       /\ t.objects[x].producer = s.objects[x].producer

\* What a release does: nothing, or one lease of the caller goes, and with it an
\* object that only waited for it.
LEMMA ReleaseEffect ==
  ASSUME NEW s, RegInv(s), NEW token
  PROVE  LET a == Release(s, token)
             t == a.state
             l == token.lease
         IN
         /\ RegInv(t) /\ a.status # "not_ready"
         /\ \/ /\ t = s
               /\ \/ token.inc # s.inc
                  \/ l \notin DOMAIN s.leases
                  \/ s.leases[l].op.consumer # token.consumer
            \/ token.inc = s.inc /\ Ended(s, t, l)
<1> DEFINE l == token.lease
           a == Release(s, token)
<1>1. CASE token.inc # s.inc
  BY <1>1 DEF Release, Refuse, Reply
<1>2. CASE token.inc = s.inc /\ l \notin DOMAIN s.leases
  BY <1>2 DEF Release, Refuse, Reply
<1>3. CASE /\ token.inc = s.inc /\ l \in DOMAIN s.leases
           /\ s.leases[l].op.consumer # token.consumer
  BY <1>3 DEF Release, Refuse, Reply
<1>4. CASE /\ token.inc = s.inc /\ l \in DOMAIN s.leases
           /\ s.leases[l].op.consumer = token.consumer
  <2> DEFINE id == s.leases[l].object
             old == s.objects[id]
             leases == Without(s.leases, l)
             acquires == Without(s.acquires, s.leases[l].op)
             u == [s EXCEPT !.leases = leases, !.acquires = acquires,
                            !.objects[id].refs = @ - 1]
             t == CollectIfUnused(u, id)
  <2>1. id \in DOMAIN s.objects /\ old \in Object /\ old.refs \in Nat /\ old.refs > 0
    BY <1>4, LeaseCounted
  <2>2. a.state = t /\ a.status = "ok"
    <3>1. a = DropLease(s, l)
      BY <1>4 DEF Release
    <3>2. DropLease(s, l) = Refuse(t, "ok")
      BY <2>1 DEF DropLease
    <3>3. QED
      BY <3>1, <3>2 DEF Refuse, Reply
  <2>3. IsRegistry(s)
    BY DEF RegInv, RegCore, RegTyped
  <2> HIDE DEF leases, acquires, a
  <2>4. /\ IsRegistry(u) /\ u.inc = s.inc /\ u.operations = s.operations
        /\ u.canonical = s.canonical /\ u.bytes = s.bytes
        /\ u.quarantined = s.quarantined /\ u.nextObject = s.nextObject
        /\ u.nextLease = s.nextLease /\ u.leases = leases /\ u.acquires = acquires
        /\ u.objects = [s.objects EXCEPT ![id].refs = @ - 1]
    BY <2>3 DEF IsRegistry
  <2> HIDE DEF u
  <2>5. /\ DOMAIN u.objects = DOMAIN s.objects
        /\ \A x \in DOMAIN s.objects \ {id} : u.objects[x] = s.objects[x]
        /\ u.objects[id] = [old EXCEPT !.refs = old.refs - 1]
    BY <2>1, <2>4, SMT, ZenonT(60)
  <2>6. Unleased(s, u, l, id)
    BY <2>4, <2>5, SMT, ZenonT(60) DEF Unleased, leases, acquires
  <2>7. /\ RegCore(u)
        /\ \A x \in DOMAIN u.objects \ {id} :
             u.objects[x].state = "retired" /\ ~ u.objects[x].producer => u.objects[x].refs > 0
    BY <1>4, <2>6, UnleasedKeeps
  <2> HIDE DEF id, old
  <2>8. /\ RegInv(t) /\ t.inc = u.inc /\ t.leases = u.leases
        /\ t.nextObject = u.nextObject /\ t.nextLease = u.nextLease
        /\ DOMAIN t.objects = DOMAIN u.objects \ (IF Unused(u, id) THEN {id} ELSE {})
        /\ \A x \in DOMAIN t.objects : t.objects[x] = u.objects[x]
    <3>1. id \in DOMAIN u.objects
      BY <2>1, <2>5
    <3>2. QED
      BY <2>7, <3>1, CollectKeeps
  <2>9. /\ u.objects[id].op = old.op /\ u.objects[id].identity = old.identity
        /\ u.objects[id].state = old.state /\ u.objects[id].producer = old.producer
    BY <2>1, <2>5 DEF Object
  <2>10. /\ DOMAIN u.leases = DOMAIN s.leases \ {l}
         /\ \A m \in DOMAIN u.leases : u.leases[m] = s.leases[m]
    BY <2>4 DEF leases, Without
  <2> HIDE DEF t
  <2>11. \A x \in DOMAIN t.objects :
           /\ t.objects[x].op = s.objects[x].op
           /\ t.objects[x].identity = s.objects[x].identity
           /\ t.objects[x].state = s.objects[x].state
           /\ t.objects[x].producer = s.objects[x].producer
    BY <2>5, <2>8, <2>9, SMT, ZenonT(60) DEF old
  <2>12. /\ t.inc = s.inc /\ t.nextObject = s.nextObject /\ t.nextLease = s.nextLease
         /\ DOMAIN t.leases = DOMAIN s.leases \ {l}
         /\ \A m \in DOMAIN t.leases : t.leases[m] = s.leases[m]
         /\ DOMAIN t.objects \subseteq DOMAIN s.objects
    BY <2>4, <2>5, <2>8, <2>10
  <2>13. Release(s, token).state = t /\ Release(s, token).status = "ok" /\ RegInv(t)
    BY <2>2, <2>8 DEF a
  <2>14. Ended(s, t, l)
    BY <1>4, <2>11, <2>12 DEF Ended
  <2>15. QED
    BY <1>4, <2>13, <2>14
<1>5. QED
  BY <1>1, <1>2, <1>3, <1>4

-----------------------------------------------------------------------------
(* The operations are steps of the registry. *)

\* What became of one object of by, or was withdrawn, is such a step.
LEMMA AffectsStep ==
  ASSUME NEW s, RegInv(s), NEW t, NEW id, NEW o, Affects(s, t, id, o), NEW by,
         o.op = s.objects[id].op, o.identity = s.objects[id].identity,
         \/ o.op.producer = by
         \/ /\ o.producer = s.objects[id].producer
            /\ s.objects[id].state = "sealed" /\ o.state = "retired"
  PROVE  RegStep(s, t, by)
<1>1. s.nextObject \in Nat /\ s.nextLease \in Nat
  BY DEF RegInv, RegCore, RegTyped
<1>2. QED
  BY <1>1 DEF RegStep, Affects

\* A release ends no lease but one of the caller.
LEMMA ReleaseStep ==
  ASSUME NEW s, RegInv(s), NEW token, NEW c \in Consumer, OwnLease(token, c, s)
  PROVE  RegStep(s, Release(s, token).state, c)
<1> DEFINE t == Release(s, token).state
           l == token.lease
<1>1. CASE t = s
  BY <1>1, SameRegistry
<1>2. CASE t # s
  <2>1. token.inc = s.inc /\ Ended(s, t, token.lease)
    BY <1>2, ReleaseEffect
  <2> HIDE DEF t, l
  <2>2. s.leases[l].op.sequence = c
    BY <2>1 DEF OwnLease, AcquireOp, Ended, l
  <2>3. s.nextObject \in Nat /\ s.nextLease \in Nat
    BY DEF RegInv, RegCore, RegTyped
  <2>4. RegStep(s, t, c)
    BY <2>1, <2>2, <2>3 DEF RegStep, Ended, l
  <2>5. QED
    BY <2>4 DEF t
<1>3. QED
  BY <1>1, <1>2
-----------------------------------------------------------------------------
(* What the invariant says, and what a step of the registry leaves of it.   *)

\* It implies what the runs check.
LEMMA InvariantImplies ==
  ASSUME IInv
  PROVE  TypeOK /\ NeverTerminates /\ ContentExact /\ TokensAgree
<1>1. RegCore(registry) /\ NoGarbage(registry) /\ RegTyped(registry)
  BY DEF IInv, RegInv, RegCore
<1>2. TypeOK
  <2>1. /\ registry.down = FALSE /\ Range(registry.objects) \subseteq Object
        /\ registry.bytes \in Nat /\ registry.quarantined \in Nat
    BY <1>1, BytesNat DEF RegTyped, IsRegistry, ObjectOK, Range
  <2>2. \A r \in wire : r.from \in Client /\ r.call \in Calls
    BY DEF IInv, RequestInv, RequestOK
  <2>3. \A c \in Client : client[c].at \in Calls \cup {"start", "pinged", "hold", "released", "done"}
    BY DEF IInv, ClientInv, ClientOK, Client, Calls, Early
  <2>4. registry.inc \in 1..MaxRestarts + 1 /\ lost \subseteq Client
    BY DEF IInv
  <2>5. QED
    BY <2>1, <2>2, <2>3, <2>4 DEF TypeOK
<1>3. NeverTerminates
  BY <1>1 DEF RegTyped, IsRegistry, NeverTerminates
<1>4. OnePublished
  BY <1>1 DEF RegCore, Published, OnePublished
<1>5. BytesExact
  BY <1>1 DEF RegCore, BytesAddUp, BytesExact, Storage, Quarantined
<1>6. LeasePinsObject
  <2>1. \A l, m \in DOMAIN registry.leases :
          registry.leases[l].op = registry.leases[m].op => l = m
    BY <1>1 DEF RegCore, OpsInverse
  <2>2. QED
    BY <1>1, <2>1 DEF RegCore, Lent, LeasesOf, LeasePinsObject
<1>7. TokenHonoured
  <2>1. ASSUME NEW c \in Consumer, client[c].at = "hold", client[c].held.inc = registry.inc
        PROVE  LET l == client[c].held.lease IN
               /\ l \in DOMAIN registry.leases
               /\ registry.leases[l].op.sequence = c
               /\ registry.objects[registry.leases[l].object].identity = Wanted[c]
    <3> DEFINE l == client[c].held.lease
    <3>1. ClientOK(c, client[c], registry)
      BY DEF IInv, ClientInv, Client
    <3>2. l \in DOMAIN registry.leases /\ registry.leases[l].op = AcquireOp(c)
      BY <2>1, <3>1 DEF ClientOK, OwnLease
    <3>3. registry.leases[l].op.sequence = c
      BY <3>2 DEF AcquireOp
    <3>4. QED
      BY <1>1, <3>2, <3>3 DEF RegCore, Lent
  <2>2. QED
    BY <2>1 DEF TokenHonoured
<1>8. NothingStranded
  <2>1. ASSUME NEW id \in DOMAIN registry.objects
        PROVE  LET o == registry.objects[id]
                   p == o.op.producer
               IN \/ p \in lost \/ o.state = "quarantined" \/ o.refs > 0
                  \/ client[p].at \in {"seal", "release_producer"}
                  \/ client[p].at \in {"hold", "withdraw"} /\ o.state = "sealed"
    <3> DEFINE o == registry.objects[id]
               p == o.op.producer
    <3>1. ObjectWanted(id, client[p], registry, p \in lost)
      BY DEF IInv, WantedInv
    <3>2. o.state \in {"reserved", "sealed", "retired", "quarantined"}
          /\ (o.state = "reserved" => o.producer)
      BY <1>1 DEF RegTyped, ObjectOK, Object
    <3>3. o.state = "retired" /\ ~ o.producer => o.refs > 0
      BY <1>1 DEF NoGarbage
    <3>4. QED
      BY <3>1, <3>2, <3>3 DEF ObjectWanted
  <2>2. ASSUME NEW l \in DOMAIN registry.leases
        PROVE  LET c == registry.leases[l].op.sequence IN
               \/ c \in lost
               \/ \E t \in {client[c].held, client[c].arg} :
                    t = TokenOf(registry, registry.leases[l].op, l)
    BY DEF IInv, WantedInv, LeaseWanted
  <2>3. QED
    BY <2>1, <2>2 DEF NothingStranded
<1>9. QED
  BY <1>2, <1>3, <1>4, <1>5, <1>6, <1>7, <1>8 DEF ContentExact, TokensAgree

\* The object of handle h, if it is there, has not been sealed.
Unsealed(h, s) ==
  h.inc = s.inc /\ h.id \in DOMAIN s.objects => s.objects[h.id].state = "reserved"

\* Handles and tokens stay good.
LEMMA StepKeepsTokens ==
  ASSUME NEW s, RegInv(s), NEW t, RegInv(t), NEW by, RegStep(s, t, by), NEW x, NEW c
  PROVE  /\ OwnHandle(x, c, s) => OwnHandle(x, c, t)
         /\ OwnLease(x, c, s) => OwnLease(x, c, t)
         /\ OwnHandle(x, c, s) /\ Unsealed(x, s) /\ by # c => Unsealed(x, t)
<1>1. /\ t.inc = s.inc /\ s.nextObject \in Nat /\ t.nextObject \in Nat
      /\ s.nextLease \in Nat /\ t.nextLease \in Nat
      /\ s.nextObject <= t.nextObject /\ s.nextLease <= t.nextLease
  BY DEF RegStep, RegInv, RegCore, RegTyped
<1>2. ASSUME OwnHandle(x, c, s), x.inc = t.inc
      PROVE  /\ x.id < t.nextObject
             /\ x.id \in DOMAIN t.objects =>
                  /\ x.id \in DOMAIN s.objects /\ t.objects[x.id].op = s.objects[x.id].op
                  /\ t.objects[x.id].op.producer = c
  <2>1. x.id \in Nat /\ x.id < s.nextObject
    BY <1>1, <1>2 DEF OwnHandle
  <2>2. x.id \in DOMAIN t.objects => x.id \in DOMAIN s.objects
    BY <1>1, <2>1 DEF RegStep
  <2>3. x.id \in DOMAIN s.objects => s.objects[x.id].op.producer = c
    BY <1>1, <1>2 DEF OwnHandle
  <2>4. QED
    BY <1>1, <2>1, <2>2, <2>3 DEF RegStep
<1>3. OwnHandle(x, c, s) => OwnHandle(x, c, t)
  BY <1>1, <1>2 DEF OwnHandle
<1>4. ASSUME OwnLease(x, c, s), x.inc = t.inc
      PROVE  /\ x.lease < t.nextLease
             /\ x.lease \in DOMAIN t.leases => t.leases[x.lease].op = AcquireOp(c)
  <2>1. x.lease \in Nat /\ x.lease < s.nextLease
    BY <1>1, <1>4 DEF OwnLease
  <2>2. x.lease \in DOMAIN t.leases =>
          x.lease \in DOMAIN s.leases /\ t.leases[x.lease] = s.leases[x.lease]
    BY <1>1, <2>1 DEF RegStep
  <2>3. x.lease \in DOMAIN s.leases => s.leases[x.lease].op = AcquireOp(c)
    BY <1>1, <1>4 DEF OwnLease
  <2>4. QED
    BY <1>1, <2>1, <2>2, <2>3
<1>5. OwnLease(x, c, s) => OwnLease(x, c, t)
  BY <1>1, <1>4 DEF OwnLease
<1>6. ASSUME OwnHandle(x, c, s), Unsealed(x, s), by # c, x.inc = t.inc, x.id \in DOMAIN t.objects
      PROVE  t.objects[x.id].state = "reserved"
  <2>1. /\ x.id \in DOMAIN s.objects /\ t.objects[x.id].op = s.objects[x.id].op
        /\ t.objects[x.id].op.producer = c
    BY <1>2, <1>6
  <2>2. s.objects[x.id].state = "reserved"
    BY <1>1, <1>6, <2>1 DEF Unsealed
  <2>3. QED
    BY <1>6, <2>1, <2>2 DEF RegStep
<1>7. QED
  BY <1>3, <1>5, <1>6 DEF Unsealed

\* The argument of a call stays good.
LEMMA StepKeepsArg ==
  ASSUME NEW s, RegInv(s), NEW t, RegInv(t), NEW by, RegStep(s, t, by),
         NEW c, NEW call, NEW arg, ArgOf(c, call, arg, s)
  PROVE  ArgOf(c, call, arg, t)
<1>1. /\ OwnHandle(arg, c, s) => OwnHandle(arg, c, t)
      /\ OwnLease(arg, c, s) => OwnLease(arg, c, t)
  BY StepKeepsTokens
<1>2. QED
  BY <1>1 DEF ArgOf

\* What a client holds stays good, unless the step is its own.
LEMMA StepKeepsClient ==
  ASSUME NEW s, RegInv(s), NEW t, RegInv(t), NEW by, RegStep(s, t, by),
         NEW c \in Client, NEW k, ClientOK(c, k, s),
         by = c => /\ c \in Producer => k.at \notin Early
                   /\ c \in Consumer => k.at # "hold"
  PROVE  ClientOK(c, k, t)
<1>1. ArgOf(c, k.at, k.arg, t)
  BY StepKeepsArg DEF ClientOK
<1>2. ASSUME c \in Consumer, k.at = "hold"
      PROVE  /\ OwnLease(k.held, c, t)
             /\ k.held.inc = t.inc => k.held.lease \in DOMAIN t.leases
  <2>1. /\ OwnLease(k.held, c, s) /\ by # c
        /\ k.held.inc = s.inc => k.held.lease \in DOMAIN s.leases
    BY <1>2 DEF ClientOK
  <2>2. OwnLease(k.held, c, t)
    BY <2>1, StepKeepsTokens
  <2>3. ASSUME k.held.inc = t.inc
        PROVE  k.held.lease \in DOMAIN t.leases
    <3>1. k.held.lease \in DOMAIN s.leases /\ s.leases[k.held.lease].op = AcquireOp(c)
      BY <2>1, <2>3 DEF OwnLease, RegStep
    <3>2. s.leases[k.held.lease].op.sequence # by
      BY <2>1, <3>1 DEF AcquireOp
    <3>3. QED
      BY <3>1, <3>2 DEF RegStep
  <2>4. QED
    BY <2>2, <2>3
<1>3. ASSUME c \in Producer, k.at \in Early, NEW id \in DOMAIN t.objects,
             t.objects[id].op.producer = c
      PROVE  t.objects[id].state = "reserved"
  <2>1. CASE id \in DOMAIN s.objects
    <3>1. s.objects[id].op.producer = c /\ t.objects[id].op.producer # by
      BY <1>3, <2>1 DEF RegStep
    <3>2. s.objects[id].state = "reserved"
      BY <1>3, <2>1, <3>1 DEF ClientOK
    <3>3. QED
      BY <1>3, <2>1, <3>1, <3>2 DEF RegStep
  <2>2. CASE id \notin DOMAIN s.objects
    BY <1>3, <2>2 DEF RegStep
  <2>3. QED
    BY <2>1, <2>2
<1>4. QED
  BY <1>1, <1>2, <1>3 DEF ClientOK

\* A request stays in order, a seal if its object has not been sealed meanwhile.
LEMMA StepKeepsRequest ==
  ASSUME NEW s, RegInv(s), NEW t, RegInv(t), NEW by, RegStep(s, t, by),
         NEW r, NEW k, NEW gone, RequestOK(r, k, s, gone),
         r.call = "seal" => Unsealed(r.arg, t) \/ by # r.from
  PROVE  RequestOK(r, k, t, gone)
<1>1. ArgOf(r.from, r.call, r.arg, t)
  BY StepKeepsArg DEF RequestOK
<1>2. r.call = "seal" => Unsealed(r.arg, t)
  <2>1. SUFFICES ASSUME r.call = "seal", by # r.from
                 PROVE  Unsealed(r.arg, t)
    OBVIOUS
  <2>2. OwnHandle(r.arg, r.from, s) /\ Unsealed(r.arg, s)
    BY <2>1 DEF RequestOK, ArgOf, Unsealed
  <2>3. QED
    BY <2>1, <2>2, StepKeepsTokens
<1>3. QED
  BY <1>1, <1>2 DEF RequestOK, Unsealed

\* An object or a lease that is not new, and not of the client the step is for,
\* is wanted as before.
LEMMA StepKeepsWanted ==
  ASSUME NEW s, RegInv(s), NEW t, RegInv(t), NEW by, RegStep(s, t, by), NEW k, NEW gone
  PROVE  /\ \A id \in DOMAIN s.objects \cap DOMAIN t.objects :
              t.objects[id].op.producer # by /\ ObjectWanted(id, k, s, gone)
                => ObjectWanted(id, k, t, gone)
         /\ \A l \in DOMAIN s.leases \cap DOMAIN t.leases :
              LeaseWanted(l, k, s, gone) => LeaseWanted(l, k, t, gone)
<1>1. \A x, op : TokenOf(s, op, x) = TokenOf(t, op, x)
  BY DEF RegStep, TokenOf
<1>2. \A l \in DOMAIN s.leases \cap DOMAIN t.leases : t.leases[l] = s.leases[l]
  BY DEF RegStep
<1>3. \A l \in DOMAIN s.leases \cap DOMAIN t.leases :
        LeaseWanted(l, k, s, gone) => LeaseWanted(l, k, t, gone)
  BY <1>1, <1>2 DEF LeaseWanted
<1>4. ASSUME NEW id \in DOMAIN s.objects \cap DOMAIN t.objects,
             t.objects[id].op.producer # by, ObjectWanted(id, k, s, gone)
      PROVE  ObjectWanted(id, k, t, gone)
  <2>1. /\ HandleOf(t, id) = HandleOf(s, id) /\ RefOf(t, id) = RefOf(s, id)
    BY DEF RegStep, HandleOf, RefOf
  <2>2. /\ t.objects[id].producer = s.objects[id].producer
        /\ \/ t.objects[id].state = s.objects[id].state
           \/ s.objects[id].state = "sealed" /\ t.objects[id].state = "retired"
    BY <1>4 DEF RegStep
  <2>3. QED
    BY <1>4, <2>1, <2>2 DEF ObjectWanted
<1>5. QED
  BY <1>3, <1>4
-----------------------------------------------------------------------------
(* One client at a time.                                                    *)

\* What a step of client c, or of the service for c, may do: c becomes k, only
\* requests of c are sent, and all of c are in order after it; the registry
\* takes a step.
Move(c, k, by) ==
  /\ RegInv(registry') /\ RegStep(registry, registry', by)
  /\ by # c => by \notin Client
  /\ by = c => /\ c \in Producer => client[c].at \notin Early
               /\ c \in Consumer => client[c].at # "hold"
  /\ lost \subseteq lost' /\ lost' \subseteq Client
  /\ client' = [client EXCEPT ![c] = k]
  /\ ClientOK(c, k, registry')
  /\ \A q \in wire' : IF q.from = c THEN RequestOK(q, k, registry', c \in lost')
                                    ELSE q \in wire

\* What the registry has of client c is wanted; what it has got is of c.
LeavesWanted(c, k) ==
  /\ \A id \in DOMAIN registry'.objects :
       /\ registry'.objects[id].op.producer = c =>
            ObjectWanted(id, k, registry', c \in lost')
       /\ id \notin DOMAIN registry.objects => registry'.objects[id].op.producer = c
  /\ \A l \in DOMAIN registry'.leases :
       /\ registry'.leases[l].op.sequence = c => LeaseWanted(l, k, registry', c \in lost')
       /\ l \notin DOMAIN registry.leases => registry'.leases[l].op.sequence = c

\* Objects are of producers, leases of consumers.
LEMMA OwnersDiffer ==
  ASSUME NEW s, RegInv(s)
  PROVE  /\ \A id \in DOMAIN s.objects : s.objects[id].op.producer \in Producer
         /\ \A l \in DOMAIN s.leases :
              s.leases[l].op.sequence \in Consumer
              /\ s.leases[l].op = AcquireOp(s.leases[l].op.sequence)
<1>1. \A id \in DOMAIN s.objects : s.objects[id].op.producer \in Producer
  BY DEF RegInv, RegCore, RegTyped, ObjectOK, Object
<1>2. ASSUME NEW l \in DOMAIN s.leases
      PROVE  /\ s.leases[l].op.sequence \in Consumer
             /\ s.leases[l].op = AcquireOp(s.leases[l].op.sequence)
  <2>1. PICK c \in Consumer : s.leases[l].op = AcquireOp(c)
    BY DEF RegInv, RegCore, RegTyped, LeaseOK
  <2>2. s.leases[l].op.sequence = c
    BY <2>1 DEF AcquireOp
  <2>3. QED
    BY <2>1, <2>2
<1>3. QED
  BY <1>1, <1>2

\* What client c sends is the call it waits for.
LEMMA SentOK ==
  ASSUME NEW s, NEW c \in Client, NEW k, ClientOK(c, k, s), NEW q \in Sent(c, k), NEW gone,
         k.at = "seal" => Unsealed(k.arg, s)
  PROVE  q.from = c /\ RequestOK(q, k, s, gone)
<1>1. /\ q = [from |-> c, call |-> k.at, try |-> k.try, arg |-> k.arg]
      /\ k.try > 0
  BY DEF Sent, IsWaiting
<1>2. k.at \in Calls /\ ArgOf(c, k.at, k.arg, s) /\ (k.at = "seal" => k.try = 1)
  BY <1>1 DEF ClientOK
<1>3. QED
  BY <1>1, <1>2 DEF RequestOK, Unsealed, Early

\* Such a step keeps the inductive invariant.
LEMMA MoveKeeps ==
  ASSUME IInv, NEW c \in Client, NEW k, NEW by, Move(c, k, by), LeavesWanted(c, k)
  PROVE  IInv'
<1>1. RegInv(registry) /\ RegStep(registry, registry', by) /\ RegInv(registry')
  BY DEF IInv, Move
<1>2. registry'.inc = registry.inc
  BY <1>1 DEF RegStep
<1>3. client'[c] = k /\ \A d \in Client \ {c} : client'[d] = client[d]
  BY DEF Move, IInv, ClientInv
<1>4. \A d \in Client \ {c} : by # d /\ (d \in lost => d \in lost')
  BY DEF Move
<1>5. ClientInv'
  <2>1. ASSUME NEW d \in Client
        PROVE  ClientOK(d, client'[d], registry')
    <3>1. CASE d = c
      BY <1>3, <3>1 DEF Move
    <3>2. CASE d # c
      <4>1. ClientOK(d, client[d], registry) /\ by # d
        BY <1>4, <3>2 DEF IInv, ClientInv
      <4>2. ClientOK(d, client[d], registry')
        BY <1>1, <4>1, StepKeepsClient
      <4>3. QED
        BY <1>3, <3>2, <4>2
    <3>3. QED
      BY <3>1, <3>2
  <2>2. client' = [d \in Client |-> client'[d]]
    BY DEF Move, IInv, ClientInv
  <2>3. QED
    BY <2>1, <2>2 DEF ClientInv
<1>6. RequestInv'
  <2>1. ASSUME NEW q \in wire'
        PROVE  RequestOK(q, client'[q.from], registry', q.from \in lost')
    <3>1. CASE q.from = c
      BY <1>3, <3>1 DEF Move
    <3>2. CASE q.from # c
      <4>1. q \in wire
        BY <3>2 DEF Move
      <4>2. RequestOK(q, client[q.from], registry, q.from \in lost) /\ q.from \in Client
        BY <4>1 DEF IInv, RequestInv, RequestOK
      <4>3. client'[q.from] = client[q.from] /\ by # q.from
            /\ (q.from \in lost => q.from \in lost')
        BY <1>3, <1>4, <3>2, <4>2
      <4>4. RequestOK(q, client[q.from], registry', q.from \in lost)
        BY <1>1, <4>2, <4>3, StepKeepsRequest
      <4>5. QED
        BY <4>3, <4>4 DEF RequestOK
    <3>3. QED
      BY <3>1, <3>2
  <2>2. QED
    BY <2>1 DEF RequestInv
<1>7. WantedInv'
  <2>1. ASSUME NEW id \in DOMAIN registry'.objects
        PROVE  LET p == registry'.objects[id].op.producer IN
               ObjectWanted(id, client'[p], registry', p \in lost')
    <3> DEFINE p == registry'.objects[id].op.producer
    <3>1. CASE p = c
      BY <1>3, <3>1 DEF LeavesWanted
    <3>2. CASE p # c
      <4>1. id \in DOMAIN registry.objects
        BY <3>2 DEF LeavesWanted
      <4>2. registry.objects[id].op.producer = p
        BY <1>1, <4>1 DEF RegStep
      <4>3. p \in Client
        BY <1>1, OwnersDiffer DEF Client
      <4>4. ObjectWanted(id, client[p], registry, p \in lost)
        BY <4>1, <4>2 DEF IInv, WantedInv
      <4>5. client'[p] = client[p] /\ by # p /\ (p \in lost => p \in lost')
        BY <1>3, <1>4, <3>2, <4>3
      <4>6. ObjectWanted(id, client[p], registry', p \in lost)
        BY <1>1, <4>1, <4>4, <4>5, StepKeepsWanted
      <4> HIDE DEF p
      <4>7. QED
        BY <4>5, <4>6 DEF ObjectWanted, p
    <3>3. QED
      BY <3>1, <3>2
  <2>2. ASSUME NEW l \in DOMAIN registry'.leases
        PROVE  LET d == registry'.leases[l].op.sequence IN
               LeaseWanted(l, client'[d], registry', d \in lost')
    <3> DEFINE d == registry'.leases[l].op.sequence
    <3>1. CASE d = c
      BY <1>3, <3>1 DEF LeavesWanted
    <3>2. CASE d # c
      <4>1. l \in DOMAIN registry.leases
        BY <3>2 DEF LeavesWanted
      <4>2. registry.leases[l].op.sequence = d
        BY <1>1, <4>1 DEF RegStep
      <4>3. d \in Client
        BY <1>1, OwnersDiffer DEF Client
      <4>4. LeaseWanted(l, client[d], registry, d \in lost)
        BY <4>1, <4>2 DEF IInv, WantedInv
      <4>5. client'[d] = client[d] /\ (d \in lost => d \in lost')
        BY <1>3, <1>4, <3>2, <4>3
      <4>6. LeaseWanted(l, client[d], registry', d \in lost)
        BY <1>1, <4>1, <4>4, StepKeepsWanted
      <4> HIDE DEF d
      <4>7. QED
        BY <4>5, <4>6 DEF LeaseWanted, d
    <3>3. QED
      BY <3>1, <3>2
  <2>3. QED
    BY <2>1, <2>2 DEF WantedInv
<1>8. QED
  BY <1>1, <1>2, <1>5, <1>6, <1>7 DEF IInv, Move
-----------------------------------------------------------------------------
(* Which requests a client has, and where an answer takes it.               *)

\* A client does not go back to where a request it has left behind could harm
\* its next call.
Follows(k, next) ==
  /\ k.at \notin Early => next.at \notin Early
  /\ k.at \in {"release", "released", "done"} => next.at \in {"release", "released", "done"}

\* The requests a lost client c has left are in order whatever it becomes.
LEMMA LostRequests ==
  ASSUME IInv, NEW c \in Client, NEW k, Follows(client[c], k), NEW q \in wire, q.from = c
  PROVE  RequestOK(q, k, registry, TRUE)
<1>1. RequestOK(q, client[c], registry, c \in lost)
  BY DEF IInv, RequestInv
<1>2. QED
  BY <1>1 DEF RequestOK, Follows

\* A client that is not lost has no request but the one it waits for.
LEMMA OnlyRequest ==
  ASSUME IInv, NEW c \in Client, c \notin lost, NEW q \in wire, q.from = c
  PROVE  /\ q = [from |-> c, call |-> client[c].at, try |-> client[c].try,
                 arg |-> client[c].arg]
         /\ client[c].at \in Calls
BY DEF IInv, RequestInv, RequestOK

\* A producer that is not lost and has not sealed anything yet has no object, a
\* consumer that holds and releases no lease has none.
LEMMA NothingOwned ==
  ASSUME IInv, NEW c \in Client, c \notin lost
  PROVE  /\ client[c].at \in Early =>
              \A id \in DOMAIN registry.objects : registry.objects[id].op.producer # c
         /\ client[c].at \notin {"hold", "release"} =>
              \A l \in DOMAIN registry.leases : registry.leases[l].op.sequence # c
BY DEF IInv, WantedInv, ObjectWanted, LeaseWanted, Early

\* The answer of a call takes a client to a state it may be in; if that is the
\* seal of an object, it has not been sealed.
LEMMA ReturnedOK ==
  ASSUME NEW s, NEW c \in Client, NEW k, ClientOK(c, k, s), IsWaiting(k),
         NEW status, NEW value,
         k.at = "reserve" /\ status = "ok" => OwnHandle(value, c, s) /\ Unsealed(value, s),
         k.at = "seal" /\ status = "ok" => IsRef(value),
         k.at = "acquire" /\ status = "ok" =>
           /\ OwnLease(value, c, s)
           /\ value.inc = s.inc => value.lease \in DOMAIN s.leases
  PROVE  LET next == Returned(k, status, value) IN
         /\ ClientOK(c, next, s) /\ Follows(k, next)
         /\ next.at = "seal" => Unsealed(next.arg, s)
<1> DEFINE next == Returned(k, status, value)
<1>1. /\ k = [at |-> k.at, try |-> k.try, arg |-> k.arg, held |-> k.held]
      /\ k.try \in 1..2 /\ k.at \in Calls /\ ArgOf(c, k.at, k.arg, s)
      /\ c \in Producer => k.at \in {"reserve", "seal", "release_producer", "withdraw"}
      /\ c \in Consumer => k.at \in {"acquire", "release"}
      /\ c \in Producer \/ c \in Consumer
      /\ c \in Producer => c \notin Consumer
      /\ Nothing \notin [inc : Nat, id : Nat, identity : Range(Identity)]
      /\ "seal" \notin Resent
  BY ClientAssumption DEF ClientOK, IsWaiting, Calls, Client, Early
<1>2. CASE Repeats(k, status)
  <2>1. next = [at |-> k.at, try |-> 2, arg |-> k.arg, held |-> k.held] /\ k.at # "seal"
    BY <1>1, <1>2 DEF Returned, Again, Repeats
  <2> HIDE DEF next
  <2>2. ClientOK(c, next, s)
    BY <1>1, <2>1 DEF ClientOK, Calls
  <2>3. Follows(k, next) /\ next.at # "seal"
    BY <2>1 DEF Follows
  <2>4. QED
    BY <2>2, <2>3 DEF next
<1>3. CASE ~ Repeats(k, status) /\ k.at = "reserve" /\ status = "ok"
  <2>1. next = [at |-> "seal", try |-> 1, arg |-> value, held |-> Nothing]
    BY <1>3 DEF Returned, Waiting
  <2>2. OwnHandle(value, c, s) /\ Unsealed(value, s) /\ c \in Producer /\ c \notin Consumer
    BY <1>1, <1>3
  <2> HIDE DEF next
  <2>3. ClientOK(c, next, s)
    BY <2>1, <2>2 DEF ClientOK, Calls, ArgOf, Early
  <2>4. Follows(k, next)
    BY <1>3, <2>1 DEF Follows, Early
  <2>5. QED
    BY <2>1, <2>2, <2>3, <2>4 DEF next
<1>4. CASE ~ Repeats(k, status) /\ k.at = "seal"
  <2>1. next = [at |-> "release_producer", try |-> 1, arg |-> k.arg,
                held |-> IF status = "ok" THEN value ELSE Nothing]
    BY <1>4 DEF Returned, Waiting
  <2>2. OwnHandle(k.arg, c, s) /\ c \in Producer /\ c \notin Consumer
    BY <1>1, <1>4 DEF ArgOf
  <2>3. next.held = Nothing \/ IsRef(next.held)
    BY <1>4, <2>1
  <2> HIDE DEF next
  <2>4. ClientOK(c, next, s)
    BY <2>1, <2>2, <2>3 DEF ClientOK, Calls, ArgOf, Early
  <2>5. Follows(k, next) /\ next.at # "seal"
    BY <1>4, <2>1 DEF Follows, Early
  <2>6. QED
    BY <2>4, <2>5 DEF next
<1>5. CASE ~ Repeats(k, status) /\ k.at = "release_producer" /\ k.held # Nothing
  <2>1. next = [at |-> "hold", try |-> 0, arg |-> Nothing, held |-> k.held]
    BY <1>5 DEF Returned, Resting
  <2>2. IsRef(k.held) /\ c \in Producer /\ c \notin Consumer
    BY <1>1, <1>5 DEF ClientOK
  <2> HIDE DEF next
  <2>3. ClientOK(c, next, s)
    BY <2>1, <2>2 DEF ClientOK, Calls, ArgOf, Early
  <2>4. Follows(k, next) /\ next.at # "seal"
    BY <1>5, <2>1 DEF Follows, Early
  <2>5. QED
    BY <2>3, <2>4 DEF next
<1>6. CASE ~ Repeats(k, status) /\ k.at = "acquire" /\ status = "ok"
  <2>1. next = [at |-> "hold", try |-> 0, arg |-> Nothing, held |-> value]
    BY <1>6 DEF Returned, Resting
  <2>2. /\ OwnLease(value, c, s) /\ c \in Consumer /\ c \notin Producer
        /\ value.inc = s.inc => value.lease \in DOMAIN s.leases
    BY <1>1, <1>6
  <2> HIDE DEF next
  <2>3. ClientOK(c, next, s)
    BY <2>1, <2>2 DEF ClientOK, Calls, ArgOf, Early
  <2>4. Follows(k, next) /\ next.at # "seal"
    BY <1>6, <2>1 DEF Follows, Early
  <2>5. QED
    BY <2>3, <2>4 DEF next
<1>7. CASE ~ Repeats(k, status) /\ k.at = "release" /\ status = "ok"
  <2>1. next = [at |-> "released", try |-> 0, arg |-> Nothing, held |-> Nothing]
    BY <1>7 DEF Returned, Resting
  <2>2. c \in Consumer /\ c \notin Producer
    BY <1>1, <1>7
  <2> HIDE DEF next
  <2>3. ClientOK(c, next, s)
    BY <2>1, <2>2 DEF ClientOK, Calls, ArgOf, Early
  <2>4. Follows(k, next) /\ next.at # "seal"
    BY <1>7, <2>1 DEF Follows, Early
  <2>5. QED
    BY <2>3, <2>4 DEF next
<1>8. CASE /\ ~ Repeats(k, status) /\ k.at # "seal"
           /\ ~ (k.at \in {"reserve", "acquire", "release"} /\ status = "ok")
           /\ ~ (k.at = "release_producer" /\ k.held # Nothing)
  <2>1. next = [at |-> "done", try |-> 0, arg |-> Nothing, held |-> Nothing]
    BY <1>8 DEF Returned, Resting
  <2> HIDE DEF next
  <2>2. ClientOK(c, next, s)
    BY <1>1, <2>1 DEF ClientOK, Calls, ArgOf, Early
  <2>3. Follows(k, next) /\ next.at # "seal"
    BY <2>1 DEF Follows, Early
  <2>4. QED
    BY <2>2, <2>3 DEF next
<1>9. QED
  BY <1>2, <1>3, <1>4, <1>5, <1>6, <1>7, <1>8
-----------------------------------------------------------------------------
(* The steps of the clients.                                                *)

\* A client at rest makes a call, or is told the incarnation of the service.
LEMMA CallKeeps ==
  ASSUME IInv, NEW c \in Client, NEW k, ClientOK(c, k, registry), k.at # "seal",
         client[c].at \notin Calls, Follows(client[c], k),
         Becomes(c, k, wire), UNCHANGED <<registry, lost>>,
         \A id \in DOMAIN registry.objects :
           registry.objects[id].op.producer = c /\ ObjectWanted(id, client[c], registry, FALSE)
             => ObjectWanted(id, k, registry, FALSE),
         \A l \in DOMAIN registry.leases :
           registry.leases[l].op.sequence = c /\ LeaseWanted(l, client[c], registry, FALSE)
             => LeaseWanted(l, k, registry, FALSE)
  PROVE  IInv'
<1>1. RegInv(registry) /\ RegStep(registry, registry, Nothing) /\ Nothing \notin Client
  BY SameRegistry, ClientAssumption DEF IInv
<1>2. ASSUME NEW q \in wire'
      PROVE  IF q.from = c THEN RequestOK(q, k, registry', c \in lost') ELSE q \in wire
  <2>1. CASE q \in wire /\ q.from = c
    <3>1. c \in lost
      BY <2>1, OnlyRequest
    <3>2. RequestOK(q, k, registry, TRUE)
      BY <2>1, LostRequests
    <3>3. QED
      BY <2>1, <3>1, <3>2 DEF RequestOK
  <2>2. CASE q \in Sent(c, k)
    BY <2>2, SentOK
  <2>3. QED
    BY <2>1, <2>2 DEF Becomes
<1>3. Move(c, k, Nothing)
  BY <1>1, <1>2 DEF Move, Becomes, IInv
<1>4. LeavesWanted(c, k)
  BY DEF LeavesWanted, IInv, WantedInv, ObjectWanted, LeaseWanted
<1>5. QED
  BY <1>3, <1>4, MoveKeeps

\* A producer learns the incarnation of the service.
LEMMA PingKeeps ==
  ASSUME IInv, NEW p \in Producer, Ping(p)
  PROVE  IInv'
<1> DEFINE k == [at |-> "pinged", try |-> 0, arg |-> Nothing, held |-> registry.inc]
<1>1. p \in Client /\ p \notin Consumer /\ registry.inc \in Nat
  BY ClientAssumption DEF Client, IInv, RegInv, RegCore, RegTyped
<1>2. client[p].at = "start" /\ Becomes(p, k, wire) /\ UNCHANGED <<registry, lost>>
  BY DEF Ping, Resting
<1>3. ClientOK(p, client[p], registry)
  BY <1>1 DEF IInv, ClientInv
<1>4. ClientOK(p, k, registry)
  BY <1>1, <1>2, <1>3 DEF ClientOK, ArgOf, Calls, Early
<1>5. client[p].at \notin Calls /\ Follows(client[p], k) /\ k.at # "seal"
  BY <1>2 DEF Calls, Follows, Early
<1>6. \A id, l : /\ ~ ObjectWanted(id, client[p], registry, FALSE)
                 /\ ~ LeaseWanted(l, client[p], registry, FALSE)
  BY <1>2 DEF ObjectWanted, LeaseWanted
<1> HIDE DEF k
<1>7. QED
  BY <1>1, <1>2, <1>4, <1>5, <1>6, CallKeeps

\* A producer reserves.
LEMMA CallReserveKeeps ==
  ASSUME IInv, NEW p \in Producer, CallReserve(p)
  PROVE  IInv'
<1> DEFINE arg == [inc |-> client[p].held, producer |-> p]
           k == [at |-> "reserve", try |-> 1, arg |-> arg, held |-> Nothing]
<1>1. p \in Client /\ p \notin Consumer
  BY ClientAssumption DEF Client
<1>2. client[p].at = "pinged" /\ Becomes(p, k, wire) /\ UNCHANGED <<registry, lost>>
  BY DEF CallReserve, Waiting
<1>3. ClientOK(p, client[p], registry)
  BY <1>1 DEF IInv, ClientInv
<1>4. arg = [inc |-> arg.inc, producer |-> p] /\ arg.inc \in Nat
  BY <1>2, <1>3 DEF ClientOK
<1> HIDE DEF arg
<1>5. ClientOK(p, k, registry)
  BY <1>1, <1>2, <1>3, <1>4 DEF ClientOK, ArgOf, Calls, Early
<1>6. client[p].at \notin Calls /\ Follows(client[p], k) /\ k.at # "seal"
  BY <1>2 DEF Calls, Follows, Early
<1>7. \A id, l : /\ ~ ObjectWanted(id, client[p], registry, FALSE)
                 /\ ~ LeaseWanted(l, client[p], registry, FALSE)
  BY <1>2 DEF ObjectWanted, LeaseWanted
<1> HIDE DEF k
<1>8. QED
  BY <1>1, <1>2, <1>5, <1>6, <1>7, CallKeeps

\* A producer withdraws what it has published.
LEMMA CallWithdrawKeeps ==
  ASSUME IInv, NEW p \in Producer, CallWithdraw(p)
  PROVE  IInv'
<1> DEFINE k == [at |-> "withdraw", try |-> 1, arg |-> client[p].held, held |-> Nothing]
<1>1. p \in Client /\ p \notin Consumer
  BY ClientAssumption DEF Client
<1>2. client[p].at = "hold" /\ Becomes(p, k, wire) /\ UNCHANGED <<registry, lost>>
  BY DEF CallWithdraw, Waiting
<1>3. ClientOK(p, client[p], registry)
  BY <1>1 DEF IInv, ClientInv
<1>4. ClientOK(p, k, registry)
  BY <1>1, <1>2, <1>3 DEF ClientOK, ArgOf, Calls, Early
<1>5. client[p].at \notin Calls /\ Follows(client[p], k) /\ k.at # "seal"
  BY <1>2 DEF Calls, Follows, Early
<1>6. \A id : ObjectWanted(id, client[p], registry, FALSE) => ObjectWanted(id, k, registry, FALSE)
  BY <1>2 DEF ObjectWanted
<1>7. \A l \in DOMAIN registry.leases : registry.leases[l].op.sequence # p
  BY <1>1, OwnersDiffer DEF IInv
<1> HIDE DEF k
<1>8. QED
  BY <1>1, <1>2, <1>4, <1>5, <1>6, <1>7, CallKeeps

\* A consumer acquires.
LEMMA CallAcquireKeeps ==
  ASSUME IInv, NEW c \in Consumer, CallAcquire(c)
  PROVE  IInv'
<1> DEFINE k == [at |-> "acquire", try |-> 1, arg |-> AcquireOp(c), held |-> Nothing]
<1>1. c \in Client /\ c \notin Producer
  BY ClientAssumption DEF Client
<1>2. client[c].at = "start" /\ Becomes(c, k, wire) /\ UNCHANGED <<registry, lost>>
  BY DEF CallAcquire, Waiting, AcquireOp
<1>3. ClientOK(c, k, registry)
  BY <1>1 DEF ClientOK, ArgOf, Calls
<1>4. client[c].at \notin Calls /\ Follows(client[c], k) /\ k.at # "seal"
  BY <1>2 DEF Calls, Follows, Early
<1>5. \A id, l : /\ ~ ObjectWanted(id, client[c], registry, FALSE)
                 /\ ~ LeaseWanted(l, client[c], registry, FALSE)
  BY <1>2 DEF ObjectWanted, LeaseWanted
<1> HIDE DEF k
<1>6. QED
  BY <1>1, <1>2, <1>3, <1>4, <1>5, CallKeeps

\* A consumer releases its lease.
LEMMA CallReleaseKeeps ==
  ASSUME IInv, NEW c \in Consumer, CallRelease(c)
  PROVE  IInv'
<1> DEFINE k == [at |-> "release", try |-> 1, arg |-> client[c].held, held |-> Nothing]
<1>1. c \in Client /\ c \notin Producer
  BY ClientAssumption DEF Client
<1>2. client[c].at = "hold" /\ Becomes(c, k, wire) /\ UNCHANGED <<registry, lost>>
  BY DEF CallRelease, Waiting
<1>3. ClientOK(c, client[c], registry)
  BY <1>1 DEF IInv, ClientInv
<1>4. ClientOK(c, k, registry)
  BY <1>1, <1>2, <1>3 DEF ClientOK, ArgOf, Calls, Early
<1>5. client[c].at \notin Calls /\ Follows(client[c], k) /\ k.at # "seal"
  BY <1>2 DEF Calls, Follows, Early
<1>6. \A l : LeaseWanted(l, client[c], registry, FALSE) => LeaseWanted(l, k, registry, FALSE)
  BY <1>2 DEF LeaseWanted
<1>7. \A id \in DOMAIN registry.objects : registry.objects[id].op.producer # c
  BY <1>1, OwnersDiffer DEF IInv
<1> HIDE DEF k
<1>8. QED
  BY <1>1, <1>2, <1>4, <1>5, <1>6, <1>7, CallKeeps

\* The deadline of a call passes: its client is lost, and its requests stay.
LEMMA TimeOutKeeps ==
  ASSUME IInv, NEW c \in Client, TimeOut(c)
  PROVE  IInv'
<1> DEFINE k == Returned(client[c], "not_ready", Nothing)
<1>1. RegInv(registry) /\ RegStep(registry, registry, Nothing) /\ Nothing \notin Client
  BY SameRegistry, ClientAssumption DEF IInv
<1>2. ClientOK(c, client[c], registry) /\ IsWaiting(client[c])
  BY DEF IInv, ClientInv, TimeOut
<1>3. /\ ClientOK(c, k, registry) /\ Follows(client[c], k)
      /\ k.at = "seal" => Unsealed(k.arg, registry)
  BY <1>2, ReturnedOK
<1>4. /\ client' = [client EXCEPT ![c] = k] /\ wire' = wire \cup Sent(c, k)
      /\ lost' = lost \cup {c} /\ UNCHANGED registry
  BY DEF TimeOut, Becomes
<1> HIDE DEF k
<1>5. ASSUME NEW q \in wire'
      PROVE  IF q.from = c THEN RequestOK(q, k, registry', c \in lost') ELSE q \in wire
  <2>1. (c \in lost') = TRUE
    BY <1>4
  <2>2. CASE q \in wire /\ q.from = c
    BY <1>3, <1>4, <2>1, <2>2, LostRequests
  <2>3. CASE q \in Sent(c, k)
    BY <1>3, <1>4, <2>3, SentOK
  <2>4. QED
    BY <1>4, <2>2, <2>3
<1>6. Move(c, k, Nothing)
  BY <1>1, <1>3, <1>4, <1>5 DEF Move, IInv
<1>7. LeavesWanted(c, k)
  BY <1>4 DEF LeavesWanted, ObjectWanted, LeaseWanted
<1>8. QED
  BY <1>6, <1>7, MoveKeeps
-----------------------------------------------------------------------------
(* The steps of the service.                                                *)

\* What the answer a to request r does to its client: nothing if it is not the
\* one awaited; a client that is not lost awaits it.
LEMMA AnswerMoves ==
  ASSUME IInv, NEW r \in wire, Serve(r), NEW a, a = Answer(registry, r), RegInv(a.state)
  PROVE  LET c == r.from
             k == IF Awaits(client[c], r) THEN Returned(client[c], a.status, a.value)
                  ELSE client[c]
         IN
         /\ c \in Client /\ (c \notin lost => Awaits(client[c], r))
         /\ registry' = a.state /\ lost' = lost
         /\ client' = [client EXCEPT ![c] = k]
         /\ wire' = (wire \ {r}) \cup (IF Awaits(client[c], r) THEN Sent(c, k) ELSE {})
<1>1. /\ RequestOK(r, client[r.from], registry, r.from \in lost)
      /\ client = [d \in Client |-> client[d]]
  BY DEF IInv, RequestInv, ClientInv
<1>2. r.from \in Client /\ (r.from \notin lost => Awaits(client[r.from], r))
  BY <1>1 DEF RequestOK, Awaits
<1>3. /\ registry' = a.state /\ lost' = lost
      /\ IF Awaits(client[r.from], r) /\ ~ a.state.down
         THEN Becomes(r.from, Returned(client[r.from], a.status, a.value), wire \ {r})
         ELSE wire' = wire \ {r} /\ UNCHANGED client
  BY DEF Serve
<1>4. a.state.down = FALSE
  BY DEF RegInv, RegCore, RegTyped, IsRegistry
<1>5. CASE Awaits(client[r.from], r)
  BY <1>2, <1>3, <1>4, <1>5 DEF Becomes
<1>6. CASE ~ Awaits(client[r.from], r)
  BY <1>1, <1>2, <1>3, <1>6
<1>7. QED
  BY <1>2, <1>3, <1>5, <1>6

\* Serving request r keeps the inductive invariant if the registry takes a step
\* for its client, which may be past the call, the answer is good, no other seal
\* is overtaken, and what the registry has of the client is wanted.
LEMMA ServeKeeps ==
  ASSUME IInv, NEW r \in wire, Serve(r), NEW a, a = Answer(registry, r), NEW by,
         RegInv(a.state), RegStep(registry, a.state, by), by \in {r.from, Nothing},
         by = r.from => /\ r.from \in Producer => client[r.from].at \notin Early
                        /\ r.from \in Consumer => client[r.from].at # "hold",
         \A q \in wire \ {r} :
           q.from = r.from /\ q.call = "seal" => Unsealed(q.arg, a.state) \/ by # q.from,
         r.call = "reserve" /\ a.status = "ok" =>
           /\ OwnHandle(a.value, r.from, a.state)
           /\ client[r.from].at = "reserve" => Unsealed(a.value, a.state),
         r.call = "seal" /\ a.status = "ok" => IsRef(a.value),
         r.call = "acquire" /\ a.status = "ok" =>
           /\ OwnLease(a.value, r.from, a.state)
           /\ a.value.inc = a.state.inc => a.value.lease \in DOMAIN a.state.leases,
         registry' = a.state /\ lost' = lost =>
           \A k : (r.from \notin lost => k = Returned(client[r.from], a.status, a.value))
                    => LeavesWanted(r.from, k)
  PROVE  IInv'
<1> DEFINE c == r.from
           k == IF Awaits(client[c], r) THEN Returned(client[c], a.status, a.value)
                ELSE client[c]
<1>1. /\ c \in Client /\ (c \notin lost => Awaits(client[c], r))
      /\ registry' = a.state /\ lost' = lost
      /\ client' = [client EXCEPT ![c] = k]
      /\ wire' = (wire \ {r}) \cup (IF Awaits(client[c], r) THEN Sent(c, k) ELSE {})
  BY AnswerMoves
<1>2. /\ RequestOK(r, client[c], registry, c \in lost) /\ r.call \in Calls
      /\ ClientOK(c, client[c], registry) /\ RegInv(registry)
  BY <1>1 DEF IInv, RequestInv, RequestOK, ClientInv
<1>3. ClientOK(c, client[c], a.state)
  BY <1>1, <1>2, StepKeepsClient
<1>4. Awaits(client[c], r) => IsWaiting(client[c]) /\ client[c].at = r.call
  BY <1>2 DEF Awaits, IsWaiting, ClientOK
<1>5. /\ ClientOK(c, k, a.state) /\ Follows(client[c], k)
      /\ Awaits(client[c], r) /\ k.at = "seal" => Unsealed(k.arg, a.state)
  <2>1. CASE Awaits(client[c], r)
    <3> DEFINE x == client[c]
               n == Returned(x, a.status, a.value)
               z == a.state
    <3>1. /\ x.at = "reserve" /\ a.status = "ok" =>
               OwnHandle(a.value, c, z) /\ Unsealed(a.value, z)
          /\ x.at = "seal" /\ a.status = "ok" => IsRef(a.value)
          /\ x.at = "acquire" /\ a.status = "ok" =>
               /\ OwnLease(a.value, c, z)
               /\ a.value.inc = z.inc => a.value.lease \in DOMAIN z.leases
      BY <1>4, <2>1
    <3>2. IsWaiting(x) /\ ClientOK(c, x, z) /\ c \in Client /\ k = n
      BY <1>1, <1>3, <1>4, <2>1
    <3> HIDE DEF c, x, n, k, z
    <3>3. /\ ClientOK(c, n, z) /\ Follows(x, n)
          /\ n.at = "seal" => Unsealed(n.arg, z)
      BY <3>1, <3>2, ReturnedOK DEF n
    <3>4. QED
      BY <3>2, <3>3 DEF x, z
  <2>2. CASE ~ Awaits(client[c], r)
    BY <1>3, <2>2 DEF Follows
  <2>3. QED
    BY <2>1, <2>2
<1> HIDE DEF k
<1>6. ASSUME NEW q \in wire'
      PROVE  IF q.from = c THEN RequestOK(q, k, registry', c \in lost') ELSE q \in wire
  <2>1. CASE q \in wire \ {r} /\ q.from = c
    <3>1. c \in lost
      BY <1>1, <2>1, OnlyRequest DEF RequestOK, IInv, RequestInv
    <3>2. RequestOK(q, k, registry, TRUE)
      BY <1>1, <1>5, <2>1, LostRequests
    <3>3. q.call = "seal" => Unsealed(q.arg, a.state) \/ by # q.from
      BY <2>1
    <3>4. RequestOK(q, k, a.state, TRUE)
      BY <1>2, <3>2, <3>3, StepKeepsRequest
    <3>5. QED
      BY <1>1, <2>1, <3>1, <3>4 DEF RequestOK
  <2>2. CASE Awaits(client[c], r) /\ q \in Sent(c, k)
    <3>1. k.at = "seal" => Unsealed(k.arg, a.state)
      BY <1>5, <2>2
    <3>2. q \in Sent(c, k) /\ ClientOK(c, k, a.state) /\ c \in Client
      BY <1>1, <1>5, <2>2
    <3>3. q.from = c /\ RequestOK(q, k, a.state, c \in lost')
      <4> HIDE DEF c
      <4>1. QED
        BY <3>1, <3>2, SentOK
    <3>4. QED
      BY <1>1, <3>3
  <2>3. QED
    BY <1>1, <2>1, <2>2
<1>7. Move(c, k, by)
  <2>1. by # c => by \notin Client
    BY ClientAssumption
  <2>2. QED
    BY <1>1, <1>5, <1>6, <2>1 DEF Move, IInv
<1>8. LeavesWanted(c, k)
  BY <1>1 DEF k
<1>9. QED
  BY <1>1, <1>7, <1>8, MoveKeeps
-----------------------------------------------------------------------------
(* The operations, one lemma each.                                          *)

\* The service serves a reservation, which may be late or repeated.
LEMMA ServeReserveKeeps ==
  ASSUME IInv, NEW r \in wire, Serve(r), r.call = "reserve"
  PROVE  IInv'
<1> DEFINE p == r.from
           s == registry
           a == Reserve(s, r.arg, Identity[p], Bytes[p])
           o == NewObject(r.arg, Identity[p], Bytes[p])
           known == s.operations[r.arg]
<1>1. /\ p \in Producer /\ p \notin Consumer /\ p \in Client
      /\ r.arg = [inc |-> r.arg.inc, producer |-> p]
      /\ RequestOK(r, client[p], s, p \in lost)
  BY ClientAssumption DEF IInv, RequestInv, RequestOK, ArgOf, Client
<1>2. RegInv(s) /\ Nothing \notin Client /\ Bytes[p] \in Nat
  BY <1>1, ClientAssumption DEF IInv
<1>3. a = Answer(s, r)
  BY DEF Answer
<1>4. p \notin lost => client[p].at = "reserve"
  BY <1>1 DEF RequestOK
<1>5. p \notin lost => \A id \in DOMAIN s.objects : s.objects[id].op.producer # p
  BY <1>1, <1>4, NothingOwned DEF Early
<1>6. \A l \in DOMAIN s.leases : s.leases[l].op.sequence # p
  BY <1>1, <1>2, OwnersDiffer
<1>7. \/ a.state = s /\ a.status # "ok"
      \/ /\ a.state = s /\ a.status = "ok" /\ a.value = HandleOf(s, known)
         /\ known \in DOMAIN s.objects /\ s.objects[known].op = r.arg
      \/ /\ r.arg.inc = s.inc /\ r.arg \notin DOMAIN s.operations
         /\ Bytes[p] <= CapacityBytes - s.bytes
         /\ Added(s, a.state, o) /\ a.value = HandleOf(s, s.nextObject) /\ a.status = "ok"
  BY <1>2, ReserveEffect
<1>8. s.inc \in Nat /\ s.nextObject \in Nat
      /\ \A id \in DOMAIN s.objects : id \in Nat /\ id < s.nextObject
  BY <1>2 DEF RegInv, RegCore, RegTyped
<1> HIDE DEF a, known
<1>9. CASE a.state = s
  <2>1. RegInv(a.state) /\ RegStep(s, a.state, Nothing)
    BY <1>2, <1>9, SameRegistry
  <2>2. a.status = "ok" => /\ OwnHandle(a.value, p, a.state)
                           /\ client[p].at = "reserve" => Unsealed(a.value, a.state)
    <3>1. SUFFICES ASSUME a.value = HandleOf(s, known), known \in DOMAIN s.objects,
                          s.objects[known].op = r.arg
                   PROVE  /\ OwnHandle(a.value, p, s)
                          /\ client[p].at = "reserve" => Unsealed(a.value, s)
      <4>1. ~ Added(s, s, o)
        BY <1>8 DEF Added
      <4>2. QED
        BY <1>7, <1>9, <4>1
    <3>2. s.objects[known].op.producer = p /\ a.value = [inc |-> s.inc, id |-> known]
      BY <1>1, <3>1 DEF HandleOf
    <3>3. OwnHandle(a.value, p, s)
      BY <1>8, <3>1, <3>2 DEF OwnHandle
    <3>4. client[p].at = "reserve" => s.objects[known].state = "reserved"
      BY <1>1, <3>1, <3>2 DEF IInv, ClientInv, ClientOK, Early
    <3>5. QED
      BY <3>2, <3>3, <3>4 DEF Unsealed
  <2>3. registry' = a.state /\ lost' = lost => \A k : LeavesWanted(p, k)
    BY <1>5, <1>6, <1>9 DEF LeavesWanted, ObjectWanted
  <2>4. QED
    BY <1>1, <1>2, <1>3, <2>1, <2>2, <2>3, ServeKeeps
<1>10. CASE /\ r.arg.inc = s.inc /\ r.arg \notin DOMAIN s.operations
            /\ Bytes[p] <= CapacityBytes - s.bytes
            /\ Added(s, a.state, o) /\ a.value = HandleOf(s, s.nextObject) /\ a.status = "ok"
  <2> DEFINE t == a.state
             id == s.nextObject
  <2>1. r.arg = [inc |-> s.inc, producer |-> p] /\ o.storage = Bytes[p]
        /\ o.op = r.arg /\ o.state = "reserved"
    BY <1>1, <1>10 DEF NewObject
  <2>2. RegInv(t) /\ RegStep(s, t, Nothing)
    <3> HIDE DEF o, t
    <3>1. o = NewObject(r.arg, Identity[p], Bytes[p])
      BY DEF o
    <3>2. RegInv(t) /\ \A by : RegStep(s, t, by)
      BY <1>1, <1>2, <1>10, <2>1, <3>1, AddedKeeps DEF t
    <3>3. QED
      BY <3>2
  <2>3. /\ DOMAIN t.objects = DOMAIN s.objects \cup {id} /\ t.objects[id] = o
        /\ \A x \in DOMAIN s.objects \ {id} : t.objects[x] = s.objects[x]
        /\ t.inc = s.inc /\ t.nextObject = id + 1 /\ t.leases = s.leases
    BY <1>10 DEF Added, With
  <2> HIDE DEF o
  <2>4. a.value = [inc |-> s.inc, id |-> id]
    BY <1>10 DEF HandleOf
  <2>5. OwnHandle(a.value, p, t) /\ Unsealed(a.value, t)
    BY <1>8, <2>1, <2>3, <2>4 DEF OwnHandle, Unsealed
  <2>6. ASSUME NEW k, p \notin lost => k = Returned(client[p], a.status, a.value),
               registry' = t, lost' = lost
        PROVE  LeavesWanted(p, k)
    <3>1. p \notin lost => k.at = "seal" /\ k.arg = HandleOf(t, id)
      BY <1>4, <1>10, <2>3, <2>6 DEF Returned, Repeats, Waiting, HandleOf
    <3>2. ObjectWanted(id, k, t, p \in lost)
      BY <3>1 DEF ObjectWanted
    <3>3. \A x \in DOMAIN t.objects :
            /\ t.objects[x].op.producer = p => ObjectWanted(x, k, t, p \in lost)
            /\ x \notin DOMAIN s.objects => t.objects[x].op.producer = p
      BY <1>5, <2>1, <2>3, <3>2 DEF ObjectWanted
    <3>4. QED
      BY <1>6, <2>3, <2>6, <3>3 DEF LeavesWanted
  <2> HIDE DEF t
  <2>7. a.state = t
    BY DEF t
  <2>8. QED
    BY <1>1, <1>2, <1>3, <2>2, <2>5, <2>6, <2>7, ServeKeeps
<1>11. QED
  BY <1>7, <1>9, <1>10
\* The service serves the seal of an object, of which no other seal is under way.
LEMMA ServeSealKeeps ==
  ASSUME IInv, NEW r \in wire, Serve(r), r.call = "seal"
  PROVE  IInv'
<1> DEFINE p == r.from
           s == registry
           h == r.arg
           id == h.id
           a == Seal(s, h, Sum[p])
           t == a.state
<1>1. /\ p \in Producer /\ p \notin Consumer /\ p \in Client
      /\ OwnHandle(h, p, s) /\ Unsealed(h, s) /\ r.try = 1 /\ client[p].at \notin Early
      /\ RequestOK(r, client[p], s, p \in lost)
  BY ClientAssumption DEF IInv, RequestInv, RequestOK, ArgOf, Client, Unsealed
<1>2. RegInv(s) /\ Sum[p] \in Range(Sum)
  BY <1>1, ClientAssumption DEF IInv, Range
<1>3. a = Answer(s, r)
  BY DEF Answer
<1>4. p \notin lost => client[p].at = "seal" /\ client[p].arg = h
  BY <1>1 DEF RequestOK
<1>5. \A l \in DOMAIN s.leases : s.leases[l].op.sequence # p
  BY <1>1, <1>2, OwnersDiffer
<1>6. /\ RegInv(t) /\ DOMAIN t.objects = DOMAIN s.objects
      /\ \/ t = s /\ (h.inc # s.inc \/ id \notin DOMAIN s.objects)
         \/ /\ h.inc = s.inc
            /\ \E o : /\ Affects(s, t, id, o) /\ o.op = s.objects[id].op
                      /\ o.identity = s.objects[id].identity /\ o.producer
                      /\ o.state # "reserved"
      /\ a.status = "ok" => IsRef(a.value)
      /\ h.inc = s.inc /\ id \in DOMAIN s.objects /\ t.objects[id].state = "sealed" =>
           a.status = "ok" /\ a.value = RefOf(t, id)
  BY <1>1, <1>2, SealEffect DEF Unsealed
<1> HIDE DEF a
<1>7. /\ RegStep(s, t, p) /\ t.leases = s.leases
      /\ \A x \in DOMAIN t.objects : x # id \/ h.inc # s.inc => t.objects[x] = s.objects[x]
  <2>1. CASE t = s
    BY <1>2, <2>1, SameRegistry
  <2>2. ASSUME h.inc = s.inc, NEW o, Affects(s, t, id, o), o.op = s.objects[id].op,
               o.identity = s.objects[id].identity
        PROVE  /\ RegStep(s, t, p) /\ t.leases = s.leases
               /\ \A x \in DOMAIN t.objects : x # id => t.objects[x] = s.objects[x]
    <3>1. o.op.producer = p
      BY <1>1, <2>2 DEF Affects, OwnHandle
    <3> HIDE DEF t, id
    <3>2. RegStep(s, t, p)
      BY <1>2, <2>2, <3>1, AffectsStep
    <3>3. QED
      BY <2>2, <3>2 DEF Affects
  <2>3. QED
    BY <1>6, <2>1, <2>2
<1>8. ASSUME NEW q \in wire \ {r}, q.from = p, q.call = "seal"
      PROVE  Unsealed(q.arg, t)
  <2>1. /\ q = [from |-> p, call |-> "seal", try |-> 1, arg |-> q.arg]
        /\ r = [from |-> p, call |-> "seal", try |-> 1, arg |-> h]
        /\ OwnHandle(q.arg, p, s) /\ Unsealed(q.arg, s)
    BY <1>1, <1>8 DEF IInv, RequestInv, RequestOK, ArgOf, Unsealed
  <2>2. q.arg # h
    BY <1>8, <2>1
  <2>3. q.arg.inc = s.inc /\ h.inc = s.inc => q.arg.id # id
    BY <1>1, <2>1, <2>2 DEF OwnHandle
  <2>4. t.inc = s.inc
    BY <1>7 DEF RegStep
  <2> HIDE DEF t, id, h
  <2>5. ASSUME q.arg.inc = s.inc, q.arg.id \in DOMAIN t.objects
        PROVE  t.objects[q.arg.id].state = "reserved"
    <3>1. t.objects[q.arg.id] = s.objects[q.arg.id]
      BY <1>7, <2>3, <2>5
    <3>2. QED
      BY <1>6, <2>1, <2>5, <3>1 DEF Unsealed
  <2>6. QED
    BY <2>4, <2>5 DEF Unsealed
<1>9. ASSUME NEW k, p \notin lost => k = Returned(client[p], a.status, a.value),
             registry' = t, lost' = lost
      PROVE  LeavesWanted(p, k)
  <2>1. p \notin lost =>
          /\ k.at = "release_producer" /\ k.arg = h
          /\ k.held = IF a.status = "ok" THEN a.value ELSE Nothing
    BY <1>4, <1>9, ClientAssumption DEF Returned, Repeats, Waiting
  <2>2. ASSUME NEW x \in DOMAIN t.objects, t.objects[x].op.producer = p, p \notin lost
        PROVE  ObjectWanted(x, k, t, FALSE)
    <3>1. s.objects[x].op.producer = p /\ x \in DOMAIN s.objects
      BY <1>6, <1>7, <2>2 DEF RegStep
    <3>2. ObjectWanted(x, client[p], s, FALSE)
      BY <2>2, <3>1 DEF IInv, WantedInv, ObjectWanted
    <3>3. h = HandleOf(s, x)
      BY <1>4, <2>2, <3>2 DEF ObjectWanted
    <3>4. id = x /\ h.inc = s.inc /\ h = HandleOf(t, x)
      BY <1>7, <3>3 DEF HandleOf, RegStep
    <3> HIDE DEF t, h, id
    <3>5. t.objects[x].state = "sealed" => k.held = RefOf(t, x)
      BY <1>6, <2>1, <2>2, <3>1, <3>4
    <3>6. QED
      BY <2>1, <2>2, <3>4, <3>5 DEF ObjectWanted
  <2>3. \A x \in DOMAIN t.objects :
          /\ t.objects[x].op.producer = p => ObjectWanted(x, k, t, p \in lost)
          /\ x \in DOMAIN s.objects
    BY <1>6, <2>2 DEF ObjectWanted
  <2>4. QED
    BY <1>5, <1>7, <1>9, <2>3 DEF LeavesWanted
<1>10. QED
  BY <1>1, <1>3, <1>6, <1>7, <1>8, <1>9, ServeKeeps

\* The service serves the end of a producer's reference.
LEMMA ServeReleaseProducerKeeps ==
  ASSUME IInv, NEW r \in wire, Serve(r), r.call = "release_producer"
  PROVE  IInv'
<1> DEFINE p == r.from
           s == registry
           h == r.arg
           id == h.id
           a == ReleaseProducer(s, h)
           t == a.state
<1>1. /\ p \in Producer /\ p \notin Consumer /\ p \in Client
      /\ OwnHandle(h, p, s) /\ client[p].at \notin Early
      /\ RequestOK(r, client[p], s, p \in lost)
  BY ClientAssumption DEF IInv, RequestInv, RequestOK, ArgOf, Client
<1>2. RegInv(s)
  BY DEF IInv
<1>3. a = Answer(s, r)
  BY DEF Answer
<1>4. p \notin lost => client[p].at = "release_producer" /\ client[p].arg = h
  BY <1>1 DEF RequestOK
<1>5. \A l \in DOMAIN s.leases : s.leases[l].op.sequence # p
  BY <1>1, <1>2, OwnersDiffer
<1>6. /\ RegInv(t) /\ a.status # "not_ready"
      /\ \/ t = s /\ (h.inc # s.inc \/ id \notin DOMAIN s.objects)
         \/ /\ h.inc = s.inc
            /\ \E o : /\ Affects(s, t, id, o) /\ o.op = s.objects[id].op
                      /\ o.identity = s.objects[id].identity /\ ~ o.producer
                      /\ id \in DOMAIN t.objects => o.state = s.objects[id].state
  BY <1>2, ReleaseProducerEffect
<1> HIDE DEF a
<1>7. /\ RegStep(s, t, p) /\ t.leases = s.leases /\ DOMAIN t.objects \subseteq DOMAIN s.objects
      /\ \A x \in DOMAIN t.objects : t.objects[x].state = s.objects[x].state
      /\ h.inc = s.inc /\ id \in DOMAIN t.objects => ~ t.objects[id].producer
  <2>1. CASE t = s /\ (h.inc # s.inc \/ id \notin DOMAIN s.objects)
    BY <1>2, <2>1, SameRegistry
  <2>2. ASSUME h.inc = s.inc, NEW o, Affects(s, t, id, o), o.op = s.objects[id].op,
               o.identity = s.objects[id].identity, ~ o.producer,
               id \in DOMAIN t.objects => o.state = s.objects[id].state
        PROVE  /\ RegStep(s, t, p) /\ t.leases = s.leases
               /\ DOMAIN t.objects \subseteq DOMAIN s.objects
               /\ \A x \in DOMAIN t.objects : t.objects[x].state = s.objects[x].state
               /\ id \in DOMAIN t.objects => ~ t.objects[id].producer
    <3>1. o.op.producer = p
      BY <1>1, <2>2 DEF Affects, OwnHandle
    <3> HIDE DEF t, id
    <3>2. RegStep(s, t, p)
      BY <1>2, <2>2, <3>1, AffectsStep
    <3>3. QED
      BY <2>2, <3>2 DEF Affects
  <2>3. QED
    BY <1>6, <2>1, <2>2
<1>8. ASSUME NEW q \in wire \ {r}, q.from = p, q.call = "seal"
      PROVE  Unsealed(q.arg, t)
  <2>1. Unsealed(q.arg, s)
    BY <1>8 DEF IInv, RequestInv, RequestOK, Unsealed
  <2>2. t.inc = s.inc
    BY <1>7 DEF RegStep
  <2>3. QED
    BY <1>7, <2>1, <2>2 DEF Unsealed
<1>9. ASSUME NEW k, p \notin lost => k = Returned(client[p], a.status, a.value),
             registry' = t, lost' = lost
      PROVE  LeavesWanted(p, k)
  <2>1. p \notin lost =>
          IF client[p].held # Nothing THEN k.at = "hold" /\ k.held = client[p].held
                                      ELSE k.at = "done"
    BY <1>4, <1>6, <1>9 DEF Returned, Repeats, Resting
  <2>2. ASSUME NEW x \in DOMAIN t.objects, t.objects[x].op.producer = p, p \notin lost
        PROVE  ObjectWanted(x, k, t, FALSE)
    <3>1. s.objects[x].op.producer = p /\ x \in DOMAIN s.objects
      BY <1>7, <2>2 DEF RegStep
    <3>2. ObjectWanted(x, client[p], s, FALSE)
      BY <2>2, <3>1 DEF IInv, WantedInv, ObjectWanted
    <3>3. /\ h = HandleOf(s, x)
          /\ s.objects[x].state = "sealed" => client[p].held = RefOf(s, x)
      BY <1>4, <2>2, <3>2 DEF ObjectWanted
    <3>4. id = x /\ h.inc = s.inc /\ RefOf(t, x) = RefOf(s, x)
      BY <1>7, <2>2, <3>1, <3>3 DEF HandleOf, RegStep, RefOf
    <3>5. RefOf(s, x) # Nothing
      <4>1. s.objects[x].identity \in Range(Identity) /\ x \in Nat /\ s.inc \in Nat
        BY <1>2, <3>1 DEF RegInv, RegCore, RegTyped, ObjectOK, Object
      <4>2. RefOf(s, x) \in [inc : Nat, id : Nat, identity : Range(Identity)]
        BY <4>1 DEF RefOf
      <4>3. QED
        BY <4>2, ClientAssumption
    <3>6. /\ ~ t.objects[x].producer
          /\ t.objects[x].state \in {"sealed", "retired", "quarantined"}
      <4>1. ~ t.objects[x].producer
        BY <1>7, <2>2, <3>4
      <4>2. ObjectOK(t.objects[x], t)
        BY <1>6, <2>2 DEF RegInv, RegCore, RegTyped
      <4>3. QED
        BY <4>1, <4>2 DEF ObjectOK, Object
    <3>7. t.objects[x].state = "sealed" => k.at = "hold" /\ k.held = RefOf(t, x)
      <4>1. t.objects[x].state = s.objects[x].state
        BY <1>7, <2>2
      <4>2. QED
        BY <2>1, <2>2, <3>3, <3>4, <3>5, <4>1
    <3>8. k.at \in {"hold", "done"}
      BY <2>1, <2>2
    <3> HIDE DEF t
    <3>9. QED
      BY <3>6, <3>7, <3>8 DEF ObjectWanted
  <2>3. \A x \in DOMAIN t.objects :
          /\ t.objects[x].op.producer = p => ObjectWanted(x, k, t, p \in lost)
          /\ x \in DOMAIN s.objects
    BY <1>7, <2>2 DEF ObjectWanted
  <2>4. QED
    BY <1>5, <1>7, <1>9, <2>3 DEF LeavesWanted
<1>10. QED
  BY <1>1, <1>3, <1>6, <1>7, <1>8, <1>9, ServeKeeps
\* The service serves a withdrawal: the object may be leased, or withdrawn before.
LEMMA ServeWithdrawKeeps ==
  ASSUME IInv, NEW r \in wire, Serve(r), r.call = "withdraw"
  PROVE  IInv'
<1> DEFINE p == r.from
           s == registry
           ref == r.arg
           id == ref.id
           a == Withdraw(s, ref)
           t == a.state
<1>1. /\ p \in Producer /\ p \notin Consumer /\ p \in Client
      /\ RequestOK(r, client[p], s, p \in lost)
  BY ClientAssumption DEF IInv, RequestInv, RequestOK, ArgOf, Client
<1>2. RegInv(s) /\ Nothing \notin Client
  BY ClientAssumption DEF IInv
<1>3. a = Answer(s, r)
  BY DEF Answer
<1>4. p \notin lost => client[p].at = "withdraw" /\ client[p].arg = ref
  BY <1>1 DEF RequestOK
<1>5. \A l \in DOMAIN s.leases : s.leases[l].op.sequence # p
  BY <1>1, <1>2, OwnersDiffer
<1>6. RegInv(t) /\ a.status # "not_ready" /\ Withdrawn(s, t, ref)
  BY <1>2, WithdrawEffect
<1> HIDE DEF a
<1>7. /\ RegStep(s, t, Nothing) /\ t.leases = s.leases
      /\ DOMAIN t.objects \subseteq DOMAIN s.objects
      /\ \A x \in DOMAIN t.objects :
           /\ t.objects[x].producer = s.objects[x].producer
           /\ t.objects[x].state \in {s.objects[x].state, "retired"}
           /\ ref = RefOf(s, x) => t.objects[x].state # "sealed"
  <2>0. \A x : ref = RefOf(s, x) => x = id
    BY DEF RefOf
  <2>1. CASE /\ t = s
             /\ id \in DOMAIN s.objects /\ ref = RefOf(s, id) => s.objects[id].state # "sealed"
    BY <1>2, <2>0, <2>1, SameRegistry
  <2>2. ASSUME s.objects[id].state = "sealed", NEW o, Affects(s, t, id, o),
               o.op = s.objects[id].op, o.identity = s.objects[id].identity,
               o.producer = s.objects[id].producer, o.state = "retired"
        PROVE  /\ RegStep(s, t, Nothing) /\ t.leases = s.leases
               /\ DOMAIN t.objects \subseteq DOMAIN s.objects
               /\ \A x \in DOMAIN t.objects :
                    /\ t.objects[x].producer = s.objects[x].producer
                    /\ t.objects[x].state \in {s.objects[x].state, "retired"}
                    /\ ref = RefOf(s, x) => t.objects[x].state # "sealed"
    <3> HIDE DEF t, id
    <3>1. RegStep(s, t, Nothing)
      BY <1>2, <2>2, AffectsStep
    <3>2. QED
      BY <2>0, <2>2, <3>1 DEF Affects
  <2>3. QED
    BY <1>6, <2>1, <2>2, SMT, ZenonT(60) DEF Withdrawn
<1>8. ASSUME NEW k, p \notin lost => k = Returned(client[p], a.status, a.value),
             registry' = t, lost' = lost
      PROVE  LeavesWanted(p, k)
  <2>1. p \notin lost => k.at = "done"
    BY <1>4, <1>6, <1>8 DEF Returned, Repeats, Resting
  <2>2. ASSUME NEW x \in DOMAIN t.objects, t.objects[x].op.producer = p, p \notin lost
        PROVE  ObjectWanted(x, k, t, FALSE)
    <3>1. s.objects[x].op.producer = p /\ x \in DOMAIN s.objects
      BY <1>7, <2>2 DEF RegStep
    <3>2. ObjectWanted(x, client[p], s, FALSE)
      BY <2>2, <3>1 DEF IInv, WantedInv, ObjectWanted
    <3>3. /\ ~ s.objects[x].producer
          /\ s.objects[x].state \in {"quarantined", "retired"} \/ ref = RefOf(s, x)
      BY <1>4, <2>2, <3>2 DEF ObjectWanted
    <3>4. ~ t.objects[x].producer
          /\ t.objects[x].state \in {"reserved", "sealed", "retired", "quarantined"}
          /\ t.objects[x].state # "reserved"
      <4>1. ObjectOK(t.objects[x], t)
        BY <1>6, <2>2 DEF RegInv, RegCore, RegTyped
      <4>2. QED
        BY <1>7, <2>2, <3>3, <4>1 DEF ObjectOK, Object
    <3>5. t.objects[x].state # "sealed"
      BY <1>7, <2>2, <3>3
    <3>6. QED
      BY <2>1, <2>2, <3>4, <3>5 DEF ObjectWanted
  <2>3. \A x \in DOMAIN t.objects :
          /\ t.objects[x].op.producer = p => ObjectWanted(x, k, t, p \in lost)
          /\ x \in DOMAIN s.objects
    BY <1>7, <2>2 DEF ObjectWanted
  <2>4. QED
    BY <1>5, <1>7, <1>8, <2>3 DEF LeavesWanted
<1>9. QED
  BY <1>1, <1>2, <1>3, <1>6, <1>7, <1>8, ServeKeeps

\* The service serves an acquire, which may be late or repeated.
LEMMA ServeAcquireKeeps ==
  ASSUME IInv, NEW r \in wire, Serve(r), r.call = "acquire"
  PROVE  IInv'
<1> DEFINE c == r.from
           s == registry
           a == Acquire(s, AcquireOp(c), Wanted[c])
           t == a.state
           known == s.acquires[AcquireOp(c)]
           id == s.canonical[Wanted[c]]
           l == s.nextLease
<1>1. /\ c \in Consumer /\ c \notin Producer /\ c \in Client /\ r.arg = AcquireOp(c)
      /\ RequestOK(r, client[c], s, c \in lost)
  BY ClientAssumption DEF IInv, RequestInv, RequestOK, ArgOf, Client
<1>2. RegInv(s) /\ Nothing \notin Client
  BY ClientAssumption DEF IInv
<1>3. a = Answer(s, r)
  BY <1>1 DEF Answer
<1>4. c \notin lost => client[c].at = "acquire"
  BY <1>1 DEF RequestOK
<1>5. c \notin lost => \A m \in DOMAIN s.leases : s.leases[m].op.sequence # c
  BY <1>1, <1>4, NothingOwned
<1>6. \/ t = s /\ a.status # "ok"
      \/ /\ t = s /\ a.status = "ok" /\ a.value = TokenOf(s, AcquireOp(c), known)
         /\ known \in DOMAIN s.leases /\ s.leases[known].op = AcquireOp(c)
      \/ /\ AcquireOp(c) \notin DOMAIN s.acquires
         /\ id \in DOMAIN s.objects /\ s.objects[id].state = "sealed"
         /\ s.objects[id].identity = Wanted[c]
         /\ Leased(s, t, c, id) /\ a.status = "ok"
         /\ a.value = TokenOf(s, AcquireOp(c), l)
  BY <1>1, <1>2, AcquireEffect
<1>7. s.inc \in Nat /\ l \in Nat /\ \A m \in DOMAIN s.leases : m \in Nat /\ m < l
  BY <1>2 DEF RegInv, RegCore, RegTyped
<1> HIDE DEF a, known, id
<1>8. CASE t = s
  <2>1. RegInv(t) /\ RegStep(s, t, Nothing)
    BY <1>2, <1>8, SameRegistry
  <2>2. a.status = "ok" => /\ OwnLease(a.value, c, t)
                           /\ a.value.inc = t.inc => a.value.lease \in DOMAIN t.leases
    <3>1. SUFFICES ASSUME a.value = TokenOf(s, AcquireOp(c), known), known \in DOMAIN s.leases,
                          s.leases[known].op = AcquireOp(c)
                   PROVE  OwnLease(a.value, c, s) /\ a.value.lease \in DOMAIN s.leases
      <4>1. ~ Leased(s, s, c, id)
        BY <1>7 DEF Leased
      <4>2. QED
        BY <1>6, <1>8, <4>1
    <3>2. a.value = [inc |-> s.inc, consumer |-> AcquireOp(c).consumer, lease |-> known]
      BY <3>1 DEF TokenOf
    <3>3. QED
      BY <1>7, <3>1, <3>2 DEF OwnLease
  <2>3. registry' = t /\ lost' = lost => \A k : LeavesWanted(c, k)
    <3>1. \A x \in DOMAIN s.objects : s.objects[x].op.producer # c
      BY <1>1, <1>2, OwnersDiffer
    <3>2. QED
      BY <1>5, <1>8, <3>1 DEF LeavesWanted, LeaseWanted
  <2>4. QED
    BY <1>1, <1>2, <1>3, <2>1, <2>2, <2>3, ServeKeeps
<1>9. CASE /\ AcquireOp(c) \notin DOMAIN s.acquires
           /\ id \in DOMAIN s.objects /\ s.objects[id].state = "sealed"
           /\ s.objects[id].identity = Wanted[c]
           /\ Leased(s, t, c, id) /\ a.status = "ok"
           /\ a.value = TokenOf(s, AcquireOp(c), l)
  <2>1. RegInv(t) /\ RegStep(s, t, Nothing)
    <3> HIDE DEF t
    <3>1. RegInv(t) /\ \A by : RegStep(s, t, by)
      BY <1>1, <1>2, <1>9, LeasedKeeps
    <3>2. QED
      BY <3>1
  <2>2. /\ DOMAIN t.leases = DOMAIN s.leases \cup {l} /\ t.leases[l].op = AcquireOp(c)
        /\ \A m \in DOMAIN s.leases \ {l} : t.leases[m] = s.leases[m]
        /\ t.inc = s.inc /\ t.nextLease = l + 1 /\ DOMAIN t.objects = DOMAIN s.objects
    BY <1>9 DEF Leased, With
  <2>3. a.value = [inc |-> s.inc, consumer |-> AcquireOp(c).consumer, lease |-> l]
    BY <1>9 DEF TokenOf
  <2>4. OwnLease(a.value, c, t) /\ a.value.lease \in DOMAIN t.leases
    BY <1>7, <2>2, <2>3 DEF OwnLease
  <2>5. ASSUME NEW k, c \notin lost => k = Returned(client[c], a.status, a.value),
               registry' = t, lost' = lost
        PROVE  LeavesWanted(c, k)
    <3>1. c \notin lost => k.at = "hold" /\ k.held = a.value
      BY <1>4, <1>9, <2>5 DEF Returned, Repeats, Resting
    <3>2. LeaseWanted(l, k, t, c \in lost)
      BY <2>2, <2>3, <3>1 DEF LeaseWanted, TokenOf
    <3>3. AcquireOp(c).sequence = c
      BY DEF AcquireOp
    <3>4. \A m \in DOMAIN t.leases :
            /\ t.leases[m].op.sequence = c => LeaseWanted(m, k, t, c \in lost)
            /\ m \notin DOMAIN s.leases => t.leases[m].op.sequence = c
      BY <1>5, <2>2, <3>2, <3>3 DEF LeaseWanted
    <3>5. \A x \in DOMAIN t.objects : t.objects[x].op.producer # c
      BY <1>1, <2>1, OwnersDiffer
    <3>6. QED
      BY <2>2, <2>5, <3>4, <3>5 DEF LeavesWanted
  <2>6. QED
    BY <1>1, <1>2, <1>3, <2>1, <2>4, <2>5, ServeKeeps
<1>10. QED
  BY <1>6, <1>8, <1>9

\* The service serves a release, which may be late, repeated or from before a
\* restart.
LEMMA ServeReleaseKeeps ==
  ASSUME IInv, NEW r \in wire, Serve(r), r.call = "release"
  PROVE  IInv'
<1> DEFINE c == r.from
           s == registry
           token == r.arg
           a == Release(s, token)
           t == a.state
           l == token.lease
<1>1. /\ c \in Consumer /\ c \notin Producer /\ c \in Client
      /\ OwnLease(token, c, s) /\ client[c].at # "hold"
      /\ RequestOK(r, client[c], s, c \in lost)
  BY ClientAssumption DEF IInv, RequestInv, RequestOK, ArgOf, Client
<1>2. RegInv(s)
  BY DEF IInv
<1>3. a = Answer(s, r)
  BY DEF Answer
<1>4. c \notin lost => client[c].at = "release" /\ client[c].arg = token
  BY <1>1 DEF RequestOK
<1>5. RegStep(s, t, c)
  BY <1>1, <1>2, ReleaseStep
<1>6. /\ RegInv(t) /\ a.status # "not_ready"
      /\ \/ /\ t = s
            /\ \/ token.inc # s.inc
               \/ l \notin DOMAIN s.leases
               \/ s.leases[l].op.consumer # token.consumer
         \/ token.inc = s.inc /\ Ended(s, t, l)
  BY <1>2, ReleaseEffect
<1> HIDE DEF a
<1>7. /\ DOMAIN t.leases \subseteq DOMAIN s.leases
      /\ \A m \in DOMAIN t.leases : t.leases[m] = s.leases[m]
      /\ DOMAIN t.objects \subseteq DOMAIN s.objects
  BY <1>6 DEF Ended
<1>8. \A q \in wire : q.from = c => q.call # "seal"
  BY <1>1 DEF IInv, RequestInv, RequestOK, ArgOf
<1>9. ASSUME NEW k, registry' = t, lost' = lost
      PROVE  LeavesWanted(c, k)
  <2>1. ASSUME NEW m \in DOMAIN t.leases, t.leases[m].op.sequence = c, c \notin lost
        PROVE  FALSE
    <3>1. m \in DOMAIN s.leases /\ s.leases[m].op.sequence = c
      BY <1>7, <2>1
    <3>2. LeaseWanted(m, client[c], s, FALSE)
      BY <2>1, <3>1 DEF IInv, WantedInv, LeaseWanted
    <3>3. TokenOf(s, s.leases[m].op, m) = token
      BY <1>4, <2>1, <3>2 DEF LeaseWanted
    <3>4. m = l /\ token.inc = s.inc /\ token.consumer = s.leases[m].op.consumer
      BY <3>3 DEF TokenOf
    <3>5. QED
      BY <1>6, <2>1, <3>1, <3>4 DEF Ended
  <2>2. \A x \in DOMAIN t.objects : t.objects[x].op.producer # c
    BY <1>1, <1>6, OwnersDiffer
  <2>3. \A m \in DOMAIN t.leases :
          /\ t.leases[m].op.sequence = c => LeaseWanted(m, k, t, c \in lost)
          /\ m \in DOMAIN s.leases
    BY <1>7, <2>1 DEF LeaseWanted
  <2>4. QED
    BY <1>7, <1>9, <2>2, <2>3 DEF LeavesWanted
<1>10. QED
  BY <1>1, <1>3, <1>5, <1>6, <1>8, <1>9, ServeKeeps

\* The registry of a new service is consistent, and empty.
LEMMA FreshRegistryOK ==
  ASSUME NEW i \in Nat
  PROVE  /\ RegInv(FreshRegistry(i)) /\ FreshRegistry(i).inc = i
         /\ DOMAIN FreshRegistry(i).objects = {} /\ DOMAIN FreshRegistry(i).leases = {}
<1> DEFINE s == FreshRegistry(i)
<1>1. /\ IsRegistry(s) /\ s.inc = i
      /\ s.objects = <<>> /\ s.operations = <<>> /\ s.canonical = <<>>
      /\ s.leases = <<>> /\ s.acquires = <<>>
      /\ s.nextObject = 1 /\ s.nextLease = 1 /\ s.bytes = 0 /\ s.quarantined = 0
  BY DEF FreshRegistry, IsRegistry
<1>2. DOMAIN <<>> = {}
  OBVIOUS
<1> HIDE DEF s
<1>3. RegTyped(s) /\ OpsInverse(s) /\ Lent(s) /\ Published(s) /\ NoGarbage(s)
  BY <1>1, <1>2 DEF RegTyped, OpsInverse, Lent, Published, NoGarbage
<1>4. BytesAddUp(s)
  <2>1. SumFunctionOnSet(Storage(s), {}) = 0
    BY FS_EmptySet, SumUnfolds
  <2>2. DOMAIN s.objects = {} /\ Quarantined(s) = {}
    BY <1>1, <1>2 DEF Quarantined
  <2>3. QED
    BY <1>1, <2>1, <2>2, CapacityAssumption DEF BytesAddUp
<1>5. QED
  BY <1>1, <1>2, <1>3, <1>4 DEF RegInv, RegCore, s

\* After a restart no token is of the registry: nothing is asked of what clients
\* hold.
LEMMA RestartKeeps ==
  ASSUME IInv, Restart
  PROVE  IInv'
<1>1. /\ registry' = FreshRegistry(registry.inc + 1) /\ registry.inc \in Nat
      /\ MaxRestarts \in Nat /\ wire' = {} /\ UNCHANGED <<client, lost>>
      /\ registry.inc + 1 \in 1..MaxRestarts + 1
  BY ClientAssumption DEF IInv, Restart
<1>2. /\ RegInv(registry') /\ registry'.inc = registry.inc + 1
      /\ DOMAIN registry'.objects = {} /\ DOMAIN registry'.leases = {}
  BY <1>1, FreshRegistryOK
<1>3. ASSUME NEW x, NEW c
      PROVE  /\ OwnHandle(x, c, registry) => OwnHandle(x, c, registry')
             /\ OwnLease(x, c, registry) => OwnLease(x, c, registry') /\ x.inc # registry'.inc
  BY <1>1, <1>2 DEF OwnHandle, OwnLease
<1>4. ClientInv'
  <2>1. ASSUME NEW c \in Client
        PROVE  ClientOK(c, client[c], registry')
    <3>1. ClientOK(c, client[c], registry)
      BY DEF IInv, ClientInv
    <3>2. ArgOf(c, client[c].at, client[c].arg, registry')
      BY <1>3, <3>1 DEF ClientOK, ArgOf
    <3>3. c \in Consumer /\ client[c].at = "hold" =>
            OwnLease(client[c].held, c, registry') /\ client[c].held.inc # registry'.inc
      BY <1>3, <3>1 DEF ClientOK
    <3>4. QED
      BY <1>2, <3>1, <3>2, <3>3 DEF ClientOK
  <2>2. QED
    BY <1>1, <2>1 DEF IInv, ClientInv
<1>5. RequestInv' /\ WantedInv'
  BY <1>1, <1>2 DEF RequestInv, WantedInv
<1>6. QED
  BY <1>1, <1>2, <1>4, <1>5 DEF IInv

\* The inductive invariant holds at the start, whoever takes part.
LEMMA InitHolds == Init => IInv
<1> SUFFICES ASSUME Init PROVE IInv
  OBVIOUS
<1>1. PICK cast \in Casts :
        /\ registry = FreshRegistry(cast.inc) /\ wire = {} /\ lost = {}
        /\ client = [c \in Client |->
                       Resting(IF c \in cast.clients THEN "start" ELSE "done", Nothing)]
  BY DEF Init
<1>2. cast.inc \in 1..MaxRestarts + 1 /\ cast.inc \in Nat
  BY ClientAssumption
<1>3. /\ RegInv(registry) /\ registry.inc = cast.inc
      /\ DOMAIN registry.objects = {} /\ DOMAIN registry.leases = {}
  BY <1>1, <1>2, FreshRegistryOK
<1>4. ClientInv
  <2>1. ASSUME NEW c \in Client
        PROVE  ClientOK(c, client[c], registry)
    <3>1. PICK at \in {"start", "done"} :
            client[c] = [at |-> at, try |-> 0, arg |-> Nothing, held |-> Nothing]
      BY <1>1 DEF Resting
    <3>2. QED
      BY <1>3, <3>1 DEF ClientOK, ArgOf, Calls, Early
  <2>2. client = [c \in Client |-> client[c]]
    BY <1>1
  <2>3. QED
    BY <2>1, <2>2 DEF ClientInv
<1>5. QED
  BY <1>1, <1>2, <1>3, <1>4 DEF IInv, RequestInv, WantedInv

\* It holds while nothing happens.
LEMMA StutterKeeps ==
  ASSUME IInv, UNCHANGED vars
  PROVE  IInv'
BY DEF vars, IInv, ClientInv, RequestInv, WantedInv

\* Every step of the system keeps it.
LEMMA NextKeeps == IInv /\ [Next]_vars => IInv'
<1> SUFFICES ASSUME IInv, [Next]_vars PROVE IInv'
  OBVIOUS
<1>1. ASSUME NEW p \in Producer, Ping(p) \/ CallReserve(p) \/ CallWithdraw(p) PROVE IInv'
  BY <1>1, PingKeeps, CallReserveKeeps, CallWithdrawKeeps
<1>2. ASSUME NEW c \in Consumer, CallAcquire(c) \/ CallRelease(c) PROVE IInv'
  BY <1>2, CallAcquireKeeps, CallReleaseKeeps
<1>3. ASSUME NEW c \in Client, TimeOut(c) PROVE IInv'
  BY <1>3, TimeOutKeeps
<1>4. ASSUME NEW r \in wire, Serve(r) PROVE IInv'
  <2>1. r.call \in Calls
    BY DEF IInv, RequestInv, RequestOK
  <2>2. QED
    BY <1>4, <2>1, ServeReserveKeeps, ServeSealKeeps, ServeReleaseProducerKeeps,
       ServeWithdrawKeeps, ServeAcquireKeeps, ServeReleaseKeeps DEF Calls
<1>5. CASE Restart
  BY <1>5, RestartKeeps
<1>6. CASE UNCHANGED vars
  BY <1>6, StutterKeeps
<1>7. QED
  BY <1>1, <1>2, <1>3, <1>4, <1>5, <1>6 DEF Next

-----------------------------------------------------------------------------
(* The theorems. *)

\* So it is an invariant.
LEMMA Invariance == Spec => []IInv
<1>1. Init => IInv
  BY InitHolds
<1>2. IInv /\ [Next]_vars => IInv'
  BY NextKeeps
<1>3. QED
  BY <1>1, <1>2, PTL DEF Spec

\* Every variable of the service and its clients has its type.
THEOREM TypeCorrect == Spec => []TypeOK
<1>1. IInv => TypeOK
  BY InvariantImplies
<1>2. QED
  BY <1>1, Invariance, PTL

\* In whatever order requests are served, late or repeated, the service never
\* reaches std::terminate in release_consumer or a map::at whose key is gone.
THEOREM ServiceSurvives == Spec => []NeverTerminates
<1>1. IInv => NeverTerminates
  BY InvariantImplies
<1>2. QED
  BY <1>1, Invariance, PTL

\* An identity names the one object sealed for it, the bytes in use and in
\* quarantine are what the objects store, within the capacity, and an object
\* counts its leases and is complete while it has one.
THEOREM ContentIsExact == Spec => []ContentExact
<1>1. IInv => ContentExact
  BY InvariantImplies
<1>2. QED
  BY <1>1, Invariance, PTL

\* A lease lives as long as its holder and the service do, and what the registry
\* keeps is wanted by a client that has not given up, or was left by one that has.
THEOREM TokensAreGood == Spec => []TokensAgree
<1>1. IInv => TokensAgree
  BY InvariantImplies
<1>2. QED
  BY <1>1, Invariance, PTL
=============================================================================
