--------------------------- MODULE ChunkAllocator ---------------------------
(***************************************************************************)
(* base::GlobalChunkAllocator: the metadata of the shared KV arena.        *)
(*                                                                         *)
(* The arena is a run of Bytes units (one unit stands for the 256-byte     *)
(* granule every plane is aligned to).  A model leases aligned chunks of   *)
(* it, up to the hard limit it registered; what is not leased is a list of *)
(* free intervals, kept coalesced.  The memory owner serialises all calls, *)
(* so every operation below is one step.  The module has no Next: the      *)
(* modules that drive the allocator (ChunkArena, SharedKV) extend it.      *)
(***************************************************************************)
EXTENDS Integers, FiniteSets

CONSTANTS
  Bytes,         \* size of the arena, in units
  Model,         \* names a worker may register under
  Layout         \* layout identities a chunk may be leased for

ASSUME BytesAssumption == Bytes \in Nat \ {0}

VARIABLES
  epoch,          \* incarnation of the owner
  free,           \* free intervals: records [offset, bytes]
  leases,         \* live leases
  limits,         \* hard limit of each model, 0 while it is not registered
  used,           \* bytes each model has leased
  nextGeneration  \* identity of the next lease

allocVars == <<epoch, free, leases, limits, used, nextGeneration>>

Interval == [offset : Nat, bytes : Nat \ {0}]

ChunkLease == [epoch : Nat, id : Nat, generation : Nat, offset : Nat,
               bytes : Nat \ {0}, model : Model, layout : Layout]

\* The constructor: one free interval, no model, no lease.
AllocInit ==
  /\ epoch = 1
  /\ free = {[offset |-> 0, bytes |-> Bytes]}
  /\ leases = {}
  /\ limits = [m \in Model |-> 0]
  /\ used = [m \in Model |-> 0]
  /\ nextGeneration = 1

RegisterModel(m, limit) ==
  /\ limits[m] = 0
  /\ limit \in 1..Bytes
  /\ limits' = [limits EXCEPT ![m] = limit]
  /\ used' = [used EXCEPT ![m] = 0]
  /\ UNCHANGED <<epoch, free, leases, nextGeneration>>

-----------------------------------------------------------------------------
(* acquire *)

Padding(i, alignment) ==
  LET rem == i.offset % alignment IN IF rem = 0 THEN 0 ELSE alignment - rem

Fits(i, bytes, alignment) ==
  /\ Padding(i, alignment) <= i.bytes
  /\ bytes <= i.bytes - Padding(i, alignment)

\* The interval that wastes least; the scan is by offset and replaces its
\* choice only on strictly less waste, so the lowest offset wins a tie.
BestFit(i, bytes, alignment) ==
  /\ Fits(i, bytes, alignment)
  /\ \A j \in free : Fits(j, bytes, alignment) =>
       \/ i.bytes < j.bytes
       \/ i.bytes = j.bytes /\ i.offset <= j.offset

WithinQuota(m, bytes) == bytes <= limits[m] - used[m]

\* A request the allocator accepts as well formed.
ValidRequest(m, bytes, alignment) ==
  /\ limits[m] # 0
  /\ bytes > 0 /\ alignment > 0 /\ bytes % alignment = 0

\* Otherwise acquire throws a ChunkAllocationError: quota, fragmented or
\* exhausted; every caller treats the three alike.
CanAcquire(m, bytes, alignment) ==
  WithinQuota(m, bytes) /\ \E i \in free : Fits(i, bytes, alignment)

\* Mutant of Between: an empty remainder is kept as an interval.
BetweenAlways(begin, end) == {[offset |-> begin, bytes |-> end - begin]}

Between(begin, end) ==
  IF begin < end THEN {[offset |-> begin, bytes |-> end - begin]} ELSE {}

NewLease(m, layout, bytes, offset) ==
  [epoch |-> epoch, id |-> nextGeneration, generation |-> nextGeneration,
   offset |-> offset, bytes |-> bytes, model |-> m, layout |-> layout]

\* Lease bytes from the best-fitting interval i; padding and tail stay free.
AcquireFrom(i, m, layout, bytes, alignment) ==
  LET offset == i.offset + Padding(i, alignment) IN
  /\ free' = (free \ {i}) \cup Between(i.offset, offset)
                          \cup Between(offset + bytes, i.offset + i.bytes)
  /\ leases' = leases \cup {NewLease(m, layout, bytes, offset)}
  /\ used' = [used EXCEPT ![m] = @ + bytes]
  /\ nextGeneration' = nextGeneration + 1
  /\ UNCHANGED <<epoch, limits>>

Acquire(m, layout, bytes, alignment) ==
  /\ ValidRequest(m, bytes, alignment)
  /\ WithinQuota(m, bytes)
  /\ \E i \in free : /\ BestFit(i, bytes, alignment)
                     /\ AcquireFrom(i, m, layout, bytes, alignment)

-----------------------------------------------------------------------------
(* release *)

SameIdentity(live, token) ==
  /\ live.generation = token.generation
  /\ live.model = token.model
  /\ live.layout = token.layout
  /\ live.offset = token.offset
  /\ live.bytes = token.bytes

\* Mutant of Releasable: the epoch is not compared.
ReleasableAnyEpoch(token) ==
  \E live \in leases : live.id = token.id /\ SameIdentity(live, token)

\* Otherwise release throws "stale_or_duplicate_chunk_release" or
\* "chunk_identity_mismatch" and changes nothing.
Releasable(token) ==
  /\ token.epoch = epoch
  /\ \E live \in leases : live.id = token.id /\ SameIdentity(live, token)

EndsAt(offset) == {i \in free : i.offset + i.bytes = offset}
StartsAt(offset) == {i \in free : i.offset = offset}

\* The interval [offset, offset + bytes) joined with the free neighbours.
Merged(offset, bytes) ==
  LET low == IF EndsAt(offset) = {} THEN offset
             ELSE (CHOOSE i \in EndsAt(offset) : TRUE).offset
      next == StartsAt(offset + bytes)
      high == IF next = {} THEN offset + bytes
              ELSE offset + bytes + (CHOOSE i \in next : TRUE).bytes
  IN  [offset |-> low, bytes |-> high - low]

\* Mutants of FreeAfter: the merged neighbour above stays in the list; only the
\* neighbour below is merged.
FreeKeepsNext(live) ==
  (free \ EndsAt(live.offset)) \cup {Merged(live.offset, live.bytes)}
FreeMergedBelow(live) ==
  LET below == EndsAt(live.offset)
      low == IF below = {} THEN live.offset ELSE (CHOOSE i \in below : TRUE).offset
  IN  (free \ below) \cup {[offset |-> low, bytes |-> live.offset + live.bytes - low]}

FreeAfter(live) ==
  (free \ (EndsAt(live.offset) \cup StartsAt(live.offset + live.bytes)))
    \cup {Merged(live.offset, live.bytes)}

\* Mutant of Release: the quota is not given back.
ReleaseKeepsQuota(token) ==
  /\ Releasable(token)
  /\ \E live \in leases :
       live.id = token.id /\ leases' = leases \ {live} /\ free' = FreeAfter(live)
  /\ UNCHANGED <<epoch, limits, used, nextGeneration>>

Release(token) ==
  /\ Releasable(token)
  /\ \E live \in leases :
       /\ live.id = token.id
       /\ leases' = leases \ {live}
       /\ used' = [used EXCEPT ![live.model] = @ - live.bytes]
       /\ free' = FreeAfter(live)
  /\ UNCHANGED <<epoch, limits, nextGeneration>>

-----------------------------------------------------------------------------
(* What the metadata says of single units of the arena. *)

Unit == 0..(Bytes - 1)
UnitsOf(x) == x.offset .. (x.offset + x.bytes - 1)
LeasedUnits(m) == UNION {UnitsOf(l) : l \in {k \in leases : k.model = m}}

-----------------------------------------------------------------------------
AllocTypeOK ==
  /\ epoch \in Nat
  /\ free \subseteq Interval
  /\ leases \subseteq ChunkLease
  /\ limits \in [Model -> Nat]
  /\ used \in [Model -> Int]
  /\ nextGeneration \in Nat

Apart(x, y) == \/ x.offset + x.bytes <= y.offset
               \/ y.offset + y.bytes <= x.offset

\* Free intervals and live leases lie in the arena and are pairwise disjoint:
\* no acquire, split or coalescing release ever gives a byte two owners
\* (the invariant test_global_chunk_allocator.cpp samples at random).
Disjoint ==
  /\ \A x \in free \cup leases : x.offset + x.bytes <= Bytes
  /\ \A i, j \in free : i # j => Apart(i, j)
  /\ \A k, l \in leases : k # l => Apart(k, l)
  /\ \A i \in free, l \in leases : Apart(i, l)

\* No byte is lost: padding, tails and merged neighbours of every operation
\* stay accounted for, whatever the order of calls.
Covered == \A u \in Unit : \E x \in free \cup leases : u \in UnitsOf(x)

\* Free intervals never touch: release merges with both neighbours.
Coalesced == \A i, j \in free : i.offset + i.bytes # j.offset

\* A live lease is of this epoch, its id is its generation and is unique.
LeaseIdentity ==
  /\ \A l \in leases : /\ l.epoch = epoch
                       /\ l.id = l.generation
                       /\ l.generation < nextGeneration
  /\ \A k, l \in leases : k.id = l.id => k = l

\* What every operation keeps.
AllocOK == AllocTypeOK /\ Disjoint /\ Covered /\ Coalesced /\ LeaseIdentity

\* A whole number of granules.
IsMultiple(n, a) == \E k \in Nat : n = k * a
=============================================================================
