-------------------------- MODULE ChunkArena_proofs --------------------------
(***************************************************************************)
(* Proofs about the chunk allocator, for every arena size, set of models,  *)
(* request sizes and alignments, and with no bound on the lease count that *)
(* matters (MaxGeneration and MaxEpoch only disable actions).              *)
(*                                                                         *)
(* The inductive invariant is TypeOK, the tiling (Disjoint, Covered,       *)
(* Coalesced) and two facts about identities: a live lease carries the     *)
(* current epoch and a generation below the next one, and a descriptor is  *)
(* never both held and returned.  The quota counters are proved on top of  *)
(* it (QInv), and that a refusal for space is genuine follows from it.     *)
(*                                                                         *)
(* The lemmas of the first part are about the operations of ChunkAllocator *)
(* alone: granting and freeing a chunk keep the free intervals and leases  *)
(* a tiling of the arena, and a release frees the very lease it names.     *)
(* SharedKV_proofs instantiates the module for them.                       *)
(***************************************************************************)
EXTENDS ChunkArena, SetLemmas, FiniteSetTheorems, TLAPS

-----------------------------------------------------------------------------
(* Operators of the allocator. *)

\* Padding never moves an offset down.
LEMMA PaddingType ==
  ASSUME NEW i \in Interval, NEW alignment \in Nat \ {0}
  PROVE  Padding(i, alignment) \in Nat
<1>1. /\ i.offset \in Nat
      /\ i.offset % alignment \in 0..(alignment - 1)
  BY DEF Interval
<1>2. QED
  BY <1>1 DEF Padding

\* What Between yields: nothing, or one interval inside [begin, end).
LEMMA BetweenParts ==
  ASSUME NEW begin \in Nat, NEW end \in Nat
  PROVE  /\ Between(begin, end) \subseteq Interval
         /\ \A x \in Between(begin, end) :
              x.offset = begin /\ x.offset + x.bytes = end /\ begin < end
         /\ \A u \in begin..(end - 1) :
              \E x \in Between(begin, end) : u \in UnitsOf(x)
<1>1. CASE begin < end
  <2>1. Between(begin, end) = {[offset |-> begin, bytes |-> end - begin]}
    BY <1>1 DEF Between
  <2>2. [offset |-> begin, bytes |-> end - begin] \in Interval
    BY <1>1 DEF Interval
  <2>3. QED
    BY <1>1, <2>1, <2>2 DEF UnitsOf
<1>2. CASE ~ (begin < end)
  BY <1>2 DEF Between
<1>3. QED
  BY <1>1, <1>2

\* A best-fitting interval holds the padded request.
LEMMA BestFitHolds ==
  ASSUME NEW i \in Interval, NEW bytes \in Nat \ {0},
         NEW alignment \in Nat \ {0}, BestFit(i, bytes, alignment)
  PROVE  /\ i.offset \in Nat /\ i.bytes \in Nat
         /\ i.offset + Padding(i, alignment) \in Nat
         /\ i.offset <= i.offset + Padding(i, alignment)
         /\ i.offset + Padding(i, alignment) + bytes <= i.offset + i.bytes
<1>1. Padding(i, alignment) \in Nat
  BY PaddingType
<1>2. i.offset \in Nat /\ i.bytes \in Nat
  BY DEF Interval
<1>3. QED
  BY <1>1, <1>2 DEF BestFit, Fits

-----------------------------------------------------------------------------
(* Acquire preserves the tiling: interval i is replaced by the padding      *)
(* before the chunk, the chunk, and the tail behind it.                     *)

\* Granting a chunk of a fitting interval keeps the tiling of the arena.
LEMMA AcquireTiles ==
  ASSUME AllocTypeOK, Disjoint, Covered, Coalesced,
         NEW m \in Model, NEW layout \in Layout, NEW bytes \in Nat \ {0},
         NEW alignment \in Nat \ {0}, NEW i \in free,
         BestFit(i, bytes, alignment),
         AcquireFrom(i, m, layout, bytes, alignment)
  PROVE  /\ free' \subseteq Interval
         /\ leases' \subseteq ChunkLease
         /\ Disjoint' /\ Covered' /\ Coalesced'
<1> DEFINE offset == i.offset + Padding(i, alignment)
           front == Between(i.offset, offset)
           tail == Between(offset + bytes, i.offset + i.bytes)
           lease == NewLease(m, layout, bytes, offset)
<1>1. /\ i \in Interval /\ i.offset \in Nat /\ i.bytes \in Nat
      /\ offset \in Nat /\ i.offset <= offset
      /\ offset + bytes <= i.offset + i.bytes
      /\ i.offset + i.bytes <= Bytes
  <2>1. i \in Interval /\ i.offset + i.bytes <= Bytes
    BY DEF AllocTypeOK, Disjoint
  <2>2. QED
    BY <2>1, BestFitHolds
<1>2. free' = (free \ {i}) \cup front \cup tail /\ leases' = leases \cup {lease}
  BY DEF AcquireFrom
<1>3. /\ front \subseteq Interval
      /\ \A x \in front : x.offset = i.offset /\ x.offset + x.bytes = offset
      /\ \A u \in i.offset..(offset - 1) : \E x \in front : u \in UnitsOf(x)
  BY <1>1, BetweenParts
<1>4. /\ tail \subseteq Interval
      /\ \A x \in tail : /\ x.offset = offset + bytes
                         /\ x.offset + x.bytes = i.offset + i.bytes
      /\ \A u \in (offset + bytes)..((i.offset + i.bytes) - 1) :
           \E x \in tail : u \in UnitsOf(x)
  <2> DEFINE a == offset + bytes
             b == i.offset + i.bytes
  <2>1. a \in Nat /\ b \in Nat
    BY <1>1
  <2> HIDE DEF a, b
  <2>2. /\ Between(a, b) \subseteq Interval
        /\ \A x \in Between(a, b) : x.offset = a /\ x.offset + x.bytes = b
        /\ \A u \in a..(b - 1) : \E x \in Between(a, b) : u \in UnitsOf(x)
    BY <2>1, BetweenParts
  <2>3. QED
    BY <2>2 DEF a, b
<1>5. /\ lease \in ChunkLease /\ lease.offset = offset /\ lease.bytes = bytes
  BY <1>1 DEF NewLease, ChunkLease, AllocTypeOK
<1> HIDE DEF offset, front, tail, lease
<1>6. free' \subseteq Interval /\ leases' \subseteq ChunkLease
  BY <1>2, <1>3, <1>4, <1>5 DEF AllocTypeOK
<1>7. \A x \in free' : x.offset \in Nat /\ x.bytes \in Nat \ {0}
  BY <1>6 DEF Interval
<1>8. \A x \in leases' : x.offset \in Nat /\ x.bytes \in Nat \ {0}
  BY <1>6 DEF ChunkLease
<1>9. \A x \in free' \ free : /\ i.offset <= x.offset
                              /\ x.offset + x.bytes <= i.offset + i.bytes
                              /\ Apart(x, lease)
  BY <1>1, <1>2, <1>3, <1>4, <1>5, <1>7 DEF Apart
<1>10. \A x \in free' \cup leases' : x.offset + x.bytes <= Bytes
  BY <1>1, <1>2, <1>5, <1>7, <1>9, BytesAssumption DEF Disjoint
<1>11. \A x, y \in free' : x # y => Apart(x, y)
  <2>1. ASSUME NEW x \in free', NEW y \in free', x # y
        PROVE  Apart(x, y)
    <3>1. CASE x \in free \ {i} /\ y \in free \ {i}
      BY <3>1, <2>1 DEF Disjoint
    <3>2. CASE x \in free \ {i} /\ y \notin free \ {i}
      <4>1. Apart(x, i) /\ i.offset <= y.offset /\ y.offset + y.bytes <= i.offset + i.bytes
        BY <3>2, <1>2, <1>3, <1>4, <1>1, <1>7 DEF Disjoint
      <4>2. QED
        BY <4>1, <1>7, <1>1 DEF Apart
    <3>3. CASE x \notin free \ {i} /\ y \in free \ {i}
      <4>1. Apart(y, i) /\ i.offset <= x.offset /\ x.offset + x.bytes <= i.offset + i.bytes
        BY <3>3, <1>2, <1>3, <1>4, <1>1, <1>7 DEF Disjoint
      <4>2. QED
        BY <4>1, <1>7, <1>1 DEF Apart
    <3>4. CASE x \notin free \ {i} /\ y \notin free \ {i}
      <4>1. \A a, b \in front : a = b
        BY <1>3 DEF Interval
      <4>2. \A a, b \in tail : a = b
        BY <1>4 DEF Interval
      <4>3. x \in front \cup tail /\ y \in front \cup tail
        BY <3>4, <1>2
      <4>4. QED
        BY <4>1, <4>2, <4>3, <2>1, <1>3, <1>4, <1>7, <1>1 DEF Apart
    <3>5. QED
      BY <3>1, <3>2, <3>3, <3>4
  <2>2. QED
    BY <2>1
<1>12. \A x \in free', l \in leases' : Apart(x, l)
  <2>1. ASSUME NEW x \in free', NEW l \in leases'
        PROVE  Apart(x, l)
    <3>1. CASE x \in free \ {i} /\ l \in leases
      BY <3>1 DEF Disjoint
    <3>2. CASE x \in free \ {i} /\ l = lease
      <4>1. Apart(x, i)
        BY <3>2 DEF Disjoint
      <4>2. QED
        BY <4>1, <3>2, <1>1, <1>5, <1>7 DEF Apart
    <3>3. CASE x \in front \cup tail /\ l \in leases
      <4>1. Apart(i, l)
        BY <3>3 DEF Disjoint
      <4>2. QED
        BY <4>1, <3>3, <1>1, <1>3, <1>4, <1>7, <1>8 DEF Apart
    <3>4. CASE x \in front \cup tail /\ l = lease
      BY <3>4, <1>1, <1>3, <1>4, <1>5, <1>7 DEF Apart
    <3>5. QED
      BY <3>1, <3>2, <3>3, <3>4, <1>2
  <2>2. QED
    BY <2>1
<1>13. \A k, l \in leases' : k # l => Apart(k, l)
  <2>1. \A l \in leases : Apart(l, lease) /\ Apart(lease, l)
    <3>1. ASSUME NEW l \in leases
          PROVE  Apart(l, lease) /\ Apart(lease, l)
      <4>1. Apart(i, l)
        BY DEF Disjoint
      <4>2. l.offset \in Nat /\ l.bytes \in Nat
        BY <1>8, <1>2
      <4>3. QED
        BY <4>1, <4>2, <1>1, <1>5 DEF Apart
    <3>2. QED
      BY <3>1
  <2>2. QED
    BY <2>1, <1>2 DEF Disjoint
<1>14. Disjoint'
  BY <1>10, <1>11, <1>12, <1>13 DEF Disjoint, Apart
<1>15. Covered'
  <2>1. ASSUME NEW u \in Unit
        PROVE  \E x \in free' \cup leases' : u \in UnitsOf(x)
    <3>1. PICK x \in free \cup leases : u \in UnitsOf(x)
      BY DEF Covered
    <3>2. CASE x # i
      BY <3>1, <3>2, <1>2
    <3>3. CASE x = i
      <4>1. u \in i.offset..(i.offset + i.bytes - 1)
        BY <3>1, <3>3 DEF UnitsOf
      <4>2. \/ u \in i.offset..(offset - 1)
            \/ u \in offset..(offset + bytes - 1)
            \/ u \in (offset + bytes)..((i.offset + i.bytes) - 1)
        BY <4>1, <1>1
      <4>3. u \in offset..(offset + bytes - 1) => u \in UnitsOf(lease)
        BY <1>5 DEF UnitsOf
      <4>4. QED
        BY <4>2, <4>3, <1>2, <1>3, <1>4
    <3>4. QED
      BY <3>2, <3>3
  <2>2. QED
    BY <2>1 DEF Covered, UnitsOf, Unit
<1>16. Coalesced'
  <2>1. ASSUME NEW x \in free', NEW y \in free'
        PROVE  x.offset + x.bytes # y.offset
    <3>1. CASE x \in free \ {i} /\ y \in free \ {i}
      BY <3>1 DEF Coalesced
    <3>2. CASE x \in free \ {i} /\ y \in front \cup tail
      <4>1. Apart(x, i) /\ x.offset + x.bytes # i.offset
        BY <3>2 DEF Disjoint, Coalesced
      <4>2. QED
        BY <4>1, <3>2, <1>1, <1>3, <1>4, <1>7 DEF Apart
    <3>3. CASE x \in front \cup tail /\ y \in free \ {i}
      <4>1. Apart(y, i) /\ i.offset + i.bytes # y.offset
        BY <3>3 DEF Disjoint, Coalesced
      <4>2. QED
        BY <4>1, <3>3, <1>1, <1>3, <1>4, <1>7 DEF Apart
    <3>4. CASE x \in front \cup tail /\ y \in front \cup tail
      BY <3>4, <1>1, <1>3, <1>4, <1>7
    <3>5. QED
      BY <3>1, <3>2, <3>3, <3>4, <1>2
  <2>2. QED
    BY <2>1 DEF Coalesced
<1>17. QED
  BY <1>6, <1>14, <1>15, <1>16

-----------------------------------------------------------------------------
(* Release preserves the tiling: the chunk is freed together with the free  *)
(* interval that ends where it starts and the one that starts where it ends.*)

\* The freed interval covers the chunk and exactly the neighbours it replaces.
LEMMA MergedParts ==
  ASSUME AllocTypeOK, Disjoint, Coalesced, NEW live \in leases
  PROVE  LET merged == Merged(live.offset, live.bytes)
             absorbed == EndsAt(live.offset) \cup StartsAt(live.offset + live.bytes)
         IN  /\ merged \in Interval
             /\ merged.offset <= live.offset
             /\ live.offset + live.bytes <= merged.offset + merged.bytes
             /\ merged.offset + merged.bytes <= Bytes
             /\ \A j \in absorbed :
                  /\ merged.offset <= j.offset
                  /\ j.offset + j.bytes <= merged.offset + merged.bytes
             /\ \A j \in free \ absorbed :
                  /\ Apart(j, merged)
                  /\ j.offset + j.bytes # merged.offset
                  /\ merged.offset + merged.bytes # j.offset
             /\ \A l \in leases : l # live => Apart(l, merged)
<1> DEFINE merged == Merged(live.offset, live.bytes)
           below == EndsAt(live.offset)
           above == StartsAt(live.offset + live.bytes)
           low == merged.offset
           high == merged.offset + merged.bytes
<1>1. /\ \A i \in free : i.offset \in Nat /\ i.bytes \in Nat \ {0}
      /\ \A l \in leases : l.offset \in Nat /\ l.bytes \in Nat \ {0}
  BY DEF AllocTypeOK, Interval, ChunkLease
<1>2. /\ \A i, j \in below : i = j
      /\ \A i, j \in above : i = j
      /\ \A i \in below : i \in free /\ i.offset + i.bytes = live.offset
      /\ \A i \in above : i \in free /\ i.offset = live.offset + live.bytes
  BY <1>1 DEF Disjoint, Apart, EndsAt, StartsAt
<1>3. \/ below = {} /\ low = live.offset
      \/ \E p \in below : low = p.offset
  <2>1. CASE below = {}
    BY <2>1 DEF Merged
  <2>2. CASE below # {}
    <3>1. (CHOOSE i \in below : TRUE) \in below
      BY <2>2
    <3>2. merged.offset = (CHOOSE i \in below : TRUE).offset
      BY <2>2 DEF Merged
    <3>3. QED
      BY <3>1, <3>2
  <2>3. QED
    BY <2>1, <2>2
<1>4. /\ low \in Nat /\ low <= live.offset
      /\ \A j \in below : low = j.offset
  BY <1>1, <1>2, <1>3
<1>5. \/ above = {} /\ high = live.offset + live.bytes
      \/ \E n \in above : high = live.offset + live.bytes + n.bytes
  <2>1. CASE above = {}
    <3>1. merged.bytes = (live.offset + live.bytes) - low
      BY <2>1 DEF Merged
    <3>2. QED
      BY <2>1, <3>1, <1>1, <1>4
  <2>2. CASE above # {}
    <3>1. (CHOOSE i \in above : TRUE) \in above
      BY <2>2
    <3>2. merged.bytes = (live.offset + live.bytes
                           + (CHOOSE i \in above : TRUE).bytes) - low
      BY <2>2 DEF Merged
    <3>3. (CHOOSE i \in above : TRUE).bytes \in Nat
      BY <3>1, <1>1, <1>2
    <3>4. high = live.offset + live.bytes + (CHOOSE i \in above : TRUE).bytes
      BY <3>2, <3>3, <1>1, <1>4
    <3>5. QED
      BY <3>1, <3>4
  <2>3. QED
    BY <2>1, <2>2
<1>6. /\ high \in Nat /\ live.offset + live.bytes <= high /\ high <= Bytes
      /\ \A j \in above : high = j.offset + j.bytes
  <2>1. live.offset + live.bytes <= Bytes
    BY DEF Disjoint
  <2>2. \A j \in above : live.offset + live.bytes + j.bytes = j.offset + j.bytes
    BY <1>1, <1>2
  <2>3. \A j \in above : j.offset + j.bytes <= Bytes
    BY <1>2 DEF Disjoint
  <2>4. QED
    BY <1>1, <1>2, <1>5, <2>1, <2>2, <2>3, BytesAssumption
<1>7. merged \in Interval /\ merged.bytes \in Nat \ {0}
  <2>1. merged = [offset |-> merged.offset, bytes |-> merged.bytes]
    BY DEF Merged
  <2>2. merged.bytes \in Int
    BY <1>1, <1>2, <1>4, <1>5, <2>1 DEF Merged
  <2>3. merged.bytes \in Nat \ {0}
    BY <2>2, <1>1, <1>4, <1>6
  <2>4. QED
    BY <2>1, <2>3, <1>4 DEF Interval
<1> HIDE DEF merged
<1>8. \A j \in below \cup above : low <= j.offset /\ j.offset + j.bytes <= high
  BY <1>1, <1>2, <1>4, <1>6
<1>9. ASSUME NEW j \in free \ (below \cup above)
      PROVE  /\ j.offset + j.bytes <= low \/ high <= j.offset
             /\ j.offset + j.bytes # low
             /\ high # j.offset
  <2>1. Apart(j, live)
    BY DEF Disjoint
  <2>2. \A p \in below \cup above : Apart(j, p) /\ j.offset + j.bytes # p.offset
                                     /\ p.offset + p.bytes # j.offset
    BY <1>2 DEF Disjoint, Coalesced
  <2>3. j.offset + j.bytes # live.offset /\ j.offset # live.offset + live.bytes
    BY DEF EndsAt, StartsAt
  <2>4. CASE j.offset + j.bytes <= live.offset
    BY <2>2, <2>3, <2>4, <1>1, <1>2, <1>3, <1>4, <1>6 DEF Apart
  <2>5. CASE live.offset + live.bytes <= j.offset
    BY <2>2, <2>3, <2>5, <1>1, <1>2, <1>4, <1>5, <1>6 DEF Apart
  <2>6. QED
    BY <2>1, <2>4, <2>5 DEF Apart
<1>10. ASSUME NEW l \in leases, l # live
       PROVE  l.offset + l.bytes <= low \/ high <= l.offset
  <2>1. Apart(l, live)
    BY <1>10 DEF Disjoint
  <2>2. \A p \in below \cup above : Apart(p, l)
    BY <1>2 DEF Disjoint
  <2>3. CASE l.offset + l.bytes <= live.offset
    BY <2>2, <2>3, <1>1, <1>2, <1>3, <1>4 DEF Apart
  <2>4. CASE live.offset + live.bytes <= l.offset
    BY <2>2, <2>4, <1>1, <1>2, <1>5, <1>6 DEF Apart
  <2>5. QED
    BY <2>1, <2>3, <2>4 DEF Apart
<1>11. QED
  BY <1>4, <1>6, <1>7, <1>8, <1>9, <1>10 DEF merged, Apart

\* Freeing a live chunk keeps the tiling: the freed interval takes the place
\* of the chunk and of the neighbours it absorbed.
LEMMA ReleaseTiles ==
  ASSUME AllocTypeOK, Disjoint, Covered, Coalesced, NEW live \in leases,
         leases' = leases \ {live}, free' = FreeAfter(live)
  PROVE  free' \subseteq Interval /\ Disjoint' /\ Covered' /\ Coalesced'
<1> DEFINE merged == Merged(live.offset, live.bytes)
           absorbed == EndsAt(live.offset) \cup StartsAt(live.offset + live.bytes)
<1>1. /\ merged \in Interval
      /\ merged.offset <= live.offset
      /\ live.offset + live.bytes <= merged.offset + merged.bytes
      /\ merged.offset + merged.bytes <= Bytes
      /\ \A j \in absorbed : /\ merged.offset <= j.offset
                             /\ j.offset + j.bytes <= merged.offset + merged.bytes
      /\ \A j \in free \ absorbed : /\ Apart(j, merged)
                                    /\ j.offset + j.bytes # merged.offset
                                    /\ merged.offset + merged.bytes # j.offset
      /\ \A l \in leases : l # live => Apart(l, merged)
  BY MergedParts
<1>2. free' = (free \ absorbed) \cup {merged}
  BY DEF FreeAfter
<1>3. absorbed \subseteq free
  BY DEF EndsAt, StartsAt
<1> HIDE DEF merged, absorbed
<1>4. free' \subseteq Interval
  BY <1>1, <1>2 DEF AllocTypeOK
<1>5. /\ \A x \in free \cup free' : x.offset \in Nat /\ x.bytes \in Nat \ {0}
      /\ \A l \in leases : l.offset \in Nat /\ l.bytes \in Nat \ {0}
      /\ merged.offset \in Nat /\ merged.bytes \in Nat \ {0}
  BY <1>1, <1>4 DEF AllocTypeOK, Interval, ChunkLease
<1>6. Disjoint'
  <2>1. \A x \in free' \cup leases' : x.offset + x.bytes <= Bytes
    BY <1>1, <1>2 DEF Disjoint
  <2>2. \A x, y \in free' : x # y => Apart(x, y)
    <3>1. \A x \in free \ absorbed : Apart(x, merged) /\ Apart(merged, x)
      BY <1>1, <1>5 DEF Apart
    <3>2. QED
      BY <3>1, <1>2 DEF Disjoint
  <2>3. \A x \in free', l \in leases' : Apart(x, l)
    <3>1. \A l \in leases \ {live} : Apart(merged, l)
      BY <1>1, <1>5 DEF Apart
    <3>2. QED
      BY <3>1, <1>2 DEF Disjoint
  <2>4. \A k, l \in leases' : k # l => Apart(k, l)
    BY DEF Disjoint
  <2>5. QED
    BY <2>1, <2>2, <2>3, <2>4 DEF Disjoint, Apart
<1>7. Covered'
  <2>1. ASSUME NEW u \in Unit
        PROVE  \E x \in free' \cup leases' : u \in UnitsOf(x)
    <3>1. PICK x \in free \cup leases : u \in UnitsOf(x)
      BY DEF Covered
    <3>2. CASE x \in absorbed \/ x = live
      <4>1. x.offset \in Nat /\ x.bytes \in Nat /\ u \in Int
            /\ x.offset <= u /\ u < x.offset + x.bytes
        BY <3>1, <1>5 DEF UnitsOf, Unit
      <4>2. merged.offset <= u /\ u < merged.offset + merged.bytes
        BY <4>1, <3>2, <1>1, <1>5
      <4>3. u \in UnitsOf(merged)
        BY <4>1, <4>2, <1>5 DEF UnitsOf
      <4>4. QED
        BY <4>3, <1>2
    <3>3. CASE ~ (x \in absorbed \/ x = live)
      BY <3>1, <3>3, <1>2
    <3>4. QED
      BY <3>2, <3>3
  <2>2. QED
    BY <2>1 DEF Covered, UnitsOf, Unit
<1>8. Coalesced'
  BY <1>1, <1>2, <1>5 DEF Coalesced
<1>9. QED
  BY <1>4, <1>6, <1>7, <1>8

-----------------------------------------------------------------------------
(* Identities. *)

\* The owner accepts a token only when the token is itself a live lease.
LEMMA ReleasableIsLive ==
  ASSUME AllocTypeOK, LeaseIdentity, NEW token \in ChunkLease, Releasable(token)
  PROVE  /\ token \in leases
         /\ \A live \in leases : live.id = token.id => live = token
<1>1. PICK live \in leases : live.id = token.id /\ SameIdentity(live, token)
  BY DEF Releasable
<1>2. /\ live.epoch = token.epoch
      /\ live.generation = token.generation /\ live.model = token.model
      /\ live.layout = token.layout /\ live.offset = token.offset
      /\ live.bytes = token.bytes
  BY <1>1 DEF Releasable, SameIdentity, LeaseIdentity
<1>3. live \in ChunkLease
  BY DEF AllocTypeOK
<1>4. live = token
  BY <1>1, <1>2, <1>3 DEF ChunkLease
<1>5. QED
  BY <1>1, <1>4 DEF LeaseIdentity

-----------------------------------------------------------------------------
(* The operations as a whole. *)

\* The whole arena is one free interval.
LEMMA WholeArena ==
  ASSUME free = {[offset |-> 0, bytes |-> Bytes]}, leases = {}
  PROVE  free \subseteq Interval /\ Disjoint /\ Covered /\ Coalesced
<1>1. free \subseteq Interval
  BY BytesAssumption DEF Interval
<1>2. Disjoint
  BY BytesAssumption DEF Disjoint, Apart
<1>3. Covered
  BY BytesAssumption DEF Covered, Unit, UnitsOf
<1>4. Coalesced
  BY BytesAssumption DEF Coalesced
<1>5. QED
  BY <1>1, <1>2, <1>3, <1>4

\* The padded offset is a multiple of the alignment.
LEMMA PaddedIsMultiple ==
  ASSUME NEW i \in Interval, NEW alignment \in Nat \ {0}
  PROVE  IsMultiple(i.offset + Padding(i, alignment), alignment)
<1> DEFINE q == i.offset \div alignment
           rem == i.offset % alignment
<1>1. i.offset \in Nat
  BY DEF Interval
<1>2. q \in Nat /\ rem \in Nat /\ i.offset = alignment * q + rem
  BY <1>1, DivMod
<1> HIDE DEF q
<1>3. CASE rem = 0
  <2>1. Padding(i, alignment) = 0
    BY <1>3 DEF Padding
  <2> HIDE DEF rem
  <2>2. i.offset + Padding(i, alignment) = q * alignment
    BY <2>1, <1>1, <1>2, <1>3
  <2>3. QED
    BY <2>2, <1>2 DEF IsMultiple
<1>4. CASE rem # 0
  <2>1. Padding(i, alignment) = alignment - rem
    BY <1>4 DEF Padding
  <2> HIDE DEF rem
  <2>2. i.offset + Padding(i, alignment) = (q + 1) * alignment
    BY <2>1, <1>1, <1>2
  <2>3. q + 1 \in Nat
    BY <1>2
  <2>4. QED
    BY <2>2, <2>3 DEF IsMultiple
<1>5. QED
  BY <1>3, <1>4


\* The allocator of a new owner.
LEMMA InitAllocOK == AllocInit => AllocOK
<1> SUFFICES ASSUME AllocInit PROVE AllocOK
  OBVIOUS
<1>1. free \subseteq Interval /\ Disjoint /\ Covered /\ Coalesced
  BY WholeArena DEF AllocInit
<1>2. AllocTypeOK
  BY <1>1 DEF AllocInit, AllocTypeOK
<1>3. LeaseIdentity
  BY DEF AllocInit, LeaseIdentity
<1>4. QED
  BY <1>1, <1>2, <1>3 DEF AllocOK

\* A model registers: no lease changes.
LEMMA RegisterKeeps ==
  ASSUME AllocOK, NEW m \in Model, NEW limit \in Nat, RegisterModel(m, limit)
  PROVE  AllocOK' /\ UNCHANGED <<epoch, free, leases, nextGeneration>>
<1> USE DEF RegisterModel
<1>1. AllocTypeOK'
  BY DEF AllocOK, AllocTypeOK
<1>2. Disjoint' /\ Covered' /\ Coalesced' /\ LeaseIdentity'
  BY DEF AllocOK, Disjoint, Covered, Coalesced, LeaseIdentity, Apart, Unit, UnitsOf
<1>3. QED
  BY <1>1, <1>2 DEF AllocOK

\* A grant adds one lease, new to the owner, of the size asked for and aligned.
LEMMA AcquireKeeps ==
  ASSUME AllocOK, NEW m \in Model, NEW layout \in Layout, NEW bytes \in Nat \ {0},
         NEW alignment \in Nat \ {0}, Acquire(m, layout, bytes, alignment)
  PROVE  /\ AllocOK'
         /\ epoch' = epoch /\ nextGeneration' = nextGeneration + 1
         /\ \E lease \in ChunkLease :
              /\ leases' = leases \cup {lease} /\ lease \notin leases
              /\ lease.epoch = epoch
              /\ lease.id = nextGeneration /\ lease.generation = nextGeneration
              /\ lease.model = m /\ lease.layout = layout /\ lease.bytes = bytes
              /\ IsMultiple(lease.offset, alignment)
<1>1. PICK i \in free : /\ BestFit(i, bytes, alignment)
                        /\ AcquireFrom(i, m, layout, bytes, alignment)
  BY DEF Acquire
<1>2. /\ free' \subseteq Interval /\ leases' \subseteq ChunkLease
      /\ Disjoint' /\ Covered' /\ Coalesced'
  BY <1>1, AcquireTiles DEF AllocOK
<1> DEFINE offset == i.offset + Padding(i, alignment)
           lease == NewLease(m, layout, bytes, offset)
<1>3. i \in Interval
  BY DEF AllocOK, AllocTypeOK
<1>4. offset \in Nat /\ IsMultiple(offset, alignment)
  BY <1>3, PaddingType, PaddedIsMultiple DEF Interval
<1>5. /\ leases' = leases \cup {lease} /\ epoch' = epoch
      /\ nextGeneration' = nextGeneration + 1 /\ limits' = limits
      /\ used' = [used EXCEPT ![m] = @ + bytes]
  BY <1>1 DEF AcquireFrom
<1>6. /\ lease.epoch = epoch
      /\ lease.id = nextGeneration /\ lease.generation = nextGeneration
      /\ lease.model = m /\ lease.layout = layout /\ lease.bytes = bytes
      /\ lease.offset = offset
  BY DEF NewLease
<1> HIDE DEF lease, offset
<1>7. lease \in ChunkLease
  BY <1>2, <1>5
<1>8. lease \notin leases
  BY <1>6 DEF AllocOK, AllocTypeOK, LeaseIdentity
<1>9. AllocTypeOK'
  BY <1>2, <1>5 DEF AllocOK, AllocTypeOK
<1>10. LeaseIdentity'
  BY <1>5, <1>6 DEF AllocOK, AllocTypeOK, LeaseIdentity, ChunkLease
<1>11. AllocOK'
  BY <1>2, <1>9, <1>10 DEF AllocOK
<1>12. QED
  BY <1>4, <1>5, <1>6, <1>7, <1>8, <1>11

\* A release takes away the lease it names and no other.
LEMMA ReleaseKeeps ==
  ASSUME AllocOK, NEW token \in ChunkLease, Release(token)
  PROVE  /\ AllocOK' /\ token \in leases /\ leases' = leases \ {token}
         /\ UNCHANGED <<epoch, nextGeneration>>
<1>1. PICK live \in leases :
        /\ live.id = token.id
        /\ leases' = leases \ {live}
        /\ used' = [used EXCEPT ![live.model] = @ - live.bytes]
        /\ free' = FreeAfter(live)
  BY DEF Release
<1>2. Releasable(token) /\ UNCHANGED <<epoch, limits, nextGeneration>>
  BY DEF Release
<1>3. live = token
  BY <1>1, <1>2, ReleasableIsLive DEF AllocOK
<1>4. free' \subseteq Interval /\ Disjoint' /\ Covered' /\ Coalesced'
  BY <1>1, ReleaseTiles DEF AllocOK
<1>5. used' \in [Model -> Int]
  BY <1>1 DEF AllocOK, AllocTypeOK, ChunkLease
<1>6. AllocTypeOK'
  BY <1>1, <1>2, <1>4, <1>5 DEF AllocOK, AllocTypeOK
<1>7. LeaseIdentity'
  BY <1>1, <1>2 DEF AllocOK, LeaseIdentity
<1>8. QED
  BY <1>1, <1>2, <1>3, <1>4, <1>6, <1>7 DEF AllocOK

\* Nothing the owner knows changes.
LEMMA AllocStutters ==
  ASSUME AllocOK, UNCHANGED allocVars
  PROVE  AllocOK'
BY DEF AllocOK, AllocTypeOK, Disjoint, Covered, Coalesced, LeaseIdentity,
       allocVars, Apart, Unit, UnitsOf

-----------------------------------------------------------------------------
(* The arena and its clients. *)

\* No descriptor is of a future epoch or an unused generation of this one.
TokenIdentity ==
  /\ held \cap returned = {}
  /\ \A t \in held \cup returned :
       /\ t.epoch <= epoch
       /\ t.epoch = epoch => t.generation < nextGeneration

IInv ==
  /\ TypeOK
  /\ Disjoint
  /\ Covered
  /\ Coalesced
  /\ LeaseIdentity
  /\ TokenIdentity
  /\ HolderKeepsChunk

-----------------------------------------------------------------------------
(* Identities. *)

\* What a call of release does: free the token's chunk, or nothing.
LEMMA ReleaseStep ==
  ASSUME IInv, NEW token \in ChunkLease,
         Release(token) \/ (~ Releasable(token) /\ UNCHANGED allocVars)
  PROVE  /\ Disjoint' /\ Covered' /\ Coalesced' /\ LeaseIdentity'
         /\ leases' \in {leases, leases \ {token}}
         /\ UNCHANGED <<epoch, nextGeneration>>
         /\ free' \subseteq Interval /\ used' \in [Model -> Int]
         /\ limits' = limits
<1>1. CASE Release(token)
  <2>1. PICK live \in leases :
          /\ live.id = token.id
          /\ leases' = leases \ {live}
          /\ used' = [used EXCEPT ![live.model] = @ - live.bytes]
          /\ free' = FreeAfter(live)
    BY <1>1 DEF Release
  <2>2. Releasable(token) /\ UNCHANGED <<epoch, limits, nextGeneration>>
    BY <1>1 DEF Release
  <2>3. live = token
    BY <2>1, <2>2, ReleasableIsLive DEF IInv, TypeOK
  <2>4. free' \subseteq Interval /\ Disjoint' /\ Covered' /\ Coalesced'
    BY <2>1, ReleaseTiles DEF IInv, TypeOK
  <2>5. used' \in [Model -> Int]
    BY <2>1 DEF IInv, TypeOK, AllocTypeOK, ChunkLease
  <2>6. LeaseIdentity'
    BY <2>1, <2>2 DEF IInv, LeaseIdentity
  <2>7. QED
    BY <2>1, <2>2, <2>3, <2>4, <2>5, <2>6
<1>2. CASE ~ Releasable(token) /\ UNCHANGED allocVars
  BY <1>2 DEF IInv, TypeOK, AllocTypeOK, Disjoint, Covered, Coalesced, LeaseIdentity,
              allocVars, Apart, UnitsOf, Unit
<1>3. QED
  BY <1>1, <1>2

-----------------------------------------------------------------------------
(* The inductive invariant. *)

\* A new owner's arena satisfies the inductive invariant.
LEMMA InitIInv == Init => IInv
<1> SUFFICES ASSUME Init PROVE IInv
  OBVIOUS
<1>1. free \subseteq Interval /\ Disjoint /\ Covered /\ Coalesced
  BY WholeArena DEF Init, AllocInit
<1>2. TypeOK
  BY <1>1 DEF Init, AllocInit, TypeOK, AllocTypeOK
<1>3. LeaseIdentity /\ TokenIdentity /\ HolderKeepsChunk
  BY DEF Init, AllocInit, LeaseIdentity, TokenIdentity, HolderKeepsChunk
<1>4. QED
  BY <1>1, <1>2, <1>3 DEF IInv

\* Every call of a client and every restart of the owner preserves it.
LEMMA NextIInv == IInv /\ [Next]_vars => IInv'
<1> SUFFICES ASSUME IInv, [Next]_vars PROVE IInv'
  OBVIOUS
<1>1. ASSUME NEW m \in Model, NEW limit \in HardLimit, ClientRegister(m, limit)
      PROVE  IInv'
  <2>1. limit \in Nat
    BY RequestAssumption
  <2>2. UNCHANGED <<epoch, free, leases, nextGeneration, held, returned>>
    BY <1>1 DEF ClientRegister, RegisterModel
  <2>3. TypeOK'
    BY <1>1, <2>1, <2>2 DEF ClientRegister, RegisterModel, IInv, TypeOK, AllocTypeOK
  <2>4. Disjoint' /\ Covered' /\ Coalesced'
    BY <2>2 DEF IInv, Disjoint, Covered, Coalesced, Apart, UnitsOf, Unit
  <2>5. LeaseIdentity' /\ TokenIdentity' /\ HolderKeepsChunk'
    BY <2>2 DEF IInv, LeaseIdentity, TokenIdentity, HolderKeepsChunk
  <2>6. QED
    BY <2>3, <2>4, <2>5 DEF IInv
<1>2. ASSUME NEW m \in Model, NEW layout \in Layout, NEW bytes \in RequestSize,
             NEW alignment \in Alignment, ClientAcquire(m, layout, bytes, alignment)
      PROVE  IInv'
  <2>1. bytes \in Nat \ {0} /\ alignment \in Nat \ {0}
    BY RequestAssumption
  <2>2. PICK i \in free : /\ BestFit(i, bytes, alignment)
                          /\ AcquireFrom(i, m, layout, bytes, alignment)
    BY <1>2 DEF ClientAcquire, Acquire
  <2>3. /\ free' \subseteq Interval /\ leases' \subseteq ChunkLease
        /\ Disjoint' /\ Covered' /\ Coalesced'
    BY <2>1, <2>2, AcquireTiles DEF IInv, TypeOK
  <2>4. PICK lease \in ChunkLease :
          /\ leases' = leases \cup {lease}
          /\ lease.epoch = epoch /\ lease.id = nextGeneration
          /\ lease.generation = nextGeneration
    BY <2>2, <2>3 DEF AcquireFrom, NewLease
  <2>5. /\ UNCHANGED <<epoch, limits, returned>>
        /\ nextGeneration' = nextGeneration + 1
        /\ used' = [used EXCEPT ![m] = @ + bytes]
        /\ held' = held \cup (leases' \ leases)
    BY <1>2, <2>2 DEF ClientAcquire, AcquireFrom
  <2>6. lease \notin leases \cup returned
    BY <2>4 DEF IInv, TypeOK, AllocTypeOK, LeaseIdentity, TokenIdentity
  <2>7. held' = held \cup {lease}
    BY <2>4, <2>5, <2>6
  <2>8. TypeOK'
    BY <2>1, <2>3, <2>5, <2>7 DEF IInv, TypeOK, AllocTypeOK
  <2>9. LeaseIdentity'
    <3>1. /\ nextGeneration \in Nat
          /\ \A l \in leases : /\ l.epoch = epoch /\ l.generation \in Nat
                               /\ l.id = l.generation
                               /\ l.generation < nextGeneration
          /\ \A k, l \in leases : k.id = l.id => k = l
      BY DEF IInv, TypeOK, AllocTypeOK, LeaseIdentity, ChunkLease
    <3>2. \A l \in leases' : /\ l.epoch = epoch' /\ l.id = l.generation
                             /\ l.generation < nextGeneration'
      BY <2>4, <2>5, <3>1
    <3>3. \A k, l \in leases' : k.id = l.id => k = l
      BY <2>4, <3>1
    <3>4. QED
      BY <3>2, <3>3 DEF LeaseIdentity
  <2>10. TokenIdentity'
    BY <2>4, <2>5, <2>6, <2>7 DEF IInv, TypeOK, AllocTypeOK, TokenIdentity, ChunkLease
  <2>11. HolderKeepsChunk'
    BY <2>4, <2>5, <2>7 DEF IInv, HolderKeepsChunk
  <2>12. QED
    BY <2>3, <2>8, <2>9, <2>10, <2>11 DEF IInv
<1>3. ASSUME NEW token \in held, ClientRelease(token)
      PROVE  IInv'
  <2>1. /\ Release(token) \/ (~ Releasable(token) /\ UNCHANGED allocVars)
        /\ held' = held \ {token} /\ returned' = returned \cup {token}
    BY <1>3 DEF ClientRelease
  <2>2. token \in ChunkLease
    BY DEF IInv, TypeOK, AllocTypeOK
  <2>3. /\ Disjoint' /\ Covered' /\ Coalesced' /\ LeaseIdentity'
        /\ leases' \in {leases, leases \ {token}}
        /\ UNCHANGED <<epoch, nextGeneration>>
    BY <2>1, <2>2, ReleaseStep
  <2>4. TypeOK'
    BY <2>1, <2>2, ReleaseStep DEF IInv, TypeOK, AllocTypeOK
  <2>5. TokenIdentity' /\ HolderKeepsChunk'
    BY <2>1, <2>3 DEF IInv, TokenIdentity, HolderKeepsChunk
  <2>6. QED
    BY <2>3, <2>4, <2>5 DEF IInv
<1>4. ASSUME NEW token \in returned, DuplicateRelease(token)
      PROVE  IInv'
  <2>1. /\ Release(token) \/ (~ Releasable(token) /\ UNCHANGED allocVars)
        /\ held' = held /\ returned' = returned \ {token}
    BY <1>4 DEF DuplicateRelease
  <2>2. token \in ChunkLease
    BY DEF IInv, TypeOK, AllocTypeOK
  <2>3. /\ Disjoint' /\ Covered' /\ Coalesced' /\ LeaseIdentity'
        /\ leases' \in {leases, leases \ {token}}
        /\ UNCHANGED <<epoch, nextGeneration>>
    BY <2>1, <2>2, ReleaseStep
  <2>4. TypeOK'
    BY <2>1, <2>2, ReleaseStep DEF IInv, TypeOK, AllocTypeOK
  <2>5. token \notin held
    BY DEF IInv, TokenIdentity
  <2>6. TokenIdentity' /\ HolderKeepsChunk'
    BY <2>1, <2>3, <2>5 DEF IInv, TokenIdentity, HolderKeepsChunk
  <2>7. QED
    BY <2>3, <2>4, <2>6 DEF IInv
<1>5. ASSUME OwnerRestart
      PROVE  IInv'
  <2>1. /\ epoch' = epoch + 1 /\ nextGeneration' = 1
        /\ leases' = {} /\ UNCHANGED <<held, returned>>
        /\ free' = {[offset |-> 0, bytes |-> Bytes]}
    BY <1>5 DEF OwnerRestart
  <2>2. free' \subseteq Interval
    BY <2>1, BytesAssumption DEF Interval
  <2>3. TypeOK'
    BY <1>5, <2>2 DEF IInv, TypeOK, AllocTypeOK, OwnerRestart
  <2>4. Disjoint' /\ Coalesced'
    BY <2>1, BytesAssumption DEF Disjoint, Coalesced, Apart
  <2>5. Covered'
    BY <2>1, BytesAssumption DEF Covered, Unit, UnitsOf
  <2>6. LeaseIdentity' /\ TokenIdentity' /\ HolderKeepsChunk'
    BY <2>1 DEF IInv, TypeOK, AllocTypeOK, LeaseIdentity, TokenIdentity, HolderKeepsChunk,
                ChunkLease
  <2>7. QED
    BY <2>3, <2>4, <2>5, <2>6 DEF IInv
<1>6. CASE UNCHANGED vars
  BY <1>6 DEF vars, IInv, TypeOK, AllocTypeOK, Disjoint, Covered, Coalesced, LeaseIdentity,
              TokenIdentity, HolderKeepsChunk, Apart, UnitsOf, Unit
<1>7. QED
  BY <1>1, <1>2, <1>3, <1>4, <1>5, <1>6 DEF Next

-----------------------------------------------------------------------------
(* The quota counter. *)

\* A chunk occupies as many units as it has bytes.
LEMMA ChunkSize ==
  ASSUME NEW x, x.offset \in Nat, x.bytes \in Nat \ {0}
  PROVE  IsFiniteSet(UnitsOf(x)) /\ Cardinality(UnitsOf(x)) = x.bytes
<1> DEFINE a == x.offset
           b == x.offset + x.bytes - 1
<1>1. a \in Int /\ b \in Int /\ a <= b /\ (b - a) + 1 = x.bytes
  OBVIOUS
<1>2. UnitsOf(x) = a..b
  BY DEF UnitsOf
<1> HIDE DEF a, b
<1>3. IsFiniteSet(a..b) /\ Cardinality(a..b) = (b - a) + 1
  <2>1. a \in Int /\ b \in Int
    BY <1>1
  <2>2. /\ IsFiniteSet(a..b)
        /\ Cardinality(a..b) = IF a > b THEN 0 ELSE (b - a) + 1
    BY <2>1, FS_Interval
  <2>3. QED
    BY <1>1, <2>2
<1>4. QED
  BY <1>1, <1>2, <1>3

\* A model leases finitely many units: all of them lie in the arena.
LEMMA LeasedFinite ==
  ASSUME TypeOK, Disjoint, NEW m \in Model
  PROVE  LeasedUnits(m) \subseteq Unit /\ IsFiniteSet(LeasedUnits(m))
<1>1. \A l \in leases : /\ l.offset \in Nat /\ l.bytes \in Nat
                        /\ l.offset + l.bytes <= Bytes
  BY DEF TypeOK, AllocTypeOK, ChunkLease, Disjoint
<1>2. \A l \in leases : UnitsOf(l) \subseteq Unit
  BY <1>1, BytesAssumption DEF UnitsOf, Unit
<1>3. LeasedUnits(m) \subseteq Unit
  BY <1>2 DEF LeasedUnits
<1>4. 0 \in Int /\ Bytes - 1 \in Int
  BY BytesAssumption
<1>5. IsFiniteSet(Unit)
  <2> DEFINE b == Bytes - 1
  <2>1. b \in Int
    BY <1>4
  <2> HIDE DEF b
  <2>2. IsFiniteSet(0..b)
    BY <2>1, FS_Interval
  <2>3. QED
    BY <2>2 DEF b, Unit
<1>6. QED
  BY <1>3, <1>5, FS_Subset

\* A set of units that are apart from a chunk shares none with it.
LEMMA ApartUnits ==
  ASSUME NEW x, x.offset \in Nat, x.bytes \in Nat \ {0},
         NEW y, y.offset \in Nat, y.bytes \in Nat \ {0}, Apart(x, y)
  PROVE  UnitsOf(x) \cap UnitsOf(y) = {}
BY DEF UnitsOf, Apart

\* The counters are inductive only together with the tiling: a chunk's bytes
\* count once because no other chunk holds them.
QInv == IInv /\ QuotaExact

\* A granted chunk adds its bytes, which were nobody's, to the counter.
LEMMA AcquireQuota ==
  ASSUME QInv, Disjoint', TypeOK', NEW m \in Model, NEW layout \in Layout,
         NEW bytes \in Nat \ {0}, NEW alignment \in Nat \ {0},
         WithinQuota(m, bytes),
         NEW i \in free, AcquireFrom(i, m, layout, bytes, alignment)
  PROVE  QuotaExact'
<1>1. PICK lease \in ChunkLease : /\ leases' = leases \cup {lease}
                                  /\ lease.model = m /\ lease.bytes = bytes
                                  /\ lease \notin leases
  <2> DEFINE lease == NewLease(m, layout, bytes, i.offset + Padding(i, alignment))
  <2>1. /\ leases' = leases \cup {lease} /\ lease.model = m /\ lease.bytes = bytes
        /\ lease.generation = nextGeneration
    BY DEF AcquireFrom, NewLease
  <2>2. lease \in ChunkLease /\ lease \notin leases
    BY <2>1 DEF QInv, IInv, TypeOK, AllocTypeOK, LeaseIdentity
  <2> HIDE DEF lease
  <2>3. QED
    BY <2>1, <2>2
<1>2. used' = [used EXCEPT ![m] = @ + bytes] /\ limits' = limits
  BY DEF AcquireFrom
<1>3. /\ limits \in [Model -> Nat] /\ used \in [Model -> Int]
      /\ \A k \in Model : used[k] = Cardinality(LeasedUnits(k)) /\ used[k] <= limits[k]
  BY DEF QInv, IInv, TypeOK, AllocTypeOK, QuotaExact
<1>4. \A k \in Model \ {m} : LeasedUnits(k)' = LeasedUnits(k)
  BY <1>1 DEF LeasedUnits, UnitsOf
<1>5. LeasedUnits(m)' = LeasedUnits(m) \cup UnitsOf(lease)
  BY <1>1 DEF LeasedUnits, UnitsOf
<1>6. LeasedUnits(m) \cap UnitsOf(lease) = {}
  <2>1. \A l \in leases : Apart(l, lease)
    BY <1>1 DEF Disjoint, Apart
  <2>2. \A l \in leases : l.offset \in Nat /\ l.bytes \in Nat \ {0}
    BY DEF QInv, IInv, TypeOK, AllocTypeOK, ChunkLease
  <2>3. lease.offset \in Nat /\ lease.bytes \in Nat \ {0}
    BY DEF ChunkLease
  <2>4. \A l \in leases : UnitsOf(l) \cap UnitsOf(lease) = {}
    BY <2>1, <2>2, <2>3, ApartUnits
  <2>5. QED
    BY <2>4 DEF LeasedUnits
<1>7. Cardinality(LeasedUnits(m)') = Cardinality(LeasedUnits(m)) + bytes
  <2>1. IsFiniteSet(LeasedUnits(m))
    BY LeasedFinite DEF QInv, IInv
  <2>2. IsFiniteSet(UnitsOf(lease)) /\ Cardinality(UnitsOf(lease)) = bytes
    BY <1>1, ChunkSize DEF ChunkLease
  <2>3. Cardinality(LeasedUnits(m) \cup UnitsOf(lease))
          = Cardinality(LeasedUnits(m)) + Cardinality(UnitsOf(lease))
            - Cardinality(LeasedUnits(m) \cap UnitsOf(lease))
    BY <2>1, <2>2, FS_Union
  <2>4. Cardinality(LeasedUnits(m) \cap UnitsOf(lease)) = 0
    BY <1>6, FS_EmptySet
  <2>5. Cardinality(LeasedUnits(m)) \in Nat
    BY <2>1, FS_CardinalityType
  <2>6. QED
    BY <1>5, <2>2, <2>3, <2>4, <2>5
<1>8. QED
  BY <1>2, <1>3, <1>4, <1>7 DEF QuotaExact, WithinQuota

\* A released chunk takes its bytes, which no other chunk shares, off it.
LEMMA ReleaseQuota ==
  ASSUME QInv, NEW token \in ChunkLease, Release(token)
  PROVE  QuotaExact'
<1>1. PICK live \in leases :
        /\ live.id = token.id
        /\ leases' = leases \ {live}
        /\ used' = [used EXCEPT ![live.model] = @ - live.bytes]
  BY DEF Release
<1>2. limits' = limits
  BY DEF Release
<1>3. /\ limits \in [Model -> Nat] /\ used \in [Model -> Int]
      /\ \A k \in Model : used[k] = Cardinality(LeasedUnits(k)) /\ used[k] <= limits[k]
  BY DEF QInv, IInv, TypeOK, AllocTypeOK, QuotaExact
<1> DEFINE m == live.model
<1>4. m \in Model /\ live.offset \in Nat /\ live.bytes \in Nat \ {0}
  BY DEF QInv, IInv, TypeOK, AllocTypeOK, ChunkLease
<1>5. \A k \in Model \ {m} : LeasedUnits(k)' = LeasedUnits(k)
  BY <1>1 DEF LeasedUnits, UnitsOf
<1>6. LeasedUnits(m) = LeasedUnits(m)' \cup UnitsOf(live)
  BY <1>1 DEF LeasedUnits, UnitsOf
<1>7. LeasedUnits(m)' \cap UnitsOf(live) = {}
  <2>1. \A l \in leases' : Apart(l, live)
    BY <1>1 DEF QInv, IInv, Disjoint
  <2>2. \A l \in leases : l.offset \in Nat /\ l.bytes \in Nat \ {0}
    BY DEF QInv, IInv, TypeOK, AllocTypeOK, ChunkLease
  <2>3. \A l \in leases' : UnitsOf(l) \cap UnitsOf(live) = {}
    BY <1>1, <1>4, <2>1, <2>2, ApartUnits
  <2>4. QED
    BY <2>3 DEF LeasedUnits, UnitsOf
<1>8. /\ Cardinality(LeasedUnits(m)) = Cardinality(LeasedUnits(m)') + live.bytes
      /\ Cardinality(LeasedUnits(m)') \in Nat
  <2> DEFINE rest == LeasedUnits(m)'
  <2>1. IsFiniteSet(LeasedUnits(m))
    BY <1>4, LeasedFinite DEF QInv, IInv
  <2>2. IsFiniteSet(UnitsOf(live)) /\ Cardinality(UnitsOf(live)) = live.bytes
    BY <1>4, ChunkSize
  <2>3. LeasedUnits(m) = rest \cup UnitsOf(live) /\ rest \cap UnitsOf(live) = {}
    BY <1>6, <1>7
  <2> HIDE DEF rest
  <2>4. IsFiniteSet(rest)
    BY <2>1, <2>3, FS_Subset
  <2>5. Cardinality(rest \cup UnitsOf(live))
          = Cardinality(rest) + Cardinality(UnitsOf(live))
            - Cardinality(rest \cap UnitsOf(live))
    BY <2>2, <2>4, FS_Union
  <2>6. Cardinality(rest \cap UnitsOf(live)) = 0
    BY <2>3, FS_EmptySet
  <2>7. Cardinality(rest) \in Nat
    BY <2>4, FS_CardinalityType
  <2>8. /\ Cardinality(LeasedUnits(m)) = Cardinality(rest) + live.bytes
        /\ Cardinality(rest) \in Nat
    BY <1>4, <2>2, <2>3, <2>5, <2>6, <2>7
  <2>9. QED
    BY <2>8 DEF rest
<1>9. QED
  BY <1>1, <1>2, <1>3, <1>4, <1>5, <1>8 DEF QuotaExact

\* An arena without leases, where nobody has used anything.
LEMMA EmptyQuota ==
  ASSUME leases = {}, limits = [m \in Model |-> 0], used = [m \in Model |-> 0]
  PROVE  QuotaExact
<1>1. \A m \in Model : LeasedUnits(m) = {}
  BY DEF LeasedUnits
<1>2. QED
  BY <1>1, FS_EmptySet DEF QuotaExact

\* Every step keeps the counter exact, given the tiling.
LEMMA NextQInv == QInv /\ [Next]_vars => QInv'
<1> SUFFICES ASSUME QInv, [Next]_vars PROVE QuotaExact'
  BY NextIInv DEF QInv
<1>1. IInv' /\ TypeOK' /\ Disjoint'
  BY NextIInv DEF QInv, IInv
<1>2. ASSUME NEW m \in Model, NEW limit \in HardLimit, ClientRegister(m, limit)
      PROVE  QuotaExact'
  <2>1. /\ leases' = leases /\ limits[m] = 0 /\ limit \in Nat
        /\ limits' = [limits EXCEPT ![m] = limit]
        /\ used' = [used EXCEPT ![m] = 0]
    BY <1>2, RequestAssumption DEF ClientRegister, RegisterModel
  <2>2. \A k \in Model : LeasedUnits(k)' = LeasedUnits(k)
    BY <2>1 DEF LeasedUnits, UnitsOf
  <2>3. /\ limits \in [Model -> Nat] /\ used \in [Model -> Int]
        /\ \A k \in Model : /\ used[k] = Cardinality(LeasedUnits(k))
                            /\ used[k] <= limits[k]
    BY DEF QInv, IInv, TypeOK, AllocTypeOK, QuotaExact
  <2>4. Cardinality(LeasedUnits(m)) \in Nat
    BY LeasedFinite, FS_CardinalityType DEF QInv, IInv
  <2>5. used[m] = 0
    BY <2>1, <2>3, <2>4
  <2>6. QED
    BY <2>1, <2>2, <2>3, <2>5 DEF QuotaExact
<1>3. ASSUME NEW m \in Model, NEW layout \in Layout, NEW bytes \in RequestSize,
             NEW alignment \in Alignment, ClientAcquire(m, layout, bytes, alignment)
      PROVE  QuotaExact'
  <2>1. bytes \in Nat \ {0} /\ alignment \in Nat \ {0}
    BY RequestAssumption
  <2>2. PICK i \in free : AcquireFrom(i, m, layout, bytes, alignment)
    BY <1>3 DEF ClientAcquire, Acquire
  <2>3. QED
    BY <1>1, <1>3, <2>1, <2>2, AcquireQuota DEF ClientAcquire, Acquire
<1>4. ASSUME NEW token \in held \cup returned,
             Release(token) \/ (~ Releasable(token) /\ UNCHANGED allocVars)
      PROVE  QuotaExact'
  <2>1. token \in ChunkLease
    BY DEF QInv, IInv, TypeOK, AllocTypeOK
  <2>2. CASE UNCHANGED allocVars
    BY <2>2 DEF QInv, QuotaExact, LeasedUnits, UnitsOf, allocVars
  <2>3. QED
    BY <1>4, <2>1, <2>2, ReleaseQuota
<1>5. ASSUME OwnerRestart PROVE QuotaExact'
  <2>1. /\ leases' = {} /\ limits' = [m \in Model |-> 0]
        /\ used' = [m \in Model |-> 0]
    BY <1>5 DEF OwnerRestart
  <2>2. \A m \in Model : LeasedUnits(m)' = {}
    BY <2>1 DEF LeasedUnits
  <2>3. QED
    BY <2>1, <2>2, FS_EmptySet DEF QuotaExact
<1>6. CASE UNCHANGED vars
  BY <1>6 DEF vars, QInv, QuotaExact, LeasedUnits, UnitsOf
<1>7. QED
  BY <1>2, <1>3, <1>4, <1>5, <1>6 DEF Next, ClientRelease, DuplicateRelease

-----------------------------------------------------------------------------
(* The theorems. *)

\* The tiling and the identities of leases and descriptors hold for ever.
THEOREM Invariance == Spec => []IInv
<1>1. QED
  BY InitIInv, NextIInv, PTL DEF Spec

\* Every variable keeps its type, for every arena, model set and request set.
THEOREM TypeCorrect == Spec => []TypeOK
<1>1. IInv => TypeOK
  BY DEF IInv
<1>2. QED
  BY <1>1, Invariance, PTL

\* No acquire, release, duplicate release or restart of the owner ever gives a
\* byte of the arena two owners, loses one, or leaves two free intervals that
\* touch.
THEOREM ArenaTiled == Spec => []Tiled
<1>1. IInv => Tiled
  BY DEF IInv, Tiled
<1>2. QED
  BY <1>1, Invariance, PTL

\* Nothing takes a live chunk of the current epoch from the client holding it.
THEOREM HolderKeeps == Spec => []HolderKeepsChunk
<1>1. IInv => HolderKeepsChunk
  BY DEF IInv
<1>2. QED
  BY <1>1, Invariance, PTL

\* The counter the quota is checked against is exactly the bytes the model
\* occupies, and stays within the hard limit it registered.
THEOREM QuotaIsExact == Spec => []QuotaExact
<1>1. Init => QInv
  BY InitIInv, EmptyQuota DEF Init, AllocInit, QInv
<1>2. QInv => QuotaExact
  BY DEF QInv
<1>3. QED
  BY <1>1, <1>2, NextQInv, PTL DEF Spec

-----------------------------------------------------------------------------
(* Refusals. *)

\* An aligned offset at or above an interval's start is at or above its
\* padded start.
LEMMA PaddedBelowAligned ==
  ASSUME NEW i \in Interval, NEW alignment \in Nat \ {0}, NEW offset \in Nat,
         offset % alignment = 0, i.offset <= offset
  PROVE  i.offset + Padding(i, alignment) <= offset
<1> DEFINE rem == i.offset % alignment
           q == i.offset \div alignment
           p == offset \div alignment
<1>1. i.offset \in Nat
  BY DEF Interval
<1>2. /\ rem \in Nat /\ rem < alignment /\ q \in Nat /\ p \in Nat
      /\ i.offset = (alignment * q) + rem /\ offset = alignment * p
  <2>1. alignment \in Nat /\ alignment > 0
    OBVIOUS
  <2>2. /\ rem \in Nat /\ rem < alignment /\ q \in Nat
        /\ i.offset = alignment * q + rem
    BY <1>1, <2>1, DivMod
  <2>3. p \in Nat /\ offset = alignment * p + (offset % alignment)
    BY <2>1, DivMod
  <2> HIDE DEF rem, q, p
  <2>4. alignment * p \in Nat
    BY <2>1, <2>3
  <2>5. QED
    BY <2>1, <2>2, <2>3, <2>4
<1>3. CASE rem = 0
  BY <1>1, <1>3 DEF Padding
<1>4. CASE rem # 0
  <2>1. Padding(i, alignment) = alignment - rem
    BY <1>4 DEF Padding
  <2> HIDE DEF rem, q, p
  <2>2. alignment * q < alignment * p
    BY <1>1, <1>2, <1>4
  <2>3. q < p
    BY <1>2, <2>2
  <2>4. alignment * (q + 1) <= alignment * p
    BY <1>2, <2>3
  <2>5. alignment * (q + 1) = (alignment * q) + alignment
    BY <1>2
  <2>6. QED
    BY <1>1, <1>2, <2>1, <2>4, <2>5
<1>5. QED
  BY <1>3, <1>4

\* A run of free units lies inside one free interval: the unit behind an
\* interval that ends inside the run would belong to one that touches it.
LEMMA RunInOneInterval ==
  ASSUME TypeOK, Disjoint, Coalesced,
         NEW offset \in Nat, NEW bytes \in Nat \ {0},
         \A u \in offset..(offset + bytes - 1) : \E i \in free : u \in UnitsOf(i)
  PROVE  \E i \in free : /\ i.offset <= offset
                         /\ offset + bytes <= i.offset + i.bytes
<1>1. \A i \in free : i.offset \in Nat /\ i.bytes \in Nat \ {0}
  BY DEF TypeOK, AllocTypeOK, Interval
<1>2. PICK i \in free : offset \in UnitsOf(i)
  OBVIOUS
<1>3. i.offset <= offset /\ offset < i.offset + i.bytes
  BY <1>1, <1>2 DEF UnitsOf
<1>4. ASSUME i.offset + i.bytes < offset + bytes
      PROVE  FALSE
  <2> DEFINE e == i.offset + i.bytes
  <2>1. e \in offset..(offset + bytes - 1) /\ e \in Nat
    BY <1>1, <1>3, <1>4
  <2>2. PICK j \in free : e \in UnitsOf(j)
    BY <2>1
  <2>3. j.offset <= e /\ e < j.offset + j.bytes
    BY <1>1, <2>1, <2>2 DEF UnitsOf
  <2>4. i # j /\ Apart(i, j)
    BY <1>1, <2>3 DEF Disjoint
  <2>5. j.offset = e
    BY <1>1, <2>3, <2>4 DEF Apart
  <2>6. QED
    BY <2>5 DEF Coalesced
<1>5. QED
  BY <1>1, <1>3, <1>4

\* No request is refused for space while an aligned free run of its size
\* exists: best fit over coalesced intervals finds one whenever there is one.
THEOREM RefusalsGenuine == Spec => []RefusalIsGenuine
<1>1. IInv => RefusalIsGenuine
  <2> SUFFICES ASSUME IInv, NEW bytes \in RequestSize, NEW alignment \in Alignment,
                      NEW offset \in Unit, offset % alignment = 0,
                      \A u \in offset..(offset + bytes - 1) :
                        \E i \in free : u \in UnitsOf(i)
               PROVE  \E i \in free : Fits(i, bytes, alignment)
    BY DEF RefusalIsGenuine
  <2>1. /\ bytes \in Nat \ {0} /\ alignment \in Nat \ {0} /\ offset \in Nat
    BY RequestAssumption DEF Unit
  <2>2. PICK i \in free : /\ i.offset <= offset
                          /\ offset + bytes <= i.offset + i.bytes
    BY <2>1, RunInOneInterval DEF IInv
  <2>3. i \in Interval /\ i.offset \in Nat /\ i.bytes \in Nat
    BY DEF IInv, TypeOK, AllocTypeOK, Interval
  <2>4. i.offset + Padding(i, alignment) <= offset
    BY <2>1, <2>2, <2>3, PaddedBelowAligned
  <2>5. Padding(i, alignment) \in Nat
    BY <2>1, <2>3, PaddingType
  <2>6. QED
    BY <2>1, <2>2, <2>3, <2>4, <2>5 DEF Fits
<1>2. QED
  BY <1>1, Invariance, PTL DEF IInv
=============================================================================
