----------------------------- MODULE ChunkArena -----------------------------
(***************************************************************************)
(* The chunk allocator as its owner process drives it                      *)
(* (run_shared_kv_owner): clients register, acquire and release chunks,    *)
(* keep the descriptors they were given and may send one again; the owner  *)
(* process may die and a new one start over an empty arena under a higher  *)
(* epoch, while clients still hold descriptors of the old one.             *)
(*                                                                         *)
(* The RPC itself (timeouts, lost replies) and the page groups that sit on *)
(* the chunks are in SharedKV; here a client call is one step.             *)
(***************************************************************************)
EXTENDS ChunkAllocator

CONSTANTS
  RequestSize,    \* the sizes clients ask for
  Alignment,      \* the alignments clients ask for
  HardLimit,      \* the limits clients register
  MaxGeneration,  \* bound: leases granted per epoch
  MaxEpoch        \* bound: incarnations of the owner

ASSUME RequestAssumption ==
  /\ RequestSize \subseteq Nat \ {0}
  /\ Alignment \subseteq Nat \ {0}
  /\ HardLimit \subseteq Nat \ {0}

VARIABLES
  held,       \* descriptors a client has and has not given back
  returned    \* descriptors a client gave back and may send once more

vars == <<epoch, free, leases, limits, used, nextGeneration, held, returned>>

Init == AllocInit /\ held = {} /\ returned = {}

ClientRegister(m, limit) ==
  RegisterModel(m, limit) /\ UNCHANGED <<held, returned>>

ClientAcquire(m, layout, bytes, alignment) ==
  /\ nextGeneration <= MaxGeneration
  /\ Acquire(m, layout, bytes, alignment)
  /\ held' = held \cup (leases' \ leases)
  /\ UNCHANGED returned

\* The descriptor is the client's own, live or of an earlier owner.  The owner
\* answers a stale one with an error; the client has given it up either way.
ClientRelease(token) ==
  /\ token \in held
  /\ \/ Release(token)
     \/ ~ Releasable(token) /\ UNCHANGED allocVars
  /\ held' = held \ {token}
  /\ returned' = returned \cup {token}

\* The same release arrives again.
DuplicateRelease(token) ==
  /\ token \in returned
  /\ \/ Release(token)
     \/ ~ Releasable(token) /\ UNCHANGED allocVars
  /\ returned' = returned \ {token}
  /\ UNCHANGED held

\* The owner dies and is started again: new allocation, new epoch, no model.
OwnerRestart ==
  /\ epoch < MaxEpoch
  /\ epoch' = epoch + 1
  /\ free' = {[offset |-> 0, bytes |-> Bytes]}
  /\ leases' = {}
  /\ limits' = [m \in Model |-> 0]
  /\ used' = [m \in Model |-> 0]
  /\ nextGeneration' = 1
  /\ UNCHANGED <<held, returned>>

Next ==
  \/ \E m \in Model, limit \in HardLimit : ClientRegister(m, limit)
  \/ \E m \in Model, layout \in Layout, bytes \in RequestSize,
        alignment \in Alignment : ClientAcquire(m, layout, bytes, alignment)
  \/ \E token \in held : ClientRelease(token)
  \/ \E token \in returned : DuplicateRelease(token)
  \/ OwnerRestart

Spec == Init /\ [][Next]_vars

-----------------------------------------------------------------------------
TypeOK ==
  /\ AllocTypeOK
  /\ held \subseteq ChunkLease
  /\ returned \subseteq ChunkLease

\* Free intervals and live leases tile the arena: no byte has two owners, none
\* is lost, and the free intervals are as long as they can be.  Each of the
\* three is needed for the next call to keep the other two.
Tiled == Disjoint /\ Covered /\ Coalesced

\* The counter acquire checks the quota against is the number of bytes the
\* model's live leases really occupy, and the hard limit bounds it.
QuotaExact ==
  \A m \in Model : /\ used[m] = Cardinality(LeasedUnits(m))
                   /\ used[m] <= limits[m]

\* A request is refused for space only when no aligned run of free bytes of
\* that length exists: best fit over coalesced intervals misses nothing.
RefusalIsGenuine ==
  \A bytes \in RequestSize, alignment \in Alignment :
    (\E offset \in Unit : /\ offset % alignment = 0
                          /\ offset + bytes <= Bytes
                          /\ \A u \in offset..(offset + bytes - 1) :
                               \E i \in free : u \in UnitsOf(i))
      => \E i \in free : Fits(i, bytes, alignment)

\* A descriptor of the current epoch that its client has not given back is
\* live: neither a duplicate release nor one from before a restart (whose ids
\* start again from 1) takes a chunk away from its holder.
HolderKeepsChunk == \A t \in held : t.epoch = epoch => t \in leases
=============================================================================
