--------------------------- MODULE SharedKV_proofs ---------------------------
(***************************************************************************)
(* Proofs about the shared arena and its workers, for any number of        *)
(* workers and sequences, any geometry, chunk targets and quotas.          *)
(*                                                                         *)
(* The inductive invariant says of the owner that its intervals and leases *)
(* tile the arena (AllocOK), and of every worker by itself where its group *)
(* call stands (Control), what its chunks are (Geometry), how they relate  *)
(* to its leases (Books), who has each of its pages (Pages) and what the   *)
(* GPU may still do to them (Quiet).  The parts take the values they are   *)
(* about as arguments: a step of one worker then leaves those of the       *)
(* others alone at sight, and the owner touches another worker's part only *)
(* through that worker's leases.                                           *)
(***************************************************************************)
EXTENDS SharedKV, SetLemmas, SequenceTheorems, TLAPS

-----------------------------------------------------------------------------
(* The owner's operations.  ChunkArena_proofs has the lemmas about them; the *)
(* clients of its arena are of no concern here.                              *)

Arena == INSTANCE ChunkArena_proofs WITH
           held <- {}, returned <- {}, RequestSize <- {1}, Alignment <- {1},
           HardLimit <- {1}, MaxGeneration <- 1, MaxEpoch <- 1

\* The assumptions of the instance.
LEMMA ArenaAssumptions == Bytes \in Nat \ {0} /\ {1} \subseteq Nat \ {0}
BY BytesAssumption

\* The instance says of the allocator what this module says.
LEMMA SameAllocOK == (Arena!AllocOK <=> AllocOK) /\ (Arena!AllocOK' <=> AllocOK')
<1>1. Arena!Interval = Interval /\ Arena!ChunkLease = ChunkLease /\ Arena!Unit = Unit
  BY DEF Arena!Interval, Interval, Arena!ChunkLease, ChunkLease, Arena!Unit, Unit
<1>2. /\ \A x, y : Arena!Apart(x, y) = Apart(x, y)
      /\ \A x : Arena!UnitsOf(x) = UnitsOf(x)
  BY DEF Arena!Apart, Apart, Arena!UnitsOf, UnitsOf
<1>3. Arena!AllocTypeOK = AllocTypeOK
  BY <1>1 DEF Arena!AllocTypeOK, AllocTypeOK
<1>4. Arena!Disjoint = Disjoint /\ Arena!Covered = Covered
  BY <1>1, <1>2 DEF Arena!Disjoint, Disjoint, Arena!Covered, Covered
<1>5. Arena!Coalesced = Coalesced /\ Arena!LeaseIdentity = LeaseIdentity
  BY DEF Arena!Coalesced, Coalesced, Arena!LeaseIdentity, LeaseIdentity
<1>6. Arena!AllocOK <=> AllocOK
  BY <1>3, <1>4, <1>5, Zenon DEF Arena!AllocOK, AllocOK
<1>7. QED
  BY <1>6, PTL

\* A grant of the arena here is a grant of the instance's allocator.
LEMMA SameAcquire ==
  ASSUME NEW m, NEW layout, NEW bytes, NEW alignment,
         Acquire(m, layout, bytes, alignment)
  PROVE  Arena!Acquire(m, layout, bytes, alignment)
<1>1. \A i : Arena!Padding(i, alignment) = Padding(i, alignment)
  BY Zenon DEF Arena!Padding, Padding
<1>2. \A i : Arena!Fits(i, bytes, alignment) <=> Fits(i, bytes, alignment)
  BY <1>1, Zenon DEF Arena!Fits, Fits
<1>3. \A i : Arena!BestFit(i, bytes, alignment) <=> BestFit(i, bytes, alignment)
  BY <1>2, Zenon DEF Arena!BestFit, BestFit
<1>4. /\ \A x, y : Arena!Between(x, y) = Between(x, y)
      /\ \A x : Arena!NewLease(m, layout, bytes, x) = NewLease(m, layout, bytes, x)
  BY Zenon DEF Arena!Between, Between, Arena!NewLease, NewLease
<1>5. ASSUME NEW i, AcquireFrom(i, m, layout, bytes, alignment)
      PROVE  Arena!AcquireFrom(i, m, layout, bytes, alignment)
  BY <1>1, <1>4, <1>5, Zenon DEF Arena!AcquireFrom, AcquireFrom
<1>6. Arena!ValidRequest(m, bytes, alignment) /\ Arena!WithinQuota(m, bytes)
  BY DEF Acquire, Arena!ValidRequest, ValidRequest, Arena!WithinQuota, WithinQuota
<1>7. QED
  BY <1>3, <1>5, <1>6, Zenon DEF Arena!Acquire, Acquire

\* A release here is a release of the instance's allocator.
LEMMA SameRelease ==
  ASSUME NEW token, Release(token)
  PROVE  Arena!Release(token)
<1>1. /\ \A x : Arena!EndsAt(x) = EndsAt(x)
      /\ \A x : Arena!StartsAt(x) = StartsAt(x)
  BY DEF Arena!EndsAt, EndsAt, Arena!StartsAt, StartsAt
<1>2. \A x, n : Arena!Merged(x, n) = Merged(x, n)
  BY Zenon DEF Arena!Merged, Merged, Arena!EndsAt, EndsAt, Arena!StartsAt, StartsAt
<1>3. \A live : Arena!FreeAfter(live) = FreeAfter(live)
  BY <1>1, <1>2, Zenon DEF Arena!FreeAfter, FreeAfter
<1>4. Arena!Releasable(token) = Releasable(token)
  BY DEF Arena!Releasable, Releasable, Arena!SameIdentity, SameIdentity
<1>5. QED
  BY <1>3, <1>4, Zenon DEF Arena!Release, Release

\* The allocator of a new owner.
LEMMA InitAllocOK == AllocInit => AllocOK
<1>1. Arena!AllocInit => Arena!AllocOK
  BY Arena!InitAllocOK, ArenaAssumptions
<1>2. Arena!AllocOK <=> AllocOK
  BY SameAllocOK
<1>3. Arena!AllocInit = AllocInit
  BY DEF AllocInit, Arena!AllocInit
<1>4. QED
  BY <1>1, <1>2, <1>3

\* A model registers: no lease changes.
LEMMA RegisterKeeps ==
  ASSUME AllocOK, NEW m \in Model, NEW limit \in Nat, RegisterModel(m, limit)
  PROVE  AllocOK' /\ UNCHANGED <<epoch, free, leases, nextGeneration>>
<1>1. Arena!AllocOK
  BY SameAllocOK
<1>2. Arena!RegisterModel(m, limit)
  BY DEF RegisterModel, Arena!RegisterModel
<1>3. Arena!AllocOK' /\ UNCHANGED <<epoch, free, leases, nextGeneration>>
  BY <1>1, <1>2, Arena!RegisterKeeps, ArenaAssumptions
<1>4. QED
  BY <1>3, SameAllocOK

\* A grant adds one lease, new to the owner, of the size asked for and aligned.
LEMMA AcquireKeeps ==
  ASSUME AllocOK, NEW m \in Model, NEW layout \in Layout, NEW bytes \in Nat \ {0},
         NEW alignment \in Nat \ {0}, Acquire(m, layout, bytes, alignment)
  PROVE  /\ AllocOK'
         /\ epoch' = epoch /\ nextGeneration' = nextGeneration + 1
         /\ \E lease \in ChunkLease :
              /\ leases' = leases \cup {lease} /\ lease \notin leases
              /\ lease.epoch = epoch
              /\ lease.id = nextGeneration /\ lease.generation = nextGeneration
              /\ lease.model = m /\ lease.layout = layout /\ lease.bytes = bytes
              /\ IsMultiple(lease.offset, alignment)
<1>1. Arena!AllocOK
  BY SameAllocOK
<1>2. Arena!Acquire(m, layout, bytes, alignment)
  BY SameAcquire
<1>3. /\ Arena!AllocOK'
      /\ epoch' = epoch /\ nextGeneration' = nextGeneration + 1
      /\ \E lease \in Arena!ChunkLease :
           /\ leases' = leases \cup {lease} /\ lease \notin leases
           /\ lease.epoch = epoch
           /\ lease.id = nextGeneration /\ lease.generation = nextGeneration
           /\ lease.model = m /\ lease.layout = layout /\ lease.bytes = bytes
           /\ Arena!IsMultiple(lease.offset, alignment)
  BY <1>1, <1>2, Arena!AcquireKeeps, ArenaAssumptions
<1>4. /\ Arena!ChunkLease = ChunkLease
      /\ \A n : Arena!IsMultiple(n, alignment) = IsMultiple(n, alignment)
  BY DEF Arena!ChunkLease, ChunkLease, Arena!IsMultiple, IsMultiple
<1>5. QED
  BY <1>3, <1>4, SameAllocOK

\* A release takes away the lease it names and no other.
LEMMA ReleaseKeeps ==
  ASSUME AllocOK, NEW token \in ChunkLease, Release(token)
  PROVE  /\ AllocOK' /\ token \in leases /\ leases' = leases \ {token}
         /\ UNCHANGED <<epoch, nextGeneration>>
<1>1. Arena!AllocOK
  BY SameAllocOK
<1>2. Arena!Release(token) /\ token \in Arena!ChunkLease
  BY SameRelease DEF Arena!ChunkLease, ChunkLease
<1>3. /\ Arena!AllocOK' /\ token \in leases /\ leases' = leases \ {token}
      /\ UNCHANGED <<epoch, nextGeneration>>
  BY <1>1, <1>2, Arena!ReleaseKeeps, ArenaAssumptions
<1>4. QED
  BY <1>3, SameAllocOK

\* Nothing the owner knows changes.
LEMMA AllocStutters ==
  ASSUME AllocOK, UNCHANGED allocVars
  PROVE  AllocOK'
BY DEF AllocOK, AllocTypeOK, Disjoint, Covered, Coalesced, LeaseIdentity,
       allocVars, Apart, Unit, UnitsOf
-----------------------------------------------------------------------------
(* Types. *)

PageRecord(w) ==
  [active : SUBSET Layer(w), reserved : SUBSET Layer(w), retired : BOOLEAN]

GroupTyped(w, g) ==
  /\ DOMAIN g = {"chunks", "pages", "freePages", "retiring", "pending", "leasedBytes",
                 "failed"}
  /\ g.chunks \subseteq ChunkLease /\ IsFiniteSet(g.chunks)
  /\ \A c \in g.chunks : c.model = w
  /\ DOMAIN g.pages \subseteq Nat
  /\ \A id \in DOMAIN g.pages : g.pages[id] \in PageRecord(w)
  /\ g.freePages \subseteq DOMAIN g.pages
  /\ g.retiring \in Seq(Nat)
  /\ g.pending \in [Layer(w) \ {0} -> Seq(Nat)]
  /\ g.leasedBytes \in Nat /\ g.failed \in BOOLEAN

AppendJob == [op : {"append"}, seq : Request, want : Nat, got : Seq(Nat)]
FreeJob(w) == [op : {"free"}, left : [Layer(w) -> Seq(Nat)]]
JobTyped(w, j) == j = NoJob \/ j \in AppendJob \/ j \in FreeJob(w)

TableTyped(w, t) == t \in [Request -> [Layer(w) -> Seq(Nat)]]

\* A lease a worker names in a message is one of its own.
OwnLease(w) == {l \in ChunkLease : l.model = w}
Ask(w) == [state : {"acquire"}, bytes : Nat] \cup [state : {"release"}, lease : OwnLease(w)]
CallTyped(w, c) ==
  \/ c = None
  \/ c \in [state : {"rejected"}]
  \/ c \in [state : {"acquire", "refused"}, bytes : Nat]
  \/ c \in [state : {"release", "released", "granted"}, lease : OwnLease(w)]

Entry == [kernel : SUBSET Nat] \cup [fence : Nat]

Typed(w, g, j, t, s, c, o) ==
  /\ GroupTyped(w, g) /\ JobTyped(w, j) /\ TableTyped(w, t)
  /\ s \in Seq(Entry)
  /\ CallTyped(w, c)
  /\ o = None \/ o \in Ask(w)

-----------------------------------------------------------------------------
(* Control: where a worker is, and what it is doing there.                   *)

PC == {"new", "idle", "collect", "release", "reserve", "acquire", "fill", "failing",
       "stop", "farewell", "gone"}

\* No page is reserved.
NoPending(w) == [l \in Layer(w) \ {0} |-> <<>>]

\* The worker has a group whose pages it may use.
Live(p) == p \in PC \ {"new", "stop", "farewell", "gone"}

Control(w, g, p, r, j, t, s, lo, c, o, L) ==
  /\ p \in PC /\ r \in {"idle", "reserve"} /\ lo \in BOOLEAN
  /\ p \in {"reserve", "acquire", "fill"} => j.op = "append"
  /\ p \in {"collect", "release", "reserve", "acquire"} => (r = "reserve" <=> j.op = "append")
  /\ p = "idle" => j.op # "append"
  /\ ~ Live(p) \/ p = "failing" => j = NoJob
  /\ j.op = "append" => IF p = "fill" THEN Len(j.got) = j.want
                                      ELSE Len(j.got) < j.want
  /\ p \notin {"acquire", "release", "farewell"} => c = None
  /\ p = "acquire" => c.state \in {"acquire", "granted", "refused", "rejected"}
  /\ p \in {"release", "farewell"} => c.state \in {"release", "released", "rejected"}
  /\ Live(p) /\ lo => p = "failing" \/ g.failed
  /\ Live(p) /\ g.failed => p \in {"idle", "failing"} /\ j = NoJob /\ lo
  /\ Live(p) /\ p # "failing" /\ ~ g.failed /\ j = NoJob => g.pending = NoPending(w)
  /\ o # None => lo \/ p = "gone"
  /\ ~ Live(p) => s = <<>> /\ \A q \in Request : t[q] = EmptyTable(w)
  /\ p = "new" => g = NewGroup(w) /\ ~ lo /\ L = {}

-----------------------------------------------------------------------------
(* Chunks. *)

\* A chunk is a whole number of pages at a multiple of the page size.
WholePages(w, c) ==
  IsMultiple(c.offset, PageBytes(w)) /\ IsMultiple(c.bytes, PageBytes(w))

\* The bytes of some chunks.
BytesIn(S) == SumFunctionOnSet([c \in S |-> c.bytes], S)

Geometry(w, g) ==
  /\ \A c \in g.chunks : WholePages(w, c)
  /\ \A c, d \in g.chunks : c # d => Apart(c, d)
  /\ DOMAIN g.pages = UNION {PageIds(w, c) : c \in g.chunks}
  /\ g.leasedBytes = BytesIn(g.chunks)
  /\ g.leasedBytes <= Limit[w]

\* What the group believes and what the owner has differ by the exchange under
\* way; a chunk the owner no longer has is one whose pages are all free.
Books(w, g, lo, c, o, L) ==
  /\ ~ lo => /\ \A k \in g.chunks \ L : c = [state |-> "released", lease |-> k]
             /\ \A k \in L \ g.chunks : c = [state |-> "granted", lease |-> k]
  /\ \A k \in g.chunks : k \in L \/ PageIds(w, k) \subseteq g.freePages
  /\ c.state = "released" => c.lease \notin L
  /\ c.state \in {"release", "released"} =>
       c.lease \in g.chunks /\ PageIds(w, c.lease) \subseteq g.freePages
  /\ c.state \in {"acquire", "refused"} =>
       /\ c.bytes > 0 /\ IsMultiple(c.bytes, PageBytes(w))
       /\ g.leasedBytes + c.bytes <= Limit[w]
  /\ c.state = "granted" =>
       /\ c.lease \in L /\ c.lease \notin g.chunks /\ WholePages(w, c.lease)
       /\ g.leasedBytes + c.lease.bytes <= Limit[w]
  /\ o.state = "release" => PageIds(w, o.lease) \subseteq g.freePages

-----------------------------------------------------------------------------
(* Pages. *)

TableIds(t) == UNION {Range(t[q][0]) : q \in Request}
LeftIds(w, left) == UNION {Range(left[l]) : l \in Layer(w)}
SamePending(w, queue) == [l \in Layer(w) \ {0} |-> queue]

Distinct(q) == \A a, b \in DOMAIN q : q[a] = q[b] => a = b

\* A page all layers of a sequence have; one only layer 0 has taken so far.
InUse(w) == [active |-> Layer(w), reserved |-> {}, retired |-> FALSE]
Reserved(w) == [active |-> Layer(w), reserved |-> Layer(w) \ {0}, retired |-> FALSE]

\* Pages of the block tables.
TablesOK(w, g, t) ==
  /\ \A q \in Request : \A l \in Layer(w) : t[q][l] = t[q][0]
  /\ \A q \in Request : Distinct(t[q][0])
  /\ \A q, z \in Request : q # z => Range(t[q][0]) \cap Range(t[z][0]) = {}
  /\ \A id \in TableIds(t) : /\ id \in DOMAIN g.pages /\ id \notin g.freePages
                             /\ g.pages[id] = InUse(w)

\* Pages of retiring: nobody's, and not free yet.
RetiringOK(g) ==
  /\ Distinct(g.retiring)
  /\ \A id \in Range(g.retiring) : /\ id \in DOMAIN g.pages /\ id \notin g.freePages
                                   /\ g.pages[id].retired

\* Pages of an append: every upper layer has them queued in the same order.
AppendOK(w, g, t, got) ==
  /\ Distinct(got) /\ Range(got) \cap TableIds(t) = {}
  /\ \A id \in Range(got) : /\ id \in DOMAIN g.pages /\ id \notin g.freePages
                            /\ g.pages[id] = Reserved(w)
  /\ g.pending = SamePending(w, got)

\* Pages being given up: each layer is active on those it still has, or all of
\* them are reserved by the upper layers and only layer 0 has them.
LayersHave(w, g, left) ==
  /\ \A id \in LeftIds(w, left) :
       /\ g.pages[id].active = {l \in Layer(w) : id \in Range(left[l])}
       /\ g.pages[id].reserved = {}
  /\ g.pending = NoPending(w)
FirstHas(w, g, left) ==
  /\ \A l \in Layer(w) \ {0} : left[l] = <<>>
  /\ \A id \in Range(left[0]) : g.pages[id] = Reserved(w)
  /\ g.pending = SamePending(w, left[0])

\* Either a sequence's pages or those of an append that failed.
FreeOK(w, g, t, left) ==
  /\ \A l \in Layer(w) : Distinct(left[l])
  /\ LeftIds(w, left) \cap TableIds(t) = {}
  /\ \A id \in LeftIds(w, left) : /\ id \in DOMAIN g.pages /\ id \notin g.freePages
                                  /\ ~ g.pages[id].retired
  /\ LayersHave(w, g, left) \/ FirstHas(w, g, left)

Pages(w, g, j, t) ==
  /\ TablesOK(w, g, t)
  /\ RetiringOK(g)
  /\ j.op = "append" => AppendOK(w, g, t, j.got)
  /\ j.op = "free" => FreeOK(w, g, t, j.left)

\* A submitted kernel works on pages that are not free, and if one of them is
\* retiring, the page's fence is behind the kernel.
Quiet(g, s) ==
  \A k \in DOMAIN s : IsKernel(s[k]) =>
    /\ s[k].kernel # {}
    /\ \A id \in s[k].kernel :
         /\ id \in DOMAIN g.pages /\ id \notin g.freePages
         /\ id \in Range(g.retiring) =>
              \E m \in DOMAIN s : k < m /\ s[m] = [fence |-> id]

-----------------------------------------------------------------------------
WorkerOK(w, g, p, r, j, t, s, lo, c, o, L) ==
  /\ Typed(w, g, j, t, s, c, o)
  /\ Control(w, g, p, r, j, t, s, lo, c, o, L)
  /\ Live(p) => Geometry(w, g) /\ Books(w, g, lo, c, o, L) /\ Pages(w, g, j, t)
  /\ Quiet(g, s)

WorkerInv(w) ==
  WorkerOK(w, group[w], pc[w], resume[w], job[w], table[w], stream[w], lost[w],
           call[w], orphan[w], LeasesOf(w))

Domains ==
  /\ DOMAIN group = Worker /\ DOMAIN pc = Worker /\ DOMAIN resume = Worker
  /\ DOMAIN job = Worker /\ DOMAIN table = Worker /\ DOMAIN stream = Worker
  /\ DOMAIN lost = Worker /\ DOMAIN call = Worker /\ DOMAIN orphan = Worker

OwnerInv == ownerUp \in BOOLEAN /\ (~ ownerUp => leases = {})

IInv ==
  /\ AllocOK
  /\ OwnerInv
  /\ Domains
  /\ \A w \in Worker : WorkerInv(w)

-----------------------------------------------------------------------------
(* Geometry: pages, chunks and the units they are made of. *)

\* A product divided by one factor is the other.
LEMMA MulDiv ==
  ASSUME NEW a \in Nat, NEW b \in Nat \ {0}
  PROVE  (a * b) \div b = a
<1> DEFINE n == a * b
           q == n \div b
           rem == n % b
<1>1. n \in Nat
  OBVIOUS
<1> HIDE DEF n
<1>2. q \in Nat /\ rem \in Nat /\ rem < b /\ n = b * q + rem
  BY <1>1, DivMod
<1> HIDE DEF q, rem
<1>3. a * b = b * q + rem
  BY <1>2 DEF n
<1>4. CASE a > q
  <2>1. a >= q + 1
    BY <1>4, <1>2
  <2>2. a * b >= (q + 1) * b
    BY <2>1, <1>2
  <2>3. QED
    BY <2>2, <1>2, <1>3
<1>5. CASE a < q
  <2>1. a + 1 <= q
    BY <1>5, <1>2
  <2>2. (a + 1) * b <= q * b
    BY <2>1, <1>2
  <2>3. QED
    BY <2>2, <1>2, <1>3
<1>6. QED
  BY <1>2, <1>4, <1>5 DEF q, n

\* A page has a positive size.
LEMMA PageBytesPositive ==
  ASSUME NEW w \in Worker
  PROVE  /\ PageBytes(w) \in Nat \ {0} /\ Half[w] \in Nat \ {0}
         /\ Layers[w] \in Nat \ {0} /\ Limit[w] \in Nat /\ Target[w] \in Nat
<1>1. /\ Half[w] \in Nat \ {0} /\ Layers[w] \in Nat \ {0}
      /\ Limit[w] \in Nat /\ Target[w] \in Nat
  BY GeometryAssumption
<1>2. QED
  BY <1>1 DEF PageBytes

\* Layer 0 exists.
LEMMA LayerZero ==
  ASSUME NEW w \in Worker
  PROVE  0 \in Layer(w) /\ Layer(w) \subseteq Nat
BY PageBytesPositive DEF Layer

\* A chunk request is a positive whole number of pages.
LEMMA ChunkBytesWhole ==
  ASSUME NEW w \in Worker
  PROVE  /\ ChunkBytes(w) \in Nat \ {0} /\ IsMultiple(ChunkBytes(w), PageBytes(w))
         /\ IsMultiple(PageBytes(w), PageBytes(w))
<1> DEFINE pb == PageBytes(w)
           target == IF Target[w] > pb THEN Target[w] ELSE pb
           n == target + pb - 1
           q == n \div pb
           rem == n % pb
<1>1. pb \in Nat \ {0} /\ target \in Nat /\ target >= pb
  BY PageBytesPositive
<1>2. ChunkBytes(w) = q * pb
  BY DEF ChunkBytes
<1> HIDE DEF pb, target
<1>3. n \in Nat /\ n >= pb
  BY <1>1
<1> HIDE DEF n
<1>4. q \in Nat /\ rem \in Nat /\ rem < pb /\ n = pb * q + rem
  BY <1>1, <1>3, DivMod
<1> HIDE DEF q, rem
<1>5. q # 0
  BY <1>1, <1>3, <1>4
<1>6. q * pb \in Nat \ {0}
  BY <1>1, <1>4, <1>5
<1>7. IsMultiple(q * pb, pb)
  BY <1>4 DEF IsMultiple
<1>8. pb = 1 * pb
  BY <1>1
<1>9. IsMultiple(pb, pb)
  BY <1>8 DEF IsMultiple
<1>10. QED
  BY <1>2, <1>6, <1>7, <1>9 DEF pb

\* The ids of a chunk of n pages that starts at the q-th page.
LEMMA ChunkPages ==
  ASSUME NEW w \in Worker, NEW c \in ChunkLease, WholePages(w, c)
  PROVE  \E q \in Nat, n \in Nat \ {0} :
           /\ c.offset = q * PageBytes(w) /\ c.bytes = n * PageBytes(w)
           /\ c.bytes \div PageBytes(w) = n
           /\ \A k \in 0..(n - 1) :
                ((c.offset + k * PageBytes(w)) \div Half[w]) * Half[w]
                  = (q + k) * PageBytes(w)
           /\ \A k \in 0..(n - 1) : (c.offset + k * PageBytes(w)) \div Half[w] \in Nat
<1> DEFINE pb == PageBytes(w)
           h == Half[w]
           m == 2 * Layers[w]
<1>1. pb \in Nat \ {0} /\ h \in Nat \ {0} /\ m \in Nat
  BY PageBytesPositive
<1>2. pb = m * h
  BY PageBytesPositive DEF PageBytes
<1>3. PICK q \in Nat : c.offset = q * pb
  BY DEF WholePages, IsMultiple
<1>4. PICK n \in Nat : c.bytes = n * pb
  BY DEF WholePages, IsMultiple
<1>5. c.bytes \in Nat \ {0} /\ c.offset \in Nat
  BY DEF ChunkLease
<1> HIDE DEF pb, h, m
<1>6. n \in Nat \ {0}
  BY <1>1, <1>4, <1>5
<1>7. c.bytes \div pb = n
  BY <1>1, <1>4, MulDiv
<1>8. ASSUME NEW k \in 0..(n - 1)
      PROVE  /\ (c.offset + k * pb) \div h \in Nat
             /\ ((c.offset + k * pb) \div h) * h = (q + k) * pb
  <2> DEFINE x == q + k
  <2>1. x \in Nat /\ k \in Nat
    BY <1>6, <1>8
  <2>2. c.offset + k * pb = x * pb
    BY <2>1, <1>1, <1>3
  <2> HIDE DEF x
  <2>3. x * pb = (x * m) * h /\ x * m \in Nat
    BY <2>1, <1>1, <1>2
  <2>4. ((x * m) * h) \div h = x * m
    BY <2>3, <1>1, MulDiv
  <2>5. QED
    BY <2>2, <2>3, <2>4 DEF x
<1>9. QED
  BY <1>3, <1>4, <1>6, <1>7, <1>8 DEF pb, h

\* A page lies in its chunk, with all its units.
LEMMA PageInChunk ==
  ASSUME NEW w \in Worker, NEW c \in ChunkLease, WholePages(w, c),
         NEW id \in PageIds(w, c)
  PROVE  /\ id \in Nat
         /\ id * Half[w] \in UnitsOf(c)
         /\ PageUnits(w, id) \subseteq UnitsOf(c)
<1> DEFINE pb == PageBytes(w)
           h == Half[w]
<1>1. PICK q \in Nat, n \in Nat \ {0} :
        /\ c.offset = q * pb /\ c.bytes = n * pb /\ c.bytes \div pb = n
        /\ \A k \in 0..(n - 1) : ((c.offset + k * pb) \div h) * h = (q + k) * pb
        /\ \A k \in 0..(n - 1) : (c.offset + k * pb) \div h \in Nat
  BY ChunkPages
<1>2. pb \in Nat \ {0} /\ h \in Nat \ {0}
  BY PageBytesPositive
<1>3. PICK k \in 0..(n - 1) : id = (c.offset + k * pb) \div h
  BY <1>1 DEF PageIds
<1>4. id \in Nat /\ id * h = (q + k) * pb
  BY <1>1, <1>3
<1>5. PageUnits(w, id) = (id * h) .. (id * h + pb - 1)
  BY DEF PageUnits
<1>6. UnitsOf(c) = c.offset .. (c.offset + c.bytes - 1)
  BY DEF UnitsOf
<1> HIDE DEF pb, h
<1>7. /\ id * h \in Nat /\ q * pb <= id * h
      /\ id * h + pb <= q * pb + n * pb
  <2>1. k \in Nat /\ k + 1 <= n
    BY <1>3
  <2>2. (q + k) * pb = q * pb + k * pb /\ q * pb \in Nat /\ k * pb \in Nat
    BY <2>1, <1>2
  <2>3. (k + 1) * pb <= n * pb /\ (k + 1) * pb = k * pb + pb /\ n * pb \in Nat
    BY <2>1, <1>2
  <2>4. QED
    BY <2>2, <2>3, <1>4, <1>2
<1>8. q * pb \in Nat /\ n * pb \in Nat
  BY <1>2
<1>9. id * h \in UnitsOf(c)
  BY <1>1, <1>2, <1>6, <1>7, <1>8
<1>10. PageUnits(w, id) \subseteq UnitsOf(c)
  BY <1>1, <1>2, <1>5, <1>6, <1>7, <1>8
<1>11. QED
  BY <1>4, <1>9, <1>10 DEF h

\* Chunks that do not overlap share no page.
LEMMA ApartPages ==
  ASSUME NEW w \in Worker, NEW c \in ChunkLease, WholePages(w, c),
         NEW d \in ChunkLease, WholePages(w, d), Apart(c, d)
  PROVE  PageIds(w, c) \cap PageIds(w, d) = {}
<1> SUFFICES ASSUME NEW id \in PageIds(w, c), id \in PageIds(w, d) PROVE FALSE
  OBVIOUS
<1>1. id * Half[w] \in UnitsOf(c) /\ id * Half[w] \in UnitsOf(d)
  BY PageInChunk
<1>2. /\ c.offset \in Nat /\ c.bytes \in Nat /\ d.offset \in Nat /\ d.bytes \in Nat
  BY DEF ChunkLease
<1>3. QED
  BY <1>1, <1>2 DEF UnitsOf, Apart

\* The first page of a chunk is one of its pages.
LEMMA FirstPage ==
  ASSUME NEW w \in Worker, NEW c \in ChunkLease, WholePages(w, c)
  PROVE  c.offset \div Half[w] \in PageIds(w, c)
<1>1. PICK n \in Nat \ {0} : c.bytes \div PageBytes(w) = n
  BY ChunkPages
<1>2. 0 \in 0..(c.bytes \div PageBytes(w) - 1)
  BY <1>1
<1>3. c.offset + 0 * PageBytes(w) = c.offset
  BY PageBytesPositive DEF ChunkLease
<1>4. QED
  BY <1>2, <1>3 DEF PageIds

-----------------------------------------------------------------------------
(* Queues of page ids. *)

\* The empty queue.
LEMMA EmptyQueue == Range(<<>>) = {} /\ Distinct(<<>>) /\ <<>> \in Seq(Nat)
BY DEF Range, Distinct

\* What a queue holds is a natural number.
LEMMA RangeNat ==
  ASSUME NEW q \in Seq(Nat)
  PROVE  Range(q) \subseteq Nat /\ (q # <<>> => Range(q) # {})
<1>1. DOMAIN q = 1..Len(q) /\ Len(q) \in Nat /\ \A k \in 1..Len(q) : q[k] \in Nat
  OBVIOUS
<1>2. q # <<>> => 1 \in 1..Len(q)
  BY <1>1
<1>3. QED
  BY <1>1, <1>2 DEF Range

\* The front leaves a queue.
LEMMA TailQueue ==
  ASSUME NEW q \in Seq(Nat), q # <<>>, Distinct(q)
  PROVE  /\ Head(q) \in Range(q) /\ Head(q) \in Nat
         /\ Tail(q) \in Seq(Nat) /\ Distinct(Tail(q))
         /\ Range(Tail(q)) = Range(q) \ {Head(q)}
         /\ Len(Tail(q)) = Len(q) - 1
<1>1. /\ DOMAIN q = 1..Len(q) /\ Len(q) \in Nat /\ Len(q) > 0
      /\ \A k \in 1..Len(q) : q[k] \in Nat
  OBVIOUS
<1>2. /\ Tail(q) \in Seq(Nat) /\ Len(Tail(q)) = Len(q) - 1
      /\ \A k \in 1..(Len(q) - 1) : Tail(q)[k] = q[k + 1]
  OBVIOUS
<1>3. DOMAIN Tail(q) = 1..(Len(q) - 1)
  BY <1>2
<1>4. Head(q) = q[1]
  OBVIOUS
<1>5. Distinct(Tail(q))
  <2>1. ASSUME NEW a \in 1..(Len(q) - 1), NEW b \in 1..(Len(q) - 1),
               Tail(q)[a] = Tail(q)[b]
        PROVE  a = b
    <3>1. q[a + 1] = q[b + 1] /\ a + 1 \in DOMAIN q /\ b + 1 \in DOMAIN q
      BY <1>1, <1>2, <2>1
    <3>2. a + 1 = b + 1
      BY <3>1 DEF Distinct
    <3>3. QED
      BY <3>2
  <2>2. QED
    BY <2>1, <1>3 DEF Distinct
<1>6. Range(Tail(q)) = Range(q) \ {Head(q)}
  <2>1. ASSUME NEW x \in Range(Tail(q)) PROVE x \in Range(q) /\ x # Head(q)
    <3>1. PICK a \in 1..(Len(q) - 1) : x = Tail(q)[a]
      BY <1>3, <2>1 DEF Range
    <3>2. x = q[a + 1] /\ a + 1 \in DOMAIN q /\ a + 1 # 1 /\ 1 \in DOMAIN q
      BY <1>1, <1>2, <3>1
    <3>3. QED
      BY <3>2, <1>4 DEF Range, Distinct
  <2>2. ASSUME NEW x \in Range(q), x # Head(q) PROVE x \in Range(Tail(q))
    <3>1. PICK a \in DOMAIN q : x = q[a]
      BY <2>2 DEF Range
    <3>2. a \in 2..Len(q)
      BY <1>1, <1>4, <2>2, <3>1
    <3>3. a - 1 \in 1..(Len(q) - 1) /\ Tail(q)[a - 1] = x
      BY <1>1, <1>2, <3>1, <3>2
    <3>4. QED
      BY <3>3, <1>3 DEF Range
  <2>3. QED
    BY <2>1, <2>2
<1>7. 1 \in DOMAIN q /\ q[1] \in Nat
  BY <1>1
<1>8. Head(q) \in Range(q) /\ Head(q) \in Nat
  BY <1>4, <1>7 DEF Range
<1>9. QED
  BY <1>2, <1>5, <1>6, <1>8

\* An id joins the back of a queue.
LEMMA AppendQueue ==
  ASSUME NEW q \in Seq(Nat), NEW x \in Nat
  PROVE  /\ Append(q, x) \in Seq(Nat) /\ Len(Append(q, x)) = Len(q) + 1
         /\ Range(Append(q, x)) = Range(q) \cup {x}
         /\ Distinct(q) /\ x \notin Range(q) => Distinct(Append(q, x))
<1> DEFINE a == Append(q, x)
           n == Len(q)
<1>1. /\ a \in Seq(Nat) /\ Len(a) = n + 1 /\ a[n + 1] = x
      /\ \A k \in 1..n : a[k] = q[k]
      /\ DOMAIN q = 1..n /\ n \in Nat
  OBVIOUS
<1>2. DOMAIN a = 1..(n + 1)
  BY <1>1
<1> HIDE DEF a, n
<1>3. Range(a) = Range(q) \cup {x}
  <2>1. n + 1 \in DOMAIN a /\ \A k \in DOMAIN q : k \in DOMAIN a
    BY <1>1, <1>2
  <2>2. \A k \in DOMAIN a : k \in DOMAIN q \/ k = n + 1
    BY <1>1, <1>2
  <2>3. QED
    BY <2>1, <2>2, <1>1 DEF Range
<1>4. ASSUME Distinct(q), x \notin Range(q) PROVE Distinct(a)
  <2>1. \A k \in 1..n : a[k] # x
    BY <1>1, <1>4 DEF Range
  <2>2. \A k \in DOMAIN a : k \in 1..n \/ k = n + 1
    BY <1>1, <1>2
  <2>3. \A k, m \in 1..n : a[k] = a[m] => k = m
    BY <1>1, <1>4 DEF Distinct
  <2>4. QED
    BY <2>1, <2>2, <2>3, <1>1 DEF Distinct
<1>5. QED
  BY <1>1, <1>3, <1>4 DEF a, n

\* One queue behind another.
LEMMA ConcatQueue ==
  ASSUME NEW q \in Seq(Nat), NEW z \in Seq(Nat)
  PROVE  /\ q \o z \in Seq(Nat)
         /\ Range(q \o z) = Range(q) \cup Range(z)
         /\ Distinct(q) /\ Distinct(z) /\ Range(q) \cap Range(z) = {} => Distinct(q \o z)
<1> DEFINE c == q \o z
           n == Len(q)
           m == Len(z)
<1>1. /\ c \in Seq(Nat) /\ Len(c) = n + m
      /\ \A k \in 1..n : c[k] = q[k]
      /\ \A k \in (n + 1)..(n + m) : c[k] = z[k - n]
      /\ DOMAIN q = 1..n /\ DOMAIN z = 1..m /\ n \in Nat /\ m \in Nat
  OBVIOUS
<1>2. DOMAIN c = 1..(n + m)
  BY <1>1
<1> HIDE DEF c, n, m
<1>3. \A k \in DOMAIN c : \/ k \in DOMAIN q /\ c[k] = q[k]
                          \/ k - n \in DOMAIN z /\ c[k] = z[k - n] /\ k > n
  BY <1>1, <1>2
<1>4. \A k \in DOMAIN q : k \in DOMAIN c /\ c[k] = q[k]
  BY <1>1, <1>2
<1>5. \A k \in DOMAIN z : n + k \in DOMAIN c /\ c[n + k] = z[k]
  <2>1. ASSUME NEW k \in DOMAIN z PROVE n + k \in DOMAIN c /\ c[n + k] = z[k]
    <3>1. n + k \in (n + 1)..(n + m) /\ (n + k) - n = k
      BY <1>1
    <3>2. QED
      BY <3>1, <1>1, <1>2
  <2>2. QED
    BY <2>1
<1>6. Range(c) = Range(q) \cup Range(z)
  BY <1>3, <1>4, <1>5 DEF Range
<1>7. ASSUME Distinct(q), Distinct(z), Range(q) \cap Range(z) = {}
      PROVE  Distinct(c)
  <2>1. ASSUME NEW k \in DOMAIN c, NEW i \in DOMAIN c, c[k] = c[i] PROVE k = i
    <3>1. \A a \in DOMAIN q, b \in DOMAIN z : q[a] # z[b]
      BY <1>7 DEF Range
    <3>2. CASE k \in DOMAIN q /\ c[k] = q[k]
      BY <3>1, <3>2, <2>1, <1>3, <1>7 DEF Distinct
    <3>3. CASE k - n \in DOMAIN z /\ c[k] = z[k - n] /\ k > n
      <4>1. i - n \in DOMAIN z /\ c[i] = z[i - n]
        BY <3>1, <3>3, <2>1, <1>3
      <4>2. k - n = i - n
        BY <4>1, <3>3, <2>1, <1>7 DEF Distinct
      <4>3. k \in Int /\ i \in Int
        BY <1>1, <1>2
      <4>4. QED
        BY <4>2, <4>3, <1>1
    <3>4. QED
      BY <3>2, <3>3, <1>3
  <2>2. QED
    BY <2>1 DEF Distinct
<1>8. QED
  BY <1>1, <1>6, <1>7 DEF c

\* Rolling back the reservation of the front page.
LEMMA RemoveFront ==
  ASSUME NEW q \in Seq(Nat), q # <<>>
  PROVE  RemoveFirst(q, Head(q)) = Tail(q)
<1> DEFINE I == {k \in 1..Len(q) : q[k] = Head(q)}
<1>1. 1 \in I /\ \A k \in I : 1 <= k
  OBVIOUS
<1>2. Min(I) = 1
  <2>1. I \subseteq Nat
    OBVIOUS
  <2> HIDE DEF I
  <2>2. \A x \in I : (\A y \in I : x <= y) => x = 1
    BY <1>1, <2>1
  <2>3. QED
    BY <1>1, <2>2 DEF Min
<1>3. RemoveFirst(q, Head(q)) = RemoveAt(q, 1)
  BY <1>1, <1>2 DEF RemoveFirst, SelectInSeq
<1>4. RemoveAt(q, 1) = Tail(q)
  <2>1. SubSeq(q, 1, 1 - 1) = <<>>
    OBVIOUS
  <2>2. SubSeq(q, 1 + 1, Len(q)) = Tail(q)
    OBVIOUS
  <2>3. Tail(q) \in Seq(Nat)
    OBVIOUS
  <2>4. <<>> \o Tail(q) = Tail(q)
    BY <2>3
  <2>5. QED
    BY <2>1, <2>2, <2>4 DEF RemoveAt
<1>5. QED
  BY <1>3, <1>4

\* A queue of n ids, cut behind the n-th.
LEMMA CutQueue ==
  ASSUME NEW q \in Seq(Nat)
  PROVE  /\ SubSeq(q, 1, Len(q)) = q
         /\ SubSeq(q, Len(q) + 1, Len(q)) = <<>>
         /\ \A x : Contains(q, x) <=> x \in Range(q)
<1>1. SubSeq(q, 1, Len(q)) = q
  OBVIOUS
<1>2. SubSeq(q, Len(q) + 1, Len(q)) = <<>>
  OBVIOUS
<1>3. \A x : Contains(q, x) <=> x \in Range(q)
  BY DEF Contains, Range
<1>4. QED
  BY <1>1, <1>2, <1>3

\* The smallest of some natural numbers is one of them.
LEMMA MinIn ==
  ASSUME NEW S, S \subseteq Nat, S # {}
  PROVE  Min(S) \in S
<1>1. \E x \in S : \A y \in S : x <= y
  BY LeastElement
<1>2. QED
  BY <1>1 DEF Min

-----------------------------------------------------------------------------
(* What the group does to its pages, as facts about the group before (g) and *)
(* after (h).                                                                *)

\* The three kinds of job exclude each other.
LEMMA JobKinds ==
  ASSUME NEW w, NEW j, JobTyped(w, j)
  PROVE  /\ j.op \in {"none", "append", "free"}
         /\ j.op = "none" <=> j = NoJob
         /\ j.op = "append" <=> j \in AppendJob
         /\ j.op = "free" <=> j \in FreeJob(w)
BY DEF JobTyped, NoJob, AppendJob, FreeJob

\* The parts of Pages, and Quiet, look only at pages that are not free.
LEMMA PagesFrame ==
  ASSUME NEW w \in Worker, NEW g, NEW h, NEW j, NEW t, NEW s,
         Pages(w, g, j, t), Quiet(g, s),
         \A id \in DOMAIN g.pages \ g.freePages :
            /\ id \in DOMAIN h.pages /\ id \notin h.freePages
            /\ h.pages[id] = g.pages[id],
         h.retiring = g.retiring, h.pending = g.pending
  PROVE  Pages(w, h, j, t) /\ Quiet(h, s)
<1>1. TablesOK(w, h, t)
  BY DEF Pages, TablesOK
<1>2. RetiringOK(h)
  BY DEF Pages, RetiringOK
<1>3. j.op = "append" => AppendOK(w, h, t, j.got)
  BY DEF Pages, AppendOK
<1>4. j.op = "free" => FreeOK(w, h, t, j.left)
  <2> SUFFICES ASSUME j.op = "free" PROVE FreeOK(w, h, t, j.left)
    OBVIOUS
  <2>1. FreeOK(w, g, t, j.left)
    BY DEF Pages
  <2>2. \A id \in LeftIds(w, j.left) : id \in DOMAIN g.pages \ g.freePages
    BY <2>1 DEF FreeOK, LayersHave, FirstHas
  <2>3. Range(j.left[0]) \subseteq LeftIds(w, j.left)
    BY LayerZero DEF LeftIds
  <2>4. \A id \in LeftIds(w, j.left) : /\ id \in DOMAIN h.pages /\ id \notin h.freePages
                                       /\ h.pages[id] = g.pages[id]
    BY <2>2
  <2> QED
    BY <2>1, <2>3, <2>4 DEF FreeOK, LayersHave, FirstHas
<1>5. Quiet(h, s)
  BY DEF Quiet
<1>6. QED
  BY <1>1, <1>2, <1>3, <1>4, <1>5 DEF Pages
\* The front retiring page, its fence passed, becomes free.
LEMMA CollectKeepsPages ==
  ASSUME NEW w \in Worker, NEW g, NEW h, NEW j, NEW t, NEW s, NEW id,
         GroupTyped(w, g), JobTyped(w, j), Pages(w, g, j, t), Quiet(g, s),
         g.retiring # <<>>, id = Head(g.retiring),
         \A k \in DOMAIN s : s[k] # [fence |-> id],
         h.retiring = Tail(g.retiring), h.freePages = g.freePages \cup {id},
         h.pages = [g.pages EXCEPT ![id].retired = FALSE],
         h.pending = g.pending
  PROVE  Pages(w, h, j, t) /\ Quiet(h, s)
<1>1. /\ id \in Range(g.retiring) /\ Distinct(h.retiring)
      /\ Range(h.retiring) = Range(g.retiring) \ {id}
  BY TailQueue DEF GroupTyped, Pages, RetiringOK
<1>2. id \in DOMAIN g.pages /\ id \notin g.freePages /\ g.pages[id].retired
  BY <1>1 DEF Pages, RetiringOK
<1>3. DOMAIN h.pages = DOMAIN g.pages /\ \A x \in DOMAIN g.pages \ {id} : h.pages[x] = g.pages[x]
  OBVIOUS
<1>4. RetiringOK(h)
  BY <1>1, <1>3 DEF Pages, RetiringOK
<1>5. TablesOK(w, h, t)
  <2>1. id \notin TableIds(t)
    BY <1>2 DEF Pages, TablesOK, InUse
  <2>2. QED
    BY <2>1, <1>3 DEF Pages, TablesOK
<1>6. j.op = "append" => AppendOK(w, h, t, j.got)
  <2> SUFFICES ASSUME j.op = "append" PROVE AppendOK(w, h, t, j.got)
    OBVIOUS
  <2>1. AppendOK(w, g, t, j.got)
    BY DEF Pages
  <2>2. id \notin Range(j.got)
    BY <2>1, <1>2 DEF AppendOK, Reserved
  <2>3. QED
    BY <2>1, <2>2, <1>3 DEF AppendOK
<1>7. j.op = "free" => FreeOK(w, h, t, j.left)
  <2> SUFFICES ASSUME j.op = "free" PROVE FreeOK(w, h, t, j.left)
    OBVIOUS
  <2>1. FreeOK(w, g, t, j.left)
    BY DEF Pages
  <2>2. id \notin LeftIds(w, j.left)
    BY <2>1, <1>2 DEF FreeOK, LayersHave, FirstHas
  <2>3. Range(j.left[0]) \subseteq LeftIds(w, j.left)
    BY LayerZero DEF LeftIds
  <2>4. \A x \in LeftIds(w, j.left) : /\ x \in DOMAIN h.pages /\ x \notin h.freePages
                                      /\ h.pages[x] = g.pages[x]
    BY <2>1, <2>2, <1>3 DEF FreeOK, LayersHave, FirstHas
  <2>5. QED
    BY <2>1, <2>3, <2>4 DEF FreeOK, LayersHave, FirstHas
<1>8. Quiet(h, s)
  <2>1. ASSUME NEW k \in DOMAIN s, IsKernel(s[k]) PROVE id \notin s[k].kernel
    BY <2>1, <1>1 DEF Quiet
  <2>2. QED
    BY <2>1, <1>1, <1>3 DEF Quiet
<1>9. QED
  BY <1>4, <1>5, <1>6, <1>7, <1>8 DEF Pages

\* What TakePage makes of a group and of its job.
Taken(w, g, id) ==
  [g EXCEPT !.pages[id] = Reserved(w),
            !.freePages = @ \ {id},
            !.pending = [l \in DOMAIN @ |-> Append(@[l], id)]]
Got(j, id) == [j EXCEPT !.got = Append(j.got, id)]

\* A free page is taken for the running append.
LEMMA TakeKeepsPages ==
  ASSUME NEW w \in Worker, NEW g, NEW h, NEW j, NEW i, NEW t, NEW s, NEW id,
         GroupTyped(w, g), JobTyped(w, j), Pages(w, g, j, t), Quiet(g, s),
         id \in g.freePages, j.op = "append", i = Got(j, id), h = Taken(w, g, id)
  PROVE  /\ Pages(w, h, i, t) /\ Quiet(h, s)
         /\ i \in AppendJob /\ Len(i.got) = Len(j.got) + 1 /\ i.want = j.want
         /\ GroupTyped(w, h) /\ h.chunks = g.chunks /\ h.leasedBytes = g.leasedBytes
         /\ DOMAIN h.pages = DOMAIN g.pages /\ h.failed = g.failed
<1>0. /\ DOMAIN h = DOMAIN g
      /\ h.pages = [g.pages EXCEPT ![id] = Reserved(w)]
      /\ h.freePages = g.freePages \ {id}
      /\ h.pending = [l \in DOMAIN g.pending |-> Append(g.pending[l], id)]
      /\ h.chunks = g.chunks /\ h.leasedBytes = g.leasedBytes
      /\ h.retiring = g.retiring /\ h.failed = g.failed
  BY DEF Taken, GroupTyped
<1>1. id \in DOMAIN g.pages /\ id \in Nat
  BY DEF GroupTyped
<1>2. j \in AppendJob /\ j.got \in Seq(Nat)
  BY JobKinds DEF AppendJob
<1>3. /\ i \in AppendJob /\ i.got = Append(j.got, id) /\ i.op = "append"
      /\ i.want = j.want
  BY <1>1, <1>2, AppendQueue DEF AppendJob, Got
<1>4. AppendOK(w, g, t, j.got)
  BY DEF Pages
<1>5. DOMAIN h.pages = DOMAIN g.pages /\ \A x \in DOMAIN g.pages \ {id} : h.pages[x] = g.pages[x]
  BY <1>0
<1>6. TablesOK(w, h, t)
  BY <1>0, <1>5 DEF Pages, TablesOK
<1>7. RetiringOK(h)
  BY <1>0, <1>5 DEF Pages, RetiringOK
<1>8. id \notin Range(j.got) /\ id \notin TableIds(t)
  BY <1>4 DEF AppendOK, Pages, TablesOK
<1>9. /\ Distinct(i.got) /\ Range(i.got) = Range(j.got) \cup {id}
      /\ Len(i.got) = Len(j.got) + 1
  BY <1>1, <1>2, <1>3, <1>4, <1>8, AppendQueue DEF AppendOK
<1>10. h.pages[id] = Reserved(w)
  BY <1>0, <1>1
<1>11. h.pending = SamePending(w, i.got)
  <2>1. g.pending = SamePending(w, j.got)
    BY <1>4 DEF AppendOK
  <2>2. QED
    BY <2>1, <1>0, <1>3 DEF SamePending
<1>12. AppendOK(w, h, t, i.got)
  <2>1. \A x \in Range(j.got) : /\ x \in DOMAIN h.pages /\ x \notin h.freePages
                                /\ h.pages[x] = Reserved(w)
    BY <1>0, <1>4, <1>5, <1>8 DEF AppendOK
  <2>2. id \in DOMAIN h.pages /\ id \notin h.freePages
    BY <1>0, <1>1, <1>5
  <2>3. Range(i.got) \cap TableIds(t) = {}
    BY <1>4, <1>8, <1>9 DEF AppendOK
  <2>4. QED
    BY <2>1, <2>2, <2>3, <1>9, <1>10, <1>11 DEF AppendOK
<1>13. h.pending \in [Layer(w) \ {0} -> Seq(Nat)]
  <2>1. i.got \in Seq(Nat)
    BY <1>3 DEF AppendJob
  <2>2. QED
    BY <2>1, <1>11 DEF SamePending
<1>14. Quiet(h, s)
  BY <1>0, <1>5 DEF Quiet
<1>15. GroupTyped(w, h)
  <2>1. Reserved(w) \in PageRecord(w)
    BY LayerZero DEF Reserved, PageRecord
  <2>2. \A x \in DOMAIN h.pages : h.pages[x] \in PageRecord(w)
    BY <2>1, <1>0, <1>5 DEF GroupTyped
  <2>3. h.freePages \subseteq DOMAIN h.pages
    BY <1>0, <1>5 DEF GroupTyped
  <2>4. QED
    BY <1>0, <1>5, <1>13, <2>2, <2>3 DEF GroupTyped
<1>16. QED
  BY <1>0, <1>3, <1>5, <1>15, <1>6, <1>7, <1>9, <1>12, <1>13, <1>14 DEF Pages

\* What Fill makes of a page, and of the block tables.
Took(page, got, id) ==
  [page EXCEPT !.reserved = {l \in page.reserved : ~ (id \in Range(got))}]
Extended(w, t, q, got) == [t EXCEPT ![q] = [l \in Layer(w) |-> t[q][l] \o got]]

\* The append has all its pages: the upper layers take theirs, the block tables
\* of its sequence grow.
LEMMA FillKeepsPages ==
  ASSUME NEW w \in Worker, NEW g, NEW h, NEW j, NEW t, NEW u, NEW s,
         GroupTyped(w, g), JobTyped(w, j), TableTyped(w, t), Pages(w, g, j, t), Quiet(g, s),
         j.op = "append", Len(j.got) = j.want,
         u = Extended(w, t, j.seq, j.got), DOMAIN h.pages = DOMAIN g.pages,
         \A id \in DOMAIN g.pages : h.pages[id] = Took(g.pages[id], j.got, id),
         h.pending = NoPending(w),
         h.freePages = g.freePages, h.retiring = g.retiring
  PROVE  Pages(w, h, NoJob, u) /\ Quiet(h, s) /\ TableTyped(w, u)
<1> DEFINE q == j.seq
<1>1. j \in AppendJob /\ j.got \in Seq(Nat) /\ q \in Request
  BY JobKinds DEF AppendJob
<1>2. AppendOK(w, g, t, j.got) /\ TablesOK(w, g, t) /\ RetiringOK(g)
  BY DEF Pages
<1>3. /\ \A l \in Layer(w) : t[q][l] \in Seq(Nat)
      /\ 0 \in Layer(w) /\ t \in [Request -> [Layer(w) -> Seq(Nat)]]
  BY <1>1, LayerZero DEF TableTyped
<1>4. /\ \A l \in Layer(w) : u[q][l] = t[q][l] \o j.got
      /\ \A x \in Request : x # q => u[x] = t[x]
      /\ \A l \in Layer(w) : u[q][l] \in Seq(Nat)
  BY <1>1, <1>3, ConcatQueue DEF Extended
<1>5. TableTyped(w, u)
  <2>1. [l \in Layer(w) |-> t[q][l] \o j.got] \in [Layer(w) -> Seq(Nat)]
    BY <1>1, <1>3, ConcatQueue
  <2>2. QED
    BY <2>1, <1>1, <1>3 DEF TableTyped, Extended
<1> HIDE DEF q
<1>6. /\ Range(u[q][0]) = Range(t[q][0]) \cup Range(j.got)
      /\ Distinct(u[q][0])
  <2>1. /\ u[q][0] = t[q][0] \o j.got /\ t[q][0] \in Seq(Nat)
    BY <1>3, <1>4
  <2>2. Distinct(t[q][0]) /\ Distinct(j.got)
    BY <1>1, <1>2 DEF TablesOK, AppendOK, q
  <2>3. Range(t[q][0]) \cap Range(j.got) = {}
    BY <1>1, <1>2 DEF AppendOK, TableIds, q
  <2>4. QED
    BY <2>1, <2>2, <2>3, <1>1, ConcatQueue
<1>7. TableIds(u) = TableIds(t) \cup Range(j.got)
  <2>1. \A x \in Request : x # q => Range(u[x][0]) = Range(t[x][0])
    BY <1>4
  <2>2. q \in Request
    BY <1>1 DEF q
  <2>3. \A x \in Request : Range(u[x][0]) \subseteq Range(t[x][0]) \cup Range(j.got)
    BY <2>1, <1>6
  <2>4. \A x \in Request : Range(t[x][0]) \subseteq Range(u[x][0])
    BY <2>1, <1>6
  <2>5. ASSUME NEW id \in TableIds(u) PROVE id \in TableIds(t) \cup Range(j.got)
    <3>1. PICK x \in Request : id \in Range(u[x][0])
      BY <2>5 DEF TableIds
    <3>2. id \in Range(t[x][0]) \/ id \in Range(j.got)
      BY <3>1, <2>3
    <3>3. QED
      BY <3>2 DEF TableIds
  <2>6. ASSUME NEW id \in TableIds(t) PROVE id \in TableIds(u)
    <3>1. PICK x \in Request : id \in Range(t[x][0])
      BY <2>6 DEF TableIds
    <3>2. id \in Range(u[x][0])
      BY <3>1, <2>4
    <3>3. QED
      BY <3>2 DEF TableIds
  <2>7. ASSUME NEW id \in Range(j.got) PROVE id \in TableIds(u)
    BY <2>2, <2>7, <1>6 DEF TableIds
  <2>8. QED
    BY <2>5, <2>6, <2>7
<1>8. \A id \in TableIds(t) : h.pages[id] = InUse(w)
  <2>1. ASSUME NEW id \in TableIds(t) PROVE h.pages[id] = InUse(w)
    <3>1. g.pages[id] = InUse(w) /\ id \in DOMAIN g.pages
      BY <1>2 DEF TablesOK
    <3>2. {l \in InUse(w).reserved : ~ (id \in Range(j.got))} = {}
      BY DEF InUse
    <3>3. h.pages[id] = [InUse(w) EXCEPT !.reserved = {}]
      BY <3>1, <3>2 DEF Took
    <3>4. QED
      BY <3>3 DEF InUse
  <2>2. QED
    BY <2>1
<1>9. \A id \in Range(j.got) : h.pages[id] = InUse(w)
  <2>1. ASSUME NEW id \in Range(j.got) PROVE h.pages[id] = InUse(w)
    <3>1. g.pages[id] = Reserved(w) /\ id \in DOMAIN g.pages
      BY <1>2 DEF AppendOK
    <3>2. {l \in Reserved(w).reserved : ~ (id \in Range(j.got))} = {}
      BY DEF Reserved
    <3>3. h.pages[id] = [Reserved(w) EXCEPT !.reserved = {}]
      BY <3>1, <3>2 DEF Took
    <3>4. QED
      BY <3>3 DEF InUse, Reserved
  <2>2. QED
    BY <2>1
<1>10. TablesOK(w, h, u)
  <2>1. \A x \in Request : \A l \in Layer(w) : u[x][l] = u[x][0]
    BY <1>2, <1>3, <1>4 DEF TablesOK
  <2>2. \A x \in Request : Distinct(u[x][0])
    BY <1>2, <1>4, <1>6 DEF TablesOK
  <2>3. \A x \in Request : x # q => /\ Range(u[x][0]) \cap Range(u[q][0]) = {}
                                   /\ Range(u[q][0]) \cap Range(u[x][0]) = {}
    <3>1. \A x \in Request : x # q => Range(t[x][0]) \cap Range(t[q][0]) = {}
      BY <1>1, <1>2 DEF TablesOK, q
    <3>2. \A x \in Request : Range(t[x][0]) \subseteq TableIds(t)
      BY DEF TableIds
    <3>3. Range(j.got) \cap TableIds(t) = {}
      BY <1>2 DEF AppendOK
    <3>4. QED
      BY <3>1, <3>2, <3>3, <1>4, <1>6
  <2>4. \A x, y \in Request : x # y => Range(u[x][0]) \cap Range(u[y][0]) = {}
    BY <2>3, <1>2, <1>4 DEF TablesOK
  <2>5. \A id \in TableIds(u) : id \in DOMAIN h.pages /\ id \notin h.freePages
    BY <1>2, <1>7 DEF TablesOK, AppendOK
  <2>6. QED
    BY <2>1, <2>2, <2>4, <2>5, <1>7, <1>8, <1>9 DEF TablesOK
<1>11. RetiringOK(h)
  <2>1. \A id \in DOMAIN g.pages : g.pages[id] \in PageRecord(w)
    BY DEF GroupTyped
  <2>2. \A id \in DOMAIN g.pages : h.pages[id].retired = g.pages[id].retired
    BY <2>1 DEF PageRecord, Took
  <2>3. QED
    BY <2>2, <1>2 DEF RetiringOK
<1>12. Quiet(h, s)
  BY DEF Quiet
<1>13. QED
  BY <1>5, <1>10, <1>11, <1>12 DEF Pages, NoJob


\* No page was left: the failed append's pages are given up.
LEMMA NoPageKeepsPages ==
  ASSUME NEW w \in Worker, NEW g, NEW j, NEW i, NEW t,
         GroupTyped(w, g), JobTyped(w, j), Pages(w, g, j, t), j.op = "append",
         i = [op |-> "free", left |-> [EmptyTable(w) EXCEPT ![0] = j.got]]
  PROVE  Pages(w, g, i, t) /\ i \in FreeJob(w)
<1> DEFINE left == i.left
<1>1. j \in AppendJob /\ j.got \in Seq(Nat)
  BY JobKinds DEF AppendJob
<1>2. 0 \in Layer(w)
  BY LayerZero
<1>3. /\ left \in [Layer(w) -> Seq(Nat)] /\ left[0] = j.got
      /\ \A l \in Layer(w) \ {0} : left[l] = <<>>
  BY <1>1, <1>2, EmptyQueue DEF EmptyTable
<1>4. i \in FreeJob(w) /\ i.op = "free"
  BY <1>3 DEF FreeJob
<1> HIDE DEF left
<1>5. AppendOK(w, g, t, j.got)
  BY DEF Pages
<1>6. LeftIds(w, left) = Range(j.got)
  <2>1. ASSUME NEW l \in Layer(w) PROVE Range(left[l]) \subseteq Range(j.got)
    BY <1>3, EmptyQueue
  <2>2. QED
    BY <2>1, <1>2, <1>3 DEF LeftIds
<1>7. FreeOK(w, g, t, left)
  <2>1. \A l \in Layer(w) : Distinct(left[l])
    BY <1>3, <1>5, EmptyQueue DEF AppendOK
  <2>2. \A id \in Range(j.got) : ~ g.pages[id].retired
    BY <1>5 DEF AppendOK, Reserved
  <2>3. QED
    BY <2>1, <2>2, <1>3, <1>5, <1>6 DEF FreeOK, LayersHave, FirstHas, AppendOK
<1>8. QED
  BY <1>4, <1>7 DEF Pages, left

\* A sequence is over: its pages are to be given up.
LEMMA StartKeepsPages ==
  ASSUME NEW w \in Worker, NEW g, NEW t, NEW q \in Request, NEW i, NEW u,
         TableTyped(w, t), Pages(w, g, NoJob, t), g.pending = NoPending(w),
         i = [op |-> "free", left |-> t[q]],
         u = [t EXCEPT ![q] = EmptyTable(w)]
  PROVE  Pages(w, g, i, u) /\ i \in FreeJob(w) /\ TableTyped(w, u)
<1>1. /\ t[q] \in [Layer(w) -> Seq(Nat)] /\ 0 \in Layer(w)
      /\ EmptyTable(w) \in [Layer(w) -> Seq(Nat)] /\ EmptyTable(w)[0] = <<>>
  BY LayerZero, EmptyQueue DEF TableTyped, EmptyTable
<1>2. i \in FreeJob(w) /\ TableTyped(w, u)
  BY <1>1 DEF FreeJob, TableTyped
<1>3. u[q] = EmptyTable(w) /\ \A x \in Request : x # q => u[x] = t[x]
  BY DEF TableTyped
<1>4. TablesOK(w, g, t) /\ RetiringOK(g) /\ g.pending = NoPending(w)
  BY DEF Pages
<1>5. /\ Range(u[q][0]) = {} /\ Distinct(u[q][0])
      /\ \A l \in Layer(w) : u[q][l] = <<>>
  BY <1>1, <1>3, EmptyQueue DEF EmptyTable
<1>6. TableIds(u) \subseteq TableIds(t) /\ TableIds(u) \cap Range(t[q][0]) = {}
  <2>1. ASSUME NEW id \in TableIds(u) PROVE id \in TableIds(t) /\ id \notin Range(t[q][0])
    <3>1. PICK x \in Request : id \in Range(u[x][0])
      BY <2>1 DEF TableIds
    <3>2. x # q /\ id \in Range(t[x][0])
      BY <3>1, <1>3, <1>5
    <3>3. QED
      BY <3>2, <1>4 DEF TableIds, TablesOK
  <2>2. QED
    BY <2>1
<1>7. TablesOK(w, g, u)
  <2>1. \A x \in Request : \A l \in Layer(w) : u[x][l] = u[x][0]
    BY <1>1, <1>3, <1>4, <1>5 DEF TablesOK
  <2>2. \A x \in Request : Distinct(u[x][0])
    BY <1>3, <1>4, <1>5 DEF TablesOK
  <2>3. ASSUME NEW x \in Request, NEW y \in Request, x # y
        PROVE  Range(u[x][0]) \cap Range(u[y][0]) = {}
    <3>1. CASE x = q \/ y = q
      BY <3>1, <1>5
    <3>2. CASE x # q /\ y # q
      BY <3>2, <2>3, <1>3, <1>4 DEF TablesOK
    <3>3. QED
      BY <3>1, <3>2
  <2>4. QED
    BY <2>1, <2>2, <2>3, <1>4, <1>6 DEF TablesOK
<1> DEFINE left == t[q]
<1>8. /\ \A l \in Layer(w) : left[l] = left[0]
      /\ Distinct(left[0])
      /\ \A id \in Range(left[0]) : /\ id \in DOMAIN g.pages /\ id \notin g.freePages
                                    /\ g.pages[id] = InUse(w)
  BY <1>4 DEF TablesOK, TableIds
<1>9. LeftIds(w, left) = Range(left[0]) /\ Range(left[0]) \cap TableIds(u) = {}
  <2>1. \A l \in Layer(w) : Range(left[l]) = Range(left[0])
    BY <1>8
  <2>2. Range(left[0]) \cap TableIds(u) = {}
    BY <1>6
  <2>3. QED
    BY <2>1, <2>2, <1>1 DEF LeftIds
<1>10. i.left = left /\ i.op = "free"
  OBVIOUS
<1> HIDE DEF left
<1>11. FreeOK(w, g, u, left)
  <2>1. \A id \in Range(left[0]) : /\ g.pages[id].active = Layer(w)
                                   /\ g.pages[id].reserved = {}
                                   /\ ~ g.pages[id].retired
    BY <1>8 DEF InUse
  <2>2. \A id \in Range(left[0]) : Layer(w) = {l \in Layer(w) : id \in Range(left[l])}
    BY <1>8
  <2>3. QED
    BY <2>1, <2>2, <1>4, <1>8, <1>9 DEF FreeOK, LayersHave, FirstHas
<1>12. QED
  BY <1>2, <1>4, <1>7, <1>10, <1>11 DEF Pages

Without(left, l) == [left EXCEPT ![l] = Tail(left[l])]

\* Layer l gives up the front of its pages; the other layers keep theirs.
LEMMA GiveUp ==
  ASSUME NEW w \in Worker, NEW left \in [Layer(w) -> Seq(Nat)], NEW l \in Layer(w),
         left[l] # <<>>, \A k \in Layer(w) : Distinct(left[k])
  PROVE  /\ Without(left, l) \in [Layer(w) -> Seq(Nat)]
         /\ Without(left, l)[l] = Tail(left[l])
         /\ \A k \in Layer(w) : k # l => Without(left, l)[k] = left[k]
         /\ Head(left[l]) \in Nat /\ Head(left[l]) \in Range(left[l])
         /\ \A k \in Layer(w) : Distinct(Without(left, l)[k])
         /\ LeftIds(w, Without(left, l)) \subseteq LeftIds(w, left)
         /\ Head(left[l]) \in LeftIds(w, left)
<1> DEFINE m == Without(left, l)
           id == Head(left[l])
<1>1. /\ id \in Range(left[l]) /\ id \in Nat /\ Tail(left[l]) \in Seq(Nat)
      /\ Distinct(Tail(left[l])) /\ Range(Tail(left[l])) = Range(left[l]) \ {id}
  BY TailQueue
<1>2. /\ m \in [Layer(w) -> Seq(Nat)] /\ m[l] = Tail(left[l])
      /\ \A k \in Layer(w) : k # l => m[k] = left[k]
  BY <1>1 DEF Without
<1> HIDE DEF m, id
<1>3. \A k \in Layer(w) : Distinct(m[k])
  BY <1>1, <1>2
<1>4. LeftIds(w, m) \subseteq LeftIds(w, left)
  <2>1. \A k \in Layer(w) : Range(m[k]) \subseteq Range(left[k])
    BY <1>1, <1>2
  <2>2. QED
    BY <2>1 DEF LeftIds
<1>5. id \in LeftIds(w, left)
  BY <1>1 DEF LeftIds
<1>6. QED
  BY <1>1, <1>2, <1>3, <1>4, <1>5 DEF m, id

\* What RetireNext makes of a group: layer l gives up page id.
Back(g, l, id) == IF l = 0 THEN g.pages[id].reserved ELSE {}
StillActive(g, l, id) == g.pages[id].active \ (Back(g, l, id) \cup {l})
GivenUp(g, l, id) ==
  [g EXCEPT
     !.pages[id] = [active |-> StillActive(g, l, id),
                    reserved |-> @.reserved \ Back(g, l, id),
                    retired |-> StillActive(g, l, id) = {}],
     !.pending = [k \in DOMAIN @ |-> IF k \in Back(g, l, id)
                                     THEN RemoveFirst(@[k], id) ELSE @[k]],
     !.retiring = IF StillActive(g, l, id) = {} THEN Append(@, id) ELSE @]

\* Its fields.
LEMMA GivenUpParts ==
  ASSUME NEW w \in Worker, NEW g, GroupTyped(w, g), NEW l, NEW id \in DOMAIN g.pages,
         NEW h, h = GivenUp(g, l, id)
  PROVE  /\ DOMAIN h = DOMAIN g
         /\ h.chunks = g.chunks /\ h.freePages = g.freePages
         /\ h.leasedBytes = g.leasedBytes /\ h.failed = g.failed
         /\ DOMAIN h.pages = DOMAIN g.pages
         /\ \A x \in DOMAIN g.pages : x # id => h.pages[x] = g.pages[x]
<1>1. DOMAIN g = {"chunks", "pages", "freePages", "retiring", "pending", "leasedBytes",
                  "failed"}
  BY DEF GroupTyped
<1>2. QED
  BY <1>1 DEF GivenUp

\* The queues stay as they are if nothing is rolled back.
LEMMA GivenUpKeeps ==
  ASSUME NEW w \in Worker, NEW g, GroupTyped(w, g), NEW l, NEW id \in DOMAIN g.pages,
         NEW h, h = GivenUp(g, l, id), Back(g, l, id) = {}
  PROVE  h.pending = g.pending
<1>1. /\ DOMAIN g = {"chunks", "pages", "freePages", "retiring", "pending", "leasedBytes",
                     "failed"}
      /\ g.pending \in [Layer(w) \ {0} -> Seq(Nat)]
  BY DEF GroupTyped
<1>2. h.pending = [k \in DOMAIN g.pending |-> g.pending[k]]
  BY <1>1 DEF GivenUp
<1>3. QED
  BY <1>1, <1>2

\* If all upper layers are rolled back, the page leaves each of their queues.
LEMMA GivenUpCuts ==
  ASSUME NEW w \in Worker, NEW g, GroupTyped(w, g), NEW l, NEW id \in DOMAIN g.pages,
         NEW h, h = GivenUp(g, l, id), Back(g, l, id) = Layer(w) \ {0},
         NEW q, g.pending = SamePending(w, q)
  PROVE  h.pending = SamePending(w, RemoveFirst(q, id))
<1>1. DOMAIN g = {"chunks", "pages", "freePages", "retiring", "pending", "leasedBytes",
                  "failed"}
  BY DEF GroupTyped
<1>2. h.pending = [k \in DOMAIN g.pending |->
                     IF k \in Back(g, l, id) THEN RemoveFirst(g.pending[k], id)
                                             ELSE g.pending[k]]
  BY <1>1 DEF GivenUp
<1>3. DOMAIN g.pending = Layer(w) \ {0} /\ \A k \in Layer(w) \ {0} : g.pending[k] = q
  BY DEF SamePending
<1>4. QED
  BY <1>2, <1>3 DEF SamePending

\* The page retires with the last layer that was active on it.
LEMMA GivenUpRetiring ==
  ASSUME NEW w \in Worker, NEW g, GroupTyped(w, g), NEW l, NEW id \in DOMAIN g.pages,
         NEW h, h = GivenUp(g, l, id)
  PROVE  /\ StillActive(g, l, id) = {} => h.retiring = Append(g.retiring, id)
         /\ StillActive(g, l, id) # {} => h.retiring = g.retiring
<1>1. DOMAIN g = {"chunks", "pages", "freePages", "retiring", "pending", "leasedBytes",
                  "failed"}
  BY DEF GroupTyped
<1>2. h.retiring = IF StillActive(g, l, id) = {} THEN Append(g.retiring, id)
                                                 ELSE g.retiring
  BY <1>1 DEF GivenUp
<1>3. QED
  BY <1>2

\* The page's record.
LEMMA GivenUpRecord ==
  ASSUME NEW w \in Worker, NEW g, GroupTyped(w, g), NEW l, NEW id \in DOMAIN g.pages,
         NEW h, h = GivenUp(g, l, id)
  PROVE  /\ h.pages[id] \in PageRecord(w)
         /\ h.pages[id].active = StillActive(g, l, id)
         /\ h.pages[id].reserved = g.pages[id].reserved \ Back(g, l, id)
         /\ h.pages[id].retired <=> StillActive(g, l, id) = {}
<1> DEFINE a == StillActive(g, l, id)
           b == g.pages[id].reserved \ Back(g, l, id)
           r == h.pages[id]
<1>1. a \in SUBSET Layer(w) /\ b \in SUBSET Layer(w)
  BY DEF PageRecord, StillActive, GroupTyped
<1>2. r = [active |-> a, reserved |-> b, retired |-> a = {}]
  <2>1. DOMAIN g = {"chunks", "pages", "freePages", "retiring", "pending", "leasedBytes",
                    "failed"}
    BY DEF GroupTyped
  <2>2. QED
    BY <2>1 DEF GivenUp
<1> HIDE DEF a, b, r
<1>3. CASE a = {}
  <2>1. r = [active |-> a, reserved |-> b, retired |-> TRUE]
    BY <1>2, <1>3
  <2>2. r \in PageRecord(w) /\ r.active = a /\ r.reserved = b /\ r.retired
    BY <1>1, <2>1 DEF PageRecord
  <2>3. QED
    BY <2>2, <1>3 DEF a, b, r
<1>4. CASE a # {}
  <2>1. r = [active |-> a, reserved |-> b, retired |-> FALSE]
    BY <1>2, <1>4
  <2>2. r \in PageRecord(w) /\ r.active = a /\ r.reserved = b /\ ~ r.retired
    BY <1>1, <2>1 DEF PageRecord
  <2>3. QED
    BY <2>2, <1>4 DEF a, b, r
<1>5. QED
  BY <1>3, <1>4

\* A page every layer has: the layer gives it up, the page retires with the last.
LEMMA GiveUpWhole ==
  ASSUME NEW w \in Worker, NEW g, NEW h, NEW t,
         NEW left \in [Layer(w) -> Seq(Nat)], NEW l \in Layer(w),
         left[l] # <<>>, GroupTyped(w, g), FreeOK(w, g, t, left), LayersHave(w, g, left),
         h = GivenUp(g, l, Head(left[l]))
  PROVE  FreeOK(w, h, t, Without(left, l)) /\ h.pending = NoPending(w)
<1> DEFINE m == Without(left, l)
           id == Head(left[l])
<1>0. /\ \A x \in LeftIds(w, left) :
           /\ g.pages[x].active = {k \in Layer(w) : x \in Range(left[k])}
           /\ g.pages[x].reserved = {}
      /\ g.pending = NoPending(w)
  BY DEF LayersHave
<1>a. \A k \in Layer(w) : Distinct(left[k])
  BY DEF FreeOK
<1>b. /\ m \in [Layer(w) -> Seq(Nat)] /\ m[l] = Tail(left[l])
      /\ \A k \in Layer(w) : k # l => m[k] = left[k]
      /\ id \in Range(left[l]) /\ \A k \in Layer(w) : Distinct(m[k])
      /\ LeftIds(w, m) \subseteq LeftIds(w, left) /\ id \in LeftIds(w, left)
  BY <1>a, GiveUp, Z3T(30), ZenonT(60)
<1>c. Range(m[l]) = Range(left[l]) \ {id}
  BY <1>a, <1>b, TailQueue
<1>d. h = GivenUp(g, l, id) /\ id \in DOMAIN g.pages
  BY <1>b DEF FreeOK
<1> HIDE DEF m, id
<1>e. {k \in Layer(w) : id \in Range(m[k])} = {k \in Layer(w) : id \in Range(left[k])} \ {l}
  BY <1>b, <1>c
<1>1. Back(g, l, id) = {}
  BY <1>0, <1>b DEF Back
<1>2. StillActive(g, l, id) = {k \in Layer(w) : id \in Range(m[k])}
  BY <1>0, <1>1, <1>b, <1>e DEF StillActive
<1>3. /\ DOMAIN h.pages = DOMAIN g.pages /\ h.freePages = g.freePages
      /\ \A x \in DOMAIN g.pages : x # id => h.pages[x] = g.pages[x]
  BY <1>d, GivenUpParts
<1>4. h.pending = g.pending
  BY <1>1, <1>d, GivenUpKeeps
<1>5. /\ h.pages[id].active = {k \in Layer(w) : id \in Range(m[k])}
      /\ h.pages[id].reserved = {}
      /\ h.pages[id].retired <=> {k \in Layer(w) : id \in Range(m[k])} = {}
  <2>1. g.pages[id] \in PageRecord(w) /\ g.pages[id].reserved = {}
    BY <1>0, <1>b, <1>d DEF GroupTyped
  <2>2. /\ h.pages[id].active = StillActive(g, l, id)
        /\ h.pages[id].reserved = g.pages[id].reserved \ Back(g, l, id)
        /\ h.pages[id].retired <=> StillActive(g, l, id) = {}
    BY <1>d, GivenUpRecord
  <2>3. QED
    BY <2>1, <2>2, <1>2
<1>6. \A x \in LeftIds(w, m) : /\ x \in DOMAIN g.pages /\ x \notin g.freePages
                               /\ ~ g.pages[x].retired /\ x \notin TableIds(t)
  BY <1>b DEF FreeOK
<1>7. id \in LeftIds(w, m) => ~ h.pages[id].retired
  BY <1>5 DEF LeftIds
<1>8. \A x \in LeftIds(w, m) : /\ x \in DOMAIN h.pages /\ x \notin h.freePages
                               /\ ~ h.pages[x].retired
  BY <1>3, <1>6, <1>7
<1>9. \A x \in LeftIds(w, m) :
         /\ h.pages[x].active = {k \in Layer(w) : x \in Range(m[k])}
         /\ h.pages[x].reserved = {}
  <2>1. ASSUME NEW x \in LeftIds(w, m), x # id
        PROVE  /\ h.pages[x].active = {k \in Layer(w) : x \in Range(m[k])}
               /\ h.pages[x].reserved = {}
    <3>1. x \in LeftIds(w, left) /\ h.pages[x] = g.pages[x]
      BY <2>1, <1>3, <1>6, <1>b
    <3>2. /\ g.pages[x].active = {k \in Layer(w) : x \in Range(left[k])}
          /\ g.pages[x].reserved = {}
      BY <3>1, <1>0
    <3>3. {k \in Layer(w) : x \in Range(m[k])} = {k \in Layer(w) : x \in Range(left[k])}
      BY <2>1, <1>b, <1>c
    <3>4. QED
      BY <3>1, <3>2, <3>3
  <2>2. QED
    BY <2>1, <1>5
<1>10. LeftIds(w, m) \cap TableIds(t) = {}
  BY <1>6
<1>11. h.pending = NoPending(w)
  BY <1>0, <1>4
<1>12. QED
  BY <1>8, <1>9, <1>10, <1>11, <1>b DEF FreeOK, LayersHave, m

\* A page only layer 0 has taken: the other layers' reservations are rolled back
\* and the page retires.
LEMMA GiveUpReserved ==
  ASSUME NEW w \in Worker, NEW g, NEW h, NEW t, NEW left \in [Layer(w) -> Seq(Nat)],
         GroupTyped(w, g), FreeOK(w, g, t, left), FirstHas(w, g, left),
         left[0] # <<>>, h = GivenUp(g, 0, Head(left[0]))
  PROVE  /\ FreeOK(w, h, t, Without(left, 0))
         /\ h.pending \in [Layer(w) \ {0} -> Seq(Nat)]
<1> DEFINE m == Without(left, 0)
           id == Head(left[0])
<1>0. /\ \A k \in Layer(w) \ {0} : left[k] = <<>>
      /\ \A x \in Range(left[0]) : g.pages[x] = Reserved(w)
      /\ g.pending = SamePending(w, left[0])
  BY DEF FirstHas
<1>a. 0 \in Layer(w) /\ \A k \in Layer(w) : Distinct(left[k])
  BY LayerZero DEF FreeOK
<1>b. /\ m \in [Layer(w) -> Seq(Nat)] /\ m[0] = Tail(left[0])
      /\ \A k \in Layer(w) : k # 0 => m[k] = left[k]
      /\ \A k \in Layer(w) : Distinct(m[k])
      /\ id \in LeftIds(w, left)
  BY <1>a, GiveUp
<1>1. /\ 0 \in Layer(w) /\ left[0] \in Seq(Nat)
      /\ id \in Range(left[0]) /\ Distinct(m[0]) /\ m[0] \in Seq(Nat)
      /\ Range(m[0]) = Range(left[0]) \ {id}
  BY <1>a, <1>b, TailQueue
<1>d. h = GivenUp(g, 0, id) /\ id \in DOMAIN g.pages
  BY <1>b DEF FreeOK
<1>c. RemoveFirst(left[0], id) = m[0]
  BY <1>a, <1>b, RemoveFront
<1> HIDE DEF m, id
<1>2. g.pages[id] = Reserved(w)
  BY <1>0, <1>1
<1>3. Back(g, 0, id) = Layer(w) \ {0} /\ StillActive(g, 0, id) = {}
  BY <1>2 DEF Back, StillActive, Reserved
<1>4. /\ DOMAIN h.pages = DOMAIN g.pages /\ h.freePages = g.freePages
      /\ \A x \in DOMAIN g.pages : x # id => h.pages[x] = g.pages[x]
  BY <1>d, GivenUpParts
<1>5. h.pending = SamePending(w, m[0])
  BY <1>0, <1>3, <1>c, <1>d, GivenUpCuts
<1>6. LeftIds(w, m) = Range(m[0]) /\ LeftIds(w, left) = Range(left[0])
  <2>1. \A k \in Layer(w) : Range(m[k]) \subseteq Range(m[0])
    BY <1>0, <1>b, EmptyQueue
  <2>2. \A k \in Layer(w) : Range(left[k]) \subseteq Range(left[0])
    BY <1>0, EmptyQueue
  <2>3. LeftIds(w, m) \subseteq Range(m[0]) /\ LeftIds(w, left) \subseteq Range(left[0])
    BY <2>1, <2>2 DEF LeftIds
  <2>4. Range(m[0]) \subseteq LeftIds(w, m) /\ Range(left[0]) \subseteq LeftIds(w, left)
    BY <1>1 DEF LeftIds
  <2>5. QED
    BY <2>3, <2>4
<1>7. \A x \in Range(m[0]) : /\ x \in DOMAIN h.pages /\ x \notin h.freePages
                             /\ h.pages[x] = Reserved(w) /\ x \notin TableIds(t)
  <2>1. \A x \in Range(left[0]) : /\ x \in DOMAIN g.pages /\ x \notin g.freePages
                                  /\ x \notin TableIds(t)
    BY <1>6 DEF FreeOK
  <2>2. \A x \in Range(m[0]) : x \in Range(left[0]) /\ x # id
    BY <1>1
  <2>3. QED
    BY <2>1, <2>2, <1>0, <1>4
<1>8. \A x \in Range(m[0]) : ~ h.pages[x].retired
  BY <1>7 DEF Reserved
<1>9. \A k \in Layer(w) : Distinct(m[k]) /\ (k # 0 => m[k] = <<>>)
  BY <1>0, <1>b
<1>10. h.pending \in [Layer(w) \ {0} -> Seq(Nat)]
  BY <1>1, <1>5 DEF SamePending
<1>11. LeftIds(w, m) \cap TableIds(t) = {}
  BY <1>6, <1>7
<1>12. QED
  BY <1>5, <1>6, <1>7, <1>8, <1>9, <1>10, <1>11 DEF FreeOK, FirstHas, m

\* The retiring pages: one more if the page retires.
LEMMA GiveUpRetires ==
  ASSUME NEW w \in Worker, NEW g, NEW h, NEW l, NEW id \in DOMAIN g.pages,
         GroupTyped(w, g), RetiringOK(g), id \notin g.freePages, ~ g.pages[id].retired,
         h = GivenUp(g, l, id)
  PROVE  RetiringOK(h) /\ h.retiring \in Seq(Nat) /\ id \in Nat
<1>1. /\ DOMAIN h.pages = DOMAIN g.pages /\ h.freePages = g.freePages
      /\ \A x \in DOMAIN g.pages : x # id => h.pages[x] = g.pages[x]
  BY GivenUpParts
<1>2. id \in Nat /\ g.retiring \in Seq(Nat) /\ g.pages[id] \in PageRecord(w)
  BY DEF GroupTyped
<1>3. id \notin Range(g.retiring)
  BY DEF RetiringOK
<1>4. h.pages[id].retired <=> StillActive(g, l, id) = {}
  BY GivenUpRecord
<1>5. \A x \in Range(g.retiring) : /\ x \in DOMAIN h.pages /\ x \notin h.freePages
                                   /\ h.pages[x].retired
  BY <1>1, <1>3 DEF RetiringOK
<1>6. CASE StillActive(g, l, id) = {}
  <2>1. h.retiring = Append(g.retiring, id)
    BY <1>6, GivenUpRetiring
  <2>2. /\ Range(h.retiring) = Range(g.retiring) \cup {id} /\ h.retiring \in Seq(Nat)
        /\ Distinct(h.retiring)
    BY <2>1, <1>2, <1>3, AppendQueue DEF RetiringOK
  <2>3. QED
    BY <2>2, <1>1, <1>2, <1>4, <1>5, <1>6 DEF RetiringOK
<1>7. CASE StillActive(g, l, id) # {}
  <2>1. h.retiring = g.retiring
    BY <1>7, GivenUpRetiring
  <2>2. QED
    BY <2>1, <1>2, <1>5 DEF RetiringOK
<1>8. QED
  BY <1>6, <1>7

\* The job that has these pages to give up.
ToGiveUp(left) == [op |-> "free", left |-> left]

\* A page is given up by layer l.
LEMMA RetireResult ==
  ASSUME NEW w \in Worker, NEW g, NEW j, NEW t, NEW l \in Layer(w),
         GroupTyped(w, g), JobTyped(w, j), Pages(w, g, j, t), j.op = "free",
         j.left[l] # <<>>
  PROVE  /\ Pages(w, GivenUp(g, l, Head(j.left[l])), ToGiveUp(Without(j.left, l)), t)
         /\ ToGiveUp(Without(j.left, l)) \in FreeJob(w)
         /\ GroupTyped(w, GivenUp(g, l, Head(j.left[l])))
         /\ Head(j.left[l]) \in Nat /\ Head(j.left[l]) \in DOMAIN g.pages
<1> DEFINE left == j.left
           id == Head(left[l])
           m == Without(left, l)
           h == GivenUp(g, l, id)
           i == ToGiveUp(m)
<1>0. /\ left = j.left /\ left[l] # <<>> /\ id = Head(left[l]) /\ m = Without(left, l)
      /\ h = GivenUp(g, l, id)
  OBVIOUS
<1> HIDE DEF left, id, m, h, i
<1>1. left \in [Layer(w) -> Seq(Nat)]
  <2>1. j \in FreeJob(w)
    BY <1>0, JobKinds
  <2>2. QED
    BY <1>0, <2>1 DEF FreeJob
<1>2. FreeOK(w, g, t, left) /\ TablesOK(w, g, t) /\ RetiringOK(g)
  BY <1>0 DEF Pages
<1>3. \A k \in Layer(w) : Distinct(left[k])
  BY <1>2 DEF FreeOK
<1>4. i.left = m /\ i.op = "free" /\ i = [op |-> "free", left |-> m]
  BY DEF i, ToGiveUp
<1>5. /\ m \in [Layer(w) -> Seq(Nat)] /\ id \in Nat
      /\ id \in LeftIds(w, left)
  BY <1>0, <1>1, <1>3, GiveUp
<1>6. i \in FreeJob(w)
  BY <1>4, <1>5 DEF FreeJob
<1>7. id \in DOMAIN g.pages /\ id \notin g.freePages /\ ~ g.pages[id].retired
  BY <1>2, <1>5 DEF FreeOK
<1>8. /\ DOMAIN h = DOMAIN g
      /\ h.chunks = g.chunks /\ h.freePages = g.freePages
      /\ h.leasedBytes = g.leasedBytes /\ h.failed = g.failed
      /\ DOMAIN h.pages = DOMAIN g.pages
      /\ \A x \in DOMAIN g.pages : x # id => h.pages[x] = g.pages[x]
  BY <1>0, <1>7, GivenUpParts
<1>9. RetiringOK(h) /\ h.retiring \in Seq(Nat)
  BY <1>0, <1>2, <1>7, GiveUpRetires
<1>10. TablesOK(w, h, t)
  <2>1. id \notin TableIds(t)
    BY <1>2, <1>5 DEF FreeOK
  <2>2. QED
    BY <2>1, <1>2, <1>8 DEF TablesOK
<1>11. FreeOK(w, h, t, m) /\ h.pending \in [Layer(w) \ {0} -> Seq(Nat)]
  <2>1. CASE LayersHave(w, g, left)
    <3>1. FreeOK(w, h, t, m) /\ h.pending = NoPending(w)
      BY <2>1, <1>0, <1>1, <1>2, GiveUpWhole
    <3>2. QED
      BY <3>1, EmptyQueue DEF NoPending
  <2>2. CASE FirstHas(w, g, left)
    <3>1. l = 0
      BY <1>0, <2>2 DEF FirstHas
    <3>2. QED
      BY <2>2, <3>1, <1>0, <1>1, <1>2, GiveUpReserved
  <2>3. QED
    BY <1>2, <2>1, <2>2 DEF FreeOK
<1>12. GroupTyped(w, h)
  <2>1. h.pages[id] \in PageRecord(w)
    BY <1>0, <1>7, GivenUpRecord
  <2>2. \A x \in DOMAIN h.pages : h.pages[x] \in PageRecord(w)
    BY <2>1, <1>8 DEF GroupTyped
  <2>3. QED
    BY <2>2, <1>8, <1>9, <1>11 DEF GroupTyped
<1>13. Pages(w, h, i, t)
  BY <1>4, <1>9, <1>10, <1>11 DEF Pages
<1>14. QED
  BY <1>5, <1>6, <1>7, <1>12, <1>13 DEF h, i, id, m, left

\* Nothing is left to give up.
LEMMA DoneKeepsPages ==
  ASSUME NEW w \in Worker, NEW g, NEW j, NEW t,
         Pages(w, g, j, t), j.op = "free", j.left = EmptyTable(w)
  PROVE  Pages(w, g, NoJob, t) /\ g.pending = NoPending(w)
<1>1. j.left[0] = <<>>
  BY LayerZero DEF EmptyTable
<1>2. FreeOK(w, g, t, j.left)
  BY DEF Pages
<1>3. SamePending(w, <<>>) = NoPending(w)
  BY DEF SamePending, NoPending
<1>4. g.pending = NoPending(w)
  BY <1>1, <1>2, <1>3 DEF FreeOK, LayersHave, FirstHas
<1>5. QED
  BY <1>4 DEF Pages, NoJob

-----------------------------------------------------------------------------
(* The stream.                                                               *)

\* The GPU finishes its front entry.
LEMMA StepKeepsQuiet ==
  ASSUME NEW g, NEW s \in Seq(Entry), s # <<>>, Quiet(g, s)
  PROVE  Quiet(g, Tail(s)) /\ Tail(s) \in Seq(Entry)
<1>1. /\ Tail(s) \in Seq(Entry) /\ DOMAIN s = 1..Len(s) /\ Len(s) \in Nat
      /\ DOMAIN Tail(s) = 1..(Len(s) - 1)
      /\ \A k \in 1..(Len(s) - 1) : Tail(s)[k] = s[k + 1]
  OBVIOUS
<1>2. ASSUME NEW k \in DOMAIN Tail(s), IsKernel(Tail(s)[k])
      PROVE  /\ Tail(s)[k].kernel # {}
             /\ \A id \in Tail(s)[k].kernel :
                  /\ id \in DOMAIN g.pages /\ id \notin g.freePages
                  /\ id \in Range(g.retiring) =>
                       \E m \in DOMAIN Tail(s) : k < m /\ Tail(s)[m] = [fence |-> id]
  <2>1. k + 1 \in DOMAIN s /\ IsKernel(s[k + 1]) /\ Tail(s)[k] = s[k + 1]
    BY <1>1, <1>2
  <2>2. ASSUME NEW id \in s[k + 1].kernel, id \in Range(g.retiring)
        PROVE  \E m \in DOMAIN Tail(s) : k < m /\ Tail(s)[m] = [fence |-> id]
    <3>1. PICK m \in DOMAIN s : k + 1 < m /\ s[m] = [fence |-> id]
      BY <2>1, <2>2 DEF Quiet
    <3>2. m - 1 \in DOMAIN Tail(s) /\ k < m - 1 /\ Tail(s)[m - 1] = s[m]
      BY <3>1, <1>1
    <3>3. QED
      BY <3>1, <3>2
  <2>3. QED
    BY <2>1, <2>2 DEF Quiet
<1>3. QED
  BY <1>1, <1>2 DEF Quiet

\* A kernel over pages of block tables is put on the stream.
LEMMA LaunchKeepsQuiet ==
  ASSUME NEW w, NEW g, NEW j, NEW t, NEW s \in Seq(Entry), Quiet(g, s),
         GroupTyped(w, g), Pages(w, g, j, t), NEW ids, ids \subseteq TableIds(t), ids # {}
  PROVE  /\ Quiet(g, Append(s, [kernel |-> ids]))
         /\ Append(s, [kernel |-> ids]) \in Seq(Entry)
<1> DEFINE e == [kernel |-> ids]
           v == Append(s, e)
<1>1. \A id \in ids : /\ id \in DOMAIN g.pages /\ id \notin g.freePages
                      /\ id \notin Range(g.retiring) /\ id \in Nat
  BY DEF Pages, TablesOK, RetiringOK, InUse, GroupTyped
<1>2. e \in Entry /\ e.kernel = ids
  BY <1>1 DEF Entry
<1> HIDE DEF e
<1>3. /\ v \in Seq(Entry) /\ DOMAIN v = 1..(Len(s) + 1) /\ Len(s) \in Nat
      /\ DOMAIN s = 1..Len(s)
      /\ \A k \in 1..Len(s) : v[k] = s[k]
      /\ v[Len(s) + 1] = e
  BY <1>2
<1> HIDE DEF v
<1>4. ASSUME NEW k \in DOMAIN v, IsKernel(v[k])
      PROVE  /\ v[k].kernel # {}
             /\ \A id \in v[k].kernel :
                  /\ id \in DOMAIN g.pages /\ id \notin g.freePages
                  /\ id \in Range(g.retiring) =>
                       \E m \in DOMAIN v : k < m /\ v[m] = [fence |-> id]
  <2>1. CASE k = Len(s) + 1
    BY <2>1, <1>1, <1>2, <1>3
  <2>2. CASE k # Len(s) + 1
    <3>1. k \in DOMAIN s /\ v[k] = s[k] /\ IsKernel(s[k])
      BY <2>2, <1>3, <1>4
    <3>2. \A m \in DOMAIN s : m \in DOMAIN v /\ v[m] = s[m]
      BY <1>3
    <3>3. QED
      BY <3>1, <3>2 DEF Quiet
  <2>3. QED
    BY <2>1, <2>2
<1>5. QED
  BY <1>3, <1>4 DEF Quiet, v, e

\* A page retires, a fence for it behind everything on the stream.
LEMMA FenceKeepsQuiet ==
  ASSUME NEW w, NEW g, NEW h, NEW s \in Seq(Entry), Quiet(g, s),
         GroupTyped(w, g), NEW id \in Nat,
         DOMAIN h.pages = DOMAIN g.pages, h.freePages = g.freePages,
         h.retiring = Append(g.retiring, id)
  PROVE  /\ Quiet(h, Append(s, [fence |-> id]))
         /\ Append(s, [fence |-> id]) \in Seq(Entry)
<1> DEFINE e == [fence |-> id]
           v == Append(s, e)
<1>1. e \in Entry /\ ~ IsKernel(e)
  BY DEF Entry, IsKernel
<1>2. Range(h.retiring) = Range(g.retiring) \cup {id}
  BY AppendQueue DEF GroupTyped
<1>3. e = [fence |-> id]
  OBVIOUS
<1> HIDE DEF e
<1>4. /\ v \in Seq(Entry) /\ DOMAIN v = 1..(Len(s) + 1) /\ Len(s) \in Nat
      /\ DOMAIN s = 1..Len(s)
      /\ \A k \in 1..Len(s) : v[k] = s[k]
      /\ v[Len(s) + 1] = e
  BY <1>1
<1> HIDE DEF v
<1>5. ASSUME NEW k \in DOMAIN v, IsKernel(v[k])
      PROVE  /\ v[k].kernel # {}
             /\ \A x \in v[k].kernel :
                  /\ x \in DOMAIN h.pages /\ x \notin h.freePages
                  /\ x \in Range(h.retiring) =>
                       \E m \in DOMAIN v : k < m /\ v[m] = [fence |-> x]
  <2>1. k # Len(s) + 1
    BY <1>1, <1>4, <1>5
  <2>2. k \in DOMAIN s /\ v[k] = s[k] /\ IsKernel(s[k]) /\ k < Len(s) + 1
    BY <2>1, <1>4, <1>5
  <2>3. ASSUME NEW x \in v[k].kernel, x \in Range(h.retiring)
        PROVE  \E m \in DOMAIN v : k < m /\ v[m] = [fence |-> x]
    <3>1. CASE x = id
      BY <3>1, <2>2, <1>3, <1>4
    <3>2. CASE x # id
      <4>1. PICK m \in DOMAIN s : k < m /\ s[m] = [fence |-> x]
        BY <2>2, <2>3, <3>2, <1>2 DEF Quiet
      <4>2. QED
        BY <4>1, <1>4
    <3>3. QED
      BY <3>1, <3>2
  <2>4. QED
    BY <2>2, <2>3 DEF Quiet
<1>6. QED
  BY <1>4, <1>5 DEF Quiet, v, e

-----------------------------------------------------------------------------
(* Chunks come and go.                                                       *)

\* Bytes with one chunk less.
LEMMA BytesRemove ==
  ASSUME NEW S, IsFiniteSet(S), S \subseteq ChunkLease, NEW c \in S
  PROVE  /\ BytesIn(S) = c.bytes + BytesIn(S \ {c})
         /\ BytesIn(S) \in Nat /\ BytesIn(S \ {c}) \in Nat /\ c.bytes \in Nat
<1> DEFINE f == [x \in S |-> x.bytes]
           e == [x \in S \ {c} |-> x.bytes]
<1>1. \A x \in S : x.bytes \in Nat
  BY DEF ChunkLease
<1>2. /\ \A x \in S : f[x] \in Nat /\ f[x] \in Int /\ f[x] = x.bytes
      /\ \A x \in S \ {c} : f[x] = e[x] /\ e[x] \in Nat
  BY <1>1
<1>3. IsFiniteSet(S \ {c})
  BY FS_RemoveElement
<1> HIDE DEF f, e
<1>4. SumFunctionOnSet(f, S) = f[c] + SumFunctionOnSet(f, S \ {c})
  BY <1>2, SumRemove
<1>5. SumFunctionOnSet(f, S \ {c}) = SumFunctionOnSet(e, S \ {c})
  BY <1>2, <1>3, SumSame
<1>6. SumFunctionOnSet(f, S) \in Nat /\ SumFunctionOnSet(e, S \ {c}) \in Nat
  BY <1>2, <1>3, SumNat
<1>7. f[c] = c.bytes
  BY <1>2
<1>8. BytesIn(S) = SumFunctionOnSet(f, S) /\ BytesIn(S \ {c}) = SumFunctionOnSet(e, S \ {c})
  BY DEF BytesIn, f, e
<1>9. QED
  BY <1>1, <1>4, <1>5, <1>6, <1>7, <1>8

\* What ChunkGranted and ChunkReturned make of a group.
Granted(w, g, k) ==
  [g EXCEPT !.chunks = @ \cup {k},
            !.pages = [id \in PageIds(w, k) \cup DOMAIN @ |->
                         IF id \in PageIds(w, k) THEN FreshPage ELSE @[id]],
            !.freePages = @ \cup PageIds(w, k),
            !.leasedBytes = @ + k.bytes]
Returned(w, g, k) ==
  [g EXCEPT !.chunks = @ \ {k},
            !.pages = [id \in DOMAIN g.pages \ PageIds(w, k) |-> @[id]],
            !.freePages = @ \cap (DOMAIN g.pages \ PageIds(w, k)),
            !.leasedBytes = @ - k.bytes]

\* A chunk joins the group, all its pages free.
LEMMA ChunkJoins ==
  ASSUME NEW w \in Worker, NEW g, NEW h, NEW c \in OwnLease(w),
         GroupTyped(w, g), Geometry(w, g), WholePages(w, c), c \notin g.chunks,
         \A k \in g.chunks : Apart(c, k) /\ Apart(k, c),
         g.leasedBytes + c.bytes <= Limit[w],
         h = Granted(w, g, c)
  PROVE  /\ Geometry(w, h) /\ GroupTyped(w, h)
         /\ h.chunks = g.chunks \cup {c}
         /\ h.retiring = g.retiring /\ h.pending = g.pending /\ h.failed = g.failed
         /\ \A id \in DOMAIN g.pages \ g.freePages :
              /\ id \in DOMAIN h.pages /\ id \notin h.freePages
              /\ h.pages[id] = g.pages[id]
         /\ c.offset \div Half[w] \in h.freePages
<1> DEFINE ids == PageIds(w, c)
<1>0. /\ DOMAIN h = DOMAIN g
      /\ h.chunks = g.chunks \cup {c} /\ h.leasedBytes = g.leasedBytes + c.bytes
      /\ h.pages = [id \in ids \cup DOMAIN g.pages |->
                      IF id \in ids THEN FreshPage ELSE g.pages[id]]
      /\ h.freePages = g.freePages \cup ids
      /\ h.retiring = g.retiring /\ h.pending = g.pending /\ h.failed = g.failed
  BY DEF Granted, GroupTyped
<1> HIDE DEF ids
<1>1. /\ g.chunks \subseteq ChunkLease /\ IsFiniteSet(g.chunks)
      /\ \A k \in g.chunks : k.model = w
      /\ c \in ChunkLease /\ c.model = w /\ c.bytes \in Nat /\ g.leasedBytes \in Nat
  BY DEF GroupTyped, OwnLease, ChunkLease
<1>2. /\ h.chunks \subseteq ChunkLease /\ IsFiniteSet(h.chunks)
      /\ \A k \in h.chunks : k.model = w
  BY <1>0, <1>1, FS_AddElement
<1>3. /\ \A k \in g.chunks : WholePages(w, k)
      /\ DOMAIN g.pages = UNION {PageIds(w, k) : k \in g.chunks}
      /\ g.leasedBytes = BytesIn(g.chunks)
  BY DEF Geometry
<1>4. ids \subseteq Nat
  BY <1>1, PageInChunk DEF ids
<1>5. ids \cap DOMAIN g.pages = {}
  <2>1. ASSUME NEW id \in ids, NEW k \in g.chunks PROVE id \notin PageIds(w, k)
    BY <1>1, <1>3, <2>1, ApartPages DEF ids
  <2>2. QED
    BY <2>1, <1>3
<1>6. h.leasedBytes = BytesIn(h.chunks)
  <2>1. c \in h.chunks /\ h.chunks \ {c} = g.chunks
    BY <1>0
  <2>2. /\ BytesIn(h.chunks) = c.bytes + BytesIn(g.chunks)
        /\ BytesIn(g.chunks) \in Nat
    BY <2>1, <1>2, BytesRemove
  <2>3. QED
    BY <2>2, <1>0, <1>1, <1>3
<1>7. DOMAIN h.pages = UNION {PageIds(w, k) : k \in h.chunks}
  BY <1>0, <1>3 DEF ids
<1>8. \A k, d \in h.chunks : k # d => Apart(k, d)
  BY <1>0 DEF Geometry
<1>9. h.leasedBytes \in Nat /\ h.leasedBytes <= Limit[w]
  BY <1>0, <1>1
<1>10. \A k \in h.chunks : WholePages(w, k)
  BY <1>0, <1>3
<1>11. Geometry(w, h)
  BY <1>6, <1>7, <1>8, <1>9, <1>10 DEF Geometry
<1>12. /\ DOMAIN h.pages = ids \cup DOMAIN g.pages
       /\ \A id \in DOMAIN g.pages : h.pages[id] = g.pages[id]
       /\ \A id \in ids : h.pages[id] = FreshPage
  BY <1>0, <1>5
<1>13. GroupTyped(w, h)
  <2>1. FreshPage \in PageRecord(w)
    BY DEF FreshPage, PageRecord
  <2>2. /\ DOMAIN h.pages \subseteq Nat
        /\ \A id \in DOMAIN h.pages : h.pages[id] \in PageRecord(w)
    BY <2>1, <1>4, <1>12 DEF GroupTyped
  <2>3. h.freePages \subseteq DOMAIN h.pages
    BY <1>0, <1>12 DEF GroupTyped
  <2>4. QED
    BY <1>0, <1>2, <1>9, <2>2, <2>3 DEF GroupTyped
<1>14. \A id \in DOMAIN g.pages \ g.freePages :
         /\ id \in DOMAIN h.pages /\ id \notin h.freePages /\ h.pages[id] = g.pages[id]
  BY <1>0, <1>5, <1>12
<1>15. c.offset \div Half[w] \in h.freePages
  <2>1. c.offset \div Half[w] \in ids
    BY <1>1, FirstPage DEF ids
  <2>2. QED
    BY <2>1, <1>0
<1>16. QED
  BY <1>0, <1>11, <1>13, <1>14, <1>15

\* A chunk whose pages are all free leaves the group.
LEMMA ChunkLeaves ==
  ASSUME NEW w \in Worker, NEW g, NEW h, NEW c \in g.chunks,
         GroupTyped(w, g), Geometry(w, g), PageIds(w, c) \subseteq g.freePages,
         h = Returned(w, g, c)
  PROVE  /\ Geometry(w, h) /\ GroupTyped(w, h)
         /\ h.chunks = g.chunks \ {c}
         /\ h.retiring = g.retiring /\ h.pending = g.pending /\ h.failed = g.failed
         /\ \A id \in DOMAIN g.pages \ g.freePages :
              /\ id \in DOMAIN h.pages /\ id \notin h.freePages
              /\ h.pages[id] = g.pages[id]
<1> DEFINE ids == PageIds(w, c)
           rest == DOMAIN g.pages \ ids
<1>0. /\ DOMAIN h = DOMAIN g
      /\ h.chunks = g.chunks \ {c} /\ h.leasedBytes = g.leasedBytes - c.bytes
      /\ h.pages = [id \in rest |-> g.pages[id]]
      /\ h.freePages = g.freePages \cap rest
      /\ h.retiring = g.retiring /\ h.pending = g.pending /\ h.failed = g.failed
  BY DEF Returned, GroupTyped
<1> HIDE DEF ids
<1>1. /\ g.chunks \subseteq ChunkLease /\ IsFiniteSet(g.chunks)
      /\ \A k \in g.chunks : k.model = w
      /\ c \in ChunkLease /\ Limit[w] \in Nat
  BY PageBytesPositive DEF GroupTyped
<1>2. /\ h.chunks \subseteq ChunkLease /\ IsFiniteSet(h.chunks)
      /\ \A k \in h.chunks : k.model = w
  BY <1>0, <1>1, FS_RemoveElement
<1>3. /\ \A k \in g.chunks : WholePages(w, k)
      /\ \A k, d \in g.chunks : k # d => Apart(k, d)
      /\ DOMAIN g.pages = UNION {PageIds(w, k) : k \in g.chunks}
      /\ g.leasedBytes = BytesIn(g.chunks)
      /\ g.leasedBytes <= Limit[w]
  BY DEF Geometry
<1>4. \A k \in g.chunks \ {c} : PageIds(w, k) \cap ids = {}
  BY <1>1, <1>3, ApartPages DEF ids
<1>5. DOMAIN h.pages = UNION {PageIds(w, k) : k \in h.chunks}
  BY <1>0, <1>3, <1>4 DEF ids
<1>6. /\ BytesIn(g.chunks) = c.bytes + BytesIn(h.chunks)
      /\ BytesIn(g.chunks) \in Nat /\ BytesIn(h.chunks) \in Nat /\ c.bytes \in Nat
  <2>1. /\ BytesIn(g.chunks) = c.bytes + BytesIn(g.chunks \ {c})
        /\ BytesIn(g.chunks) \in Nat /\ BytesIn(g.chunks \ {c}) \in Nat /\ c.bytes \in Nat
    BY <1>1, BytesRemove, Zenon
  <2>2. QED
    BY <2>1, <1>0
<1>7. /\ h.leasedBytes = BytesIn(h.chunks) /\ h.leasedBytes \in Nat
      /\ h.leasedBytes <= Limit[w]
  BY <1>0, <1>1, <1>3, <1>6
<1>8. Geometry(w, h)
  BY <1>0, <1>3, <1>5, <1>7 DEF Geometry
<1>9. GroupTyped(w, h)
  <2>1. /\ DOMAIN h.pages \subseteq Nat /\ h.freePages \subseteq DOMAIN h.pages
        /\ \A id \in DOMAIN h.pages : h.pages[id] \in PageRecord(w)
    BY <1>0 DEF GroupTyped
  <2>2. QED
    BY <2>1, <1>0, <1>2, <1>7 DEF GroupTyped
<1>10. QED
  BY <1>0, <1>8, <1>9 DEF ids

-----------------------------------------------------------------------------
(* One worker moves, the others stay as they are.                            *)

Others(w) == \A v \in Worker \ {w} :
  /\ group'[v] = group[v] /\ pc'[v] = pc[v] /\ resume'[v] = resume[v]
  /\ job'[v] = job[v] /\ table'[v] = table[v] /\ stream'[v] = stream[v]
  /\ lost'[v] = lost[v] /\ call'[v] = call[v] /\ orphan'[v] = orphan[v]

\* What the invariant says of a worker depends on its own state and leases only.
LEMMA OthersKeep ==
  ASSUME NEW w \in Worker, Others(w), NEW v \in Worker \ {w}, WorkerInv(v),
         LeasesOf(v)' = LeasesOf(v)
  PROVE  WorkerInv(v)'
BY DEF Others, WorkerInv

\* The invariant after a step of w that leaves the owner's leases alone.
LEMMA WorkerMoves ==
  ASSUME IInv, NEW w \in Worker, UNCHANGED allocVars, UNCHANGED ownerUp,
         Domains', Others(w),
         WorkerOK(w, group'[w], pc'[w], resume'[w], job'[w], table'[w], stream'[w],
                  lost'[w], call'[w], orphan'[w], LeasesOf(w))
  PROVE  IInv'
<1>1. AllocOK'
  BY AllocStutters DEF IInv
<1>2. OwnerInv'
  BY DEF IInv, OwnerInv, allocVars
<1>3. \A v \in Worker : LeasesOf(v)' = LeasesOf(v)
  BY DEF allocVars, LeasesOf
<1>4. WorkerInv(w)'
  BY <1>3 DEF WorkerInv
<1>5. \A v \in Worker \ {w} : WorkerInv(v)'
  BY <1>3, OthersKeep DEF IInv
<1>6. QED
  BY <1>1, <1>2, <1>4, <1>5 DEF IInv

-----------------------------------------------------------------------------
(* Steps of one worker, as facts about its values before and after.          *)

\* A group call under way: nothing failed, no orphan.
LEMMA InCall ==
  ASSUME NEW w \in Worker, NEW g, NEW p, NEW r, NEW j, NEW t, NEW s, NEW lo, NEW c, NEW o,
         NEW L, WorkerOK(w, g, p, r, j, t, s, lo, c, o, L),
         \/ p \in {"collect", "release", "reserve", "acquire", "fill"}
         \/ p = "idle" /\ (j # NoJob \/ ~ g.failed)
  PROVE  /\ ~ lo /\ lo \in BOOLEAN /\ ~ g.failed /\ o = None
         /\ Geometry(w, g) /\ Books(w, g, lo, c, o, L) /\ Pages(w, g, j, t)
         /\ Typed(w, g, j, t, s, c, o) /\ Quiet(g, s)
<1>1. /\ Typed(w, g, j, t, s, c, o) /\ Quiet(g, s)
      /\ Control(w, g, p, r, j, t, s, lo, c, o, L)
      /\ Live(p) => Geometry(w, g) /\ Books(w, g, lo, c, o, L) /\ Pages(w, g, j, t)
  BY DEF WorkerOK
<1>2. Live(p) /\ p # "failing" /\ p # "gone"
  BY DEF Live, PC
<1>3. lo \in BOOLEAN /\ g.failed \in BOOLEAN
  BY <1>1 DEF Control, Typed, GroupTyped
<1>4. ~ g.failed
  BY <1>1, <1>2 DEF Control
<1>5. ~ lo
  BY <1>1, <1>2, <1>4 DEF Control
<1>6. o = None
  BY <1>1, <1>2, <1>5 DEF Control
<1>7. QED
  BY <1>1, <1>2, <1>3, <1>4, <1>5, <1>6

\* Outside of an exchange the group's chunks are the owner's leases.
LEMMA Settled ==
  ASSUME NEW w, NEW g, NEW c, NEW L, NEW o, Books(w, g, FALSE, c, o, L),
         c.state \notin {"released", "granted"}
  PROVE  g.chunks = L
<1>1. \A k : c # [state |-> "released", lease |-> k] /\ c # [state |-> "granted", lease |-> k]
  OBVIOUS
<1>2. QED
  BY <1>1 DEF Books

\* Books and Geometry depend on little of the group.
LEMMA ChunksFrame ==
  ASSUME NEW w, NEW g, NEW h, NEW lo, NEW c, NEW o, NEW L,
         Geometry(w, g), Books(w, g, lo, c, o, L),
         h.chunks = g.chunks, h.freePages = g.freePages, h.leasedBytes = g.leasedBytes,
         DOMAIN h.pages = DOMAIN g.pages
  PROVE  Geometry(w, h) /\ Books(w, h, lo, c, o, L)
<1>1. Geometry(w, h)
  BY DEF Geometry
<1>2. Books(w, h, lo, c, o, L)
  BY DEF Books
<1>3. QED
  BY <1>1, <1>2

\* With the group settled, its books hold whatever is free.
LEMMA SettledBooks ==
  ASSUME NEW w, NEW g, NEW h, NEW o, o = None, h.chunks = g.chunks, NEW L, g.chunks = L,
         NEW c, c.state \notin {"released", "granted"},
         c.state = "release" =>
           c.lease \in g.chunks /\ PageIds(w, c.lease) \subseteq h.freePages,
         c.state \in {"acquire", "refused"} =>
           /\ c.bytes > 0 /\ IsMultiple(c.bytes, PageBytes(w))
           /\ h.leasedBytes + c.bytes <= Limit[w]
  PROVE  Books(w, h, FALSE, c, o, L)
<1>1. o.state # "release"
  BY DEF None
<1>2. QED
  BY <1>1 DEF Books

\* What is ready has been collected.
LEMMA CollectStopsOK ==
  ASSUME NEW w \in Worker, NEW g, NEW r, NEW j, NEW t, NEW s, NEW lo, NEW c, NEW o,
         NEW L, WorkerOK(w, g, "collect", r, j, t, s, lo, c, o, L)
  PROVE  WorkerOK(w, g, r, r, j, t, s, lo, c, o, L)
<1>1. /\ ~ lo /\ lo \in BOOLEAN /\ ~ g.failed /\ o = None
      /\ Geometry(w, g) /\ Books(w, g, lo, c, o, L) /\ Pages(w, g, j, t)
      /\ Typed(w, g, j, t, s, c, o) /\ Quiet(g, s)
  BY InCall
<1>2. Control(w, g, "collect", r, j, t, s, lo, c, o, L)
  BY DEF WorkerOK
<1>3. Control(w, g, r, r, j, t, s, lo, c, o, L)
  BY <1>1, <1>2 DEF Control, Live, PC
<1>4. QED
  BY <1>1, <1>3 DEF WorkerOK

\* An append begins.
LEMMA StartAppendOK ==
  ASSUME NEW w \in Worker, NEW g, NEW r, NEW j, NEW t, NEW s, NEW lo, NEW c, NEW o,
         NEW L, WorkerOK(w, g, "idle", r, j, t, s, lo, c, o, L),
         j = NoJob, ~ g.failed, NEW q \in Request, NEW n \in Nat \ {0},
         NEW i, i = [op |-> "append", seq |-> q, want |-> n, got |-> <<>>]
  PROVE  WorkerOK(w, g, "collect", "reserve", i, t, s, lo, c, o, L)
<1>1. /\ ~ lo /\ lo \in BOOLEAN /\ ~ g.failed /\ o = None
      /\ Geometry(w, g) /\ Books(w, g, lo, c, o, L) /\ Pages(w, g, j, t)
      /\ Typed(w, g, j, t, s, c, o) /\ Quiet(g, s)
  BY InCall
<1>2. Control(w, g, "idle", r, j, t, s, lo, c, o, L)
  BY DEF WorkerOK
<1>3. i \in AppendJob /\ i.op = "append" /\ i.got = <<>> /\ i.want = n
  BY EmptyQueue DEF AppendJob
<1>4. Typed(w, g, i, t, s, c, o)
  BY <1>1, <1>3 DEF Typed, JobTyped
<1>5. Len(i.got) < i.want
  BY <1>3
<1>6. Control(w, g, "collect", "reserve", i, t, s, lo, c, o, L)
  BY <1>1, <1>2, <1>3, <1>5 DEF Control, Live, PC
<1>7. AppendOK(w, g, t, <<>>)
  <2>1. g.pending = NoPending(w)
    BY <1>1, <1>2 DEF Control, Live, PC
  <2>2. SamePending(w, <<>>) = NoPending(w)
    BY DEF SamePending, NoPending
  <2>3. QED
    BY <2>1, <2>2, EmptyQueue DEF AppendOK
<1>8. Pages(w, g, i, t)
  BY <1>1, <1>3, <1>7 DEF Pages
<1>9. QED
  BY <1>1, <1>4, <1>6, <1>8 DEF WorkerOK

\* Where TakePage goes.
AfterTake(i, n) == IF Len(i.got) = n THEN "fill" ELSE "collect"

\* A free page is taken for the append.
LEMMA TakeOK ==
  ASSUME NEW w \in Worker, NEW g, NEW h, NEW j, NEW i, NEW t, NEW s, NEW lo, NEW c, NEW o,
         NEW L, WorkerOK(w, g, "reserve", "reserve", j, t, s, lo, c, o, L),
         NEW id \in g.freePages, i = Got(j, id), h = Taken(w, g, id),
         NEW z, z = AfterTake(i, j.want)
  PROVE  WorkerOK(w, h, z, "reserve", i, t, s, lo, c, o, L)
<1>1. /\ ~ lo /\ lo \in BOOLEAN /\ ~ g.failed /\ o = None
      /\ Geometry(w, g) /\ Books(w, g, lo, c, o, L) /\ Pages(w, g, j, t)
      /\ Typed(w, g, j, t, s, c, o) /\ Quiet(g, s)
  BY InCall
<1>2. Control(w, g, "reserve", "reserve", j, t, s, lo, c, o, L)
  BY DEF WorkerOK
<1>3. c = None /\ j.op = "append" /\ Len(j.got) < j.want
  BY <1>2 DEF Control
<1>4. GroupTyped(w, g) /\ JobTyped(w, j)
  BY <1>1 DEF Typed
<1>5. /\ Pages(w, h, i, t) /\ Quiet(h, s)
      /\ i \in AppendJob /\ Len(i.got) = Len(j.got) + 1 /\ i.want = j.want
      /\ GroupTyped(w, h) /\ h.chunks = g.chunks /\ h.leasedBytes = g.leasedBytes
      /\ DOMAIN h.pages = DOMAIN g.pages /\ h.failed = g.failed
  BY <1>1, <1>3, <1>4, TakeKeepsPages, Z3T(30), ZenonT(60)
<1>6. Typed(w, h, i, t, s, c, o)
  BY <1>1, <1>5 DEF Typed, JobTyped
<1>7. Len(j.got) \in Nat /\ j.want \in Nat /\ i.op = "append"
  <2>1. j \in AppendJob
    BY <1>3, <1>4, JobKinds
  <2>2. QED
    BY <2>1, <1>5 DEF AppendJob
<1>9. /\ IF z = "fill" THEN Len(i.got) = i.want ELSE Len(i.got) < i.want
      /\ z \in {"fill", "collect"}
  BY <1>3, <1>5, <1>7 DEF AfterTake
<1>10. Control(w, h, z, "reserve", i, t, s, lo, c, o, L)
  BY <1>1, <1>2, <1>3, <1>5, <1>7, <1>9 DEF Control, Live, PC, NoJob
<1>11. Geometry(w, h)
  BY <1>1, <1>5 DEF Geometry
<1>12. Books(w, h, lo, c, o, L)
  <2>1. lo = FALSE /\ c.state = "none"
    BY <1>1, <1>3 DEF None
  <2>2. g.chunks = L
    BY <1>1, <2>1, Settled
  <2>3. QED
    BY <1>1, <1>5, <2>1, <2>2, SettledBooks
<1>13. QED
  BY <1>5, <1>6, <1>10, <1>11, <1>12 DEF WorkerOK

\* The owner granted a chunk: its pages are free.
LEMMA GrantedOK ==
  ASSUME NEW w \in Worker, NEW g, NEW h, NEW r, NEW j, NEW t, NEW s, NEW lo, NEW c, NEW o,
         NEW L, WorkerOK(w, g, "acquire", r, j, t, s, lo, c, o, L),
         c.state = "granted", \A k, l \in L : k # l => Apart(k, l),
         h = Granted(w, g, c.lease)
  PROVE  /\ WorkerOK(w, h, "reserve", "reserve", j, t, s, lo, None, o, L)
         /\ r = "reserve" /\ j \in AppendJob /\ GroupTyped(w, h)
         /\ c.lease.offset \div Half[w] \in h.freePages
<1> DEFINE k == c.lease
<1>1. /\ ~ lo /\ lo \in BOOLEAN /\ ~ g.failed /\ o = None
      /\ Geometry(w, g) /\ Books(w, g, lo, c, o, L) /\ Pages(w, g, j, t)
      /\ Typed(w, g, j, t, s, c, o) /\ Quiet(g, s)
  BY InCall
<1>2. Control(w, g, "acquire", r, j, t, s, lo, c, o, L)
  BY DEF WorkerOK
<1>3. GroupTyped(w, g) /\ JobTyped(w, j)
  BY <1>1 DEF Typed
<1>4. /\ k \in OwnLease(w) /\ k \in L /\ k \notin g.chunks /\ WholePages(w, k)
      /\ g.leasedBytes + k.bytes <= Limit[w]
  <2>1. k \in OwnLease(w)
    BY <1>1 DEF Typed, CallTyped, None
  <2>2. QED
    BY <1>1, <2>1 DEF Books
<1>5. g.chunks \subseteq L
  <2>1. \A x : c # [state |-> "released", lease |-> x]
    OBVIOUS
  <2>2. QED
    BY <1>1, <2>1 DEF Books
<1>6. L = g.chunks \cup {k}
  <2>1. \A x \in L \ g.chunks : x = k
    BY <1>1 DEF Books
  <2>2. QED
    BY <1>4, <1>5, <2>1
<1>7. \A x \in g.chunks : Apart(k, x) /\ Apart(x, k)
  BY <1>4, <1>5
<1>8. h = Granted(w, g, k)
  OBVIOUS
<1> HIDE DEF k
<1>9. /\ Geometry(w, h) /\ GroupTyped(w, h)
      /\ h.chunks = g.chunks \cup {k}
      /\ h.retiring = g.retiring /\ h.pending = g.pending /\ h.failed = g.failed
      /\ \A id \in DOMAIN g.pages \ g.freePages :
           /\ id \in DOMAIN h.pages /\ id \notin h.freePages
           /\ h.pages[id] = g.pages[id]
      /\ k.offset \div Half[w] \in h.freePages
  BY <1>1, <1>3, <1>4, <1>7, <1>8, ChunkJoins
<1>10. Pages(w, h, j, t) /\ Quiet(h, s)
  BY <1>1, <1>9, PagesFrame
<1>11. Typed(w, h, j, t, s, None, o)
  BY <1>1, <1>9 DEF Typed, CallTyped
<1>12. Control(w, h, "reserve", r, j, t, s, lo, None, o, L) /\ r = "reserve"
  BY <1>1, <1>2, <1>9 DEF Control, Live, PC
<1>13. Books(w, h, lo, None, o, L)
  <2>1. lo = FALSE /\ None.state = "none" /\ h.chunks = L
    BY <1>1, <1>6, <1>9 DEF None
  <2>2. QED
    BY <1>1, <2>1, SettledBooks
<1>14. j \in AppendJob
  BY <1>2, <1>3, JobKinds DEF Control
<1>15. QED
  BY <1>9, <1>10, <1>11, <1>12, <1>13, <1>14 DEF WorkerOK, k

\* No page: the append gives up what it has.
LEMMA NoPageOK ==
  ASSUME NEW w \in Worker, NEW g, NEW p \in {"reserve", "acquire"}, NEW r, NEW j, NEW i,
         NEW t, NEW s, NEW lo, NEW c, NEW o,
         NEW L, WorkerOK(w, g, p, r, j, t, s, lo, c, o, L),
         c = None \/ c.state = "refused",
         i = [op |-> "free", left |-> [EmptyTable(w) EXCEPT ![0] = j.got]]
  PROVE  WorkerOK(w, g, "idle", r, i, t, s, lo, None, o, L)
<1>1. /\ ~ lo /\ lo \in BOOLEAN /\ ~ g.failed /\ o = None
      /\ Geometry(w, g) /\ Books(w, g, lo, c, o, L) /\ Pages(w, g, j, t)
      /\ Typed(w, g, j, t, s, c, o) /\ Quiet(g, s)
  BY InCall
<1>2. Control(w, g, p, r, j, t, s, lo, c, o, L)
  BY DEF WorkerOK
<1>3. j.op = "append" /\ GroupTyped(w, g) /\ JobTyped(w, j)
  BY <1>1, <1>2 DEF Control, Typed
<1>4. Pages(w, g, i, t) /\ i \in FreeJob(w)
  BY <1>1, <1>3, NoPageKeepsPages
<1>5. Typed(w, g, i, t, s, None, o)
  BY <1>1, <1>4 DEF Typed, JobTyped, CallTyped
<1>6. i.op = "free"
  OBVIOUS
<1>7. Control(w, g, "idle", r, i, t, s, lo, None, o, L)
  BY <1>1, <1>2, <1>6 DEF Control, Live, PC, NoJob
<1>8. Books(w, g, lo, None, o, L)
  <2>1. lo = FALSE /\ None.state = "none" /\ c.state \notin {"released", "granted"}
    BY <1>1 DEF None
  <2>2. g.chunks = L
    BY <1>1, <2>1, Settled
  <2>3. QED
    BY <1>1, <2>1, <2>2, SettledBooks
<1>9. QED
  BY <1>1, <1>4, <1>5, <1>7, <1>8 DEF WorkerOK

\* The group asks for a chunk, or for a page when the chunk was refused.
LEMMA AskOK ==
  ASSUME NEW w \in Worker, NEW g, NEW p \in {"reserve", "acquire"}, NEW r, NEW j,
         NEW t, NEW s, NEW lo, NEW c, NEW o,
         NEW L, WorkerOK(w, g, p, r, j, t, s, lo, c, o, L),
         c = None \/ c.state = "refused",
         NEW b \in Nat \ {0}, IsMultiple(b, PageBytes(w)), g.leasedBytes + b <= Limit[w],
         NEW d, d = [state |-> "acquire", bytes |-> b]
  PROVE  WorkerOK(w, g, "acquire", r, j, t, s, lo, d, o, L) /\ ~ lo
<1>1. /\ ~ lo /\ lo \in BOOLEAN /\ ~ g.failed /\ o = None
      /\ Geometry(w, g) /\ Books(w, g, lo, c, o, L) /\ Pages(w, g, j, t)
      /\ Typed(w, g, j, t, s, c, o) /\ Quiet(g, s)
  BY InCall
<1>2. Control(w, g, p, r, j, t, s, lo, c, o, L)
  BY DEF WorkerOK
<1>3. d.state = "acquire" /\ d.bytes = b
  OBVIOUS
<1>4. Typed(w, g, j, t, s, d, o)
  BY <1>1 DEF Typed, CallTyped
<1>5. Control(w, g, "acquire", r, j, t, s, lo, d, o, L)
  BY <1>1, <1>2, <1>3 DEF Control, Live, PC
<1>6. Books(w, g, lo, d, o, L)
  <2>1. lo = FALSE /\ c.state \notin {"released", "granted"}
    BY <1>1 DEF None
  <2>2. g.chunks = L
    BY <1>1, <2>1, Settled
  <2>3. b > 0
    OBVIOUS
  <2>4. QED
    BY <1>1, <1>3, <2>1, <2>2, <2>3, SettledBooks
<1>7. Pages(w, g, j, t)
  BY <1>1
<1>8. QED
  BY <1>1, <1>4, <1>5, <1>6, <1>7 DEF WorkerOK

\* What CollectPage makes of a group.
Collected(g) ==
  [g EXCEPT !.retiring = Tail(@),
            !.freePages = @ \cup {Head(g.retiring)},
            !.pages[Head(g.retiring)].retired = FALSE]

\* Its fields.
LEMMA CollectedParts ==
  ASSUME NEW w \in Worker, NEW g, GroupTyped(w, g), g.retiring # <<>>,
         NEW id, id = Head(g.retiring), id \in DOMAIN g.pages, NEW h, h = Collected(g)
  PROVE  /\ GroupTyped(w, h)
         /\ h.retiring = Tail(g.retiring) /\ h.freePages = g.freePages \cup {id}
         /\ h.pages = [g.pages EXCEPT ![id].retired = FALSE] /\ h.pending = g.pending
         /\ h.chunks = g.chunks /\ h.leasedBytes = g.leasedBytes /\ h.failed = g.failed
         /\ DOMAIN h.pages = DOMAIN g.pages
<1>1. /\ DOMAIN h = DOMAIN g
      /\ h.retiring = Tail(g.retiring) /\ h.freePages = g.freePages \cup {id}
      /\ h.pages = [g.pages EXCEPT ![id].retired = FALSE] /\ h.pending = g.pending
      /\ h.chunks = g.chunks /\ h.leasedBytes = g.leasedBytes /\ h.failed = g.failed
  BY DEF Collected, GroupTyped
<1>2. DOMAIN h.pages = DOMAIN g.pages
  BY <1>1
<1>3. \A x \in DOMAIN h.pages : h.pages[x] \in PageRecord(w)
  <2>1. TAKE x \in DOMAIN h.pages
  <2>2. g.pages[x] \in PageRecord(w)
    BY <1>2 DEF GroupTyped
  <2>3. CASE x = id
    <3>1. h.pages[x] = [g.pages[x] EXCEPT !.retired = FALSE]
      BY <1>1, <2>3
    <3>2. QED
      BY <2>2, <3>1 DEF PageRecord
  <2>4. CASE x # id
    BY <1>1, <1>2, <2>2, <2>4
  <2>5. QED
    BY <2>3, <2>4
<1>4. h.retiring \in Seq(Nat)
  BY <1>1 DEF GroupTyped
<1>5. GroupTyped(w, h)
  BY <1>1, <1>2, <1>3, <1>4 DEF GroupTyped
<1>6. QED
  BY <1>1, <1>2, <1>5

\* The GPU has passed the page's fence.
NoFence(s, id) == \A k \in DOMAIN s : s[k] # [fence |-> id]

\* The front retiring page is collected.
LEMMA CollectPageOK ==
  ASSUME NEW w \in Worker, NEW g, NEW h, NEW r, NEW j, NEW t, NEW s, NEW lo, NEW c, NEW o,
         NEW L, WorkerOK(w, g, "collect", r, j, t, s, lo, c, o, L),
         g.retiring # <<>>, NoFence(s, Head(g.retiring)), h = Collected(g)
  PROVE  /\ WorkerOK(w, h, "collect", r, j, t, s, lo, c, o, L)
         /\ h.chunks = g.chunks /\ Geometry(w, g) /\ Head(g.retiring) \in DOMAIN g.pages
<1> DEFINE id == Head(g.retiring)
<1>1. /\ ~ lo /\ lo \in BOOLEAN /\ ~ g.failed /\ o = None
      /\ Geometry(w, g) /\ Books(w, g, lo, c, o, L) /\ Pages(w, g, j, t)
      /\ Typed(w, g, j, t, s, c, o) /\ Quiet(g, s)
  BY InCall
<1>2. Control(w, g, "collect", r, j, t, s, lo, c, o, L)
  BY DEF WorkerOK
<1>3. GroupTyped(w, g) /\ JobTyped(w, j) /\ c = None
  BY <1>1, <1>2 DEF Typed, Control
<1>4. id \in DOMAIN g.pages
  <2>1. id \in Range(g.retiring)
    BY <1>1, <1>3, TailQueue DEF Pages, RetiringOK, GroupTyped
  <2>2. QED
    BY <1>1, <2>1 DEF Pages, RetiringOK
<1>5. \A k \in DOMAIN s : s[k] # [fence |-> id]
  BY DEF NoFence
<1>6. id = Head(g.retiring)
  OBVIOUS
<1> HIDE DEF id
<1>7. /\ GroupTyped(w, h)
      /\ h.retiring = Tail(g.retiring) /\ h.freePages = g.freePages \cup {id}
      /\ h.pages = [g.pages EXCEPT ![id].retired = FALSE] /\ h.pending = g.pending
      /\ h.chunks = g.chunks /\ h.leasedBytes = g.leasedBytes /\ h.failed = g.failed
      /\ DOMAIN h.pages = DOMAIN g.pages
  BY <1>3, <1>4, <1>6, CollectedParts
<1>8. Pages(w, h, j, t) /\ Quiet(h, s)
  BY <1>1, <1>3, <1>5, <1>6, <1>7, CollectKeepsPages
<1>9. Typed(w, h, j, t, s, c, o)
  BY <1>1, <1>7 DEF Typed
<1>10. Control(w, h, "collect", r, j, t, s, lo, c, o, L)
  BY <1>1, <1>2, <1>7 DEF Control, Live, PC
<1>11. Geometry(w, h)
  BY <1>1, <1>7 DEF Geometry
<1>12. Books(w, h, lo, c, o, L)
  <2>1. lo = FALSE /\ c.state = "none"
    BY <1>1, <1>3 DEF None
  <2>2. g.chunks = L
    BY <1>1, <2>1, Settled
  <2>3. QED
    BY <1>1, <1>7, <2>1, <2>2, SettledBooks
<1>13. QED
  BY <1>1, <1>4, <1>6, <1>7, <1>8, <1>9, <1>10, <1>11, <1>12 DEF WorkerOK

\* A chunk whose pages are all free is offered to the owner.
LEMMA OfferOK ==
  ASSUME NEW w \in Worker, NEW g, NEW r, NEW j, NEW t, NEW s, NEW lo, NEW c, NEW o,
         NEW L, WorkerOK(w, g, "collect", r, j, t, s, lo, c, o, L),
         NEW k \in g.chunks, PageIds(w, k) \subseteq g.freePages,
         NEW d, d = [state |-> "release", lease |-> k]
  PROVE  WorkerOK(w, g, "release", r, j, t, s, lo, d, o, L) /\ ~ lo
<1>1. /\ ~ lo /\ lo \in BOOLEAN /\ ~ g.failed /\ o = None
      /\ Geometry(w, g) /\ Books(w, g, lo, c, o, L) /\ Pages(w, g, j, t)
      /\ Typed(w, g, j, t, s, c, o) /\ Quiet(g, s)
  BY InCall
<1>2. Control(w, g, "collect", r, j, t, s, lo, c, o, L)
  BY DEF WorkerOK
<1>3. GroupTyped(w, g) /\ c = None
  BY <1>1, <1>2 DEF Typed, Control
<1>4. d.state = "release" /\ d.lease = k /\ k \in OwnLease(w)
  BY <1>3 DEF GroupTyped, OwnLease
<1>5. Typed(w, g, j, t, s, d, o)
  BY <1>1, <1>4 DEF Typed, CallTyped
<1>6. Control(w, g, "release", r, j, t, s, lo, d, o, L)
  BY <1>1, <1>2, <1>4 DEF Control, Live, PC
<1>7. Books(w, g, lo, d, o, L)
  <2>1. lo = FALSE /\ c.state = "none"
    BY <1>1, <1>3 DEF None
  <2>2. g.chunks = L
    BY <1>1, <2>1, Settled
  <2>3. QED
    BY <1>1, <1>4, <2>1, <2>2, SettledBooks
<1>8. QED
  BY <1>1, <1>5, <1>6, <1>7 DEF WorkerOK

\* The owner took the chunk back.
LEMMA ReturnedOK ==
  ASSUME NEW w \in Worker, NEW g, NEW h, NEW r, NEW j, NEW t, NEW s, NEW lo, NEW c, NEW o,
         NEW L, WorkerOK(w, g, "release", r, j, t, s, lo, c, o, L),
         c.state = "released", h = Returned(w, g, c.lease)
  PROVE  WorkerOK(w, h, "collect", r, j, t, s, lo, None, o, L)
<1> DEFINE k == c.lease
<1>1. /\ ~ lo /\ lo \in BOOLEAN /\ ~ g.failed /\ o = None
      /\ Geometry(w, g) /\ Books(w, g, lo, c, o, L) /\ Pages(w, g, j, t)
      /\ Typed(w, g, j, t, s, c, o) /\ Quiet(g, s)
  BY InCall
<1>2. Control(w, g, "release", r, j, t, s, lo, c, o, L)
  BY DEF WorkerOK
<1>3. GroupTyped(w, g)
  BY <1>1 DEF Typed
<1>4. k \in g.chunks /\ k \notin L /\ PageIds(w, k) \subseteq g.freePages
  BY <1>1 DEF Books
<1>5. g.chunks \ {k} = L
  <2>1. \A x \in L : c # [state |-> "granted", lease |-> x]
    OBVIOUS
  <2>2. L \subseteq g.chunks
    BY <1>1, <2>1 DEF Books
  <2>3. \A x \in g.chunks \ L : c = [state |-> "released", lease |-> x]
    BY <1>1 DEF Books
  <2>4. \A x \in g.chunks \ L : x = k
    BY <2>3
  <2>5. QED
    BY <1>4, <2>2, <2>4
<1>6. h = Returned(w, g, k)
  OBVIOUS
<1> HIDE DEF k
<1>7. /\ Geometry(w, h) /\ GroupTyped(w, h)
      /\ h.chunks = g.chunks \ {k}
      /\ h.retiring = g.retiring /\ h.pending = g.pending /\ h.failed = g.failed
      /\ \A id \in DOMAIN g.pages \ g.freePages :
           /\ id \in DOMAIN h.pages /\ id \notin h.freePages
           /\ h.pages[id] = g.pages[id]
  BY <1>1, <1>3, <1>4, <1>6, ChunkLeaves
<1>8. Pages(w, h, j, t) /\ Quiet(h, s)
  BY <1>1, <1>7, PagesFrame
<1>9. Typed(w, h, j, t, s, None, o)
  BY <1>1, <1>7 DEF Typed, CallTyped
<1>10. Control(w, h, "collect", r, j, t, s, lo, None, o, L)
  BY <1>1, <1>2, <1>7 DEF Control, Live, PC
<1>11. Books(w, h, lo, None, o, L)
  <2>1. lo = FALSE /\ None.state = "none" /\ h.chunks = L
    BY <1>1, <1>5, <1>7 DEF None
  <2>2. QED
    BY <1>1, <2>1, SettledBooks
<1>12. QED
  BY <1>7, <1>8, <1>9, <1>10, <1>11 DEF WorkerOK

\* What Fill makes of a group and of the block tables.
FillTaken(g, j, l) == IF l = 0 THEN j.got ELSE SubSeq(g.pending[l], 1, j.want)
FilledPages(g, j) ==
  [id \in DOMAIN g.pages |->
     [g.pages[id] EXCEPT !.reserved = {l \in @ : ~ Contains(FillTaken(g, j, l), id)}]]
FilledPending(g, j) ==
  [l \in DOMAIN g.pending |-> SubSeq(g.pending[l], j.want + 1, Len(g.pending[l]))]
Filled(g, j) == [g EXCEPT !.pages = FilledPages(g, j), !.pending = FilledPending(g, j)]
FilledTable(w, g, j, t) ==
  [t EXCEPT ![j.seq] = [l \in Layer(w) |-> t[j.seq][l] \o FillTaken(g, j, l)]]

\* All layers take the pages that layer 0 got.
LEMMA FilledPagesAre ==
  ASSUME NEW w \in Worker, NEW g, NEW j, GroupTyped(w, g), j.got \in Seq(Nat),
         \A l \in Layer(w) : FillTaken(g, j, l) = j.got
  PROVE  /\ DOMAIN FilledPages(g, j) = DOMAIN g.pages
         /\ \A id \in DOMAIN g.pages :
              /\ FilledPages(g, j)[id] = Took(g.pages[id], j.got, id)
              /\ FilledPages(g, j)[id] \in PageRecord(w)
<1>1. DOMAIN FilledPages(g, j) = DOMAIN g.pages
  BY DEF FilledPages
<1>2. ASSUME NEW id \in DOMAIN g.pages
      PROVE  /\ FilledPages(g, j)[id] = Took(g.pages[id], j.got, id)
             /\ FilledPages(g, j)[id] \in PageRecord(w)
  <2> DEFINE page == g.pages[id]
             kept == {l \in page.reserved : ~ Contains(FillTaken(g, j, l), id)}
  <2>1. page \in PageRecord(w) /\ page.reserved \subseteq Layer(w)
    BY DEF GroupTyped, PageRecord
  <2>2. Contains(j.got, id) <=> id \in Range(j.got)
    BY CutQueue
  <2>3. kept = {l \in page.reserved : ~ (id \in Range(j.got))}
    BY <2>1, <2>2
  <2>4. FilledPages(g, j)[id] = [page EXCEPT !.reserved = kept]
    BY DEF FilledPages
  <2>5. [page EXCEPT !.reserved = kept] = Took(page, j.got, id)
    BY <2>3 DEF Took
  <2>6. kept \subseteq Layer(w)
    BY <2>1
  <2> HIDE DEF page, kept
  <2>7. [page EXCEPT !.reserved = kept] \in PageRecord(w)
    BY <2>1, <2>6 DEF PageRecord
  <2>8. QED
    BY <2>4, <2>5, <2>7 DEF page
<1>3. QED
  BY <1>1, <1>2

\* What is left pending is nothing.
LEMMA FilledParts ==
  ASSUME NEW w \in Worker, NEW g, NEW j, NEW t, NEW h, NEW u,
         GroupTyped(w, g), TableTyped(w, t), j \in AppendJob,
         g.pending = SamePending(w, j.got), Len(j.got) = j.want,
         h = Filled(g, j), u = FilledTable(w, g, j, t)
  PROVE  /\ GroupTyped(w, h)
         /\ u = Extended(w, t, j.seq, j.got)
         /\ DOMAIN h.pages = DOMAIN g.pages
         /\ \A id \in DOMAIN g.pages : h.pages[id] = Took(g.pages[id], j.got, id)
         /\ h.pending = NoPending(w)
         /\ h.freePages = g.freePages /\ h.retiring = g.retiring
         /\ h.chunks = g.chunks /\ h.leasedBytes = g.leasedBytes /\ h.failed = g.failed
<1>1. j.got \in Seq(Nat) /\ j.seq \in Request
  BY DEF AppendJob
<1>2. \A l \in Layer(w) : FillTaken(g, j, l) = j.got
  BY <1>1, CutQueue DEF FillTaken, SamePending
<1>3. /\ DOMAIN h = DOMAIN g
      /\ h.pages = FilledPages(g, j) /\ h.pending = FilledPending(g, j)
      /\ h.freePages = g.freePages /\ h.retiring = g.retiring
      /\ h.chunks = g.chunks /\ h.leasedBytes = g.leasedBytes /\ h.failed = g.failed
  BY DEF Filled, GroupTyped
<1>4. /\ DOMAIN h.pages = DOMAIN g.pages
      /\ \A id \in DOMAIN g.pages : /\ h.pages[id] = Took(g.pages[id], j.got, id)
                                    /\ h.pages[id] \in PageRecord(w)
  BY <1>1, <1>2, <1>3, FilledPagesAre
<1>5. h.pending = NoPending(w)
  <2>1. SubSeq(j.got, j.want + 1, Len(j.got)) = <<>>
    BY <1>1, CutQueue
  <2>2. DOMAIN g.pending = Layer(w) \ {0} /\ \A l \in DOMAIN g.pending : g.pending[l] = j.got
    BY DEF SamePending
  <2>3. FilledPending(g, j) = NoPending(w)
    BY <2>1, <2>2 DEF FilledPending, NoPending
  <2>4. QED
    BY <1>3, <2>3
<1>6. u = Extended(w, t, j.seq, j.got)
  <2>1. [l \in Layer(w) |-> t[j.seq][l] \o FillTaken(g, j, l)]
          = [l \in Layer(w) |-> t[j.seq][l] \o j.got]
    BY <1>2
  <2>2. QED
    BY <2>1 DEF FilledTable, Extended
<1>7. NoPending(w) \in [Layer(w) \ {0} -> Seq(Nat)]
  BY EmptyQueue DEF NoPending
<1>8. GroupTyped(w, h)
  BY <1>3, <1>4, <1>5, <1>7 DEF GroupTyped
<1>9. QED
  BY <1>3, <1>4, <1>5, <1>6, <1>8

\* The append is done.
LEMMA FillOK ==
  ASSUME NEW w \in Worker, NEW g, NEW h, NEW r, NEW j, NEW t, NEW u, NEW s, NEW lo, NEW c,
         NEW o, NEW L, WorkerOK(w, g, "fill", r, j, t, s, lo, c, o, L),
         h = Filled(g, j), u = FilledTable(w, g, j, t)
  PROVE  WorkerOK(w, h, "idle", r, NoJob, u, s, lo, c, o, L)
<1>1. /\ ~ lo /\ lo \in BOOLEAN /\ ~ g.failed /\ o = None
      /\ Geometry(w, g) /\ Books(w, g, lo, c, o, L) /\ Pages(w, g, j, t)
      /\ Typed(w, g, j, t, s, c, o) /\ Quiet(g, s)
  BY InCall
<1>2. Control(w, g, "fill", r, j, t, s, lo, c, o, L)
  BY DEF WorkerOK
<1>3. /\ GroupTyped(w, g) /\ JobTyped(w, j) /\ TableTyped(w, t)
      /\ j.op = "append" /\ Len(j.got) = j.want
  BY <1>1, <1>2 DEF Typed, Control
<1>4. j \in AppendJob /\ g.pending = SamePending(w, j.got)
  BY <1>1, <1>3, JobKinds DEF Pages, AppendOK
<1>5. /\ GroupTyped(w, h)
      /\ u = Extended(w, t, j.seq, j.got)
      /\ DOMAIN h.pages = DOMAIN g.pages
      /\ \A id \in DOMAIN g.pages : h.pages[id] = Took(g.pages[id], j.got, id)
      /\ h.pending = NoPending(w)
      /\ h.freePages = g.freePages /\ h.retiring = g.retiring
      /\ h.chunks = g.chunks /\ h.leasedBytes = g.leasedBytes /\ h.failed = g.failed
  BY <1>3, <1>4, FilledParts
<1>6. Pages(w, h, NoJob, u) /\ Quiet(h, s) /\ TableTyped(w, u)
  BY <1>1, <1>3, <1>5, FillKeepsPages
<1>7. Typed(w, h, NoJob, u, s, c, o)
  BY <1>1, <1>5, <1>6 DEF Typed, JobTyped
<1>8. Control(w, h, "idle", r, NoJob, u, s, lo, c, o, L)
  BY <1>1, <1>2, <1>5 DEF Control, Live, PC, NoJob
<1>9. Geometry(w, h) /\ Books(w, h, lo, c, o, L)
  BY <1>1, <1>5, ChunksFrame
<1>10. QED
  BY <1>6, <1>7, <1>8, <1>9 DEF WorkerOK

\* A sequence is over.
LEMMA StartReleaseOK ==
  ASSUME NEW w \in Worker, NEW g, NEW r, NEW j, NEW i, NEW t, NEW u, NEW s, NEW lo, NEW c,
         NEW o, NEW L, WorkerOK(w, g, "idle", r, j, t, s, lo, c, o, L),
         j = NoJob, ~ g.failed, NEW q \in Request,
         i = [op |-> "free", left |-> t[q]], u = [t EXCEPT ![q] = EmptyTable(w)]
  PROVE  WorkerOK(w, g, "idle", r, i, u, s, lo, c, o, L)
<1>1. /\ ~ lo /\ lo \in BOOLEAN /\ ~ g.failed /\ o = None
      /\ Geometry(w, g) /\ Books(w, g, lo, c, o, L) /\ Pages(w, g, j, t)
      /\ Typed(w, g, j, t, s, c, o) /\ Quiet(g, s)
  BY InCall
<1>2. Control(w, g, "idle", r, j, t, s, lo, c, o, L)
  BY DEF WorkerOK
<1>3. TableTyped(w, t) /\ g.pending = NoPending(w)
  BY <1>1, <1>2 DEF Typed, Control, Live, PC
<1>4. Pages(w, g, i, u) /\ i \in FreeJob(w) /\ TableTyped(w, u)
  <2>1. Pages(w, g, NoJob, t)
    BY <1>1
  <2>2. QED
    BY <1>3, <2>1, StartKeepsPages, Z3T(30), ZenonT(60)
<1>5. Typed(w, g, i, u, s, c, o)
  BY <1>1, <1>4 DEF Typed, JobTyped
<1>6. i.op = "free"
  OBVIOUS
<1>7. Control(w, g, "idle", r, i, u, s, lo, c, o, L)
  BY <1>1, <1>2, <1>6 DEF Control, Live, PC, NoJob
<1>8. QED
  BY <1>1, <1>4, <1>5, <1>7 DEF WorkerOK

\* The stream and the place of a worker once a layer has given up a page.
Fenced(s, g, l, id) ==
  IF StillActive(g, l, id) = {} THEN Append(s, [fence |-> id]) ELSE s
AfterRetire(g, l, id) == IF StillActive(g, l, id) = {} THEN "collect" ELSE "idle"

\* A layer gives up a page.
LEMMA RetireOK ==
  ASSUME NEW w \in Worker, NEW g, NEW r, NEW j, NEW t, NEW s, NEW lo, NEW c, NEW o, NEW L,
         WorkerOK(w, g, "idle", r, j, t, s, lo, c, o, L), j.op = "free",
         NEW l \in Layer(w), j.left[l] # <<>>, NEW id, id = Head(j.left[l])
  PROVE  WorkerOK(w, GivenUp(g, l, id), AfterRetire(g, l, id), "idle",
                  ToGiveUp(Without(j.left, l)), t, Fenced(s, g, l, id), lo, c, o, L)
<1> DEFINE left == j.left
           h == GivenUp(g, l, id)
           i == ToGiveUp(Without(left, l))
           z == Fenced(s, g, l, id)
           p == AfterRetire(g, l, id)
<1>0. h = GivenUp(g, l, id)
  OBVIOUS
<1>1. /\ ~ lo /\ lo \in BOOLEAN /\ ~ g.failed /\ o = None
      /\ Geometry(w, g) /\ Books(w, g, lo, c, o, L) /\ Pages(w, g, j, t)
      /\ Typed(w, g, j, t, s, c, o) /\ Quiet(g, s)
  <2>1. j # NoJob
    BY DEF NoJob
  <2>2. QED
    BY <2>1, InCall
<1>2. Control(w, g, "idle", r, j, t, s, lo, c, o, L)
  BY DEF WorkerOK
<1>3. GroupTyped(w, g) /\ JobTyped(w, j) /\ s \in Seq(Entry)
  BY <1>1 DEF Typed
<1>4. /\ Pages(w, h, i, t) /\ i \in FreeJob(w) /\ GroupTyped(w, h)
      /\ id \in Nat /\ id \in DOMAIN g.pages
  BY <1>1, <1>3, RetireResult
<1> HIDE DEF h, left
<1>5. /\ h.chunks = g.chunks /\ h.freePages = g.freePages
      /\ h.leasedBytes = g.leasedBytes /\ h.failed = g.failed
      /\ DOMAIN h.pages = DOMAIN g.pages
  BY <1>0, <1>3, <1>4, GivenUpParts
<1>6. /\ StillActive(g, l, id) = {} => h.retiring = Append(g.retiring, id)
      /\ StillActive(g, l, id) # {} => h.retiring = g.retiring
  BY <1>0, <1>3, <1>4, GivenUpRetiring
<1>7. Quiet(h, z) /\ z \in Seq(Entry)
  <2>1. CASE StillActive(g, l, id) = {}
    <3>1. z = Append(s, [fence |-> id])
      BY <2>1 DEF Fenced
    <3>2. /\ Quiet(h, Append(s, [fence |-> id]))
          /\ Append(s, [fence |-> id]) \in Seq(Entry)
      BY <1>1, <1>3, <1>4, <1>5, <1>6, <2>1, FenceKeepsQuiet
    <3>3. QED
      BY <3>1, <3>2
  <2>2. CASE StillActive(g, l, id) # {}
    BY <1>1, <1>3, <1>5, <1>6, <2>2 DEF Quiet, Fenced
  <2>3. QED
    BY <2>1, <2>2
<1>8. Typed(w, h, i, t, z, c, o)
  BY <1>1, <1>4, <1>7 DEF Typed, JobTyped
<1>9. i.op = "free" /\ p \in {"collect", "idle"}
  BY DEF ToGiveUp, AfterRetire
<1> HIDE DEF i, z, p
<1>10. Control(w, h, p, "idle", i, t, z, lo, c, o, L)
  BY <1>1, <1>2, <1>5, <1>9 DEF Control, Live, PC, NoJob
<1>11. Geometry(w, h) /\ Books(w, h, lo, c, o, L)
  BY <1>1, <1>5, ChunksFrame
<1>12. QED
  BY <1>4, <1>7, <1>8, <1>10, <1>11 DEF WorkerOK, h, i, z, p, left

\* Nothing is left to give up.
LEMMA ReleaseDoneOK ==
  ASSUME NEW w \in Worker, NEW g, NEW r, NEW j, NEW t, NEW s, NEW lo, NEW c,
         NEW o, NEW L, WorkerOK(w, g, "idle", r, j, t, s, lo, c, o, L),
         j.op = "free", j.left = EmptyTable(w)
  PROVE  WorkerOK(w, g, "idle", r, NoJob, t, s, lo, c, o, L)
<1>1. /\ ~ lo /\ lo \in BOOLEAN /\ ~ g.failed /\ o = None
      /\ Geometry(w, g) /\ Books(w, g, lo, c, o, L) /\ Pages(w, g, j, t)
      /\ Typed(w, g, j, t, s, c, o) /\ Quiet(g, s)
  <2>1. j # NoJob
    BY DEF NoJob
  <2>2. QED
    BY <2>1, InCall
<1>2. Control(w, g, "idle", r, j, t, s, lo, c, o, L)
  BY DEF WorkerOK
<1>3. Pages(w, g, NoJob, t) /\ g.pending = NoPending(w)
  BY <1>1, DoneKeepsPages
<1>4. Typed(w, g, NoJob, t, s, c, o)
  BY <1>1 DEF Typed, JobTyped
<1>5. Control(w, g, "idle", r, NoJob, t, s, lo, c, o, L)
  BY <1>1, <1>2, <1>3 DEF Control, Live, PC, NoJob
<1>6. QED
  BY <1>1, <1>3, <1>4, <1>5 DEF WorkerOK

\* num_free_blocks collects.
LEMMA PollOK ==
  ASSUME NEW w \in Worker, NEW g, NEW r, NEW j, NEW t, NEW s, NEW lo, NEW c,
         NEW o, NEW L, WorkerOK(w, g, "idle", r, j, t, s, lo, c, o, L),
         j = NoJob, ~ g.failed
  PROVE  WorkerOK(w, g, "collect", "idle", j, t, s, lo, c, o, L)
<1>1. /\ ~ lo /\ lo \in BOOLEAN /\ ~ g.failed /\ o = None
      /\ Geometry(w, g) /\ Books(w, g, lo, c, o, L) /\ Pages(w, g, j, t)
      /\ Typed(w, g, j, t, s, c, o) /\ Quiet(g, s)
  BY InCall
<1>2. Control(w, g, "idle", r, j, t, s, lo, c, o, L)
  BY DEF WorkerOK
<1>3. Control(w, g, "collect", "idle", j, t, s, lo, c, o, L)
  BY <1>1, <1>2 DEF Control, Live, PC, NoJob
<1>4. QED
  BY <1>1, <1>3 DEF WorkerOK

\* A kernel is put on the stream.
LEMMA LaunchOK ==
  ASSUME NEW w \in Worker, NEW g, NEW r, NEW j, NEW t, NEW s, NEW z, NEW lo, NEW c,
         NEW o, NEW L, WorkerOK(w, g, "idle", r, j, t, s, lo, c, o, L),
         NEW ids, ids \subseteq TableIds(t), ids # {}, z = Append(s, [kernel |-> ids])
  PROVE  WorkerOK(w, g, "idle", r, j, t, z, lo, c, o, L)
<1>1. Live("idle")
  BY DEF Live, PC
<1>2. /\ Typed(w, g, j, t, s, c, o) /\ Control(w, g, "idle", r, j, t, s, lo, c, o, L)
      /\ Geometry(w, g) /\ Books(w, g, lo, c, o, L) /\ Pages(w, g, j, t) /\ Quiet(g, s)
  BY <1>1 DEF WorkerOK
<1>3. GroupTyped(w, g) /\ s \in Seq(Entry)
  BY <1>2 DEF Typed
<1>4. Quiet(g, z) /\ z \in Seq(Entry)
  BY <1>2, <1>3, LaunchKeepsQuiet
<1>5. Typed(w, g, j, t, z, c, o)
  BY <1>2, <1>4 DEF Typed
<1>6. Control(w, g, "idle", r, j, t, z, lo, c, o, L)
  BY <1>1, <1>2 DEF Control
<1>7. QED
  BY <1>2, <1>4, <1>5, <1>6 DEF WorkerOK

\* The GPU finishes its front entry.
LEMMA GpuStepOK ==
  ASSUME NEW w \in Worker, NEW g, NEW p, NEW r, NEW j, NEW t, NEW s, NEW z, NEW lo, NEW c,
         NEW o, NEW L, WorkerOK(w, g, p, r, j, t, s, lo, c, o, L),
         s # <<>>, z = Tail(s)
  PROVE  WorkerOK(w, g, p, r, j, t, z, lo, c, o, L)
<1>1. /\ Typed(w, g, j, t, s, c, o) /\ Control(w, g, p, r, j, t, s, lo, c, o, L)
      /\ Quiet(g, s) /\ s \in Seq(Entry)
  BY DEF WorkerOK, Typed
<1>2. Quiet(g, z) /\ z \in Seq(Entry)
  BY <1>1, StepKeepsQuiet
<1>3. Typed(w, g, j, t, z, c, o)
  BY <1>1, <1>2 DEF Typed
<1>4. Control(w, g, p, r, j, t, z, lo, c, o, L)
  BY <1>1 DEF Control
<1>5. QED
  BY <1>2, <1>3, <1>4 DEF WorkerOK

-----------------------------------------------------------------------------
(* Failures and the end of a worker. *)

\* What ReleaseThrows makes of a group.
Broken(g) == [g EXCEPT !.failed = TRUE]

\* A group that failed is otherwise the same.
LEMMA BrokenParts ==
  ASSUME NEW w \in Worker, NEW g, GroupTyped(w, g), NEW h, h = Broken(g)
  PROVE  /\ GroupTyped(w, h) /\ h.failed
         /\ h.chunks = g.chunks /\ h.freePages = g.freePages
         /\ h.leasedBytes = g.leasedBytes /\ h.pages = g.pages
         /\ h.retiring = g.retiring /\ h.pending = g.pending
<1>1. /\ DOMAIN h = DOMAIN g /\ h.failed
      /\ h.chunks = g.chunks /\ h.freePages = g.freePages
      /\ h.leasedBytes = g.leasedBytes /\ h.pages = g.pages
      /\ h.retiring = g.retiring /\ h.pending = g.pending
  BY DEF Broken, GroupTyped
<1>2. QED
  BY <1>1 DEF GroupTyped

\* What a worker gives up on: the request may be served later.
Abandoned(c) == IF c.state \in {"acquire", "release"} THEN c ELSE None

\* It is a request, and a release names a chunk whose pages are free.
LEMMA AbandonedOK ==
  ASSUME NEW w \in Worker, NEW c, CallTyped(w, c), NEW u, u = Abandoned(c)
  PROVE  /\ u = None \/ u \in Ask(w)
         /\ u.state = "release" => c.state = "release" /\ u.lease = c.lease
<1>1. CASE c.state = "acquire"
  <2>1. c \in [state : {"acquire"}, bytes : Nat]
    BY <1>1 DEF CallTyped, None
  <2>2. QED
    BY <1>1, <2>1 DEF Abandoned, Ask
<1>2. CASE c.state = "release"
  <2>1. c \in [state : {"release"}, lease : OwnLease(w)]
    BY <1>2 DEF CallTyped, None
  <2>2. QED
    BY <1>2, <2>1 DEF Abandoned, Ask
<1>3. CASE c.state \notin {"acquire", "release"}
  BY <1>3 DEF Abandoned, None
<1>4. QED
  BY <1>1, <1>2, <1>3

\* With an answer lost and no exchange under way, the owner's leases may differ
\* from the group's chunks, but not on a page that is in use.
LEMMA LostBooks ==
  ASSUME NEW w, NEW g, NEW h, NEW lo, NEW c, NEW o, NEW u, NEW L, Books(w, g, lo, c, o, L),
         h.chunks = g.chunks, h.freePages = g.freePages,
         u.state = "release" => \/ c.state = "release" /\ u.lease = c.lease
                                \/ u = o
  PROVE  Books(w, h, TRUE, None, u, L)
<1>1. None.state = "none"
  BY DEF None
<1>2. u.state = "release" => PageIds(w, u.lease) \subseteq g.freePages
  BY DEF Books
<1>3. \A k \in g.chunks : k \in L \/ PageIds(w, k) \subseteq g.freePages
  BY DEF Books
<1>4. QED
  BY <1>1, <1>2, <1>3 DEF Books

\* A release is not answered.
LEMMA ReleaseTimeoutOK ==
  ASSUME NEW w \in Worker, NEW g, NEW h, NEW z, NEW r, NEW j, NEW t, NEW s, NEW lo, NEW c,
         NEW o, NEW u, NEW L, WorkerOK(w, g, "release", r, j, t, s, lo, c, o, L),
         h = Broken(g), u = Abandoned(c), z = IF r = "reserve" THEN "failing" ELSE "idle"
  PROVE  WorkerOK(w, h, z, r, NoJob, t, s, TRUE, None, u, L)
<1>1. /\ ~ lo /\ lo \in BOOLEAN /\ ~ g.failed /\ o = None
      /\ Geometry(w, g) /\ Books(w, g, lo, c, o, L) /\ Pages(w, g, j, t)
      /\ Typed(w, g, j, t, s, c, o) /\ Quiet(g, s)
  BY InCall
<1>2. Control(w, g, "release", r, j, t, s, lo, c, o, L)
  BY DEF WorkerOK
<1>3. GroupTyped(w, g) /\ CallTyped(w, c)
  BY <1>1 DEF Typed
<1>4. /\ GroupTyped(w, h) /\ h.failed
      /\ h.chunks = g.chunks /\ h.freePages = g.freePages
      /\ h.leasedBytes = g.leasedBytes /\ h.pages = g.pages
      /\ h.retiring = g.retiring /\ h.pending = g.pending
  BY <1>3, BrokenParts
<1>5. /\ u = None \/ u \in Ask(w)
      /\ u.state = "release" => c.state = "release" /\ u.lease = c.lease
  BY <1>3, AbandonedOK
<1>6. Typed(w, h, NoJob, t, s, None, u)
  BY <1>1, <1>4, <1>5 DEF Typed, JobTyped, CallTyped
<1>7. z \in {"failing", "idle"}
  OBVIOUS
<1>8. Control(w, h, z, r, NoJob, t, s, TRUE, None, u, L)
  BY <1>1, <1>2, <1>4, <1>7 DEF Control, Live, PC, NoJob
<1>9. Geometry(w, h)
  BY <1>1, <1>4 DEF Geometry
<1>10. Books(w, h, TRUE, None, u, L)
  BY <1>1, <1>4, <1>5, LostBooks
<1>11. Pages(w, h, NoJob, t)
  BY <1>1, <1>4 DEF Pages, NoJob, TablesOK, RetiringOK
<1>12. Quiet(h, s)
  BY <1>1, <1>4 DEF Quiet
<1>13. QED
  BY <1>6, <1>8, <1>9, <1>10, <1>11, <1>12 DEF WorkerOK

\* An acquire is not answered.
LEMMA AcquireTimeoutOK ==
  ASSUME NEW w \in Worker, NEW g, NEW r, NEW j, NEW t, NEW s, NEW lo, NEW c,
         NEW o, NEW u, NEW L, WorkerOK(w, g, "acquire", r, j, t, s, lo, c, o, L),
         u = Abandoned(c)
  PROVE  WorkerOK(w, g, "failing", r, NoJob, t, s, TRUE, None, u, L)
<1>1. /\ ~ lo /\ lo \in BOOLEAN /\ ~ g.failed /\ o = None
      /\ Geometry(w, g) /\ Books(w, g, lo, c, o, L) /\ Pages(w, g, j, t)
      /\ Typed(w, g, j, t, s, c, o) /\ Quiet(g, s)
  BY InCall
<1>2. Control(w, g, "acquire", r, j, t, s, lo, c, o, L)
  BY DEF WorkerOK
<1>3. CallTyped(w, c)
  BY <1>1 DEF Typed
<1>5. /\ u = None \/ u \in Ask(w)
      /\ u.state = "release" => c.state = "release" /\ u.lease = c.lease
  BY <1>3, AbandonedOK
<1>6. Typed(w, g, NoJob, t, s, None, u)
  BY <1>1, <1>5 DEF Typed, JobTyped, CallTyped
<1>8. Control(w, g, "failing", r, NoJob, t, s, TRUE, None, u, L)
  BY <1>1, <1>2 DEF Control, Live, PC, NoJob
<1>10. Books(w, g, TRUE, None, u, L)
  BY <1>1, <1>5, LostBooks
<1>11. Pages(w, g, NoJob, t)
  BY <1>1 DEF Pages, NoJob
<1>13. QED
  BY <1>1, <1>6, <1>8, <1>10, <1>11 DEF WorkerOK

\* A release of a worker that stops is not answered.
LEMMA FarewellTimeoutOK ==
  ASSUME NEW w \in Worker, NEW g, NEW r, NEW j, NEW t, NEW s, NEW lo, NEW c,
         NEW o, NEW u, NEW L, WorkerOK(w, g, "farewell", r, j, t, s, lo, c, o, L),
         u = Abandoned(c)
  PROVE  WorkerOK(w, g, "stop", r, j, t, s, TRUE, None, u, L)
<1>1. /\ Control(w, g, "farewell", r, j, t, s, lo, c, o, L)
      /\ Typed(w, g, j, t, s, c, o) /\ Quiet(g, s)
  BY DEF WorkerOK
<1>2. CallTyped(w, c)
  BY <1>1 DEF Typed
<1>3. u = None \/ u \in Ask(w)
  BY <1>2, AbandonedOK
<1>4. Typed(w, g, j, t, s, None, u)
  BY <1>1, <1>3 DEF Typed, CallTyped
<1>5. ~ Live("stop") /\ ~ Live("farewell")
  BY DEF Live
<1>6. Control(w, g, "stop", r, j, t, s, TRUE, None, u, L)
  BY <1>1, <1>5 DEF Control, PC
<1>7. QED
  BY <1>1, <1>4, <1>5, <1>6 DEF WorkerOK

\* No sequence has a page.
NoTables(w) == [q \in Request |-> EmptyTable(w)]

\* The empty block tables.
LEMMA NoTablesOK ==
  ASSUME NEW w \in Worker
  PROVE  TableTyped(w, NoTables(w)) /\ \A q \in Request : NoTables(w)[q] = EmptyTable(w)
BY EmptyQueue DEF NoTables, EmptyTable, TableTyped

\* A worker that does nothing stops.
LEMMA StopOK ==
  ASSUME NEW w \in Worker, NEW g, NEW p, NEW r, NEW j, NEW t, NEW u, NEW s, NEW lo, NEW c,
         NEW o, NEW L, WorkerOK(w, g, p, r, j, t, s, lo, c, o, L),
         (p = "idle" /\ j = NoJob) \/ p = "failing", s = <<>>, u = NoTables(w)
  PROVE  WorkerOK(w, g, "stop", r, j, u, s, lo, c, o, L)
<1>1. /\ Control(w, g, p, r, j, t, s, lo, c, o, L)
      /\ Typed(w, g, j, t, s, c, o) /\ Quiet(g, s)
  BY DEF WorkerOK
<1>2. Typed(w, g, j, u, s, c, o)
  BY <1>1, NoTablesOK DEF Typed
<1>3. ~ Live("stop") /\ \A q \in Request : u[q] = EmptyTable(w)
  BY NoTablesOK DEF Live
<1>4. Control(w, g, "stop", r, j, u, s, lo, c, o, L)
  BY <1>1, <1>3 DEF Control, PC
<1>5. QED
  BY <1>1, <1>2, <1>3, <1>4 DEF WorkerOK

\* What StopRelease makes of a group.
Offered(g, k) == [g EXCEPT !.chunks = @ \ {k}]

\* A stopping worker gives a chunk back.
LEMMA StopReleaseOK ==
  ASSUME NEW w \in Worker, NEW g, NEW h, NEW r, NEW j, NEW t, NEW s, NEW lo, NEW c, NEW d,
         NEW o, NEW L, WorkerOK(w, g, "stop", r, j, t, s, lo, c, o, L),
         NEW k \in g.chunks, h = Offered(g, k),
         d = IF lo THEN [state |-> "rejected"] ELSE [state |-> "release", lease |-> k]
  PROVE  WorkerOK(w, h, "farewell", r, j, t, s, lo, d, o, L)
<1>1. /\ Control(w, g, "stop", r, j, t, s, lo, c, o, L)
      /\ Typed(w, g, j, t, s, c, o) /\ Quiet(g, s) /\ GroupTyped(w, g)
  BY DEF WorkerOK, Typed
<1>2. /\ DOMAIN h = DOMAIN g /\ h.chunks = g.chunks \ {k} /\ h.pages = g.pages
      /\ h.freePages = g.freePages /\ h.retiring = g.retiring /\ h.pending = g.pending
      /\ h.leasedBytes = g.leasedBytes /\ h.failed = g.failed
  BY <1>1 DEF Offered, GroupTyped
<1>3. IsFiniteSet(h.chunks)
  BY <1>1, <1>2, FS_Subset DEF GroupTyped
<1>4. GroupTyped(w, h)
  BY <1>1, <1>2, <1>3 DEF GroupTyped
<1>5. k \in OwnLease(w)
  BY <1>1 DEF GroupTyped, OwnLease
<1>6. CallTyped(w, d) /\ d.state \in {"release", "rejected"}
  BY <1>5 DEF CallTyped
<1>7. Typed(w, h, j, t, s, d, o)
  BY <1>1, <1>4, <1>6 DEF Typed
<1>8. ~ Live("stop") /\ ~ Live("farewell")
  BY DEF Live
<1>9. Control(w, h, "farewell", r, j, t, s, lo, d, o, L)
  BY <1>1, <1>6, <1>8 DEF Control, PC
<1>10. Quiet(h, s)
  BY <1>1, <1>2 DEF Quiet
<1>11. QED
  BY <1>7, <1>8, <1>9, <1>10 DEF WorkerOK

\* The owner has answered a stopping worker.
LEMMA StopAnsweredOK ==
  ASSUME NEW w \in Worker, NEW g, NEW r, NEW j, NEW t, NEW s, NEW lo, NEW c,
         NEW o, NEW L, WorkerOK(w, g, "farewell", r, j, t, s, lo, c, o, L)
  PROVE  WorkerOK(w, g, "stop", r, j, t, s, lo, None, o, L)
<1>1. /\ Control(w, g, "farewell", r, j, t, s, lo, c, o, L)
      /\ Typed(w, g, j, t, s, c, o) /\ Quiet(g, s)
  BY DEF WorkerOK
<1>2. Typed(w, g, j, t, s, None, o)
  BY <1>1 DEF Typed, CallTyped
<1>3. ~ Live("stop") /\ ~ Live("farewell")
  BY DEF Live
<1>4. Control(w, g, "stop", r, j, t, s, lo, None, o, L)
  BY <1>1, <1>3 DEF Control, PC
<1>5. QED
  BY <1>1, <1>2, <1>3, <1>4 DEF WorkerOK

\* The empty group.
LEMMA NewGroupOK ==
  ASSUME NEW w \in Worker
  PROVE  /\ GroupTyped(w, NewGroup(w)) /\ Geometry(w, NewGroup(w))
         /\ NewGroup(w).chunks = {} /\ NewGroup(w).retiring = <<>>
         /\ NewGroup(w).pending = NoPending(w) /\ ~ NewGroup(w).failed
<1> DEFINE g == NewGroup(w)
<1>1. /\ DOMAIN g = {"chunks", "pages", "freePages", "retiring", "pending", "leasedBytes",
                     "failed"}
      /\ g.chunks = {} /\ g.pages = <<>> /\ g.freePages = {} /\ g.retiring = <<>>
      /\ g.pending = [l \in Layer(w) \ {0} |-> <<>>] /\ g.leasedBytes = 0
      /\ g.failed = FALSE
  BY DEF NewGroup
<1> HIDE DEF g
<1>2. DOMAIN g.pages = {}
  BY <1>1
<1>3. BytesIn({}) = 0
  BY SumUnfolds, FS_EmptySet DEF BytesIn
<1>4. Geometry(w, g)
  BY <1>1, <1>2, <1>3, PageBytesPositive DEF Geometry
<1>5. g.pending \in [Layer(w) \ {0} -> Seq(Nat)] /\ g.pending = NoPending(w)
  BY <1>1, EmptyQueue DEF NoPending
<1>6. GroupTyped(w, g)
  <2>1. IsFiniteSet(g.chunks) /\ g.chunks \subseteq ChunkLease /\ g.retiring \in Seq(Nat)
    BY <1>1, FS_EmptySet, EmptyQueue
  <2>2. \A id \in DOMAIN g.pages : g.pages[id] \in PageRecord(w)
    BY <1>2
  <2>3. g.freePages \subseteq DOMAIN g.pages /\ DOMAIN g.pages \subseteq Nat
    BY <1>1, <1>2
  <2>4. (\A c \in g.chunks : c.model = w) /\ g.leasedBytes \in Nat /\ g.failed \in BOOLEAN
    <3>1. g.chunks = {} /\ g.leasedBytes = 0 /\ g.failed = FALSE
      BY <1>1
    <3>2. \A c \in g.chunks : c.model = w
      BY <3>1
    <3>3. g.leasedBytes \in Nat
      BY <3>1
    <3>4. g.failed \in BOOLEAN
      BY <3>1, Zenon
    <3>5. QED
      BY <3>2, <3>3, <3>4
  <2>5. DOMAIN g = {"chunks", "pages", "freePages", "retiring", "pending", "leasedBytes",
                    "failed"}
    BY <1>1
  <2>6. QED
    BY <1>5, <2>1, <2>2, <2>3, <2>4, <2>5 DEF GroupTyped
<1>7. QED
  BY <1>1, <1>4, <1>5, <1>6 DEF g

\* A worker is gone.
LEMMA GoneOK ==
  ASSUME NEW w \in Worker, NEW p, NEW g, NEW r, NEW j, NEW t, NEW u, NEW s, NEW lo, NEW c,
         NEW o, NEW a, NEW L, WorkerOK(w, g, p, r, j, t, s, lo, c, o, L),
         TableTyped(w, u), \A q \in Request : u[q] = EmptyTable(w), a = None \/ a \in Ask(w)
  PROVE  WorkerOK(w, NewGroup(w), "gone", r, NoJob, u, <<>>, lo, None, a, L)
<1>1. r \in {"idle", "reserve"} /\ lo \in BOOLEAN
  BY DEF WorkerOK, Control
<1>2. <<>> \in Seq(Entry) /\ Quiet(NewGroup(w), <<>>)
  BY DEF Quiet
<1>3. Typed(w, NewGroup(w), NoJob, u, <<>>, None, a)
  BY <1>2, NewGroupOK DEF Typed, JobTyped, CallTyped
<1>4. ~ Live("gone")
  BY DEF Live
<1>5. Control(w, NewGroup(w), "gone", r, NoJob, u, <<>>, lo, None, a, L)
  BY <1>1, <1>4 DEF Control, PC, NoJob
<1>6. QED
  BY <1>2, <1>3, <1>4, <1>5 DEF WorkerOK

\* A worker starts.
LEMMA ConnectOK ==
  ASSUME NEW w \in Worker, NEW g, NEW r, NEW j, NEW t, NEW s, NEW lo, NEW c,
         NEW o, NEW L, WorkerOK(w, g, "new", r, j, t, s, lo, c, o, L)
  PROVE  WorkerOK(w, g, "idle", r, j, t, s, lo, c, o, L)
<1>1. /\ Control(w, g, "new", r, j, t, s, lo, c, o, L)
      /\ Typed(w, g, j, t, s, c, o) /\ Quiet(g, s)
  BY DEF WorkerOK
<1>2. ~ Live("new")
  BY DEF Live
<1>3. /\ g = NewGroup(w) /\ ~ lo /\ lo \in BOOLEAN /\ L = {}
      /\ \A q \in Request : t[q] = EmptyTable(w)
      /\ j = NoJob /\ c = None /\ o = None
  BY <1>1, <1>2 DEF Control
<1>4. /\ Geometry(w, g) /\ g.chunks = {} /\ g.retiring = <<>>
      /\ g.pending = NoPending(w) /\ ~ g.failed
  BY <1>3, NewGroupOK
<1>5. Control(w, g, "idle", r, j, t, s, lo, c, o, L)
  BY <1>1, <1>2, <1>3, <1>4 DEF Control, PC, Live, NoJob
<1>6. Books(w, g, lo, c, o, L)
  <2>1. lo = FALSE /\ c.state = "none"
    BY <1>3 DEF None
  <2>2. QED
    BY <1>3, <1>4, <2>1, SettledBooks
<1>7. Pages(w, g, j, t)
  <2>1. \A q \in Request : \A l \in Layer(w) : t[q][l] = <<>>
    BY <1>3 DEF EmptyTable
  <2>2. 0 \in Layer(w)
    BY LayerZero
  <2>3. TableIds(t) = {}
    BY <2>1, <2>2, EmptyQueue DEF TableIds
  <2>4. TablesOK(w, g, t)
    BY <2>1, <2>2, <2>3, EmptyQueue DEF TablesOK
  <2>5. RetiringOK(g)
    BY <1>4, EmptyQueue DEF RetiringOK
  <2>6. QED
    BY <1>3, <2>4, <2>5 DEF Pages, NoJob
<1>8. QED
  BY <1>1, <1>4, <1>5, <1>6, <1>7 DEF WorkerOK

-----------------------------------------------------------------------------
(* The owner answers. *)

\* A chunk is granted.
LEMMA ServeGrantedOK ==
  ASSUME NEW w \in Worker, NEW g, NEW p, NEW r, NEW j, NEW t, NEW s, NEW lo, NEW c, NEW d,
         NEW o, NEW L, NEW M, WorkerOK(w, g, p, r, j, t, s, lo, c, o, L),
         c.state = "acquire", NEW k \in OwnLease(w), k \notin L, M = L \cup {k},
         k.bytes = c.bytes, IsMultiple(k.offset, PageBytes(w)),
         d = [state |-> "granted", lease |-> k]
  PROVE  WorkerOK(w, g, p, r, j, t, s, lo, d, o, M)
<1>1. Control(w, g, p, r, j, t, s, lo, c, o, L)
  BY DEF WorkerOK
<1>2. p = "acquire"
  BY <1>1 DEF Control, None
<1>3. /\ ~ lo /\ lo \in BOOLEAN /\ ~ g.failed /\ o = None
      /\ Geometry(w, g) /\ Books(w, g, lo, c, o, L) /\ Pages(w, g, j, t)
      /\ Typed(w, g, j, t, s, c, o) /\ Quiet(g, s)
  BY <1>2, InCall
<1>4. d.state = "granted" /\ d.lease = k
  OBVIOUS
<1>5. Typed(w, g, j, t, s, d, o)
  BY <1>3, <1>4 DEF Typed, CallTyped
<1>6. Control(w, g, p, r, j, t, s, lo, d, o, M)
  BY <1>1, <1>2, <1>4 DEF Control
<1>7. Books(w, g, lo, d, o, M)
  <2>1. lo = FALSE
    BY <1>3
  <2>2. g.chunks = L
    BY <1>3, <2>1, Settled
  <2>3. WholePages(w, k) /\ g.leasedBytes + k.bytes <= Limit[w]
    BY <1>3 DEF Books, WholePages
  <2>4. \A x \in M \ g.chunks : d = [state |-> "granted", lease |-> x]
    BY <2>2
  <2>5. o.state = "none"
    BY <1>3 DEF None
  <2>6. QED
    BY <1>4, <2>1, <2>2, <2>3, <2>4, <2>5 DEF Books
<1>8. QED
  BY <1>3, <1>5, <1>6, <1>7 DEF WorkerOK

\* A chunk is refused.
LEMMA ServeRefusedOK ==
  ASSUME NEW w \in Worker, NEW g, NEW p, NEW r, NEW j, NEW t, NEW s, NEW lo, NEW c, NEW d,
         NEW o, NEW L, WorkerOK(w, g, p, r, j, t, s, lo, c, o, L),
         c.state = "acquire", d = [state |-> "refused", bytes |-> c.bytes]
  PROVE  WorkerOK(w, g, p, r, j, t, s, lo, d, o, L)
<1>1. Control(w, g, p, r, j, t, s, lo, c, o, L)
  BY DEF WorkerOK
<1>2. p = "acquire"
  BY <1>1 DEF Control, None
<1>3. /\ ~ lo /\ lo \in BOOLEAN /\ ~ g.failed /\ o = None
      /\ Geometry(w, g) /\ Books(w, g, lo, c, o, L) /\ Pages(w, g, j, t)
      /\ Typed(w, g, j, t, s, c, o) /\ Quiet(g, s)
  BY <1>2, InCall
<1>4. d.state = "refused" /\ d.bytes = c.bytes
  OBVIOUS
<1>5. Typed(w, g, j, t, s, d, o)
  <2>1. c.bytes \in Nat
    BY <1>3 DEF Typed, CallTyped, None
  <2>2. CallTyped(w, d)
    BY <2>1 DEF CallTyped
  <2>3. QED
    BY <1>3, <2>2 DEF Typed
<1>6. Control(w, g, p, r, j, t, s, lo, d, o, L)
  BY <1>1, <1>2, <1>4 DEF Control
<1>7. Books(w, g, lo, d, o, L)
  <2>1. lo = FALSE
    BY <1>3
  <2>2. g.chunks = L
    BY <1>3, <2>1, Settled
  <2>3. c.bytes > 0 /\ IsMultiple(c.bytes, PageBytes(w)) /\ g.leasedBytes + c.bytes <= Limit[w]
    BY <1>3 DEF Books
  <2>4. QED
    BY <1>3, <1>4, <2>1, <2>2, <2>3, SettledBooks
<1>8. QED
  BY <1>3, <1>5, <1>6, <1>7 DEF WorkerOK

\* A chunk is taken back, or its release is rejected.
LEMMA ServeReleasedOK ==
  ASSUME NEW w \in Worker, NEW g, NEW p, NEW r, NEW j, NEW t, NEW s, NEW lo, NEW c, NEW d,
         NEW o, NEW L, NEW M, WorkerOK(w, g, p, r, j, t, s, lo, c, o, L),
         c.state = "release",
         \/ d = [state |-> "released", lease |-> c.lease] /\ M = L \ {c.lease}
         \/ d = [state |-> "rejected"] /\ M = L
  PROVE  WorkerOK(w, g, p, r, j, t, s, lo, d, o, M)
<1>1. /\ Control(w, g, p, r, j, t, s, lo, c, o, L)
      /\ Typed(w, g, j, t, s, c, o) /\ Quiet(g, s)
  BY DEF WorkerOK
<1>2. p \in {"release", "farewell"}
  BY <1>1 DEF Control, None
<1>3. d.state \in {"released", "rejected"} /\ c.lease \in OwnLease(w)
  BY <1>1 DEF Typed, CallTyped, None
<1>4. CallTyped(w, d)
  BY <1>3 DEF CallTyped
<1>5. Typed(w, g, j, t, s, d, o)
  BY <1>1, <1>4 DEF Typed
<1>6. Control(w, g, p, r, j, t, s, lo, d, o, M)
  BY <1>1, <1>2, <1>3 DEF Control
<1>7. CASE p = "farewell"
  BY <1>1, <1>5, <1>6, <1>7 DEF WorkerOK, Live
<1>8. CASE p = "release"
  <2>1. /\ ~ lo /\ lo \in BOOLEAN /\ ~ g.failed /\ o = None
        /\ Geometry(w, g) /\ Books(w, g, lo, c, o, L) /\ Pages(w, g, j, t)
    BY <1>8, InCall
  <2>2. lo = FALSE /\ g.chunks = L
    BY <2>1, Settled
  <2>3. c.lease \in g.chunks /\ PageIds(w, c.lease) \subseteq g.freePages
    BY <2>1 DEF Books
  <2>4. CASE d = [state |-> "released", lease |-> c.lease] /\ M = L \ {c.lease}
    <3>1. o.state = "none" /\ d.state = "released" /\ d.lease = c.lease
      BY <2>1, <2>4 DEF None
    <3>2. \A k \in g.chunks \ M : k = c.lease
      BY <2>2, <2>4
    <3>3. \A k \in g.chunks \ M : d = [state |-> "released", lease |-> k]
      BY <2>4, <3>2
    <3>4. M \ g.chunks = {} /\ c.lease \notin M
      BY <2>2, <2>4
    <3>5. Books(w, g, lo, d, o, M)
      BY <2>2, <2>3, <3>1, <3>2, <3>3, <3>4 DEF Books
    <3>6. QED
      BY <1>1, <1>5, <1>6, <2>1, <3>5 DEF WorkerOK
  <2>5. CASE d = [state |-> "rejected"] /\ M = L
    <3>1. d.state = "rejected"
      BY <2>5
    <3>2. Books(w, g, lo, d, o, M)
      BY <2>1, <2>2, <2>5, <3>1, SettledBooks
    <3>3. QED
      BY <1>1, <1>5, <1>6, <2>1, <3>2 DEF WorkerOK
  <2>6. QED
    BY <2>4, <2>5
<1>9. QED
  BY <1>2, <1>7, <1>8

\* A request that was given up on is served: the worker's leases change.
LEMMA OrphanOK ==
  ASSUME NEW w \in Worker, NEW g, NEW p, NEW r, NEW j, NEW t, NEW s, NEW lo, NEW c,
         NEW o, NEW L, NEW M, WorkerOK(w, g, p, r, j, t, s, lo, c, o, L), o # None,
         L \subseteq M \/ (o.state = "release" /\ M = L \ {o.lease})
  PROVE  WorkerOK(w, g, p, r, j, t, s, lo, c, None, M)
<1>1. /\ Control(w, g, p, r, j, t, s, lo, c, o, L)
      /\ Typed(w, g, j, t, s, c, o) /\ Quiet(g, s)
  BY DEF WorkerOK
<1>2. (lo = TRUE \/ p = "gone") /\ p # "new"
  BY <1>1 DEF Control
<1>3. Typed(w, g, j, t, s, c, None)
  BY <1>1 DEF Typed
<1>4. Control(w, g, p, r, j, t, s, lo, c, None, M)
  BY <1>1, <1>2 DEF Control
<1>5. ASSUME Live(p)
      PROVE  Geometry(w, g) /\ Books(w, g, lo, c, None, M) /\ Pages(w, g, j, t)
  <2>1. Geometry(w, g) /\ Books(w, g, lo, c, o, L) /\ Pages(w, g, j, t)
    BY <1>5 DEF WorkerOK
  <2>2. p # "gone" /\ lo = TRUE
    BY <1>2, <1>5 DEF Live
  <2>3. p \in {"idle", "failing"}
    BY <1>1, <1>5, <2>2 DEF Control
  <2>4. c.state = "none" /\ None.state = "none"
    BY <1>1, <2>3 DEF Control, None
  <2>5. \A k \in g.chunks : k \in M \/ PageIds(w, k) \subseteq g.freePages
    BY <2>1 DEF Books
  <2>6. QED
    BY <2>1, <2>2, <2>4, <2>5 DEF Books
<1>6. QED
  BY <1>1, <1>3, <1>4, <1>5 DEF WorkerOK

-----------------------------------------------------------------------------
(* Each action keeps the invariant.                                          *)

\* What the invariant says before a step.
LEMMA Before ==
  ASSUME IInv, NEW w \in Worker
  PROVE  /\ Domains /\ AllocOK /\ OwnerInv
         /\ WorkerOK(w, group[w], pc[w], resume[w], job[w], table[w], stream[w], lost[w],
                     call[w], orphan[w], LeasesOf(w))
BY DEF IInv, WorkerInv

\* A worker stops collecting.
LEMMA CollectStopsKeeps ==
  ASSUME IInv, NEW w \in Worker, CollectStops(w)
  PROVE  IInv'
<1>1. Domains /\ WorkerOK(w, group[w], "collect", resume[w], job[w], table[w], stream[w],
                          lost[w], call[w], orphan[w], LeasesOf(w))
  BY Before DEF CollectStops
<1>2. Domains' /\ Others(w) /\ UNCHANGED <<allocVars, ownerUp>>
  BY <1>1 DEF CollectStops, Domains, Others, netVars
<1>3. /\ pc'[w] = resume[w]
      /\ group' = group /\ resume' = resume /\ job' = job /\ table' = table
      /\ stream' = stream /\ lost' = lost /\ call' = call /\ orphan' = orphan
  BY <1>1 DEF CollectStops, Domains, netVars
<1>4. WorkerOK(w, group'[w], pc'[w], resume'[w], job'[w], table'[w], stream'[w], lost'[w],
               call'[w], orphan'[w], LeasesOf(w))
  BY <1>1, <1>3, CollectStopsOK
<1>5. QED
  BY <1>2, <1>4, WorkerMoves

\* A worker starts an append.
LEMMA StartAppendKeeps ==
  ASSUME IInv, NEW w \in Worker, NEW q \in Request, NEW n \in 1..MaxBlocks,
         StartAppend(w, q, n)
  PROVE  IInv'
<1>1. Domains /\ WorkerOK(w, group[w], "idle", resume[w], job[w], table[w], stream[w],
                          lost[w], call[w], orphan[w], LeasesOf(w))
  BY Before DEF StartAppend, Free
<1>2. Domains' /\ Others(w) /\ UNCHANGED <<allocVars, ownerUp>>
  BY <1>1 DEF StartAppend, Domains, Others, netVars
<1>3. /\ pc'[w] = "collect" /\ resume'[w] = "reserve"
      /\ job'[w] = [op |-> "append", seq |-> q, want |-> n, got |-> <<>>]
      /\ group' = group /\ table' = table
      /\ stream' = stream /\ lost' = lost /\ call' = call /\ orphan' = orphan
      /\ job[w] = NoJob /\ ~ group[w].failed
  BY <1>1 DEF StartAppend, Domains, netVars, Free, Usable
<1>4. WorkerOK(w, group'[w], pc'[w], resume'[w], job'[w], table'[w], stream'[w], lost'[w],
               call'[w], orphan'[w], LeasesOf(w))
  BY <1>1, <1>3, StartAppendOK
<1>5. QED
  BY <1>2, <1>4, WorkerMoves

\* A worker takes a free page.
LEMMA ReserveFreeKeeps ==
  ASSUME IInv, NEW w \in Worker, ReserveFree(w)
  PROVE  IInv'
<1> DEFINE id == Min(group[w].freePages)
<1>1. Domains /\ WorkerOK(w, group[w], "reserve", resume[w], job[w], table[w], stream[w],
                          lost[w], call[w], orphan[w], LeasesOf(w))
  BY Before DEF ReserveFree
<1>2. Domains' /\ Others(w) /\ UNCHANGED <<allocVars, ownerUp>>
  BY <1>1 DEF ReserveFree, TakePage, Domains, Others, netVars
<1>3. /\ group'[w] = Taken(w, group[w], id) /\ job'[w] = Got(job[w], id)
      /\ pc'[w] = AfterTake(job'[w], job[w].want)
      /\ resume' = resume /\ table' = table
      /\ stream' = stream /\ lost' = lost /\ call' = call /\ orphan' = orphan
  BY <1>1 DEF ReserveFree, TakePage, Domains, netVars, Taken, Got, Reserved,
                AfterTake
<1>4. id \in group[w].freePages
  <2>1. group[w].freePages \subseteq Nat
    BY <1>1 DEF WorkerOK, Typed, GroupTyped
  <2>2. QED
    BY <2>1, MinIn DEF ReserveFree
<1> HIDE DEF id
<1>5. resume[w] = "reserve"
  BY <1>1 DEF WorkerOK, Control
<1>6. WorkerOK(w, group'[w], pc'[w], resume'[w], job'[w], table'[w], stream'[w], lost'[w],
               call'[w], orphan'[w], LeasesOf(w))
  BY <1>1, <1>3, <1>4, <1>5, TakeOK
<1>7. QED
  BY <1>2, <1>6, WorkerMoves

\* A positive multiple is at least the granule.
LEMMA MultipleAtLeast ==
  ASSUME NEW n \in Nat, n > 0, NEW a \in Nat \ {0}, IsMultiple(n, a)
  PROVE  n >= a
<1>1. PICK k \in Nat : n = k * a
  BY DEF IsMultiple
<1>2. k # 0
  BY <1>1
<1>3. k >= 1
  BY <1>2
<1>4. (k - 1) * a >= 0
  BY <1>3
<1>5. k * a = (k - 1) * a + a
  BY <1>3
<1>6. QED
  BY <1>1, <1>4, <1>5

\* An append finds no page, not even in the quota.
LEMMA ReserveNothingKeeps ==
  ASSUME IInv, NEW w \in Worker, ReserveNothing(w)
  PROVE  IInv'
<1>1. Domains /\ WorkerOK(w, group[w], "reserve", resume[w], job[w], table[w], stream[w],
                          lost[w], call[w], orphan[w], LeasesOf(w))
  BY Before DEF ReserveNothing
<1>2. Domains' /\ Others(w) /\ UNCHANGED <<allocVars, ownerUp>>
  BY <1>1 DEF ReserveNothing, NoPage, Domains, Others, netVars
<1>3. /\ pc'[w] = "idle"
      /\ job'[w] = [op |-> "free", left |-> [EmptyTable(w) EXCEPT ![0] = job[w].got]]
      /\ group' = group /\ resume' = resume /\ table' = table
      /\ stream' = stream /\ lost' = lost /\ call' = call /\ orphan' = orphan
  BY <1>1 DEF ReserveNothing, NoPage, Domains, netVars
<1>4. call[w] = None
  BY <1>1 DEF WorkerOK, Control
<1>5. WorkerOK(w, group'[w], pc'[w], resume'[w], job'[w], table'[w], stream'[w], lost'[w],
               call'[w], orphan'[w], LeasesOf(w))
  BY <1>1, <1>3, <1>4, NoPageOK
<1>6. QED
  BY <1>2, <1>5, WorkerMoves

\* An append asks for a chunk.
LEMMA ReserveAskKeeps ==
  ASSUME IInv, NEW w \in Worker, ReserveAsk(w)
  PROVE  IInv'
<1> DEFINE b == IF Remaining(w) >= ChunkBytes(w) THEN ChunkBytes(w) ELSE PageBytes(w)
           d == AskAcquire(b)
<1>1. Domains /\ WorkerOK(w, group[w], "reserve", resume[w], job[w], table[w], stream[w],
                          lost[w], call[w], orphan[w], LeasesOf(w))
  BY Before DEF ReserveAsk
<1>2. Domains' /\ Others(w) /\ UNCHANGED <<allocVars, ownerUp>>
  BY <1>1 DEF ReserveAsk, Send, Domains, Others
<1>3. call[w] = None /\ ~ lost[w]
  <2>1. ~ lost[w]
    BY <1>1, InCall
  <2>2. QED
    BY <1>1, <2>1 DEF WorkerOK, Control
<1>4. /\ pc'[w] = "acquire" /\ call'[w] = d
      /\ group' = group /\ resume' = resume /\ job' = job /\ table' = table
      /\ stream' = stream /\ lost' = lost /\ orphan' = orphan
  BY <1>1, <1>3 DEF ReserveAsk, Send, Domains
<1>5. /\ b \in Nat \ {0} /\ IsMultiple(b, PageBytes(w))
      /\ group[w].leasedBytes + b <= Limit[w]
  <2>1. group[w].leasedBytes \in Nat
    BY <1>1 DEF WorkerOK, Typed, GroupTyped
  <2>2. Remaining(w) >= PageBytes(w)
    BY DEF ReserveAsk
  <2>3. b \in Nat \ {0} /\ IsMultiple(b, PageBytes(w)) /\ Remaining(w) >= b
    BY <2>2, ChunkBytesWhole, PageBytesPositive
  <2>4. QED
    BY <2>1, <2>3, PageBytesPositive DEF Remaining
<1>6. d = [state |-> "acquire", bytes |-> b]
  BY DEF AskAcquire
<1> HIDE DEF b, d
<1>7. WorkerOK(w, group'[w], pc'[w], resume'[w], job'[w], table'[w], stream'[w], lost'[w],
               call'[w], orphan'[w], LeasesOf(w))
  <2>1. WorkerOK(w, group[w], "acquire", resume[w], job[w], table[w], stream[w], lost[w],
                 d, orphan[w], LeasesOf(w))
    BY <1>1, <1>3, <1>5, <1>6, AskOK
  <2>2. QED
    BY <1>4, <2>1
<1>8. QED
  BY <1>2, <1>7, WorkerMoves

\* A chunk was refused: a single page is asked for, or the append gives up.
LEMMA ChunkRefusedKeeps ==
  ASSUME IInv, NEW w \in Worker, ChunkRefused(w)
  PROVE  IInv'
<1>1. Domains /\ WorkerOK(w, group[w], "acquire", resume[w], job[w], table[w], stream[w],
                          lost[w], call[w], orphan[w], LeasesOf(w))
  BY Before DEF ChunkRefused
<1>2. Domains' /\ Others(w) /\ UNCHANGED <<allocVars, ownerUp>>
  BY <1>1 DEF ChunkRefused, NoPage, Send, Domains, Others
<1>3. /\ group' = group /\ resume' = resume /\ table' = table
      /\ stream' = stream /\ lost' = lost /\ orphan' = orphan
      /\ call[w].state = "refused"
  BY DEF ChunkRefused
<1>4. ~ lost[w] /\ Books(w, group[w], lost[w], call[w], orphan[w], LeasesOf(w))
      /\ Typed(w, group[w], job[w], table[w], stream[w], call[w], orphan[w])
  BY <1>1, InCall
<1>5. CASE call[w].bytes = PageBytes(w)
  <2>1. /\ pc'[w] = "idle" /\ call'[w] = None
        /\ job'[w] = [op |-> "free", left |-> [EmptyTable(w) EXCEPT ![0] = job[w].got]]
    BY <1>1, <1>5 DEF ChunkRefused, NoPage, Domains
  <2>2. WorkerOK(w, group'[w], pc'[w], resume'[w], job'[w], table'[w], stream'[w], lost'[w],
                 call'[w], orphan'[w], LeasesOf(w))
    BY <1>1, <1>3, <2>1, NoPageOK
  <2>3. QED
    BY <1>2, <2>2, WorkerMoves
<1>6. CASE call[w].bytes # PageBytes(w)
  <2> DEFINE b == PageBytes(w)
             d == AskAcquire(b)
  <2>1. call'[w] = d /\ pc' = pc /\ pc[w] = "acquire" /\ job' = job
    BY <1>1, <1>4, <1>6 DEF ChunkRefused, Send, Domains
  <2>2. /\ b \in Nat \ {0} /\ IsMultiple(b, PageBytes(w))
        /\ group[w].leasedBytes + b <= Limit[w]
    <3>1. /\ call[w].bytes > 0 /\ IsMultiple(call[w].bytes, PageBytes(w))
          /\ group[w].leasedBytes + call[w].bytes <= Limit[w]
      BY <1>3, <1>4 DEF Books
    <3>2. call[w].bytes \in Nat
      BY <1>3, <1>4 DEF Typed, CallTyped, None
    <3>3. group[w].leasedBytes \in Nat
      BY <1>4 DEF Typed, GroupTyped
    <3>4. call[w].bytes >= PageBytes(w)
      BY <3>1, <3>2, MultipleAtLeast, PageBytesPositive
    <3>5. QED
      BY <3>1, <3>2, <3>3, <3>4, PageBytesPositive, ChunkBytesWhole
  <2>3. d = [state |-> "acquire", bytes |-> b]
    BY DEF AskAcquire
  <2> HIDE DEF b, d
  <2>4. WorkerOK(w, group[w], "acquire", resume[w], job[w], table[w], stream[w], lost[w],
                 d, orphan[w], LeasesOf(w))
    BY <1>1, <1>3, <2>2, <2>3, AskOK
  <2>5. WorkerOK(w, group'[w], pc'[w], resume'[w], job'[w], table'[w], stream'[w], lost'[w],
                 call'[w], orphan'[w], LeasesOf(w))
    BY <1>3, <2>1, <2>4
  <2>6. QED
    BY <1>2, <2>5, WorkerMoves
<1>7. QED
  BY <1>5, <1>6

\* The leases of a worker do not overlap.
LEMMA LeasesApart ==
  ASSUME IInv, NEW w \in Worker
  PROVE  /\ LeasesOf(w) \subseteq leases /\ leases \subseteq ChunkLease
         /\ \A k, l \in LeasesOf(w) : k # l => Apart(k, l)
<1>1. Disjoint /\ leases \subseteq ChunkLease
  BY DEF IInv, AllocOK, AllocTypeOK
<1>2. LeasesOf(w) \subseteq leases
  BY DEF LeasesOf
<1>3. QED
  BY <1>1, <1>2 DEF Disjoint

\* A chunk was granted: its first page is taken.
LEMMA ChunkGrantedKeeps ==
  ASSUME IInv, NEW w \in Worker, ChunkGranted(w)
  PROVE  IInv'
<1> DEFINE g == group[w]
           k == call[w].lease
           h == Granted(w, g, k)
           id == k.offset \div Half[w]
<1>1. Domains /\ WorkerOK(w, g, "acquire", resume[w], job[w], table[w], stream[w],
                          lost[w], call[w], orphan[w], LeasesOf(w))
  BY Before DEF ChunkGranted
<1>2. Domains' /\ Others(w) /\ UNCHANGED <<allocVars, ownerUp>>
  BY <1>1 DEF ChunkGranted, TakePage, Domains, Others
<1>3. /\ resume' = resume /\ table' = table
      /\ stream' = stream /\ lost' = lost /\ orphan' = orphan
      /\ call'[w] = None /\ call[w].state = "granted"
  BY <1>1 DEF ChunkGranted, Domains
<1>4. TakePage(w, h, id)
  BY DEF ChunkGranted, Granted
<1>5. h = Granted(w, g, call[w].lease) /\ id = call[w].lease.offset \div Half[w]
  OBVIOUS
<1> HIDE DEF h, id
<1>6. /\ group'[w] = Taken(w, h, id) /\ job'[w] = Got(job[w], id)
      /\ pc'[w] = AfterTake(job'[w], job[w].want)
  BY <1>1, <1>4 DEF TakePage, Domains, Taken, Got, Reserved, AfterTake
<1>7. \A x, y \in LeasesOf(w) : x # y => Apart(x, y)
  BY LeasesApart
<1> HIDE DEF g, k
<1>8. /\ WorkerOK(w, h, "reserve", "reserve", job[w], table[w], stream[w], lost[w], None,
                  orphan[w], LeasesOf(w))
      /\ resume[w] = "reserve" /\ id \in h.freePages
  BY <1>1, <1>3, <1>5, <1>7, GrantedOK
<1>9. WorkerOK(w, group'[w], pc'[w], resume'[w], job'[w], table'[w], stream'[w], lost'[w],
               call'[w], orphan'[w], LeasesOf(w))
  BY <1>3, <1>6, <1>8, TakeOK
<1>10. QED
  BY <1>2, <1>9, WorkerMoves

\* The owner took a chunk back.
LEMMA ChunkReturnedKeeps ==
  ASSUME IInv, NEW w \in Worker, ChunkReturned(w)
  PROVE  IInv'
<1>1. Domains /\ WorkerOK(w, group[w], "release", resume[w], job[w], table[w], stream[w],
                          lost[w], call[w], orphan[w], LeasesOf(w))
  BY Before DEF ChunkReturned
<1>2. Domains' /\ Others(w) /\ UNCHANGED <<allocVars, ownerUp>>
  BY <1>1 DEF ChunkReturned, Domains, Others
<1>3. /\ group'[w] = Returned(w, group[w], call[w].lease)
      /\ pc'[w] = "collect" /\ call'[w] = None
      /\ resume' = resume /\ job' = job /\ table' = table
      /\ stream' = stream /\ lost' = lost /\ orphan' = orphan
      /\ call[w].state = "released"
  BY <1>1 DEF ChunkReturned, Returned, Domains
<1>4. WorkerOK(w, group'[w], pc'[w], resume'[w], job'[w], table'[w], stream'[w], lost'[w],
               call'[w], orphan'[w], LeasesOf(w))
  BY <1>1, <1>3, ReturnedOK
<1>5. QED
  BY <1>2, <1>4, WorkerMoves

\* The chunk a page of the group is in.
LEMMA ChunkOfIs ==
  ASSUME NEW w \in Worker, Geometry(w, group[w]), NEW id \in DOMAIN group[w].pages
  PROVE  ChunkOf(w, id) \in group[w].chunks
<1>1. \E c \in group[w].chunks : id \in PageIds(w, c)
  BY DEF Geometry
<1>2. QED
  BY <1>1 DEF ChunkOf

\* A retired page is collected, a chunk perhaps offered back.
LEMMA CollectPageKeeps ==
  ASSUME IInv, NEW w \in Worker, CollectPage(w)
  PROVE  IInv'
<1> DEFINE g == group[w]
           id == Head(g.retiring)
           k == ChunkOf(w, id)
           h == Collected(g)
           d == AskRelease(k)
<1>1. Domains /\ WorkerOK(w, g, "collect", resume[w], job[w], table[w], stream[w],
                          lost[w], call[w], orphan[w], LeasesOf(w))
  BY Before DEF CollectPage
<1>2. Domains' /\ Others(w) /\ UNCHANGED <<allocVars, ownerUp>>
  BY <1>1 DEF CollectPage, Send, Domains, Others
<1>3. /\ resume' = resume /\ job' = job /\ table' = table
      /\ stream' = stream /\ lost' = lost /\ orphan' = orphan
      /\ g.retiring # <<>> /\ NoFence(stream[w], id)
  BY DEF CollectPage, CanCollect, FencePassed, NoFence
<1>4. group'[w] = h
  BY <1>1 DEF CollectPage, Collected, Domains
<1>5. ~ lost[w]
  BY <1>1, InCall
<1>6. \/ /\ PageIds(w, k) \subseteq group'[w].freePages
         /\ call'[w] = d /\ pc'[w] = "release"
      \/ call' = call /\ pc' = pc /\ pc[w] = "collect"
  BY <1>1, <1>5 DEF CollectPage, Send, Domains
<1>7. h = Collected(g) /\ d = [state |-> "release", lease |-> k] /\ id = Head(g.retiring)
  BY DEF AskRelease
<1> HIDE DEF h, d, g, id, k
<1>8. /\ WorkerOK(w, h, "collect", resume[w], job[w], table[w], stream[w],
                  lost[w], call[w], orphan[w], LeasesOf(w))
      /\ h.chunks = g.chunks /\ Geometry(w, g) /\ id \in DOMAIN g.pages
  BY <1>1, <1>3, <1>7, CollectPageOK
<1>9. k \in h.chunks
  BY <1>8, ChunkOfIs DEF g, k
<1>10. CASE PageIds(w, k) \subseteq group'[w].freePages /\ call'[w] = d /\ pc'[w] = "release"
  <2>1. PageIds(w, k) \subseteq h.freePages
    BY <1>4, <1>10
  <2>2. WorkerOK(w, h, "release", resume[w], job[w], table[w], stream[w], lost[w], d,
                 orphan[w], LeasesOf(w))
    BY <1>7, <1>8, <1>9, <2>1, OfferOK
  <2>3. WorkerOK(w, group'[w], pc'[w], resume'[w], job'[w], table'[w], stream'[w], lost'[w],
                 call'[w], orphan'[w], LeasesOf(w))
    BY <1>3, <1>4, <1>10, <2>2
  <2>4. QED
    BY <1>2, <2>3, WorkerMoves
<1>11. CASE call' = call /\ pc' = pc /\ pc[w] = "collect"
  <2>1. WorkerOK(w, group'[w], pc'[w], resume'[w], job'[w], table'[w], stream'[w], lost'[w],
                 call'[w], orphan'[w], LeasesOf(w))
    BY <1>3, <1>4, <1>8, <1>11
  <2>2. QED
    BY <1>2, <2>1, WorkerMoves
<1>12. QED
  BY <1>6, <1>10, <1>11

\* An append is done.
LEMMA FillKeeps ==
  ASSUME IInv, NEW w \in Worker, Fill(w)
  PROVE  IInv'
<1>1. Domains /\ WorkerOK(w, group[w], "fill", resume[w], job[w], table[w], stream[w],
                          lost[w], call[w], orphan[w], LeasesOf(w))
  BY Before DEF Fill
<1>2. Domains' /\ Others(w) /\ UNCHANGED <<allocVars, ownerUp>>
  BY <1>1 DEF Fill, Domains, Others, netVars
<1>3. /\ job'[w] = NoJob /\ pc'[w] = "idle"
      /\ resume' = resume /\ stream' = stream /\ lost' = lost
      /\ call' = call /\ orphan' = orphan
  BY <1>1 DEF Fill, Domains, netVars
<1>4. group'[w] = Filled(group[w], job[w])
  <2>1. group' = [group EXCEPT ![w] = Filled(group[w], job[w])]
    BY DEF Fill, Filled, FilledPages, FilledPending, FillTaken
  <2>2. QED
    BY <1>1, <2>1 DEF Domains
<1>5. table'[w] = FilledTable(w, group[w], job[w], table[w])
  BY <1>1 DEF Fill, Domains, FilledTable, FillTaken
<1>6. WorkerOK(w, group'[w], pc'[w], resume'[w], job'[w], table'[w], stream'[w], lost'[w],
               call'[w], orphan'[w], LeasesOf(w))
  BY <1>1, <1>3, <1>4, <1>5, FillOK
<1>7. QED
  BY <1>2, <1>6, WorkerMoves

\* A sequence is over.
LEMMA StartReleaseKeeps ==
  ASSUME IInv, NEW w \in Worker, NEW q \in Request, StartRelease(w, q)
  PROVE  IInv'
<1>1. Domains /\ WorkerOK(w, group[w], "idle", resume[w], job[w], table[w], stream[w],
                          lost[w], call[w], orphan[w], LeasesOf(w))
  BY Before DEF StartRelease, Free
<1>2. Domains' /\ Others(w) /\ UNCHANGED <<allocVars, ownerUp>>
  BY <1>1 DEF StartRelease, Domains, Others, netVars
<1>3. /\ pc' = pc /\ pc[w] = "idle" /\ group' = group /\ resume' = resume
      /\ stream' = stream /\ lost' = lost /\ call' = call /\ orphan' = orphan
      /\ job[w] = NoJob /\ ~ group[w].failed
      /\ job'[w] = [op |-> "free", left |-> table[w][q]]
      /\ table'[w] = [table[w] EXCEPT ![q] = EmptyTable(w)]
  BY <1>1 DEF StartRelease, Domains, netVars, Free, Usable
<1>4. WorkerOK(w, group'[w], pc'[w], resume'[w], job'[w], table'[w], stream'[w], lost'[w],
               call'[w], orphan'[w], LeasesOf(w))
  BY <1>1, <1>3, StartReleaseOK
<1>5. QED
  BY <1>2, <1>4, WorkerMoves

\* The next layer to give up a page has one.
LEMMA NextLayerIs ==
  ASSUME NEW w \in Worker, job[w].left \in [Layer(w) -> Seq(Nat)],
         job[w].left # EmptyTable(w)
  PROVE  NextLayer(w) \in Layer(w) /\ job[w].left[NextLayer(w)] # <<>>
<1> DEFINE S == {l \in Layer(w) : job[w].left[l] # <<>>}
<1>1. S # {}
  <2>1. SUFFICES ASSUME S = {} PROVE FALSE
    OBVIOUS
  <2>2. \A l \in Layer(w) : job[w].left[l] = <<>>
    BY <2>1
  <2>3. QED
    BY <2>2 DEF EmptyTable
<1>2. S \subseteq Nat
  BY LayerZero
<1>3. PICK x \in S : \A y \in S : x <= y
  <2> HIDE DEF S
  <2>1. QED
    BY <1>1, <1>2, LeastElement
<1>4. /\ x \in Layer(w) /\ job[w].left[x] # <<>>
      /\ \A y \in Layer(w) : job[w].left[y] # <<>> => x <= y
  BY <1>3
<1>5. QED
  BY <1>4 DEF NextLayer

\* A layer gives up a page.
LEMMA RetireNextKeeps ==
  ASSUME IInv, NEW w \in Worker, RetireNext(w)
  PROVE  IInv'
<1> DEFINE g == group[w]
           left == job[w].left
           l == NextLayer(w)
           id == Head(left[l])
           h == GivenUp(g, l, id)
<1>1. Domains /\ WorkerOK(w, g, "idle", resume[w], job[w], table[w], stream[w],
                          lost[w], call[w], orphan[w], LeasesOf(w))
  BY Before DEF RetireNext
<1>2. Domains' /\ Others(w) /\ UNCHANGED <<allocVars, ownerUp>>
  BY <1>1 DEF RetireNext, Domains, Others, netVars
<1>3. /\ table' = table /\ lost' = lost /\ call' = call /\ orphan' = orphan
      /\ resume'[w] = "idle" /\ job[w].op = "free" /\ left # EmptyTable(w)
  BY <1>1 DEF RetireNext, Domains, netVars
<1>4. job[w] \in FreeJob(w) /\ left \in [Layer(w) -> Seq(Nat)]
  <2>1. job[w] \in FreeJob(w)
    BY <1>1, <1>3, JobKinds DEF WorkerOK, Typed
  <2>2. QED
    BY <2>1 DEF FreeJob
<1>5. l \in Layer(w) /\ left[l] # <<>>
  BY <1>3, <1>4, NextLayerIs
<1>6. job'[w] = ToGiveUp(Without(left, l))
  <2>1. job'[w] = [job[w] EXCEPT !.left[l] = Tail(@)]
    BY <1>1 DEF RetireNext, Domains
  <2>2. job[w] = [op |-> "free", left |-> left]
    BY <1>4 DEF FreeJob
  <2>3. job'[w] = [job[w] EXCEPT !.left = Without(left, l)]
    BY <2>1, <2>2 DEF Without
  <2> HIDE DEF left, l
  <2>4. QED
    BY <2>2, <2>3 DEF ToGiveUp
<1>7. group'[w] = h
  BY <1>1 DEF RetireNext, Domains, GivenUp, Back, StillActive
<1>8. stream'[w] = Fenced(stream[w], g, l, id) /\ pc'[w] = AfterRetire(g, l, id)
  BY <1>1 DEF RetireNext, Domains, Back, StillActive, Fenced, AfterRetire
<1>9. h = GivenUp(g, l, Head(job[w].left[l])) /\ left = job[w].left /\ id = Head(job[w].left[l])
  OBVIOUS
<1> HIDE DEF g, left, l, id, h
<1>10. WorkerOK(w, group'[w], pc'[w], resume'[w], job'[w], table'[w], stream'[w], lost'[w],
                call'[w], orphan'[w], LeasesOf(w))
  BY <1>1, <1>3, <1>5, <1>6, <1>7, <1>8, <1>9, RetireOK
<1>11. QED
  BY <1>2, <1>10, WorkerMoves

\* All pages are given up.
LEMMA ReleaseDoneKeeps ==
  ASSUME IInv, NEW w \in Worker, ReleaseDone(w)
  PROVE  IInv'
<1>1. Domains /\ WorkerOK(w, group[w], "idle", resume[w], job[w], table[w], stream[w],
                          lost[w], call[w], orphan[w], LeasesOf(w))
  BY Before DEF ReleaseDone
<1>2. Domains' /\ Others(w) /\ UNCHANGED <<allocVars, ownerUp>>
  BY <1>1 DEF ReleaseDone, Domains, Others, netVars
<1>3. /\ pc' = pc /\ pc[w] = "idle" /\ group' = group /\ resume' = resume
      /\ table' = table
      /\ stream' = stream /\ lost' = lost /\ call' = call /\ orphan' = orphan
      /\ job[w].op = "free" /\ job[w].left = EmptyTable(w) /\ job'[w] = NoJob
  BY <1>1 DEF ReleaseDone, Domains, netVars
<1>4. WorkerOK(w, group'[w], pc'[w], resume'[w], job'[w], table'[w], stream'[w], lost'[w],
               call'[w], orphan'[w], LeasesOf(w))
  BY <1>1, <1>3, ReleaseDoneOK
<1>5. QED
  BY <1>2, <1>4, WorkerMoves

\* num_free_blocks is asked for.
LEMMA PollKeeps ==
  ASSUME IInv, NEW w \in Worker, Poll(w)
  PROVE  IInv'
<1>1. Domains /\ WorkerOK(w, group[w], "idle", resume[w], job[w], table[w], stream[w],
                          lost[w], call[w], orphan[w], LeasesOf(w))
  BY Before DEF Poll, Free
<1>2. Domains' /\ Others(w) /\ UNCHANGED <<allocVars, ownerUp>>
  BY <1>1 DEF Poll, Domains, Others, netVars
<1>3. /\ pc'[w] = "collect" /\ resume'[w] = "idle" /\ group' = group
      /\ table' = table /\ job' = job
      /\ stream' = stream /\ lost' = lost /\ call' = call /\ orphan' = orphan
      /\ job[w] = NoJob /\ ~ group[w].failed
  BY <1>1 DEF Poll, Domains, netVars, Free, Usable
<1>4. WorkerOK(w, group'[w], pc'[w], resume'[w], job'[w], table'[w], stream'[w], lost'[w],
               call'[w], orphan'[w], LeasesOf(w))
  BY <1>1, <1>3, PollOK
<1>5. QED
  BY <1>2, <1>4, WorkerMoves

\* A kernel is put on the stream.
LEMMA LaunchKeeps ==
  ASSUME IInv, NEW w \in Worker, NEW seqs \in SUBSET Request, Launch(w, seqs)
  PROVE  IInv'
<1> DEFINE ids == UNION {Range(table[w][s][0]) : s \in seqs}
<1>1. Domains /\ WorkerOK(w, group[w], "idle", resume[w], job[w], table[w], stream[w],
                          lost[w], call[w], orphan[w], LeasesOf(w))
  BY Before DEF Launch, Free
<1>2. Domains' /\ Others(w) /\ UNCHANGED <<allocVars, ownerUp>>
  BY <1>1 DEF Launch, Domains, Others, netVars
<1>3. /\ pc' = pc /\ pc[w] = "idle" /\ resume' = resume /\ group' = group
      /\ table' = table /\ job' = job
      /\ lost' = lost /\ call' = call /\ orphan' = orphan
      /\ stream'[w] = Append(stream[w], [kernel |-> ids]) /\ ids # {}
  BY <1>1 DEF Launch, Domains, netVars, Free
<1>4. ids \subseteq TableIds(table[w])
  BY DEF TableIds
<1> HIDE DEF ids
<1>5. WorkerOK(w, group'[w], pc'[w], resume'[w], job'[w], table'[w], stream'[w], lost'[w],
               call'[w], orphan'[w], LeasesOf(w))
  BY <1>1, <1>3, <1>4, LaunchOK
<1>6. QED
  BY <1>2, <1>5, WorkerMoves

\* The GPU finishes an entry.
LEMMA GpuStepKeeps ==
  ASSUME IInv, NEW w \in Worker, GpuStep(w)
  PROVE  IInv'
<1>1. Domains /\ WorkerOK(w, group[w], pc[w], resume[w], job[w], table[w], stream[w],
                          lost[w], call[w], orphan[w], LeasesOf(w))
  BY Before
<1>2. Domains' /\ Others(w) /\ UNCHANGED <<allocVars, ownerUp>>
  BY <1>1 DEF GpuStep, Domains, Others, netVars
<1>3. /\ pc' = pc /\ resume' = resume /\ group' = group
      /\ table' = table /\ job' = job
      /\ lost' = lost /\ call' = call /\ orphan' = orphan
      /\ stream'[w] = Tail(stream[w]) /\ stream[w] # <<>>
  BY <1>1 DEF GpuStep, Domains, netVars
<1>4. WorkerOK(w, group'[w], pc'[w], resume'[w], job'[w], table'[w], stream'[w], lost'[w],
               call'[w], orphan'[w], LeasesOf(w))
  BY <1>1, <1>3, GpuStepOK
<1>5. QED
  BY <1>2, <1>4, WorkerMoves

\* An answer does not come.
LEMMA TimeoutKeeps ==
  ASSUME IInv, NEW w \in Worker, Timeout(w)
  PROVE  IInv'
<1> DEFINE u == Abandoned(call[w])
<1>1. Domains /\ WorkerOK(w, group[w], pc[w], resume[w], job[w], table[w], stream[w],
                          lost[w], call[w], orphan[w], LeasesOf(w))
  BY Before
<1>2. Domains' /\ Others(w) /\ UNCHANGED <<allocVars, ownerUp>>
  BY <1>1 DEF Timeout, ReleaseThrows, Domains, Others
<1>3. /\ resume' = resume /\ table' = table /\ stream' = stream
      /\ lost'[w] = TRUE /\ call'[w] = None
  BY <1>1 DEF Timeout, Domains
<1>4. orphan'[w] = u
  BY <1>1 DEF Timeout, Domains, Asked, Abandoned
<1>5. \/ /\ pc[w] = "release" /\ group'[w] = Broken(group[w]) /\ job'[w] = NoJob
         /\ pc'[w] = IF resume[w] = "reserve" THEN "failing" ELSE "idle"
      \/ /\ pc[w] = "acquire" /\ group' = group /\ job'[w] = NoJob
         /\ pc'[w] = "failing"
      \/ /\ pc[w] = "farewell" /\ group' = group /\ job' = job /\ pc'[w] = "stop"
  BY <1>1 DEF Timeout, ReleaseThrows, Broken, Domains
<1> HIDE DEF u
<1>6. CASE /\ pc[w] = "release" /\ group'[w] = Broken(group[w]) /\ job'[w] = NoJob
           /\ pc'[w] = IF resume[w] = "reserve" THEN "failing" ELSE "idle"
  <2>1. WorkerOK(w, group[w], "release", resume[w], job[w], table[w], stream[w],
                 lost[w], call[w], orphan[w], LeasesOf(w))
    BY <1>1, <1>6
  <2>2. WorkerOK(w, group'[w], pc'[w], resume[w], NoJob, table[w], stream[w], TRUE, None, u,
                 LeasesOf(w))
    BY <1>6, <2>1, ReleaseTimeoutOK DEF u
  <2>3. WorkerOK(w, group'[w], pc'[w], resume'[w], job'[w], table'[w], stream'[w], lost'[w],
                 call'[w], orphan'[w], LeasesOf(w))
    BY <1>3, <1>4, <1>6, <2>2
  <2>4. QED
    BY <1>2, <2>3, WorkerMoves
<1>7. CASE /\ pc[w] = "acquire" /\ group' = group /\ job'[w] = NoJob
           /\ pc'[w] = "failing"
  <2>1. WorkerOK(w, group[w], "acquire", resume[w], job[w], table[w], stream[w],
                 lost[w], call[w], orphan[w], LeasesOf(w))
    BY <1>1, <1>7
  <2>2. WorkerOK(w, group[w], "failing", resume[w], NoJob, table[w], stream[w], TRUE, None, u,
                 LeasesOf(w))
    BY <2>1, AcquireTimeoutOK DEF u
  <2>3. WorkerOK(w, group'[w], pc'[w], resume'[w], job'[w], table'[w], stream'[w], lost'[w],
                 call'[w], orphan'[w], LeasesOf(w))
    BY <1>3, <1>4, <1>7, <2>2
  <2>4. QED
    BY <1>2, <2>3, WorkerMoves
<1>8. CASE /\ pc[w] = "farewell" /\ group' = group /\ job' = job /\ pc'[w] = "stop"
  <2>1. WorkerOK(w, group[w], "farewell", resume[w], job[w], table[w], stream[w],
                 lost[w], call[w], orphan[w], LeasesOf(w))
    BY <1>1, <1>8
  <2>2. WorkerOK(w, group[w], "stop", resume[w], job[w], table[w], stream[w], TRUE, None, u,
                 LeasesOf(w))
    BY <2>1, FarewellTimeoutOK DEF u
  <2>3. WorkerOK(w, group'[w], pc'[w], resume'[w], job'[w], table'[w], stream'[w], lost'[w],
                 call'[w], orphan'[w], LeasesOf(w))
    BY <1>3, <1>4, <1>8, <2>2
  <2>4. QED
    BY <1>2, <2>3, WorkerMoves
<1>9. QED
  BY <1>5, <1>6, <1>7, <1>8

\* A worker stops.
LEMMA StopKeeps ==
  ASSUME IInv, NEW w \in Worker, Stop(w)
  PROVE  IInv'
<1>1. Domains /\ WorkerOK(w, group[w], pc[w], resume[w], job[w], table[w], stream[w],
                          lost[w], call[w], orphan[w], LeasesOf(w))
  BY Before
<1>2. Domains' /\ Others(w) /\ UNCHANGED <<allocVars, ownerUp>>
  BY <1>1 DEF Stop, Domains, Others, netVars
<1>3. /\ group' = group /\ resume' = resume /\ job' = job /\ stream' = stream
      /\ lost' = lost /\ call' = call /\ orphan' = orphan
      /\ pc'[w] = "stop" /\ stream[w] = <<>>
      /\ (pc[w] = "idle" /\ job[w] = NoJob) \/ pc[w] = "failing"
  BY <1>1 DEF Stop, Domains, netVars, Free
<1>4. table'[w] = NoTables(w)
  BY <1>1 DEF Stop, Domains, NoTables
<1>5. WorkerOK(w, group'[w], pc'[w], resume'[w], job'[w], table'[w], stream'[w], lost'[w],
               call'[w], orphan'[w], LeasesOf(w))
  BY <1>1, <1>3, <1>4, StopOK
<1>6. QED
  BY <1>2, <1>5, WorkerMoves

\* A stopping worker gives a chunk back.
LEMMA StopReleaseKeeps ==
  ASSUME IInv, NEW w \in Worker, StopRelease(w)
  PROVE  IInv'
<1>1. Domains /\ WorkerOK(w, group[w], "stop", resume[w], job[w], table[w], stream[w],
                          lost[w], call[w], orphan[w], LeasesOf(w))
  BY Before DEF StopRelease
<1>2. PICK k \in group[w].chunks :
        /\ Send(w, AskRelease(k))
        /\ group' = [group EXCEPT ![w].chunks = @ \ {k}]
  BY DEF StopRelease
<1>3. Domains' /\ Others(w) /\ UNCHANGED <<allocVars, ownerUp>>
  BY <1>1, <1>2 DEF StopRelease, Send, Domains, Others
<1>4. /\ resume' = resume /\ job' = job /\ table' = table /\ stream' = stream
      /\ lost' = lost /\ orphan' = orphan /\ pc'[w] = "farewell"
      /\ group'[w] = Offered(group[w], k)
  BY <1>1, <1>2 DEF StopRelease, Domains, Offered
<1>5. call'[w] = IF lost[w] THEN [state |-> "rejected"] ELSE [state |-> "release", lease |-> k]
  BY <1>1, <1>2 DEF Send, AskRelease, Domains
<1>6. WorkerOK(w, group'[w], pc'[w], resume'[w], job'[w], table'[w], stream'[w], lost'[w],
               call'[w], orphan'[w], LeasesOf(w))
  BY <1>1, <1>4, <1>5, StopReleaseOK
<1>7. QED
  BY <1>3, <1>6, WorkerMoves

\* The owner has answered a stopping worker.
LEMMA StopAnsweredKeeps ==
  ASSUME IInv, NEW w \in Worker, StopAnswered(w)
  PROVE  IInv'
<1>1. Domains /\ WorkerOK(w, group[w], "farewell", resume[w], job[w], table[w], stream[w],
                          lost[w], call[w], orphan[w], LeasesOf(w))
  BY Before DEF StopAnswered
<1>2. Domains' /\ Others(w) /\ UNCHANGED <<allocVars, ownerUp>>
  BY <1>1 DEF StopAnswered, Domains, Others
<1>3. /\ group' = group /\ resume' = resume /\ job' = job /\ table' = table
      /\ stream' = stream /\ lost' = lost /\ orphan' = orphan
      /\ pc'[w] = "stop" /\ call'[w] = None
  BY <1>1 DEF StopAnswered, Domains
<1>4. WorkerOK(w, group'[w], pc'[w], resume'[w], job'[w], table'[w], stream'[w], lost'[w],
               call'[w], orphan'[w], LeasesOf(w))
  BY <1>1, <1>3, StopAnsweredOK
<1>5. QED
  BY <1>2, <1>4, WorkerMoves

\* A worker has stopped.
LEMMA StopDoneKeeps ==
  ASSUME IInv, NEW w \in Worker, StopDone(w)
  PROVE  IInv'
<1>1. Domains /\ WorkerOK(w, group[w], "stop", resume[w], job[w], table[w], stream[w],
                          lost[w], call[w], orphan[w], LeasesOf(w))
  BY Before DEF StopDone
<1>2. Domains' /\ Others(w) /\ UNCHANGED <<allocVars, ownerUp>>
  BY <1>1 DEF StopDone, Domains, Others, netVars
<1>3. /\ group'[w] = NewGroup(w) /\ resume' = resume /\ job' = job /\ table' = table
      /\ stream' = stream /\ lost' = lost /\ orphan' = orphan /\ call' = call
      /\ pc'[w] = "gone"
  BY <1>1 DEF StopDone, Domains, netVars
<1>4. job[w] = NoJob /\ stream[w] = <<>> /\ call[w] = None
  BY <1>1 DEF WorkerOK, Control, Live
<1>5. /\ TableTyped(w, table[w]) /\ (orphan[w] = None \/ orphan[w] \in Ask(w))
      /\ \A q \in Request : table[w][q] = EmptyTable(w)
  BY <1>1 DEF WorkerOK, Typed, Control, Live
<1>6. WorkerOK(w, NewGroup(w), "gone", resume[w], NoJob, table[w], <<>>, lost[w], None,
               orphan[w], LeasesOf(w))
  BY <1>1, <1>5, GoneOK
<1>7. WorkerOK(w, group'[w], pc'[w], resume'[w], job'[w], table'[w], stream'[w], lost'[w],
               call'[w], orphan'[w], LeasesOf(w))
  BY <1>3, <1>4, <1>6
<1>8. QED
  BY <1>2, <1>7, WorkerMoves

\* A worker dies.
LEMMA CrashKeeps ==
  ASSUME IInv, NEW w \in Worker, Crash(w)
  PROVE  IInv'
<1>1. Domains /\ WorkerOK(w, group[w], pc[w], resume[w], job[w], table[w], stream[w],
                          lost[w], call[w], orphan[w], LeasesOf(w))
  BY Before
<1>2. Domains' /\ Others(w) /\ UNCHANGED <<allocVars, ownerUp>>
  BY <1>1 DEF Crash, Domains, Others
<1>3. /\ group'[w] = NewGroup(w) /\ resume' = resume /\ job'[w] = NoJob
      /\ table'[w] = NoTables(w) /\ stream'[w] = <<>> /\ lost' = lost /\ call'[w] = None
      /\ pc'[w] = "gone" /\ orphan'[w] = IF Asked(w) THEN call[w] ELSE orphan[w]
  BY <1>1 DEF Crash, Domains, NoTables
<1>4. orphan'[w] = None \/ orphan'[w] \in Ask(w)
  <2>1. CallTyped(w, call[w]) /\ (orphan[w] = None \/ orphan[w] \in Ask(w))
    BY <1>1 DEF WorkerOK, Typed
  <2>2. CASE Asked(w)
    <3>1. Abandoned(call[w]) = call[w]
      BY <2>2 DEF Asked, Abandoned
    <3>2. QED
      BY <1>3, <2>1, <2>2, <3>1, AbandonedOK
  <2>3. CASE ~ Asked(w)
    BY <1>3, <2>1, <2>3
  <2>4. QED
    BY <2>2, <2>3
<1>5. TableTyped(w, NoTables(w)) /\ \A q \in Request : NoTables(w)[q] = EmptyTable(w)
  BY NoTablesOK
<1>6. WorkerOK(w, NewGroup(w), "gone", resume[w], NoJob, NoTables(w), <<>>, lost[w], None,
               orphan'[w], LeasesOf(w))
  BY <1>1, <1>4, <1>5, GoneOK
<1>7. WorkerOK(w, group'[w], pc'[w], resume'[w], job'[w], table'[w], stream'[w], lost'[w],
               call'[w], orphan'[w], LeasesOf(w))
  BY <1>3, <1>6
<1>8. QED
  BY <1>2, <1>7, WorkerMoves

-----------------------------------------------------------------------------
(* Steps of the owner. *)

\* The invariant after a step of w that changes at most the leases of w.
LEMMA OwnerMoves ==
  ASSUME IInv, NEW w \in Worker, AllocOK', OwnerInv', Domains', Others(w),
         \A v \in Worker \ {w} : LeasesOf(v)' = LeasesOf(v),
         NEW M, LeasesOf(w)' = M,
         WorkerOK(w, group'[w], pc'[w], resume'[w], job'[w], table'[w], stream'[w],
                  lost'[w], call'[w], orphan'[w], M)
  PROVE  IInv'
<1>1. WorkerInv(w)'
  BY DEF WorkerInv
<1>2. \A v \in Worker \ {w} : WorkerInv(v)'
  BY OthersKeep DEF IInv
<1>3. QED
  BY <1>1, <1>2 DEF IInv

\* A worker starts.
LEMMA ConnectKeeps ==
  ASSUME IInv, NEW w \in Worker, Connect(w)
  PROVE  IInv'
<1>1. /\ Domains /\ AllocOK /\ OwnerInv
      /\ WorkerOK(w, group[w], "new", resume[w], job[w], table[w], stream[w],
                  lost[w], call[w], orphan[w], LeasesOf(w))
  BY Before DEF Connect
<1>2. AllocOK' /\ leases' = leases
  BY <1>1, RegisterKeeps, PageBytesPositive DEF Connect, Worker
<1>3. OwnerInv'
  BY <1>1, <1>2 DEF Connect, OwnerInv, netVars
<1>4. Domains' /\ Others(w)
  BY <1>1 DEF Connect, Domains, Others, netVars
<1>5. \A v \in Worker : LeasesOf(v)' = LeasesOf(v)
  BY <1>2 DEF LeasesOf
<1>6. /\ group' = group /\ resume' = resume /\ job' = job /\ table' = table
      /\ stream' = stream /\ lost' = lost /\ orphan' = orphan /\ call' = call
      /\ pc'[w] = "idle"
  BY <1>1 DEF Connect, Domains, netVars
<1>7. WorkerOK(w, group'[w], pc'[w], resume'[w], job'[w], table'[w], stream'[w], lost'[w],
               call'[w], orphan'[w], LeasesOf(w))
  BY <1>1, <1>6, ConnectOK
<1>8. QED
  BY <1>2, <1>3, <1>4, <1>5, <1>7, OwnerMoves

\* A grant adds a lease to those of the worker.
LEMMA ServeAcquire ==
  ASSUME AllocOK, NEW w \in Worker, NEW b \in Nat, Acquire(w, w, b, PageBytes(w))
  PROVE  /\ AllocOK'
         /\ \A v \in Worker \ {w} : LeasesOf(v)' = LeasesOf(v)
         /\ \E k \in OwnLease(w) :
              /\ k \notin LeasesOf(w) /\ LeasesOf(w)' = LeasesOf(w) \cup {k}
              /\ k.bytes = b /\ IsMultiple(k.offset, PageBytes(w))
              /\ (CHOOSE l \in leases' : l \notin leases) = k
<1>1. b \in Nat \ {0} /\ PageBytes(w) \in Nat \ {0} /\ w \in Model /\ w \in Layout
  BY PageBytesPositive, GeometryAssumption DEF Acquire, ValidRequest, Worker
<1>2. /\ AllocOK'
      /\ \E lease \in ChunkLease :
           /\ leases' = leases \cup {lease} /\ lease \notin leases
           /\ lease.epoch = epoch
           /\ lease.id = nextGeneration /\ lease.generation = nextGeneration
           /\ lease.model = w /\ lease.layout = w /\ lease.bytes = b
           /\ IsMultiple(lease.offset, PageBytes(w))
  BY <1>1, AcquireKeeps
<1>3. PICK k \in ChunkLease :
        /\ leases' = leases \cup {k} /\ k \notin leases
        /\ k.model = w /\ k.bytes = b /\ IsMultiple(k.offset, PageBytes(w))
  BY <1>2
<1>4. k \in OwnLease(w)
  BY <1>3 DEF OwnLease
<1>5. (CHOOSE l \in leases' : l \notin leases) = k
  BY <1>3
<1>6. /\ LeasesOf(w)' = LeasesOf(w) \cup {k} /\ k \notin LeasesOf(w)
      /\ \A v \in Worker \ {w} : LeasesOf(v)' = LeasesOf(v)
  BY <1>3 DEF LeasesOf
<1>7. QED
  BY <1>2, <1>3, <1>4, <1>5, <1>6

\* A release takes one lease off those of the worker.
LEMMA ServeRelease ==
  ASSUME AllocOK, NEW w \in Worker, NEW k \in OwnLease(w), Release(k)
  PROVE  /\ AllocOK'
         /\ \A v \in Worker \ {w} : LeasesOf(v)' = LeasesOf(v)
         /\ LeasesOf(w)' = LeasesOf(w) \ {k}
<1>1. k \in ChunkLease /\ k.model = w
  BY DEF OwnLease
<1>2. AllocOK' /\ k \in leases /\ leases' = leases \ {k}
  BY <1>1, ReleaseKeeps
<1>3. QED
  BY <1>1, <1>2 DEF LeasesOf

\* A request that changes nothing.
LEMMA ServeNothing ==
  ASSUME AllocOK, UNCHANGED allocVars
  PROVE  AllocOK' /\ \A v \in Worker : LeasesOf(v)' = LeasesOf(v)
<1>1. AllocOK'
  BY AllocStutters
<1>2. QED
  BY <1>1 DEF LeasesOf, allocVars

\* The owner serves a request.
LEMMA OwnerServesKeeps ==
  ASSUME IInv, NEW w \in Worker, OwnerServes(w)
  PROVE  IInv'
<1> DEFINE c == call[w]
<1>1. /\ Domains /\ AllocOK /\ OwnerInv
      /\ WorkerOK(w, group[w], pc[w], resume[w], job[w], table[w], stream[w],
                  lost[w], c, orphan[w], LeasesOf(w))
  BY Before
<1>2. Domains' /\ Others(w) /\ OwnerInv'
  BY <1>1 DEF OwnerServes, Domains, Others, OwnerInv, workerVars
<1>3. /\ group' = group /\ pc' = pc /\ resume' = resume /\ job' = job /\ table' = table
      /\ stream' = stream /\ lost' = lost /\ orphan' = orphan
  BY DEF OwnerServes, workerVars
<1>4. call'[w] = Answer(w, c) /\ Serve(w, c) /\ c.state \in {"acquire", "release"}
  BY <1>1 DEF OwnerServes, Domains, Asked
<1>5. CallTyped(w, c)
  BY <1>1 DEF WorkerOK, Typed
<1> HIDE DEF c
<1>6. CASE c.state = "acquire" /\ CanAcquire(w, c.bytes, PageBytes(w))
  <2>1. c.bytes \in Nat
    BY <1>5, <1>6 DEF CallTyped, None
  <2>2. /\ Acquire(w, w, c.bytes, PageBytes(w))
        /\ call'[w] = [state |-> "granted", lease |-> CHOOSE l \in leases' : l \notin leases]
    BY <1>4, <1>6 DEF Serve, Answer
  <2>3. /\ AllocOK'
        /\ \A v \in Worker \ {w} : LeasesOf(v)' = LeasesOf(v)
        /\ \E k \in OwnLease(w) :
             /\ k \notin LeasesOf(w) /\ LeasesOf(w)' = LeasesOf(w) \cup {k}
             /\ k.bytes = c.bytes /\ IsMultiple(k.offset, PageBytes(w))
             /\ (CHOOSE l \in leases' : l \notin leases) = k
    BY <1>1, <2>1, <2>2, ServeAcquire
  <2>4. PICK k \in OwnLease(w) :
          /\ k \notin LeasesOf(w) /\ LeasesOf(w)' = LeasesOf(w) \cup {k}
          /\ k.bytes = c.bytes /\ IsMultiple(k.offset, PageBytes(w))
          /\ (CHOOSE l \in leases' : l \notin leases) = k
    BY <2>3
  <2>5. call'[w] = [state |-> "granted", lease |-> k]
    BY <2>2, <2>4
  <2> DEFINE M == LeasesOf(w) \cup {k}
  <2>6. M = LeasesOf(w) \cup {k} /\ LeasesOf(w)' = M
    BY <2>4
  <2> HIDE DEF M
  <2>7. WorkerOK(w, group'[w], pc'[w], resume'[w], job'[w], table'[w], stream'[w], lost'[w],
                 call'[w], orphan'[w], M)
    BY <1>1, <1>3, <1>6, <2>4, <2>5, <2>6, ServeGrantedOK
  <2>8. QED
    BY <1>2, <2>3, <2>6, <2>7, OwnerMoves
<1>7. CASE c.state = "acquire" /\ ~ CanAcquire(w, c.bytes, PageBytes(w))
  <2>1. /\ UNCHANGED allocVars
        /\ call'[w] = [state |-> "refused", bytes |-> c.bytes]
    BY <1>4, <1>7 DEF Serve, Answer
  <2>2. AllocOK' /\ \A v \in Worker : LeasesOf(v)' = LeasesOf(v)
    BY <1>1, <2>1, ServeNothing
  <2>3. WorkerOK(w, group'[w], pc'[w], resume'[w], job'[w], table'[w], stream'[w], lost'[w],
                 call'[w], orphan'[w], LeasesOf(w))
    BY <1>1, <1>3, <1>7, <2>1, ServeRefusedOK
  <2>4. QED
    BY <1>2, <2>2, <2>3, OwnerMoves
<1>8. CASE c.state = "release" /\ Releasable(c.lease)
  <2>1. c.lease \in OwnLease(w)
    BY <1>5, <1>8 DEF CallTyped, None
  <2>2. Release(c.lease) /\ call'[w] = [state |-> "released", lease |-> c.lease]
    BY <1>4, <1>8 DEF Serve, Answer
  <2> DEFINE M == LeasesOf(w) \ {c.lease}
  <2>3. /\ AllocOK' /\ \A v \in Worker \ {w} : LeasesOf(v)' = LeasesOf(v)
        /\ LeasesOf(w)' = M
    BY <1>1, <2>1, <2>2, ServeRelease
  <2>4. M = LeasesOf(w) \ {c.lease}
    OBVIOUS
  <2> HIDE DEF M
  <2>5. WorkerOK(w, group'[w], pc'[w], resume'[w], job'[w], table'[w], stream'[w], lost'[w],
                 call'[w], orphan'[w], M)
    BY <1>1, <1>3, <1>8, <2>2, <2>4, ServeReleasedOK
  <2>6. QED
    BY <1>2, <2>3, <2>5, OwnerMoves
<1>9. CASE c.state = "release" /\ ~ Releasable(c.lease)
  <2>1. UNCHANGED allocVars /\ call'[w] = [state |-> "rejected"]
    BY <1>4, <1>9 DEF Serve, Answer
  <2>2. AllocOK' /\ \A v \in Worker : LeasesOf(v)' = LeasesOf(v)
    BY <1>1, <2>1, ServeNothing
  <2>3. WorkerOK(w, group'[w], pc'[w], resume'[w], job'[w], table'[w], stream'[w], lost'[w],
                 call'[w], orphan'[w], LeasesOf(w))
    BY <1>1, <1>3, <1>9, <2>1, ServeReleasedOK
  <2>4. QED
    BY <1>2, <2>2, <2>3, OwnerMoves
<1>10. QED
  BY <1>4, <1>6, <1>7, <1>8, <1>9

\* The owner serves a request that nobody waits for.
LEMMA OwnerServesOrphanKeeps ==
  ASSUME IInv, NEW w \in Worker, OwnerServesOrphan(w)
  PROVE  IInv'
<1> DEFINE o == orphan[w]
<1>1. /\ Domains /\ AllocOK /\ OwnerInv
      /\ WorkerOK(w, group[w], pc[w], resume[w], job[w], table[w], stream[w],
                  lost[w], call[w], o, LeasesOf(w))
  BY Before
<1>2. Domains' /\ Others(w) /\ OwnerInv'
  BY <1>1 DEF OwnerServesOrphan, Domains, Others, OwnerInv, workerVars
<1>3. /\ group' = group /\ pc' = pc /\ resume' = resume /\ job' = job /\ table' = table
      /\ stream' = stream /\ lost' = lost /\ call' = call
  BY DEF OwnerServesOrphan, workerVars
<1>4. orphan'[w] = None /\ Serve(w, o) /\ o # None
  BY <1>1 DEF OwnerServesOrphan, Domains
<1>5. o \in Ask(w)
  BY <1>1, <1>4 DEF WorkerOK, Typed
<1> HIDE DEF o
<1>6. /\ AllocOK' /\ \A v \in Worker \ {w} : LeasesOf(v)' = LeasesOf(v)
      /\ LeasesOf(w) \subseteq LeasesOf(w)'
           \/ (o.state = "release" /\ LeasesOf(w)' = LeasesOf(w) \ {o.lease})
  <2>1. CASE UNCHANGED allocVars
    BY <1>1, <2>1, ServeNothing
  <2>2. CASE o.state = "acquire" /\ Acquire(w, w, o.bytes, PageBytes(w))
    <3>1. o.bytes \in Nat
      BY <1>5, <2>2 DEF Ask
    <3>2. QED
      BY <1>1, <2>2, <3>1, ServeAcquire
  <2>3. CASE o.state = "release" /\ Release(o.lease)
    <3>1. o.lease \in OwnLease(w)
      BY <1>5, <2>3 DEF Ask
    <3>2. QED
      BY <1>1, <2>3, <3>1, ServeRelease
  <2>4. o.state \in {"acquire", "release"}
    BY <1>5 DEF Ask
  <2>5. QED
    BY <1>4, <2>1, <2>2, <2>3, <2>4 DEF Serve
<1> DEFINE M == LeasesOf(w)'
<1>7. /\ LeasesOf(w)' = M
      /\ LeasesOf(w) \subseteq M \/ (o.state = "release" /\ M = LeasesOf(w) \ {o.lease})
  BY <1>6
<1> HIDE DEF M
<1>8. WorkerOK(w, group[w], pc[w], resume[w], job[w], table[w], stream[w],
               lost[w], call[w], None, M)
  BY <1>1, <1>4, <1>7, OrphanOK
<1>9. WorkerOK(w, group'[w], pc'[w], resume'[w], job'[w], table'[w], stream'[w], lost'[w],
               call'[w], orphan'[w], M)
  BY <1>3, <1>4, <1>8
<1>10. QED
  BY <1>2, <1>6, <1>7, <1>9, OwnerMoves

\* The owner leaves.
LEMMA OwnerShutdownKeeps ==
  ASSUME IInv, OwnerShutdown
  PROVE  IInv'
<1>1. UNCHANGED <<allocVars, workerVars, call, orphan>> /\ leases = {} /\ ~ ownerUp'
      /\ ownerUp' \in BOOLEAN
  BY DEF OwnerShutdown
<1>2. AllocOK'
  BY <1>1, AllocStutters DEF IInv
<1>3. OwnerInv'
  BY <1>1 DEF OwnerInv, allocVars
<1>4. Domains'
  BY <1>1 DEF IInv, Domains, workerVars
<1>5. \A w \in Worker : WorkerInv(w)'
  BY <1>1 DEF IInv, WorkerInv, LeasesOf, allocVars, workerVars
<1>6. QED
  BY <1>2, <1>3, <1>4, <1>5 DEF IInv

-----------------------------------------------------------------------------
(* The invariant holds from the first state on. *)

\* The first state.
LEMMA InitIInv == Init => IInv
<1> SUFFICES ASSUME Init PROVE IInv
  OBVIOUS
<1>1. AllocOK /\ leases = {}
  BY InitAllocOK DEF Init, AllocInit
<1>2. OwnerInv /\ Domains
  BY <1>1 DEF Init, OwnerInv, Domains
<1>3. ASSUME NEW w \in Worker PROVE WorkerInv(w)
  <2> DEFINE t == NoTables(w)
             L == LeasesOf(w)
  <2>1. /\ group[w] = NewGroup(w) /\ pc[w] = "new" /\ resume[w] = "idle" /\ job[w] = NoJob
        /\ stream[w] = <<>> /\ lost[w] = FALSE /\ call[w] = None /\ orphan[w] = None
    BY DEF Init
  <2>2. table[w] = t
    BY DEF Init, NoTables
  <2>3. L = {}
    BY <1>1 DEF LeasesOf
  <2> HIDE DEF t, L
  <2>4. TableTyped(w, t) /\ \A q \in Request : t[q] = EmptyTable(w)
    BY NoTablesOK DEF t
  <2>5. <<>> \in Seq(Entry) /\ Quiet(NewGroup(w), <<>>)
    BY DEF Quiet
  <2>6. Typed(w, NewGroup(w), NoJob, t, <<>>, None, None)
    BY <2>4, <2>5, NewGroupOK DEF Typed, JobTyped, CallTyped
  <2>7. ~ Live("new")
    BY DEF Live
  <2>8. Control(w, NewGroup(w), "new", "idle", NoJob, t, <<>>, FALSE, None, None, L)
    BY <2>3, <2>4, <2>7 DEF Control, PC, NoJob
  <2>9. WorkerOK(w, NewGroup(w), "new", "idle", NoJob, t, <<>>, FALSE, None, None, L)
    BY <2>5, <2>6, <2>7, <2>8 DEF WorkerOK
  <2>10. QED
    BY <2>1, <2>2, <2>9 DEF WorkerInv, L
<1>4. QED
  BY <1>1, <1>2, <1>3 DEF IInv

\* What a worker does on its own.
LEMMA ProceedKeeps ==
  ASSUME IInv, NEW w \in Worker, Proceed(w)
  PROVE  IInv'
<1>1. CASE CollectPage(w)
  BY <1>1, CollectPageKeeps
<1>2. CASE CollectStops(w)
  BY <1>2, CollectStopsKeeps
<1>3. CASE ChunkReturned(w)
  BY <1>3, ChunkReturnedKeeps
<1>4. CASE ReserveFree(w)
  BY <1>4, ReserveFreeKeeps
<1>5. CASE ReserveNothing(w)
  BY <1>5, ReserveNothingKeeps
<1>6. CASE ReserveAsk(w)
  BY <1>6, ReserveAskKeeps
<1>7. CASE ChunkGranted(w)
  BY <1>7, ChunkGrantedKeeps
<1>8. CASE ChunkRefused(w)
  BY <1>8, ChunkRefusedKeeps
<1>9. CASE Fill(w)
  BY <1>9, FillKeeps
<1>10. CASE RetireNext(w)
  BY <1>10, RetireNextKeeps
<1>11. CASE ReleaseDone(w)
  BY <1>11, ReleaseDoneKeeps
<1>12. CASE StopRelease(w)
  BY <1>12, StopReleaseKeeps
<1>13. CASE StopAnswered(w)
  BY <1>13, StopAnsweredKeeps
<1>14. CASE StopDone(w)
  BY <1>14, StopDoneKeeps
<1>15. QED
  BY <1>1, <1>2, <1>3, <1>4, <1>5, <1>6, <1>7, <1>8, <1>9, <1>10, <1>11, <1>12, <1>13,
     <1>14 DEF Proceed

\* Every step keeps the invariant.
LEMMA NextIInv == IInv /\ [Next]_vars => IInv'
<1> SUFFICES ASSUME IInv, [Next]_vars PROVE IInv'
  OBVIOUS
<1>1. CASE UNCHANGED vars
  <2>1. UNCHANGED <<allocVars, workerVars, netVars>>
    BY <1>1 DEF vars
  <2>2. AllocOK'
    BY <2>1, AllocStutters DEF IInv
  <2>3. OwnerInv' /\ Domains'
    BY <2>1 DEF IInv, OwnerInv, Domains, allocVars, workerVars, netVars
  <2>4. \A w \in Worker : WorkerInv(w)'
    BY <2>1 DEF IInv, WorkerInv, LeasesOf, allocVars, workerVars, netVars
  <2>5. QED
    BY <2>2, <2>3, <2>4 DEF IInv
<1>2. CASE OwnerShutdown
  BY <1>2, OwnerShutdownKeeps
<1>3. ASSUME NEW w \in Worker,
             \/ Connect(w) \/ OwnerServes(w) \/ OwnerServesOrphan(w)
             \/ \E s \in Request : \/ \E n \in 1..MaxBlocks : StartAppend(w, s, n)
                                   \/ StartRelease(w, s)
             \/ \E seqs \in SUBSET Request : Launch(w, seqs)
             \/ Proceed(w) \/ Poll(w) \/ GpuStep(w)
             \/ Timeout(w) \/ Stop(w) \/ Crash(w)
      PROVE  IInv'
  <2>1. CASE Connect(w)
    BY <2>1, ConnectKeeps
  <2>2. CASE OwnerServes(w)
    BY <2>2, OwnerServesKeeps
  <2>3. CASE OwnerServesOrphan(w)
    BY <2>3, OwnerServesOrphanKeeps
  <2>4. ASSUME NEW s \in Request, NEW n \in 1..MaxBlocks, StartAppend(w, s, n)
        PROVE  IInv'
    BY <2>4, StartAppendKeeps
  <2>5. ASSUME NEW s \in Request, StartRelease(w, s) PROVE IInv'
    BY <2>5, StartReleaseKeeps
  <2>6. ASSUME NEW seqs \in SUBSET Request, Launch(w, seqs) PROVE IInv'
    BY <2>6, LaunchKeeps
  <2>7. CASE Proceed(w)
    BY <2>7, ProceedKeeps
  <2>8. CASE Poll(w)
    BY <2>8, PollKeeps
  <2>9. CASE GpuStep(w)
    BY <2>9, GpuStepKeeps
  <2>10. CASE Timeout(w)
    BY <2>10, TimeoutKeeps
  <2>11. CASE Stop(w)
    BY <2>11, StopKeeps
  <2>12. CASE Crash(w)
    BY <2>12, CrashKeeps
  <2>13. QED
    BY <1>3, <2>1, <2>2, <2>3, <2>4, <2>5, <2>6, <2>7, <2>8, <2>9, <2>10, <2>11, <2>12
<1>4. QED
  BY <1>1, <1>2, <1>3 DEF Next

\* The inductive invariant is one: owner, workers and the exchanges between them
\* stay as every handler leaves them.
THEOREM Inductive == Spec => []IInv
<1>1. Init => IInv
  BY InitIInv
<1>2. IInv /\ [Next]_vars => IInv'
  BY NextIInv
<1>3. QED
  BY <1>1, <1>2, PTL DEF Spec

-----------------------------------------------------------------------------
(* What the invariant says to a user of the system.                          *)

\* A worker's part of the invariant.
LEMMA PartsOf ==
  ASSUME IInv, NEW w \in Worker
  PROVE  LET g == group[w]
             j == job[w]
             t == table[w]
             s == stream[w]
         IN  /\ Typed(w, g, j, t, s, call[w], orphan[w]) /\ GroupTyped(w, g)
             /\ Control(w, g, pc[w], resume[w], j, t, s, lost[w], call[w], orphan[w],
                        LeasesOf(w))
             /\ Quiet(g, s)
             /\ Live(pc[w]) =>
                  /\ Geometry(w, g) /\ Books(w, g, lost[w], call[w], orphan[w], LeasesOf(w))
                  /\ Pages(w, g, j, t) /\ TablesOK(w, g, t)
             /\ s # <<>> => Live(pc[w])
             /\ pc[w] \in PC /\ resume[w] \in {"idle", "reserve"} /\ lost[w] \in BOOLEAN
             /\ Serving(w) => Live(pc[w])
<1>1. WorkerInv(w)
  BY DEF IInv
<1>2. Control(w, group[w], pc[w], resume[w], job[w], table[w], stream[w], lost[w],
              call[w], orphan[w], LeasesOf(w))
  BY <1>1 DEF WorkerInv, WorkerOK
<1>3. /\ pc[w] \in PC /\ resume[w] \in {"idle", "reserve"} /\ lost[w] \in BOOLEAN
      /\ stream[w] # <<>> => Live(pc[w])
  BY <1>2 DEF Control
<1>4. Serving(w) => Live(pc[w])
  BY <1>3 DEF Serving, Live
<1>5. QED
  BY <1>1, <1>2, <1>3, <1>4 DEF WorkerInv, WorkerOK, Typed, Pages

\* Where a worker is, what follows and whether its client has failed are
\* functions: each handler writes them at its own worker.
Functional ==
  /\ pc = [w \in Worker |-> pc[w]]
  /\ resume = [w \in Worker |-> resume[w]]
  /\ lost = [w \in Worker |-> lost[w]]

\* The control state stays a function of the worker.
LEMMA FunctionalStays == Functional /\ [Next]_vars => Functional'
<1> SUFFICES ASSUME Functional, [Next]_vars PROVE Functional'
  OBVIOUS
<1> USE DEF Functional
<1>1. CASE UNCHANGED vars
  BY <1>1 DEF vars, workerVars
<1>2. CASE OwnerShutdown
  BY <1>2 DEF OwnerShutdown, workerVars
<1>3. ASSUME NEW w \in Worker,
             \/ Connect(w) \/ OwnerServes(w) \/ OwnerServesOrphan(w)
             \/ \E s \in Request : \/ \E n \in 1..MaxBlocks : StartAppend(w, s, n)
                                   \/ StartRelease(w, s)
             \/ \E seqs \in SUBSET Request : Launch(w, seqs)
             \/ Proceed(w) \/ Poll(w) \/ GpuStep(w)
             \/ Timeout(w) \/ Stop(w) \/ Crash(w)
      PROVE  Functional'
  <2>1. CASE Connect(w) \/ OwnerServes(w) \/ OwnerServesOrphan(w)
    BY <2>1 DEF Connect, OwnerServes, OwnerServesOrphan, workerVars
  <2>2. CASE \E s \in Request : \/ \E n \in 1..MaxBlocks : StartAppend(w, s, n)
                                \/ StartRelease(w, s)
    BY <2>2 DEF StartAppend, StartRelease
  <2>3. CASE \E seqs \in SUBSET Request : Launch(w, seqs)
    BY <2>3 DEF Launch
  <2>4. CASE CollectPage(w) \/ CollectStops(w) \/ ChunkReturned(w)
    BY <2>4 DEF CollectPage, CollectStops, ChunkReturned
  <2>5. CASE ReserveFree(w) \/ ReserveNothing(w) \/ ReserveAsk(w)
    BY <2>5 DEF ReserveFree, ReserveNothing, ReserveAsk, TakePage, NoPage
  <2>6. CASE ChunkGranted(w) \/ ChunkRefused(w) \/ Fill(w)
    BY <2>6 DEF ChunkGranted, ChunkRefused, Fill, TakePage, NoPage
  <2>7. CASE RetireNext(w) \/ ReleaseDone(w) \/ Poll(w) \/ GpuStep(w)
    BY <2>7 DEF RetireNext, ReleaseDone, Poll, GpuStep
  <2>8. CASE StopRelease(w) \/ StopAnswered(w) \/ StopDone(w) \/ Stop(w) \/ Crash(w)
    BY <2>8 DEF StopRelease, StopAnswered, StopDone, Stop, Crash
  <2>9. CASE Timeout(w)
    BY <2>9 DEF Timeout, ReleaseThrows
  <2>10. QED
    BY <1>3, <2>1, <2>2, <2>3, <2>4, <2>5, <2>6, <2>7, <2>8, <2>9 DEF Proceed
<1>4. QED
  BY <1>1, <1>2, <1>3 DEF Next

\* Each handler leaves every variable of the workers within its type.
THEOREM WorkersTyped == Spec => []TypeOK
<1>1. Init => Functional
  BY DEF Init, Functional
<1>2. ASSUME IInv, Functional PROVE TypeOK
  <2>1. ASSUME NEW w \in Worker
        PROVE  /\ group[w].chunks \subseteq ChunkLease /\ group[w].freePages \subseteq Nat
               /\ group[w].leasedBytes \in Nat /\ group[w].failed \in BOOLEAN
               /\ \A id \in DOMAIN group[w].pages :
                    group[w].pages[id] \in
                      [active : SUBSET Layer(w), reserved : SUBSET Layer(w),
                       retired : BOOLEAN]
               /\ DOMAIN group[w].pending = Layer(w) \ {0}
    <3>1. GroupTyped(w, group[w])
      BY <1>2, PartsOf
    <3>2. QED
      BY <3>1 DEF GroupTyped, PageRecord
  <2>2. /\ \A w \in Worker : pc[w] \in PC
        /\ \A w \in Worker : resume[w] \in {"idle", "reserve"}
        /\ \A w \in Worker : lost[w] \in BOOLEAN
    BY <1>2, PartsOf
  <2>3. /\ pc \in [Worker -> PC] /\ resume \in [Worker -> {"idle", "reserve"}]
        /\ lost \in [Worker -> BOOLEAN]
    BY <1>2, <2>2 DEF Functional
  <2>4. ownerUp \in BOOLEAN
    BY <1>2 DEF IInv, OwnerInv
  <2>5. QED
    BY <2>1, <2>3, <2>4 DEF TypeOK, PC
<1>3. QED
  BY <1>1, <1>2, FunctionalStays, Inductive, PTL DEF Spec

\* What a submitted kernel works on lies in a chunk the worker leases.
LEMMA WorkInLease ==
  ASSUME IInv, NEW w \in Worker, Live(pc[w]), NEW id \in DOMAIN group[w].pages,
         id \notin group[w].freePages
  PROVE  \E c \in group[w].chunks :
           /\ c \in leases /\ c.model = w /\ id \in PageIds(w, c)
           /\ c \in ChunkLease /\ WholePages(w, c)
<1>1. /\ GroupTyped(w, group[w]) /\ Geometry(w, group[w])
      /\ Books(w, group[w], lost[w], call[w], orphan[w], LeasesOf(w))
  BY PartsOf
<1>2. PICK c \in group[w].chunks : id \in PageIds(w, c)
  BY <1>1 DEF Geometry
<1>3. c \in ChunkLease /\ WholePages(w, c)
  BY <1>1 DEF GroupTyped, Geometry
<1>4. c \in LeasesOf(w)
  BY <1>1, <1>2 DEF Books
<1>5. QED
  BY <1>2, <1>3, <1>4 DEF LeasesOf

\* The pages of a submitted kernel are in use and leased.
LEMMA KernelInLease ==
  ASSUME IInv, NEW w \in Worker, NEW k \in DOMAIN stream[w], IsKernel(stream[w][k]),
         NEW id \in stream[w][k].kernel
  PROVE  /\ id \in DOMAIN group[w].pages /\ id \notin group[w].freePages
         /\ Live(pc[w])
<1>1. Quiet(group[w], stream[w]) /\ (stream[w] # <<>> => Live(pc[w]))
  BY PartsOf
<1>2. stream[w] # <<>>
  OBVIOUS
<1>3. QED
  BY <1>1, <1>2 DEF Quiet

\* From take to free a page is used by its one sequence only: what is free is
\* quiet, what is retired is retired once, and the arena outlives the work.
LEMMA UseIsExclusive == IInv => PagesExclusive
<1> SUFFICES ASSUME IInv PROVE PagesExclusive
  OBVIOUS
<1>1. FreeIsQuiet
  <2> SUFFICES ASSUME NEW w \in Worker, NEW ids \in Kernels(w), NEW id \in ids
               PROVE  id \notin group[w].freePages
    BY DEF FreeIsQuiet
  <2>1. PICK k \in DOMAIN stream[w] : IsKernel(stream[w][k]) /\ ids = stream[w][k].kernel
    BY DEF Kernels, IsKernel
  <2>2. QED
    BY <2>1, KernelInLease
<1>2. OneOwner
  <2> SUFFICES ASSUME NEW w \in Worker, Serving(w)
               PROVE  LET places == {p \in Request \X (1..MaxBlocks) :
                                       p[2] <= Len(table[w][p[1]][0])}
                          at(p) == table[w][p[1]][0][p[2]]
                      IN  /\ \A p, q \in places : at(p) = at(q) => p = q
                          /\ \A p \in places : /\ at(p) \in DOMAIN group[w].pages
                                               /\ at(p) \notin group[w].freePages
                                               /\ ~ group[w].pages[at(p)].retired
    BY DEF OneOwner
  <2> DEFINE places == {p \in Request \X (1..MaxBlocks) :
                          p[2] <= Len(table[w][p[1]][0])}
             t == table[w]
             at(p) == t[p[1]][0][p[2]]
  <2>1. TablesOK(w, group[w], t) /\ TableTyped(w, t)
    BY PartsOf DEF Typed
  <2> HIDE DEF t
  <2>2. ASSUME NEW p \in places
        PROVE  /\ p[1] \in Request /\ p[2] \in DOMAIN t[p[1]][0]
               /\ at(p) \in Range(t[p[1]][0]) /\ p = <<p[1], p[2]>>
    <3>1. /\ p[1] \in Request /\ p[2] \in 1..MaxBlocks /\ p = <<p[1], p[2]>>
          /\ p[2] <= Len(t[p[1]][0])
      BY DEF t
    <3>2. t[p[1]][0] \in Seq(Nat)
      BY <2>1, <3>1, LayerZero DEF TableTyped
    <3>3. p[2] \in DOMAIN t[p[1]][0]
      BY <3>1, <3>2
    <3>4. QED
      BY <3>1, <3>3 DEF Range
  <2>3. ASSUME NEW p \in places, NEW q \in places, at(p) = at(q) PROVE p = q
    <3>1. /\ p[1] \in Request /\ p[2] \in DOMAIN t[p[1]][0]
          /\ at(p) \in Range(t[p[1]][0]) /\ p = <<p[1], p[2]>>
      BY <2>2
    <3>2. /\ q[1] \in Request /\ q[2] \in DOMAIN t[q[1]][0]
          /\ at(q) \in Range(t[q[1]][0]) /\ q = <<q[1], q[2]>>
      BY <2>2
    <3>3. p[1] = q[1]
      BY <2>1, <2>3, <3>1, <3>2 DEF TablesOK
    <3>4. p[2] = q[2]
      BY <2>1, <2>3, <3>1, <3>2, <3>3 DEF TablesOK, Distinct
    <3>5. QED
      BY <3>1, <3>2, <3>3, <3>4
  <2>4. ASSUME NEW p \in places
        PROVE  /\ at(p) \in DOMAIN group[w].pages /\ at(p) \notin group[w].freePages
               /\ ~ group[w].pages[at(p)].retired
    <3>1. at(p) \in TableIds(t)
      BY <2>2 DEF TableIds
    <3>2. QED
      BY <2>1, <3>1 DEF TablesOK, InUse
  <2>5. QED
    BY <2>3, <2>4 DEF t
<1>3. RetireIsLegal
  <2> SUFFICES ASSUME NEW w \in Worker, job[w].op = "free", NEW l \in Layer(w),
                      NEW id \in Range(job[w].left[l])
               PROVE  /\ id \in DOMAIN group[w].pages
                      /\ l \in group[w].pages[id].active
                      /\ ~ group[w].pages[id].retired
                      /\ l \notin group[w].pages[id].reserved
    BY DEF RetireIsLegal
  <2> DEFINE g == group[w]
             left == job[w].left
  <2>1. Live(pc[w])
    BY PartsOf DEF Control, NoJob
  <2>2. FreeOK(w, g, table[w], left)
    BY <2>1, PartsOf DEF Pages
  <2> HIDE DEF g, left
  <2>3. id \in Range(left[l]) /\ id \in LeftIds(w, left)
    BY DEF LeftIds, left
  <2>4. id \in DOMAIN g.pages /\ ~ g.pages[id].retired
    BY <2>2, <2>3 DEF FreeOK
  <2>5. l \in g.pages[id].active /\ l \notin g.pages[id].reserved
    <3>1. CASE LayersHave(w, g, left)
      BY <2>3, <3>1 DEF LayersHave
    <3>2. CASE FirstHas(w, g, left)
      <4>1. l = 0
        <5>1. l # 0 => left[l] = <<>>
          BY <3>2 DEF FirstHas
        <5>2. QED
          BY <2>3, <5>1, EmptyQueue
      <4>2. g.pages[id] = Reserved(w)
        BY <2>3, <3>2, <4>1 DEF FirstHas
      <4>3. QED
        BY <4>1, <4>2 DEF Reserved
    <3>3. QED
      BY <2>2, <3>1, <3>2 DEF FreeOK
  <2>6. QED
    BY <2>4, <2>5 DEF g
<1>4. ArenaOutlivesUse
  <2> SUFFICES ASSUME ~ ownerUp, NEW w \in Worker, NEW ids \in Kernels(w) PROVE FALSE
    BY DEF ArenaOutlivesUse
  <2>1. PICK k \in DOMAIN stream[w] : IsKernel(stream[w][k]) /\ ids = stream[w][k].kernel
    BY DEF Kernels, IsKernel
  <2>2. PICK id \in stream[w][k].kernel : TRUE
    BY <2>1, PartsOf DEF Quiet
  <2>3. leases # {}
    BY <2>1, <2>2, KernelInLease, WorkInLease
  <2>4. QED
    BY <2>3 DEF IInv, OwnerInv
<1>5. QED
  BY <1>1, <1>2, <1>3, <1>4 DEF PagesExclusive

\* In every behaviour, with any number of workers and any geometry, a page is used
\* by its one sequence only: nothing free is still read or written, no page has
\* two owners, none is retired twice, and the arena outlives what the GPU does.
THEOREM UseStaysExclusive == Spec => []PagesExclusive
BY Inductive, UseIsExclusive, PTL

\* Layers, worker and owner agree on what is held.
LEMMA AllAgree == IInv => BooksAgree
<1> SUFFICES ASSUME IInv PROVE BooksAgree
  OBVIOUS
<1>1. LayersAgree
  <2> SUFFICES ASSUME NEW w \in Worker, NEW s \in Request, NEW l \in Layer(w)
               PROVE  table[w][s][l] = table[w][s][0]
    BY DEF LayersAgree
  <2>1. CASE Live(pc[w])
    BY <2>1, PartsOf DEF TablesOK
  <2>2. CASE ~ Live(pc[w])
    <3>1. table[w][s] = EmptyTable(w)
      BY <2>2, PartsOf DEF Control
    <3>2. QED
      BY <3>1, LayerZero DEF EmptyTable
  <2>3. QED
    BY <2>1, <2>2
<1>2. ViewsAgree
  <2> SUFFICES ASSUME NEW w \in Worker, Serving(w), ~ lost[w]
               PROVE  /\ group[w].chunks \ leases \subseteq
                           {c \in group[w].chunks :
                              call[w] = [state |-> "released", lease |-> c]}
                      /\ LeasesOf(w) \ group[w].chunks \subseteq
                           {l \in leases : call[w] = [state |-> "granted", lease |-> l]}
    BY DEF ViewsAgree
  <2>1. Books(w, group[w], lost[w], call[w], orphan[w], LeasesOf(w))
    BY PartsOf
  <2>2. LeasesOf(w) \subseteq leases
    BY DEF LeasesOf
  <2>3. QED
    BY <2>1, <2>2 DEF Books
<1>3. GroupAccounted
  <2> SUFFICES ASSUME NEW w \in Worker, Serving(w)
               PROVE  /\ group[w].leasedBytes =
                           SumFunctionOnSet([c \in group[w].chunks |-> c.bytes],
                                            group[w].chunks)
                      /\ group[w].leasedBytes <= Limit[w]
                      /\ DOMAIN group[w].pages =
                           UNION {PageIds(w, c) : c \in group[w].chunks}
    BY DEF GroupAccounted
  <2>1. Geometry(w, group[w])
    BY PartsOf
  <2>2. QED
    BY <2>1 DEF Geometry, BytesIn
<1>4. QED
  BY <1>1, <1>2, <1>3 DEF BooksAgree

\* In every behaviour the layers of a sequence agree on its pages, the worker and
\* the owner on the chunks, up to the one exchange under way, and a group on the
\* bytes it has leased.
THEOREM BooksStayAgreed == Spec => []BooksAgree
BY Inductive, AllAgree, PTL

-----------------------------------------------------------------------------
(* SharedKV implements ExclusiveArena.                                       *)

\* The units of a stream's entries, entry by entry.
UnitsUsed(w, e) == IF IsKernel(e) THEN UNION {PageUnits(w, id) : id \in e.kernel} ELSE {}
WorkIn(w, s) == [k \in DOMAIN s |-> UnitsUsed(w, s[k])]

\* The work of a stream is a sequence as long as the stream, and follows it.
LEMMA WorkFollows ==
  ASSUME NEW w \in Worker, NEW s \in Seq(Entry)
  PROVE  /\ WorkIn(w, s) \in Seq(SUBSET Nat) /\ Len(WorkIn(w, s)) = Len(s)
         /\ \A k \in 1..Len(s) : WorkIn(w, s)[k] = UnitsUsed(w, s[k])
<1>1. DOMAIN s = 1..Len(s) /\ Len(s) \in Nat /\ \A k \in 1..Len(s) : s[k] \in Entry
  OBVIOUS
<1>2. ASSUME NEW e \in Entry PROVE UnitsUsed(w, e) \in SUBSET Nat
  <2> SUFFICES ASSUME IsKernel(e), NEW id \in e.kernel, NEW u \in PageUnits(w, id)
               PROVE  u \in Nat
    BY DEF UnitsUsed
  <2>1. id \in Nat
    BY DEF Entry, IsKernel
  <2>2. Half[w] \in Nat /\ PageBytes(w) \in Nat
    BY PageBytesPositive
  <2>3. id * Half[w] \in Nat
    BY <2>1, <2>2
  <2>4. QED
    BY <2>2, <2>3 DEF PageUnits
<1>3. WorkIn(w, s) \in [1..Len(s) -> SUBSET Nat]
  BY <1>1, <1>2 DEF WorkIn
<1>4. QED
  BY <1>1, <1>3 DEF WorkIn

\* New work at the back of a stream.
LEMMA WorkAppended ==
  ASSUME NEW w \in Worker, NEW s \in Seq(Entry), NEW e \in Entry
  PROVE  WorkIn(w, Append(s, e)) = Append(WorkIn(w, s), UnitsUsed(w, e))
<1> DEFINE a == WorkIn(w, Append(s, e))
           b == Append(WorkIn(w, s), UnitsUsed(w, e))
<1>1. /\ Append(s, e) \in Seq(Entry) /\ Len(Append(s, e)) = Len(s) + 1
      /\ \A k \in 1..Len(s) : Append(s, e)[k] = s[k]
      /\ Append(s, e)[Len(s) + 1] = e /\ Len(s) \in Nat
  OBVIOUS
<1>2. /\ a \in Seq(SUBSET Nat) /\ Len(a) = Len(s) + 1
      /\ \A k \in 1..(Len(s) + 1) : a[k] = UnitsUsed(w, Append(s, e)[k])
  BY <1>1, WorkFollows
<1>3. /\ WorkIn(w, s) \in Seq(SUBSET Nat) /\ Len(WorkIn(w, s)) = Len(s)
      /\ \A k \in 1..Len(s) : WorkIn(w, s)[k] = UnitsUsed(w, s[k])
  BY WorkFollows
<1>4. a[Len(s) + 1] = UnitsUsed(w, e)
  BY <1>1, <1>2
<1>5. UnitsUsed(w, e) \in SUBSET Nat
  <2>1. Len(s) + 1 \in 1..Len(a)
    BY <1>1, <1>2
  <2>2. QED
    BY <1>2, <1>4, <2>1
<1>6. /\ b \in Seq(SUBSET Nat) /\ Len(b) = Len(s) + 1
      /\ \A k \in 1..Len(s) : b[k] = UnitsUsed(w, s[k])
      /\ b[Len(s) + 1] = UnitsUsed(w, e)
  BY <1>3, <1>5
<1> HIDE DEF a, b
<1>7. \A k \in 1..(Len(s) + 1) : a[k] = b[k]
  BY <1>1, <1>2, <1>6
<1>8. a = b
  BY <1>2, <1>6, <1>7, SeqEqual
<1>9. QED
  BY <1>8 DEF a, b

\* Work leaves a stream at the front.
LEMMA WorkFinished ==
  ASSUME NEW w \in Worker, NEW s \in Seq(Entry), s # <<>>
  PROVE  WorkIn(w, Tail(s)) = Tail(WorkIn(w, s)) /\ WorkIn(w, s) # <<>>
<1> DEFINE a == WorkIn(w, Tail(s))
           b == Tail(WorkIn(w, s))
           n == Len(s) - 1
<1>1. /\ Tail(s) \in Seq(Entry) /\ Len(Tail(s)) = n /\ n \in Nat
      /\ \A k \in 1..n : Tail(s)[k] = s[k + 1] /\ k + 1 \in 1..Len(s)
  OBVIOUS
<1>2. /\ a \in Seq(SUBSET Nat) /\ Len(a) = n
      /\ \A k \in 1..n : a[k] = UnitsUsed(w, s[k + 1])
  <2>1. /\ a \in Seq(SUBSET Nat) /\ Len(a) = n
        /\ \A k \in 1..n : a[k] = UnitsUsed(w, Tail(s)[k])
    BY <1>1, WorkFollows
  <2>2. QED
    BY <1>1, <2>1
<1>3. /\ WorkIn(w, s) \in Seq(SUBSET Nat) /\ Len(WorkIn(w, s)) = n + 1
      /\ \A k \in 1..Len(s) : WorkIn(w, s)[k] = UnitsUsed(w, s[k])
  BY <1>1, WorkFollows
<1>4. WorkIn(w, s) # <<>>
  BY <1>1, <1>3
<1>5. /\ b \in Seq(SUBSET Nat) /\ Len(b) = n
      /\ \A k \in 1..n : b[k] = WorkIn(w, s)[k + 1]
  BY <1>1, <1>3, <1>4
<1> HIDE DEF a, b, n
<1>6. \A k \in 1..n : a[k] = b[k]
  BY <1>1, <1>2, <1>3, <1>5
<1>7. a = b
  BY <1>2, <1>5, <1>6, SeqEqual
<1>8. QED
  BY <1>4, <1>7 DEF a, b

\* Leases that do not overlap share no unit.
LEMMA OneLease ==
  ASSUME NEW L, L \subseteq ChunkLease, \A k, c \in L : k # c => Apart(k, c),
         NEW l \in L, NEW u \in UnitsOf(l), NEW k \in L, u \in UnitsOf(k)
  PROVE  k = l
<1>1. k # l => Apart(k, l)
  OBVIOUS
<1>2. /\ k.offset \in Nat /\ k.bytes \in Nat /\ l.offset \in Nat /\ l.bytes \in Nat
  BY DEF ChunkLease
<1>3. QED
  BY <1>1, <1>2 DEF Apart, UnitsOf

\* The units of a lease belong to the model it was granted to.
LEMMA HolderIs ==
  ASSUME IInv, NEW l \in leases, NEW u \in UnitsOf(l)
  PROVE  HolderOf(u) = l.model
<1>1. leases \subseteq ChunkLease /\ \A k, c \in leases : k # c => Apart(k, c)
  BY DEF IInv, AllocOK, AllocTypeOK, Disjoint
<1>2. \A k \in leases : u \in UnitsOf(k) => k = l
  BY <1>1, OneLease
<1>3. (CHOOSE k \in leases : u \in UnitsOf(k)) = l
  BY <1>2
<1>4. QED
  BY <1>3 DEF HolderOf

\* What no lease covers is nobody's.
LEMMA HolderNobody ==
  ASSUME NEW u, \A l \in leases : u \notin UnitsOf(l)
  PROVE  HolderOf(u) = "nobody"
BY DEF HolderOf

\* A used page's units are units of the arena its model holds.
LEMMA PageHeld ==
  ASSUME IInv, NEW w \in Worker, Live(pc[w]), NEW id \in DOMAIN group[w].pages,
         id \notin group[w].freePages, NEW u \in PageUnits(w, id)
  PROVE  u \in Unit /\ HolderOf(u) = w
<1>1. PICK c \in group[w].chunks :
        /\ c \in leases /\ c.model = w /\ id \in PageIds(w, c)
        /\ c \in ChunkLease /\ WholePages(w, c)
  BY WorkInLease
<1>2. u \in UnitsOf(c)
  BY <1>1, PageInChunk
<1>3. HolderOf(u) = w
  BY <1>1, <1>2, HolderIs
<1>4. c.offset + c.bytes <= Bytes /\ c.offset \in Nat /\ c.bytes \in Nat
  BY <1>1 DEF IInv, AllocOK, Disjoint, ChunkLease
<1>5. u \in Unit
  BY <1>2, <1>4, BytesAssumption DEF Unit, UnitsOf
<1>6. QED
  BY <1>3, <1>5

\* Nothing a worker has submitted touches a chunk whose pages are all free.
LEMMA FreeChunkQuiet ==
  ASSUME IInv, NEW w \in Worker, NEW l \in leases,
         Live(pc[w]) => PageIds(w, l) \subseteq group[w].freePages,
         NEW u \in UnitsOf(l), NEW k \in DOMAIN WorkOf(w)
  PROVE  u \notin WorkOf(w)[k]
<1> SUFFICES ASSUME u \in WorkOf(w)[k] PROVE FALSE
  OBVIOUS
<1>1. /\ k \in DOMAIN stream[w] /\ IsKernel(stream[w][k])
      /\ u \in UNION {PageUnits(w, id) : id \in stream[w][k].kernel}
  BY DEF WorkOf
<1>2. PICK id \in stream[w][k].kernel : u \in PageUnits(w, id)
  BY <1>1
<1>3. /\ id \in DOMAIN group[w].pages /\ id \notin group[w].freePages /\ Live(pc[w])
  BY <1>1, <1>2, KernelInLease
<1>4. PICK c \in group[w].chunks :
        /\ c \in leases /\ c.model = w /\ id \in PageIds(w, c)
        /\ c \in ChunkLease /\ WholePages(w, c)
  BY <1>3, WorkInLease
<1>5. u \in UnitsOf(c)
  BY <1>2, <1>4, PageInChunk
<1>6. leases \subseteq ChunkLease /\ \A d, e \in leases : d # e => Apart(d, e)
  BY DEF IInv, AllocOK, AllocTypeOK, Disjoint
<1>7. c = l
  BY <1>4, <1>5, <1>6, OneLease
<1>8. QED
  BY <1>3, <1>4, <1>7

\* Work is what the stream's entries use.
LEMMA WorkOfStream ==
  \A w \in Worker : WorkOf(w) = WorkIn(w, stream[w]) /\ WorkOf(w)' = WorkIn(w, stream'[w])
BY DEF WorkOf, WorkIn, UnitsUsed

\* Holders change with the leases only, a worker's work with its stream only.
LEMMA Unmoved ==
  /\ leases' = leases => \A u : HolderOf(u)' = HolderOf(u)
  /\ \A w \in Worker : stream'[w] = stream[w] => WorkOf(w)' = WorkOf(w)
<1>1. leases' = leases => \A u : HolderOf(u)' = HolderOf(u)
  BY DEF HolderOf
<1>2. \A w \in Worker : stream'[w] = stream[w] => WorkOf(w)' = WorkOf(w)
  BY WorkOfStream
<1>3. QED
  BY <1>1, <1>2

\* A step that moves neither is a stutter.
LEMMA StutterStep ==
  ASSUME UNCHANGED leases, \A w \in Worker : stream'[w] = stream[w]
  PROVE  UNCHANGED Exclusive!vars
<1>1. /\ [u \in Unit |-> HolderOf(u)]' = [u \in Unit |-> HolderOf(u)]
      /\ [w \in Worker |-> WorkOf(w)]' = [w \in Worker |-> WorkOf(w)]
  BY Unmoved
<1>2. QED
  BY <1>1 DEF Exclusive!vars

\* The same after a step.
LEMMA HolderThen ==
  ASSUME leases' \subseteq ChunkLease, \A k, c \in leases' : k # c => Apart(k, c),
         NEW l \in leases', NEW u \in UnitsOf(l)
  PROVE  HolderOf(u)' = l.model
<1>1. \A k \in leases' : u \in UnitsOf(k) => k = l
  BY OneLease
<1>2. (CHOOSE k \in leases' : u \in UnitsOf(k)) = l
  BY <1>1
<1>3. QED
  BY <1>2 DEF HolderOf

\* A new lease grants its units.
LEMMA GrantStep ==
  ASSUME IInv, IInv', NEW w \in Worker, UNCHANGED stream, NEW k,
         leases' = leases \cup {k}, k.model = w
  PROVE  Exclusive!Grant(w)
<1>1. /\ leases' \subseteq ChunkLease
      /\ \A l, c \in leases' : l # c => Apart(l, c)
  BY DEF IInv, AllocOK, AllocTypeOK, Disjoint
<1>2. ASSUME NEW u \in Unit
      PROVE  HolderOf(u)' = HolderOf(u) \/ (HolderOf(u) = "nobody" /\ HolderOf(u)' = w)
  <2>1. CASE \E l \in leases : u \in UnitsOf(l)
    <3>1. PICK l \in leases : u \in UnitsOf(l)
      BY <2>1
    <3>2. HolderOf(u) = l.model
      BY <3>1, HolderIs
    <3>3. l \in leases'
      OBVIOUS
    <3>4. HolderOf(u)' = l.model
      BY <1>1, <3>1, <3>3, HolderThen
    <3>5. QED
      BY <3>2, <3>4
  <2>2. CASE (\A l \in leases : u \notin UnitsOf(l)) /\ u \in UnitsOf(k)
    <3>1. HolderOf(u) = "nobody"
      BY <2>2, HolderNobody
    <3>2. k \in leases'
      OBVIOUS
    <3>3. HolderOf(u)' = k.model
      BY <1>1, <2>2, <3>2, HolderThen
    <3>4. QED
      BY <3>1, <3>3
  <2>3. CASE \A l \in leases' : u \notin UnitsOf(l)
    <3>1. HolderOf(u) = "nobody" /\ HolderOf(u)' = "nobody"
      BY <2>3 DEF HolderOf
    <3>2. QED
      BY <3>1
  <2>4. QED
    BY <2>1, <2>2, <2>3
<1>3. [v \in Worker |-> WorkOf(v)]' = [v \in Worker |-> WorkOf(v)]
  BY Unmoved
<1>4. QED
  BY <1>2, <1>3 DEF Exclusive!Grant, Exclusive!Held

\* A released lease returns its units, which no work of the worker touches.
LEMMA ReturnStep ==
  ASSUME IInv, NEW w \in Worker, UNCHANGED stream, NEW k \in leases,
         leases' = leases \ {k}, k.model = w,
         Live(pc[w]) => PageIds(w, k) \subseteq group[w].freePages
  PROVE  Exclusive!Return(w)
<1>1. /\ leases \subseteq ChunkLease
      /\ \A l, c \in leases : l # c => Apart(l, c)
  BY DEF IInv, AllocOK, AllocTypeOK, Disjoint
<1>2. ASSUME NEW u \in Unit
      PROVE  \/ HolderOf(u)' = HolderOf(u)
             \/ /\ HolderOf(u) = w /\ HolderOf(u)' = "nobody"
                /\ \A n \in DOMAIN WorkOf(w) : u \notin WorkOf(w)[n]
  <2>1. CASE u \in UnitsOf(k)
    <3>1. HolderOf(u) = w
      BY <2>1, HolderIs
    <3>2. ASSUME NEW l \in leases' PROVE u \notin UnitsOf(l)
      <4>1. l \in leases /\ l # k
        OBVIOUS
      <4>2. QED
        BY <1>1, <2>1, <4>1, OneLease
    <3>3. HolderOf(u)' = "nobody"
      BY <3>2 DEF HolderOf
    <3>4. \A n \in DOMAIN WorkOf(w) : u \notin WorkOf(w)[n]
      BY <2>1, FreeChunkQuiet
    <3>5. QED
      BY <3>1, <3>3, <3>4
  <2>2. CASE u \notin UnitsOf(k) /\ \E l \in leases : u \in UnitsOf(l)
    <3>1. PICK l \in leases : u \in UnitsOf(l)
      BY <2>2
    <3>2. l \in leases' /\ HolderOf(u) = l.model
      BY <2>2, <3>1, HolderIs
    <3>3. leases' \subseteq ChunkLease /\ \A d, c \in leases' : d # c => Apart(d, c)
      BY <1>1
    <3>4. HolderOf(u)' = l.model
      BY <1>1, <3>1, <3>2, <3>3, HolderThen
    <3>5. QED
      BY <3>2, <3>4
  <2>3. CASE \A l \in leases : u \notin UnitsOf(l)
    <3>1. HolderOf(u) = "nobody" /\ HolderOf(u)' = "nobody"
      BY <2>3 DEF HolderOf
    <3>2. QED
      BY <3>1
  <2>4. QED
    BY <2>1, <2>2, <2>3
<1>3. [v \in Worker |-> WorkOf(v)]' = [v \in Worker |-> WorkOf(v)]
  BY Unmoved
<1>4. QED
  BY <1>2, <1>3 DEF Exclusive!Return, Exclusive!Held, Exclusive!Quiet

\* A step that adds work on units of the worker submits it.
LEMMA SubmitStep ==
  ASSUME IInv, NEW w \in Worker, UNCHANGED leases, NEW e \in Entry,
         stream' = [stream EXCEPT ![w] = Append(@, e)],
         \A u \in UnitsUsed(w, e) : u \in Unit /\ HolderOf(u) = w
  PROVE  Exclusive!Submit(w)
<1> DEFINE U == UnitsUsed(w, e)
<1>1. stream[w] \in Seq(Entry) /\ DOMAIN stream = Worker
  BY PartsOf DEF Typed, IInv, Domains
<1>2. stream'[w] = Append(stream[w], e) /\ \A v \in Worker \ {w} : stream'[v] = stream[v]
  BY <1>1
<1>3. WorkOf(w)' = Append(WorkOf(w), U)
  BY <1>1, <1>2, WorkAppended, WorkOfStream
<1>4. \A v \in Worker \ {w} : WorkOf(v)' = WorkOf(v)
  BY <1>2, WorkOfStream
<1>5. WorkOf(w) \in Seq(SUBSET Nat)
  BY <1>1, WorkFollows, WorkOfStream
<1>6. U \in SUBSET Nat
  BY DEF Unit
<1> HIDE DEF U
<1>7. /\ Len(WorkOf(w)') = Len(WorkOf(w)) + 1
      /\ WorkOf(w)'[Len(WorkOf(w)')] = U
  BY <1>3, <1>5, <1>6
<1>8. [v \in Worker |-> WorkOf(v)]'
        = [[v \in Worker |-> WorkOf(v)] EXCEPT ![w] = Append(@, U)]
  BY <1>3, <1>4
<1>9. [u \in Unit |-> HolderOf(u)]' = [u \in Unit |-> HolderOf(u)]
  BY Unmoved
<1>10. U \subseteq {u \in Unit : [x \in Unit |-> HolderOf(x)][u] = w}
  BY DEF U
<1>11. QED
  BY <1>7, <1>8, <1>9, <1>10 DEF Exclusive!Submit, Exclusive!Held

\* The GPU finishes the front.
LEMMA CompleteStep ==
  ASSUME IInv, NEW w \in Worker, GpuStep(w)
  PROVE  Exclusive!Complete(w)
<1>1. stream[w] \in Seq(Entry) /\ DOMAIN stream = Worker
  BY PartsOf DEF Typed, IInv, Domains
<1>2. /\ stream'[w] = Tail(stream[w]) /\ stream[w] # <<>>
      /\ \A v \in Worker \ {w} : stream'[v] = stream[v]
  BY <1>1 DEF GpuStep
<1>3. WorkOf(w)' = Tail(WorkOf(w)) /\ WorkOf(w) # <<>>
  <2>1. /\ WorkIn(w, Tail(stream[w])) = Tail(WorkIn(w, stream[w]))
        /\ WorkIn(w, stream[w]) # <<>>
    BY <1>1, <1>2, WorkFinished
  <2>2. WorkOf(w) = WorkIn(w, stream[w]) /\ WorkOf(w)' = WorkIn(w, stream'[w])
    BY WorkOfStream
  <2>3. QED
    BY <1>2, <2>1, <2>2
<1>4. \A v \in Worker \ {w} : WorkOf(v)' = WorkOf(v)
  BY <1>2, WorkOfStream
<1>5. [v \in Worker |-> WorkOf(v)]'
        = [[v \in Worker |-> WorkOf(v)] EXCEPT ![w] = Tail(@)]
  BY <1>3, <1>4
<1>6. [u \in Unit |-> HolderOf(u)]' = [u \in Unit |-> HolderOf(u)]
  BY Unmoved DEF GpuStep, allocVars
<1>7. QED
  BY <1>3, <1>5, <1>6 DEF Exclusive!Complete

\* A process that dies takes its work along and leaves its leases.
LEMMA DieStep ==
  ASSUME IInv, NEW w \in Worker, Crash(w)
  PROVE  Exclusive!Die(w)
<1>1. DOMAIN stream = Worker
  BY DEF IInv, Domains
<1>2. stream'[w] = <<>> /\ \A v \in Worker \ {w} : stream'[v] = stream[v]
  BY <1>1 DEF Crash
<1>3. WorkOf(w)' = <<>>
  BY <1>2 DEF WorkOf
<1>4. \A v \in Worker \ {w} : WorkOf(v)' = WorkOf(v)
  BY <1>2, WorkOfStream
<1>5. [v \in Worker |-> WorkOf(v)]'
        = [[v \in Worker |-> WorkOf(v)] EXCEPT ![w] = <<>>]
  BY <1>3, <1>4
<1>6. [u \in Unit |-> HolderOf(u)]' = [u \in Unit |-> HolderOf(u)]
  BY Unmoved DEF Crash, allocVars
<1>7. QED
  BY <1>5, <1>6 DEF Exclusive!Die

\* A request the owner serves grants, returns or changes nothing.
LEMMA ServeStep ==
  ASSUME IInv, IInv', NEW w \in Worker, UNCHANGED stream, NEW a \in Ask(w), Serve(w, a),
         a.state = "release" /\ Live(pc[w]) => PageIds(w, a.lease) \subseteq group[w].freePages
  PROVE  Exclusive!Grant(w) \/ Exclusive!Return(w) \/ UNCHANGED Exclusive!vars
<1>1. CASE UNCHANGED allocVars
  BY <1>1, StutterStep DEF allocVars
<1>2. CASE a.state = "acquire" /\ Acquire(w, w, a.bytes, PageBytes(w))
  <2>1. a.bytes \in Nat \ {0}
    BY <1>2 DEF Ask, Acquire, ValidRequest
  <2>2. PageBytes(w) \in Nat \ {0} /\ w \in Model /\ w \in Layout
    BY PageBytesPositive, GeometryAssumption DEF Worker
  <2>3. AllocOK
    BY DEF IInv
  <2>4. \E k \in ChunkLease :
          leases' = leases \cup {k} /\ k \notin leases /\ k.epoch = epoch
          /\ k.id = nextGeneration /\ k.generation = nextGeneration
          /\ k.model = w /\ k.layout = w /\ k.bytes = a.bytes
          /\ IsMultiple(k.offset, PageBytes(w))
    BY <1>2, <2>1, <2>2, <2>3, AcquireKeeps
  <2>5. PICK k \in ChunkLease : leases' = leases \cup {k} /\ k.model = w
    BY <2>4
  <2>6. QED
    BY <2>5, GrantStep
<1>3. CASE a.state = "release" /\ Release(a.lease)
  <2>1. a.lease \in ChunkLease /\ a.lease.model = w
    BY <1>3 DEF Ask, OwnLease
  <2>2. AllocOK
    BY DEF IInv
  <2>3. a.lease \in leases /\ leases' = leases \ {a.lease}
    BY <1>3, <2>1, <2>2, ReleaseKeeps
  <2>4. Live(pc[w]) => PageIds(w, a.lease) \subseteq group[w].freePages
    BY <1>3
  <2>5. QED
    BY <2>1, <2>3, <2>4, ReturnStep
<1>4. a.state \in {"acquire", "release"}
  BY DEF Ask
<1>5. QED
  BY <1>1, <1>2, <1>3, <1>4 DEF Serve

\* What a worker has asked the owner for.
LEMMA AskedOK ==
  ASSUME IInv, NEW w \in Worker
  PROVE  /\ Asked(w) => call[w] \in Ask(w)
         /\ orphan[w] # None => orphan[w] \in Ask(w)
         /\ Live(pc[w]) /\ call[w].state = "release" =>
              PageIds(w, call[w].lease) \subseteq group[w].freePages
         /\ Live(pc[w]) /\ orphan[w].state = "release" =>
              PageIds(w, orphan[w].lease) \subseteq group[w].freePages
<1>1. CallTyped(w, call[w]) /\ (orphan[w] = None \/ orphan[w] \in Ask(w))
  BY PartsOf DEF Typed
<1>2. Asked(w) => call[w] \in Ask(w)
  <2> DEFINE c == call[w]
  <2> HIDE DEF c
  <2> SUFFICES ASSUME CallTyped(w, c), c.state \in {"acquire", "release"}
               PROVE  c \in Ask(w)
    BY <1>1 DEF Asked, c
  <2>1. CASE c \in [state : {"acquire", "refused"}, bytes : Nat]
    <3>1. c \in [state : {"acquire"}, bytes : Nat]
      BY <2>1
    <3>2. QED
      BY <3>1 DEF Ask
  <2>2. CASE c \in [state : {"release", "released", "granted"}, lease : OwnLease(w)]
    <3>1. c \in [state : {"release"}, lease : OwnLease(w)]
      BY <2>2
    <3>2. QED
      BY <3>1 DEF Ask
  <2>3. QED
    BY <2>1, <2>2 DEF CallTyped, None
<1>3. Live(pc[w]) => Books(w, group[w], lost[w], call[w], orphan[w], LeasesOf(w))
  BY PartsOf
<1>4. QED
  BY <1>1, <1>2, <1>3 DEF Books

\* The first state is one of ExclusiveArena.
LEMMA InitExclusive == Init => Exclusive!Init
<1> SUFFICES ASSUME Init PROVE Exclusive!Init
  OBVIOUS
<1>1. \A u \in Unit : HolderOf(u) = "nobody"
  BY DEF Init, AllocInit, HolderOf
<1>2. \A w \in Worker : WorkOf(w) = <<>>
  BY DEF Init, WorkOf
<1>3. QED
  BY <1>1, <1>2 DEF Exclusive!Init

\* A forward pass works on units its model holds.
LEMMA LaunchStep ==
  ASSUME IInv, NEW w \in Worker, NEW seqs \in SUBSET Request, Launch(w, seqs)
  PROVE  Exclusive!Submit(w)
<1> DEFINE ids == UNION {Range(table[w][s][0]) : s \in seqs}
           e == [kernel |-> ids]
<1>1. stream' = [stream EXCEPT ![w] = Append(@, e)] /\ UNCHANGED leases
  BY DEF Launch, allocVars
<1>2. Live(pc[w])
  BY DEF Launch, Free, Live, PC
<1>3. TablesOK(w, group[w], table[w]) /\ GroupTyped(w, group[w])
  BY <1>2, PartsOf
<1>4. ids \subseteq TableIds(table[w])
  BY DEF TableIds
<1>5. \A id \in ids : id \in DOMAIN group[w].pages /\ id \notin group[w].freePages
  BY <1>3, <1>4 DEF TablesOK
<1>6. ids \subseteq Nat
  BY <1>3, <1>5 DEF GroupTyped
<1> HIDE DEF ids
<1>7. e \in Entry
  BY <1>6 DEF Entry
<1>8. ASSUME NEW u \in UnitsUsed(w, e) PROVE u \in Unit /\ HolderOf(u) = w
  <2>1. PICK id \in ids : u \in PageUnits(w, id)
    BY DEF UnitsUsed, IsKernel
  <2>2. QED
    BY <1>2, <1>5, <2>1, PageHeld
<1> HIDE DEF e
<1>9. QED
  BY <1>1, <1>7, <1>8, SubmitStep

\* A retirement fence is work on nothing.
LEMMA RetireStep ==
  ASSUME IInv, IInv', NEW w \in Worker, RetireNext(w)
  PROVE  Exclusive!Submit(w) \/ UNCHANGED Exclusive!vars
<1>1. UNCHANGED leases
  BY DEF RetireNext, allocVars
<1>2. CASE stream' = [stream EXCEPT ![w] = @]
  <2>1. \A v \in Worker : stream'[v] = stream[v]
    BY <1>2 DEF IInv, Domains
  <2>2. QED
    BY <1>1, <2>1, StutterStep
<1>3. ASSUME NEW id, stream' = [stream EXCEPT ![w] = Append(@, [fence |-> id])]
      PROVE  Exclusive!Submit(w)
  <2> DEFINE e == [fence |-> id]
  <2>1. stream[w] \in Seq(Entry) /\ DOMAIN stream = Worker
    BY PartsOf DEF Typed, IInv, Domains
  <2>2. stream'[w] \in Seq(Entry)
    BY DEF IInv, WorkerInv, WorkerOK, Typed
  <2>3. stream'[w] = Append(stream[w], e)
    BY <1>3, <2>1
  <2>4. e \in Entry
    <3> HIDE DEF e
    <3>1. Append(stream[w], e)[Len(stream[w]) + 1] = e
      BY <2>1
    <3>2. Len(stream[w]) + 1 \in 1..Len(Append(stream[w], e))
      BY <2>1
    <3>3. QED
      BY <2>2, <2>3, <3>1, <3>2
  <2>5. UnitsUsed(w, e) = {}
    BY DEF UnitsUsed, IsKernel
  <2>6. stream' = [stream EXCEPT ![w] = Append(@, e)]
    BY <1>3
  <2> HIDE DEF e
  <2>7. QED
    BY <1>1, <2>4, <2>5, <2>6, SubmitStep
<1>4. \/ stream' = [stream EXCEPT ![w] = @]
      \/ \E id : stream' = [stream EXCEPT ![w] = Append(@, [fence |-> id])]
  BY DEF RetireNext
<1>5. QED
  BY <1>2, <1>3, <1>4

\* Every step is one of ExclusiveArena's, or one it does not see.
LEMMA NextExclusive ==
  IInv /\ IInv' /\ [Next]_vars => [Exclusive!Next]_Exclusive!vars
<1> SUFFICES ASSUME IInv, IInv', [Next]_vars PROVE [Exclusive!Next]_Exclusive!vars
  OBVIOUS
<1>1. ASSUME UNCHANGED <<leases, stream>> PROVE UNCHANGED Exclusive!vars
  BY <1>1, StutterStep
<1>2. CASE UNCHANGED vars
  BY <1>1, <1>2 DEF vars, allocVars, workerVars
<1>3. CASE OwnerShutdown
  BY <1>1, <1>3 DEF OwnerShutdown, allocVars, workerVars
<1>4. ASSUME NEW w \in Worker,
             \/ Connect(w) \/ OwnerServes(w) \/ OwnerServesOrphan(w)
             \/ \E s \in Request : \/ \E n \in 1..MaxBlocks : StartAppend(w, s, n)
                                   \/ StartRelease(w, s)
             \/ \E seqs \in SUBSET Request : Launch(w, seqs)
             \/ Proceed(w) \/ Poll(w) \/ GpuStep(w)
             \/ Timeout(w) \/ Stop(w) \/ Crash(w)
      PROVE  \/ Exclusive!Grant(w) \/ Exclusive!Return(w) \/ Exclusive!Submit(w)
             \/ Exclusive!Complete(w) \/ Exclusive!Die(w) \/ UNCHANGED Exclusive!vars
  <2>1. CASE OwnerServes(w)
    <3>1. Serve(w, call[w]) /\ Asked(w) /\ UNCHANGED stream
      BY <2>1 DEF OwnerServes, workerVars
    <3>2. QED
      BY <3>1, AskedOK, ServeStep
  <2>2. CASE OwnerServesOrphan(w)
    <3>1. Serve(w, orphan[w]) /\ orphan[w] # None /\ UNCHANGED stream
      BY <2>2 DEF OwnerServesOrphan, workerVars
    <3>2. QED
      BY <3>1, AskedOK, ServeStep
  <2>3. CASE \E seqs \in SUBSET Request : Launch(w, seqs)
    BY <2>3, LaunchStep
  <2>4. CASE RetireNext(w)
    BY <2>4, RetireStep
  <2>5. CASE GpuStep(w)
    BY <2>5, CompleteStep
  <2>6. CASE Crash(w)
    BY <2>6, DieStep
  <2>7. CASE Connect(w) \/ Poll(w) \/ Timeout(w) \/ Stop(w)
    BY <1>1, <2>7 DEF Connect, RegisterModel, Poll, Timeout, Stop, allocVars
  <2>8. CASE \E s \in Request : \/ \E n \in 1..MaxBlocks : StartAppend(w, s, n)
                                \/ StartRelease(w, s)
    BY <1>1, <2>8 DEF StartAppend, StartRelease, allocVars
  <2>9. CASE CollectPage(w) \/ CollectStops(w) \/ ChunkReturned(w)
    BY <1>1, <2>9 DEF CollectPage, CollectStops, ChunkReturned, allocVars
  <2>10. CASE ReserveFree(w) \/ ReserveNothing(w) \/ ReserveAsk(w)
    BY <1>1, <2>10 DEF ReserveFree, ReserveNothing, ReserveAsk, allocVars
  <2>11. CASE ChunkGranted(w) \/ ChunkRefused(w) \/ Fill(w) \/ ReleaseDone(w)
    BY <1>1, <2>11 DEF ChunkGranted, ChunkRefused, Fill, ReleaseDone, allocVars
  <2>12. CASE StopRelease(w) \/ StopAnswered(w) \/ StopDone(w)
    BY <1>1, <2>12 DEF StopRelease, StopAnswered, StopDone, allocVars
  <2>13. QED
    BY <1>4, <2>1, <2>2, <2>3, <2>4, <2>5, <2>6, <2>7, <2>8, <2>9, <2>10, <2>11, <2>12
       DEF Proceed
<1>5. QED
  BY <1>2, <1>3, <1>4 DEF Next, Exclusive!Next

\* The workers and the owner together implement the exclusive arena: units change
\* their model only through the owner, none while work submitted for the old one
\* can still touch it, and no forward pass leaves the chunks of its model.
THEOREM ArenaIsExclusive == Spec => ImplementsExclusive
<1>1. Init => Exclusive!Init
  BY InitExclusive
<1>2. IInv /\ IInv' /\ [Next]_vars => [Exclusive!Next]_Exclusive!vars
  BY NextExclusive
<1>3. QED
  BY <1>1, <1>2, Inductive, PTL DEF Spec, ImplementsExclusive, Exclusive!Spec

\* At any time, also after crashes, timeouts and late releases, the GPU works for
\* a model only on units leased to it.
THEOREM WorkStaysHeld == Spec => []Exclusive!WorkIsHeld
<1>1. ASSUME IInv PROVE Exclusive!WorkIsHeld
  <2> SUFFICES ASSUME NEW w \in Worker, NEW k \in DOMAIN WorkOf(w), NEW u \in WorkOf(w)[k]
               PROVE  u \in Unit /\ HolderOf(u) = w
    BY DEF Exclusive!WorkIsHeld, Exclusive!Held
  <2>1. /\ k \in DOMAIN stream[w] /\ IsKernel(stream[w][k])
        /\ u \in UNION {PageUnits(w, id) : id \in stream[w][k].kernel}
    BY DEF WorkOf
  <2>2. PICK id \in stream[w][k].kernel : u \in PageUnits(w, id)
    BY <2>1
  <2>3. QED
    BY <1>1, <2>1, <2>2, KernelInLease, PageHeld
<1>2. QED
  BY <1>1, Inductive, PTL
=============================================================================
