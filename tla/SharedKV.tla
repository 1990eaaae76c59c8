------------------------------ MODULE SharedKV ------------------------------
(***************************************************************************)
(* Several model workers on one GPU arena.  Each worker process has a      *)
(* SharedKVPageGroup that leases chunks from the owner process over RPC,   *)
(* cuts them into all-layer pages, hands the pages to the block tables of  *)
(* its sequences, and takes them back behind a fence on its GPU stream; a  *)
(* chunk whose pages are all free goes back to the owner.                  *)
(*                                                                         *)
(* One step is what runs without waiting for another process or the GPU:   *)
(* a group call is cut where it exchanges a message with the owner (the    *)
(* group mutex is held across the exchange, so a worker runs one group     *)
(* call at a time).  A client gives up on an answer after its timeout; the *)
(* request may still be served later.                                      *)
(***************************************************************************)
EXTENDS ChunkAllocator, SequencesExt

CONSTANTS
  Layers, Half, Target, Limit,  \* of each worker: geometry, chunk target, quota
  Request,        \* names of the sequences a worker serves
  MaxBlocks,      \* bound: blocks of a sequence
  MaxKernels,     \* bound: entries of a GPU stream
  MaxGeneration,  \* bound: leases granted before appends stop
  Faulty          \* bound: workers that may crash, or time out on a live owner

Worker == Model

ASSUME GeometryAssumption ==
  /\ Layers \in [Worker -> Nat \ {0}]
  /\ Half \in [Worker -> Nat \ {0}]
  /\ Target \in [Worker -> Nat \ {0}]
  /\ Limit \in [Worker -> Nat \ {0}]
  /\ Layout = Worker

\* A page holds the K and the V plane of every layer; its id is its offset in
\* half planes.  Chunks are whole numbers of pages.
PageBytes(w) == 2 * Half[w] * Layers[w]
ChunkBytes(w) ==
  LET target == IF Target[w] > PageBytes(w) THEN Target[w] ELSE PageBytes(w)
  IN  ((target + PageBytes(w) - 1) \div PageBytes(w)) * PageBytes(w)
Layer(w) == 0..(Layers[w] - 1)
PageUnits(w, id) == (id * Half[w]) .. (id * Half[w] + PageBytes(w) - 1)
PageIds(w, lease) ==
  {(lease.offset + k * PageBytes(w)) \div Half[w] :
     k \in 0..(lease.bytes \div PageBytes(w) - 1)}

VARIABLES
  group,    \* SharedKVPageGroup::Impl of each worker
  pc,       \* where each worker's group call is
  resume,   \* what follows its collect_locked
  job,      \* the sequence operation its group calls belong to
  table,    \* block tables: [Worker -> [Request -> [layer -> Seq(id)]]]
  stream,   \* GPU stream of each worker: kernels and retirement fences
  lost,     \* its client has failed: an answer never came
  call,     \* its exchange with the owner
  orphan,   \* a request it gave up on that the owner may still serve
  ownerUp

workerVars == <<group, pc, resume, job, table, stream, lost>>
netVars == <<call, orphan, ownerUp>>
vars == <<allocVars, workerVars, netVars>>

None == [state |-> "none"]
NoJob == [op |-> "none"]
EmptyTable(w) == [l \in Layer(w) |-> <<>>]

NewGroup(w) ==
  [chunks |-> {}, pages |-> <<>>, freePages |-> {}, retiring |-> <<>>,
   pending |-> [l \in Layer(w) \ {0} |-> <<>>], leasedBytes |-> 0,
   failed |-> FALSE]

Init ==
  /\ AllocInit
  /\ group = [w \in Worker |-> NewGroup(w)]
  /\ pc = [w \in Worker |-> "new"]
  /\ resume = [w \in Worker |-> "idle"]
  /\ job = [w \in Worker |-> NoJob]
  /\ table = [w \in Worker |-> [s \in Request |-> EmptyTable(w)]]
  /\ stream = [w \in Worker |-> <<>>]
  /\ lost = [w \in Worker |-> FALSE]
  /\ call = [w \in Worker |-> None]
  /\ orphan = [w \in Worker |-> None]
  /\ ownerUp = TRUE

\* The client registers, the group is built, the worker starts serving.
Connect(w) ==
  /\ pc[w] = "new" /\ ownerUp
  /\ RegisterModel(w, Limit[w])
  /\ pc' = [pc EXCEPT ![w] = "idle"]
  /\ UNCHANGED <<group, resume, job, table, stream, lost, netVars>>

-----------------------------------------------------------------------------
(* The exchange with the owner. *)

AskAcquire(bytes) == [state |-> "acquire", bytes |-> bytes]
AskRelease(lease) == [state |-> "release", lease |-> lease]
Asked(w) == call[w].state \in {"acquire", "release"}

\* A client that failed before throws at once instead of sending.
Send(w, request) ==
  call' = [call EXCEPT ![w] = IF lost[w] THEN [state |-> "rejected"] ELSE request]

\* One request of w as the owner serves it, and the answer it then sends.
Serve(w, request) ==
  IF request.state = "acquire"
  THEN IF CanAcquire(w, request.bytes, PageBytes(w))
       THEN Acquire(w, w, request.bytes, PageBytes(w))
       ELSE UNCHANGED allocVars
  ELSE IF Releasable(request.lease) THEN Release(request.lease)
       ELSE UNCHANGED allocVars

Answer(w, request) ==
  IF request.state = "acquire"
  THEN IF CanAcquire(w, request.bytes, PageBytes(w))
       THEN [state |-> "granted", lease |-> CHOOSE l \in leases' : l \notin leases]
       ELSE [state |-> "refused", bytes |-> request.bytes]
  ELSE IF Releasable(request.lease)
       THEN [state |-> "released", lease |-> request.lease]
       ELSE [state |-> "rejected"]

OwnerServes(w) ==
  /\ ownerUp /\ Asked(w)
  /\ Serve(w, call[w])
  /\ call' = [call EXCEPT ![w] = Answer(w, call[w])]
  /\ UNCHANGED <<workerVars, orphan, ownerUp>>

\* A request whose client no longer waits; nobody reads the answer.
OwnerServesOrphan(w) ==
  /\ ownerUp /\ orphan[w] # None
  /\ Serve(w, orphan[w])
  /\ orphan' = [orphan EXCEPT ![w] = None]
  /\ UNCHANGED <<workerVars, call, ownerUp>>

\* shutdown is refused while a lease is live, else the arena is freed.
OwnerShutdown ==
  /\ ownerUp /\ leases = {}
  /\ ownerUp' = FALSE
  /\ UNCHANGED <<allocVars, workerVars, call, orphan>>

-----------------------------------------------------------------------------
(* collect_locked *)

\* Mutant of FencePassed: the fence is not queried.
FenceIgnored(w, id) == TRUE

FencePassed(w, id) == \A k \in DOMAIN stream[w] : stream[w][k] # [fence |-> id]

ChunkOf(w, id) == CHOOSE c \in group[w].chunks : id \in PageIds(w, c)

CanCollect(w) ==
  group[w].retiring # <<>> /\ FencePassed(w, Head(group[w].retiring))

\* The front retired page, whose fence the GPU has passed, is free again; when
\* its whole chunk is, the chunk is offered back to the owner.
CollectPage(w) ==
  LET id == Head(group[w].retiring)
      chunk == ChunkOf(w, id)
  IN
  /\ pc[w] = "collect" /\ CanCollect(w)
  /\ group' = [group EXCEPT ![w].retiring = Tail(@),
                            ![w].freePages = @ \cup {id},
                            ![w].pages[id].retired = FALSE]
  /\ IF PageIds(w, chunk) \subseteq group'[w].freePages
     THEN Send(w, AskRelease(chunk)) /\ pc' = [pc EXCEPT ![w] = "release"]
     ELSE UNCHANGED <<call, pc>>
  /\ UNCHANGED <<allocVars, resume, job, table, stream, lost, orphan, ownerUp>>

CollectStops(w) ==
  /\ pc[w] = "collect" /\ ~ CanCollect(w)
  /\ pc' = [pc EXCEPT ![w] = resume[w]]
  /\ UNCHANGED <<allocVars, group, resume, job, table, stream, lost, netVars>>

\* Mutant of ChunkReturned: the chunk target is subtracted instead of the bytes of
\* the lease.
ReturnedAsTarget(w) ==
  LET g == group[w]
      rest == DOMAIN g.pages \ PageIds(w, call[w].lease)
  IN
  /\ pc[w] = "release" /\ call[w].state = "released"
  /\ group' = [group EXCEPT
       ![w] = [g EXCEPT !.chunks = @ \ {call[w].lease},
                        !.pages = [id \in rest |-> @[id]],
                        !.freePages = @ \cap rest,
                        !.leasedBytes = @ - ChunkBytes(w)]]
  /\ pc' = [pc EXCEPT ![w] = "collect"]
  /\ call' = [call EXCEPT ![w] = None]
  /\ UNCHANGED <<allocVars, resume, job, table, stream, lost, orphan, ownerUp>>

\* The owner took the chunk: forget its pages and go on collecting.
ChunkReturned(w) ==
  LET chunk == call[w].lease
      g == group[w]
      rest == DOMAIN g.pages \ PageIds(w, chunk)
  IN
  /\ pc[w] = "release" /\ call[w].state = "released"
  /\ group' = [group EXCEPT
       ![w] = [g EXCEPT !.chunks = @ \ {chunk},
                        !.pages = [id \in rest |-> @[id]],
                        !.freePages = @ \cap rest,
                        !.leasedBytes = @ - chunk.bytes]]
  /\ pc' = [pc EXCEPT ![w] = "collect"]
  /\ call' = [call EXCEPT ![w] = None]
  /\ UNCHANGED <<allocVars, resume, job, table, stream, lost, orphan, ownerUp>>

\* Mutant of ReleaseThrows: the group goes on as if nothing had happened.
ReleaseShrugged(w) ==
  /\ UNCHANGED group
  /\ pc' = [pc EXCEPT ![w] = IF resume[w] = "reserve" THEN "failing" ELSE "idle"]
  /\ job' = [job EXCEPT ![w] = NoJob]

\* The outcome of the release is unknown or an error: the group fails for good
\* and the call throws.  Out of allocate nobody catches it; out of a release
\* the prefill core does, and goes on with the rest of its work.
ReleaseThrows(w) ==
  /\ group' = [group EXCEPT ![w].failed = TRUE]
  /\ pc' = [pc EXCEPT ![w] = IF resume[w] = "reserve" THEN "failing" ELSE "idle"]
  /\ job' = [job EXCEPT ![w] = NoJob]

-----------------------------------------------------------------------------
(* allocate, as SequenceKVManager::append_tokens_internal drives it: n pages *)
(* of layer 0 one by one, then the pages of the other layers they reserved.  *)

Free(w) == pc[w] = "idle" /\ job[w] = NoJob
Usable(w) == ~ group[w].failed

StartAppend(w, s, n) ==
  /\ Free(w) /\ Usable(w)
  /\ Len(table[w][s][0]) + n <= MaxBlocks /\ nextGeneration <= MaxGeneration
  /\ job' = [job EXCEPT ![w] = [op |-> "append", seq |-> s, want |-> n, got |-> <<>>]]
  /\ pc' = [pc EXCEPT ![w] = "collect"]
  /\ resume' = [resume EXCEPT ![w] = "reserve"]
  /\ UNCHANGED <<allocVars, group, table, stream, lost, netVars>>

\* Page id goes to the running append; every upper layer reserves it too.
TakePage(w, g, id) ==
  LET page == [active |-> Layer(w), reserved |-> Layer(w) \ {0}, retired |-> FALSE]
      got == Append(job[w].got, id)
  IN
  /\ group' = [group EXCEPT
       ![w] = [g EXCEPT !.pages[id] = page,
                        !.freePages = @ \ {id},
                        !.pending = [l \in DOMAIN @ |-> Append(@[l], id)]]]
  /\ job' = [job EXCEPT ![w].got = got]
  /\ pc' = [pc EXCEPT ![w] = IF Len(got) = job[w].want THEN "fill" ELSE "collect"]

\* allocate returned -1: the layer-0 pages taken so far are freed again.
NoPage(w) ==
  /\ job' = [job EXCEPT ![w] =
       [op |-> "free", left |-> [EmptyTable(w) EXCEPT ![0] = job[w].got]]]
  /\ pc' = [pc EXCEPT ![w] = "idle"]

ReserveFree(w) ==
  /\ pc[w] = "reserve" /\ group[w].freePages # {}
  /\ TakePage(w, group[w], Min(group[w].freePages))
  /\ UNCHANGED <<allocVars, resume, table, stream, lost, netVars>>

Remaining(w) == Limit[w] - group[w].leasedBytes

ReserveNothing(w) ==
  /\ pc[w] = "reserve" /\ group[w].freePages = {} /\ Remaining(w) < PageBytes(w)
  /\ NoPage(w)
  /\ UNCHANGED <<allocVars, group, resume, table, stream, lost, netVars>>

ReserveAsk(w) ==
  /\ pc[w] = "reserve" /\ group[w].freePages = {} /\ Remaining(w) >= PageBytes(w)
  /\ Send(w, AskAcquire(IF Remaining(w) >= ChunkBytes(w) THEN ChunkBytes(w)
                                                         ELSE PageBytes(w)))
  /\ pc' = [pc EXCEPT ![w] = "acquire"]
  /\ UNCHANGED <<allocVars, group, resume, job, table, stream, lost, orphan, ownerUp>>

FreshPage == [active |-> {}, reserved |-> {}, retired |-> FALSE]

\* A new chunk: all its pages are free, the first is taken.
ChunkGranted(w) ==
  LET lease == call[w].lease
      g == group[w]
      ids == PageIds(w, lease)
  IN
  /\ pc[w] = "acquire" /\ call[w].state = "granted"
  /\ TakePage(w, [g EXCEPT !.chunks = @ \cup {lease},
                           !.pages = [id \in ids \cup DOMAIN @ |->
                                        IF id \in ids THEN FreshPage ELSE @[id]],
                           !.freePages = @ \cup ids,
                           !.leasedBytes = @ + lease.bytes],
              lease.offset \div Half[w])
  /\ call' = [call EXCEPT ![w] = None]
  /\ UNCHANGED <<allocVars, resume, table, stream, lost, orphan, ownerUp>>

\* A refused chunk is retried as a single page; a refused page is final.
ChunkRefused(w) ==
  /\ pc[w] = "acquire" /\ call[w].state = "refused"
  /\ IF call[w].bytes = PageBytes(w)
     THEN NoPage(w) /\ call' = [call EXCEPT ![w] = None]
     ELSE Send(w, AskAcquire(PageBytes(w))) /\ UNCHANGED <<job, pc>>
  /\ UNCHANGED <<allocVars, group, resume, table, stream, lost, orphan, ownerUp>>

\* The upper layers take their pages off the pending queues, in queue order;
\* the sequence's block tables grow.
Fill(w) ==
  LET g == group[w]
      s == job[w].seq
      taken(l) == IF l = 0 THEN job[w].got ELSE SubSeq(g.pending[l], 1, job[w].want)
      left(l) == SubSeq(g.pending[l], job[w].want + 1, Len(g.pending[l]))
      keeps(id, l) == ~ Contains(taken(l), id)
  IN
  /\ pc[w] = "fill"
  /\ group' = [group EXCEPT
       ![w] = [g EXCEPT
         !.pages = [id \in DOMAIN @ |->
                      [g.pages[id] EXCEPT !.reserved =
                         {l \in g.pages[id].reserved : keeps(id, l)}]],
         !.pending = [l \in DOMAIN @ |-> left(l)]]]
  /\ table' = [table EXCEPT ![w][s] = [l \in Layer(w) |-> @[l] \o taken(l)]]
  /\ job' = [job EXCEPT ![w] = NoJob]
  /\ pc' = [pc EXCEPT ![w] = "idle"]
  /\ UNCHANGED <<allocVars, resume, stream, lost, netVars>>

-----------------------------------------------------------------------------
(* retire, as SequenceKVManager::release_all drives it: layer by layer.     *)

StartRelease(w, s) ==
  /\ Free(w) /\ Usable(w) /\ table[w][s] # EmptyTable(w)
  /\ job' = [job EXCEPT ![w] = [op |-> "free", left |-> table[w][s]]]
  /\ table' = [table EXCEPT ![w][s] = EmptyTable(w)]
  /\ UNCHANGED <<allocVars, group, pc, resume, stream, lost, netVars>>

\* The lowest layer that has pages to give up.
NextLayer(w) ==
  CHOOSE l \in Layer(w) :
    /\ job[w].left[l] # <<>>
    /\ \A k \in Layer(w) : job[w].left[k] # <<>> => l <= k

\* Mutant of RetireNext: the upper layers' reservations are not rolled back.
RetireNoRollback(w) ==
  LET l == NextLayer(w)
      id == Head(job[w].left[l])
      active == group[w].pages[id].active \ {l}
      last == active = {}
  IN
  /\ pc[w] = "idle" /\ job[w].op = "free" /\ job[w].left # EmptyTable(w)
  /\ Len(stream[w]) < MaxKernels
  /\ group' = [group EXCEPT ![w].pages[id].active = active,
                            ![w].pages[id].retired = last,
                            ![w].retiring = IF last THEN Append(@, id) ELSE @]
  /\ job' = [job EXCEPT ![w].left[l] = Tail(@)]
  /\ stream' = [stream EXCEPT ![w] = IF last THEN Append(@, [fence |-> id]) ELSE @]
  /\ pc' = [pc EXCEPT ![w] = IF last THEN "collect" ELSE "idle"]
  /\ resume' = [resume EXCEPT ![w] = "idle"]
  /\ UNCHANGED <<allocVars, table, lost, netVars>>

\* Layer l gives up page id.  Layer 0 also rolls back the upper layers that
\* never took the page, which their queues have once.  Behind the last layer a fence goes on the stream, the
\* page retires, and what is ready is collected.
RetireNext(w) ==
  LET g == group[w]
      l == NextLayer(w)
      id == Head(job[w].left[l])
      back == IF l = 0 THEN g.pages[id].reserved ELSE {}
      active == g.pages[id].active \ (back \cup {l})
      last == active = {}
  IN
  /\ pc[w] = "idle" /\ job[w].op = "free" /\ job[w].left # EmptyTable(w)
  /\ Len(stream[w]) < MaxKernels
  /\ group' = [group EXCEPT
       ![w] = [g EXCEPT
         !.pages[id] = [active |-> active, reserved |-> @.reserved \ back,
                        retired |-> last],
         !.pending = [k \in DOMAIN @ |-> IF k \in back
                                         THEN RemoveFirst(@[k], id) ELSE @[k]],
         !.retiring = IF last THEN Append(@, id) ELSE @]]
  /\ job' = [job EXCEPT ![w].left[l] = Tail(@)]
  /\ stream' = [stream EXCEPT ![w] = IF last THEN Append(@, [fence |-> id]) ELSE @]
  /\ pc' = [pc EXCEPT ![w] = IF last THEN "collect" ELSE "idle"]
  /\ resume' = [resume EXCEPT ![w] = "idle"]
  /\ UNCHANGED <<allocVars, table, lost, netVars>>

ReleaseDone(w) ==
  /\ pc[w] = "idle" /\ job[w].op = "free" /\ job[w].left = EmptyTable(w)
  /\ job' = [job EXCEPT ![w] = NoJob]
  /\ UNCHANGED <<allocVars, group, pc, resume, table, stream, lost, netVars>>

\* Mutant of Poll: free pages at hand keep it from collecting.
PollIfShort(w) ==
  /\ Free(w) /\ Usable(w) /\ group[w].retiring # <<>> /\ group[w].freePages = {}
  /\ pc' = [pc EXCEPT ![w] = "collect"]
  /\ resume' = [resume EXCEPT ![w] = "idle"]
  /\ UNCHANGED <<allocVars, group, job, table, stream, lost, netVars>>

\* num_free_blocks: the scheduler and the health report ask for it.
Poll(w) ==
  /\ Free(w) /\ Usable(w) /\ group[w].retiring # <<>>
  /\ pc' = [pc EXCEPT ![w] = "collect"]
  /\ resume' = [resume EXCEPT ![w] = "idle"]
  /\ UNCHANGED <<allocVars, group, job, table, stream, lost, netVars>>

-----------------------------------------------------------------------------
(* The GPU. *)

\* A forward pass over the pages of some sequences is put on the stream.
Launch(w, seqs) ==
  LET ids == UNION {Range(table[w][s][0]) : s \in seqs} IN
  /\ Free(w) /\ ids # {} /\ Len(stream[w]) < MaxKernels
  /\ stream' = [stream EXCEPT ![w] = Append(@, [kernel |-> ids])]
  /\ UNCHANGED <<allocVars, group, pc, resume, job, table, lost, netVars>>

\* The GPU finishes the front of a stream.
GpuStep(w) ==
  /\ stream[w] # <<>>
  /\ stream' = [stream EXCEPT ![w] = Tail(@)]
  /\ UNCHANGED <<allocVars, group, pc, resume, job, table, lost, netVars>>

-----------------------------------------------------------------------------
(* Failures and the end of a worker. *)

\* The answer does not come in time.  The client never sends again; the owner
\* may or may not have served the request, or may serve it yet.
Timeout(w) ==
  /\ w \in Faulty \/ ~ ownerUp
  /\ call[w] # None /\ ~ lost[w]
  /\ lost' = [lost EXCEPT ![w] = TRUE]
  /\ orphan' = [orphan EXCEPT ![w] = IF Asked(w) THEN call[w] ELSE None]
  /\ call' = [call EXCEPT ![w] = None]
  /\ \/ pc[w] = "release" /\ ReleaseThrows(w)
     \/ /\ pc[w] = "acquire"
        /\ pc' = [pc EXCEPT ![w] = "failing"]
        /\ job' = [job EXCEPT ![w] = NoJob]
        /\ UNCHANGED group
     \/ pc[w] = "farewell" /\ pc' = [pc EXCEPT ![w] = "stop"] /\ UNCHANGED <<group, job>>
  /\ UNCHANGED <<allocVars, resume, table, stream, ownerUp>>

\* ~SharedKVPageGroup: wait for the stream, then give back every chunk,
\* whatever the answer.
Stop(w) ==
  /\ Free(w) \/ pc[w] = "failing"
  /\ stream[w] = <<>>
  /\ pc' = [pc EXCEPT ![w] = "stop"]
  /\ table' = [table EXCEPT ![w] = [s \in Request |-> EmptyTable(w)]]
  /\ UNCHANGED <<allocVars, group, resume, job, stream, lost, netVars>>

StopRelease(w) ==
  /\ pc[w] = "stop"
  /\ \E chunk \in group[w].chunks :
       /\ Send(w, AskRelease(chunk))
       /\ group' = [group EXCEPT ![w].chunks = @ \ {chunk}]
  /\ pc' = [pc EXCEPT ![w] = "farewell"]
  /\ UNCHANGED <<allocVars, resume, job, table, stream, lost, orphan, ownerUp>>

StopAnswered(w) ==
  /\ pc[w] = "farewell" /\ call[w].state \in {"released", "rejected"}
  /\ call' = [call EXCEPT ![w] = None]
  /\ pc' = [pc EXCEPT ![w] = "stop"]
  /\ UNCHANGED <<allocVars, group, resume, job, table, stream, lost, orphan, ownerUp>>

StopDone(w) ==
  /\ pc[w] = "stop" /\ group[w].chunks = {}
  /\ pc' = [pc EXCEPT ![w] = "gone"]
  /\ group' = [group EXCEPT ![w] = NewGroup(w)]
  /\ UNCHANGED <<allocVars, resume, job, table, stream, lost, netVars>>

\* The process dies: the driver drops its GPU work, its leases stay.
Crash(w) ==
  /\ w \in Faulty /\ pc[w] \notin {"new", "gone"}
  /\ pc' = [pc EXCEPT ![w] = "gone"]
  /\ orphan' = [orphan EXCEPT ![w] = IF Asked(w) THEN call[w] ELSE @]
  /\ call' = [call EXCEPT ![w] = None]
  /\ group' = [group EXCEPT ![w] = NewGroup(w)]
  /\ job' = [job EXCEPT ![w] = NoJob]
  /\ table' = [table EXCEPT ![w] = [s \in Request |-> EmptyTable(w)]]
  /\ stream' = [stream EXCEPT ![w] = <<>>]
  /\ UNCHANGED <<allocVars, resume, lost, ownerUp>>

-----------------------------------------------------------------------------
\* What a worker does on its own, without a new order from its scheduler.
Proceed(w) ==
  \/ CollectPage(w) \/ CollectStops(w) \/ ChunkReturned(w)
  \/ ReserveFree(w) \/ ReserveNothing(w) \/ ReserveAsk(w)
  \/ ChunkGranted(w) \/ ChunkRefused(w) \/ Fill(w)
  \/ RetireNext(w) \/ ReleaseDone(w)
  \/ StopRelease(w) \/ StopAnswered(w) \/ StopDone(w)

Next ==
  \/ \E w \in Worker :
       \/ Connect(w) \/ OwnerServes(w) \/ OwnerServesOrphan(w)
       \/ \E s \in Request : \/ \E n \in 1..MaxBlocks : StartAppend(w, s, n)
                             \/ StartRelease(w, s)
       \/ \E seqs \in SUBSET Request : Launch(w, seqs)
       \/ Proceed(w) \/ Poll(w) \/ GpuStep(w)
       \/ Timeout(w) \/ Stop(w) \/ Crash(w)
  \/ OwnerShutdown

Spec == Init /\ [][Next]_vars

\* The scheduler asks for num_free_blocks again and again, the owner's loop
\* and the GPU go on while they have work, and a receive ends after 5 seconds.
FairSpec ==
  /\ Spec
  /\ \A w \in Worker : /\ WF_vars(Proceed(w)) /\ WF_vars(OwnerServes(w))
                       /\ WF_vars(Poll(w)) /\ WF_vars(GpuStep(w))
                       /\ WF_vars(Timeout(w))

-----------------------------------------------------------------------------
TypeOK ==
  /\ \A w \in Worker :
       LET g == group[w] IN
       /\ g.chunks \subseteq ChunkLease /\ g.freePages \subseteq Nat
       /\ g.leasedBytes \in Nat /\ g.failed \in BOOLEAN
       /\ \A id \in DOMAIN g.pages :
            g.pages[id] \in [active : SUBSET Layer(w), reserved : SUBSET Layer(w),
                             retired : BOOLEAN]
       /\ DOMAIN g.pending = Layer(w) \ {0}
  /\ pc \in [Worker -> {"new", "idle", "collect", "release", "reserve", "acquire",
                        "fill", "failing", "stop", "farewell", "gone"}]
  /\ resume \in [Worker -> {"idle", "reserve"}]
  /\ lost \in [Worker -> BOOLEAN]
  /\ ownerUp \in BOOLEAN

Serving(w) == pc[w] \notin {"new", "failing", "stop", "farewell", "gone"}

LeasesOf(w) == {l \in leases : l.model = w}
Kernels(w) == {stream[w][k].kernel :
                 k \in {j \in DOMAIN stream[w] : "kernel" \in DOMAIN stream[w][j]}}

\* A page on a free list is quiet: no submitted kernel still reads or writes
\* it, so the sequence that gets it next never sees the old one's accesses.
FreeIsQuiet ==
  \A w \in Worker : Serving(w) =>
    \A ids \in Kernels(w) : ids \cap group[w].freePages = {}

\* A page belongs to one sequence at a time, and to no sequence once freed.
OneOwner ==
  \A w \in Worker : Serving(w) =>
    LET places == {p \in Request \X (1..MaxBlocks) : p[2] <= Len(table[w][p[1]][0])}
        at(p) == table[w][p[1]][0][p[2]]
    IN  /\ \A p, q \in places : at(p) = at(q) => p = q
        /\ \A p \in places : /\ at(p) \in DOMAIN group[w].pages
                             /\ at(p) \notin group[w].freePages
                             /\ ~ group[w].pages[at(p)].retired

\* All layers of a sequence use the same pages: the batch metadata of every
\* layer is built from the block table of layer 0.
LayersAgree ==
  \A w \in Worker, s \in Request : \A l \in Layer(w) :
    table[w][s][l] = table[w][s][0]

\* The pages a worker still has to give up are its own, live in that layer and
\* not retired: retire's "double/stale page retire" is never thrown.
RetireIsLegal ==
  \A w \in Worker : (job[w].op = "free" /\ Usable(w)) =>
    \A l \in Layer(w) : \A id \in Range(job[w].left[l]) :
      /\ id \in DOMAIN group[w].pages
      /\ l \in group[w].pages[id].active
      /\ ~ group[w].pages[id].retired
      /\ l \notin group[w].pages[id].reserved

\* The chunks a worker knows and the leases the owner has for it differ at most
\* by the one exchange under way, as long as no answer was lost.
ViewsAgree ==
  \A w \in Worker : (Serving(w) /\ ~ lost[w]) =>
    /\ group[w].chunks \ leases \subseteq
         {c \in group[w].chunks : call[w] = [state |-> "released", lease |-> c]}
    /\ LeasesOf(w) \ group[w].chunks \subseteq
         {l \in leases : call[w] = [state |-> "granted", lease |-> l]}

\* The bytes a group believes it has leased are those of its chunks and stay
\* within its quota, so Remaining never underflows.
GroupAccounted ==
  \A w \in Worker : Serving(w) =>
    /\ group[w].leasedBytes =
         SumFunctionOnSet([c \in group[w].chunks |-> c.bytes], group[w].chunks)
    /\ group[w].leasedBytes <= Limit[w]
    /\ DOMAIN group[w].pages = UNION {PageIds(w, c) : c \in group[w].chunks}

\* The owner never frees the arena under a worker that still uses it.
ArenaOutlivesUse ==
  ~ ownerUp => \A w \in Worker : Kernels(w) = {}

\* All four: a page is used by its one sequence only, from take to free, in an
\* arena that exists.
PagesExclusive == FreeIsQuiet /\ OneOwner /\ RetireIsLegal /\ ArenaOutlivesUse

\* All three: layers, worker and owner agree on what is held.
BooksAgree == LayersAgree /\ ViewsAgree /\ GroupAccounted

-----------------------------------------------------------------------------
(* SharedKV implements ExclusiveArena. *)

HolderOf(u) ==
  IF \E l \in leases : u \in UnitsOf(l)
  THEN (CHOOSE l \in leases : u \in UnitsOf(l)).model ELSE "nobody"

IsKernel(entry) == "kernel" \in DOMAIN entry

\* A kernel works on its pages, a fence on nothing.
WorkOf(w) ==
  [k \in DOMAIN stream[w] |->
     IF IsKernel(stream[w][k])
     THEN UNION {PageUnits(w, id) : id \in stream[w][k].kernel} ELSE {}]

Exclusive == INSTANCE ExclusiveArena WITH
  Units <- Unit, Holder <- Worker, Nobody <- "nobody",
  holder <- [u \in Unit |-> HolderOf(u)],
  working <- [w \in Worker |-> WorkOf(w)]

\* Units pass from model to model only through the owner, never under GPU work
\* that was submitted for the old holder, and no model's work leaves its chunks.
ImplementsExclusive == Exclusive!Spec

\* A page whose sequence is over becomes free again, or leaves with its chunk,
\* while its worker serves: the fence passes, somebody collects, and a release
\* that goes to the owner for it comes back.
RetiredComesBack ==
  \A w \in Worker, id \in Unit :
    (id \in Range(group[w].retiring))
      ~> (id \notin Range(group[w].retiring) \/ group[w].failed \/ ~ Serving(w))

\* No worker waits for the owner for ever, whatever happens to the other one.
CallEnds ==
  \A w \in Worker :
    (pc[w] \in {"acquire", "release"}) ~> (pc[w] \notin {"acquire", "release"})

\* Both: what a worker waits for comes back to it.
WorkersProceed == RetiredComesBack /\ CallEnds
=============================================================================
