------------------------------- MODULE HostTier -------------------------------
(***************************************************************************)
(* The KVCacheManager with a host tier: under pressure cached pages are    *)
(* copied to the HostStore and leave the device, and a request whose       *)
(* prompt matches such pages waits while they are brought back one by one. *)
(* The copies are flights of the TransferScheduler, one for a page and a   *)
(* direction, shared by those that wait for it; PageMigrationEngine gives  *)
(* each a leased block and installs what it copied.  The backend finishes  *)
(* a copy whenever it likes; the owner thread sees that when it polls.     *)
(*                                                                         *)
(* An operation runs many steps that feed one another, so each step is a   *)
(* function from the owner's state, a record, to the next.  Aging of the   *)
(* transfer queue and copies whose outcome stays unknown are left out, and *)
(* branches and snapshots are KVCache's.                                   *)
(***************************************************************************)
EXTENDS PageCache

CONSTANTS
  HostPages,    \* page_capacity of the host store
  MaxActive     \* max_inflight_pages

ASSUME TierAssumption == {HostPages, MaxActive} \subseteq Nat \ {0}

VARIABLES
  restore,    \* restore_state, restore_pages (as the prefix they are) and restore_next_page
  reserved,   \* restore_target_reservations_
  flights,    \* flights_ of the TransferScheduler, in id order
  inFlight    \* pages whose recovery object is in flight

vars == <<cacheVars, restore, reserved, flights, inFlight>>

Demotion == 0     \* the waiter of demotions_
Orphan == -1      \* the waiters of orphaned_restores_
NoRestore == [state |-> "none", prefix |-> NoText, next |-> 1]

Init ==
  /\ CacheInit
  /\ restore = [r \in Request |-> NoRestore]
  /\ reserved = {} /\ flights = <<>> /\ inFlight = {}

State == [kv |-> kv, cache |-> cache, data |-> data, restore |-> restore,
          reserved |-> reserved, flights |-> flights, inFlight |-> inFlight]
Becomes(s) ==
  /\ kv' = s.kv /\ cache' = s.cache /\ data' = Kept(s.data, s.cache)
  /\ restore' = s.restore /\ reserved' = s.reserved
  /\ flights' = s.flights /\ inFlight' = s.inFlight

-----------------------------------------------------------------------------
(* The transfer scheduler.                                                  *)

MaxFlights == Max({HostPages, MaxActive})
LaneLimit == Max({1, MaxActive \div 2})
Terminal(f) == f.state \in {"succeeded", "failed"}
Physical(f) == f.state \in {"active", "draining"}
Live(f) == f.waiters \ {Orphan}

Count(s, Test(_)) == Cardinality({i \in DOMAIN s.flights : Test(s.flights[i])})
FlightOf(s, p, to) == SelectInSeq(s.flights, LAMBDA f : f.page = p /\ f.to = to)
HostUsed(s) ==
  Cardinality({p \in DOMAIN s.cache.page : OnHost(s.cache, p)})
    + Count(s, LAMBDA f : f.to = "host" /\ Physical(f))

\* prepare: a block for a page that comes back, room in the host store and an I/O
\* lease on the block of one that leaves.
Launched(s, i) ==
  LET f == s.flights[i]
      possible == IF f.to = "gpu" THEN NumFree(s.cache) > 0 /\ OnHost(s.cache, f.page)
                  ELSE HostUsed(s) < HostPages /\ OnGpu(s.cache, f.page)
      block == IF f.to = "gpu" THEN Take(s.cache, 1)[1] ELSE s.cache.page[f.page].gpu
  IN IF possible
     THEN [s EXCEPT !.cache = Incref(@, {block}),
                    !.flights[i] = [@ EXCEPT !.state = "active", !.block = block, !.copy = "busy"]]
     ELSE [s EXCEPT !.flights[i].state = "failed"]

\* dispatch: demand before background, older flights first, within the lanes.
RECURSIVE Dispatch(_)
Dispatch(s) ==
  LET lane(to) == Count(s, LAMBDA f : Physical(f) /\ f.to = to)
      next(to) == SelectInSeq(s.flights, LAMBDA f : f.state = "queued" /\ f.to = to)
      ready == {to \in {"gpu", "host"} : next(to) # 0 /\ lane(to) < LaneLimit}
  IN IF lane("gpu") + lane("host") >= MaxActive \/ ready = {} THEN s
     ELSE Dispatch(Launched(s, next(IF "gpu" \in ready THEN "gpu" ELSE "host")))

\* submit: joins the flight of the page, or starts one; the last is kept for demand.
Admits(s, p, to) ==
  \/ FlightOf(s, p, to) # 0
  \/ Len(s.flights) < MaxFlights - (IF to = "host" /\ MaxFlights > 1 THEN 1 ELSE 0)

\* Mutant of Submit: a page that is under way is submitted once more.
SubmitTwice(s, p, to, w) ==
  Dispatch([s EXCEPT !.flights = Append(@, [page |-> p, to |-> to, state |-> "queued",
                                            block |-> NoBlock, copy |-> "none", waiters |-> {w}])])

Submit(s, p, to, w) ==
  Dispatch(IF FlightOf(s, p, to) # 0
           THEN [s EXCEPT !.flights[FlightOf(s, p, to)].waiters = @ \union {w}]
           ELSE [s EXCEPT !.flights = Append(@, [page |-> p, to |-> to, state |-> "queued",
                                                 block |-> NoBlock, copy |-> "none", waiters |-> {w}])])

\* cancel: the last waiter that leaves ends a queued flight and drains a copy.  The
\* waiter of a restore becomes an orphan.
Cancelled(f, w) ==
  [f EXCEPT !.waiters = IF w = Demotion THEN @ ELSE (@ \ {w}) \union {Orphan},
            !.state = IF Terminal(f) \/ Live(f) # {w} THEN @
                      ELSE IF @ = "queued" THEN "failed" ELSE "draining"]

\* consume, of a waiter of flight i: a flight that ended goes with its last one.
Consume(s, i, w) ==
  LET left == s.flights[i].waiters \ {w}
  IN [s EXCEPT !.flights = IF left = {} /\ Terminal(s.flights[i]) THEN RemoveAt(@, i)
                           ELSE [@ EXCEPT ![i].waiters = left]]

\* finish: a copy that was cancelled, or failed, is thrown away; otherwise the
\* page gets the block, or the host copy, if it has none yet.
Finished(s, i) ==
  LET f == s.flights[i]
      gpu == f.to = "gpu"
      ok == f.copy = "ok" /\ f.state = "active"
              /\ (IF gpu THEN ~OnGpu(s.cache, f.page) /\ OnHost(s.cache, f.page) ELSE ~OnHost(s.cache, f.page))
      c == IF gpu /\ ok THEN s.cache ELSE Decref(s.cache, {f.block})
  IN [s EXCEPT
        !.cache = IF ~ok THEN c ELSE IF gpu THEN [c EXCEPT !.page[f.page].gpu = f.block]
                  ELSE [c EXCEPT !.page[f.page].host = s.data[f.block]],
        !.data = IF gpu /\ ok THEN [@ EXCEPT ![f.block] = s.cache.page[f.page].host] ELSE @,
        !.flights[i] = [f EXCEPT !.state = IF ok THEN "succeeded" ELSE "failed", !.block = NoBlock]]

Copied(f) == Physical(f) /\ f.copy # "busy"
Poll(s) ==
  Dispatch(FoldLeft(LAMBDA t, i : IF Copied(t.flights[i]) THEN Finished(t, i) ELSE t,
                    s, [i \in DOMAIN s.flights |-> i]))

-----------------------------------------------------------------------------
(* Restores.                                                                *)

RestorePages(r, s) == [k \in 1 .. FullBlocks(s.restore[r].prefix) |-> FirstBlocks(s.restore[r].prefix, k)]
NeededBy(r, s) ==
  IF s.restore[r].state # "pending" THEN {}
  ELSE {RestorePages(r, s)[k] : k \in s.restore[r].next .. Len(RestorePages(r, s))}

\* reconcile_restore_target_reservations.
Reconciled(s) ==
  [s EXCEPT !.reserved = {p \in @ : /\ ~OnGpu(s.cache, p)
                                    /\ s.flights # <<>> \/ \E r \in Request : p \in NeededBy(r, s)}]

\* finish_restore: adopts the prefix, if all of its pages are on the device.
Ready(s, r) == \A k \in DOMAIN RestorePages(r, s) : OnGpu(s.cache, RestorePages(r, s)[k])
RestoreDone(s, r) ==
  IF Ready(s, r)
  THEN Reconciled([s EXCEPT
         !.kv[r] = Adopting(@.prompt, s.restore[r].prefix, s.cache),
         !.cache = Attach(@, s.restore[r].prefix),
         !.restore[r] = [NoRestore EXCEPT !.state = "ready"]])
  ELSE [s EXCEPT !.restore[r] = [NoRestore EXCEPT !.state = "failed"]]

\* start_next_restore: skips the pages that are on the device.
StartNext(s, r) ==
  LET pages == RestorePages(r, s)
      missing == {k \in s.restore[r].next .. Len(pages) : ~OnGpu(s.cache, pages[k])}
      p == pages[Min(missing)]
  IN IF missing = {} THEN RestoreDone(s, r)
     ELSE IF ~Admits(s, p, "gpu") THEN [s EXCEPT !.restore[r] = [NoRestore EXCEPT !.state = "failed"]]
     ELSE [Submit([s EXCEPT !.restore[r].next = Min(missing)], p, "gpu", r)
             EXCEPT !.inFlight = @ \union {p}]

\* demote_gpu, at the completion of a demotion; a page somebody adopted meanwhile
\* stays.
Demote(s, p) ==
  IF InUse(s.kv, p) THEN s
  ELSE [s EXCEPT !.cache = [Decref(@, {s.cache.page[p].gpu}) EXCEPT !.page[p].gpu = NoBlock]]

\* Mutant of MayDemote: a failed copy counts.
MayDemoteAny(f) == TRUE

\* Only a page whose copy succeeded leaves the device.
MayDemote(f) == f.state = "succeeded"

\* service_cache_transfers: the demotions that ended, the orphans, and the restores,
\* each of which goes on with its next page.
RECURSIVE Demotions(_)
Demotions(s) ==
  LET i == SelectInSeq(s.flights, LAMBDA f : Demotion \in f.waiters /\ Terminal(f))
      p == s.flights[i].page
      t == [Consume(s, i, Demotion) EXCEPT !.inFlight = @ \ {p}]
  IN IF i = 0 THEN s
     ELSE Demotions(IF MayDemote(s.flights[i]) THEN Demote(t, p) ELSE t)

RECURSIVE Orphans(_)
Orphans(s) ==
  LET i == SelectInSeq(s.flights, LAMBDA f : Orphan \in f.waiters)
  IN IF i = 0 THEN s ELSE Orphans(Consume(s, i, Orphan))

\* Mutant of Restored: a copy that failed is passed over.
RestoredIfCopied(s, r, i) ==
  LET p == s.flights[i].page
      t == [Consume(s, i, r) EXCEPT !.inFlight = @ \ {p}]
  IN IF s.flights[i].state = "succeeded"
     THEN StartNext([t EXCEPT !.restore[r].next = @ + 1], r)
     ELSE t

Restored(s, r, i) ==
  LET p == s.flights[i].page
      t == [Consume(s, i, r) EXCEPT !.inFlight = @ \ {p}]
  IN IF s.flights[i].state = "succeeded"
     THEN StartNext([t EXCEPT !.restore[r].next = @ + 1], r)
     ELSE [t EXCEPT !.restore[r] = [NoRestore EXCEPT !.state = "failed"]]

Waits(s, r) == SelectInSeq(s.flights, LAMBDA f : r \in f.waiters /\ Terminal(f))
RECURSIVE Restores(_)
Restores(s) ==
  LET pass == FoldLeft(LAMBDA t, r : IF Waits(t, r) = 0 THEN t ELSE Restored(t, r, Waits(t, r)),
                       s, [r \in Request |-> r])
  IN IF \A r \in Request : Waits(s, r) = 0 THEN s ELSE Restores(Poll(pass))

Serviced(s) == Reconciled(Restores(Orphans(Demotions(Poll(s)))))

-----------------------------------------------------------------------------
(* Pressure.                                                                *)

\* Mutant of Schedulable: promised blocks are given away.
SchedulableAll(s) == NumFree(s.cache)

\* schedulable_free_blocks: without the blocks restores were promised.
Schedulable(s) == Max({0, NumFree(s.cache) - Cardinality(s.reserved)})

\* demote_radix_cache_to_host: every page only the device has, while the host has
\* room for it and the scheduler takes it.
PageOrder(s) == SetToSortSeq(DOMAIN s.cache.page, LAMBDA p, q : Len(p) < Len(q) \/ (Len(p) = Len(q) /\ Last(p) < Last(q)))
Demotable(s, p) ==
  /\ OnGpu(s.cache, p) /\ ~OnHost(s.cache, p)
  /\ p \notin s.inFlight /\ ~InUse(s.kv, p)
  /\ HostUsed(s) < HostPages

RECURSIVE DemoteFrom(_, _)
DemoteFrom(acc, pages) ==
  IF pages = <<>> THEN [acc EXCEPT !.s = Serviced(@)]
  ELSE IF ~Demotable(acc.s, Head(pages)) THEN DemoteFrom(acc, Tail(pages))
  ELSE IF ~Admits(acc.s, Head(pages), "host") THEN [acc EXCEPT !.s = Serviced(@)]
  ELSE LET t == [Submit(acc.s, Head(pages), "host", Demotion) EXCEPT !.inFlight = @ \union {Head(pages)}]
       IN DemoteFrom([s |-> Serviced(t), admitted |-> acc.admitted + 1], Tail(pages))

Demoted(s) == DemoteFrom([s |-> s, admitted |-> 0], PageOrder(s))

\* ensure_free_blocks_available.
MadeRoom(s, need) ==
  LET t == Serviced(s)
      u == Demoted(t)
  IN IF Schedulable(s) >= need THEN s
     ELSE IF Schedulable(t) >= need THEN t
     ELSE IF u.admitted = 0 THEN u.s ELSE Serviced(u.s)

-----------------------------------------------------------------------------
\* register_request_with_radix_cache: a prefix with pages on the host is waited
\* for, if there are blocks for all of them.
Register(r, p) ==
  LET q == FirstBlocks(p, Probe(cache, Reusable(p)))
      missing == {page \in Adopted(q) : ~OnGpu(cache, page)} \ reserved
      s == [State EXCEPT !.kv[r] = Registered(p),
                         !.restore[r] = [state |-> "pending", prefix |-> q, next |-> 1]]
  IN /\ NextRequest(r)
     /\ \/ q = NoText /\ Becomes([State EXCEPT !.kv[r] = Registered(p)])
        \/ /\ q # NoText /\ Cardinality(missing) > Schedulable(State)
           /\ \E page \in Adopted(q) : ~OnGpu(cache, page)
           /\ Becomes([State EXCEPT !.kv[r] = Registered(p), !.restore[r].state = "failed"])
        \/ /\ q # NoText /\ Cardinality(missing) <= Schedulable(State)
           /\ Becomes(StartNext([s EXCEPT !.reserved = @ \union missing], r))
     /\ UNCHANGED aborted

\* append_slots for the next step of a request that does not wait for a restore.
AppendSlots(r) ==
  LET n == NextTokens(r)
      s == MadeRoom(State, RequiredBlocks(r, n))
  IN /\ kv[r].state = "active" /\ restore[r].state # "pending"
     /\ n > 0 /\ kv[r].committed = kv[r].tokens
     /\ IF RequiredBlocks(r, n) = 0 THEN Becomes(Grown(State, r, n))
        ELSE IF Schedulable(s) >= RequiredBlocks(r, n) THEN Becomes(Grown(s, r, n))
        ELSE Becomes(s)
     /\ UNCHANGED aborted

EachFlight(Op(_)) == FoldLeft(LAMBDA fs, f : Append(fs, Op(f)), <<>>, flights)

\* free_request; what it waited for goes on as an orphan.
Free(r) ==
  /\ kv[r].state = "active"
  /\ Becomes(Reconciled(
       [State EXCEPT !.kv[r] = [NoRequest EXCEPT !.state = "freed"],
                     !.cache = Freed(@, r),
                     !.restore[r] = NoRestore,
                     !.flights = EachFlight(LAMBDA f : IF r \in f.waiters THEN Cancelled(f, r) ELSE f)]))
  /\ UNCHANGED aborted

\* schedule_step services the transfers, and demotes when that leaves no block free.
Service ==
  LET s == Serviced(State)
  IN /\ flights # <<>> \/ NumFree(cache) = 0
     /\ Active # {}
     /\ Becomes(IF NumFree(s.cache) = 0 THEN Serviced(Demoted(s).s) ELSE s)
     /\ UNCHANGED aborted

\* The backend finishes the copy of a flight.
CopyEnds(i, result) ==
  /\ i \in DOMAIN flights /\ flights[i].copy = "busy"
  /\ flights' = [flights EXCEPT ![i].copy = result]
  /\ UNCHANGED <<cacheVars, restore, reserved, inFlight>>

\* clear_radix_cache: everybody's waiters are cancelled and all copies drained;
\* a page that is still marked in flight then ends the process.
Clear ==
  LET left(f) == FoldSet(LAMBDA w, g : Cancelled(g, w), f, Live(f))
      drained(f) == IF left(f).state = "draining" THEN [left(f) EXCEPT !.copy = "failed"] ELSE left(f)
      s == Serviced([State EXCEPT !.flights = EachFlight(drained),
             !.restore = [r \in Request |-> IF \E i \in DOMAIN flights : r \in flights[i].waiters
                                            THEN [NoRestore EXCEPT !.state = "failed"] ELSE restore[r]]])
  IN /\ Nodes(cache) # {}
     /\ aborted' = (s.inFlight # {})
     /\ Becomes([s EXCEPT !.kv = [r \in Request |-> [s.kv[r] EXCEPT !.leaf = NoText]],
                          !.cache = [ErasePages(@, DOMAIN s.cache.page) EXCEPT !.pins = <<>>, !.lru = <<>>]])

Owner ==
  \/ \E r \in Request :
       \/ \E p \in Prompts : Register(r, p)
       \/ AppendSlots(r) \/ Free(r)
       \/ (Compute(r) \/ Publish(r)) /\ UNCHANGED <<restore, reserved, flights, inFlight>>
  \/ Service \/ Clear

Next ==
  /\ ~aborted
  /\ \/ Owner
     \/ \E i \in DOMAIN flights, result \in {"ok", "failed"} : CopyEnds(i, result)

Spec == Init /\ [][Next]_vars

\* The backend ends every copy, and the owner's loop goes on stepping while it has
\* requests and something to see: weak fairness of Service, with what enables a
\* step that changes something spelled out.
ServiceDue ==
  /\ ~aborted /\ Active # {}
  /\ \E i \in DOMAIN flights : Copied(flights[i]) \/ (Terminal(flights[i]) /\ flights[i].waiters # {})

FairSpec ==
  /\ Spec
  /\ []<>~ServiceDue \/ []<><<Service>>_vars
  /\ WF_vars(~aborted /\ \E i \in DOMAIN flights, result \in {"ok", "failed"} : CopyEnds(i, result))
-----------------------------------------------------------------------------
Leased(b) == {i \in DOMAIN flights : flights[i].block = b}

\* Types of the state, and the capacities of the transfer scheduler and the host.
TypeOK ==
  /\ \A r \in Request :
       /\ kv[r].state \in {"new", "active", "freed"}
       /\ kv[r].tokens \in 0 .. Len(kv[r].text) /\ kv[r].committed \in 0 .. kv[r].tokens
       /\ ToSet(kv[r].table) \subseteq Block
       /\ restore[r].state \in {"none", "pending", "ready", "failed"}
  /\ cache.ref \in [Block -> Nat]
  /\ Len(flights) <= MaxFlights /\ Cardinality({<<flights[i].page, flights[i].to>> : i \in DOMAIN flights}) = Len(flights)
  /\ Cardinality({i \in DOMAIN flights : Physical(flights[i])}) <= MaxActive
  /\ HostUsed(State) <= HostPages
  /\ aborted \in BOOLEAN

\* The KV of a request and of a cached page is that of its tokens, wherever it has
\* been moved to, and a cached page always has a copy somewhere.
BytesExact ==
  /\ \A r \in Active : \A k \in 1 .. Len(kv[r].table) :
       LET end == Least(k * BlockSize, kv[r].committed)
       IN end > (k - 1) * BlockSize =>
            IsPrefix(SubSeq(kv[r].text, 1, end), data[kv[r].table[k]])
  /\ \A p \in DOMAIN cache.page :
       /\ OnGpu(cache, p) \/ OnHost(cache, p)
       /\ OnGpu(cache, p) => IsPrefix(p, data[cache.page[p].gpu])
       /\ OnHost(cache, p) => IsPrefix(p, cache.page[p].host)

\* A block is counted once by every block table, cached page and copy that holds
\* it: a copy keeps its block whoever frees the page's requests meanwhile.
RefsExact ==
  \A b \in Block :
    cache.ref[b] = Cardinality({r \in Active : b \in ToSet(kv[r].table)})
                 + Cardinality({p \in DOMAIN cache.page : cache.page[p].gpu = b})
                 + Cardinality(Leased(b))

\* There is a block for every page a restore was promised: no append takes it.
RestoreHasRoom ==
  NumFree(cache) >= Cardinality({p \in reserved : ~\E i \in DOMAIN flights :
    flights[i].page = p /\ flights[i].to = "gpu" /\ Physical(flights[i])})

\* A page some request adopted stays on the device.
AdoptedStay == \A p \in DOMAIN cache.page : InUse(kv, p) => OnGpu(cache, p)

\* All three: a block that was promised or is in use stays where it is wanted.
BlocksKept == RefsExact /\ RestoreHasRoom /\ AdoptedStay

\* A request that waits for its prefix is ready or falls back to its prompt.
RestoreSettles ==
  \A r \in Request : restore[r].state = "pending" ~> restore[r].state # "pending" \/ aborted

\* clear_radix_cache ends with the transfers quiescent, whatever restores were
\* cancelled before: its CHECK of a live recovery dependency never fires.
ClearQuiesces == ~aborted
=============================================================================
