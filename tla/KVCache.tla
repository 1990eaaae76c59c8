------------------------------- MODULE KVCache -------------------------------
(***************************************************************************)
(* The KVCacheManager without a host tier: an append that finds too few    *)
(* free blocks evicts cached prefixes, least recently used leaves first.   *)
(* Requests come with a prompt, adopt what is cached of it, compute the    *)
(* rest, publish it, decode, are forked into branches, suspended by a      *)
(* snapshot and restored, and are freed.  The owner thread runs one        *)
(* operation at a time, in any order the callers may ask for.              *)
(***************************************************************************)
EXTENDS PageCache

VARIABLE saved    \* KVRequestSnapshot of a suspended request: the text it holds

vars == <<cacheVars, saved>>

Init == CacheInit /\ saved = [r \in Request |-> NoText]

-----------------------------------------------------------------------------
(* Eviction.                                                                *)

FirstLeaf(c) == Head(SelectSeq(c.lru, LAMBDA n : n \in Leaves(c)))

EraseLeaf(c, n) ==
  [ErasePages(c, Segment(c, n)) EXCEPT
     !.pins = Restrict(c.pins, Nodes(c) \ {n}),
     !.lru = SelectSeq(c.lru, LAMBDA o : o # n)]

\* evict_radix_cache_blocks: leaves, until `most' pages have been erased.
RECURSIVE EvictPages(_, _)
EvictPages(c, most) ==
  IF most <= 0 \/ Leaves(c) = {} THEN c
  ELSE EvictPages(EraseLeaf(c, FirstLeaf(c)), most - Cardinality(Segment(c, FirstLeaf(c))))

\* ensure_free_blocks_available: a page of a running request frees nothing, so
\* eviction goes on until there is room or nothing is left to evict.
RECURSIVE MakeRoom(_, _)
MakeRoom(c, need) ==
  IF NumFree(c) >= need \/ Leaves(c) = {} THEN c ELSE MakeRoom(EvictPages(c, need), need)

\* Pages lost to eviction; none may be active in the recovery graph.
Lost(c) == DOMAIN cache.page \ DOMAIN c.page
EvictionLegal(c) == \A p \in Lost(c) : ~InUse(kv, p)

\* schedulable_free_blocks.
Schedulable(c) == NumFree(c) + EvictableBlocks(c)

-----------------------------------------------------------------------------
\* register_request_with_radix_cache.
Register(r, p) ==
  LET q == FirstBlocks(p, Probe(cache, Reusable(p)))
  IN /\ NextRequest(r)
     /\ kv' = [kv EXCEPT ![r] = IF q = NoText THEN Registered(p) ELSE Adopting(p, q, cache)]
     /\ cache' = IF q = NoText THEN cache ELSE Attach(cache, q)
     /\ UNCHANGED <<data, aborted, saved>>

\* append_slots for the next step of a request.  What eviction erased stays
\* erased when the append fails.
AppendSlots(r) ==
  LET n == NextTokens(r)
      c == MakeRoom(cache, RequiredBlocks(r, n))
  IN /\ kv[r].state = "active" /\ n > 0 /\ kv[r].committed = kv[r].tokens
     /\ aborted' = ~EvictionLegal(c)
     /\ IF NumFree(c) >= RequiredBlocks(r, n)
        THEN LET g == Grown([kv |-> kv, cache |-> c, data |-> Kept(data, c)], r, n)
             IN kv' = g.kv /\ cache' = g.cache /\ data' = g.data
        ELSE cache' = c /\ data' = Kept(data, c) /\ UNCHANGED kv
     /\ UNCHANGED saved

\* free_request, between steps or with slots that were never computed.
Free(r) ==
  /\ kv[r].state = "active"
  /\ cache' = Freed(cache, r)
  /\ data' = Kept(data, cache')
  /\ kv' = [kv EXCEPT ![r] = [NoRequest EXCEPT !.state = "freed"]]
  /\ UNCHANGED <<aborted, saved>>

\* Checkpoint preemption: snapshot_request copies the blocks out, and the request
\* is freed.
Suspend(r) ==
  /\ kv[r].state = "active" /\ kv[r].committed = kv[r].tokens /\ kv[r].tokens > 0
  /\ saved' = [saved EXCEPT ![r] = data[Last(kv[r].table)]]
  /\ cache' = Freed(cache, r)
  /\ kv' = [kv EXCEPT ![r] = [@ EXCEPT !.state = "saved", !.table = <<>>, !.leaf = NoText,
                                !.tailShared = FALSE]]
  /\ data' = Kept(data, cache')
  /\ UNCHANGED aborted

\* restore_request_snapshot: private blocks for all its tokens, and the copy in.
Resume(r) ==
  LET need == BlocksFor(kv[r].tokens)
      c == MakeRoom(cache, need)
      blocks == Take(c, need)
  IN /\ kv[r].state = "saved"
     /\ aborted' = ~EvictionLegal(c)
     /\ IF NumFree(c) >= need
        THEN /\ cache' = Incref(c, ToSet(blocks))
             /\ kv' = [kv EXCEPT ![r].state = "active", ![r].table = blocks]
             /\ data' = [b \in Block |->
                  IF b \in ToSet(blocks)
                  THEN SubSeq(saved[r], 1, Least(Len(saved[r]), BlockSize *
                         (CHOOSE k \in 1 .. need : blocks[k] = b)))
                  ELSE Kept(data, c)[b]]
             /\ saved' = [saved EXCEPT ![r] = NoText]
        ELSE cache' = c /\ data' = Kept(data, c) /\ UNCHANGED <<kv, saved>>

\* clear_radix_cache, with requests that use cached pages.
Clear ==
  /\ Nodes(cache) # {}
  /\ kv' = [r \in Request |-> [kv[r] EXCEPT !.leaf = NoText]]
  /\ cache' = [ErasePages(cache, DOMAIN cache.page) EXCEPT !.pins = <<>>, !.lru = <<>>]
  /\ data' = Kept(data, cache')
  /\ UNCHANGED <<aborted, saved>>

Next ==
  \/ \E r \in Request :
       \/ \E p \in Prompts : Register(r, p)
       \/ AppendSlots(r) \/ Free(r) \/ Suspend(r) \/ Resume(r)
       \/ (Compute(r) \/ Publish(r) \/ \E s \in Request : Fork(r, s)) /\ UNCHANGED saved
  \/ Clear

Spec == Init /\ [][Next]_vars
-----------------------------------------------------------------------------
Tokens == UNION {ToSet(p) : p \in Prompts} \union {100 + r : r \in Request}

\* Types of the state.
TypeOK ==
  /\ \A r \in Request :
       /\ kv[r].state \in {"new", "active", "freed", "saved"}
       /\ kv[r].tokens \in 0 .. Len(kv[r].text) /\ kv[r].committed \in 0 .. kv[r].tokens
       /\ ToSet(kv[r].table) \subseteq Block /\ IsInjective(kv[r].table)
       /\ ToSet(kv[r].text) \subseteq Tokens /\ ToSet(saved[r]) \subseteq Tokens
  /\ cache.ref \in [Block -> Nat]
  /\ \A n \in Nodes(cache) : cache.pins[n] \in Nat
  /\ ToSet(cache.lru) = Nodes(cache) /\ IsInjective(cache.lru)
  /\ \A b \in Block : ToSet(data[b]) \subseteq Tokens
  /\ aborted \in BOOLEAN

\* Every slot a request or a cached page relies on was written for exactly the
\* tokens before it: no append, copy-on-write, eviction or restore lets a request
\* read what another one wrote for a different text.
BytesExact ==
  /\ \A r \in Active : \A k \in 1 .. Len(kv[r].table) :
       LET end == Least(k * BlockSize, kv[r].committed)
       IN end > (k - 1) * BlockSize =>
            IsPrefix(SubSeq(kv[r].text, 1, end), data[kv[r].table[k]])
  /\ \A p \in DOMAIN cache.page :
       OnGpu(cache, p) => IsPrefix(p, data[cache.page[p].gpu])

\* A block's count is the number of block tables and cached pages that hold it, so
\* that it returns to the free queue when the last of them lets go and not before.
RefsExact ==
  \A b \in Block :
    cache.ref[b] = Cardinality({r \in Active : b \in ToSet(kv[r].table)})
                 + Cardinality({p \in DOMAIN cache.page : cache.page[p].gpu = b})

\* The tree and the directory hold the same prefixes, a node is pinned once by
\* every request that adopted a prefix through it, splits included, and no page
\* of such a prefix is ever evicted.
TreeExact ==
  /\ DOMAIN cache.page = UNION {Segment(cache, n) : n \in Nodes(cache)}
  /\ \A n \in Nodes(cache) :
       cache.pins[n] = Cardinality({r \in Active : kv[r].leaf # NoText /\ IsPrefix(n, kv[r].leaf)})
  /\ \A r \in Active : kv[r].leaf # NoText => kv[r].leaf \in Nodes(cache)
  /\ ~aborted

\* Both: no block is lost or freed twice, and no node outlives what pins it.
CacheExact == RefsExact /\ TreeExact
=============================================================================
