------------------------------ MODULE PageCache ------------------------------
(***************************************************************************)
(* What the two forms of the KVCacheManager share: the reference counted   *)
(* blocks of the BlockAllocator, the page directory, the compressed radix  *)
(* tree of cached prompt prefixes, and the block tables of the requests    *)
(* (SequenceKVManager).  KVCache evicts cached pages under pressure,       *)
(* HostTier moves them to the host and back.                               *)
(*                                                                         *)
(* Layers take every step together, so one is modelled; which free block   *)
(* is taken does not matter, so it is the lowest.  A node of the           *)
(* tree is named by the prefix it ends at, and a logical page by its       *)
(* content, the prefix it completes, as the directory's index does.  A KV  *)
(* slot depends on the tokens before it: `data' says for which text a      *)
(* block was last written, and nothing of a block that is free.            *)
(***************************************************************************)
EXTENDS Integers, Sequences, FiniteSets, FiniteSetsExt, SequencesExt, Functions

CONSTANTS
  Requests,            \* bound: the requests and branches there ever are
  Prompts,             \* prompts, sequences of tokens
  BlockSize, NumBlocks,
  Chunk,               \* the tokens a step computes at most
  MaxNew               \* bound: the tokens a request decodes

Request == 1 .. Requests
Block == 1 .. NumBlocks
NoBlock == 0
NoText == <<>>

ASSUME CacheAssumption ==
  /\ {Requests, BlockSize, NumBlocks, Chunk, MaxNew} \subseteq Nat \ {0}
  /\ \A p \in Prompts : p \in Seq(Nat) /\ p # NoText

VARIABLES
  kv,      \* request_slots_, with the text of the request that owns the slot
  cache,   \* [ref, page, pins, lru]: ref_count of every block, the page directory
           \* (prefix -> [gpu, host]), and the tree: pins of a node, LRU order
  data,    \* what every block was written with
  aborted  \* a CHECK failed

cacheVars == <<kv, cache, data, aborted>>

-----------------------------------------------------------------------------
(* Blocks.                                                                  *)

FreeBlocks(c) == {b \in Block : c.ref[b] = 0}
NumFree(c) == Cardinality(FreeBlocks(c))
BlocksFor(tokens) == (tokens + BlockSize - 1) \div BlockSize

\* What is left of the blocks' contents.
Kept(d, c) == [b \in Block |-> IF c.ref[b] = 0 THEN NoText ELSE d[b]]

\* allocate n blocks, incref and free of a set of blocks.
Take(c, n) == SubSeq(SetToSortSeq(FreeBlocks(c), <), 1, n)
Incref(c, blocks) ==
  [c EXCEPT !.ref = [b \in Block |-> IF b \in blocks THEN c.ref[b] + 1 ELSE c.ref[b]]]
Decref(c, blocks) ==
  [c EXCEPT !.ref = [b \in Block |-> IF b \in blocks THEN c.ref[b] - 1 ELSE c.ref[b]]]

-----------------------------------------------------------------------------
(* The radix tree.                                                          *)

FullBlocks(text) == Len(text) \div BlockSize
FirstBlocks(text, n) == SubSeq(text, 1, n * BlockSize)
Nodes(c) == DOMAIN c.pins
Extends(n, p) == IsPrefix(p, n)
Least(a, b) == IF a <= b THEN a ELSE b

\* probe_prefix: how many full blocks of the text the tree holds.
Probe(c, text) ==
  Max({0} \union {k \in 1 .. FullBlocks(text) : \E n \in Nodes(c) : Extends(n, FirstBlocks(text, k))})

\* The node whose segment holds the end of prefix p.
Holder(c, p) ==
  CHOOSE n \in Nodes(c) : /\ Extends(n, p)
                          /\ \A o \in Nodes(c) : Extends(o, p) => Len(n) <= Len(o)

PathTo(c, p) == SetToSortSeq({n \in Nodes(c) : IsPrefix(n, p)}, LAMBDA a, b : Len(a) < Len(b))
MoveLast(lru, ns) == SelectSeq(lru, LAMBDA n : n \notin ToSet(ns)) \o ns

\* Mutant of Match: a split neither shortens nor pins the upper node as its lower half.
MatchFresh(c, text) ==
  LET p == FirstBlocks(text, Probe(c, text))
  IN [c EXCEPT !.lru = MoveLast(c.lru, PathTo(c, p) \o (IF p = NoText \/ p \in Nodes(c) THEN <<>> ELSE <<p>>)),
               !.pins = IF p = NoText THEN c.pins ELSE c.pins @@ (p :> 0)]

\* match_prefix: touches the path, and splits the node the match ends inside of;
\* the new node takes over the pins of the one it was split from.
Match(c, text) ==
  LET p == FirstBlocks(text, Probe(c, text))
      split == p # NoText /\ p \notin Nodes(c)
      touched == IF split THEN PathTo(c, p) \o <<Holder(c, p), p>> ELSE PathTo(c, p)
  IN [c EXCEPT !.lru = MoveLast(c.lru, touched),
               !.pins = IF split THEN c.pins @@ (p :> c.pins[Holder(c, p)]) ELSE c.pins]

\* insert: a leaf for the blocks that are not there yet.
Insert(c, text) ==
  LET m == Match(c, text)
  IN IF text \in Nodes(m) THEN m
     ELSE [m EXCEPT !.lru = Append(m.lru, text), !.pins = m.pins @@ (text :> 0)]

PinPath(c, leaf) ==
  [c EXCEPT !.pins = [n \in Nodes(c) |-> IF IsPrefix(n, leaf) THEN c.pins[n] + 1 ELSE c.pins[n]]]
UnpinPath(c, leaf) ==
  [c EXCEPT !.pins = [n \in Nodes(c) |-> IF IsPrefix(n, leaf) THEN c.pins[n] - 1 ELSE c.pins[n]]]

\* The pages of a node's segment: beyond those of its parent.
Segment(c, n) ==
  {FirstBlocks(n, k) : k \in 1 .. FullBlocks(n)}
    \ UNION {{FirstBlocks(o, k) : k \in 1 .. FullBlocks(o)} : o \in {o \in Nodes(c) : IsStrictPrefix(o, n)}}
Leaves(c) ==
  {n \in Nodes(c) : c.pins[n] = 0 /\ \A o \in Nodes(c) \ {n} : ~Extends(o, n)}

\* radix_cache_evictable_blocks.
EvictableBlocks(c) ==
  Cardinality(UNION {Segment(c, n) : n \in {n \in Nodes(c) : c.pins[n] = 0}})

-----------------------------------------------------------------------------
(* The page directory: at most one page for a content.                      *)

OnGpu(c, p) == p \in DOMAIN c.page /\ c.page[p].gpu # NoBlock
OnHost(c, p) == p \in DOMAIN c.page /\ c.page[p].host # NoText

\* erase of a page: the directory's reference goes, and its host copy.
ErasePages(c, ps) ==
  [Decref(c, {c.page[p].gpu : p \in ps} \ {NoBlock})
     EXCEPT !.page = Restrict(c.page, DOMAIN c.page \ ps)]

-----------------------------------------------------------------------------
(* Requests.                                                                *)

NoRequest == [state |-> "new", prompt |-> NoText, text |-> NoText, tokens |-> 0, committed |-> 0,
         table |-> <<>>, tailShared |-> FALSE, leaf |-> NoText, published |-> FALSE]
NextRequest(r) == kv[r].state = "new" /\ \A s \in 1 .. (r - 1) : kv[s].state # "new"
Active == {r \in Request : kv[r].state = "active"}

\* recovery_pages: the cached pages request r adopted; each is active in the
\* recovery graph.
Adopted(leaf) == {FirstBlocks(leaf, k) : k \in 1 .. FullBlocks(leaf)}
InUse(tables, p) == \E r \in Request : tables[r].state = "active" /\ p \in Adopted(tables[r].leaf)

\* register_request, without and with the first tokens of a cached prefix q.
Registered(p) == [NoRequest EXCEPT !.state = "active", !.prompt = p, !.text = p]
Adopting(p, q, c) ==
  [Registered(p) EXCEPT !.tokens = Len(q), !.committed = Len(q), !.leaf = q,
                        !.table = [k \in 1 .. FullBlocks(q) |-> c.page[FirstBlocks(q, k)].gpu]]

\* Mutant of Attach: the path is not pinned.
AttachUnpinned(c, q) ==
  Incref(Match(c, q), {c.page[FirstBlocks(q, k)].gpu : k \in 1 .. FullBlocks(q)})

\* finish_restore: match, adopt_shared_prefix and pin of the prefix q.
Attach(c, q) ==
  LET m == Match(c, q)
  IN PinPath(Incref(m, {c.page[FirstBlocks(q, k)].gpu : k \in 1 .. FullBlocks(q)}), q)

\* The prefix register_request_with_radix_cache looks for: never the whole prompt.
Reusable(p) == FirstBlocks(p, (Len(p) - 1) \div BlockSize)

\* free_request of a request: its path is unpinned and its blocks are freed.
Freed(c, r) ==
  LET u == IF kv[r].leaf # NoText THEN UnpinPath(c, kv[r].leaf) ELSE c
  IN Decref(u, ToSet(kv[r].table))

NeedsCow(r) == kv[r].tailShared
RequiredBlocks(r, n) ==
  BlocksFor(kv[r].tokens + n) - BlocksFor(kv[r].tokens) + (IF NeedsCow(r) THEN 1 ELSE 0)

\* append_tokens with the free blocks of s: copies a shared tail before the
\* first token goes into it, then takes new blocks at the end.
Grown(s, r, n) ==
  LET blocks == Take(s.cache, RequiredBlocks(r, n))
      table == s.kv[r].table
      tail == Last(table)
      c == IF NeedsCow(r) THEN Decref(Incref(s.cache, ToSet(blocks)), {tail})
           ELSE Incref(s.cache, ToSet(blocks))
  IN [s EXCEPT !.cache = c,
               !.data = Kept(IF NeedsCow(r) THEN [@ EXCEPT ![blocks[1]] = s.data[tail]] ELSE @, c),
               !.kv[r] = [@ EXCEPT !.table = (IF NeedsCow(r) THEN Front(table) ELSE table) \o blocks,
                                   !.tokens = @ + n, !.tailShared = FALSE]]

\* The tokens of the next step: some of the prompt, or the sampled one.
NextTokens(r) == Least(Chunk, Len(kv[r].text) - kv[r].tokens)

-----------------------------------------------------------------------------
(* Operations that do not depend on how pressure is handled.                *)

CacheInit ==
  /\ kv = [r \in Request |-> NoRequest]
  /\ cache = [ref |-> [b \in Block |-> 0], page |-> <<>>, pins |-> <<>>, lru |-> <<>>]
  /\ data = [b \in Block |-> NoText]
  /\ aborted = FALSE

\* The model writes the reserved slots in place and commits them; a token is
\* sampled when that was the last one it knew.
Computed(r) ==
  [kv[r] EXCEPT !.committed = kv[r].tokens,
     !.text = IF kv[r].tokens = Len(@) /\ Len(@) < Len(kv[r].prompt) + MaxNew THEN Append(@, 100 + r) ELSE @]

Compute(r) ==
  /\ kv[r].state = "active" /\ kv[r].committed < kv[r].tokens
  /\ data' = [b \in Block |->
       IF \E k \in 1 .. Len(kv[r].table) : kv[r].table[k] = b /\ k * BlockSize > kv[r].committed
       THEN LET k == CHOOSE k \in 1 .. Len(kv[r].table) : kv[r].table[k] = b
            IN SubSeq(kv[r].text, 1, Least(k * BlockSize, kv[r].tokens))
       ELSE data[b]]
  /\ kv' = [kv EXCEPT ![r] = Computed(r)]
  /\ UNCHANGED <<cache, aborted>>

\* publish_radix_cache, once, when the prompt has been computed: pages for the
\* full blocks beyond the cached ones, then the leaf.  A directory that is full
\* takes none.
Publish(r) ==
  LET p == FirstBlocks(kv[r].prompt, FullBlocks(kv[r].prompt))
      m == Match(cache, p)
      fresh == {k \in 1 .. FullBlocks(p) : k > Probe(cache, p)}
      created == [q \in {FirstBlocks(p, k) : k \in fresh} \ DOMAIN cache.page |->
                    [gpu |-> kv[r].table[FullBlocks(q)], host |-> NoText]]
      full == Cardinality(DOMAIN cache.page) + Cardinality(fresh) > NumBlocks
  IN /\ kv[r].state = "active" /\ ~kv[r].published
     /\ kv[r].committed >= Len(kv[r].prompt)
     /\ kv' = [kv EXCEPT ![r].published = TRUE]
     /\ cache' = IF p = NoText THEN cache
                 ELSE IF full THEN m
                 ELSE Insert([Incref(m, {created[q].gpu : q \in DOMAIN created})
                                EXCEPT !.page = m.page @@ created], p)
     /\ UNCHANGED <<data, aborted>>

\* Mutant of Fork: the branch takes the shared tail for its own.
ForkOwnsTail(r, s) ==
  /\ kv[r].state = "active" /\ NextRequest(s)
  /\ kv[r].committed = kv[r].tokens /\ kv[r].tokens > 0
  /\ kv' = [kv EXCEPT ![s] = [kv[r] EXCEPT !.leaf = NoText, !.published = TRUE,
                                !.text = SubSeq(@, 1, kv[r].tokens) \o <<100 + s>>]]
  /\ cache' = Incref(cache, ToSet(kv[r].table))
  /\ UNCHANGED <<data, aborted>>

\* fork_request: the branch shares every block, and copies the tail before it
\* writes; the source goes on writing in place.  Callers fork between steps.
Fork(r, s) ==
  /\ kv[r].state = "active" /\ NextRequest(s)
  /\ kv[r].committed = kv[r].tokens /\ kv[r].tokens > 0
  /\ kv' = [kv EXCEPT ![s] = [kv[r] EXCEPT !.leaf = NoText, !.published = TRUE,
                                !.text = SubSeq(@, 1, kv[r].tokens) \o <<100 + s>>,
                                !.tailShared = kv[r].tokens % BlockSize # 0]]
  /\ cache' = Incref(cache, ToSet(kv[r].table))
  /\ UNCHANGED <<data, aborted>>
=============================================================================
