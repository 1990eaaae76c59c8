---------------------------- MODULE MCOnlineEngine ----------------------------
(* OnlineEngine for TLC: two to four requests that need more KV than the pool    *)
(* has, under each policy.                                                       *)
EXTENDS OnlineEngine

\* Those that are not submitted get a prompt too.
Filled(values) ==
  [r \in Request |-> IF r \in DOMAIN values THEN values[r] ELSE 1]

Load(prompts, mins, news, ranks, limits, cancelled, failing) ==
  {[priority |-> p, checkpoint |-> c,
    long |-> limits[1], partial |-> limits[2], longPartial |-> limits[3],
    prompt |-> Filled(prompts), minNew |-> Filled(mins), maxNew |-> Filled(news),
    rank |-> Filled(ranks), cancels |-> cancelled,
    submits |-> Len(prompts), fails |-> failing] :
     p \in BOOLEAN, c \in BOOLEAN}

Unlimited == <<0, 0, 0>>

\* Three requests of which decodes evict each other, prompts that share a batch or
\* never fit, a recompute that grows beyond the pool, priorities against the order of
\* arrival, clients that leave.
ThreeSetups ==
  Load(<<3, 2, 4>>, <<0, 2, 0>>, <<3, 4, 2>>, <<0, 1, 2>>, <<2, 2, 1>>, {2}, 0)
  \union Load(<<2, 9, 3>>, <<0, 0, 0>>, <<8, 1, 2>>, <<1, 0, 0>>, Unlimited, {}, 0)
  \union UNION {Load(q, <<0, 0, 0>>, <<2, 2, 2>>, <<0, 1, 2>>, z, {1}, 0) :
                  q \in {<<5, 5, 4>>, <<4, 6, 6>>}, z \in {Unlimited, <<2, 0, 0>>}}
  \union Load(<<2, 3, 3>>, <<0, 0, 0>>, <<7, 4, 4>>, <<0, 1, 1>>, Unlimited, {}, 0)

\* Two requests of which forward passes fail: in a prefill, in a decode, in a
\* recompute, and until a handle holds more than its recompute needs.
FailingSetups ==
  Load(<<5, 2>>, <<0, 0>>, <<3, 1>>, <<0, 1>>, Unlimited, {1}, 2)
  \union Load(<<3, 4>>, <<0, 0>>, <<5, 2>>, <<0, 0>>, <<2, 1, 1>>, {}, 1)
  \union {s \in Load(<<5, 2>>, <<0, 3>>, <<3, 3>>, <<0, 1>>, Unlimited, {}, 3) :
            s.priority /\ s.checkpoint}

\* Four requests: a decode that got no block outranks the request in front of
\* waiting_, for which a running prefill has to go.
FourSetups ==
  {s \in Load(<<2, 2, 4, 2>>, <<0, 0, 4, 0>>, <<4, 4, 4, 2>>, <<2, 3, 0, 1>>, Unlimited, {}, 0) :
     s.priority}

Setups == ThreeSetups \union FailingSetups \union FourSetups
=============================================================================
