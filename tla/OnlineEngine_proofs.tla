------------------------- MODULE OnlineEngine_proofs -------------------------
(***************************************************************************)
(* Proofs about the engine's owner thread and its Scheduler, for any       *)
(* number of requests, any pool and any limits, with every policy.         *)
(*                                                                         *)
(* The inductive invariant follows schedule_step: what the counters of a   *)
(* request allow (ShapeOf) and what KV its handle or its record has        *)
(* (KVOf), which of the queues its status says it is in (Homes), what the  *)
(* rows of the batch are at each point of the step (Batches), what the     *)
(* loops over running_ have still to visit (Loops), and that the pool is   *)
(* not overdrawn, nor under FCFS by what the batch will reserve (Pool).    *)
(* The parts take the values they are about as arguments, so that what a   *)
(* step does to one request is a lemma about that request alone.  A      *)
(* forward pass that failed weakens the KV from exactly to at least what   *)
(* was computed.                                                           *)
(*                                                                         *)
(* Together the parts are Sound, which one step does not keep: an          *)
(* admission under priority whose front moved.  It leads to Lost, where    *)
(* the behaviour ends; the invariant is Sound \/ Lost.                     *)
(***************************************************************************)
EXTENDS OnlineEngine, SetLemmas, SequenceTheorems, TLAPS

\* The largest element of a finite set of naturals.
LEMMA MaxIn ==
  ASSUME NEW s, s \subseteq Nat, IsFiniteSet(s), s # {}
  PROVE  Max(s) \in s /\ \A y \in s : y <= Max(s)
<1>1. PICK x \in s : \A y \in s : y <= x
  BY GreatestElement
<1>2. \A y \in s : x >= y
  BY <1>1
<1>3. Max(s) \in s /\ \A y \in s : Max(s) >= y
  BY <1>2 DEF Max
<1>4. QED
  BY <1>3

\* The smallest element of a set of naturals.
LEMMA MinIn ==
  ASSUME NEW s, s \subseteq Nat, s # {}
  PROVE  Min(s) \in s /\ \A y \in s : Min(s) <= y
<1>1. PICK x \in s : \A y \in s : x <= y
  BY LeastElement
<1>2. Min(s) \in s /\ \A y \in s : Min(s) <= y
  BY <1>1 DEF Min
<1>3. QED
  BY <1>2

-----------------------------------------------------------------------------
(* Folds.  FoldLeft is a CHOOSE of the table of its values on the parts of   *)
(* the domain; the lemmas show that this table exists and is unique.         *)

\* The table of the values of a fold from base, by step, on the parts of D.
IsTable(h, D, base, step) ==
  h = [s \in SUBSET D |-> IF s = {} THEN base ELSE step[s][h[s \ {Max(s)}]]]

\* What a table says of one part.
Steps(h, D, step) == \A s \in SUBSET D : s # {} => h[s] = step[s][h[s \ {Max(s)}]]

\* A table of a fold gives the base for no part and takes a step for each other.
LEMMA TableAt ==
  ASSUME NEW D, NEW base, NEW step, NEW h, IsTable(h, D, base, step)
  PROVE  h[{}] = base /\ Steps(h, D, step)
<1>1. {} \in SUBSET D
  OBVIOUS
<1>2. h[{}] = base
  BY <1>1 DEF IsTable
<1>3. ASSUME NEW s \in SUBSET D, s # {}
      PROVE  h[s] = step[s][h[s \ {Max(s)}]]
  BY <1>3 DEF IsTable
<1>4. QED
  BY <1>2, <1>3 DEF Steps

\* Two tables agree where both say the same of a part from what they say of the
\* part without its last index.
Parallel(a, b, D) ==
  \A s \in SUBSET D : s # {} /\ a[s \ {Max(s)}] = b[s \ {Max(s)}] => a[s] = b[s]

\* Two tables that say the same of each part from what they say of the part
\* without its largest element agree on the whole domain.
LEMMA TablesAgree ==
  ASSUME NEW D, D \subseteq Nat, IsFiniteSet(D), NEW a, NEW b, a[{}] = b[{}],
         Parallel(a, b, D)
  PROVE  a[D] = b[D]
<1> DEFINE Bad == {s \in SUBSET D : a[s] # b[s]}
<1>1. SUFFICES ASSUME Bad # {}
               PROVE  FALSE
  <2>1. D \in SUBSET D
    OBVIOUS
  <2>2. QED
    BY <2>1
<1>2. PICK s \in Bad : \A t \in Bad : t \subseteq s => t = s
  <2>1. IsFamily(Bad, D)
    BY <1>1 DEF IsFamily
  <2> HIDE DEF Bad
  <2>2. PICK s : IsMinimal(s, Bad)
    BY <2>1, MinimalMember
  <2>3. QED
    BY <2>2 DEF IsMinimal
<1>3. s # {} /\ s \in SUBSET D /\ IsFiniteSet(s)
  BY FS_Subset
<1>4. Max(s) \in s
  BY <1>3, MaxIn
<1>5. s \ {Max(s)} \notin Bad
  BY <1>2, <1>4
<1>6. s \ {Max(s)} \in SUBSET D
  BY <1>3
<1>7. QED
  BY <1>3, <1>5, <1>6 DEF Parallel

\* A step within the values has a table of values.
LEMMA TableExists ==
  ASSUME NEW D, D \subseteq Nat, IsFiniteSet(D), NEW Acc, NEW base \in Acc,
         NEW step, \A s \in SUBSET D, v \in Acc : step[s][v] \in Acc
  PROVE  \E h \in [SUBSET D -> Acc] : IsTable(h, D, base, step)
<1> DEFINE Good(T, h) == h \in [SUBSET T -> Acc] /\ IsTable(h, T, base, step)
           Bad == {T \in SUBSET D : ~ \E h : Good(T, h)}
           Table(T) == CHOOSE h : Good(T, h)
<1>1. SUFFICES ASSUME Bad # {}
               PROVE  FALSE
  <2>1. D \in SUBSET D
    OBVIOUS
  <2>2. QED
    BY <2>1
<1>2. PICK T \in Bad : \A U \in Bad : U \subseteq T => U = T
  <2>1. IsFamily(Bad, D)
    BY <1>1 DEF IsFamily
  <2> HIDE DEF Bad
  <2>2. PICK s : IsMinimal(s, Bad)
    BY <2>1, MinimalMember
  <2>3. QED
    BY <2>2 DEF IsMinimal
<1>3. ASSUME NEW U \in SUBSET T, U # T
      PROVE  Good(U, Table(U)) /\ IsFiniteSet(U) /\ U \subseteq Nat /\ U \in SUBSET D
  <2>1. U \in SUBSET D /\ U \notin Bad
    BY <1>2, <1>3
  <2>2. QED
    BY <2>1, FS_Subset
<1>4. T \subseteq Nat /\ IsFiniteSet(T) /\ T \in SUBSET D
  BY FS_Subset
<1> DEFINE Value(u) == Table(u)[u]
           h == [s \in SUBSET T |-> IF s = {} THEN base ELSE step[s][Value(s \ {Max(s)})]]
<1>5. ASSUME NEW U \in SUBSET T, U # T
      PROVE  Value(U) \in Acc
  <2>1. Good(U, Table(U))
    BY <1>3, <1>5
  <2> HIDE DEF Table
  <2>2. QED
    BY <2>1
<1>6. ASSUME NEW s \in SUBSET T, s # {}
      PROVE  /\ s \ {Max(s)} \in SUBSET T /\ s \ {Max(s)} # T /\ s \ {Max(s)} \in SUBSET s
             /\ s \ {Max(s)} # s
  <2>1. Max(s) \in s
    BY <1>4, <1>6, FS_Subset, MaxIn
  <2>2. QED
    BY <2>1
<1>7. ASSUME NEW s \in SUBSET T
      PROVE  h[s] \in Acc
  <2>1. CASE s = {}
    BY <2>1
  <2>2. CASE s # {}
    <3>1. Value(s \ {Max(s)}) \in Acc
      BY <1>5, <1>6, <2>2
    <3>2. h[s] = step[s][Value(s \ {Max(s)})]
      BY <2>2
    <3> HIDE DEF h, Value
    <3>3. s \in SUBSET D
      BY <1>4
    <3>4. QED
      BY <3>1, <3>2, <3>3
  <2>3. QED
    BY <2>1, <2>2
<1>8. ASSUME NEW U \in SUBSET T, U # T
      PROVE  h[U] = Value(U)
  <2>1. Good(U, Table(U))
    BY <1>3, <1>8
  <2>2. CASE U = {}
    <3>1. h[U] = base
      BY <2>2
    <3> HIDE DEF Table, h
    <3>2. Table(U)[U] = base
      BY <2>1, <2>2, TableAt
    <3>3. QED
      BY <3>1, <3>2
  <2>3. CASE U # {}
    <3> DEFINE V == U \ {Max(U)}
    <3>1. V \in SUBSET T /\ V # T /\ V \in SUBSET U
      BY <1>6, <2>3
    <3>2. Good(V, Table(V)) /\ IsFiniteSet(V) /\ V \subseteq Nat
      BY <1>3, <3>1
    <3>3. h[U] = step[U][Value(V)]
      BY <2>3
    <3> HIDE DEF h, V, Table
    <3>4. Table(U)[U] = step[U][Table(U)[V]]
      <4>1. IsTable(Table(U), U, base, step)
        BY <2>1
      <4>2. U \in SUBSET U
        OBVIOUS
      <4>3. QED
        BY <4>1, <2>3, <4>2, TableAt DEF V, Steps
    <3>5. Table(U)[V] = Table(V)[V]
      <4> DEFINE a == Table(U)
                 b == Table(V)
      <4>1. IsTable(a, U, base, step) /\ IsTable(b, V, base, step)
        BY <2>1, <3>2
      <4>2. Steps(a, U, step)
        <5> HIDE DEF a
        <5>1. QED
          BY <4>1, TableAt
      <4>3. Steps(b, V, step)
        <5> HIDE DEF b
        <5>1. QED
          BY <4>1, TableAt
      <4>4. a[{}] = b[{}]
        <5> HIDE DEF a, b
        <5>1. QED
          BY <4>1, TableAt
      <4> HIDE DEF a, b
      <4>5. Parallel(a, b, V)
        <5>1. \A s \in SUBSET V : s \in SUBSET U
          BY <3>1
        <5>2. QED
          BY <4>2, <4>3, <5>1 DEF Steps, Parallel
      <4>6. a[V] = b[V]
        BY <4>4, <4>5, <3>2, TablesAgree
      <4>7. QED
        BY <4>6 DEF a, b
    <3>6. QED
      BY <3>3, <3>4, <3>5
  <2>4. QED
    BY <2>2, <2>3
<1>9. Good(T, h)
  <2>1. ASSUME NEW s \in SUBSET T
        PROVE  h[s] = IF s = {} THEN base ELSE step[s][h[s \ {Max(s)}]]
    <3>1. CASE s = {}
      BY <3>1
    <3>2. CASE s # {}
      <4>1. h[s] = step[s][Value(s \ {Max(s)})]
        BY <3>2
      <4>2. h[s \ {Max(s)}] = Value(s \ {Max(s)})
        BY <1>6, <1>8, <3>2
      <4> HIDE DEF h, Value
      <4>3. QED
        BY <3>2, <4>1, <4>2
    <3>3. QED
      BY <3>1, <3>2
  <2>2. h = [s \in SUBSET T |-> h[s]]
    <3>1. \A f : (\E g : f = [s \in SUBSET T |-> g[s]]) => f = [s \in SUBSET T |-> f[s]]
      OBVIOUS
    <3>2. DOMAIN h = SUBSET T
      OBVIOUS
    <3>3. h \in [SUBSET T -> {h[s] : s \in SUBSET T}]
      <4>1. h \in [SUBSET T -> {IF s = {} THEN base ELSE step[s][Value(s \ {Max(s)})] : s \in SUBSET T}]
        <5> HIDE DEF Value
        <5>1. QED
          OBVIOUS
      <4> HIDE DEF h, Value
      <4>2. QED
        BY <4>1
    <3> HIDE DEF h
    <3>4. QED
      BY <3>3
  <2>3. h \in [SUBSET T -> Acc]
    <3>1. \A s \in SUBSET T : h[s] \in Acc
      BY <1>7
    <3> HIDE DEF h
    <3>2. QED
      BY <3>1, <2>2
  <2> HIDE DEF h
  <2>4. IsTable(h, T, base, step)
    BY <2>1, <2>2 DEF IsTable
  <2>5. QED
    BY <2>3, <2>4
<1>10. QED
  <2> HIDE DEF h, Good
  <2>1. T \notin Bad
    BY <1>9
  <2>2. QED
    BY <2>1

\* What holds of the base and is kept by each step holds of the fold.
Keeps(Q, D, Acc, step) ==
  \A s \in SUBSET D, v \in Acc :
    s # {} /\ Max(s) \in s /\ (\A y \in s : y <= Max(s)) /\ <<s \ {Max(s)}, v>> \in Q
      => <<s, step[s][v]>> \in Q

\* What holds of the base and is kept by every step holds of the fold.
LEMMA TableInduct ==
  ASSUME NEW D, D \subseteq Nat, IsFiniteSet(D), NEW Acc, NEW base, NEW step,
         NEW h \in [SUBSET D -> Acc], IsTable(h, D, base, step),
         NEW Q, <<{}, base>> \in Q, Keeps(Q, D, Acc, step)
  PROVE  <<D, h[D]>> \in Q
<1> DEFINE Bad == {s \in SUBSET D : <<s, h[s]>> \notin Q}
<1>1. SUFFICES ASSUME Bad # {}
               PROVE  FALSE
  <2>1. D \in SUBSET D
    OBVIOUS
  <2>2. QED
    BY <2>1
<1>2. PICK s \in Bad : \A t \in Bad : t \subseteq s => t = s
  <2>1. IsFamily(Bad, D)
    BY <1>1 DEF IsFamily
  <2> HIDE DEF Bad
  <2>2. PICK s : IsMinimal(s, Bad)
    BY <2>1, MinimalMember
  <2>3. QED
    BY <2>2 DEF IsMinimal
<1>3. s \in SUBSET D /\ IsFiniteSet(s) /\ s \subseteq Nat /\ <<s, h[s]>> \notin Q
  BY FS_Subset
<1>4. s # {}
  <2>1. h[{}] = base
    BY TableAt
  <2>2. QED
    BY <1>3, <2>1
<1>5. Max(s) \in s /\ \A y \in s : y <= Max(s)
  BY <1>3, <1>4, MaxIn
<1> DEFINE t == s \ {Max(s)}
<1>6. h[s] = step[s][h[t]]
  <2>1. Steps(h, D, step)
    BY TableAt
  <2>2. QED
    BY <1>3, <1>4, <2>1 DEF Steps
<1>7. t \in SUBSET D /\ t \notin Bad
  BY <1>2, <1>3, <1>5
<1>8. <<t, h[t]>> \in Q /\ h[t] \in Acc
  BY <1>7
<1> HIDE DEF t
<1>9. <<s, step[s][h[t]]>> \in Q
  BY <1>3, <1>4, <1>5, <1>8 DEF t, Keeps
<1>10. QED
  BY <1>3, <1>6, <1>9

-----------------------------------------------------------------------------
(* Queues of requests: sequences without duplicates.                         *)

\* q is a queue of exactly the requests of S.
IsQueue(q, S) == q \in Seq(Request) /\ IsInjective(q) /\ ToSet(q) = S

\* What a queue is, by its positions.
LEMMA QueueFacts ==
  ASSUME NEW q, NEW S, IsQueue(q, S)
  PROVE  /\ Len(q) \in Nat /\ DOMAIN q = 1 .. Len(q)
         /\ \A i \in 1 .. Len(q) : q[i] \in S /\ q[i] \in Request
         /\ \A i, j \in 1 .. Len(q) : q[i] = q[j] => i = j
         /\ \A x \in S : \E i \in 1 .. Len(q) : q[i] = x
         /\ S \subseteq Request
<1>1. Len(q) \in Nat /\ DOMAIN q = 1 .. Len(q)
  BY LenProperties DEF IsQueue
<1>2. \A i \in 1 .. Len(q) : q[i] \in S /\ q[i] \in Request
  BY <1>1, ElementOfSeq DEF IsQueue, ToSet
<1>3. \A i, j \in 1 .. Len(q) : q[i] = q[j] => i = j
  BY <1>1 DEF IsQueue, IsInjective
<1>4. \A x \in S : \E i \in 1 .. Len(q) : q[i] = x
  BY <1>1 DEF IsQueue, ToSet
<1>5. QED
  BY <1>1, <1>2, <1>3, <1>4

\* A sequence whose positions are those of a queue.
LEMMA QueueBy ==
  ASSUME NEW q \in Seq(Request), NEW S,
         \A i \in 1 .. Len(q) : q[i] \in S,
         \A i, j \in 1 .. Len(q) : q[i] = q[j] => i = j,
         \A x \in S : \E i \in 1 .. Len(q) : q[i] = x
  PROVE  IsQueue(q, S)
<1>1. Len(q) \in Nat /\ DOMAIN q = 1 .. Len(q)
  BY LenProperties
<1>2. ToSet(q) = S
  BY <1>1 DEF ToSet
<1>3. IsInjective(q)
  BY <1>1 DEF IsInjective
<1>4. QED
  BY <1>2, <1>3 DEF IsQueue

\* The empty queue, and a queue of nothing.
LEMMA EmptyQueue ==
  /\ IsQueue(<<>>, {})
  /\ \A q : IsQueue(q, {}) => q = <<>>
<1>1. <<>> \in Seq(Request) /\ Len(<<>>) = 0
  BY EmptySeq
<1>2. IsQueue(<<>>, {})
  <2> DEFINE e == <<>>
  <2>1. e \in Seq(Request) /\ \A i \in 1 .. Len(e) : FALSE
    BY <1>1
  <2> HIDE DEF e
  <2>2. IsQueue(e, {})
    BY <2>1, QueueBy
  <2>3. QED
    BY <2>2 DEF e
<1>3. ASSUME NEW q, IsQueue(q, {}) PROVE q = <<>>
  <2>1. q \in Seq(Request)
    BY <1>3 DEF IsQueue
  <2>2. Len(q) \in Nat /\ \A i \in 1 .. Len(q) : q[i] \in {}
    BY <1>3, QueueFacts
  <2>3. Len(q) = 0
    <3>1. Len(q) # 0 => 1 \in 1 .. Len(q)
      BY <2>2
    <3>2. QED
      BY <2>2, <3>1
  <2>4. QED
    BY <2>1, <2>3
<1>4. QED
  BY <1>2, <1>3

\* One more at the end.
LEMMA AppendQueue ==
  ASSUME NEW q, NEW S, IsQueue(q, S), NEW r \in Request, r \notin S
  PROVE  IsQueue(Append(q, r), S \union {r})
<1> DEFINE a == Append(q, r)
<1>1. q \in Seq(Request)
  BY DEF IsQueue
<1>2. /\ a \in Seq(Request) /\ Len(a) = Len(q) + 1
      /\ \A i \in 1 .. Len(q) : a[i] = q[i]
      /\ a[Len(q) + 1] = r
  BY <1>1, AppendProperties
<1>3. /\ Len(q) \in Nat
      /\ \A i \in 1 .. Len(q) : q[i] \in S
      /\ \A i, j \in 1 .. Len(q) : q[i] = q[j] => i = j
      /\ \A x \in S : \E i \in 1 .. Len(q) : q[i] = x
  BY QueueFacts
<1> HIDE DEF a
<1>4. \A i \in 1 .. Len(a) : i = Len(q) + 1 \/ i \in 1 .. Len(q)
  BY <1>2, <1>3
<1>5. \A i \in 1 .. Len(a) : a[i] \in S \union {r}
  BY <1>2, <1>3, <1>4
<1>6. \A i, j \in 1 .. Len(a) : a[i] = a[j] => i = j
  BY <1>2, <1>3, <1>4
<1>7. \A x \in S \union {r} : \E i \in 1 .. Len(a) : a[i] = x
  <2>1. Len(q) + 1 \in 1 .. Len(a) /\ \A i \in 1 .. Len(q) : i \in 1 .. Len(a)
    BY <1>2, <1>3
  <2>2. QED
    BY <2>1, <1>2, <1>3
<1>8. IsQueue(a, S \union {r})
  BY <1>2, <1>5, <1>6, <1>7, QueueBy
<1>9. QED
  BY <1>8 DEF a

\* A queue of one.
LEMMA SingleQueue ==
  ASSUME NEW r \in Request
  PROVE  IsQueue(<<r>>, {r})
<1>1. <<r>> \in Seq(Request) /\ Len(<<r>>) = 1 /\ <<r>>[1] = r
  OBVIOUS
<1>2. \A i \in 1 .. 1 : i = 1
  OBVIOUS
<1>3. 1 \in 1 .. 1
  OBVIOUS
<1> DEFINE q == <<r>>
<1>4. q \in Seq(Request) /\ Len(q) = 1 /\ q[1] = r
  BY <1>1
<1> HIDE DEF q
<1>5. IsQueue(q, {r})
  BY <1>2, <1>3, <1>4, QueueBy
<1>6. QED
  BY <1>5 DEF q

\* One behind the other.
LEMMA ConcatQueue ==
  ASSUME NEW p, NEW S, IsQueue(p, S), NEW q, NEW T, IsQueue(q, T), S \intersect T = {}
  PROVE  IsQueue(p \o q, S \union T)
<1> DEFINE c == p \o q
<1>1. p \in Seq(Request) /\ q \in Seq(Request)
  BY DEF IsQueue
<1>2. /\ c \in Seq(Request) /\ Len(c) = Len(p) + Len(q)
      /\ \A i \in 1 .. Len(p) + Len(q) : c[i] = IF i <= Len(p) THEN p[i] ELSE q[i - Len(p)]
  BY <1>1, ConcatProperties
<1>3. /\ Len(p) \in Nat
      /\ \A i \in 1 .. Len(p) : p[i] \in S
      /\ \A i, j \in 1 .. Len(p) : p[i] = p[j] => i = j
      /\ \A x \in S : \E i \in 1 .. Len(p) : p[i] = x
  BY QueueFacts
<1>4. /\ Len(q) \in Nat
      /\ \A i \in 1 .. Len(q) : q[i] \in T
      /\ \A i, j \in 1 .. Len(q) : q[i] = q[j] => i = j
      /\ \A x \in T : \E i \in 1 .. Len(q) : q[i] = x
  BY QueueFacts
<1> HIDE DEF c
<1>5. \A i \in 1 .. Len(c) : \/ i \in 1 .. Len(p) /\ c[i] = p[i] /\ c[i] \in S
                             \/ i - Len(p) \in 1 .. Len(q) /\ c[i] = q[i - Len(p)] /\ c[i] \in T
  BY <1>2, <1>3, <1>4
<1>6. \A i, j \in 1 .. Len(c) : c[i] = c[j] => i = j
  <2> SUFFICES ASSUME NEW i \in 1 .. Len(c), NEW j \in 1 .. Len(c), c[i] = c[j]
               PROVE  i = j
    OBVIOUS
  <2>1. CASE c[i] \in S
    <3>1. i \in 1 .. Len(p) /\ j \in 1 .. Len(p) /\ p[i] = p[j]
      BY <1>5, <2>1
    <3>2. QED
      BY <3>1, <1>3
  <2>2. CASE c[i] \notin S
    <3>1. /\ i - Len(p) \in 1 .. Len(q) /\ j - Len(p) \in 1 .. Len(q)
          /\ q[i - Len(p)] = q[j - Len(p)]
      BY <1>5, <2>2
    <3>2. i - Len(p) = j - Len(p)
      BY <3>1, <1>4
    <3>3. QED
      BY <3>2, <1>3
  <2>3. QED
    BY <2>1, <2>2
<1>7. \A x \in S \union T : \E i \in 1 .. Len(c) : c[i] = x
  <2>1. ASSUME NEW x \in S PROVE \E i \in 1 .. Len(c) : c[i] = x
    <3>1. PICK i \in 1 .. Len(p) : p[i] = x
      BY <1>3
    <3>2. i \in 1 .. Len(c) /\ c[i] = x
      BY <3>1, <1>2, <1>3, <1>4
    <3>3. QED
      BY <3>2
  <2>2. ASSUME NEW x \in T PROVE \E i \in 1 .. Len(c) : c[i] = x
    <3>1. PICK i \in 1 .. Len(q) : q[i] = x
      BY <1>4
    <3>2. Len(p) + i \in 1 .. Len(c) /\ ~(Len(p) + i <= Len(p)) /\ (Len(p) + i) - Len(p) = i
      BY <1>2, <1>3, <1>4
    <3>3. c[Len(p) + i] = x
      BY <3>1, <3>2, <1>2
    <3>4. QED
      BY <3>2, <3>3
  <2>3. QED
    BY <2>1, <2>2
<1>8. \A i \in 1 .. Len(c) : c[i] \in S \union T
  BY <1>5
<1>9. IsQueue(c, S \union T)
  BY <1>2, <1>6, <1>7, <1>8, QueueBy
<1>10. QED
  BY <1>9 DEF c

\* Without the first.
LEMMA TailQueue ==
  ASSUME NEW q, NEW S, IsQueue(q, S), q # <<>>
  PROVE  /\ Head(q) \in S /\ Head(q) \in Request
         /\ IsQueue(Tail(q), S \ {Head(q)})
<1> DEFINE t == Tail(q)
           h == Head(q)
<1>1. q \in Seq(Request)
  BY DEF IsQueue
<1>2. /\ t \in Seq(Request) /\ Len(t) = Len(q) - 1
      /\ \A i \in 1 .. Len(t) : t[i] = q[i + 1]
  BY <1>1, HeadTailProperties
<1>3. /\ Len(q) \in Nat
      /\ \A i \in 1 .. Len(q) : q[i] \in S /\ q[i] \in Request
      /\ \A i, j \in 1 .. Len(q) : q[i] = q[j] => i = j
      /\ \A x \in S : \E i \in 1 .. Len(q) : q[i] = x
  BY QueueFacts
<1>4. Len(q) # 0
  BY <1>1, EmptySeq
<1>5. h = q[1] /\ 1 \in 1 .. Len(q)
  BY <1>1, <1>3, <1>4
<1> HIDE DEF t, h
<1>6. \A i \in 1 .. Len(t) : i + 1 \in 1 .. Len(q) /\ i + 1 # 1
  BY <1>2, <1>3
<1>7. \A i \in 1 .. Len(t) : t[i] \in S \ {h}
  BY <1>2, <1>3, <1>5, <1>6
<1>8. \A i, j \in 1 .. Len(t) : t[i] = t[j] => i = j
  <2> SUFFICES ASSUME NEW i \in 1 .. Len(t), NEW j \in 1 .. Len(t), t[i] = t[j]
               PROVE  i = j
    OBVIOUS
  <2>1. i + 1 = j + 1
    BY <1>2, <1>3, <1>6
  <2>2. QED
    BY <2>1, <1>2, <1>3
<1>9. \A x \in S \ {h} : \E i \in 1 .. Len(t) : t[i] = x
  <2> SUFFICES ASSUME NEW x \in S, x # h PROVE \E i \in 1 .. Len(t) : t[i] = x
    OBVIOUS
  <2>1. PICK k \in 1 .. Len(q) : q[k] = x
    BY <1>3
  <2>2. k - 1 \in 1 .. Len(t) /\ (k - 1) + 1 = k
    BY <2>1, <1>2, <1>3, <1>5
  <2>3. t[k - 1] = x
    BY <2>1, <2>2, <1>2
  <2>4. QED
    BY <2>2, <2>3
<1>10. IsQueue(t, S \ {h})
  BY <1>2, <1>7, <1>8, <1>9, QueueBy
<1>11. QED
  BY <1>3, <1>5, <1>10 DEF t, h

-----------------------------------------------------------------------------
(* The folds of the scheduler.                                               *)

\* The table Only looks its value up in.
OnlyTable(it, queue, S) ==
  it = [s \in SUBSET DOMAIN queue |->
          IF s = {} THEN <<>>
          ELSE IF queue[Max(s)] \in S THEN Append(it[s \ {Max(s)}], queue[Max(s)])
               ELSE it[s \ {Max(s)}]]

\* Only reads its value from the table of its fold.
LEMMA OnlyLooksUp ==
  ASSUME NEW queue, NEW S
  PROVE  Only(queue, S) = (CHOOSE it : OnlyTable(it, queue, S))[DOMAIN queue]
BY DEF Only, FoldLeft, MapThenFoldSet, OnlyTable

\* What Only leaves of a queue is a queue of the requests of S it had.
LEMMA OnlyQueue ==
  ASSUME NEW queue, NEW T, IsQueue(queue, T), NEW S
  PROVE  IsQueue(Only(queue, S), T \intersect S)
<1> DEFINE D == DOMAIN queue
           Acc == Seq(Request)
           step == [s \in SUBSET D |-> [v \in Acc |->
                      IF queue[Max(s)] \in S THEN Append(v, queue[Max(s)]) ELSE v]]
           Got(s) == {queue[i] : i \in s} \intersect S
           Q == {x \in (SUBSET D) \X Acc : IsQueue(x[2], Got(x[1]))}
<1>1. /\ D = 1 .. Len(queue) /\ Len(queue) \in Nat
      /\ \A i \in D : queue[i] \in T /\ queue[i] \in Request
      /\ \A i, j \in D : queue[i] = queue[j] => i = j
      /\ \A x \in T : \E i \in D : queue[i] = x
  BY QueueFacts
<1>2. D \subseteq Nat /\ IsFiniteSet(D)
  BY <1>1, FS_Interval
<1> HIDE DEF D
<1>3. ASSUME NEW s \in SUBSET D, s # {}
      PROVE  Max(s) \in s /\ s \ {Max(s)} \in SUBSET D /\ queue[Max(s)] \in Request
  BY <1>1, <1>2, <1>3, MaxIn, FS_Subset
<1>4. <<>> \in Acc
  OBVIOUS
<1>5. \A s \in SUBSET D, v \in Acc :
        step[s][v] = IF queue[Max(s)] \in S THEN Append(v, queue[Max(s)]) ELSE v
  OBVIOUS
<1> DEFINE stepc == [s \in SUBSET D |-> [v \in Acc |-> IF s = {} THEN v ELSE step[s][v]]]
<1>6. /\ \A s \in SUBSET D, v \in Acc : stepc[s][v] \in Acc
      /\ \A s \in SUBSET D, v \in Acc : s # {} =>
           stepc[s][v] = IF queue[Max(s)] \in S THEN Append(v, queue[Max(s)]) ELSE v
  <2> SUFFICES ASSUME NEW s \in SUBSET D, NEW v \in Acc
               PROVE  /\ stepc[s][v] \in Acc
                      /\ s # {} => stepc[s][v] = IF queue[Max(s)] \in S THEN Append(v, queue[Max(s)]) ELSE v
    OBVIOUS
  <2>1. stepc[s][v] = IF s = {} THEN v ELSE step[s][v]
    OBVIOUS
  <2> HIDE DEF stepc, step
  <2>2. s # {} => Append(v, queue[Max(s)]) \in Acc
    BY <1>3, AppendProperties
  <2>3. QED
    BY <2>1, <2>2, <1>5
<1> HIDE DEF stepc, step
<1>7. PICK h \in [SUBSET D -> Acc] : IsTable(h, D, <<>>, stepc)
  BY <1>2, <1>4, <1>6, TableExists
<1>8. h[{}] = <<>> /\ Steps(h, D, stepc)
  BY <1>7, TableAt
<1>9. <<D, h[D]>> \in Q
  <2>1. <<{}, <<>>>> \in Q
    BY EmptyQueue, <1>4
  <2>2. Keeps(Q, D, Acc, stepc)
    <3> SUFFICES ASSUME NEW s \in SUBSET D, NEW v \in Acc, s # {}, Max(s) \in s,
                        <<s \ {Max(s)}, v>> \in Q
                 PROVE  <<s, stepc[s][v]>> \in Q
      BY DEF Keeps
    <3> DEFINE m == Max(s)
               t == s \ {m}
    <3>1. IsQueue(v, Got(t))
      OBVIOUS
    <3>2. m \in D /\ m \notin t /\ s = t \union {m} /\ t \subseteq D
      OBVIOUS
    <3>3. stepc[s][v] \in Acc
      BY <1>6
    <3>4. stepc[s][v] = IF queue[m] \in S THEN Append(v, queue[m]) ELSE v
      BY <1>6
    <3> HIDE DEF m, t
    <3>5. queue[m] \in Request /\ queue[m] \notin Got(t)
      BY <3>2, <1>1
    <3>6. IsQueue(stepc[s][v], Got(s))
      <4>1. CASE queue[m] \in S
        <5>1. IsQueue(Append(v, queue[m]), Got(t) \union {queue[m]})
          BY <3>1, <3>5, AppendQueue
        <5>2. Got(s) = Got(t) \union {queue[m]}
          BY <3>2, <4>1
        <5>3. QED
          BY <5>1, <5>2, <3>4, <4>1
      <4>2. CASE queue[m] \notin S
        <5>1. Got(s) = Got(t)
          BY <3>2, <4>2
        <5>2. QED
          BY <5>1, <3>4, <3>1, <4>2
      <4>3. QED
        BY <4>1, <4>2
    <3>7. QED
      BY <3>3, <3>6
  <2> HIDE DEF Q, Acc
  <2>3. QED
    BY <2>1, <2>2, <1>2, <1>7, TableInduct
<1>10. OnlyTable(h, queue, S)
  <2>1. \A s \in SUBSET D : h[s] =
          IF s = {} THEN <<>>
          ELSE IF queue[Max(s)] \in S THEN Append(h[s \ {Max(s)}], queue[Max(s)])
               ELSE h[s \ {Max(s)}]
    BY <1>3, <1>6, <1>8 DEF Steps
  <2>2. h = [s \in SUBSET D |-> h[s]]
    BY <1>7
  <2>3. h = [s \in SUBSET D |->
          IF s = {} THEN <<>>
          ELSE IF queue[Max(s)] \in S THEN Append(h[s \ {Max(s)}], queue[Max(s)])
               ELSE h[s \ {Max(s)}]]
    BY <2>1, <2>2
  <2>4. QED
    BY <2>3 DEF OnlyTable, D
<1> DEFINE it == CHOOSE it : OnlyTable(it, queue, S)
<1>11. OnlyTable(it, queue, S)
  BY <1>10
<1> HIDE DEF it
<1>12. it[D] = h[D]
  <2>1. \A s \in SUBSET D : it[s] =
          IF s = {} THEN <<>>
          ELSE IF queue[Max(s)] \in S THEN Append(it[s \ {Max(s)}], queue[Max(s)])
               ELSE it[s \ {Max(s)}]
    BY <1>11 DEF OnlyTable, D
  <2>2. \A s \in SUBSET D : h[s] =
          IF s = {} THEN <<>>
          ELSE IF queue[Max(s)] \in S THEN Append(h[s \ {Max(s)}], queue[Max(s)])
               ELSE h[s \ {Max(s)}]
    BY <1>10 DEF OnlyTable, D
  <2>3. {} \in SUBSET D
    OBVIOUS
  <2>4. it[{}] = h[{}]
    BY <2>1, <2>2, <2>3
  <2>5. Parallel(it, h, D)
    BY <2>1, <2>2 DEF Parallel
  <2>6. QED
    BY <1>2, <2>4, <2>5, TablesAgree
<1>13. Only(queue, S) = h[D]
  BY <1>12, OnlyLooksUp DEF it, D
<1>14. IsQueue(h[D], Got(D))
  BY <1>9
<1>15. Got(D) = T \intersect S
  BY <1>1
<1>16. QED
  BY <1>13, <1>14, <1>15

\* One inserted before position k.
LEMMA InsertPositions ==
  ASSUME NEW q \in Seq(Request), NEW k \in 1 .. Len(q), NEW r \in Request
  PROVE  /\ InsertAt(q, k, r) \in Seq(Request)
         /\ Len(InsertAt(q, k, r)) = Len(q) + 1
         /\ \A i \in 1 .. (Len(q) + 1) :
              InsertAt(q, k, r)[i] = IF i < k THEN q[i] ELSE IF i = k THEN r ELSE q[i - 1]
<1> DEFINE n == Len(q)
           front == SubSeq(q, 1, k - 1)
           back == SubSeq(q, k, n)
           mid == <<r>>
           fm == front \o mid
           e == fm \o back
<1>1. n \in Nat /\ k \in 1 .. n /\ \A i \in 1 .. n : q[i] \in Request
  BY LenProperties, ElementOfSeq
<1>2. /\ front \in Seq(Request) /\ Len(front) = k - 1
      /\ \A i \in 1 .. (k - 1) : front[i] = q[i]
  <2>1. \A i \in 1 .. (k - 1) : q[i] \in Request
    BY <1>1
  <2>2. /\ front \in Seq(Request) /\ Len(front) = IF 1 <= k - 1 THEN (k - 1) - 1 + 1 ELSE 0
        /\ \A i \in 1 .. ((k - 1) - 1 + 1) : front[i] = q[1 + i - 1]
    BY <1>1, <2>1, SubSeqProperties
  <2> HIDE DEF front, n
  <2>3. Len(front) = k - 1
    BY <2>2, <1>1
  <2>4. ASSUME NEW i \in 1 .. (k - 1) PROVE front[i] = q[i]
    <3>1. i \in 1 .. ((k - 1) - 1 + 1) /\ 1 + i - 1 = i
      BY <1>1
    <3>2. QED
      BY <3>1, <2>2
  <2>5. QED
    BY <2>2, <2>3, <2>4
<1>3. /\ back \in Seq(Request) /\ Len(back) = n - k + 1
      /\ \A i \in 1 .. (n - k + 1) : back[i] = q[k + i - 1]
  <2>1. \A i \in k .. n : q[i] \in Request
    BY <1>1
  <2>2. /\ back \in Seq(Request) /\ Len(back) = IF k <= n THEN n - k + 1 ELSE 0
        /\ \A i \in 1 .. (n - k + 1) : back[i] = q[k + i - 1]
    BY <1>1, <2>1, SubSeqProperties
  <2> HIDE DEF back, n
  <2>3. QED
    BY <2>2, <1>1
<1>4. mid \in Seq(Request) /\ Len(mid) = 1 /\ mid[1] = r
  OBVIOUS
<1> HIDE DEF front, back, mid, n
<1>5. /\ fm \in Seq(Request) /\ Len(fm) = k
      /\ \A i \in 1 .. k : fm[i] = IF i < k THEN q[i] ELSE r
  <2>1. /\ fm \in Seq(Request) /\ Len(fm) = Len(front) + Len(mid)
        /\ \A i \in 1 .. Len(front) + Len(mid) :
             fm[i] = IF i <= Len(front) THEN front[i] ELSE mid[i - Len(front)]
    BY <1>2, <1>4, ConcatProperties
  <2> HIDE DEF fm
  <2>2. Len(fm) = k
    BY <2>1, <1>1, <1>2, <1>4
  <2>3. ASSUME NEW i \in 1 .. k PROVE fm[i] = IF i < k THEN q[i] ELSE r
    <3>1. i \in 1 .. Len(front) + Len(mid)
      BY <2>1, <2>2
    <3>2. CASE i < k
      <4>1. i <= Len(front) /\ i \in 1 .. (k - 1)
        BY <3>2, <1>1, <1>2
      <4>2. QED
        BY <4>1, <3>1, <3>2, <2>1, <1>2
    <3>3. CASE ~(i < k)
      <4>1. i = k /\ ~(i <= Len(front)) /\ i - Len(front) = 1
        BY <3>3, <1>1, <1>2
      <4>2. QED
        BY <4>1, <3>1, <3>3, <2>1, <1>4
    <3>4. QED
      BY <3>2, <3>3
  <2>4. QED
    BY <2>1, <2>2, <2>3
<1> HIDE DEF fm
<1>6. /\ e \in Seq(Request) /\ Len(e) = Len(fm) + Len(back)
      /\ \A i \in 1 .. Len(fm) + Len(back) :
           e[i] = IF i <= Len(fm) THEN fm[i] ELSE back[i - Len(fm)]
  BY <1>3, <1>5, ConcatProperties
<1> HIDE DEF e
<1>7. Len(e) = n + 1
  BY <1>1, <1>3, <1>5, <1>6
<1>8. ASSUME NEW i \in 1 .. (n + 1)
      PROVE  e[i] = IF i < k THEN q[i] ELSE IF i = k THEN r ELSE q[i - 1]
  <2>1. i \in 1 .. Len(fm) + Len(back)
    BY <1>6, <1>7
  <2>2. CASE i <= k
    <3>1. i \in 1 .. k
      BY <2>2, <1>1
    <3>2. QED
      BY <3>1, <2>1, <2>2, <1>1, <1>5, <1>6
  <2>3. CASE ~(i <= k)
    <3>1. i - k \in 1 .. (n - k + 1) /\ k + (i - k) - 1 = i - 1 /\ ~(i < k) /\ i # k
      BY <2>3, <1>1
    <3>2. back[i - k] = q[k + (i - k) - 1]
      BY <3>1, <1>3
    <3>3. e[i] = back[i - k]
      BY <2>1, <2>3, <1>5, <1>6
    <3>4. QED
      BY <3>1, <3>2, <3>3
  <2>4. QED
    BY <2>2, <2>3
<1>9. e = InsertAt(q, k, r)
  BY DEF e, fm, front, mid, back, n, InsertAt
<1>10. QED
  BY <1>6, <1>7, <1>8, <1>9 DEF n

\* InsertAt adds one request to a queue.
LEMMA InsertQueue ==
  ASSUME NEW q, NEW S, IsQueue(q, S), NEW k \in 1 .. Len(q), NEW r \in Request, r \notin S
  PROVE  IsQueue(InsertAt(q, k, r), S \union {r})
<1> DEFINE e == InsertAt(q, k, r)
           n == Len(q)
<1>1. q \in Seq(Request)
  BY DEF IsQueue
<1>2. /\ e \in Seq(Request) /\ Len(e) = n + 1
      /\ \A i \in 1 .. (n + 1) : e[i] = IF i < k THEN q[i] ELSE IF i = k THEN r ELSE q[i - 1]
  BY <1>1, InsertPositions
<1>3. /\ n \in Nat
      /\ \A i \in 1 .. n : q[i] \in S
      /\ \A i, j \in 1 .. n : q[i] = q[j] => i = j
      /\ \A x \in S : \E i \in 1 .. n : q[i] = x
  BY QueueFacts
<1>4. k \in 1 .. n
  OBVIOUS
<1> HIDE DEF e, n
<1> DEFINE At(i) == IF i < k THEN i ELSE i - 1
<1>5. ASSUME NEW i \in 1 .. Len(e)
      PROVE  \/ i = k /\ e[i] = r
             \/ i # k /\ At(i) \in 1 .. n /\ e[i] = q[At(i)] /\ e[i] \in S
  <2>1. CASE i = k
    BY <2>1, <1>2, <1>4, <1>3
  <2>2. CASE i < k
    <3>1. i \in 1 .. n /\ e[i] = q[i]
      BY <2>2, <1>2, <1>3, <1>4
    <3>2. QED
      BY <3>1, <2>2, <1>3, <1>4
  <2>3. CASE i > k
    <3>1. i - 1 \in 1 .. n /\ e[i] = q[i - 1]
      BY <2>3, <1>2, <1>3, <1>4
    <3>2. QED
      BY <3>1, <2>3, <1>3, <1>4
  <2>4. QED
    BY <2>1, <2>2, <2>3, <1>2, <1>3, <1>4
<1>6. \A i, j \in 1 .. Len(e) : e[i] = e[j] => i = j
  <2> SUFFICES ASSUME NEW i \in 1 .. Len(e), NEW j \in 1 .. Len(e), e[i] = e[j] PROVE i = j
    OBVIOUS
  <2>1. CASE i = k \/ j = k
    BY <2>1, <1>5
  <2>2. CASE i # k /\ j # k
    <3>1. At(i) \in 1 .. n /\ At(j) \in 1 .. n /\ q[At(i)] = q[At(j)]
      <4> HIDE DEF At
      <4>1. QED
        BY <1>5, <2>2
    <3>2. At(i) = At(j)
      <4> HIDE DEF At
      <4>1. QED
        BY <3>1, <1>3
    <3>3. QED
      BY <3>2, <2>2, <1>2, <1>3, <1>4
  <2>3. QED
    BY <2>1, <2>2
<1>7. \A x \in S \union {r} : \E i \in 1 .. Len(e) : e[i] = x
  <2>1. k \in 1 .. Len(e) /\ e[k] = r
    BY <1>2, <1>3, <1>4
  <2>2. ASSUME NEW x \in S PROVE \E i \in 1 .. Len(e) : e[i] = x
    <3>1. PICK j \in 1 .. n : q[j] = x
      BY <1>3
    <3>2. CASE j < k
      <4>1. j \in 1 .. Len(e) /\ e[j] = x
        BY <3>1, <3>2, <1>2, <1>3, <1>4
      <4>2. QED
        BY <4>1
    <3>3. CASE ~(j < k)
      <4>1. j + 1 \in 1 .. (n + 1) /\ ~(j + 1 < k) /\ j + 1 # k /\ (j + 1) - 1 = j
        BY <3>1, <3>3, <1>3, <1>4
      <4>2. e[j + 1] = x
        BY <4>1, <3>1, <1>2
      <4>3. QED
        BY <4>1, <4>2, <1>2
    <3>4. QED
      BY <3>2, <3>3
  <2>3. QED
    BY <2>1, <2>2
<1>8. \A i \in 1 .. Len(e) : e[i] \in S \union {r}
  <2> HIDE DEF At
  <2>1. QED
    BY <1>5
<1>9. IsQueue(e, S \union {r})
  BY <1>2, <1>6, <1>7, <1>8, QueueBy
<1>10. QED
  BY <1>9 DEF e

\* Enqueue puts the request at the end or before another.
LEMMA EnqueueForms ==
  ASSUME NEW q \in Seq(Request), NEW r \in Request
  PROVE  \/ Enqueue(q, r) = Append(q, r)
         \/ \E k \in 1 .. Len(q) : Enqueue(q, r) = InsertAt(q, k, r)
<1> DEFINE I == {i \in 1 .. Len(q) : HigherPriority(r, q[i])}
           found == SelectInSeq(q, LAMBDA s : HigherPriority(r, s))
           behind == IF setup.priority THEN found ELSE 0
<1>1. found = IF I # {} THEN Min(I) ELSE 0
  BY DEF SelectInSeq
<1>2. Len(q) \in Nat
  BY LenProperties
<1>3. behind = 0 \/ behind \in 1 .. Len(q)
  <2>1. I # {} => Min(I) \in I
    <3>1. I \subseteq Nat
      BY <1>2
    <3> HIDE DEF I
    <3>2. QED
      BY <3>1, MinIn
  <2>2. I \subseteq 1 .. Len(q)
    OBVIOUS
  <2> HIDE DEF I, found
  <2>3. QED
    BY <2>1, <2>2, <1>1
<1>4. Enqueue(q, r) = IF behind = 0 THEN Append(q, r) ELSE InsertAt(q, behind, r)
  BY DEF Enqueue
<1> HIDE DEF behind
<1>5. QED
  BY <1>3, <1>4

\* Enqueue yields a sequence of requests.
LEMMA EnqueueSeq ==
  ASSUME NEW q \in Seq(Request), NEW r \in Request
  PROVE  Enqueue(q, r) \in Seq(Request)
<1>1. CASE Enqueue(q, r) = Append(q, r)
  BY <1>1, AppendProperties
<1>2. CASE \E k \in 1 .. Len(q) : Enqueue(q, r) = InsertAt(q, k, r)
  BY <1>2, InsertPositions
<1>3. QED
  BY <1>1, <1>2, EnqueueForms

\* Enqueue adds the one request, wherever it puts it.
LEMMA EnqueueQueue ==
  ASSUME NEW q, NEW S, IsQueue(q, S), NEW r \in Request, r \notin S
  PROVE  IsQueue(Enqueue(q, r), S \union {r})
<1>1. q \in Seq(Request)
  BY DEF IsQueue
<1>2. CASE Enqueue(q, r) = Append(q, r)
  BY <1>2, AppendQueue
<1>3. CASE \E k \in 1 .. Len(q) : Enqueue(q, r) = InsertAt(q, k, r)
  BY <1>3, InsertQueue
<1>4. QED
  BY <1>1, <1>2, <1>3, EnqueueForms

\* The table of the fold that puts queue p back into base.
AgainTable(it, base, p) ==
  it = [s \in SUBSET DOMAIN p |->
          IF s = {} THEN base ELSE Enqueue(it[s \ {Max(s)}], p[Max(s)])]

\* Putting requests back reads its value from the table of its fold.
LEMMA AgainLooksUp ==
  ASSUME NEW base, NEW p
  PROVE  FoldLeft(Enqueue, base, p) = (CHOOSE it : AgainTable(it, base, p))[DOMAIN p]
BY DEF FoldLeft, MapThenFoldSet, AgainTable

\* Requests put back one by one join those that are there.
LEMMA AgainQueue ==
  ASSUME NEW base, NEW A, IsQueue(base, A), NEW p, NEW B, IsQueue(p, B), A \intersect B = {}
  PROVE  IsQueue(FoldLeft(Enqueue, base, p), A \union B)
<1> DEFINE D == DOMAIN p
           Acc == Seq(Request)
           step == [s \in SUBSET D |-> [v \in Acc |->
                      IF s = {} THEN v ELSE Enqueue(v, p[Max(s)])]]
           Got(s) == A \union {p[i] : i \in s}
           Q == {x \in (SUBSET D) \X Acc : IsQueue(x[2], Got(x[1]))}
<1>1. /\ D = 1 .. Len(p) /\ Len(p) \in Nat
      /\ \A i \in D : p[i] \in B /\ p[i] \in Request
      /\ \A i, j \in D : p[i] = p[j] => i = j
      /\ \A x \in B : \E i \in D : p[i] = x
  BY QueueFacts
<1>2. D \subseteq Nat /\ IsFiniteSet(D)
  BY <1>1, FS_Interval
<1> HIDE DEF D
<1>3. ASSUME NEW s \in SUBSET D, s # {}
      PROVE  Max(s) \in s /\ s \ {Max(s)} \in SUBSET D /\ p[Max(s)] \in Request
  BY <1>1, <1>2, <1>3, MaxIn, FS_Subset
<1>4. base \in Acc
  BY DEF IsQueue
<1>5. /\ \A s \in SUBSET D, v \in Acc : step[s][v] \in Acc
      /\ \A s \in SUBSET D, v \in Acc : s # {} => step[s][v] = Enqueue(v, p[Max(s)])
  <2> SUFFICES ASSUME NEW s \in SUBSET D, NEW v \in Acc
               PROVE  /\ step[s][v] \in Acc
                      /\ s # {} => step[s][v] = Enqueue(v, p[Max(s)])
    OBVIOUS
  <2>1. step[s][v] = IF s = {} THEN v ELSE Enqueue(v, p[Max(s)])
    OBVIOUS
  <2> HIDE DEF step
  <2>2. s # {} => Enqueue(v, p[Max(s)]) \in Acc
    BY <1>3, EnqueueSeq
  <2>3. QED
    BY <2>1, <2>2
<1> HIDE DEF step
<1>6. PICK h \in [SUBSET D -> Acc] : IsTable(h, D, base, step)
  BY <1>2, <1>4, <1>5, TableExists
<1>7. h[{}] = base /\ Steps(h, D, step)
  BY <1>6, TableAt
<1>8. <<D, h[D]>> \in Q
  <2>1. <<{}, base>> \in Q
    <3>1. Got({}) = A
      OBVIOUS
    <3> HIDE DEF Got
    <3>2. QED
      BY <3>1, <1>4
  <2>2. Keeps(Q, D, Acc, step)
    <3> SUFFICES ASSUME NEW s \in SUBSET D, NEW v \in Acc, s # {}, Max(s) \in s,
                        <<s \ {Max(s)}, v>> \in Q
                 PROVE  <<s, step[s][v]>> \in Q
      BY DEF Keeps
    <3> DEFINE m == Max(s)
               t == s \ {m}
    <3>1. IsQueue(v, Got(t))
      OBVIOUS
    <3>2. m \in D /\ m \notin t /\ s = t \union {m} /\ t \subseteq D
      OBVIOUS
    <3>3. step[s][v] \in Acc
      BY <1>5
    <3>4. step[s][v] = Enqueue(v, p[m])
      BY <1>5
    <3> HIDE DEF m, t
    <3>5. p[m] \in Request /\ p[m] \notin Got(t)
      BY <3>2, <1>1
    <3>6. IsQueue(step[s][v], Got(s))
      <4>1. IsQueue(Enqueue(v, p[m]), Got(t) \union {p[m]})
        BY <3>1, <3>5, EnqueueQueue
      <4>2. Got(s) = Got(t) \union {p[m]}
        BY <3>2
      <4>3. QED
        BY <4>1, <4>2, <3>4
    <3>7. QED
      BY <3>3, <3>6
  <2> HIDE DEF Q, Acc
  <2>3. QED
    BY <2>1, <2>2, <1>2, <1>6, TableInduct
<1>9. AgainTable(h, base, p)
  <2>1. \A s \in SUBSET D : h[s] =
          IF s = {} THEN base ELSE Enqueue(h[s \ {Max(s)}], p[Max(s)])
    BY <1>3, <1>5, <1>7 DEF Steps
  <2>2. h = [s \in SUBSET D |-> h[s]]
    BY <1>6
  <2>3. h = [s \in SUBSET D |->
               IF s = {} THEN base ELSE Enqueue(h[s \ {Max(s)}], p[Max(s)])]
    BY <2>1, <2>2
  <2>4. QED
    BY <2>3 DEF AgainTable, D
<1> DEFINE it == CHOOSE it : AgainTable(it, base, p)
<1>10. AgainTable(it, base, p)
  BY <1>9
<1> HIDE DEF it
<1>11. it[D] = h[D]
  <2>1. \A s \in SUBSET D : it[s] =
          IF s = {} THEN base ELSE Enqueue(it[s \ {Max(s)}], p[Max(s)])
    BY <1>10 DEF AgainTable, D
  <2>2. \A s \in SUBSET D : h[s] =
          IF s = {} THEN base ELSE Enqueue(h[s \ {Max(s)}], p[Max(s)])
    BY <1>9 DEF AgainTable, D
  <2>3. {} \in SUBSET D
    OBVIOUS
  <2>4. it[{}] = h[{}]
    BY <2>1, <2>2, <2>3
  <2>5. Parallel(it, h, D)
    BY <2>1, <2>2 DEF Parallel
  <2>6. QED
    BY <1>2, <2>4, <2>5, TablesAgree
<1>12. FoldLeft(Enqueue, base, p) = h[D]
  BY <1>11, AgainLooksUp DEF it, D
<1>13. IsQueue(h[D], Got(D))
  BY <1>8
<1>14. Got(D) = A \union B
  BY <1>1
<1>15. QED
  BY <1>12, <1>13, <1>14

\* The table of the fold that admits decode-ready requests.
Ready0 == [in |-> <<>>, room |-> DecodeRoom]
ReadyTable(it) ==
  it = [s \in SUBSET DOMAIN waiting |->
          IF s = {} THEN Ready0 ELSE AdmitNext(it[s \ {Max(s)}], waiting[Max(s)])]

\* DecodeReady reads its value from the table of its fold.
LEMMA ReadyLooksUp ==
  DecodeReady = (CHOOSE it : ReadyTable(it))[DOMAIN waiting].in
BY DEF DecodeReady, FoldLeft, MapThenFoldSet, ReadyTable, Ready0

\* What is admitted to decode is waiting and past its prefill.
LEMMA ReadyQueue ==
  ASSUME NEW W, IsQueue(waiting, W), DecodeRoom \in Int,
         \A r \in Request : DecodeNeed(r) \in Int
  PROVE  \E S \in SUBSET W : IsQueue(DecodeReady, S) /\ \A r \in S : ~IsPrefill(r)
<1> DEFINE D == DOMAIN waiting
           Acc == [in : Seq(Request), room : Int]
           step == [s \in SUBSET D |-> [v \in Acc |->
                      IF s = {} THEN v ELSE AdmitNext(v, waiting[Max(s)])]]
           Good(q, s) == \E S \in SUBSET {waiting[i] : i \in s} :
                           IsQueue(q, S) /\ \A r \in S : ~IsPrefill(r)
           Q == {x \in (SUBSET D) \X Acc : Good(x[2].in, x[1])}
<1>1. /\ D = 1 .. Len(waiting) /\ Len(waiting) \in Nat
      /\ \A i \in D : waiting[i] \in W /\ waiting[i] \in Request
      /\ \A i, j \in D : waiting[i] = waiting[j] => i = j
      /\ \A x \in W : \E i \in D : waiting[i] = x
  BY QueueFacts
<1>2. D \subseteq Nat /\ IsFiniteSet(D)
  BY <1>1, FS_Interval
<1> HIDE DEF D
<1>3. ASSUME NEW s \in SUBSET D, s # {}
      PROVE  Max(s) \in s /\ s \ {Max(s)} \in SUBSET D /\ waiting[Max(s)] \in Request
  BY <1>1, <1>2, <1>3, MaxIn, FS_Subset
<1>4. Ready0 \in Acc
  BY DEF Ready0
<1>5. ASSUME NEW v \in Acc, NEW r \in Request
      PROVE  \/ AdmitNext(v, r) = v
             \/ /\ ~IsPrefill(r)
                /\ AdmitNext(v, r) = [in |-> Append(v.in, r), room |-> v.room - DecodeNeed(r)]
                /\ AdmitNext(v, r) \in Acc /\ AdmitNext(v, r).in = Append(v.in, r)
  <2>1. Append(v.in, r) \in Seq(Request)
    BY AppendProperties
  <2>2. v.room - DecodeNeed(r) \in Int
    OBVIOUS
  <2>3. QED
    BY <2>1, <2>2 DEF AdmitNext
<1>6. /\ \A s \in SUBSET D, v \in Acc : step[s][v] \in Acc
      /\ \A s \in SUBSET D, v \in Acc : s # {} => step[s][v] = AdmitNext(v, waiting[Max(s)])
  <2> SUFFICES ASSUME NEW s \in SUBSET D, NEW v \in Acc
               PROVE  /\ step[s][v] \in Acc
                      /\ s # {} => step[s][v] = AdmitNext(v, waiting[Max(s)])
    OBVIOUS
  <2>1. step[s][v] = IF s = {} THEN v ELSE AdmitNext(v, waiting[Max(s)])
    OBVIOUS
  <2> HIDE DEF step
  <2>2. s # {} => AdmitNext(v, waiting[Max(s)]) \in Acc
    <3> HIDE DEF Acc
    <3>1. QED
      BY <1>3, <1>5
  <2>3. QED
    BY <2>1, <2>2
<1> HIDE DEF step
<1>7. PICK h \in [SUBSET D -> Acc] : IsTable(h, D, Ready0, step)
  <2> HIDE DEF Acc
  <2>1. QED
    BY <1>2, <1>4, <1>6, TableExists
<1>8. h[{}] = Ready0 /\ Steps(h, D, step)
  BY <1>7, TableAt
<1>9. <<D, h[D]>> \in Q
  <2>1. <<{}, Ready0>> \in Q
    <3>1. Ready0.in = <<>>
      BY DEF Ready0
    <3>2. Good(<<>>, {})
      BY EmptyQueue
    <3> HIDE DEF Good
    <3>3. QED
      BY <3>1, <3>2, <1>4
  <2>2. Keeps(Q, D, Acc, step)
    <3> SUFFICES ASSUME NEW s \in SUBSET D, NEW v \in Acc, s # {}, Max(s) \in s,
                        <<s \ {Max(s)}, v>> \in Q
                 PROVE  <<s, step[s][v]>> \in Q
      BY DEF Keeps
    <3> DEFINE m == Max(s)
               t == s \ {m}
               r == waiting[m]
    <3>1. Good(v.in, t)
      OBVIOUS
    <3>2. m \in D /\ m \notin t /\ s = t \union {m} /\ t \subseteq D
      OBVIOUS
    <3>3. step[s][v] \in Acc
      BY <1>6
    <3>4. step[s][v] = AdmitNext(v, r)
      BY <1>6
    <3> HIDE DEF m, t
    <3>5. r \in Request /\ r \notin {waiting[i] : i \in t}
      BY <3>2, <1>1
    <3>6. PICK S \in SUBSET {waiting[i] : i \in t} :
            IsQueue(v.in, S) /\ \A x \in S : ~IsPrefill(x)
      BY <3>1
    <3>7. S \subseteq {waiting[i] : i \in s} /\ r \in {waiting[i] : i \in s}
      BY <3>2
    <3>8. Good(step[s][v].in, s)
      <4>1. CASE AdmitNext(v, r) = v
        BY <4>1, <3>4, <3>6, <3>7
      <4>2. CASE ~IsPrefill(r) /\ AdmitNext(v, r).in = Append(v.in, r)
        <5> HIDE DEF r
        <5>1. IsQueue(Append(v.in, r), S \union {r})
          BY <3>5, <3>6, AppendQueue
        <5>2. S \union {r} \in SUBSET {waiting[i] : i \in s}
          BY <3>7
        <5>3. \A x \in S \union {r} : ~IsPrefill(x)
          BY <3>6, <4>2
        <5>4. Good(Append(v.in, r), s)
          BY <5>1, <5>2, <5>3
        <5> HIDE DEF Good
        <5>5. QED
          BY <5>4, <3>4, <4>2
      <4>3. QED
        <5> HIDE DEF Acc, r, Good
        <5>1. QED
          BY <4>1, <4>2, <1>5, <3>5
    <3> HIDE DEF Good, Acc
    <3>9. QED
      BY <3>3, <3>8
  <2> HIDE DEF Q, Acc
  <2>3. QED
    BY <2>1, <2>2, <1>2, <1>7, TableInduct
<1>10. ReadyTable(h)
  <2>1. \A s \in SUBSET D : h[s] =
          IF s = {} THEN Ready0 ELSE AdmitNext(h[s \ {Max(s)}], waiting[Max(s)])
    <3> HIDE DEF Acc
    <3>1. QED
      BY <1>3, <1>6, <1>8 DEF Steps
  <2>2. h = [s \in SUBSET D |-> h[s]]
    BY <1>7
  <2>3. h = [s \in SUBSET D |->
               IF s = {} THEN Ready0 ELSE AdmitNext(h[s \ {Max(s)}], waiting[Max(s)])]
    BY <2>1, <2>2
  <2>4. QED
    BY <2>3 DEF ReadyTable, D
<1> DEFINE it == CHOOSE it : ReadyTable(it)
<1>11. ReadyTable(it)
  BY <1>10
<1> HIDE DEF it
<1>12. it[D] = h[D]
  <2>1. \A s \in SUBSET D : it[s] =
          IF s = {} THEN Ready0 ELSE AdmitNext(it[s \ {Max(s)}], waiting[Max(s)])
    BY <1>11 DEF ReadyTable, D
  <2>2. \A s \in SUBSET D : h[s] =
          IF s = {} THEN Ready0 ELSE AdmitNext(h[s \ {Max(s)}], waiting[Max(s)])
    BY <1>10 DEF ReadyTable, D
  <2>3. {} \in SUBSET D
    OBVIOUS
  <2>4. it[{}] = h[{}]
    BY <2>1, <2>2, <2>3
  <2>5. Parallel(it, h, D)
    BY <2>1, <2>2 DEF Parallel
  <2>6. QED
    BY <1>2, <2>4, <2>5, TablesAgree
<1>13. DecodeReady = h[D].in
  BY <1>12, ReadyLooksUp DEF it, D
<1>14. Good(h[D].in, D)
  BY <1>9
<1>15. {waiting[i] : i \in D} \subseteq W
  BY <1>1
<1>16. PICK S \in SUBSET {waiting[i] : i \in D} :
         IsQueue(h[D].in, S) /\ \A r \in S : ~IsPrefill(r)
  BY <1>14
<1>17. S \in SUBSET W
  BY <1>15
<1>18. QED
  BY <1>13, <1>16, <1>17

-----------------------------------------------------------------------------
(* Blocks and the pool.                                                      *)

\* The constants.
LEMMA Positive ==
  /\ BlockSize \in Nat \ {0} /\ NumBlocks \in Nat \ {0} /\ MaxBatchedTokens \in Nat \ {0}
  /\ PrefillChunkCap \in Nat \ {0} /\ MaxSeqs \in Nat \ {0}
  /\ Requests \in Nat /\ Request \subseteq Nat /\ IsFiniteSet(Request)
<1>1. Requests \in Nat
  BY CapacityAssumption
<1>2. IsFiniteSet(Request)
  BY <1>1, FS_Interval DEF Request
<1>3. QED
  BY <1>1, <1>2, CapacityAssumption DEF Request

\* n tokens fit in Blocks(n) blocks and in no fewer.
LEMMA BlocksLeast ==
  ASSUME NEW n \in Int
  PROVE  /\ Blocks(n) \in Nat
         /\ n <= Blocks(n) * BlockSize
         /\ \A k \in Nat : n <= k * BlockSize => Blocks(n) <= k
<1> DEFINE b == BlockSize
           x == n + b - 1
           q == x \div b
           m == x % b
<1>1. b \in Nat \ {0}
  BY Positive
<1>2. CASE n <= 0
  <2>1. Blocks(n) = 0
    BY <1>2 DEF Blocks
  <2>2. QED
    BY <2>1, <1>1, <1>2
<1>3. CASE n > 0
  <2>1. Blocks(n) = q
    BY <1>3 DEF Blocks
  <2>2. x \in Nat
    BY <1>1, <1>3
  <2>3. q \in Nat /\ m \in Nat /\ m < b /\ x = b * q + m
    <3> HIDE DEF x, b
    <3>1. QED
      BY <1>1, <2>2, DivMod
  <2>4. n + b - 1 = b * q + m
    BY <2>3
  <2> HIDE DEF x, q, m, b
  <2>5. n <= q * b
    BY <2>3, <2>4, <1>1
  <2>6. ASSUME NEW k \in Nat, n <= k * b
        PROVE  q <= k
    <3>1. SUFFICES ASSUME q >= k + 1 PROVE FALSE
      BY <2>3
    <3>2. (k + 1) * b <= q * b
      BY <3>1, <2>3, <1>1
    <3>3. k * b + b <= b * q
      BY <3>2, <2>3, <1>1
    <3>4. QED
      BY <3>3, <2>3, <2>4, <2>6, <1>1
  <2>7. QED
    BY <2>1, <2>3, <2>5, <2>6 DEF b
<1>4. QED
  BY <1>2, <1>3

\* More tokens take no fewer blocks.
LEMMA BlocksMonotone ==
  ASSUME NEW m \in Int, NEW n \in Int, m <= n
  PROVE  Blocks(m) <= Blocks(n)
<1>1. /\ Blocks(n) \in Nat /\ n <= Blocks(n) * BlockSize
  BY BlocksLeast
<1>2. Blocks(n) * BlockSize \in Nat
  BY <1>1, Positive
<1>3. m <= Blocks(n) * BlockSize
  BY <1>1, <1>2
<1>4. QED
  BY <1>1, <1>3, BlocksLeast

\* An empty handle and no handle have no block.
LEMMA BlocksNone == Blocks(0) = 0 /\ Blocks(NoKV) = 0
BY DEF Blocks, NoKV

\* The chunk that FitChunk grants is no longer than wanted, and the blocks it
\* needs beyond the open one are among the free ones.
LEMMA FitChunkFits ==
  ASSUME NEW held \in Nat, NEW want \in Int, NEW free \in Int
  PROVE  /\ FitChunk(held, want, free) \in Int
         /\ FitChunk(held, want, free) > 0 => FitChunk(held, want, free) <= want
         /\ free >= 0 => MoreBlocks(held, FitChunk(held, want, free)) <= free
<1> DEFINE b == BlockSize
           u == IF held > 0 THEN held % b ELSE 0
           room == IF u = 0 THEN 0 ELSE b - u
           c == FitChunk(held, want, free)
<1>1. b \in Nat \ {0}
  BY Positive
<1>2. u \in Nat /\ u < b /\ \E k \in Nat : held = b * k + u
  <2>1. CASE held > 0
    <3>1. u = held % b /\ held \in Nat
      BY <2>1
    <3>2. b \in Nat /\ b > 0
      BY <1>1
    <3> HIDE DEF b, u
    <3>3. /\ held % b \in Nat /\ held % b < b /\ held \div b \in Nat
          /\ held = b * (held \div b) + (held % b)
      BY <3>1, <3>2, DivMod, Zenon
    <3>4. QED
      BY <3>1, <3>3
  <2>2. CASE ~(held > 0)
    <3>1. held = b * 0 + 0 /\ u = 0
      BY <2>2, <1>1
    <3>2. QED
      BY <3>1, <1>1
  <2>3. QED
    BY <2>1, <2>2
<1>3. room \in Nat
  <2> HIDE DEF u
  <2>1. QED
    BY <1>1, <1>2
<1>4. c = IF want <= 0 THEN 0 ELSE Least(want, room + free * b)
  BY DEF FitChunk
<1>5. free * b \in Int
  BY <1>1
<1>6. c \in Int /\ (c > 0 => c <= want) /\ (c > 0 => c <= room + free * b)
  <2> HIDE DEF room, u, c
  <2>1. QED
    BY <1>3, <1>4, <1>5 DEF Least
<1>7. PICK k \in Nat : held + room = k * b /\ held <= k * b
  <2>1. PICK j \in Nat : held = b * j + u
    BY <1>2
  <2>2. CASE u = 0
    <3>1. held + room = j * b
      BY <2>1, <2>2, <1>1
    <3>2. QED
      BY <3>1, <1>3
  <2>3. CASE u # 0
    <3>1. room = b - u
      BY <2>3
    <3> HIDE DEF u, room
    <3>2. held + room = (j + 1) * b
      BY <2>1, <3>1, <1>1, <1>2
    <3>3. j + 1 \in Nat /\ held <= (j + 1) * b
      BY <3>2, <1>3, <1>1
    <3>4. QED
      BY <3>2, <3>3
  <2>4. QED
    BY <2>2, <2>3
<1>8. Blocks(held) = k
  <2>1. Blocks(held) <= k /\ Blocks(held) \in Nat /\ held <= Blocks(held) * b
    BY <1>7, BlocksLeast
  <2>2. SUFFICES ASSUME Blocks(held) + 1 <= k PROVE FALSE
    BY <2>1
  <2> DEFINE l == Blocks(held)
  <2>3. l \in Nat /\ l + 1 <= k /\ held <= l * b
    BY <2>1, <2>2
  <2> HIDE DEF l
  <2>4. (l + 1) * b <= k * b
    BY <2>3, <1>1
  <2>5. l * b + b <= held + room
    BY <2>3, <2>4, <1>1, <1>7
  <2>6. room < b
    <3> HIDE DEF u
    <3>1. QED
      BY <1>1, <1>2
  <2>7. l * b \in Int
    BY <2>3, <1>1
  <2> HIDE DEF room, u
  <2>8. QED
    BY <2>3, <2>5, <2>6, <2>7, <1>1, <1>3
<1>9. ASSUME free >= 0
      PROVE  MoreBlocks(held, c) <= free
  <2> HIDE DEF c, room, u
  <2>1. CASE c > 0
    <3>1. held + c <= k * b + free * b
      BY <2>1, <1>5, <1>6, <1>7, <1>3, <1>1
    <3>2. k * b + free * b = (k + free) * b /\ k + free \in Nat
      BY <1>9, <1>1
    <3>3. Blocks(held + c) <= k + free
      BY <3>1, <3>2, <1>6, BlocksLeast DEF b
    <3>4. Blocks(held + c) \in Nat
      BY <1>6, BlocksLeast
    <3>5. QED
      BY <3>3, <3>4, <1>8 DEF MoreBlocks
  <2>2. CASE c <= 0
    <3>1. Blocks(held + c) <= Blocks(held)
      BY <2>2, <1>6, BlocksMonotone
    <3>2. Blocks(held + c) \in Nat /\ Blocks(held) \in Nat
      BY <1>6, BlocksLeast
    <3>3. QED
      BY <3>1, <3>2, <1>9 DEF MoreBlocks
  <2>3. QED
    BY <2>1, <2>2, <1>6
<1>10. QED
  BY <1>6, <1>9

-----------------------------------------------------------------------------
\* A sum over requests, and what it says of one request.
LEMMA PoolSum ==
  ASSUME NEW ctx \in [Request -> Int]
  PROVE  /\ FreeIn(ctx) \in Int
         /\ FreeIn(ctx) <= NumBlocks
         /\ \A r \in Request : FreeIn(ctx) <= NumBlocks - Blocks(ctx[r])
<1> DEFINE f == [r \in Request |-> Blocks(ctx[r])]
<1>1. \A r \in Request : f[r] \in Nat
  BY BlocksLeast
<1>2. \A r \in Request : f[r] \in Int
  BY <1>1
<1>3. FreeIn(ctx) = NumBlocks - SumFunctionOnSet(f, Request)
  BY DEF FreeIn, SumOver
<1> HIDE DEF f
<1>4. SumFunctionOnSet(f, Request) \in Nat
  BY <1>1, Positive, SumNat
<1>5. IsFiniteSet(Request)
  BY Positive
<1>6. \A x \in Request : SumFunctionOnSet(f, Request) = f[x] + SumFunctionOnSet(f, Request \ {x})
  BY <1>2, <1>5, SumRemove, SMTT(60)
<1>7. ASSUME NEW r \in Request
      PROVE  f[r] <= SumFunctionOnSet(f, Request)
  <2>1. SumFunctionOnSet(f, Request) = f[r] + SumFunctionOnSet(f, Request \ {r})
    BY <1>6
  <2>2. SumFunctionOnSet(f, Request \ {r}) \in Nat
    <3>1. IsFiniteSet(Request \ {r})
      BY Positive, FS_Subset
    <3>2. QED
      BY <1>1, <3>1, SumNat
  <2>3. QED
    BY <1>1, <2>1, <2>2
<1>8. \A r \in Request : f[r] = Blocks(ctx[r])
  BY DEF f
<1>9. FreeIn(ctx) \in Int /\ FreeIn(ctx) <= NumBlocks
  BY <1>3, <1>4, Positive
<1>10. ASSUME NEW r \in Request
       PROVE  FreeIn(ctx) <= NumBlocks - Blocks(ctx[r])
  <2>1. f[r] <= SumFunctionOnSet(f, Request) /\ f[r] \in Nat /\ f[r] = Blocks(ctx[r])
    BY <1>1, <1>7, <1>8
  <2>2. QED
    BY <2>1, <1>3, <1>4, Positive
<1>11. QED
  BY <1>9, <1>10

\* The pool when one handle changes.
LEMMA PoolChange ==
  ASSUME NEW ctx \in [Request -> Int], NEW new \in [Request -> Int], NEW r \in Request,
         \A s \in Request \ {r} : new[s] = ctx[s]
  PROVE  FreeIn(new) = FreeIn(ctx) - (Blocks(new[r]) - Blocks(ctx[r]))
<1> DEFINE f == [s \in Request |-> Blocks(ctx[s])]
           g == [s \in Request |-> Blocks(new[s])]
<1>1. \A s \in Request : f[s] \in Int /\ g[s] \in Int
  BY BlocksLeast
<1>2. \A s \in Request \ {r} : f[s] = g[s]
  OBVIOUS
<1>3. /\ FreeIn(ctx) = NumBlocks - SumFunctionOnSet(f, Request)
      /\ FreeIn(new) = NumBlocks - SumFunctionOnSet(g, Request)
  BY DEF FreeIn, SumOver
<1>4. f[r] = Blocks(ctx[r]) /\ g[r] = Blocks(new[r])
  OBVIOUS
<1> HIDE DEF f, g
<1>5. SumFunctionOnSet(g, Request) = SumFunctionOnSet(f, Request) + (g[r] - f[r])
  <2>1. IsFiniteSet(Request)
    BY Positive
  <2> HIDE DEF Request
  <2>2. QED
    BY <1>1, <1>2, <2>1, SumChange
<1>6. SumFunctionOnSet(f, Request) \in Int
  BY <1>1, Positive, SumInt
<1>7. QED
  BY <1>1, <1>3, <1>4, <1>5, <1>6, Positive

\* Handles that hold no more leave no fewer blocks free.
LEMMA PoolShrinks ==
  ASSUME NEW ctx \in [Request -> Int], NEW new \in [Request -> Int],
         \A s \in Request : new[s] <= ctx[s]
  PROVE  FreeIn(ctx) <= FreeIn(new)
<1> DEFINE f == [s \in Request |-> Blocks(ctx[s])]
           g == [s \in Request |-> Blocks(new[s])]
<1>1. \A s \in Request : f[s] \in Int /\ g[s] \in Int /\ g[s] <= f[s]
  BY BlocksLeast, BlocksMonotone
<1>2. /\ FreeIn(ctx) = NumBlocks - SumFunctionOnSet(f, Request)
      /\ FreeIn(new) = NumBlocks - SumFunctionOnSet(g, Request)
  BY DEF FreeIn, SumOver
<1> HIDE DEF f, g
<1>3. SumFunctionOnSet(g, Request) <= SumFunctionOnSet(f, Request)
  BY <1>1, Positive, SumBounded
<1>4. SumFunctionOnSet(f, Request) \in Int /\ SumFunctionOnSet(g, Request) \in Int
  BY <1>1, Positive, SumInt
<1>5. QED
  BY <1>2, <1>3, <1>4, Positive

\* Without handles all of the pool is free.
LEMMA PoolFree ==
  ASSUME NEW ctx \in [Request -> Int], \A s \in Request : Blocks(ctx[s]) = 0
  PROVE  FreeIn(ctx) = NumBlocks
<1> DEFINE f == [s \in Request |-> Blocks(ctx[s])]
<1>1. \A s \in Request : f[s] = 0
  OBVIOUS
<1>2. FreeIn(ctx) = NumBlocks - SumFunctionOnSet(f, Request)
  BY DEF FreeIn, SumOver
<1> HIDE DEF f
<1>3. SumFunctionOnSet(f, Request) = 0
  BY <1>1, Positive, SumZero
<1>4. QED
  BY <1>2, <1>3, Positive

\* While the pool is not overdrawn no handle holds more than the pool.
LEMMA WithinCapacity ==
  ASSUME NEW ctx \in [Request -> Int], FreeIn(ctx) >= 0, NEW r \in Request
  PROVE  ctx[r] <= Capacity
<1>1. Blocks(ctx[r]) <= NumBlocks /\ Blocks(ctx[r]) \in Nat /\ ctx[r] <= Blocks(ctx[r]) * BlockSize
  BY PoolSum, BlocksLeast, Positive
<1> DEFINE k == Blocks(ctx[r])
<1>2. k \in Nat /\ k <= NumBlocks /\ ctx[r] <= k * BlockSize
  BY <1>1
<1> HIDE DEF k
<1>3. k * BlockSize <= NumBlocks * BlockSize
  BY <1>2, Positive
<1>4. k * BlockSize \in Int /\ NumBlocks * BlockSize \in Int
  BY <1>2, Positive
<1>5. QED
  BY <1>2, <1>3, <1>4 DEF Capacity

-----------------------------------------------------------------------------
(* The inductive invariant.  What concerns one request is said of the values *)
(* p of its prompt, q of its SequenceState, c of its handle and k of its     *)
(* record.                                                                   *)

Status == {"new", "waiting", "running", "preempted", "suspended"} \union Settled
Progress == [status : Status, computed : Nat, scheduled : Nat, generated : Nat, outputs : Nat,
             recompute : BOOLEAN, next : BOOLEAN, tired : BOOLEAN, stuck : BOOLEAN]
Checkpoint == [seq : Progress, context : Int]
Row == [req : Request, tokens : Nat \ {0}]

Goal(p, q) == p + (IF q.recompute THEN q.outputs ELSE 0)
InPrefill(p, q) == q.computed < Goal(p, q)

\* It has a handle on KV.
Active(q) == q.status \in {"waiting", "running", "preempted"}

\* The counters of a live sequence fit each other.
ShapeOf(p, q) ==
  /\ q.status = "new" => q = NewSeq
  /\ q.scheduled # 0 => q.status = "running"
  /\ q.status = "preempted" => q.computed = 0 /\ q.recompute
  /\ q.recompute => InPrefill(p, q)
  /\ q.outputs <= q.generated
  /\ Active(q) \/ q.status = "suspended" =>
       IF InPrefill(p, q)
       THEN /\ ~q.recompute => q.outputs = 0
            /\ q.computed + q.scheduled <= Goal(p, q)
       ELSE q.next

\* What a handle of c tokens has: what was computed, and n tokens more of a prefill; a
\* decode row has its token already.  Unless some of the f forward passes that
\* failed left slots behind, that is all.
Holds(p, q, c, n, f) ==
  IF InPrefill(p, q)
  THEN c >= q.computed + n /\ (f = 0 => c = q.computed + n)
  ELSE /\ c >= p + q.outputs - 1 + q.scheduled
       /\ f = 0 => c <= p + q.generated - 1 + q.scheduled

\* Active sequences have a handle, and suspended ones a record of what they have.
KVOf(p, q, c, k, n, f) ==
  /\ c # NoKV <=> Active(q)
  /\ Active(q) => Holds(p, q, c, n, f)
  /\ q.status = "suspended" =>
       /\ k.seq.computed = q.computed /\ k.seq.outputs = q.outputs
       /\ k.seq.generated = q.generated
       /\ k.seq.recompute = q.recompute /\ k.seq.next = q.next
       /\ k.context \in Nat /\ Holds(p, q, k.context, 0, f)

\* What a handle has of the tokens that are not processed: the model has reserved
\* them at "sampled".
Extra(r) == IF pc = "sampled" THEN seq[r].scheduled ELSE 0

AllRequestsOK ==
  /\ seq \in [Request -> Progress] /\ context \in [Request -> Int]
  /\ record \in [Request -> Checkpoint]
  /\ \A r \in Request : ShapeOf(setup.prompt[r], seq[r]) /\ context[r] >= NoKV
  /\ aborted = "no" =>
       \A r \in Request :
         KVOf(setup.prompt[r], seq[r], context[r], record[r], Extra(r), failures)

\* Where the loop of the owner thread, and schedule_step within it, may be.
BeforeBatch == {"loop", "cancel", "schedule", "reap", "ready"}
Building == {"decode", "prefill", "admit", "retry", "scheduled"}
Stalled == {"stalled", "reject"}

Types ==
  /\ setup \in Setup
  /\ restored \subseteq Request /\ finished \subseteq Request /\ handles \subseteq Request
  /\ failures \in Nat
  /\ batch \in Seq(Row) /\ decodes \in Nat /\ decodes <= Len(batch)
  /\ budget \in Int /\ freeLeft \in Int /\ idx \in Nat
  /\ pc # "retry" => idx # 0
  /\ moved \in BOOLEAN
  /\ aborted \in {"no", "free", "reserve", "pointer", "front", "lost", "context"}
  /\ pc \in BeforeBatch \union Building \union Stalled \union {"sampled", "publish"}

\* The status of a request says which of the queues w and u it is in, their members
\* being W and R; what leaves running_ by a checkpoint is past its prefill, or
\* leaves at once.
Placed(st, sus, w, u, W, R) ==
  /\ IsQueue(w, W) /\ IsQueue(u, R)
  /\ W \intersect R = {}
  /\ sus = {r \in Request : st[r].status = "suspended"}
  /\ \A r \in W : st[r].status \in {"waiting", "preempted"}
  /\ \A r \in R :
       /\ st[r].status \in {"running", "preempted", "suspended"}
       /\ st[r].status = "suspended" => ~InPrefill(setup.prompt[r], st[r])
  /\ \A r \in Request : Active(st[r]) => r \in W \union R
  /\ \A r \in Request : st[r].status = "suspended" => setup.checkpoint

Homes == Placed(seq, suspended, waiting, running, InWaiting, InRunning)

\* The rows of a batch b are running requests, the d decodes first, each once, and
\* no other request has tokens scheduled.
RowOK(b, d, st, R, i) ==
  LET r == b[i].req
  IN /\ r \in R /\ st[r].status = "running"
     /\ st[r].scheduled = b[i].tokens
     /\ i <= d => ~InPrefill(setup.prompt[r], st[r]) /\ b[i].tokens = 1
     /\ i > d => InPrefill(setup.prompt[r], st[r])

RowsOK(b, d, st, R) ==
  /\ \A i \in 1 .. Len(b) : RowOK(b, d, st, R, i)
  /\ \A i, j \in 1 .. Len(b) : b[i].req = b[j].req => i = j
  /\ \A r \in Request : st[r].scheduled # 0 => \E i \in 1 .. Len(b) : b[i].req = r

BatchOK == RowsOK(batch, decodes, seq, InRunning)

Batches ==
  /\ pc \in BeforeBatch \union Stalled => batch = <<>> /\ decodes = 0
  /\ pc \notin Building \union {"sampled"} => \A r \in Request : seq[r].scheduled = 0
  /\ pc \in Building \union {"sampled"} /\ ~moved => BatchOK
  /\ moved => /\ setup.priority /\ batch # <<>>
              /\ pc \in {"admit", "retry", "scheduled", "sampled"}
              /\ pc = "sampled" => aborted # "no"

\* The loops over running_ have still to visit what they have not scheduled, and
\* admission refers to an element of waiting_, to the first until it preempts.
Loops ==
  /\ pc \in {"ready", "reject"} => \A r \in InRunning : seq[r].status = "running"
  /\ pc = "decode" =>
       /\ decodes = Len(batch)
       /\ \A i \in idx .. Len(running) :
            seq[running[i]].status = "running" /\ seq[running[i]].scheduled = 0
  /\ pc = "prefill" =>
       \A i \in idx .. Len(running) :
         InPrefill(setup.prompt[running[i]], seq[running[i]]) => seq[running[i]].scheduled = 0
  /\ pc = "admit" => idx = 1
  /\ pc = "retry" => setup.priority /\ idx <= Len(waiting)

\* The pool is not overdrawn; under FCFS neither by what the batch will reserve.
Pool ==
  /\ Free >= 0
  /\ ~setup.priority /\ pc \in {"prefill", "admit", "retry", "scheduled"} =>
       freeLeft >= 0 /\ FreeIn(Reserved) = freeLeft

Aborts ==
  /\ aborted # "no" =>
       pc \in {"cancel", "decode", "admit", "retry", "reject", "sampled", "publish"}
  /\ aborted # "lost"
  /\ ProcessSurvives

\* What holds as long as no request was lost, and after one was.
Sound == Types /\ AllRequestsOK /\ Homes /\ Batches /\ Loops /\ Pool /\ Aborts
Lost ==
  /\ aborted = "lost" /\ pc = "admit" /\ setup.priority
  /\ Types /\ AllRequestsOK /\ Free >= 0
  /\ waiting \in Seq(Request) /\ running \in Seq(Request) /\ suspended \subseteq Request

IInv == Sound \/ Lost

-----------------------------------------------------------------------------
(* What happens to one request.                                              *)

\* A sequence that was submitted, one whose KV was dropped, and one that goes on
\* from a record.
Submitted == [NewSeq EXCEPT !.status = "waiting"]
Dropped(q) ==
  [q EXCEPT !.computed = 0, !.scheduled = 0, !.next = FALSE, !.recompute = TRUE,
            !.status = "preempted", !.tired = TRUE, !.stuck = FALSE]
Resumed(k, status, tired) ==
  [[k.seq EXCEPT !.scheduled = 0] EXCEPT !.status = status, !.tired = tired]

\* A new request.
LEMMA NewOK ==
  ASSUME NEW p \in Nat \ {0}
  PROVE  /\ NewSeq \in Progress /\ NewSeq.status = "new" /\ NewSeq.scheduled = 0
         /\ NewSeq.computed = 0 /\ NewSeq.outputs = 0 /\ NewSeq.generated = 0
         /\ NewSeq.recompute = FALSE
         /\ NoRecord \in Checkpoint
         /\ ShapeOf(p, NewSeq)
         /\ \A k, n, f : KVOf(p, NewSeq, NoKV, k, n, f)
<1>1. /\ "new" \in Status /\ NewSeq.status = "new" /\ NewSeq.scheduled = 0
      /\ NewSeq.computed = 0 /\ NewSeq.outputs = 0 /\ NewSeq.generated = 0
      /\ NewSeq.recompute = FALSE
  BY DEF Status, NewSeq
<1>2. NewSeq \in Progress
  BY <1>1 DEF Progress, NewSeq
<1>3. NoRecord \in Checkpoint
  BY <1>2 DEF NoRecord, Checkpoint, NoKV
<1>4. QED
  BY <1>1, <1>2, <1>3 DEF ShapeOf, KVOf, Active

\* A request that ended.
LEMMA EndedOK ==
  ASSUME NEW p \in Nat \ {0}, NEW status \in Settled
  PROVE  /\ Ended(status) \in Progress
         /\ Ended(status).status = status /\ Ended(status).scheduled = 0
         /\ ShapeOf(p, Ended(status))
         /\ \A k, n, f : KVOf(p, Ended(status), NoKV, k, n, f)
<1> DEFINE e == Ended(status)
<1>1. /\ NewSeq \in Progress /\ NewSeq.scheduled = 0 /\ NewSeq.recompute = FALSE
      /\ NewSeq.outputs = 0 /\ NewSeq.generated = 0
  BY NewOK
<1>2. status \in Status /\ status \notin {"new", "waiting", "running", "preempted", "suspended"}
  BY DEF Settled, Status
<1>3. e = [NewSeq EXCEPT !.status = status]
  BY DEF Ended
<1> HIDE DEF e
<1>4. /\ e \in Progress /\ e.status = status /\ e.scheduled = 0 /\ e.recompute = FALSE
      /\ e.outputs = 0 /\ e.generated = 0
  BY <1>1, <1>2, <1>3 DEF Progress
<1>5. ShapeOf(p, e) /\ \A k, n, f : KVOf(p, e, NoKV, k, n, f)
  BY <1>2, <1>4 DEF ShapeOf, KVOf, Active
<1>6. QED
  BY <1>4, <1>5 DEF e

\* One that was submitted.
LEMMA SubmittedOK ==
  ASSUME NEW p \in Nat \ {0}
  PROVE  /\ Submitted \in Progress /\ Submitted.status = "waiting" /\ Submitted.scheduled = 0
         /\ ShapeOf(p, Submitted)
         /\ \A k, f : KVOf(p, Submitted, 0, k, 0, f)
<1> DEFINE q == Submitted
<1>1. /\ NewSeq \in Progress /\ NewSeq.scheduled = 0 /\ NewSeq.recompute = FALSE
      /\ NewSeq.computed = 0 /\ NewSeq.outputs = 0 /\ NewSeq.generated = 0
  BY NewOK
<1>2. q = [NewSeq EXCEPT !.status = "waiting"] /\ "waiting" \in Status
  BY DEF Submitted, Status
<1> HIDE DEF q
<1>3. /\ q \in Progress /\ q.status = "waiting" /\ q.scheduled = 0 /\ q.recompute = FALSE
      /\ q.computed = 0 /\ q.outputs = 0 /\ q.generated = 0
  BY <1>1, <1>2 DEF Progress
<1>4. InPrefill(p, q) /\ Goal(p, q) = p
  BY <1>3 DEF InPrefill, Goal
<1>5. ShapeOf(p, q) /\ \A k, f : KVOf(p, q, 0, k, 0, f)
  BY <1>3, <1>4 DEF ShapeOf, KVOf, Active, Holds, NoKV
<1>6. QED
  BY <1>3, <1>5 DEF q

\* preempt_sequence by recompute.
LEMMA RecomputeOK ==
  ASSUME NEW p \in Nat \ {0}, NEW q \in Progress, ShapeOf(p, q)
  PROVE  /\ Dropped(q) \in Progress /\ Dropped(q).status = "preempted"
         /\ Dropped(q).scheduled = 0 /\ Dropped(q).outputs = q.outputs
         /\ ShapeOf(p, Dropped(q))
         /\ \A k, f : KVOf(p, Dropped(q), 0, k, 0, f)
<1> DEFINE s == Dropped(q)
<1>1. s = [q EXCEPT !.computed = 0, !.scheduled = 0, !.next = FALSE, !.recompute = TRUE,
                    !.status = "preempted", !.tired = TRUE, !.stuck = FALSE]
  BY DEF Dropped
<1> HIDE DEF s
<1>2. s = [status |-> "preempted", computed |-> 0, scheduled |-> 0, generated |-> q.generated,
           outputs |-> q.outputs, recompute |-> TRUE, next |-> FALSE, tired |-> TRUE,
           stuck |-> FALSE]
  BY <1>1 DEF Progress
<1>3. /\ s \in Progress /\ s.status = "preempted"
      /\ s.scheduled = 0 /\ s.outputs = q.outputs
  BY <1>2 DEF Progress, Status
<1>4. q.outputs \in Nat /\ InPrefill(p, s) /\ Goal(p, s) = p + q.outputs
  BY <1>2 DEF InPrefill, Goal, Progress
<1>5. q.outputs <= q.generated
  BY DEF ShapeOf
<1>6. ShapeOf(p, s) /\ \A k, f : KVOf(p, s, 0, k, 0, f)
  BY <1>2, <1>3, <1>4, <1>5 DEF ShapeOf, KVOf, Active, Holds, NoKV
<1>7. QED
  BY <1>3, <1>6 DEF s

\* preempt_sequence by a checkpoint.
LEMMA SaveOK ==
  ASSUME NEW p \in Nat \ {0}, NEW q \in Progress, NEW c \in Int, c >= NoKV, NEW k, NEW f, NEW s, NEW t,
         ShapeOf(p, q), KVOf(p, q, c, k, 0, f), q.scheduled = 0, c # NoKV,
         s = [q EXCEPT !.status = "suspended"], t = [seq |-> q, context |-> c]
  PROVE  /\ s \in Progress /\ s.status = "suspended" /\ s.scheduled = 0 /\ s.outputs = q.outputs
         /\ t \in Checkpoint
         /\ ShapeOf(p, s)
         /\ InPrefill(p, s) <=> InPrefill(p, q)
         /\ \A n : KVOf(p, s, NoKV, t, n, f)
<1>1. s = [status |-> "suspended", computed |-> q.computed, scheduled |-> q.scheduled,
           generated |-> q.generated, outputs |-> q.outputs, recompute |-> q.recompute,
           next |-> q.next, tired |-> q.tired, stuck |-> q.stuck]
  BY DEF Progress
<1>2. s \in Progress
  BY <1>1 DEF Progress, Status
<1>3. (InPrefill(p, s) <=> InPrefill(p, q)) /\ Goal(p, s) = Goal(p, q)
  BY <1>1 DEF InPrefill, Goal
<1>4. Active(q)
  BY DEF KVOf
<1>5. ShapeOf(p, s)
  BY <1>1, <1>3, <1>4 DEF ShapeOf, Progress
<1>6. t \in Checkpoint
  BY DEF Checkpoint
<1>7. t.seq = q /\ t.context = c
  OBVIOUS
<1>8. c \in Nat
  BY DEF NoKV
<1>9. Holds(p, q, c, 0, f)
  BY <1>4 DEF KVOf
<1>10. Holds(p, s, c, 0, f)
  BY <1>1, <1>3, <1>9 DEF Holds
<1>11. \A n : KVOf(p, s, NoKV, t, n, f)
  <2>1. s.status = "suspended" /\ ~Active(s)
    BY <1>1 DEF Active
  <2>2. /\ t.seq.computed = s.computed /\ t.seq.outputs = s.outputs
        /\ t.seq.generated = s.generated
        /\ t.seq.recompute = s.recompute /\ t.seq.next = s.next
    BY <1>1, <1>7
  <2>3. QED
    BY <2>1, <2>2, <1>7, <1>8, <1>10 DEF KVOf
<1>12. QED
  BY <1>1, <1>2, <1>3, <1>5, <1>6, <1>11

\* restore_request: the sequence goes on with what was saved.
LEMMA RestoreOK ==
  ASSUME NEW p \in Nat \ {0}, NEW q \in Progress, NEW c, NEW k \in Checkpoint, NEW f,
         ShapeOf(p, q), KVOf(p, q, c, k, 0, f), q.status = "suspended",
         NEW status \in {"running", "waiting"}, NEW tired \in BOOLEAN, NEW s,
         s = Resumed(k, status, tired)
  PROVE  /\ s \in Progress /\ s.status = status /\ s.scheduled = 0 /\ s.outputs = q.outputs
         /\ s.computed = q.computed /\ s.recompute = q.recompute
         /\ ShapeOf(p, s)
         /\ InPrefill(p, s) <=> InPrefill(p, q)
         /\ k.context \in Nat
         /\ KVOf(p, s, k.context, k, 0, f)
<1>1. k.seq \in Progress
  BY DEF Checkpoint
<1>2. s = [status |-> status, computed |-> k.seq.computed, scheduled |-> 0,
           generated |-> k.seq.generated, outputs |-> k.seq.outputs,
           recompute |-> k.seq.recompute, next |-> k.seq.next, tired |-> tired,
           stuck |-> k.seq.stuck]
  BY <1>1 DEF Progress, Resumed
<1>3. /\ k.seq.computed = q.computed /\ k.seq.outputs = q.outputs
      /\ k.seq.generated = q.generated
      /\ k.seq.recompute = q.recompute /\ k.seq.next = q.next
      /\ k.context \in Nat
      /\ Holds(p, q, k.context, 0, f)
  BY DEF KVOf
<1>4. s \in Progress
  BY <1>1, <1>2 DEF Progress, Status
<1>5. (InPrefill(p, s) <=> InPrefill(p, q)) /\ Goal(p, s) = Goal(p, q)
  BY <1>2, <1>3 DEF InPrefill, Goal
<1>6. Active(s)
  BY <1>2 DEF Active
<1>7. q.computed \in Nat /\ q.outputs \in Nat /\ Goal(p, q) \in Nat /\ q.scheduled \in Nat
  BY DEF Progress, Goal
<1>8. s.status = status /\ s.scheduled = 0 /\ s.computed = q.computed /\ s.outputs = q.outputs
      /\ s.recompute = q.recompute /\ s.next = q.next /\ s.generated = q.generated
  BY <1>2, <1>3
<1>9. ShapeOf(p, s)
  BY <1>5, <1>6, <1>7, <1>8 DEF ShapeOf
<1>10. q.scheduled = 0
  BY DEF ShapeOf
<1>11. Holds(p, s, k.context, 0, f)
  BY <1>3, <1>5, <1>8, <1>10 DEF Holds
<1>12. s.status # "suspended" /\ k.context # NoKV
  BY <1>3, <1>8 DEF NoKV
<1>13. KVOf(p, s, k.context, k, 0, f)
  BY <1>6, <1>11, <1>12 DEF KVOf
<1>14. QED
  BY <1>3, <1>4, <1>5, <1>8, <1>9, <1>13

\* A new step: the marks of this step's preemptions go.
Rest(q) == [q EXCEPT !.tired = FALSE]
\* The reset at the start of a step changes nothing the invariant is about.
LEMMA RestedOK ==
  ASSUME NEW p \in Nat \ {0}, NEW q \in Progress, NEW c, NEW k, NEW f, ShapeOf(p, q)
  PROVE  /\ Rest(q) \in Progress /\ Rest(q).status = q.status
         /\ Rest(q).scheduled = q.scheduled /\ Rest(q).outputs = q.outputs
         /\ ShapeOf(p, Rest(q))
         /\ InPrefill(p, Rest(q)) <=> InPrefill(p, q)
         /\ KVOf(p, q, c, k, 0, f) => KVOf(p, Rest(q), c, k, 0, f)
<1> DEFINE s == Rest(q)
<1>1. s = [q EXCEPT !.tired = FALSE]
  BY DEF Rest
<1> HIDE DEF s
<1>2. /\ s \in Progress /\ s.status = q.status /\ s.scheduled = q.scheduled
      /\ s.outputs = q.outputs /\ s.computed = q.computed /\ s.recompute = q.recompute
      /\ s.next = q.next /\ s.generated = q.generated
  BY <1>1 DEF Progress
<1>3. q = NewSeq => s = NewSeq
  <2>1. s = [status |-> q.status, computed |-> q.computed, scheduled |-> q.scheduled,
             generated |-> q.generated, outputs |-> q.outputs, recompute |-> q.recompute,
             next |-> q.next, tired |-> FALSE, stuck |-> q.stuck]
    BY <1>1 DEF Progress
  <2>2. ASSUME q = NewSeq
        PROVE  /\ q.status = "new" /\ q.computed = 0 /\ q.scheduled = 0 /\ q.outputs = 0
               /\ q.generated = 0 /\ q.recompute = FALSE /\ q.next = FALSE /\ q.stuck = FALSE
    BY <2>2 DEF NewSeq
  <2>3. QED
    BY <2>1, <2>2 DEF NewSeq
<1>4. (InPrefill(p, s) <=> InPrefill(p, q)) /\ Goal(p, s) = Goal(p, q)
  BY <1>2 DEF InPrefill, Goal
<1>5. ShapeOf(p, s)
  BY <1>2, <1>3, <1>4 DEF ShapeOf, Active
<1>6. KVOf(p, q, c, k, 0, f) => KVOf(p, s, c, k, 0, f)
  BY <1>2, <1>4 DEF KVOf, Active, Holds
<1>7. QED
  BY <1>2, <1>4, <1>5, <1>6 DEF s

\* A decode-ready request is admitted.
Run(q) == [q EXCEPT !.status = "running"]
\* A request admitted to running_ keeps its counters and its KV.
LEMMA RunOK ==
  ASSUME NEW p \in Nat \ {0}, NEW q \in Progress, NEW c, NEW k, NEW f, ShapeOf(p, q), Active(q),
         q.scheduled = 0
  PROVE  /\ Run(q) \in Progress /\ Run(q).status = "running"
         /\ Run(q).scheduled = 0 /\ Run(q).outputs = q.outputs
         /\ ShapeOf(p, Run(q))
         /\ KVOf(p, q, c, k, 0, f) => KVOf(p, Run(q), c, k, 0, f)
<1> DEFINE s == Run(q)
<1>1. s = [q EXCEPT !.status = "running"] /\ "running" \in Status
  BY DEF Run, Status
<1> HIDE DEF s
<1>2. /\ s \in Progress /\ s.status = "running" /\ s.scheduled = q.scheduled
      /\ s.outputs = q.outputs /\ s.computed = q.computed /\ s.recompute = q.recompute
      /\ s.next = q.next /\ s.generated = q.generated
  BY <1>1 DEF Progress
<1>3. (InPrefill(p, s) <=> InPrefill(p, q)) /\ Goal(p, s) = Goal(p, q)
  BY <1>2 DEF InPrefill, Goal
<1>4. ShapeOf(p, s)
  BY <1>2, <1>3 DEF ShapeOf, Active
<1>5. KVOf(p, q, c, k, 0, f) => KVOf(p, s, c, k, 0, f)
  BY <1>2, <1>3 DEF KVOf, Active, Holds
<1>6. QED
  BY <1>2, <1>4, <1>5 DEF s

\* A row of the batch: a token of a decoding sequence, a chunk of a prefill.
Rowed(q, n) == [q EXCEPT !.status = "running", !.scheduled = n]
\* What a request given a row is.
LEMMA RowedFields ==
  ASSUME NEW q \in Progress, NEW n \in Nat
  PROVE  /\ Rowed(q, n) \in Progress /\ Rowed(q, n).status = "running"
         /\ Rowed(q, n).scheduled = n /\ Rowed(q, n).outputs = q.outputs
         /\ Rowed(q, n).computed = q.computed /\ Rowed(q, n).recompute = q.recompute
         /\ Rowed(q, n).next = q.next /\ Rowed(q, n).generated = q.generated
<1>1. Rowed(q, n) = [q EXCEPT !.status = "running", !.scheduled = n] /\ "running" \in Status
  BY DEF Rowed, Status
<1> DEFINE s == Rowed(q, n)
<1>2. s = [q EXCEPT !.status = "running", !.scheduled = n]
  BY DEF Rowed
<1> HIDE DEF s
<1>3. /\ s \in Progress /\ s.status = "running" /\ s.scheduled = n
      /\ s.outputs = q.outputs /\ s.computed = q.computed /\ s.recompute = q.recompute
      /\ s.next = q.next /\ s.generated = q.generated
  BY <1>1, <1>2 DEF Progress
<1>4. QED
  BY <1>3 DEF s

\* A decode row is one token: the handle grows by it.
LEMMA DecodeRowOK ==
  ASSUME NEW p \in Nat \ {0}, NEW q \in Progress, NEW c \in Int, NEW k, NEW f, ShapeOf(p, q), Active(q),
         ~InPrefill(p, q), q.scheduled = 0, KVOf(p, q, c, k, 0, f)
  PROVE  /\ ShapeOf(p, Rowed(q, 1))
         /\ ~InPrefill(p, Rowed(q, 1))
         /\ KVOf(p, Rowed(q, 1), c + 1, k, 0, f)
<1> DEFINE s == Rowed(q, 1)
<1>1. /\ s \in Progress /\ s.status = "running" /\ s.scheduled = 1
      /\ s.outputs = q.outputs /\ s.computed = q.computed /\ s.recompute = q.recompute
      /\ s.next = q.next /\ s.generated = q.generated
  BY RowedFields
<1> HIDE DEF s
<1>2. (InPrefill(p, s) <=> InPrefill(p, q)) /\ Goal(p, s) = Goal(p, q)
  BY <1>1 DEF InPrefill, Goal
<1>3. ShapeOf(p, s)
  BY <1>1, <1>2 DEF ShapeOf, Active
<1>4. q.outputs \in Nat /\ q.generated \in Nat
  BY DEF Progress
<1>5. c >= p + q.outputs - 1 /\ (f = 0 => c <= p + q.generated - 1)
  BY <1>4 DEF KVOf, Holds
<1>6. KVOf(p, s, c + 1, k, 0, f)
  BY <1>1, <1>2, <1>4, <1>5 DEF KVOf, Active, Holds, NoKV
<1>7. QED
  BY <1>2, <1>3, <1>6 DEF s

\* A chunk that does not go past the prefill goal keeps the counters in shape.
LEMMA ChunkRowOK ==
  ASSUME NEW p \in Nat \ {0}, NEW q \in Progress, NEW c, NEW k, NEW f, ShapeOf(p, q), Active(q),
         InPrefill(p, q), q.scheduled = 0, NEW n \in Nat, q.computed + n <= Goal(p, q)
  PROVE  /\ ShapeOf(p, Rowed(q, n))
         /\ InPrefill(p, Rowed(q, n))
         /\ KVOf(p, q, c, k, 0, f) => KVOf(p, Rowed(q, n), c, k, 0, f)
<1> DEFINE s == Rowed(q, n)
<1>1. /\ s \in Progress /\ s.status = "running" /\ s.scheduled = n
      /\ s.outputs = q.outputs /\ s.computed = q.computed /\ s.recompute = q.recompute
      /\ s.next = q.next /\ s.generated = q.generated
  BY RowedFields
<1> HIDE DEF s
<1>2. (InPrefill(p, s) <=> InPrefill(p, q)) /\ Goal(p, s) = Goal(p, q)
  BY <1>1 DEF InPrefill, Goal
<1>3. ShapeOf(p, s)
  BY <1>1, <1>2 DEF ShapeOf, Active
<1>4. KVOf(p, q, c, k, 0, f) => KVOf(p, s, c, k, 0, f)
  BY <1>1, <1>2 DEF KVOf, Active, Holds
<1>5. QED
  BY <1>2, <1>3, <1>4 DEF s

\* The model computed the rows: a decode row has one more token, of the output or not,
\* a chunk that does not reach its goal is computed, and one that does has a token.
LEMMA DecodedOK ==
  ASSUME NEW p \in Nat \ {0}, NEW q \in Progress, NEW c \in Int, NEW k, NEW f, ShapeOf(p, q),
         KVOf(p, q, c, k, q.scheduled, f), q.status = "running", ~InPrefill(p, q), q.scheduled = 1,
         NEW s \in Progress, s.status = "running", s.computed = q.computed,
         s.recompute = q.recompute, s.scheduled = 0, s.generated = q.generated + 1,
         s.outputs \in {q.outputs, q.outputs + 1}, s.next = TRUE
  PROVE  ShapeOf(p, s) /\ KVOf(p, s, c, k, 0, f)
<1>1. q.recompute = FALSE /\ s.recompute = FALSE
  BY DEF ShapeOf, Progress
<1>2. ~InPrefill(p, s)
  BY <1>1 DEF InPrefill, Goal
<1>3. q.outputs \in Nat /\ q.generated \in Nat /\ q.outputs <= q.generated
  BY DEF Progress, ShapeOf
<1>4. s.outputs <= s.generated /\ s.outputs \in Nat /\ s.outputs <= q.outputs + 1
  BY <1>3
<1>5. ShapeOf(p, s)
  BY <1>1, <1>2, <1>4 DEF ShapeOf, Active
<1>6. c # NoKV /\ c >= p + q.outputs /\ (f = 0 => c <= p + q.generated)
  BY <1>3 DEF KVOf, Active, Holds
<1>7. Holds(p, s, c, 0, f)
  BY <1>2, <1>3, <1>6, <1>4 DEF Holds
<1>8. QED
  BY <1>5, <1>6, <1>7 DEF KVOf, Active

\* A chunk that ends short of its goal leaves a prefill with the KV it computed.
LEMMA ChunkOK ==
  ASSUME NEW p \in Nat \ {0}, NEW q \in Progress, NEW c \in Int, NEW k, NEW f, ShapeOf(p, q),
         KVOf(p, q, c, k, q.scheduled, f), q.status = "running", InPrefill(p, q),
         q.computed + q.scheduled # Goal(p, q),
         NEW s \in Progress, s.status = "running", s.computed = q.computed + q.scheduled,
         s.recompute = q.recompute, s.scheduled = 0, s.outputs = q.outputs,
         s.generated = q.generated
  PROVE  ShapeOf(p, s) /\ KVOf(p, s, c, k, 0, f)
<1>1. q.computed \in Nat /\ q.scheduled \in Nat /\ q.outputs \in Nat /\ Goal(p, q) \in Nat
  BY DEF Progress, Goal
<1>2. q.computed + q.scheduled < Goal(p, q) /\ (~q.recompute => q.outputs = 0)
  BY <1>1 DEF ShapeOf, Active
<1>3. InPrefill(p, s) /\ Goal(p, s) = Goal(p, q)
  BY <1>1, <1>2 DEF InPrefill, Goal
<1>4. q.outputs <= q.generated
  BY DEF ShapeOf
<1>5. ShapeOf(p, s)
  BY <1>1, <1>2, <1>3, <1>4 DEF ShapeOf, Active
<1>6. c # NoKV /\ Holds(p, q, c, q.scheduled, f)
  BY DEF KVOf, Active
<1>7. Holds(p, s, c, 0, f)
  BY <1>1, <1>3, <1>6 DEF Holds
<1>8. QED
  BY <1>5, <1>6, <1>7 DEF KVOf, Active

\* The chunk that reaches the goal leaves a decode with one more token.
LEMMA PrefilledOK ==
  ASSUME NEW p \in Nat \ {0}, NEW q \in Progress, NEW c \in Int, NEW k, NEW f, ShapeOf(p, q),
         KVOf(p, q, c, k, q.scheduled, f), q.status = "running", InPrefill(p, q),
         q.computed + q.scheduled = Goal(p, q),
         NEW s \in Progress, s.status = "running", s.computed = q.computed + q.scheduled,
         s.recompute = FALSE, s.scheduled = 0, s.generated = q.generated + 1,
         s.outputs \in {q.outputs, q.outputs + 1}, s.next = TRUE
  PROVE  ShapeOf(p, s) /\ KVOf(p, s, c, k, 0, f)
<1>1. q.computed \in Nat /\ q.scheduled \in Nat /\ q.outputs \in Nat /\ Goal(p, q) \in Nat
      /\ q.generated \in Nat /\ q.outputs <= q.generated
  BY DEF Progress, Goal, ShapeOf
<1>2. Goal(p, q) = p + q.outputs
  <2>1. ~q.recompute => q.outputs = 0
    BY DEF ShapeOf, Active
  <2>2. QED
    BY <2>1, <1>1 DEF Goal
<1>3. ~InPrefill(p, s)
  BY <1>1, <1>2 DEF InPrefill, Goal
<1>4. s.outputs <= s.generated /\ s.outputs \in Nat /\ s.outputs <= q.outputs + 1
  BY <1>1
<1>5. ShapeOf(p, s)
  BY <1>3, <1>4 DEF ShapeOf, Active
<1>6. c # NoKV /\ c >= p + q.outputs /\ (f = 0 => c = p + q.outputs)
  BY <1>1, <1>2 DEF KVOf, Active, Holds
<1>7. Holds(p, s, c, 0, f)
  BY <1>1, <1>3, <1>6, <1>4 DEF Holds
<1>8. QED
  BY <1>5, <1>6, <1>7 DEF KVOf, Active

-----------------------------------------------------------------------------
(* What the parts of the invariant say of one request.                       *)

\* What the setup of a run gives each request.
LEMMA SetupFacts ==
  ASSUME setup \in Setup
  PROVE  /\ setup.priority \in BOOLEAN /\ setup.checkpoint \in BOOLEAN
         /\ setup.long \in Nat
         /\ setup.prompt \in [Request -> Nat \ {0}] /\ setup.maxNew \in [Request -> Nat \ {0}]
         /\ setup.rank \in [Request -> Nat] /\ setup.cancels \subseteq Request
         /\ setup.minNew \in [Request -> Nat]
BY SetupAssumption

\* What the invariant says of one request.
LEMMA RequestFacts ==
  ASSUME Types, AllRequestsOK, NEW r \in Request
  PROVE  /\ setup.prompt[r] \in Nat \ {0} /\ setup.maxNew[r] \in Nat \ {0} /\ setup.rank[r] \in Nat
         /\ seq[r] \in Progress /\ context[r] \in Int /\ context[r] >= NoKV
         /\ record[r] \in Checkpoint
         /\ seq[r].computed \in Nat /\ seq[r].scheduled \in Nat /\ seq[r].outputs \in Nat
         /\ seq[r].generated \in Nat
         /\ ShapeOf(setup.prompt[r], seq[r])
         /\ aborted = "no" =>
              KVOf(setup.prompt[r], seq[r], context[r], record[r], Extra(r), failures)
<1>1. setup.prompt[r] \in Nat \ {0} /\ setup.maxNew[r] \in Nat \ {0} /\ setup.rank[r] \in Nat
  BY SetupFacts DEF Types
<1>2. seq[r] \in Progress /\ context[r] \in Int /\ record[r] \in Checkpoint
  BY DEF AllRequestsOK
<1>3. /\ seq[r].computed \in Nat /\ seq[r].scheduled \in Nat /\ seq[r].outputs \in Nat
      /\ seq[r].generated \in Nat
  BY <1>2 DEF Progress
<1>4. QED
  BY <1>1, <1>2, <1>3 DEF AllRequestsOK

\* The scheduler's own measures of a prefill are those of the invariant.
LEMMA PrefillFacts ==
  ASSUME Types, AllRequestsOK, NEW r \in Request
  PROVE  /\ Target(r) = Goal(setup.prompt[r], seq[r]) /\ Target(r) \in Nat
         /\ IsPrefill(r) <=> InPrefill(setup.prompt[r], seq[r])
         /\ Remaining(r) = Goal(setup.prompt[r], seq[r]) - seq[r].computed /\ Remaining(r) \in Int
<1>1. /\ setup.prompt[r] \in Nat \ {0} /\ seq[r] \in Progress
      /\ seq[r].computed \in Nat /\ seq[r].outputs \in Nat
  BY RequestFacts
<1>2. Target(r) = Goal(setup.prompt[r], seq[r]) /\ Target(r) \in Nat
  BY <1>1 DEF Target, Goal
<1>3. QED
  BY <1>1, <1>2 DEF IsPrefill, InPrefill, Remaining

\* A chunk that is wanted is of integer length, and within what remains.
LEMMA WantedFits ==
  ASSUME Types, AllRequestsOK, NEW r \in Request
  PROVE  WantedChunk(r) \in Int /\ WantedChunk(r) <= Remaining(r)
<1>1. Remaining(r) \in Int /\ budget \in Int /\ setup.long \in Nat /\ PrefillChunkCap \in Nat
  BY PrefillFacts, SetupFacts, Positive DEF Types
<1> DEFINE a == Least(Remaining(r), budget)
           b == IF Long(r) THEN Least(PrefillChunkCap, setup.long) ELSE PrefillChunkCap
<1>2. a \in Int /\ a <= Remaining(r)
  BY <1>1 DEF Least
<1>3. b \in Int
  BY <1>1 DEF Least
<1>4. WantedChunk(r) = Least(a, b)
  BY DEF WantedChunk
<1> HIDE DEF a, b
<1>5. QED
  BY <1>1, <1>2, <1>3, <1>4 DEF Least

\* The greater of zero and a number.
LEMMA MaxZero ==
  ASSUME NEW n \in Int
  PROVE  Max({0, n}) \in Nat
<1>1. Max({0, n}) = CHOOSE x \in {0, n} : \A y \in {0, n} : x >= y
  BY DEF Max
<1>2. \E x \in {0, n} : \A y \in {0, n} : x >= y
  <2>1. CASE n <= 0
    BY <2>1
  <2>2. CASE n > 0
    BY <2>2
  <2>3. QED
    BY <2>1, <2>2
<1>3. Max({0, n}) \in {0, n} /\ \A y \in {0, n} : Max({0, n}) >= y
  BY <1>1, <1>2
<1>4. QED
  BY <1>3

\* What decoding sequences will need, and the room that leaves, are numbers.
LEMMA DecodeNumbers ==
  ASSUME Types, AllRequestsOK
  PROVE  /\ Free \in Int
         /\ \A r \in Request : DecodeNeed(r) \in Int
         /\ InRunning \subseteq Request => DecodeRoom \in Int
<1>1. context \in [Request -> Int]
  BY DEF AllRequestsOK
<1>2. Free \in Int
  BY <1>1, PoolSum DEF Free
<1>3. ASSUME NEW r \in Request
      PROVE  DecodeNeed(r) \in Int
  <2>1. /\ setup.maxNew[r] \in Nat /\ seq[r].generated \in Nat /\ context[r] \in Int
    BY RequestFacts
  <2> DEFINE m == Max({0, setup.maxNew[r] - seq[r].generated})
  <2>2. m \in Nat
    BY <2>1, MaxZero
  <2>3. DecodeNeed(r) = IF IsPrefill(r) \/ context[r] = NoKV THEN 0 ELSE MoreBlocks(context[r], m)
    BY DEF DecodeNeed
  <2> HIDE DEF m
  <2>4. MoreBlocks(context[r], m) \in Int
    <3>1. Blocks(context[r] + m) \in Nat /\ Blocks(context[r]) \in Nat
      BY <2>1, <2>2, BlocksLeast
    <3>2. QED
      BY <3>1 DEF MoreBlocks
  <2>5. QED
    BY <2>3, <2>4
<1>4. ASSUME InRunning \subseteq Request
      PROVE  DecodeRoom \in Int
  <2> DEFINE f == [x \in ToSet(running) |-> DecodeNeed(x)]
  <2>1. SumOver(DecodeNeed, ToSet(running)) = SumFunctionOnSet(f, ToSet(running))
    BY DEF SumOver
  <2>2. IsFiniteSet(ToSet(running)) /\ \A x \in ToSet(running) : f[x] \in Int
    BY <1>3, <1>4, Positive, FS_Subset DEF InRunning
  <2> HIDE DEF f
  <2>3. SumFunctionOnSet(f, ToSet(running)) \in Int
    BY <2>2, SumInt
  <2>4. Free - SumOver(DecodeNeed, ToSet(running)) \in Int
    BY <1>2, <2>1, <2>3
  <2>5. QED
    BY <2>4, MaxZero DEF DecodeRoom
<1>5. QED
  BY <1>2, <1>3, <1>4

-----------------------------------------------------------------------------
(* Steps that change one request.                                            *)

\* A step about one request keeps what is said of each of them if it keeps it of
\* that one.
LEMMA OneRequest ==
  ASSUME Types, AllRequestsOK, setup' = setup, failures' = failures, pc # "sampled", pc' # "sampled",
         aborted' = "no" => aborted = "no",
         NEW r \in Request,
         seq' \in [Request -> Progress], context' \in [Request -> Int],
         record' \in [Request -> Checkpoint],
         \A s \in Request \ {r} : seq'[s] = seq[s] /\ context'[s] = context[s] /\ record'[s] = record[s],
         ShapeOf(setup.prompt[r], seq'[r]), context'[r] >= NoKV,
         aborted' = "no" => KVOf(setup.prompt[r], seq'[r], context'[r], record'[r], 0, failures)
  PROVE  AllRequestsOK'
<1>1. ASSUME NEW s \in Request
      PROVE  /\ ShapeOf(setup'.prompt[s], seq'[s]) /\ context'[s] >= NoKV
             /\ aborted' = "no" => KVOf(setup'.prompt[s], seq'[s], context'[s], record'[s], 0, failures)
  <2>1. CASE s = r
    BY <2>1
  <2>2. CASE s # r
    <3>1. seq'[s] = seq[s] /\ context'[s] = context[s] /\ record'[s] = record[s]
      BY <2>2
    <3>2. /\ ShapeOf(setup.prompt[s], seq[s]) /\ context[s] >= NoKV
          /\ aborted = "no" => KVOf(setup.prompt[s], seq[s], context[s], record[s], Extra(s), failures)
      BY RequestFacts
    <3>3. Extra(s) = 0
      BY DEF Extra
    <3>4. QED
      BY <3>1, <3>2, <3>3
  <2>3. QED
    BY <2>1, <2>2
<1>2. \A s \in Request : Extra(s)' = 0
  BY DEF Extra
<1>3. QED
  BY <1>1, <1>2 DEF AllRequestsOK

\* A step that moves no request keeps what is said of each of them.
LEMMA NoRequest ==
  ASSUME Types, AllRequestsOK, setup' = setup, failures' = failures, pc # "sampled", pc' # "sampled",
         aborted' = "no" => aborted = "no",
         seq' = seq, context' = context, record' = record
  PROVE  AllRequestsOK'
<1>1. ASSUME NEW s \in Request
      PROVE  /\ ShapeOf(setup'.prompt[s], seq'[s]) /\ context'[s] >= NoKV
             /\ aborted' = "no" => KVOf(setup'.prompt[s], seq'[s], context'[s], record'[s], 0, failures)
  <2>1. /\ ShapeOf(setup.prompt[s], seq[s]) /\ context[s] >= NoKV
        /\ aborted = "no" => KVOf(setup.prompt[s], seq[s], context[s], record[s], Extra(s), failures)
    BY RequestFacts
  <2>2. Extra(s) = 0
    BY DEF Extra
  <2>3. QED
    BY <2>1, <2>2
<1>2. \A s \in Request : Extra(s)' = 0
  BY DEF Extra
<1>3. QED
  BY <1>1, <1>2 DEF AllRequestsOK

-----------------------------------------------------------------------------
(* Where requests are.                                                       *)

\* The queues hold requests.
LEMMA PlacedFacts ==
  ASSUME NEW st, NEW sus, NEW w, NEW u, NEW W, NEW R, Placed(st, sus, w, u, W, R)
  PROVE  /\ W = ToSet(w) /\ R = ToSet(u) /\ W \subseteq Request /\ R \subseteq Request
         /\ sus \subseteq Request
BY QueueFacts DEF Placed, IsQueue

\* One request moves between the queues.
MovesOne(r, st, sus, W, R, st2, sus2, W2, R2) ==
  /\ W2 \ {r} = W \ {r} /\ R2 \ {r} = R \ {r} /\ sus2 \ {r} = sus \ {r}
  /\ sus2 \subseteq Request
  /\ \A s \in Request \ {r} : st2[s] = st[s]
  /\ r \in sus2 <=> st2[r].status = "suspended"
  /\ ~(r \in W2 /\ r \in R2)
  /\ r \in W2 => st2[r].status \in {"waiting", "preempted"}
  /\ r \in R2 => /\ st2[r].status \in {"running", "preempted", "suspended"}
                 /\ st2[r].status = "suspended" => ~InPrefill(setup.prompt[r], st2[r])
  /\ Active(st2[r]) => r \in W2 \union R2
  /\ st2[r].status = "suspended" => setup.checkpoint

\* Moving one request between the queues keeps them as its status says.
LEMMA OnePlaced ==
  ASSUME NEW st, NEW sus, NEW w, NEW u, NEW W, NEW R, Placed(st, sus, w, u, W, R),
         NEW r \in Request,
         NEW st2, NEW sus2, NEW w2, NEW u2, NEW W2, NEW R2, IsQueue(w2, W2), IsQueue(u2, R2),
         MovesOne(r, st, sus, W, R, st2, sus2, W2, R2)
  PROVE  Placed(st2, sus2, w2, u2, W2, R2)
<1>1. /\ W2 \ {r} = W \ {r} /\ R2 \ {r} = R \ {r} /\ sus2 \ {r} = sus \ {r}
      /\ sus2 \subseteq Request
      /\ \A s \in Request \ {r} : st2[s] = st[s]
      /\ r \in sus2 <=> st2[r].status = "suspended"
      /\ ~(r \in W2 /\ r \in R2)
      /\ r \in W2 => st2[r].status \in {"waiting", "preempted"}
      /\ r \in R2 => /\ st2[r].status \in {"running", "preempted", "suspended"}
                     /\ st2[r].status = "suspended" => ~InPrefill(setup.prompt[r], st2[r])
      /\ Active(st2[r]) => r \in W2 \union R2
      /\ st2[r].status = "suspended" => setup.checkpoint
  BY DEF MovesOne
<1>2. W \subseteq Request /\ R \subseteq Request /\ W2 \subseteq Request /\ R2 \subseteq Request
  BY QueueFacts DEF Placed
<1>3. W2 \intersect R2 = {}
  BY <1>1 DEF Placed
<1>4. sus2 = {s \in Request : st2[s].status = "suspended"}
  BY <1>1 DEF Placed
<1>5. \A s \in W2 : st2[s].status \in {"waiting", "preempted"}
  BY <1>1, <1>2 DEF Placed
<1>6. ASSUME NEW s \in R2
      PROVE  /\ st2[s].status \in {"running", "preempted", "suspended"}
             /\ st2[s].status = "suspended" => ~InPrefill(setup.prompt[s], st2[s])
  <2>1. CASE s = r
    <3>1. r \in R2
      BY <2>1
    <3>2. /\ st2[r].status \in {"running", "preempted", "suspended"}
          /\ st2[r].status = "suspended" => ~InPrefill(setup.prompt[r], st2[r])
      BY <1>1, <3>1
    <3>3. QED
      BY <2>1, <3>2, Zenon
  <2>2. CASE s # r
    <3>1. s \in R /\ st2[s] = st[s]
      BY <1>1, <2>2, <1>2
    <3>2. QED
      BY <3>1 DEF Placed
  <2>3. QED
    BY <2>1, <2>2
<1>7. ASSUME NEW s \in Request
      PROVE  /\ Active(st2[s]) => s \in W2 \union R2
             /\ st2[s].status = "suspended" => setup.checkpoint
  <2>1. CASE s = r
    BY <1>1, <2>1
  <2>2. CASE s # r
    <3>1. st2[s] = st[s]
      BY <1>1, <2>2
    <3>2. /\ Active(st[s]) => s \in W \union R
          /\ st[s].status = "suspended" => setup.checkpoint
      BY <1>1 DEF Placed
    <3>3. QED
      BY <1>1, <2>2, <3>1, <3>2
  <2>3. QED
    BY <2>1, <2>2
<1>8. QED
  BY <1>3, <1>4, <1>5, <1>6, <1>7 DEF Placed

\* Statuses alone say where requests are.
LEMMA SamePlaced ==
  ASSUME NEW st, NEW sus, NEW w, NEW u, NEW W, NEW R, Placed(st, sus, w, u, W, R), NEW st2,
         \A s \in Request : /\ st2[s].status = st[s].status
                            /\ InPrefill(setup.prompt[s], st2[s]) <=> InPrefill(setup.prompt[s], st[s])
  PROVE  Placed(st2, sus, w, u, W, R)
<1>1. W \subseteq Request /\ R \subseteq Request
  BY QueueFacts DEF Placed
<1>2. \A s \in Request : Active(st2[s]) <=> Active(st[s])
  BY DEF Active
<1>3. QED
  BY <1>1, <1>2 DEF Placed

\* The queues of the next state are where Placed says they are.
LEMMA Rehome ==
  ASSUME setup' = setup, NEW W, NEW R, Placed(seq', suspended', waiting', running', W, R)
  PROVE  Homes' /\ InWaiting' = W /\ InRunning' = R
<1>1. InWaiting' = W /\ InRunning' = R
  BY DEF Placed, IsQueue, InWaiting, InRunning
<1>2. Homes'
  BY <1>1 DEF Homes, Placed
<1>3. QED
  BY <1>1, <1>2

\* Placed, but for what a checkpoint just took out of running_.
Reapable(st, sus, w, u, W, R) ==
  /\ IsQueue(w, W) /\ IsQueue(u, R)
  /\ W \intersect R = {}
  /\ sus = {r \in Request : st[r].status = "suspended"}
  /\ \A r \in W : st[r].status \in {"waiting", "preempted"}
  /\ \A r \in R : st[r].status \in {"running", "preempted", "suspended"}
  /\ \A r \in Request : Active(st[r]) => r \in W \union R
  /\ \A r \in Request : st[r].status = "suspended" => setup.checkpoint

\* reap_preempted_running: what was preempted waits, what was saved is gone.
LEMMA ReapQueues ==
  ASSUME NEW st, NEW sus, Reapable(st, sus, waiting, running, InWaiting, InRunning)
  PROVE  \E W \in SUBSET Request :
           /\ Placed(st, sus, WaitingAgain(st), StillRunning(st), W,
                     {r \in InRunning : st[r].status = "running"})
           /\ InWaiting \subseteq W
<1> DEFINE P == {r \in Request : st[r].status = "preempted"}
           K == {r \in Request : st[r].status \notin {"preempted", "suspended"}}
           R == {r \in InRunning : st[r].status = "running"}
           W == InWaiting \union (InRunning \intersect P)
<1>1. /\ IsQueue(waiting, InWaiting) /\ IsQueue(running, InRunning)
      /\ InWaiting \intersect InRunning = {}
      /\ InWaiting \subseteq Request /\ InRunning \subseteq Request
  BY QueueFacts DEF Reapable
<1>2. IsQueue(Preempted(st), InRunning \intersect P)
  BY <1>1, OnlyQueue DEF Preempted
<1>3. IsQueue(WaitingAgain(st), W)
  <2>1. InWaiting \intersect (InRunning \intersect P) = {}
    BY <1>1
  <2> DEFINE p == Preempted(st)
             B == InRunning \intersect P
  <2>2. IsQueue(p, B) /\ InWaiting \intersect B = {}
    BY <1>2, <2>1
  <2>3. WaitingAgain(st) = FoldLeft(Enqueue, waiting, p) /\ W = InWaiting \union B
    BY DEF WaitingAgain
  <2> HIDE DEF p, B, W
  <2>4. QED
    BY <1>1, <2>2, <2>3, AgainQueue
<1>4. IsQueue(StillRunning(st), InRunning \intersect K)
  BY <1>1, OnlyQueue DEF StillRunning
<1>5. InRunning \intersect K = R
  BY <1>1 DEF Reapable
<1>6. W \intersect R = {} /\ W \subseteq Request
  BY <1>1
<1>7. \A r \in W : st[r].status \in {"waiting", "preempted"}
  BY DEF Reapable
<1>8. \A r \in Request : Active(st[r]) => r \in W \union R
  BY DEF Reapable, Active
<1>9. Placed(st, sus, WaitingAgain(st), StillRunning(st), W, R)
  <2> HIDE DEF W
  <2>1. QED
    BY <1>3, <1>4, <1>5, <1>6, <1>7, <1>8 DEF Reapable, Placed
<1>10. QED
  BY <1>6, <1>9

\* Reaping running_ puts the checkpointed requests back into waiting_.
LEMMA ReapPlaces ==
  ASSUME NEW st, NEW sus, Placed(st, sus, waiting, running, InWaiting, InRunning)
  PROVE  \E W \in SUBSET Request :
           /\ Placed(st, sus, WaitingAgain(st), StillRunning(st), W,
                     {r \in InRunning : st[r].status = "running"})
           /\ InWaiting \subseteq W
<1>1. Reapable(st, sus, waiting, running, InWaiting, InRunning)
  BY DEF Placed, Reapable
<1>2. QED
  BY <1>1, ReapQueues

-----------------------------------------------------------------------------
(* The rows of the batch.                                                    *)

\* A batch without rows.
LEMMA NoRows ==
  ASSUME NEW d \in Nat, NEW st, NEW R, \A r \in Request : st[r].scheduled = 0
  PROVE  RowsOK(<<>>, d, st, R)
BY DEF RowsOK

\* A row is added: a decode after decodes only, or a chunk.
AddsRow(r, n, b, d, st, R, b2, d2, st2, R2) ==
  /\ d \in Nat /\ d <= Len(b) /\ d2 \in Nat /\ n \in Nat \ {0}
  /\ R \subseteq R2 /\ r \in R2
  /\ st[r].scheduled = 0
  /\ \A s \in Request \ {r} : st2[s] = st[s]
  /\ st2[r].status = "running" /\ st2[r].scheduled = n
  /\ b2 = Append(b, [req |-> r, tokens |-> n])
  /\ \/ d2 = d /\ InPrefill(setup.prompt[r], st2[r])
     \/ d2 = d + 1 /\ d = Len(b) /\ n = 1 /\ ~InPrefill(setup.prompt[r], st2[r])

\* A row added at either end of the batch keeps every row in order.
LEMMA RowsGrow ==
  ASSUME NEW b \in Seq(Row), NEW d, NEW st, NEW R, RowsOK(b, d, st, R),
         NEW r \in Request, NEW n, NEW b2, NEW d2, NEW st2, NEW R2,
         AddsRow(r, n, b, d, st, R, b2, d2, st2, R2)
  PROVE  b2 \in Seq(Row) /\ Len(b2) = Len(b) + 1 /\ d2 <= Len(b2) /\ RowsOK(b2, d2, st2, R2)
<1>1. /\ d \in Nat /\ d <= Len(b) /\ d2 \in Nat /\ n \in Nat \ {0}
      /\ R \subseteq R2 /\ r \in R2
      /\ st[r].scheduled = 0
      /\ \A s \in Request \ {r} : st2[s] = st[s]
      /\ st2[r].status = "running" /\ st2[r].scheduled = n
      /\ b2 = Append(b, [req |-> r, tokens |-> n])
      /\ \/ d2 = d /\ InPrefill(setup.prompt[r], st2[r])
         \/ d2 = d + 1 /\ d = Len(b) /\ n = 1 /\ ~InPrefill(setup.prompt[r], st2[r])
  BY DEF AddsRow
<1> DEFINE row == [req |-> r, tokens |-> n]
           l == Len(b)
<1>2. row \in Row /\ row.req = r /\ row.tokens = n
  BY <1>1 DEF Row
<1>3. /\ b2 \in Seq(Row) /\ Len(b2) = l + 1 /\ l \in Nat
      /\ \A i \in 1 .. l : b2[i] = b[i]
      /\ b2[l + 1] = row
  <2> HIDE DEF row
  <2>1. b2 = Append(b, row)
    BY <1>1 DEF row
  <2>2. QED
    BY <1>2, <2>1
<1> HIDE DEF row, l
<1>4. ASSUME NEW i \in 1 .. l
      PROVE  /\ b[i].req \in Request /\ b[i].tokens \in Nat \ {0}
             /\ RowOK(b, d, st, R, i) /\ b[i].req # r
  <2>1. b[i] \in Row
    BY DEF l
  <2>2. b[i].req \in Request /\ b[i].tokens \in Nat \ {0}
    BY <2>1 DEF Row
  <2>3. RowOK(b, d, st, R, i)
    BY DEF RowsOK, l
  <2>4. b[i].req # r
    BY <1>1, <2>2, <2>3 DEF RowOK
  <2>5. QED
    BY <2>2, <2>3, <2>4
<1>5. d <= l
  BY <1>1 DEF l
<1>6. ASSUME NEW i \in 1 .. (l + 1)
      PROVE  RowOK(b2, d2, st2, R2, i)
  <2>1. CASE i = l + 1
    <3>1. b2[i].req = r /\ b2[i].tokens = n
      BY <1>1, <2>1, <1>2, <1>3
    <3>2. \/ InPrefill(setup.prompt[r], st2[r]) /\ ~(i <= d2)
          \/ ~InPrefill(setup.prompt[r], st2[r]) /\ i <= d2 /\ n = 1
      BY <1>1, <2>1, <1>3, <1>5 DEF l
    <3>3. QED
      BY <1>1, <3>1, <3>2, <2>1, <1>3 DEF RowOK
  <2>2. CASE i # l + 1
    <3>1. i \in 1 .. l
      BY <2>2, <1>3
    <3>2. b2[i] = b[i] /\ st2[b[i].req] = st[b[i].req]
      BY <1>1, <3>1, <1>3, <1>4
    <3>3. (i <= d <=> i <= d2) /\ (i > d <=> i > d2)
      BY <1>1, <3>1, <1>3, <1>5 DEF l
    <3>4. QED
      BY <1>1, <3>1, <3>2, <3>3, <1>4, ZenonT(60) DEF RowOK
  <2>3. QED
    BY <2>1, <2>2
<1>7. ASSUME NEW i \in 1 .. (l + 1), NEW j \in 1 .. (l + 1), b2[i].req = b2[j].req
      PROVE  i = j
  <2>1. CASE i = l + 1 /\ j # l + 1
    <3>1. j \in 1 .. l /\ b2[j] = b[j] /\ b2[i].req = r
      BY <1>1, <2>1, <1>2, <1>3
    <3>2. QED
      BY <3>1, <1>4, <1>7
  <2>2. CASE j = l + 1 /\ i # l + 1
    <3>1. i \in 1 .. l /\ b2[i] = b[i] /\ b2[j].req = r
      BY <2>2, <1>2, <1>3
    <3>2. QED
      BY <3>1, <1>4, <1>7
  <2>3. CASE i # l + 1 /\ j # l + 1
    <3>1. i \in 1 .. l /\ j \in 1 .. l /\ b[i].req = b[j].req
      BY <2>3, <1>3, <1>7
    <3>2. QED
      BY <3>1 DEF RowsOK, l
  <2>4. QED
    BY <2>1, <2>2, <2>3
<1>8. ASSUME NEW s \in Request, st2[s].scheduled # 0
      PROVE  \E i \in 1 .. (l + 1) : b2[i].req = s
  <2>1. CASE s = r
    BY <1>1, <2>1, <1>2, <1>3
  <2>2. CASE s # r
    <3>1. PICK i \in 1 .. l : b[i].req = s
      BY <1>1, <2>2, <1>8 DEF RowsOK, l
    <3>2. i \in 1 .. (l + 1) /\ b2[i].req = s
      BY <3>1, <1>3
    <3>3. QED
      BY <3>2
  <2>3. QED
    BY <2>1, <2>2
<1>9. d2 <= l + 1
  BY <1>1, <1>3, <1>5
<1>10. RowsOK(b2, d2, st2, R2)
  BY <1>3, <1>6, <1>7, <1>8 DEF RowsOK
<1>11. QED
  BY <1>3, <1>9, <1>10 DEF l

\* A request outside of the batch changes, and keeps no tokens scheduled.
LEMMA RowsStay ==
  ASSUME NEW b \in Seq(Row), NEW d \in Nat, NEW st, NEW R, NEW R2, RowsOK(b, d, st, R),
         NEW r \in Request, NEW st2, \A s \in Request \ {r} : st2[s] = st[s],
         st2[r].scheduled = 0,
         \A i \in 1 .. Len(b) : b[i].req # r /\ b[i].req \in R2
  PROVE  RowsOK(b, d, st2, R2)
<1>1. ASSUME NEW i \in 1 .. Len(b)
      PROVE  RowOK(b, d, st2, R2, i)
  <2>1. b[i] \in Row
    OBVIOUS
  <2>2. b[i].req \in Request
    BY <2>1 DEF Row
  <2>3. st2[b[i].req] = st[b[i].req] /\ RowOK(b, d, st, R, i)
    BY <2>2 DEF RowsOK
  <2>4. QED
    BY <2>3 DEF RowOK
<1>2. \A s \in Request : st2[s].scheduled # 0 => \E i \in 1 .. Len(b) : b[i].req = s
  BY DEF RowsOK
<1>3. QED
  BY <1>1, <1>2 DEF RowsOK

-----------------------------------------------------------------------------
(* Preemption.                                                               *)

\* The running sequence of lowest priority is one.
LEMMA VictimIsOne ==
  ASSUME Types, InRunning \subseteq Request, Victims # {}
  PROVE  Victim \in Victims
<1> DEFINE Ranks == {setup.rank[r] : r \in Victims}
<1>1. Victims \subseteq Request /\ IsFiniteSet(Victims)
  BY Positive, FS_Subset DEF Victims, InRunning
<1>2. Request \subseteq Nat /\ \A r \in Request : setup.rank[r] \in Nat
  BY Positive, SetupFacts DEF Types
<1>3. Ranks \subseteq Nat /\ Ranks # {}
  BY <1>1, <1>2
<1>4. PICK k \in Ranks : \A m \in Ranks : k <= m
  <2> HIDE DEF Ranks
  <2>1. QED
    BY <1>3, LeastElement
<1> DEFINE Low == {r \in Victims : setup.rank[r] = k}
<1>5. Low \subseteq Nat /\ Low # {} /\ IsFiniteSet(Low)
  <2>1. Low \subseteq Victims
    OBVIOUS
  <2>2. Low # {}
    BY <1>4
  <2>3. QED
    BY <1>1, <1>2, <2>1, <2>2, FS_Subset
<1>6. PICK v \in Low : \A s \in Low : s <= v
  <2> HIDE DEF Low
  <2>1. QED
    BY <1>5, GreatestElement
<1>7. v \in Victims /\ v \in Request /\ setup.rank[v] = k /\ k \in Nat
  BY <1>1, <1>3, <1>4, <1>6
<1>8. ASSUME NEW s \in Victims \ {v}
      PROVE  HigherPriority(s, v)
  <2>1. s \in Request /\ setup.rank[s] \in Nat /\ k <= setup.rank[s] /\ s \in Nat /\ v \in Nat
    BY <1>1, <1>2, <1>4, <1>7
  <2>2. setup.rank[s] = k => s <= v /\ s # v
    BY <1>6
  <2>3. setup.rank[s] > k \/ (setup.rank[s] = k /\ s < v)
    BY <2>1, <2>2, <1>7
  <2>4. QED
    BY <2>3, <1>7 DEF HigherPriority
<1>9. \E r \in Victims : \A s \in Victims \ {r} : HigherPriority(s, r)
  BY <1>7, <1>8
<1>10. Victim = CHOOSE r \in Victims : \A s \in Victims \ {r} : HigherPriority(s, r)
  BY DEF Victim
<1> HIDE DEF Ranks
<1>11. QED
  BY <1>9, <1>10

\* What preempt_sequence leaves of a sequence of running_.
Preempts(r) ==
  /\ seq' \in [Request -> Progress] /\ context' \in [Request -> Int]
  /\ record' \in [Request -> Checkpoint]
  /\ \A s \in Request \ {r} : seq'[s] = seq[s] /\ context'[s] = context[s] /\ record'[s] = record[s]
  /\ \A s \in Request : context'[s] <= context[s]
  /\ seq'[r].scheduled = 0 /\ seq'[r].outputs = seq[r].outputs
  /\ ShapeOf(setup.prompt[r], seq'[r]) /\ context'[r] >= NoKV
  /\ seq'[r].status \in {"preempted", "suspended"}
  /\ seq'[r].status = "suspended" => setup.checkpoint
  /\ suspended' \ {r} = suspended \ {r} /\ suspended' \subseteq Request
  /\ r \in suspended' <=> seq'[r].status = "suspended"
  /\ aborted' = "no" => KVOf(setup.prompt[r], seq'[r], context'[r], record'[r], 0, failures)
  /\ aborted' \in {"no", "free"}
  /\ aborted' = "free" => setup.checkpoint /\ context[r] = NoKV
  /\ seq'[r].status = "suspended" =>
       (InPrefill(setup.prompt[r], seq'[r]) <=> InPrefill(setup.prompt[r], seq[r]))

\* A preemption leaves its victim preempted or suspended with the tokens it had, and
\* every other request alone.
LEMMA PreemptLeaves ==
  ASSUME Types, AllRequestsOK, Homes, setup' = setup, failures' = failures, aborted = "no", pc # "sampled",
         NEW r \in InRunning, seq[r].status # "preempted", PreemptSequence(r)
  PROVE  Preempts(r)
<1>1. r \in Request /\ InRunning \subseteq Request /\ InWaiting \subseteq Request
  BY PlacedFacts DEF Homes
<1>2. /\ setup.prompt[r] \in Nat \ {0} /\ seq[r] \in Progress /\ context[r] \in Int
      /\ context[r] >= NoKV /\ record[r] \in Checkpoint
      /\ ShapeOf(setup.prompt[r], seq[r])
      /\ KVOf(setup.prompt[r], seq[r], context[r], record[r], 0, failures)
  <2>1. Extra(r) = 0
    BY DEF Extra
  <2>2. QED
    BY <1>1, <2>1, RequestFacts
<1>3. /\ seq \in [Request -> Progress] /\ context \in [Request -> Int]
      /\ record \in [Request -> Checkpoint]
  BY DEF AllRequestsOK
<1>4. /\ suspended = {s \in Request : seq[s].status = "suspended"}
      /\ seq[r].status = "suspended" => setup.checkpoint
  BY <1>1 DEF Homes, Placed
<1>5. CASE /\ CanSave(r)
           /\ record' = [record EXCEPT ![r] = [seq |-> seq[r], context |-> context[r]]]
           /\ suspended' = suspended \union {r}
           /\ seq' = [seq EXCEPT ![r].status = "suspended"]
           /\ context' = [context EXCEPT ![r] = NoKV]
           /\ UNCHANGED aborted
  <2> DEFINE s == [seq[r] EXCEPT !.status = "suspended"]
             t == [seq |-> seq[r], context |-> context[r]]
  <2>1. seq[r].scheduled = 0 /\ context[r] # NoKV /\ setup.checkpoint
    BY <1>5 DEF CanSave
  <2>2. /\ s \in Progress /\ s.status = "suspended" /\ s.scheduled = 0 /\ s.outputs = seq[r].outputs
        /\ t \in Checkpoint
        /\ ShapeOf(setup.prompt[r], s)
        /\ InPrefill(setup.prompt[r], s) <=> InPrefill(setup.prompt[r], seq[r])
        /\ KVOf(setup.prompt[r], s, NoKV, t, 0, failures)
    BY <1>2, <2>1, SaveOK
  <2>3. seq' = [seq EXCEPT ![r] = s] /\ record' = [record EXCEPT ![r] = t]
    BY <1>5
  <2> HIDE DEF s, t
  <2>4. /\ seq' \in [Request -> Progress] /\ context' \in [Request -> Int]
        /\ record' \in [Request -> Checkpoint]
        /\ \A x \in Request \ {r} : seq'[x] = seq[x] /\ context'[x] = context[x] /\ record'[x] = record[x]
        /\ seq'[r] = s /\ record'[r] = t /\ context'[r] = NoKV
    BY <1>1, <1>3, <1>5, <2>2, <2>3 DEF NoKV
  <2>5. \A x \in Request : context'[x] <= context[x]
    BY <1>2, <1>3, <2>4
  <2>6. suspended' \ {r} = suspended \ {r} /\ suspended' \subseteq Request /\ r \in suspended'
    BY <1>1, <1>4, <1>5
  <2>7. aborted' = "no" /\ NoKV >= NoKV
    BY <1>5 DEF NoKV
  <2>8. QED
    BY <2>1, <2>2, <2>4, <2>5, <2>6, <2>7 DEF Preempts
<1>6. CASE /\ ~CanSave(r) /\ context[r] # NoKV
           /\ seq' = [seq EXCEPT ![r] = [@ EXCEPT !.computed = 0, !.scheduled = 0,
                        !.next = FALSE, !.recompute = TRUE, !.status = "preempted",
                        !.tired = TRUE, !.stuck = FALSE]]
           /\ context' = [context EXCEPT ![r] = 0]
           /\ UNCHANGED <<suspended, record, aborted>>
  <2> DEFINE s == Dropped(seq[r])
  <2>1. /\ s \in Progress /\ s.status = "preempted" /\ s.scheduled = 0 /\ s.outputs = seq[r].outputs
        /\ ShapeOf(setup.prompt[r], s)
        /\ KVOf(setup.prompt[r], s, 0, record[r], 0, failures)
    BY <1>2, RecomputeOK
  <2>2. seq' = [seq EXCEPT ![r] = s]
    BY <1>6, Zenon DEF Dropped
  <2> HIDE DEF s
  <2>3. /\ seq' \in [Request -> Progress] /\ context' \in [Request -> Int]
        /\ record' \in [Request -> Checkpoint]
        /\ \A x \in Request \ {r} : seq'[x] = seq[x] /\ context'[x] = context[x] /\ record'[x] = record[x]
        /\ seq'[r] = s /\ record'[r] = record[r] /\ context'[r] = 0
    <3>1. context' = [context EXCEPT ![r] = 0] /\ record' = record
      BY <1>6
    <3>2. QED
      BY <1>1, <1>3, <2>1, <2>2, <3>1
  <2>4. \A x \in Request : context'[x] <= context[x]
    BY <1>2, <1>3, <1>6, <2>3 DEF NoKV
  <2>5. suspended' = suspended /\ aborted' = "no"
    BY <1>6
  <2>6. r \notin suspended
    BY <1>2, <1>4, <1>6 DEF KVOf, Active
  <2>7. 0 >= NoKV
    BY DEF NoKV
  <2>8. QED
    BY <1>4, <2>1, <2>3, <2>4, <2>5, <2>6, <2>7 DEF Preempts
<1>7. CASE /\ ~CanSave(r) /\ context[r] = NoKV
           /\ aborted' = "free"
           /\ UNCHANGED <<seq, context, suspended, record>>
  <2>1. seq[r].status = "suspended"
    BY <1>2, <1>7 DEF KVOf, Active, Homes, Placed
  <2>2. seq[r].scheduled = 0
    BY <1>2, <2>1 DEF ShapeOf
  <2>3. /\ seq' = seq /\ context' = context /\ record' = record /\ suspended' = suspended
        /\ aborted' = "free" /\ context[r] = NoKV
    BY <1>7
  <2>4. \A x \in Request : context'[x] <= context[x]
    BY <1>3, <2>3
  <2>5. QED
    BY <1>1, <1>2, <1>3, <1>4, <2>1, <2>2, <2>3, <2>4 DEF Preempts
<1>8. QED
  BY <1>5, <1>6, <1>7 DEF PreemptSequence

-----------------------------------------------------------------------------
(* Steps that change no request: the position of the loop, and the batch.    *)

\* A step of the loop that moves no request keeps the requests, the queues and the
\* pool.
LEMMA Idle ==
  ASSUME Sound, setup' = setup, failures' = failures, seq' = seq, context' = context, waiting' = waiting,
         running' = running, suspended' = suspended, record' = record,
         aborted' = "no" => aborted = "no", pc # "sampled", pc' # "sampled"
  PROVE  /\ AllRequestsOK' /\ Homes' /\ InWaiting' = InWaiting /\ InRunning' = InRunning
         /\ Free' = Free
<1>1. AllRequestsOK'
  BY NoRequest DEF Sound
<1>2. Homes' /\ InWaiting' = InWaiting /\ InRunning' = InRunning
  <2>1. Placed(seq', suspended', waiting', running', InWaiting, InRunning)
    BY DEF Sound, Homes
  <2>2. QED
    BY <2>1, Rehome
<1>3. Free' = Free
  BY DEF Free
<1>4. QED
  BY <1>1, <1>2, <1>3

\* The conjunct of a place that is in none of the loops over running_.
LEMMA NoLoop ==
  ASSUME pc' \notin {"ready", "reject", "decode", "prefill", "admit", "retry"}
  PROVE  Loops'
BY DEF Loops

\* Away from the loops the pool need only not be overdrawn.
LEMMA FreeHolds ==
  ASSUME Free' >= 0, pc' \notin {"prefill", "admit", "retry", "scheduled"}
  PROVE  Pool'
BY DEF Pool

\* An abort moves nothing, and an engine that runs is anywhere.
LEMMA StillAlive ==
  ASSUME aborted' = "no"
  PROVE  Aborts'
BY DEF Aborts, ProcessSurvives

\* The pool is measured on what the handles are to hold.
LEMMA ReservedNext == FreeIn(Reserved)' = FreeIn(Reserved')
BY DEF FreeIn, SumOver, Blocks

\* The engine thread starts a step.
LEMMA RunStepKeeps ==
  ASSUME Sound, RunStep
  PROVE  Sound'
<1>1. /\ setup' = setup /\ failures' = failures /\ seq' = seq /\ context' = context /\ waiting' = waiting
      /\ running' = running /\ suspended' = suspended /\ record' = record
      /\ restored' = restored /\ finished' = finished /\ handles' = handles
      /\ batch' = batch /\ decodes' = decodes /\ budget' = budget /\ freeLeft' = freeLeft
      /\ idx' = idx /\ moved' = moved /\ aborted' = aborted
      /\ pc = "loop" /\ pc' = "cancel"
  BY DEF RunStep, queueVars, storeVars, stepVars, engineVars
<1>2. aborted = "no"
  BY <1>1 DEF Sound, Aborts
<1>3. AllRequestsOK' /\ Homes' /\ InWaiting' = InWaiting /\ InRunning' = InRunning /\ Free' = Free
  BY <1>1, Idle
<1>4. Types'
  BY <1>1 DEF Sound, Types, BeforeBatch
<1>5. Batches'
  BY <1>1 DEF Sound, Batches, BeforeBatch, Building, Stalled
<1>6. Loops' /\ Pool' /\ Aborts'
  <2>1. Free >= 0
    BY DEF Sound, Pool
  <2>2. QED
    BY <1>1, <1>2, <1>3, <2>1, NoLoop, FreeHolds, StillAlive
<1>7. QED
  BY <1>3, <1>4, <1>5, <1>6 DEF Sound

\* No cancellation is left to flush.
LEMMA CancellationsFlushedKeeps ==
  ASSUME Sound, CancellationsFlushed
  PROVE  Sound'
<1>1. /\ setup' = setup /\ failures' = failures /\ seq' = seq /\ context' = context /\ waiting' = waiting
      /\ running' = running /\ suspended' = suspended /\ record' = record
      /\ restored' = restored /\ finished' = finished /\ handles' = handles
      /\ batch' = batch /\ decodes' = decodes /\ budget' = budget /\ freeLeft' = freeLeft
      /\ idx' = idx /\ moved' = moved /\ aborted' = aborted
      /\ pc = "cancel" /\ pc' = "schedule" /\ aborted = "no"
  BY DEF CancellationsFlushed, queueVars, storeVars, stepVars, engineVars
<1>2. AllRequestsOK' /\ Homes' /\ InWaiting' = InWaiting /\ InRunning' = InRunning /\ Free' = Free
  BY <1>1, Idle
<1>3. Types'
  BY <1>1 DEF Sound, Types, BeforeBatch
<1>4. Batches'
  BY <1>1 DEF Sound, Batches, BeforeBatch, Building, Stalled
<1>5. Loops' /\ Pool' /\ Aborts'
  <2>1. Free >= 0
    BY DEF Sound, Pool
  <2>2. QED
    BY <1>1, <1>2, <2>1, NoLoop, FreeHolds, StillAlive
<1>6. QED
  BY <1>2, <1>3, <1>4, <1>5 DEF Sound

\* No prefill is stalled.
LEMMA NothingStalledKeeps ==
  ASSUME Sound, NothingStalled, handles' = handles, failures' = failures
  PROVE  Sound'
<1>1. /\ setup' = setup /\ failures' = failures /\ seq' = seq /\ context' = context /\ waiting' = waiting
      /\ running' = running /\ suspended' = suspended /\ record' = record
      /\ restored' = restored /\ finished' = finished
      /\ batch' = batch /\ decodes' = decodes /\ budget' = budget /\ freeLeft' = freeLeft
      /\ idx' = idx /\ moved' = moved /\ aborted' = aborted
      /\ pc = "reject" /\ pc' = "publish" /\ aborted = "no"
  BY DEF NothingStalled, queueVars, storeVars, stepVars
<1>2. AllRequestsOK' /\ Homes' /\ InWaiting' = InWaiting /\ InRunning' = InRunning /\ Free' = Free
  BY <1>1, Idle
<1>3. Types'
  BY <1>1 DEF Sound, Types
<1>4. Batches'
  BY <1>1 DEF Sound, Batches, BeforeBatch, Building, Stalled
<1>5. Loops' /\ Pool' /\ Aborts'
  <2>1. Free >= 0
    BY DEF Sound, Pool
  <2>2. QED
    BY <1>1, <1>2, <2>1, NoLoop, FreeHolds, StillAlive
<1>6. QED
  BY <1>2, <1>3, <1>4, <1>5 DEF Sound

\* The loop over the decodes ends.
LEMMA DecodesScheduledKeeps ==
  ASSUME Sound, DecodesScheduled, handles' = handles, failures' = failures
  PROVE  Sound'
<1>1. /\ setup' = setup /\ failures' = failures /\ seq' = seq /\ context' = context /\ waiting' = waiting
      /\ running' = running /\ suspended' = suspended /\ record' = record
      /\ restored' = restored /\ finished' = finished
      /\ batch' = batch /\ decodes' = decodes /\ budget' = budget /\ freeLeft' = Free
      /\ idx' = 1 /\ moved' = moved /\ aborted' = aborted
      /\ pc = "decode" /\ pc' = "prefill" /\ aborted = "no"
  BY DEF DecodesScheduled, queueVars, storeVars
<1>2. ~moved /\ BatchOK /\ decodes = Len(batch)
  BY <1>1 DEF Sound, Batches, Building, Loops
<1>3. AllRequestsOK' /\ Homes' /\ InWaiting' = InWaiting /\ InRunning' = InRunning /\ Free' = Free
  BY <1>1, Idle
<1>4. Free \in Int /\ Free >= 0
  BY DecodeNumbers DEF Sound, Pool
<1>5. Types'
  BY <1>1, <1>4 DEF Sound, Types, Building
<1>6. Batches'
  <2>1. BatchOK'
    BY <1>1, <1>2, <1>3 DEF BatchOK, RowsOK, RowOK
  <2>2. QED
    BY <1>1, <1>2, <2>1 DEF Batches, BeforeBatch, Building, Stalled
<1>7. Loops'
  <2>1. ASSUME NEW r \in Request, InPrefill(setup.prompt[r], seq[r]), seq[r].scheduled # 0
        PROVE  FALSE
    <3>1. PICK i \in 1 .. Len(batch) : batch[i].req = r
      BY <1>2, <2>1 DEF BatchOK, RowsOK
    <3>2. RowOK(batch, decodes, seq, InRunning, i)
      BY <1>2 DEF BatchOK, RowsOK
    <3>3. QED
      BY <1>2, <2>1, <3>1, <3>2 DEF RowOK
  <2>2. IsQueue(running, InRunning)
    BY DEF Sound, Homes, Placed
  <2>3. \A i \in 1 .. Len(running) : running[i] \in Request
    BY <2>2, QueueFacts
  <2>4. QED
    BY <1>1, <2>1, <2>3 DEF Loops
<1>8. Pool'
  <2>1. PrefillRequests' = {}
    BY <1>1, <1>2 DEF PrefillRequests, Sound, Types
  <2>2. Reserved' = context'
    BY <1>1, <2>1 DEF Reserved, Sound, AllRequestsOK
  <2>3. FreeIn(Reserved)' = Free
    BY <1>1, <2>2, ReservedNext DEF Free
  <2>4. QED
    BY <1>1, <1>3, <1>4, <2>3 DEF Pool
<1>9. Aborts'
  BY <1>1, StillAlive
<1>10. QED
  BY <1>3, <1>5, <1>6, <1>7, <1>8, <1>9 DEF Sound

\* The loop over the running prefills ends.
LEMMA PrefillsScheduledKeeps ==
  ASSUME Sound, PrefillsScheduled, handles' = handles, failures' = failures
  PROVE  Sound'
<1>1. /\ setup' = setup /\ failures' = failures /\ seq' = seq /\ context' = context /\ waiting' = waiting
      /\ running' = running /\ suspended' = suspended /\ record' = record
      /\ restored' = restored /\ finished' = finished
      /\ batch' = batch /\ decodes' = decodes /\ budget' = budget /\ freeLeft' = freeLeft
      /\ idx' = 1 /\ moved' = moved /\ aborted' = aborted
      /\ pc = "prefill" /\ pc' = "admit"
  BY DEF PrefillsScheduled, queueVars, storeVars
<1>2. aborted = "no"
  BY <1>1 DEF Sound, Aborts
<1>3. AllRequestsOK' /\ Homes' /\ InWaiting' = InWaiting /\ InRunning' = InRunning /\ Free' = Free
  BY <1>1, Idle
<1>4. Types'
  BY <1>1 DEF Sound, Types, Building
<1>5. Batches'
  <2>1. ~moved /\ BatchOK
    BY <1>1 DEF Sound, Batches, Building
  <2>2. BatchOK'
    BY <1>1, <1>3, <2>1 DEF BatchOK, RowsOK, RowOK
  <2>3. QED
    BY <1>1, <2>1, <2>2 DEF Batches, BeforeBatch, Building, Stalled
<1>6. Pool'
  <2>1. Reserved' = Reserved
    BY <1>1 DEF Reserved, PrefillRequests
  <2>2. FreeIn(Reserved)' = FreeIn(Reserved)
    BY <2>1, ReservedNext
  <2>3. QED
    BY <1>1, <1>3, <2>2 DEF Sound, Pool
<1>7. Loops'
  BY <1>1 DEF Loops
<1>8. QED
  BY <1>1, <1>2, <1>3, <1>4, <1>5, <1>6, <1>7, StillAlive DEF Sound

\* Admission ends.
LEMMA EndAdmissionKeeps ==
  ASSUME Sound, EndAdmission, handles' = handles, failures' = failures
  PROVE  Sound'
<1>1. /\ setup' = setup /\ failures' = failures /\ seq' = seq /\ context' = context /\ waiting' = waiting
      /\ running' = running /\ suspended' = suspended /\ record' = record
      /\ restored' = restored /\ finished' = finished
      /\ batch' = batch /\ decodes' = decodes /\ budget' = budget /\ freeLeft' = freeLeft
      /\ idx' = idx /\ moved' = moved /\ aborted' = aborted
      /\ pc \in {"admit", "retry"} /\ aborted = "no" /\ idx # 0
      /\ pc' = IF batch = <<>> THEN "stalled" ELSE "scheduled"
  BY DEF EndAdmission, queueVars, storeVars, stepVars
<1>2. pc # "sampled" /\ pc' # "sampled" /\ pc' \in {"stalled", "scheduled"}
  BY <1>1
<1>3. AllRequestsOK' /\ Homes' /\ InWaiting' = InWaiting /\ InRunning' = InRunning /\ Free' = Free
  BY <1>1, <1>2, Idle
<1>4. Types'
  BY <1>1, <1>2 DEF Sound, Types, Building, Stalled
<1>5. ~moved => BatchOK
  BY <1>1 DEF Sound, Batches, Building
<1>6. moved => setup.priority /\ batch # <<>>
  BY DEF Sound, Batches
<1>7. Batches'
  <2>1. ~moved' => BatchOK'
    BY <1>1, <1>3, <1>5 DEF BatchOK, RowsOK, RowOK
  <2>2. CASE batch = <<>>
    <3>1. ~moved /\ pc' = "stalled" /\ batch' = <<>>
      BY <1>1, <1>6, <2>2
    <3>2. Len(batch) = 0
      BY <2>2
    <3>3. decodes' = 0
      BY <1>1, <3>2 DEF Sound, Types
    <3>4. \A r \in Request : seq'[r].scheduled = 0
      BY <1>1, <1>5, <3>1, <3>2 DEF BatchOK, RowsOK
    <3>5. QED
      BY <1>1, <3>1, <3>3, <3>4 DEF Batches, BeforeBatch, Building, Stalled
  <2>3. CASE batch # <<>>
    <3>1. pc' = "scheduled"
      BY <1>1, <2>3
    <3>2. QED
      BY <1>1, <1>6, <2>1, <3>1 DEF Batches, BeforeBatch, Building, Stalled
  <2>4. QED
    BY <2>2, <2>3
<1>8. Pool'
  <2>1. Reserved' = Reserved
    BY <1>1 DEF Reserved, PrefillRequests
  <2>2. FreeIn(Reserved)' = FreeIn(Reserved)
    BY <2>1, ReservedNext
  <2>3. QED
    BY <1>1, <1>3, <2>2 DEF Sound, Pool
<1>9. QED
  BY <1>1, <1>2, <1>3, <1>4, <1>7, <1>8, NoLoop, StillAlive DEF Sound

\* Finished requests are published and their handles let go.
LEMMA PublishKeeps ==
  ASSUME Sound, Publish
  PROVE  Sound'
<1>1. /\ setup' = setup /\ failures' = failures /\ seq' = seq /\ context' = context /\ waiting' = waiting
      /\ running' = running /\ suspended' = suspended /\ record' = record
      /\ restored' = restored /\ finished' = {} /\ handles' = handles \ finished
      /\ batch' = <<>> /\ decodes' = 0 /\ budget' = 0 /\ freeLeft' = 0
      /\ idx' = 1 /\ moved' = FALSE /\ aborted' = aborted
      /\ pc = "publish" /\ pc' = "loop" /\ aborted = "no"
  BY DEF Publish, DropOutput, queueVars, storeVars
<1>2. AllRequestsOK' /\ Homes' /\ InWaiting' = InWaiting /\ InRunning' = InRunning /\ Free' = Free
  BY <1>1, Idle
<1>3. Types'
  <2>1. batch' \in Seq(Row) /\ Len(batch') = 0
    BY <1>1
  <2>2. failures \in Nat /\ setup \in Setup /\ restored \subseteq Request /\ handles \ finished \subseteq Request
    BY DEF Sound, Types
  <2>3. pc' \in BeforeBatch /\ decodes' \in Nat /\ decodes' <= Len(batch') /\ moved' \in BOOLEAN
    <3>1. pc' = "loop" /\ decodes' = 0 /\ moved' = FALSE
      BY <1>1
    <3>2. decodes' <= Len(batch')
      BY <2>1, <3>1
    <3>3. QED
      BY <3>1, <3>2 DEF BeforeBatch
  <2>4. budget' \in Int /\ freeLeft' \in Int /\ idx' = 1 /\ aborted' = "no"
    BY <1>1
  <2>5. failures' \in Nat /\ setup' \in Setup /\ restored' \subseteq Request /\ finished' \subseteq Request /\ handles' \subseteq Request
    BY <1>1, <2>2
  <2>6. pc' # "retry" /\ idx' # 0
    BY <1>1
  <2>7. QED
    BY <2>1, <2>3, <2>4, <2>5, <2>6 DEF Types
<1>4. Batches'
  <2>1. \A r \in Request : seq[r].scheduled = 0
    BY <1>1 DEF Sound, Batches, Building
  <2>2. QED
    BY <1>1, <2>1 DEF Batches, BeforeBatch, Building, Stalled
<1>5. Loops' /\ Pool' /\ Aborts'
  <2>1. Free >= 0
    BY DEF Sound, Pool
  <2>2. QED
    BY <1>1, <1>2, <2>1, NoLoop, FreeHolds, StillAlive
<1>6. QED
  BY <1>2, <1>3, <1>4, <1>5 DEF Sound

-----------------------------------------------------------------------------
(* Requests that are taken and that end.                                     *)

\* One request leaves, wherever it is.
LEMMA OneEnds ==
  ASSUME Sound, setup' = setup, failures' = failures, aborted = "no", aborted' = "no",
         pc # "sampled", pc' # "sampled",
         NEW r \in Request, NEW status \in Settled,
         seq' = [seq EXCEPT ![r] = Ended(status)],
         context' = [context EXCEPT ![r] = NoKV],
         record' \in [Request -> Checkpoint], \A s \in Request \ {r} : record'[s] = record[s],
         IsQueue(waiting', InWaiting \ {r}), IsQueue(running', InRunning \ {r}),
         suspended' = suspended \ {r}
  PROVE  /\ AllRequestsOK' /\ Homes' /\ InRunning' = InRunning \ {r} /\ Free' >= 0
         /\ (\A s \in Request : seq[s].scheduled = 0) => \A s \in Request : seq'[s].scheduled = 0
<1>1. Types /\ AllRequestsOK /\ Homes
  BY DEF Sound
<1>2. /\ seq \in [Request -> Progress] /\ context \in [Request -> Int]
      /\ record \in [Request -> Checkpoint] /\ context[r] >= NoKV
      /\ setup.prompt[r] \in Nat \ {0}
  BY <1>1, RequestFacts DEF AllRequestsOK
<1> DEFINE e == Ended(status)
<1>3. /\ e \in Progress /\ e.status = status /\ e.scheduled = 0
      /\ ShapeOf(setup.prompt[r], e)
      /\ KVOf(setup.prompt[r], e, NoKV, record'[r], 0, failures)
  BY <1>2, EndedOK
<1>4. status \notin {"new", "waiting", "running", "preempted", "suspended"}
  BY DEF Settled
<1>5. seq' = [seq EXCEPT ![r] = e]
  OBVIOUS
<1> HIDE DEF e
<1>6. NoKV \in Int /\ NoKV >= NoKV
  BY DEF NoKV
<1>7. /\ seq' \in [Request -> Progress] /\ context' \in [Request -> Int]
      /\ seq'[r] = e /\ context'[r] = NoKV
      /\ \A s \in Request \ {r} : seq'[s] = seq[s] /\ context'[s] = context[s]
  BY <1>2, <1>3, <1>5, <1>6
<1>8. AllRequestsOK'
  BY <1>1, <1>3, <1>6, <1>7, OneRequest
<1>9. Placed(seq', suspended', waiting', running', InWaiting \ {r}, InRunning \ {r})
  <2>1. Placed(seq, suspended, waiting, running, InWaiting, InRunning)
    BY <1>1 DEF Homes
  <2>2. suspended' \subseteq Request /\ suspended' \ {r} = suspended \ {r} /\ r \notin suspended'
    BY <2>1, PlacedFacts
  <2>3. ~Active(seq'[r]) /\ seq'[r].status # "suspended"
    BY <1>3, <1>4, <1>7 DEF Active
  <2>4. \A s \in Request \ {r} : seq'[s] = seq[s]
    BY <1>7
  <2> DEFINE W2 == InWaiting \ {r}
             R2 == InRunning \ {r}
  <2>5. /\ IsQueue(waiting', W2) /\ IsQueue(running', R2)
        /\ W2 \ {r} = InWaiting \ {r} /\ R2 \ {r} = InRunning \ {r}
        /\ r \notin W2 /\ r \notin R2
    OBVIOUS
  <2> HIDE DEF W2, R2
  <2>6. Placed(seq', suspended', waiting', running', W2, R2)
    <3>1. MovesOne(r, seq, suspended, InWaiting, InRunning, seq', suspended', W2, R2)
      BY <2>2, <2>3, <2>4, <2>5 DEF MovesOne
    <3>2. QED
      BY <2>1, <2>5, <3>1, OnePlaced
  <2>7. QED
    BY <2>6 DEF W2, R2
<1>10. Homes' /\ InRunning' = InRunning \ {r}
  BY <1>9, Rehome
<1>11. Free' >= 0
  <2>1. \A s \in Request : context'[s] <= context[s]
    BY <1>2, <1>7
  <2>2. FreeIn(context) <= FreeIn(context')
    BY <1>2, <1>7, <2>1, PoolShrinks
  <2>3. FreeIn(context) >= 0 /\ FreeIn(context) \in Int /\ FreeIn(context') \in Int
    BY <1>2, <1>7, PoolSum DEF Sound, Pool, Free
  <2>4. QED
    BY <2>2, <2>3 DEF Free
<1>12. QED
  BY <1>3, <1>7, <1>8, <1>10, <1>11

\* No batch is being built when requests end.
LEMMA NoBatch ==
  ASSUME Sound, pc \in BeforeBatch \union Stalled, pc' \in BeforeBatch \union {"publish"},
         batch' = batch, decodes' = decodes, moved' = moved,
         \A s \in Request : seq'[s].scheduled = 0
  PROVE  Batches'
<1>1. ~moved /\ batch = <<>> /\ decodes = 0
  BY DEF Sound, Batches, BeforeBatch, Stalled
<1>2. pc' \notin Building \union {"sampled"}
  BY DEF BeforeBatch, Building
<1>3. ~moved' /\ batch' = <<>> /\ decodes' = 0
  BY <1>1
<1>4. QED
  BY <1>2, <1>3 DEF Batches

\* Before the batch is built nothing is scheduled.
LEMMA NothingScheduled ==
  ASSUME Sound, pc \in BeforeBatch \union Stalled
  PROVE  \A s \in Request : seq[s].scheduled = 0
BY DEF Sound, Batches, BeforeBatch, Stalled, Building

\* A request that is not in a queue.
LEMMA NotQueued ==
  ASSUME Sound, NEW r \in Request
  PROVE  /\ IsQueue(waiting, InWaiting) /\ IsQueue(running, InRunning)
         /\ InWaiting \intersect InRunning = {}
         /\ InWaiting \subseteq Request /\ InRunning \subseteq Request
         /\ suspended = {s \in Request : seq[s].status = "suspended"}
         /\ seq[r].status \notin {"waiting", "preempted"} => r \notin InWaiting
         /\ seq[r].status \notin {"running", "preempted", "suspended"} => r \notin InRunning
         /\ r \in InWaiting => r \notin suspended
<1>1. Placed(seq, suspended, waiting, running, InWaiting, InRunning)
  BY DEF Sound, Homes
<1>2. InWaiting \subseteq Request /\ InRunning \subseteq Request
  BY <1>1, PlacedFacts
<1>3. QED
  BY <1>1, <1>2 DEF Placed

\* add_request of a prompt beyond the pool, or a client that left before.
LEMMA SubmitFails ==
  ASSUME Sound, NEW r \in Request, pc = "loop", IsNext(r),
         seq' = [seq EXCEPT ![r] = Ended("failed")],
         finished' = finished \union {r}, handles' = handles \union {r},
         UNCHANGED <<setup, context, queueVars, storeVars, stepVars, aborted, pc, failures>>
  PROVE  Sound'
<1>1. /\ setup' = setup /\ failures' = failures /\ context' = context /\ waiting' = waiting /\ running' = running
      /\ suspended' = suspended /\ record' = record /\ restored' = restored
      /\ batch' = batch /\ decodes' = decodes /\ budget' = budget /\ freeLeft' = freeLeft
      /\ idx' = idx /\ moved' = moved /\ aborted' = aborted /\ pc' = pc
  BY DEF queueVars, storeVars, stepVars
<1>2. aborted = "no" /\ aborted' = "no"
  BY <1>1 DEF Sound, Aborts
<1>3. seq[r].status = "new" /\ "failed" \in Settled
  BY DEF IsNext, Settled
<1>4. /\ seq \in [Request -> Progress] /\ context \in [Request -> Int]
      /\ record \in [Request -> Checkpoint]
      /\ KVOf(setup.prompt[r], seq[r], context[r], record[r], Extra(r), failures)
  BY <1>2, RequestFacts DEF Sound, AllRequestsOK
<1>5. context[r] = NoKV
  BY <1>3, <1>4 DEF KVOf, Active
<1>6. context' = [context EXCEPT ![r] = NoKV]
  BY <1>1, <1>4, <1>5
<1>7. r \notin InWaiting /\ r \notin InRunning /\ r \notin suspended
  BY <1>3, NotQueued
<1>8. /\ IsQueue(waiting', InWaiting \ {r}) /\ IsQueue(running', InRunning \ {r})
      /\ suspended' = suspended \ {r}
  <2>1. InWaiting \ {r} = InWaiting /\ InRunning \ {r} = InRunning /\ suspended \ {r} = suspended
    BY <1>7
  <2>2. QED
    BY <1>1, <2>1, NotQueued
<1>9. /\ AllRequestsOK' /\ Homes' /\ Free' >= 0
      /\ (\A s \in Request : seq[s].scheduled = 0) => \A s \in Request : seq'[s].scheduled = 0
  BY <1>1, <1>2, <1>3, <1>4, <1>6, <1>8, OneEnds
<1>10. Types'
  BY <1>1 DEF Sound, Types
<1>11. Batches'
  <2>1. pc \in BeforeBatch
    BY DEF BeforeBatch
  <2>2. QED
    BY <1>1, <1>9, <2>1, NoBatch, NothingScheduled
<1>12. QED
  BY <1>1, <1>2, <1>9, <1>10, <1>11, NoLoop, FreeHolds, StillAlive DEF Sound

\* A request cancelled before the engine saw it fails at submission.
LEMMA SubmitCancelledKeeps ==
  ASSUME Sound, NEW r \in Request, SubmitCancelled(r)
  PROVE  Sound'
<1>1. /\ pc = "loop" /\ IsNext(r)
      /\ seq' = [seq EXCEPT ![r] = Ended("failed")]
      /\ finished' = finished \union {r} /\ handles' = handles \union {r}
      /\ UNCHANGED <<setup, context, queueVars, storeVars, stepVars, aborted, pc, failures>>
  BY DEF SubmitCancelled
<1>2. QED
  BY <1>1, SubmitFails

\* A submission joins waiting_ or fails.
LEMMA SubmitKeeps ==
  ASSUME Sound, NEW r \in Request, Submit(r)
  PROVE  Sound'
<1>1. CASE setup.prompt[r] > Capacity
  <2>1. /\ pc = "loop" /\ IsNext(r)
        /\ seq' = [seq EXCEPT ![r] = Ended("failed")]
        /\ finished' = finished \union {r} /\ handles' = handles \union {r}
        /\ UNCHANGED <<setup, context, queueVars, storeVars, stepVars, aborted, pc, failures>>
    BY <1>1 DEF Submit, AddRequest, queueVars
  <2>2. QED
    BY <2>1, SubmitFails
<1>2. CASE ~(setup.prompt[r] > Capacity)
  <2>1. /\ setup' = setup /\ failures' = failures /\ running' = running /\ finished' = finished
        /\ suspended' = suspended /\ record' = record /\ restored' = restored
        /\ batch' = batch /\ decodes' = decodes /\ budget' = budget /\ freeLeft' = freeLeft
        /\ idx' = idx /\ moved' = moved /\ aborted' = aborted /\ pc' = pc /\ pc = "loop"
        /\ IsNext(r) /\ handles' = handles \union {r}
        /\ seq' = [seq EXCEPT ![r].status = "waiting"]
        /\ context' = [context EXCEPT ![r] = 0]
        /\ waiting' = Enqueue(waiting, r)
    BY <1>2 DEF Submit, AddRequest, storeVars, stepVars
  <2>2. aborted = "no" /\ aborted' = "no"
    BY <2>1 DEF Sound, Aborts
  <2>3. Types /\ AllRequestsOK /\ Homes
    BY DEF Sound
  <2>4. /\ seq \in [Request -> Progress] /\ context \in [Request -> Int]
        /\ record \in [Request -> Checkpoint] /\ setup.prompt[r] \in Nat \ {0}
        /\ ShapeOf(setup.prompt[r], seq[r])
        /\ KVOf(setup.prompt[r], seq[r], context[r], record[r], Extra(r), failures)
    BY <2>2, <2>3, RequestFacts DEF AllRequestsOK
  <2>5. seq[r] = NewSeq /\ seq[r].status = "new" /\ context[r] = NoKV
    BY <2>1, <2>4 DEF IsNext, ShapeOf, KVOf, Active
  <2> DEFINE q == Submitted
  <2>6. /\ q \in Progress /\ q.status = "waiting" /\ q.scheduled = 0
        /\ ShapeOf(setup.prompt[r], q) /\ KVOf(setup.prompt[r], q, 0, record'[r], 0, failures)
    BY <2>4, SubmittedOK
  <2>7. seq' = [seq EXCEPT ![r] = q]
    BY <2>1, <2>5, Zenon DEF Submitted
  <2> HIDE DEF q
  <2>8. /\ seq' \in [Request -> Progress] /\ context' \in [Request -> Int]
        /\ seq'[r] = q /\ context'[r] = 0
        /\ \A s \in Request \ {r} : seq'[s] = seq[s] /\ context'[s] = context[s]
    BY <2>1, <2>4, <2>6, <2>7
  <2>9. AllRequestsOK'
    <3>1. pc # "sampled" /\ pc' # "sampled" /\ 0 >= NoKV
      BY <2>1 DEF NoKV
    <3>2. \A s \in Request \ {r} : record'[s] = record[s]
      BY <2>1
    <3>3. record' \in [Request -> Checkpoint]
      BY <2>1, <2>4
    <3>4. QED
      BY <2>1, <2>2, <2>3, <2>6, <2>8, <3>1, <3>2, <3>3, OneRequest
  <2>10. r \notin InWaiting /\ r \notin InRunning /\ r \notin suspended
    BY <2>5, NotQueued
  <2>11. Placed(seq', suspended', waiting', running', InWaiting \union {r}, InRunning)
    <3> DEFINE W2 == InWaiting \union {r}
    <3>1. IsQueue(waiting', W2) /\ IsQueue(running', InRunning)
      BY <2>1, <2>10, NotQueued, EnqueueQueue
    <3>2. W2 \ {r} = InWaiting \ {r} /\ r \in W2
      OBVIOUS
    <3>3. Placed(seq, suspended, waiting, running, InWaiting, InRunning)
      BY <2>3 DEF Homes
    <3>4. suspended \subseteq Request
      BY <3>3, PlacedFacts
    <3>5. seq'[r].status = "waiting"
      BY <2>6, <2>8
    <3>6. \A s \in Request \ {r} : seq'[s] = seq[s]
      BY <2>8
    <3> HIDE DEF W2
    <3>7. MovesOne(r, seq, suspended, InWaiting, InRunning, seq', suspended', W2, InRunning)
      BY <2>1, <2>10, <3>2, <3>4, <3>5, <3>6 DEF MovesOne, Active
    <3>8. Placed(seq', suspended', waiting', running', W2, InRunning)
      BY <3>1, <3>3, <3>7, OnePlaced
    <3>9. QED
      BY <3>8 DEF W2
  <2>12. Homes'
    BY <2>1, <2>11, Rehome
  <2>13. Free' >= 0
    <3>1. FreeIn(context') = FreeIn(context) - (Blocks(context'[r]) - Blocks(context[r]))
      BY <2>4, <2>8, PoolChange
    <3>2. FreeIn(context) \in Int /\ FreeIn(context) >= 0
      BY <2>4, PoolSum DEF Sound, Pool, Free
    <3>3. Blocks(context'[r]) = 0 /\ Blocks(context[r]) = 0
      BY <2>5, <2>8, BlocksNone
    <3>4. QED
      BY <3>1, <3>2, <3>3 DEF Free
  <2>14. Types'
    BY <2>1 DEF Sound, Types
  <2>15. Batches'
    <3>1. pc \in BeforeBatch
      BY <2>1 DEF BeforeBatch
    <3>2. \A s \in Request : seq'[s].scheduled = 0
      BY <2>6, <2>8, <3>1, NothingScheduled
    <3>3. QED
      BY <2>1, <3>1, <3>2, NoBatch
  <2>16. QED
    BY <2>1, <2>2, <2>9, <2>12, <2>13, <2>14, <2>15, NoLoop, FreeHolds, StillAlive DEF Sound
<1>3. QED
  BY <1>1, <1>2

\* A waiting request is cancelled.
LEMMA CancelWaitingKeeps ==
  ASSUME Sound, NEW r \in Request, pc = "cancel", pc' = "cancel", aborted = "no", handles' = handles, failures' = failures,
         CancelWaiting(r)
  PROVE  Sound'
<1>1. /\ setup' = setup /\ failures' = failures /\ running' = running /\ suspended' = suspended
      /\ batch' = batch /\ decodes' = decodes /\ budget' = budget /\ freeLeft' = freeLeft
      /\ idx' = idx /\ moved' = moved /\ aborted' = aborted
      /\ r \in InWaiting
      /\ waiting' = Only(waiting, Request \ {r})
      /\ seq' = [seq EXCEPT ![r] = Ended("failed")]
      /\ context' = [context EXCEPT ![r] = NoKV]
      /\ record' = [record EXCEPT ![r] = NoRecord]
      /\ restored' = restored \ {r} /\ finished' = finished \union {r}
  BY DEF CancelWaiting, stepVars, InWaiting
<1>2. /\ IsQueue(waiting, InWaiting) /\ IsQueue(running, InRunning)
      /\ InWaiting \intersect InRunning = {} /\ InWaiting \subseteq Request
      /\ r \notin suspended
  BY <1>1, NotQueued
<1>3. /\ IsQueue(waiting', InWaiting \ {r}) /\ IsQueue(running', InRunning \ {r})
      /\ suspended' = suspended \ {r}
  <2>1. InWaiting \intersect (Request \ {r}) = InWaiting \ {r}
    BY <1>2
  <2>2. InRunning \ {r} = InRunning /\ suspended \ {r} = suspended
    BY <1>1, <1>2
  <2>3. IsQueue(Only(waiting, Request \ {r}), InWaiting \intersect (Request \ {r}))
    BY <1>2, OnlyQueue
  <2>4. QED
    BY <1>1, <1>2, <2>1, <2>2, <2>3
<1>4. /\ record' \in [Request -> Checkpoint] /\ \A s \in Request \ {r} : record'[s] = record[s]
  <2>1. NoRecord \in Checkpoint
    BY RequestFacts, NewOK DEF Sound
  <2>2. record \in [Request -> Checkpoint]
    BY DEF Sound, AllRequestsOK
  <2>3. QED
    BY <1>1, <2>1, <2>2
<1>5. /\ AllRequestsOK' /\ Homes' /\ Free' >= 0
      /\ (\A s \in Request : seq[s].scheduled = 0) => \A s \in Request : seq'[s].scheduled = 0
  <2>1. "failed" \in Settled /\ pc # "sampled" /\ pc' # "sampled"
    BY DEF Settled
  <2>2. QED
    BY <1>1, <1>3, <1>4, <2>1, OneEnds
<1>6. Types'
  BY <1>1 DEF Sound, Types
<1>7. Batches'
  <2>1. pc \in BeforeBatch
    BY DEF BeforeBatch
  <2>2. QED
    BY <1>1, <1>5, <2>1, NoBatch, NothingScheduled
<1>8. QED
  BY <1>1, <1>5, <1>6, <1>7, NoLoop, FreeHolds, StillAlive DEF Sound

\* A suspended request is cancelled.
LEMMA CancelSuspendedKeeps ==
  ASSUME Sound, NEW r \in Request, pc = "cancel", aborted = "no", handles' = handles, failures' = failures,
         CancelSuspended(r)
  PROVE  Sound'
<1>1. /\ setup' = setup /\ failures' = failures /\ context' = context /\ running' = running /\ waiting' = waiting
      /\ batch' = batch /\ decodes' = decodes /\ budget' = budget /\ freeLeft' = freeLeft
      /\ idx' = idx /\ moved' = moved /\ aborted' = aborted /\ pc' = pc
      /\ r \in suspended /\ r \notin InWaiting /\ r \notin InRunning
      /\ suspended' = suspended \ {r}
      /\ seq' = [seq EXCEPT ![r] = Ended("erased")]
      /\ record' = [record EXCEPT ![r] = NoRecord]
      /\ restored' = restored /\ finished' = finished
  BY DEF CancelSuspended, queueVars, stepVars, InWaiting, InRunning
<1>2. /\ IsQueue(waiting, InWaiting) /\ IsQueue(running, InRunning)
      /\ seq[r].status = "suspended"
  BY <1>1, NotQueued
<1>3. IsQueue(waiting', InWaiting \ {r}) /\ IsQueue(running', InRunning \ {r})
  <2>1. InRunning \ {r} = InRunning /\ InWaiting \ {r} = InWaiting
    BY <1>1
  <2>2. QED
    BY <1>1, <1>2, <2>1
<1>4. /\ record' \in [Request -> Checkpoint] /\ \A s \in Request \ {r} : record'[s] = record[s]
  <2>1. NoRecord \in Checkpoint
    BY RequestFacts, NewOK DEF Sound
  <2>2. record \in [Request -> Checkpoint]
    BY DEF Sound, AllRequestsOK
  <2>3. QED
    BY <1>1, <2>1, <2>2
<1>5. context' = [context EXCEPT ![r] = NoKV]
  <2>1. KVOf(setup.prompt[r], seq[r], context[r], record[r], Extra(r), failures)
    BY RequestFacts DEF Sound
  <2>2. context[r] = NoKV
    BY <1>2, <2>1 DEF KVOf, Active
  <2>3. context \in [Request -> Int]
    BY DEF Sound, AllRequestsOK
  <2>4. QED
    BY <1>1, <2>2, <2>3
<1>6. /\ AllRequestsOK' /\ Homes' /\ Free' >= 0
      /\ (\A s \in Request : seq[s].scheduled = 0) => \A s \in Request : seq'[s].scheduled = 0
  <2>1. "erased" \in Settled /\ pc # "sampled" /\ pc' # "sampled"
    BY <1>1 DEF Settled
  <2>2. QED
    BY <1>1, <1>3, <1>4, <1>5, <2>1, OneEnds
<1>7. Types'
  BY <1>1 DEF Sound, Types
<1>8. Batches'
  <2>1. pc \in BeforeBatch
    BY DEF BeforeBatch
  <2>2. QED
    BY <1>1, <1>6, <2>1, NoBatch, NothingScheduled
<1>9. QED
  BY <1>1, <1>6, <1>7, <1>8, NoLoop, FreeHolds, StillAlive DEF Sound

\* What ends in running_; one that was saved has no handle to free.
LEMMA ReapEndedKeeps ==
  ASSUME Sound, aborted = "no", NEW r \in InRunning, ReapEnded(r, "failed"),
         setup' = setup, failures' = failures, waiting' = waiting, suspended' = suspended, handles' = handles,
         batch' = batch, decodes' = decodes, budget' = budget, freeLeft' = freeLeft,
         idx' = idx, moved' = moved,
         \/ pc = "cancel" /\ pc' = "cancel"
         \/ pc = "reject" /\ pc' = "publish"
  PROVE  Sound'
<1>1. /\ running' = Only(running, Request \ {r})
      /\ record' = [record EXCEPT ![r] = NoRecord]
      /\ restored' = restored \ {r}
  BY DEF ReapEnded
<1>2. /\ r \in Request
      /\ IsQueue(waiting, InWaiting) /\ IsQueue(running, InRunning)
      /\ InWaiting \intersect InRunning = {} /\ InRunning \subseteq Request
      /\ suspended = {s \in Request : seq[s].status = "suspended"}
  <2>1. InRunning \subseteq Request
    BY PlacedFacts DEF Sound, Homes
  <2>2. QED
    BY <2>1, NotQueued
<1>3. IsQueue(waiting', InWaiting \ {r}) /\ IsQueue(running', InRunning \ {r})
  <2>1. InRunning \intersect (Request \ {r}) = InRunning \ {r}
    BY <1>2
  <2>2. InWaiting \ {r} = InWaiting
    BY <1>2
  <2>3. IsQueue(Only(running, Request \ {r}), InRunning \intersect (Request \ {r}))
    BY <1>2, OnlyQueue
  <2>4. QED
    BY <1>1, <1>2, <2>1, <2>2, <2>3
<1>4. /\ record' \in [Request -> Checkpoint] /\ \A s \in Request \ {r} : record'[s] = record[s]
  <2>1. NoRecord \in Checkpoint
    BY <1>2, RequestFacts, NewOK DEF Sound
  <2>2. record \in [Request -> Checkpoint]
    BY DEF Sound, AllRequestsOK
  <2>3. QED
    BY <1>1, <2>1, <2>2
<1>5. /\ seq[r].status \in {"running", "preempted", "suspended"}
      /\ seq[r].status = "suspended" => setup.checkpoint
      /\ seq[r].status = "suspended" => ~InPrefill(setup.prompt[r], seq[r])
  BY <1>2 DEF Sound, Homes, Placed
<1>6. /\ KVOf(setup.prompt[r], seq[r], context[r], record[r], Extra(r), failures)
      /\ ShapeOf(setup.prompt[r], seq[r])
      /\ seq \in [Request -> Progress] /\ context \in [Request -> Int] /\ context[r] >= NoKV
  BY <1>2, RequestFacts DEF Sound, AllRequestsOK
<1>7. /\ pc \in BeforeBatch \union Stalled /\ pc' \in BeforeBatch \union {"publish"}
      /\ pc # "sampled" /\ pc' # "sampled"
      /\ pc' \notin {"ready", "reject", "decode", "prefill", "admit", "retry", "scheduled"}
  BY DEF BeforeBatch, Stalled
<1>8. CASE context[r] # NoKV
  <2>1. /\ seq' = [seq EXCEPT ![r] = Ended("failed")]
        /\ context' = [context EXCEPT ![r] = NoKV]
        /\ finished' = finished \union {r}
        /\ aborted' = "no"
    BY <1>8 DEF ReapEnded
  <2>2. suspended' = suspended \ {r}
    <3>1. r \notin suspended
      BY <1>2, <1>6, <1>8 DEF KVOf, Active
    <3>2. QED
      BY <3>1
  <2>3. /\ AllRequestsOK' /\ Homes' /\ Free' >= 0
        /\ (\A s \in Request : seq[s].scheduled = 0) => \A s \in Request : seq'[s].scheduled = 0
    <3>1. "failed" \in Settled
      BY DEF Settled
    <3>2. QED
      BY <1>2, <1>3, <1>4, <1>7, <2>1, <2>2, <3>1, OneEnds
  <2>4. Types'
    BY <1>1, <1>2, <1>7, <2>1 DEF Sound, Types, BeforeBatch
  <2>5. Batches'
    BY <1>7, <2>3, NoBatch, NothingScheduled
  <2>6. QED
    BY <1>7, <2>1, <2>3, <2>4, <2>5, NoLoop, FreeHolds, StillAlive DEF Sound
<1>9. CASE context[r] = NoKV
  <2>1. /\ seq' = seq /\ context' = context /\ finished' = finished /\ aborted' = "free"
    BY <1>9 DEF ReapEnded
  <2>2. seq[r].status = "suspended" /\ r \in suspended
    BY <1>2, <1>5, <1>6, <1>9 DEF KVOf, Active
  <2>3. AllRequestsOK'
    <3>1. Types /\ AllRequestsOK
      BY DEF Sound
    <3>2. aborted' # "no"
      BY <2>1
    <3>3. seq' \in [Request -> Progress] /\ context' \in [Request -> Int]
      BY <1>6, <2>1
    <3>4. \A s \in Request \ {r} : seq'[s] = seq[s] /\ context'[s] = context[s] /\ record'[s] = record[s]
      BY <1>4, <2>1
    <3>5. ShapeOf(setup.prompt[r], seq'[r]) /\ context'[r] >= NoKV
      BY <1>6, <2>1
    <3>6. QED
      BY <1>2, <1>4, <1>7, <3>1, <3>2, <3>3, <3>4, <3>5, OneRequest
  <2>4. Homes'
    <3> DEFINE R2 == InRunning \ {r}
    <3>1. Placed(seq, suspended, waiting, running, InWaiting, InRunning)
      BY DEF Sound, Homes
    <3>2. R2 \ {r} = InRunning \ {r} /\ r \notin R2 /\ IsQueue(running', R2)
      BY <1>3
    <3>3. IsQueue(waiting', InWaiting) /\ r \notin InWaiting
      BY <1>2
    <3>4. suspended' \subseteq Request
      BY <1>2
    <3> HIDE DEF R2
    <3>5. MovesOne(r, seq, suspended, InWaiting, InRunning, seq', suspended', InWaiting, R2)
      BY <1>5, <2>1, <2>2, <3>2, <3>3, <3>4 DEF MovesOne, Active
    <3>6. Placed(seq', suspended', waiting', running', InWaiting, R2)
      BY <1>2, <3>1, <3>2, <3>3, <3>5, OnePlaced
    <3>7. QED
      BY <3>6, Rehome
  <2>5. Types'
    BY <1>1, <1>2, <1>7, <2>1 DEF Sound, Types, BeforeBatch
  <2>6. Batches'
    BY <1>7, <2>1, NoBatch, NothingScheduled
  <2>7. Loops' /\ Pool'
    <3>1. Free' = Free /\ Free >= 0
      BY <2>1 DEF Free, Sound, Pool
    <3>2. QED
      BY <1>7, <3>1, NoLoop, FreeHolds
  <2>8. Aborts'
    BY <1>5, <2>1, <2>2 DEF Aborts, ProcessSurvives
  <2>9. QED
    BY <2>3, <2>4, <2>5, <2>6, <2>7, <2>8 DEF Sound
<1>10. QED
  BY <1>8, <1>9

\* A cancellation is flushed.
LEMMA CancelKeeps ==
  ASSUME Sound, NEW r \in Request, Cancel(r)
  PROVE  Sound'
<1>1. pc = "cancel" /\ aborted = "no" /\ handles' = handles /\ failures' = failures
  BY DEF Cancel, CancelRequest, engineVars
<1>2. CASE CancelWaiting(r)
  <2>1. pc' = "cancel"
    BY <1>1, <1>2 DEF CancelWaiting
  <2>2. QED
    BY <1>1, <1>2, <2>1, CancelWaitingKeeps
<1>3. CASE CancelRunning(r)
  <2>1. /\ r \in InRunning /\ ReapEnded(r, "failed")
        /\ setup' = setup /\ failures' = failures /\ waiting' = waiting /\ suspended' = suspended
        /\ batch' = batch /\ decodes' = decodes /\ budget' = budget /\ freeLeft' = freeLeft
        /\ idx' = idx /\ moved' = moved /\ pc' = "cancel"
    BY <1>1, <1>3 DEF CancelRunning, InRunning, stepVars
  <2>2. QED
    BY <1>1, <2>1, ReapEndedKeeps
<1>4. CASE CancelSuspended(r)
  BY <1>1, <1>4, CancelSuspendedKeeps
<1>5. QED
  BY <1>2, <1>3, <1>4 DEF Cancel, CancelRequest

\* A waiting request the pool can never hold is rejected.
LEMMA RejectWaitingKeeps ==
  ASSUME Sound, RejectWaiting, handles' = handles, failures' = failures
  PROVE  Sound'
<1> DEFINE r == Head(waiting)
<1>1. /\ setup' = setup /\ failures' = failures /\ running' = running /\ suspended' = suspended
      /\ record' = record /\ restored' = restored
      /\ batch' = batch /\ decodes' = decodes /\ budget' = budget /\ freeLeft' = freeLeft
      /\ idx' = idx /\ moved' = moved /\ aborted' = aborted
      /\ pc = "reject" /\ pc' = "publish" /\ waiting # <<>>
      /\ waiting' = Tail(waiting)
      /\ seq' = [seq EXCEPT ![r] = Ended("failed")]
      /\ context' = [context EXCEPT ![r] = NoKV]
      /\ finished' = finished \union {r}
      /\ aborted = "no"
  BY DEF RejectWaiting, FrontCannotStart, storeVars, stepVars
<1>2. aborted = "no" /\ aborted' = "no"
  BY <1>1
<1>3. /\ IsQueue(waiting, InWaiting) /\ IsQueue(running, InRunning)
      /\ InWaiting \intersect InRunning = {} /\ InWaiting \subseteq Request
  <2>1. Placed(seq, suspended, waiting, running, InWaiting, InRunning)
    BY DEF Sound, Homes
  <2>2. InWaiting \subseteq Request
    BY <2>1, PlacedFacts
  <2>3. QED
    BY <2>1, <2>2 DEF Placed
<1>4. r \in InWaiting /\ r \in Request /\ IsQueue(Tail(waiting), InWaiting \ {r})
  BY <1>1, <1>3, TailQueue
<1> HIDE DEF r
<1>5. r \notin suspended
  BY <1>4, NotQueued
<1>6. /\ IsQueue(waiting', InWaiting \ {r}) /\ IsQueue(running', InRunning \ {r})
      /\ suspended' = suspended \ {r}
  <2>1. InRunning \ {r} = InRunning /\ suspended \ {r} = suspended
    BY <1>3, <1>4, <1>5
  <2>2. QED
    BY <1>1, <1>3, <1>4, <2>1
<1>7. /\ record' \in [Request -> Checkpoint] /\ \A s \in Request \ {r} : record'[s] = record[s]
  BY <1>1 DEF Sound, AllRequestsOK
<1>8. /\ AllRequestsOK' /\ Homes' /\ Free' >= 0
      /\ (\A s \in Request : seq[s].scheduled = 0) => \A s \in Request : seq'[s].scheduled = 0
  <2>1. "failed" \in Settled /\ pc # "sampled" /\ pc' # "sampled"
    BY <1>1 DEF Settled
  <2>2. QED
    BY <1>1, <1>2, <1>4, <1>6, <1>7, <2>1, OneEnds
<1>9. Types'
  BY <1>1, <1>4 DEF Sound, Types
<1>10. Batches'
  <2>1. pc \in BeforeBatch \union Stalled /\ pc' \in BeforeBatch \union {"publish"}
    BY <1>1 DEF Stalled
  <2>2. QED
    BY <1>1, <1>8, <2>1, NoBatch, NothingScheduled
<1>11. QED
  BY <1>1, <1>2, <1>8, <1>9, <1>10, NoLoop, FreeHolds, StillAlive DEF Sound

\* A prefill that can make no progress fails.
LEMMA FailStalledPrefillKeeps ==
  ASSUME Sound, FailStalledPrefill, handles' = handles, failures' = failures
  PROVE  Sound'
<1> DEFINE i == Min(StalledPrefills)
<1>1. /\ setup' = setup /\ failures' = failures /\ waiting' = waiting /\ suspended' = suspended
      /\ batch' = batch /\ decodes' = decodes /\ budget' = budget /\ freeLeft' = freeLeft
      /\ idx' = idx /\ moved' = moved /\ pc = "reject" /\ pc' = "publish"
      /\ StalledPrefills # {} /\ ReapEnded(running[i], "failed")
  BY DEF FailStalledPrefill, stepVars
<1>2. aborted = "no"
  BY DEF FailStalledPrefill
<1>3. IsQueue(running, InRunning)
  BY DEF Sound, Homes, Placed
<1>4. running[i] \in InRunning
  <2>1. StalledPrefills \subseteq 1 .. Len(running) /\ Len(running) \in Nat
    BY <1>3, QueueFacts DEF StalledPrefills
  <2>2. StalledPrefills \subseteq Nat
    BY <2>1
  <2>3. i \in StalledPrefills
    BY <1>1, <2>2, MinIn
  <2>4. QED
    BY <1>3, <2>1, <2>3, QueueFacts
<1> HIDE DEF i
<1>5. QED
  BY <1>1, <1>2, <1>4, ReapEndedKeeps

-----------------------------------------------------------------------------
(* The start of a step: restore, reap, and the decode-ready requests.        *)

\* The pool when a saved sequence gets its handle back.
LEMMA RestoreFits ==
  ASSUME NEW ctx \in [Request -> Int], NEW new \in [Request -> Int], NEW r \in Request,
         \A s \in Request \ {r} : new[s] = ctx[s],
         ctx[r] = NoKV, Blocks(new[r]) <= FreeIn(ctx)
  PROVE  FreeIn(new) >= 0
<1>1. FreeIn(new) = FreeIn(ctx) - (Blocks(new[r]) - Blocks(ctx[r]))
  BY PoolChange
<1>2. FreeIn(ctx) \in Int /\ Blocks(ctx[r]) = 0 /\ Blocks(new[r]) \in Nat
  BY PoolSum, BlocksNone, BlocksLeast
<1>3. QED
  BY <1>1, <1>2

\* A checkpointed request is restored: its handle has what its record had.
LEMMA RestoreKeeps ==
  ASSUME Sound, setup' = setup, failures' = failures, pc = "schedule", pc' = "reap", aborted = "no", aborted' = "no",
         record' = record, CanRestore, Restore(Min(suspended))
  PROVE  /\ AllRequestsOK' /\ Homes' /\ Free' >= 0
         /\ \A s \in Request : seq'[s].scheduled = 0
         /\ restored' \subseteq Request
<1> DEFINE r == Min(suspended)
           k == record[r]
           q == [record[r].seq EXCEPT !.scheduled = 0]
           prefill == q.computed < setup.prompt[r] + (IF q.recompute THEN q.outputs ELSE 0)
           need == MoreBlocks(k.context, Max({0, setup.maxNew[r] - q.generated}))
           admitted == ~prefill /\ need <= Free - Blocks(k.context)
           status == IF admitted THEN "running" ELSE "waiting"
           tired == ~prefill /\ ~admitted
           s2 == Resumed(k, status, tired)
<1>1. /\ context' = [context EXCEPT ![r] = k.context]
      /\ suspended' = suspended \ {r} /\ restored' = restored \union {r}
      /\ seq' = [seq EXCEPT ![r] = [q EXCEPT !.status = status, !.tired = tired]]
      /\ waiting' = IF admitted THEN <<>> ELSE <<r>>
      /\ running' = IF admitted THEN <<r>> ELSE <<>>
  BY DEF Restore
<1>2. [q EXCEPT !.status = status, !.tired = tired] = s2
  BY Zenon DEF Resumed
<1>3. seq' = [seq EXCEPT ![r] = s2]
  <2> HIDE DEF r, q, status, tired, s2
  <2>1. QED
    BY <1>1, <1>2
<1>4. /\ waiting = <<>> /\ running = <<>> /\ suspended # {}
      /\ Blocks(k.context) <= Free
  BY DEF CanRestore
<1>5. Types /\ AllRequestsOK /\ Placed(seq, suspended, waiting, running, InWaiting, InRunning)
  BY DEF Sound, Homes
<1>6. r \in suspended /\ r \in Request /\ suspended \subseteq Request
  <2>1. suspended \subseteq Request
    BY <1>5, PlacedFacts
  <2>2. suspended \subseteq Nat
    BY <2>1, Positive
  <2>3. r \in suspended
    BY <1>4, <2>2, MinIn
  <2>4. QED
    BY <2>1, <2>3
<1>7. status \in {"running", "waiting"} /\ tired \in BOOLEAN
  OBVIOUS
<1>8. /\ q.computed = k.seq.computed /\ q.recompute = k.seq.recompute /\ q.outputs = k.seq.outputs
  <2>1. k.seq \in Progress
    BY <1>5, <1>6, RequestFacts DEF Checkpoint
  <2> DEFINE ks == k.seq
  <2>2. q = [ks EXCEPT !.scheduled = 0] /\ ks \in Progress
    BY <2>1
  <2> HIDE DEF q, ks
  <2>3. q.computed = ks.computed /\ q.recompute = ks.recompute /\ q.outputs = ks.outputs
    BY <2>2 DEF Progress
  <2>4. QED
    BY <2>3 DEF ks
<1>9. (status = "running" => admitted) /\ (admitted => ~prefill) /\ (~admitted => status = "waiting")
      /\ (admitted => status = "running")
  OBVIOUS
<1>10. prefill <=> q.computed < setup.prompt[r] + (IF q.recompute THEN q.outputs ELSE 0)
  OBVIOUS
<1> HIDE DEF r, k, q, prefill, need, admitted, status, tired, s2
<1>11. k = record[r] /\ s2 = Resumed(k, status, tired)
  BY DEF k, s2
<1>12. /\ setup.prompt[r] \in Nat \ {0} /\ seq[r] \in Progress
       /\ context[r] \in Int /\ k \in Checkpoint
       /\ ShapeOf(setup.prompt[r], seq[r])
       /\ KVOf(setup.prompt[r], seq[r], context[r], k, 0, failures)
       /\ seq[r].status = "suspended"
  <2>1. Extra(r) = 0
    BY DEF Extra
  <2>2. QED
    BY <1>5, <1>6, <1>11, <2>1, RequestFacts DEF Placed
<1>13. /\ s2 \in Progress /\ s2.status = status /\ s2.scheduled = 0
       /\ s2.computed = seq[r].computed /\ s2.recompute = seq[r].recompute
       /\ s2.outputs = seq[r].outputs
       /\ ShapeOf(setup.prompt[r], s2)
       /\ InPrefill(setup.prompt[r], s2) <=> InPrefill(setup.prompt[r], seq[r])
       /\ k.context \in Nat
       /\ KVOf(setup.prompt[r], s2, k.context, k, 0, failures)
  <2>1. \A p \in Nat \ {0}, x \in Progress, c \in Int, f \in Nat :
          /\ ShapeOf(p, x) /\ KVOf(p, x, c, k, 0, f) /\ x.status = "suspended"
          => /\ s2 \in Progress /\ s2.status = status /\ s2.scheduled = 0
             /\ s2.computed = x.computed /\ s2.recompute = x.recompute
             /\ s2.outputs = x.outputs
             /\ ShapeOf(p, s2)
             /\ InPrefill(p, s2) <=> InPrefill(p, x)
             /\ k.context \in Nat
             /\ KVOf(p, s2, k.context, k, 0, f)
    BY <1>7, <1>11, <1>12, RestoreOK
  <2>2. failures \in Nat
    BY <1>5 DEF Types
  <2>3. QED
    BY <2>1, <2>2, <1>12
<1>14. prefill <=> InPrefill(setup.prompt[r], seq[r])
  <2>1. k.seq.computed = seq[r].computed /\ k.seq.recompute = seq[r].recompute
        /\ k.seq.outputs = seq[r].outputs
    BY <1>12 DEF KVOf
  <2>2. QED
    BY <1>8, <1>10, <2>1 DEF InPrefill, Goal
<1>15. /\ seq \in [Request -> Progress] /\ context \in [Request -> Int]
       /\ record \in [Request -> Checkpoint] /\ context[r] = NoKV
  BY <1>5, <1>12 DEF AllRequestsOK, KVOf, Active
<1>16. /\ seq' \in [Request -> Progress] /\ context' \in [Request -> Int]
       /\ seq'[r] = s2 /\ context'[r] = k.context
       /\ \A x \in Request \ {r} : seq'[x] = seq[x] /\ context'[x] = context[x]
  BY <1>1, <1>3, <1>6, <1>13, <1>15
<1>17. AllRequestsOK'
  <2>1. pc # "sampled" /\ pc' # "sampled" /\ context'[r] >= NoKV
    BY <1>13, <1>16 DEF NoKV
  <2>2. record'[r] = k /\ \A x \in Request \ {r} : record'[x] = record[x]
    BY <1>11
  <2>3. QED
    BY <1>5, <1>6, <1>13, <1>15, <1>16, <2>1, <2>2, OneRequest
<1>18. InWaiting = {} /\ InRunning = {}
  BY <1>4, EmptyQueue DEF InWaiting, InRunning, IsQueue
<1>19. Homes'
  <2>1. suspended' \subseteq Request /\ r \notin suspended' /\ suspended' \ {r} = suspended \ {r}
    BY <1>1, <1>6
  <2>2. CASE admitted
    <3>1. waiting' = <<>> /\ running' = <<r>> /\ status = "running" /\ ~prefill
      BY <1>1, <1>9, <2>2
    <3>2. IsQueue(waiting', {}) /\ IsQueue(running', {r})
      BY <1>6, <3>1, EmptyQueue, SingleQueue
    <3>3. MovesOne(r, seq, suspended, InWaiting, InRunning, seq', suspended', {}, {r})
      BY <1>13, <1>16, <1>18, <2>1, <3>1 DEF MovesOne
    <3>4. Placed(seq', suspended', waiting', running', {}, {r})
      BY <1>5, <1>6, <3>2, <3>3, OnePlaced
    <3>5. QED
      BY <3>4, Rehome
  <2>3. CASE ~admitted
    <3>1. waiting' = <<r>> /\ running' = <<>> /\ status = "waiting"
      BY <1>1, <1>9, <2>3
    <3>2. IsQueue(waiting', {r}) /\ IsQueue(running', {})
      BY <1>6, <3>1, EmptyQueue, SingleQueue
    <3>3. MovesOne(r, seq, suspended, InWaiting, InRunning, seq', suspended', {r}, {})
      BY <1>13, <1>16, <1>18, <2>1, <3>1 DEF MovesOne
    <3>4. Placed(seq', suspended', waiting', running', {r}, {})
      BY <1>5, <1>6, <3>2, <3>3, OnePlaced
    <3>5. QED
      BY <3>4, Rehome
  <2>4. QED
    BY <2>2, <2>3
<1>20. Free' >= 0
  <2>1. Blocks(context'[r]) <= FreeIn(context)
    BY <1>4, <1>16 DEF Free
  <2>2. QED
    BY <1>6, <1>15, <1>16, <2>1, RestoreFits DEF Free
<1>21. \A x \in Request : seq'[x].scheduled = 0
  <2>1. \A x \in Request : seq[x].scheduled = 0
    BY NothingScheduled DEF BeforeBatch
  <2>2. QED
    BY <1>13, <1>16, <2>1
<1>22. restored' \subseteq Request
  BY <1>1, <1>5, <1>6 DEF Types
<1>23. QED
  BY <1>17, <1>19, <1>20, <1>21, <1>22

\* The other steps begin with no restore.
LEMMA RestKeeps ==
  ASSUME Sound, setup' = setup, failures' = failures, pc = "schedule", pc' = "reap", aborted = "no", aborted' = "no",
         record' = record, seq' = Rested(seq),
         UNCHANGED <<context, queueVars, suspended, restored>>
  PROVE  /\ AllRequestsOK' /\ Homes' /\ Free' >= 0
         /\ \A s \in Request : seq'[s].scheduled = 0
         /\ restored' \subseteq Request
<1>1. /\ context' = context /\ waiting' = waiting /\ running' = running
      /\ suspended' = suspended /\ restored' = restored
  BY DEF queueVars
<1>2. Types /\ AllRequestsOK /\ Placed(seq, suspended, waiting, running, InWaiting, InRunning)
  BY DEF Sound, Homes
<1>3. seq' = [s \in Request |-> Rest(seq[s])]
  BY DEF Rested, Rest
<1>4. ASSUME NEW s \in Request
      PROVE  /\ seq'[s] = Rest(seq[s])
             /\ seq'[s] \in Progress /\ seq'[s].status = seq[s].status
             /\ seq'[s].scheduled = seq[s].scheduled
             /\ ShapeOf(setup.prompt[s], seq'[s])
             /\ InPrefill(setup.prompt[s], seq'[s]) <=> InPrefill(setup.prompt[s], seq[s])
             /\ KVOf(setup.prompt[s], seq'[s], context[s], record[s], 0, failures)
  <2>1. seq'[s] = Rest(seq[s])
    BY <1>3
  <2>2. /\ setup.prompt[s] \in Nat \ {0} /\ seq[s] \in Progress
        /\ ShapeOf(setup.prompt[s], seq[s])
        /\ KVOf(setup.prompt[s], seq[s], context[s], record[s], 0, failures)
    <3>1. Extra(s) = 0
      BY DEF Extra
    <3>2. QED
      BY <1>2, <3>1, RequestFacts
  <2>3. QED
    BY <2>1, <2>2, RestedOK
<1>5. AllRequestsOK'
  <2>1. seq' \in [Request -> Progress]
    BY <1>3, <1>4
  <2>2. context' \in [Request -> Int] /\ record' \in [Request -> Checkpoint]
        /\ \A s \in Request : context'[s] >= NoKV
    BY <1>1, <1>2 DEF AllRequestsOK
  <2>3. \A s \in Request : Extra(s)' = 0
    BY DEF Extra
  <2>4. \A s \in Request : KVOf(setup'.prompt[s], seq'[s], context'[s], record'[s], 0, failures)
    BY <1>1, <1>4
  <2>5. \A s \in Request : ShapeOf(setup'.prompt[s], seq'[s])
    BY <1>4
  <2>6. QED
    BY <2>1, <2>2, <2>3, <2>4, <2>5 DEF AllRequestsOK
<1>6. Homes'
  <2>1. Placed(seq', suspended, waiting, running, InWaiting, InRunning)
    BY <1>2, <1>4, SamePlaced
  <2>2. Placed(seq', suspended', waiting', running', InWaiting, InRunning)
    BY <1>1, <2>1
  <2>3. QED
    BY <2>2, Rehome
<1>7. Free' >= 0
  BY <1>1 DEF Free, Sound, Pool
<1>8. \A x \in Request : seq'[x].scheduled = 0
  <2>1. \A x \in Request : seq[x].scheduled = 0
    BY NothingScheduled DEF BeforeBatch
  <2>2. QED
    BY <1>4, <2>1
<1>9. QED
  BY <1>1, <1>2, <1>5, <1>6, <1>7, <1>8 DEF Types

\* The step begins: a restore, or the reset of every request.
LEMMA BeginStepKeeps ==
  ASSUME Sound, BeginStep, handles' = handles, failures' = failures
  PROVE  Sound'
<1>1. /\ setup' = setup /\ failures' = failures /\ record' = record /\ finished' = finished /\ freeLeft' = freeLeft
      /\ idx' = idx /\ moved' = moved /\ aborted' = aborted
      /\ batch' = <<>> /\ decodes' = 0 /\ budget' = MaxBatchedTokens
      /\ pc = "schedule" /\ pc' = "reap" /\ aborted = "no"
  BY DEF BeginStep
<1>2. /\ AllRequestsOK' /\ Homes' /\ Free' >= 0
      /\ \A s \in Request : seq'[s].scheduled = 0
      /\ restored' \subseteq Request
  <2>1. CASE CanRestore /\ Restore(Min(suspended))
    BY <1>1, <2>1, RestoreKeeps
  <2>2. CASE seq' = Rested(seq) /\ UNCHANGED <<context, queueVars, suspended, restored>>
    BY <1>1, <2>2, RestKeeps
  <2>3. QED
    BY <2>1, <2>2 DEF BeginStep
<1>3. ~moved
  BY <1>1 DEF Sound, Batches
<1>4. Types'
  <2>1. batch' \in Seq(Row) /\ Len(batch') = 0
    BY <1>1
  <2>2. decodes' \in Nat /\ decodes' <= Len(batch')
    <3>1. decodes' = 0
      BY <1>1
    <3>2. QED
      BY <2>1, <3>1
  <2>3. budget' \in Int
    BY <1>1, Positive
  <2>4. QED
    BY <1>1, <1>2, <2>1, <2>2, <2>3 DEF Sound, Types, BeforeBatch
<1>5. Batches'
  BY <1>1, <1>2, <1>3 DEF Batches, BeforeBatch, Building, Stalled
<1>6. QED
  BY <1>1, <1>2, <1>4, <1>5, NoLoop, FreeHolds, StillAlive DEF Sound

\* Preempted and ended requests leave running_.
LEMMA ReapKeeps ==
  ASSUME Sound, handles' = handles, failures' = failures,
         running' = StillRunning(seq), waiting' = WaitingAgain(seq),
         UNCHANGED <<setup, seq, context, storeVars, finished, stepVars, aborted>>,
         \/ pc = "reap" /\ pc' = "ready"
         \/ pc = "stalled" /\ pc' = "reject"
  PROVE  Sound'
<1>1. /\ setup' = setup /\ failures' = failures /\ seq' = seq /\ context' = context
      /\ suspended' = suspended /\ record' = record
      /\ restored' = restored /\ finished' = finished
      /\ batch' = batch /\ decodes' = decodes /\ budget' = budget /\ freeLeft' = freeLeft
      /\ idx' = idx /\ moved' = moved /\ aborted' = aborted
  BY DEF storeVars, stepVars
<1>2. aborted = "no"
  BY DEF Sound, Aborts
<1>3. pc # "sampled" /\ pc' # "sampled"
  OBVIOUS
<1>4. AllRequestsOK'
  BY <1>1, <1>2, <1>3, NoRequest DEF Sound
<1> DEFINE R2 == {r \in InRunning : seq[r].status = "running"}
<1>5. Homes' /\ InRunning' = R2
  <2>1. Placed(seq, suspended, waiting, running, InWaiting, InRunning)
    BY DEF Sound, Homes
  <2>2. PICK W : Placed(seq, suspended, WaitingAgain(seq), StillRunning(seq), W, R2)
    BY <2>1, ReapPlaces
  <2> HIDE DEF R2
  <2>3. Placed(seq', suspended', waiting', running', W, R2)
    BY <1>1, <2>2
  <2>4. QED
    BY <1>1, <2>3, Rehome
<1>6. Types'
  BY <1>1 DEF Sound, Types, BeforeBatch, Stalled
<1>7. Batches'
  <2>1. pc \in BeforeBatch \union Stalled /\ pc' \in BeforeBatch \union Stalled
        /\ pc' \notin Building \union {"sampled"}
    BY DEF BeforeBatch, Stalled, Building
  <2>2. \A s \in Request : seq'[s].scheduled = 0
    BY <1>1, <2>1, NothingScheduled
  <2>3. batch' = <<>> /\ decodes' = 0
    BY <1>1, <2>1 DEF Sound, Batches
  <2>4. ~moved'
    BY <1>1 DEF Sound, Batches
  <2>5. QED
    BY <2>1, <2>2, <2>3, <2>4 DEF Batches
<1>8. Loops'
  BY <1>1, <1>5 DEF Loops
<1>9. Pool'
  <2>1. Free' = Free /\ Free >= 0
    BY <1>1 DEF Free, Sound, Pool
  <2>2. QED
    BY <2>1, FreeHolds
<1>10. QED
  BY <1>1, <1>2, <1>4, <1>5, <1>6, <1>7, <1>8, <1>9, StillAlive DEF Sound

-----------------------------------------------------------------------------
(* The decode loop.                                                          *)

\* Restored decodes join running_.
LEMMA AdmitDecodeReadyKeeps ==
  ASSUME Sound, AdmitDecodeReady, handles' = handles, failures' = failures
  PROVE  Sound'
<1> DEFINE D == DecodeReady
<1>1. /\ setup' = setup /\ failures' = failures /\ context' = context /\ suspended' = suspended /\ record' = record
      /\ restored' = restored /\ finished' = finished
      /\ batch' = batch /\ decodes' = decodes /\ budget' = budget /\ freeLeft' = freeLeft
      /\ idx' = 1 /\ moved' = moved /\ aborted' = aborted
      /\ pc = "ready" /\ pc' = "decode"
      /\ running' = running \o D
      /\ waiting' = Only(waiting, Request \ ToSet(D))
      /\ seq' = [r \in Request |->
                   IF r \in ToSet(D) THEN [seq[r] EXCEPT !.status = "running"] ELSE seq[r]]
  BY DEF AdmitDecodeReady, storeVars
<1> HIDE DEF D
<1>2. aborted = "no" /\ aborted' = "no"
  BY <1>1 DEF Sound, Aborts
<1>3. Types /\ AllRequestsOK /\ Placed(seq, suspended, waiting, running, InWaiting, InRunning)
  BY DEF Sound, Homes
<1>4. /\ IsQueue(waiting, InWaiting) /\ IsQueue(running, InRunning)
      /\ InWaiting \intersect InRunning = {}
      /\ InWaiting \subseteq Request /\ InRunning \subseteq Request
  BY <1>3, PlacedFacts DEF Placed
<1>5. PICK S \in SUBSET InWaiting : IsQueue(D, S) /\ \A r \in S : ~IsPrefill(r)
  <2>1. DecodeRoom \in Int /\ \A r \in Request : DecodeNeed(r) \in Int
    BY <1>3, <1>4, DecodeNumbers
  <2>2. QED
    BY <1>4, <2>1, ReadyQueue DEF D
<1>6. ToSet(D) = S /\ S \subseteq Request
  BY <1>4, <1>5 DEF IsQueue
<1>7. IsQueue(running', InRunning \union S)
  <2>1. InRunning \intersect S = {}
    BY <1>4
  <2>2. QED
    BY <1>1, <1>4, <1>5, <2>1, ConcatQueue
<1>8. IsQueue(waiting', InWaiting \ S)
  <2>1. InWaiting \intersect (Request \ S) = InWaiting \ S
    BY <1>4
  <2>2. QED
    BY <1>1, <1>4, <1>6, <2>1, OnlyQueue
<1>9. \A s \in Request : seq[s].scheduled = 0
  BY <1>1, NothingScheduled DEF BeforeBatch
<1>10. ASSUME NEW s \in Request
       PROVE  /\ setup.prompt[s] \in Nat \ {0} /\ seq[s] \in Progress
              /\ ShapeOf(setup.prompt[s], seq[s]) /\ context[s] >= NoKV
              /\ KVOf(setup.prompt[s], seq[s], context[s], record[s], 0, failures)
  <2>1. Extra(s) = 0
    BY <1>1 DEF Extra
  <2>2. QED
    BY <1>2, <1>3, <2>1, RequestFacts
<1>11. ASSUME NEW s \in S
       PROVE  /\ seq'[s] = Run(seq[s]) /\ seq'[s] \in Progress /\ seq'[s].status = "running"
              /\ seq'[s].scheduled = 0
              /\ ShapeOf(setup.prompt[s], seq'[s])
              /\ KVOf(setup.prompt[s], seq'[s], context[s], record[s], 0, failures)
  <2>1. seq'[s] = Run(seq[s])
    BY <1>1, <1>6 DEF Run
  <2>2. Active(seq[s])
    BY <1>3 DEF Placed, Active
  <2>3. s \in Request
    BY <1>6
  <2>4. QED
    BY <1>9, <1>10, <2>1, <2>2, <2>3, RunOK
<1>12. \A s \in Request \ S : seq'[s] = seq[s]
  BY <1>1, <1>6
<1>13. AllRequestsOK'
  <2>1. seq' \in [Request -> Progress]
    <3>1. \A s \in Request : seq'[s] \in Progress
      BY <1>10, <1>11, <1>12
    <3>2. QED
      BY <1>1, <3>1
  <2>2. context' \in [Request -> Int] /\ record' \in [Request -> Checkpoint]
        /\ \A s \in Request : context'[s] >= NoKV
    BY <1>1, <1>3 DEF AllRequestsOK
  <2>3. \A s \in Request : Extra(s)' = 0
    BY <1>1 DEF Extra
  <2>4. \A s \in Request : KVOf(setup'.prompt[s], seq'[s], context'[s], record'[s], 0, failures)
    BY <1>1, <1>10, <1>11, <1>12
  <2>5. \A s \in Request : ShapeOf(setup'.prompt[s], seq'[s])
    BY <1>1, <1>10, <1>11, <1>12
  <2>6. QED
    BY <2>1, <2>2, <2>3, <2>4, <2>5 DEF AllRequestsOK
<1>14. Placed(seq', suspended', waiting', running', InWaiting \ S, InRunning \union S)
  <2> DEFINE W2 == InWaiting \ S
             R2 == InRunning \union S
  <2>1. W2 \intersect R2 = {}
    BY <1>4
  <2>2. \A s \in W2 : s \in Request /\ seq'[s] = seq[s] /\ seq[s].status \in {"waiting", "preempted"}
    BY <1>3, <1>4, <1>12 DEF Placed
  <2>3. ASSUME NEW s \in R2
        PROVE  /\ seq'[s].status \in {"running", "preempted", "suspended"}
               /\ seq'[s].status = "suspended" => ~InPrefill(setup.prompt[s], seq'[s])
    <3>1. CASE s \in S
      BY <1>11, <3>1
    <3>2. CASE s \notin S
      <4>1. s \in InRunning /\ seq'[s] = seq[s]
        BY <1>4, <1>12, <3>2
      <4>2. QED
        BY <1>3, <4>1 DEF Placed
    <3>3. QED
      BY <3>1, <3>2
  <2>4. ASSUME NEW s \in Request
        PROVE  /\ Active(seq'[s]) => s \in W2 \union R2
               /\ seq'[s].status = "suspended" <=> seq[s].status = "suspended"
    <3>1. CASE s \in S
      BY <1>3, <1>11, <3>1 DEF Placed
    <3>2. CASE s \notin S
      <4>1. seq'[s] = seq[s]
        BY <1>12, <3>2
      <4>2. QED
        BY <1>3, <3>2, <4>1 DEF Placed
    <3>3. QED
      BY <3>1, <3>2
  <2>5. /\ suspended' = {s \in Request : seq'[s].status = "suspended"}
        /\ \A s \in Request : seq'[s].status = "suspended" => setup.checkpoint
    BY <1>1, <1>3, <2>4 DEF Placed
  <2>6. IsQueue(waiting', W2) /\ IsQueue(running', R2)
    BY <1>7, <1>8
  <2> HIDE DEF W2, R2
  <2>7. Placed(seq', suspended', waiting', running', W2, R2)
    BY <2>1, <2>2, <2>3, <2>4, <2>5, <2>6 DEF Placed
  <2>8. QED
    BY <2>7 DEF W2, R2
<1>15. Homes'
  BY <1>1, <1>14, Rehome
<1>16. Types'
  BY <1>1 DEF Sound, Types, Building
<1>17. \A s \in Request : seq'[s].scheduled = 0
  BY <1>9, <1>11, <1>12
<1>18. batch = <<>> /\ decodes = 0 /\ ~moved
  BY <1>1 DEF Sound, Batches, BeforeBatch
<1>19. Batches'
  <2>1. Len(batch') = 0
    BY <1>1, <1>18
  <2>2. BatchOK'
    BY <1>17, <2>1 DEF BatchOK, RowsOK
  <2>3. QED
    BY <1>1, <1>18, <2>2 DEF Batches, BeforeBatch, Building, Stalled
<1>20. Loops'
  <2>1. decodes' = Len(batch')
    BY <1>1, <1>18
  <2>2. ASSUME NEW i \in 1 .. Len(running')
        PROVE  seq'[running'[i]].status = "running" /\ seq'[running'[i]].scheduled = 0
    <3>1. running'[i] \in InRunning \union S /\ running'[i] \in Request
      BY <1>7, QueueFacts
    <3>2. \A s \in InRunning : seq[s].status = "running"
      BY <1>1 DEF Sound, Loops
    <3>3. QED
      BY <1>11, <1>12, <1>17, <3>1, <3>2
  <2>3. QED
    BY <1>1, <2>1, <2>2 DEF Loops
<1>21. Pool'
  <2>1. Free' = Free /\ Free >= 0
    BY <1>1 DEF Free, Sound, Pool
  <2>2. QED
    BY <1>1, <2>1, FreeHolds
<1>22. QED
  BY <1>2, <1>13, <1>15, <1>16, <1>19, <1>20, <1>21, StillAlive DEF Sound

\* The request that the decode loop is at.
LEMMA AtDecode ==
  ASSUME Sound, pc = "decode", aborted = "no", DecodesLeft
  PROVE  /\ Min(NextDecode) \in 1 .. Len(running) /\ idx <= Min(NextDecode)
         /\ Len(running) \in Nat
         /\ running[Min(NextDecode)] \in InRunning /\ running[Min(NextDecode)] \in Request
         /\ seq[running[Min(NextDecode)]].status = "running"
         /\ seq[running[Min(NextDecode)]].scheduled = 0
         /\ ~InPrefill(setup.prompt[running[Min(NextDecode)]], seq[running[Min(NextDecode)]])
         /\ \A i \in (Min(NextDecode) + 1) .. Len(running) :
              running[i] \in Request /\ running[i] # running[Min(NextDecode)]
<1> DEFINE m == Min(NextDecode)
           r == running[m]
<1>1. idx \in Nat \ {0} /\ Types /\ AllRequestsOK
  BY DEF Sound, Types
<1>2. IsQueue(running, InRunning)
  BY DEF Sound, Homes, Placed
<1>3. /\ Len(running) \in Nat
      /\ \A i \in 1 .. Len(running) : running[i] \in InRunning /\ running[i] \in Request
      /\ \A i, j \in 1 .. Len(running) : running[i] = running[j] => i = j
  BY <1>2, QueueFacts
<1>4. NextDecode \subseteq Nat /\ NextDecode # {}
  BY <1>1, <1>3 DEF NextDecode, DecodesLeft
<1>5. m \in NextDecode
  BY <1>4, MinIn
<1>6. m \in idx .. Len(running) /\ ~IsPrefill(r)
  BY <1>5 DEF NextDecode
<1>7. m \in 1 .. Len(running) /\ idx <= m
  BY <1>1, <1>3, <1>6
<1>8. r \in InRunning /\ r \in Request
  BY <1>3, <1>7
<1>9. seq[r].status = "running" /\ seq[r].scheduled = 0
  BY <1>6 DEF Sound, Loops
<1>10. ~InPrefill(setup.prompt[r], seq[r])
  BY <1>1, <1>6, <1>8, PrefillFacts
<1>11. \A i \in (m + 1) .. Len(running) : running[i] \in Request /\ running[i] # r
  BY <1>3, <1>7
<1>12. QED
  BY <1>3, <1>7, <1>8, <1>9, <1>10, <1>11

\* No row of the batch is a request without scheduled tokens.
LEMMA NotARow ==
  ASSUME NEW b \in Seq(Row), NEW d, NEW st, NEW R, RowsOK(b, d, st, R), NEW r, st[r].scheduled = 0
  PROVE  \A i \in 1 .. Len(b) : b[i].req # r /\ b[i].req \in R /\ b[i].req \in Request
<1>1. ASSUME NEW i \in 1 .. Len(b)
      PROVE  b[i].req # r /\ b[i].req \in R /\ b[i].req \in Request
  <2>1. b[i] \in Row
    OBVIOUS
  <2>2. b[i].req \in Request /\ b[i].tokens \in Nat \ {0}
    BY <2>1 DEF Row
  <2>3. RowOK(b, d, st, R, i)
    BY DEF RowsOK
  <2>4. QED
    BY <2>2, <2>3 DEF RowOK
<1>2. QED
  BY <1>1

\* The batch is right after a step that leaves its rows right.
LEMMA RowsNext ==
  ASSUME setup' = setup, NEW R, InRunning' = R, RowsOK(batch', decodes', seq', R)
  PROVE  BatchOK'
BY DEF BatchOK, RowsOK, RowOK

\* The batch of the step grows.
LEMMA BatchGrows ==
  ASSUME NEW r \in Request, NEW n, NEW R2,
         batch \in Seq(Row), RowsOK(batch, decodes, seq, InRunning),
         AddsRow(r, n, batch, decodes, seq, InRunning, batch', decodes', seq', R2)
  PROVE  /\ batch' \in Seq(Row) /\ Len(batch') = Len(batch) + 1
         /\ decodes' <= Len(batch') /\ RowsOK(batch', decodes', seq', R2)
BY RowsGrow

\* A decode gets its token.
LEMMA DecodeRow ==
  ASSUME Sound, setup' = setup, failures' = failures, pc = "decode", pc' = "decode", aborted = "no", aborted' = "no",
         NEW r \in Request, r \in InRunning, seq[r].status = "running", seq[r].scheduled = 0,
         ~InPrefill(setup.prompt[r], seq[r]),
         MoreBlocks(context[r], 1) <= Free,
         context' = [context EXCEPT ![r] = @ + 1],
         seq' = [seq EXCEPT ![r].status = "running", ![r].scheduled = 1],
         batch' = Append(batch, [req |-> r, tokens |-> 1]), decodes' = decodes + 1,
         moved' = moved,
         waiting' = waiting, running' = running, suspended' = suspended, record' = record
  PROVE  /\ AllRequestsOK' /\ Homes' /\ Batches' /\ Free' >= 0
         /\ batch' \in Seq(Row) /\ decodes' \in Nat /\ decodes' = Len(batch')
         /\ \A s \in Request \ {r} : seq'[s] = seq[s]
<1>1. Types /\ AllRequestsOK /\ Placed(seq, suspended, waiting, running, InWaiting, InRunning)
  BY DEF Sound, Homes
<1>2. /\ seq \in [Request -> Progress] /\ context \in [Request -> Int]
      /\ record \in [Request -> Checkpoint] /\ setup.prompt[r] \in Nat \ {0}
      /\ ShapeOf(setup.prompt[r], seq[r])
      /\ KVOf(setup.prompt[r], seq[r], context[r], record[r], 0, failures)
      /\ Active(seq[r])
  <2>1. Extra(r) = 0
    BY DEF Extra
  <2>2. QED
    BY <1>1, <2>1, RequestFacts DEF AllRequestsOK, Active
<1> DEFINE q == Rowed(seq[r], 1)
<1>3. /\ q \in Progress /\ q.status = "running" /\ q.scheduled = 1
      /\ ShapeOf(setup.prompt[r], q) /\ ~InPrefill(setup.prompt[r], q)
      /\ KVOf(setup.prompt[r], q, context[r] + 1, record[r], 0, failures)
  <2>1. q \in Progress /\ q.status = "running" /\ q.scheduled = 1
    <3>1. seq[r] \in Progress /\ 1 \in Nat
      BY <1>2
    <3>2. QED
      BY <3>1, RowedFields
  <2>2. /\ ShapeOf(setup.prompt[r], q) /\ ~InPrefill(setup.prompt[r], q)
        /\ KVOf(setup.prompt[r], q, context[r] + 1, record[r], 0, failures)
    <3>1. seq[r] \in Progress /\ context[r] \in Int /\ failures \in Nat
      BY <1>1, <1>2 DEF Types
    <3>2. \A c \in Int, f \in Nat :
            KVOf(setup.prompt[r], seq[r], c, record[r], 0, f) =>
              /\ ShapeOf(setup.prompt[r], q) /\ ~InPrefill(setup.prompt[r], q)
              /\ KVOf(setup.prompt[r], q, c + 1, record[r], 0, f)
      BY <1>2, <3>1, DecodeRowOK
    <3>3. QED
      BY <1>2, <3>1, <3>2
  <2>3. QED
    BY <2>1, <2>2
<1>4. seq' = [seq EXCEPT ![r] = q]
  BY Zenon DEF Rowed
<1> HIDE DEF q
<1>5. /\ seq' \in [Request -> Progress] /\ context' \in [Request -> Int]
      /\ seq'[r] = q /\ context'[r] = context[r] + 1
      /\ \A s \in Request \ {r} : seq'[s] = seq[s] /\ context'[s] = context[s]
  <2>1. context[r] + 1 \in Int /\ context' = [context EXCEPT ![r] = context[r] + 1]
    BY <1>2
  <2>2. seq' \in [Request -> Progress] /\ seq'[r] = q /\ \A s \in Request \ {r} : seq'[s] = seq[s]
    BY <1>2, <1>3, <1>4, ZenonT(60)
  <2> DEFINE c == context[r] + 1
  <2>3. context' = [context EXCEPT ![r] = c] /\ c \in Int
    BY <2>1
  <2> HIDE DEF c
  <2>4. /\ context' \in [Request -> Int] /\ context'[r] = c
        /\ \A s \in Request \ {r} : context'[s] = context[s]
    BY <1>2, <2>3
  <2>5. QED
    BY <2>2, <2>4 DEF c
<1>6. AllRequestsOK'
  <2>1. pc # "sampled" /\ pc' # "sampled"
    OBVIOUS
  <2>2. context'[r] >= NoKV
    BY <1>1, <1>2, <1>5, RequestFacts DEF NoKV
  <2>3. record'[r] = record[r] /\ \A x \in Request \ {r} : record'[x] = record[x]
    OBVIOUS
  <2>4. QED
    BY <1>1, <1>2, <1>3, <1>5, <2>1, <2>2, <2>3, OneRequest
<1>7. Homes' /\ InRunning' = InRunning
  <2>1. r \notin InWaiting /\ r \notin suspended
    BY <1>1 DEF Placed
  <2>2. IsQueue(waiting', InWaiting) /\ IsQueue(running', InRunning) /\ suspended \subseteq Request
    BY <1>1, PlacedFacts DEF Placed
  <2>3. MovesOne(r, seq, suspended, InWaiting, InRunning, seq', suspended', InWaiting, InRunning)
    BY <1>3, <1>5, <2>1, <2>2 DEF MovesOne
  <2>4. Placed(seq', suspended', waiting', running', InWaiting, InRunning)
    BY <1>1, <2>2, <2>3, OnePlaced
  <2>5. QED
    BY <2>4, Rehome
<1>8. ~moved /\ RowsOK(batch, decodes, seq, InRunning) /\ decodes = Len(batch)
  BY DEF Sound, Batches, Building, Loops, BatchOK
<1>9. /\ batch' \in Seq(Row) /\ Len(batch') = Len(batch) + 1 /\ decodes' <= Len(batch')
      /\ RowsOK(batch', decodes', seq', InRunning)
  <2>1. batch \in Seq(Row) /\ decodes \in Nat /\ setup \in Setup /\ decodes <= Len(batch)
    BY <1>1 DEF Types
  <2>2. decodes' \in Nat
    BY <2>1
  <2>3. 1 \in Nat \ {0}
    OBVIOUS
  <2>4. \A s \in Request \ {r} : seq'[s] = seq[s]
    BY <1>5
  <2>5. seq'[r].status = "running" /\ seq'[r].scheduled = 1 /\ ~InPrefill(setup.prompt[r], seq'[r])
    BY <1>3, <1>5
  <2>6. QED
    <3>1. AddsRow(r, 1, batch, decodes, seq, InRunning, batch', decodes', seq', InRunning)
      BY <1>8, <2>1, <2>2, <2>3, <2>4, <2>5 DEF AddsRow
    <3>2. QED
      BY <1>8, <2>1, <3>1, BatchGrows, ZenonT(60)
<1>10. decodes' \in Nat /\ decodes' = Len(batch')
  BY <1>1, <1>8, <1>9 DEF Types
<1>11. Batches'
  <2>1. BatchOK'
    <3>1. RowsOK(batch', decodes', seq', InRunning) /\ InRunning' = InRunning
      BY <1>7, <1>9
    <3>2. QED
      BY <3>1, RowsNext, Zenon
  <2>2. ~moved'
    BY <1>8
  <2>3. QED
    BY <2>1, <2>2 DEF Batches, BeforeBatch, Building, Stalled
<1>12. Free' >= 0
  <2>1. FreeIn(context') = FreeIn(context) - (Blocks(context'[r]) - Blocks(context[r]))
    <3>1. /\ context \in [Request -> Int] /\ context' \in [Request -> Int]
          /\ \A s \in Request \ {r} : context'[s] = context[s]
      BY <1>2, <1>5, Zenon
    <3>2. QED
      BY <3>1, PoolChange, Zenon
  <2>2. Blocks(context'[r]) - Blocks(context[r]) = MoreBlocks(context[r], 1)
    BY <1>5 DEF MoreBlocks
  <2>3. FreeIn(context) \in Int /\ MoreBlocks(context[r], 1) <= FreeIn(context)
    BY <1>2, PoolSum DEF Free
  <2>4. MoreBlocks(context[r], 1) \in Int
    <3>1. context[r] \in Int /\ context'[r] \in Int
      BY <1>2, <1>5
    <3>2. Blocks(context'[r]) \in Nat /\ Blocks(context[r]) \in Nat
      BY <3>1, BlocksLeast
    <3>3. QED
      BY <2>2, <3>2
  <2>5. QED
    BY <2>1, <2>2, <2>3, <2>4 DEF Free
<1>13. QED
  BY <1>5, <1>6, <1>7, <1>9, <1>10, <1>11, <1>12

\* A decode that gets no block is preempted.
LEMMA DecodePreempted ==
  ASSUME Sound, setup' = setup, failures' = failures, pc = "decode", pc' = "decode", aborted = "no",
         NEW r \in Request, r \in InRunning, seq[r].status = "running", seq[r].scheduled = 0,
         ~InPrefill(setup.prompt[r], seq[r]),
         PreemptSequence(r),
         batch' = batch, decodes' = decodes, moved' = moved,
         waiting' = waiting, running' = running
  PROVE  /\ AllRequestsOK' /\ Homes' /\ Batches' /\ Free' >= 0 /\ aborted' = "no"
         /\ \A s \in Request \ {r} : seq'[s] = seq[s]
<1>1. Types /\ AllRequestsOK /\ Homes /\ Placed(seq, suspended, waiting, running, InWaiting, InRunning)
  BY DEF Sound, Homes
<1>2. Preempts(r)
  <2>1. pc # "sampled" /\ seq[r].status # "preempted"
    OBVIOUS
  <2>2. QED
    BY <1>1, <2>1, PreemptLeaves
<1>3. aborted' = "no"
  <2>1. context[r] # NoKV
    BY <1>1, RequestFacts DEF KVOf, Active
  <2>2. QED
    BY <1>2, <2>1 DEF Preempts
<1>4. AllRequestsOK'
  <2>1. pc # "sampled" /\ pc' # "sampled"
    OBVIOUS
  <2>2. QED
    BY <1>1, <1>2, <1>3, <2>1, OneRequest DEF Preempts
<1>5. Homes' /\ InRunning' = InRunning
  <2>1. r \notin InWaiting
    BY <1>1 DEF Placed
  <2>2. IsQueue(waiting', InWaiting) /\ IsQueue(running', InRunning)
    BY <1>1 DEF Placed
  <2>3. MovesOne(r, seq, suspended, InWaiting, InRunning, seq', suspended', InWaiting, InRunning)
    BY <1>2, <2>1 DEF MovesOne, Preempts
  <2>4. Placed(seq', suspended', waiting', running', InWaiting, InRunning)
    BY <1>1, <2>2, <2>3, OnePlaced
  <2>5. QED
    BY <2>4, Rehome
<1>6. Batches'
  <2>1. ~moved /\ RowsOK(batch, decodes, seq, InRunning)
    BY DEF Sound, Batches, Building, BatchOK
  <2>2. batch \in Seq(Row) /\ decodes \in Nat
    BY <1>1 DEF Types
  <2>3. \A i \in 1 .. Len(batch) : batch[i].req # r /\ batch[i].req \in InRunning
    BY <2>1, <2>2, NotARow
  <2>4. RowsOK(batch, decodes, seq', InRunning)
    BY <1>2, <2>1, <2>2, <2>3, RowsStay DEF Preempts
  <2>5. BatchOK'
    BY <1>5, <2>4 DEF BatchOK, RowsOK, RowOK
  <2>6. QED
    BY <2>1, <2>5 DEF Batches, BeforeBatch, Building, Stalled
<1>7. Free' >= 0
  <2>1. context \in [Request -> Int] /\ context' \in [Request -> Int]
    BY <1>1, <1>2 DEF AllRequestsOK, Preempts
  <2>2. FreeIn(context) <= FreeIn(context')
    BY <1>2, <2>1, PoolShrinks DEF Preempts
  <2>3. FreeIn(context) >= 0 /\ FreeIn(context) \in Int /\ FreeIn(context') \in Int
    BY <2>1, PoolSum DEF Sound, Pool, Free
  <2>4. QED
    BY <2>2, <2>3 DEF Free
<1>8. QED
  BY <1>2, <1>3, <1>4, <1>5, <1>6, <1>7 DEF Preempts

\* A decode gets its row, or gives way when the pool is dry.
LEMMA ScheduleDecodeKeeps ==
  ASSUME Sound, ScheduleDecode, handles' = handles, failures' = failures
  PROVE  Sound'
<1> DEFINE m == Min(NextDecode)
           r == running[m]
<1>1. /\ setup' = setup /\ failures' = failures /\ waiting' = waiting /\ running' = running
      /\ restored' = restored /\ finished' = finished /\ freeLeft' = freeLeft
      /\ moved' = moved /\ pc' = pc /\ pc = "decode" /\ aborted = "no" /\ DecodesLeft
      /\ idx' = m + 1
  BY DEF ScheduleDecode, queueVars
<1>2. \/ /\ MoreBlocks(context[r], 1) <= Free
         /\ context' = [context EXCEPT ![r] = @ + 1]
         /\ seq' = [seq EXCEPT ![r].status = "running", ![r].scheduled = 1]
         /\ batch' = Append(batch, [req |-> r, tokens |-> 1])
         /\ decodes' = decodes + 1
         /\ budget' = budget - 1
         /\ suspended' = suspended /\ record' = record /\ aborted' = aborted
      \/ /\ PreemptSequence(r)
         /\ batch' = batch /\ decodes' = decodes /\ budget' = budget
  BY DEF ScheduleDecode
<1>3. /\ m \in 1 .. Len(running) /\ idx <= m /\ Len(running) \in Nat
      /\ r \in InRunning /\ r \in Request
      /\ seq[r].status = "running" /\ seq[r].scheduled = 0
      /\ ~InPrefill(setup.prompt[r], seq[r])
      /\ \A i \in (m + 1) .. Len(running) : running[i] \in Request /\ running[i] # r
  BY <1>1, AtDecode
<1> HIDE DEF m, r
<1>4. /\ AllRequestsOK' /\ Homes' /\ Batches' /\ Free' >= 0 /\ aborted' = "no"
      /\ \A s \in Request \ {r} : seq'[s] = seq[s]
      /\ batch' \in Seq(Row) /\ decodes' \in Nat /\ decodes' = Len(batch') /\ budget' \in Int
  <2>1. batch \in Seq(Row) /\ decodes \in Nat /\ decodes = Len(batch) /\ budget \in Int
    BY <1>1 DEF Sound, Types, Loops
  <2>2. CASE /\ MoreBlocks(context[r], 1) <= Free
             /\ context' = [context EXCEPT ![r] = @ + 1]
             /\ seq' = [seq EXCEPT ![r].status = "running", ![r].scheduled = 1]
             /\ batch' = Append(batch, [req |-> r, tokens |-> 1])
             /\ decodes' = decodes + 1
             /\ budget' = budget - 1
             /\ suspended' = suspended /\ record' = record /\ aborted' = aborted
    <3>1. budget' \in Int
      BY <2>1, <2>2
    <3>2. QED
      BY <1>1, <1>3, <2>2, <3>1, DecodeRow
  <2>3. CASE PreemptSequence(r) /\ batch' = batch /\ decodes' = decodes /\ budget' = budget
    <3>1. QED
      BY <1>1, <1>3, <2>1, <2>3, DecodePreempted
  <2>4. QED
    BY <1>2, <2>2, <2>3
<1>5. Types'
  <2>1. idx' \in Nat \ {0} /\ decodes' <= Len(batch')
    BY <1>1, <1>3, <1>4
  <2>2. pc' \in Building
    BY <1>1 DEF Building
  <2>3. QED
    BY <1>1, <1>4, <2>1, <2>2 DEF Sound, Types
<1>6. Loops'
  <2>1. \A i \in (m + 1) .. Len(running) :
          seq'[running[i]].status = "running" /\ seq'[running[i]].scheduled = 0
    <3>1. ASSUME NEW i \in (m + 1) .. Len(running)
          PROVE  seq'[running[i]].status = "running" /\ seq'[running[i]].scheduled = 0
      <4>1. running[i] \in Request \ {r} /\ i \in idx .. Len(running)
        BY <1>3 DEF Sound, Types
      <4>2. seq[running[i]].status = "running" /\ seq[running[i]].scheduled = 0
        BY <1>1, <4>1 DEF Sound, Loops
      <4>3. QED
        BY <1>4, <4>1, <4>2
    <3>2. QED
      BY <3>1
  <2>2. QED
    BY <1>1, <1>4, <2>1 DEF Loops
<1>7. Pool'
  BY <1>1, <1>4, FreeHolds
<1>8. QED
  BY <1>4, <1>5, <1>6, <1>7, StillAlive DEF Sound

-----------------------------------------------------------------------------
(* Chunks of prefills, of running sequences and of the front of waiting_.    *)

\* What the batch reserves is typed.
LEMMA ReservedType ==
  ASSUME Types, AllRequestsOK
  PROVE  Reserved \in [Request -> Int]
<1>1. \A s \in Request : context[s] \in Int /\ seq[s].scheduled \in Nat
  BY RequestFacts
<1>2. QED
  BY <1>1 DEF Reserved

\* What a chunk takes from the free blocks is what the model will reserve for it.
LEMMA ChunkReserved ==
  ASSUME Types, AllRequestsOK, Reserved' \in [Request -> Int],
         NEW r \in Request, NEW n \in Nat \ {0}, seq[r].scheduled = 0,
         RowsOK(batch, decodes, seq, InRunning),
         batch' = Append(batch, [req |-> r, tokens |-> n]),
         decodes' = decodes, context' = context,
         seq'[r].scheduled = n, \A s \in Request \ {r} : seq'[s] = seq[s],
         FreeIn(Reserved) = freeLeft, freeLeft' = freeLeft - MoreBlocks(context[r], n)
  PROVE  FreeIn(Reserved') = freeLeft'
<1> DEFINE row == [req |-> r, tokens |-> n]
           l == Len(batch)
<1>1. batch \in Seq(Row) /\ decodes \in Nat /\ decodes <= l /\ l \in Nat
  BY DEF Types
<1>2. row \in Row /\ row.req = r
  BY DEF Row
<1>3. batch' = Append(batch, row)
  OBVIOUS
<1> HIDE DEF row
<1>4. /\ Len(batch') = l + 1 /\ batch'[l + 1] = row
      /\ \A i \in 1 .. l : batch'[i] = batch[i]
  BY <1>1, <1>2, <1>3
<1>5. \A i \in 1 .. l : batch[i].req # r
  BY <1>1, NotARow
<1> HIDE DEF l
<1>6. PrefillRequests = {batch[i].req : i \in (decodes + 1) .. l}
  BY DEF PrefillRequests, l
<1>7. PrefillRequests' = {batch'[i].req : i \in (decodes + 1) .. (l + 1)}
  BY <1>4 DEF PrefillRequests
<1>8. r \notin PrefillRequests
  BY <1>1, <1>5, <1>6
<1>9. r \in PrefillRequests'
  <2>1. l + 1 \in (decodes + 1) .. (l + 1) /\ batch'[l + 1].req = r
    BY <1>1, <1>2, <1>4
  <2>2. QED
    BY <1>7, <2>1
<1>10. ASSUME NEW s \in Request \ {r}
       PROVE  s \in PrefillRequests' <=> s \in PrefillRequests
  <2>1. ASSUME s \in PrefillRequests
        PROVE  s \in PrefillRequests'
    <3>1. PICK i \in (decodes + 1) .. l : batch[i].req = s
      BY <1>6, <2>1
    <3>2. i \in (decodes + 1) .. (l + 1) /\ batch'[i] = batch[i]
      BY <1>1, <1>4, <3>1
    <3>3. QED
      BY <1>7, <3>1, <3>2
  <2>2. ASSUME s \in PrefillRequests'
        PROVE  s \in PrefillRequests
    <3>1. PICK i \in (decodes + 1) .. (l + 1) : batch'[i].req = s
      BY <1>7, <2>2
    <3>2. i # l + 1
      BY <1>2, <1>4, <3>1
    <3>3. i \in (decodes + 1) .. l /\ batch'[i] = batch[i]
      BY <1>1, <1>4, <3>1, <3>2
    <3>4. QED
      BY <1>6, <3>1, <3>3
  <2>3. QED
    BY <2>1, <2>2
<1>11. context[r] \in Int
  BY RequestFacts
<1>12. Reserved[r] = context[r]
  BY <1>8 DEF Reserved
<1>13. Reserved'[r] = context[r] + n
  BY <1>9 DEF Reserved
<1>14. \A s \in Request \ {r} : Reserved'[s] = Reserved[s]
  BY <1>10 DEF Reserved
<1>15. Reserved \in [Request -> Int]
  BY ReservedType
<1> DEFINE new == Reserved'
           old == Reserved
<1>16. /\ new \in [Request -> Int] /\ old \in [Request -> Int]
       /\ \A s \in Request \ {r} : new[s] = old[s]
       /\ new[r] = context[r] + n /\ old[r] = context[r]
       /\ FreeIn(old) = freeLeft
  BY <1>12, <1>13, <1>14, <1>15
<1> HIDE DEF new, old
<1>17. FreeIn(new) = FreeIn(old) - (Blocks(new[r]) - Blocks(old[r]))
  BY <1>16, PoolChange
<1>18. FreeIn(new) = freeLeft - (Blocks(context[r] + n) - Blocks(context[r]))
  BY <1>16, <1>17
<1>19. QED
  BY <1>18 DEF MoreBlocks, new

\* A chunk that is granted becomes a row of the batch.
LEMMA ChunkRow ==
  ASSUME Sound, setup' = setup, failures' = failures,
         pc \in {"prefill", "admit", "retry"}, pc' \in {"prefill", "admit"}, aborted = "no",
         NEW r \in Request, NEW n \in Nat \ {0}, n <= Remaining(r),
         Active(seq[r]), IsPrefill(r), seq[r].scheduled = 0, TakeChunk(r, n),
         decodes' = decodes, context' = context, record' = record
  PROVE  /\ AllRequestsOK' /\ seq' \in [Request -> Progress]
         /\ seq'[r].status = "running" /\ seq'[r].scheduled = n
         /\ InPrefill(setup.prompt[r], seq'[r])
         /\ \A s \in Request \ {r} : seq'[s] = seq[s]
         /\ batch' = Append(batch, [req |-> r, tokens |-> n])
         /\ batch' \in Seq(Row) /\ decodes' <= Len(batch') /\ batch' # <<>>
         /\ budget' \in Int /\ freeLeft' \in Int
         /\ freeLeft' = freeLeft - MoreBlocks(context[r], n)
         /\ Free' >= 0
<1>1. Types /\ AllRequestsOK
  BY DEF Sound
<1>2. /\ seq \in [Request -> Progress] /\ context \in [Request -> Int]
      /\ record \in [Request -> Checkpoint] /\ setup.prompt[r] \in Nat \ {0}
      /\ ShapeOf(setup.prompt[r], seq[r])
      /\ KVOf(setup.prompt[r], seq[r], context[r], record[r], 0, failures)
      /\ context[r] \in Int /\ context[r] >= NoKV
      /\ seq[r].computed \in Nat
  <2>1. Extra(r) = 0
    BY DEF Extra
  <2>2. QED
    BY <1>1, <2>1, RequestFacts DEF AllRequestsOK
<1>3. /\ InPrefill(setup.prompt[r], seq[r])
      /\ seq[r].computed + n <= Goal(setup.prompt[r], seq[r])
  <2>1. /\ IsPrefill(r) <=> InPrefill(setup.prompt[r], seq[r])
        /\ Remaining(r) = Goal(setup.prompt[r], seq[r]) - seq[r].computed
        /\ Target(r) = Goal(setup.prompt[r], seq[r]) /\ Target(r) \in Nat
    BY <1>1, PrefillFacts
  <2>2. QED
    BY <1>2, <2>1
<1> DEFINE q == Rowed(seq[r], n)
           row == [req |-> r, tokens |-> n]
<1>4. /\ q \in Progress /\ q.status = "running" /\ q.scheduled = n
      /\ ShapeOf(setup.prompt[r], q) /\ InPrefill(setup.prompt[r], q)
      /\ KVOf(setup.prompt[r], q, context[r], record[r], 0, failures)
  <2>1. n \in Nat /\ seq[r] \in Progress
    BY <1>2
  <2>2. q \in Progress /\ q.status = "running" /\ q.scheduled = n
    BY <2>1, RowedFields
  <2>3. Active(seq[r]) /\ seq[r].scheduled = 0
    OBVIOUS
  <2>4. setup.prompt[r] \in Nat \ {0} /\ ShapeOf(setup.prompt[r], seq[r])
    BY <1>2
  <2>5. /\ ShapeOf(setup.prompt[r], q) /\ InPrefill(setup.prompt[r], q)
        /\ KVOf(setup.prompt[r], seq[r], context[r], record[r], 0, failures)
             => KVOf(setup.prompt[r], q, context[r], record[r], 0, failures)
    BY <1>3, <2>1, <2>3, <2>4, ChunkRowOK
  <2>6. QED
    BY <1>2, <2>2, <2>5
<1>5. /\ seq' = [seq EXCEPT ![r].status = "running", ![r].scheduled = n]
      /\ batch' = Append(batch, row)
      /\ budget' = budget - n
      /\ freeLeft' = freeLeft - MoreBlocks(context[r], n)
  BY DEF TakeChunk
<1>6. seq' = [seq EXCEPT ![r] = q]
  BY <1>5, Zenon DEF Rowed
<1> HIDE DEF q
<1>7. /\ seq' \in [Request -> Progress] /\ seq'[r] = q
      /\ \A s \in Request \ {r} : seq'[s] = seq[s]
  BY <1>2, <1>4, <1>6
<1>8. AllRequestsOK'
  <2>1. pc # "sampled" /\ pc' # "sampled"
    OBVIOUS
  <2>2. /\ record'[r] = record[r] /\ \A x \in Request \ {r} : record'[x] = record[x]
        /\ context'[r] = context[r] /\ \A x \in Request \ {r} : context'[x] = context[x]
        /\ context' \in [Request -> Int] /\ record' \in [Request -> Checkpoint]
    BY <1>2
  <2>3. \A x \in Request \ {r} : seq'[x] = seq[x] /\ context'[x] = context[x] /\ record'[x] = record[x]
    BY <1>7, <2>2
  <2>4. QED
    BY <1>1, <1>2, <1>4, <1>7, <2>1, <2>2, <2>3, OneRequest
<1>9. row \in Row /\ batch \in Seq(Row) /\ decodes \in Nat /\ decodes <= Len(batch)
  BY <1>1 DEF Row, Types
<1>10. batch' \in Seq(Row) /\ Len(batch') = Len(batch) + 1
  <2> HIDE DEF row
  <2>1. QED
    BY <1>5, <1>9
<1>11. decodes' <= Len(batch') /\ batch' # <<>>
  BY <1>9, <1>10
<1>12. MoreBlocks(context[r], n) \in Int /\ budget \in Int /\ freeLeft \in Int
  <2>1. Blocks(context[r] + n) \in Nat /\ Blocks(context[r]) \in Nat
    BY <1>2, BlocksLeast
  <2>2. QED
    BY <1>1, <2>1 DEF MoreBlocks, Types
<1>13. budget' \in Int /\ freeLeft' \in Int
  BY <1>5, <1>12
<1>14. Free' >= 0
  BY DEF Free, Sound, Pool
<1>15. seq'[r].status = "running" /\ seq'[r].scheduled = n /\ InPrefill(setup.prompt[r], seq'[r])
  BY <1>4, <1>7
<1>16. QED
  BY <1>5, <1>7, <1>8, <1>10, <1>11, <1>13, <1>14, <1>15

\* A chunk taken keeps the requests, the queues and the batch.
LEMMA ChunkTaken ==
  ASSUME Sound, setup' = setup, failures' = failures,
         pc \in {"prefill", "admit", "retry"}, pc' \in {"prefill", "admit"}, aborted = "no",
         NEW r \in Request, NEW n \in Nat \ {0}, n <= Remaining(r),
         freeLeft >= 0 => MoreBlocks(context[r], n) <= freeLeft,
         Active(seq[r]), IsPrefill(r), seq[r].scheduled = 0, TakeChunk(r, n),
         IsQueue(waiting', InWaiting \ {r}), IsQueue(running', InRunning \union {r}),
         decodes' = decodes, moved' = moved, context' = context,
         suspended' = suspended, record' = record
  PROVE  /\ AllRequestsOK' /\ Homes'
         /\ batch' \in Seq(Row) /\ decodes' <= Len(batch') /\ batch' # <<>>
         /\ budget' \in Int /\ freeLeft' \in Int
         /\ \A s \in Request \ {r} : seq'[s] = seq[s]
         /\ ~moved => BatchOK'
         /\ Free' >= 0
         /\ ~setup.priority => freeLeft' >= 0 /\ FreeIn(Reserved)' = freeLeft'
<1>1. Types /\ AllRequestsOK /\ Placed(seq, suspended, waiting, running, InWaiting, InRunning)
  BY DEF Sound, Homes
<1>2. /\ AllRequestsOK' /\ seq' \in [Request -> Progress]
      /\ seq'[r].status = "running" /\ seq'[r].scheduled = n
      /\ InPrefill(setup.prompt[r], seq'[r])
      /\ \A s \in Request \ {r} : seq'[s] = seq[s]
      /\ batch' = Append(batch, [req |-> r, tokens |-> n])
      /\ batch' \in Seq(Row) /\ decodes' <= Len(batch') /\ batch' # <<>>
      /\ budget' \in Int /\ freeLeft' \in Int
      /\ freeLeft' = freeLeft - MoreBlocks(context[r], n)
      /\ Free' >= 0
  BY ChunkRow
<1>3. Homes' /\ InRunning' = InRunning \union {r}
  <2> DEFINE W2 == InWaiting \ {r}
             R2 == InRunning \union {r}
  <2>1. r \notin W2 /\ r \in R2 /\ W2 \ {r} = InWaiting \ {r} /\ R2 \ {r} = InRunning \ {r}
        /\ IsQueue(waiting', W2) /\ IsQueue(running', R2)
    OBVIOUS
  <2>2. r \notin suspended /\ suspended \subseteq Request
    BY <1>1, PlacedFacts DEF Placed, Active
  <2> HIDE DEF W2, R2
  <2>3. MovesOne(r, seq, suspended, InWaiting, InRunning, seq', suspended', W2, R2)
    BY <1>2, <2>1, <2>2 DEF MovesOne
  <2>4. Placed(seq', suspended', waiting', running', W2, R2)
    BY <1>1, <2>1, <2>3, OnePlaced
  <2>5. QED
    BY <2>4, Rehome DEF R2
<1>4. batch \in Seq(Row) /\ decodes \in Nat /\ decodes <= Len(batch)
  BY <1>1 DEF Types
<1>5. ASSUME ~moved
      PROVE  RowsOK(batch, decodes, seq, InRunning) /\ BatchOK'
  <2>1. RowsOK(batch, decodes, seq, InRunning)
    BY <1>5 DEF Sound, Batches, Building, BatchOK
  <2> DEFINE R2 == InRunning \union {r}
  <2>2. InRunning \subseteq R2 /\ r \in R2 /\ R2 = InRunning'
    BY <1>3
  <2> HIDE DEF R2
  <2>3. decodes' \in Nat
    BY <1>4
  <2>4. AddsRow(r, n, batch, decodes, seq, InRunning, batch', decodes', seq', R2)
    BY <1>2, <1>4, <2>2, <2>3 DEF AddsRow
  <2>5. RowsOK(batch', decodes', seq', R2)
    BY <1>4, <2>1, <2>4, BatchGrows
  <2>6. BatchOK'
    BY <2>2, <2>5, RowsNext, Zenon
  <2>7. QED
    BY <2>1, <2>6
<1>6. ASSUME ~setup.priority
      PROVE  freeLeft' >= 0 /\ FreeIn(Reserved)' = freeLeft'
  <2>1. freeLeft >= 0 /\ FreeIn(Reserved) = freeLeft
    BY <1>6 DEF Sound, Pool
  <2>2. ~moved
    BY <1>6 DEF Sound, Batches
  <2>3. freeLeft' >= 0
    <3>1. freeLeft \in Int /\ MoreBlocks(context[r], n) \in Int
      <4>1. context[r] \in Int
        BY <1>1, RequestFacts
      <4>2. Blocks(context[r] + n) \in Nat /\ Blocks(context[r]) \in Nat
        BY <4>1, BlocksLeast
      <4>3. QED
        BY <1>1, <4>2 DEF MoreBlocks, Types
    <3>2. QED
      BY <1>2, <2>1, <3>1
  <2>4. Reserved' \in [Request -> Int]
    <3>1. \A s \in Request : context'[s] \in Int /\ seq'[s] \in Progress
      BY <1>1, <1>2, RequestFacts
    <3>2. \A s \in Request : seq'[s].scheduled \in Nat
      BY <3>1 DEF Progress
    <3>3. QED
      BY <3>1, <3>2 DEF Reserved
  <2>5. FreeIn(Reserved') = freeLeft'
    BY <1>1, <1>2, <1>5, <2>1, <2>2, <2>4, ChunkReserved
  <2>6. QED
    BY <2>3, <2>5, ReservedNext
<1>7. QED
  BY <1>2, <1>3, <1>5, <1>6

\* The request that the loop over the running prefills takes a chunk of.
LEMMA AtPrefill ==
  ASSUME Sound, pc = "prefill", NextPrefill # {}
  PROVE  /\ Min(NextPrefill) \in 1 .. Len(running) /\ idx <= Min(NextPrefill)
         /\ Len(running) \in Nat
         /\ running[Min(NextPrefill)] \in InRunning /\ running[Min(NextPrefill)] \in Request
         /\ Active(seq[running[Min(NextPrefill)]])
         /\ seq[running[Min(NextPrefill)]].status = "running"
         /\ seq[running[Min(NextPrefill)]].scheduled = 0
         /\ IsPrefill(running[Min(NextPrefill)])
         /\ RunningChunk(running[Min(NextPrefill)]) > 0
         /\ \A i \in (Min(NextPrefill) + 1) .. Len(running) :
              running[i] \in Request /\ running[i] # running[Min(NextPrefill)]
<1> DEFINE m == Min(NextPrefill)
           r == running[m]
<1>1. idx \in Nat \ {0} /\ Types /\ AllRequestsOK
  BY DEF Sound, Types
<1>2. IsQueue(running, InRunning)
  BY DEF Sound, Homes, Placed
<1>3. /\ Len(running) \in Nat
      /\ \A i \in 1 .. Len(running) : running[i] \in InRunning /\ running[i] \in Request
      /\ \A i, j \in 1 .. Len(running) : running[i] = running[j] => i = j
  BY <1>2, QueueFacts
<1>4. NextPrefill \subseteq Nat /\ NextPrefill # {}
  BY <1>1, <1>3 DEF NextPrefill
<1>5. m \in NextPrefill
  BY <1>4, MinIn
<1>6. m \in idx .. Len(running) /\ seq[r].status # "preempted" /\ IsPrefill(r) /\ RunningChunk(r) > 0
  BY <1>5 DEF NextPrefill, CanScheduleNow
<1>7. m \in 1 .. Len(running) /\ idx <= m
  BY <1>1, <1>3, <1>6
<1>8. r \in InRunning /\ r \in Request
  BY <1>3, <1>7
<1>9. InPrefill(setup.prompt[r], seq[r])
  BY <1>1, <1>6, <1>8, PrefillFacts
<1>10. seq[r].scheduled = 0
  BY <1>6, <1>9 DEF Sound, Loops
<1>11. seq[r].status = "running"
  BY <1>6, <1>8, <1>9 DEF Sound, Homes, Placed
<1>12. \A i \in (m + 1) .. Len(running) : running[i] \in Request /\ running[i] # r
  BY <1>3, <1>7
<1>13. QED
  BY <1>3, <1>6, <1>7, <1>8, <1>10, <1>11, <1>12 DEF Active

\* A chunk that FitChunk cuts fits the request and the free blocks.
LEMMA ChunkFits ==
  ASSUME Sound, NEW r \in Request, aborted = "no", Active(seq[r]), pc # "sampled",
         NEW n, n = FitChunk(context[r], WantedChunk(r), freeLeft), n > 0
  PROVE  /\ n \in Nat \ {0} /\ n <= Remaining(r)
         /\ freeLeft >= 0 => MoreBlocks(context[r], n) <= freeLeft
<1>1. Types /\ AllRequestsOK /\ freeLeft \in Int
  BY DEF Sound, Types
<1>2. context[r] \in Nat
  BY <1>1, RequestFacts DEF KVOf, NoKV
<1>3. WantedChunk(r) \in Int /\ WantedChunk(r) <= Remaining(r) /\ Remaining(r) \in Int
  BY <1>1, WantedFits, PrefillFacts
<1> DEFINE want == WantedChunk(r)
           held == context[r]
<1> HIDE DEF want, held
<1>4. /\ FitChunk(held, want, freeLeft) \in Int
      /\ FitChunk(held, want, freeLeft) > 0 => FitChunk(held, want, freeLeft) <= want
      /\ freeLeft >= 0 => MoreBlocks(held, FitChunk(held, want, freeLeft)) <= freeLeft
  <2>1. held \in Nat /\ want \in Int
    BY <1>2, <1>3 DEF held, want
  <2>2. QED
    BY <1>1, <2>1, FitChunkFits
<1>5. n = FitChunk(held, want, freeLeft)
  BY DEF held, want
<1>6. n \in Int /\ n <= want /\ (freeLeft >= 0 => MoreBlocks(held, n) <= freeLeft)
  BY <1>4, <1>5
<1>7. n <= Remaining(r)
  BY <1>3, <1>6 DEF want
<1>8. QED
  BY <1>6, <1>7 DEF held

\* A running prefill gets its next chunk.
LEMMA ScheduleRunningPrefillKeeps ==
  ASSUME Sound, ScheduleRunningPrefill, handles' = handles, failures' = failures
  PROVE  Sound'
<1> DEFINE m == Min(NextPrefill)
           r == running[m]
           n == RunningChunk(r)
<1>1. /\ setup' = setup /\ failures' = failures /\ context' = context /\ waiting' = waiting /\ running' = running
      /\ suspended' = suspended /\ record' = record /\ restored' = restored
      /\ finished' = finished /\ decodes' = decodes /\ moved' = moved /\ aborted' = aborted
      /\ pc' = pc /\ pc = "prefill" /\ NextPrefill # {}
      /\ TakeChunk(r, n) /\ idx' = m + 1
  BY DEF ScheduleRunningPrefill, queueVars, storeVars
<1>2. /\ m \in 1 .. Len(running) /\ idx <= m /\ Len(running) \in Nat
      /\ r \in InRunning /\ r \in Request
      /\ Active(seq[r]) /\ seq[r].status = "running" /\ seq[r].scheduled = 0 /\ IsPrefill(r)
      /\ n > 0
      /\ \A i \in (m + 1) .. Len(running) : running[i] \in Request /\ running[i] # r
  BY <1>1, AtPrefill
<1>3. aborted = "no" /\ ~moved
  BY <1>1 DEF Sound, Aborts, Batches
<1>4. n = FitChunk(context[r], WantedChunk(r), freeLeft)
  BY DEF RunningChunk
<1> HIDE DEF m, r, n
<1>5. /\ n \in Nat \ {0} /\ n <= Remaining(r)
      /\ freeLeft >= 0 => MoreBlocks(context[r], n) <= freeLeft
  BY <1>1, <1>2, <1>3, <1>4, ChunkFits
<1>6. /\ IsQueue(waiting', InWaiting \ {r}) /\ IsQueue(running', InRunning \union {r})
      /\ InRunning \union {r} = InRunning
  <2>1. r \notin InWaiting /\ IsQueue(waiting, InWaiting) /\ IsQueue(running, InRunning)
    BY <1>2 DEF Sound, Homes, Placed
  <2>2. InWaiting \ {r} = InWaiting /\ InRunning \union {r} = InRunning
    BY <1>2, <2>1
  <2>3. QED
    BY <1>1, <2>1, <2>2
<1>7. /\ AllRequestsOK' /\ Homes'
      /\ batch' \in Seq(Row) /\ decodes' <= Len(batch') /\ batch' # <<>>
      /\ budget' \in Int /\ freeLeft' \in Int
      /\ \A s \in Request \ {r} : seq'[s] = seq[s]
      /\ ~moved => BatchOK'
      /\ Free' >= 0
      /\ ~setup.priority => freeLeft' >= 0 /\ FreeIn(Reserved)' = freeLeft'
  <2>1. pc \in {"prefill", "admit", "retry"} /\ pc' \in {"prefill", "admit"} /\ aborted' = "no"
    BY <1>1, <1>3
  <2>2. QED
    BY <1>1, <1>2, <1>3, <1>5, <1>6, <2>1, ChunkTaken
<1>8. Types'
  <2>1. idx' \in Nat \ {0} /\ pc' \in Building
    BY <1>1, <1>2 DEF Building
  <2>2. QED
    BY <1>1, <1>7, <2>1 DEF Sound, Types
<1>9. Batches'
  <2>1. ~moved'
    BY <1>1, <1>3
  <2>2. BatchOK' /\ pc' \in Building /\ pc' \notin BeforeBatch \union Stalled
    BY <1>1, <1>3, <1>7 DEF Building, BeforeBatch, Stalled
  <2>3. QED
    BY <2>1, <2>2 DEF Batches
<1>10. Loops'
  <2>1. ASSUME NEW i \in (m + 1) .. Len(running),
               InPrefill(setup.prompt[running[i]], seq'[running[i]])
        PROVE  seq'[running[i]].scheduled = 0
    <3>1. running[i] \in Request \ {r} /\ i \in idx .. Len(running)
      BY <1>2 DEF Sound, Types
    <3>2. seq'[running[i]] = seq[running[i]]
      BY <1>7, <3>1
    <3>3. QED
      BY <1>1, <2>1, <3>1, <3>2 DEF Sound, Loops
  <2>2. QED
    BY <1>1, <2>1 DEF Loops
<1>11. Pool'
  BY <1>1, <1>7 DEF Pool
<1>12. QED
  BY <1>1, <1>3, <1>7, <1>8, <1>9, <1>10, <1>11, StillAlive DEF Sound

\* The element of waiting_ that admission refers to is one.
LEMMA CandidateWaits ==
  ASSUME Sound, pc \in {"admit", "retry"}, idx # 0, Considered
  PROVE  /\ Candidate \in InWaiting /\ Candidate \in Request
         /\ idx \in 1 .. Len(waiting) /\ waiting # <<>>
         /\ idx # 1 => setup.priority
<1>1. IsQueue(waiting, InWaiting) /\ InWaiting \subseteq Request
  BY NotQueued DEF Sound, Homes, Placed, IsQueue
<1>2. /\ Len(waiting) \in Nat /\ (waiting # <<>> => Len(waiting) # 0)
      /\ \A i \in 1 .. Len(waiting) : waiting[i] \in InWaiting
  BY <1>1, QueueFacts, EmptySeq
<1>3. idx \in 1 .. Len(waiting) /\ (idx # 1 => setup.priority)
  <2>1. idx \in Nat
    BY DEF Sound, Types
  <2>2. CASE pc = "admit"
    <3>1. idx = 1 /\ waiting # <<>>
      BY <2>2 DEF Sound, Loops, Considered, FrontReady
    <3>2. QED
      BY <1>2, <3>1
  <2>3. CASE pc = "retry"
    <3>1. setup.priority /\ idx <= Len(waiting)
      BY <2>3 DEF Sound, Loops
    <3>2. QED
      BY <1>2, <2>1, <3>1
  <2>4. QED
    BY <2>2, <2>3
<1>4. Candidate \in InWaiting
  BY <1>2, <1>3 DEF Candidate
<1>5. waiting # <<>>
  BY <1>2, <1>3, EmptySeq
<1>6. QED
  BY <1>1, <1>3, <1>4, <1>5

\* A chunk is admitted of it.
LEMMA AtFront ==
  ASSUME Sound, aborted = "no", pc \in {"admit", "retry"}, idx # 0, Considered, FrontChunk > 0
  PROVE  /\ Candidate \in InWaiting /\ Candidate \in Request
         /\ Candidate \notin InRunning
         /\ Active(seq[Candidate]) /\ seq[Candidate].scheduled = 0
         /\ IsPrefill(Candidate)
         /\ FrontChunk = FitChunk(context[Candidate], WantedChunk(Candidate), freeLeft)
         /\ idx = 1 => IsQueue(Tail(waiting), InWaiting \ {Candidate})
         /\ idx # 1 => setup.priority
         /\ IsQueue(Append(running, Candidate), InRunning \union {Candidate})
         /\ waiting # <<>>
<1> DEFINE r == Candidate
<1>1. /\ Types /\ AllRequestsOK /\ IsQueue(waiting, InWaiting) /\ IsQueue(running, InRunning)
      /\ InWaiting \intersect InRunning = {} /\ InWaiting \subseteq Request
      /\ \A s \in InWaiting : seq[s].status \in {"waiting", "preempted"}
  BY NotQueued DEF Sound, Homes, Placed, IsQueue
<1>2. r \in InWaiting /\ r \in Request /\ waiting # <<>> /\ (idx # 1 => setup.priority)
  BY CandidateWaits
<1>3. ASSUME idx = 1
      PROVE  IsQueue(Tail(waiting), InWaiting \ {r})
  <2>1. r = Head(waiting)
    BY <1>3 DEF Candidate
  <2>2. QED
    BY <1>1, <1>2, <2>1, TailQueue
<1>4. r \notin InRunning /\ seq[r].status \in {"waiting", "preempted"}
  BY <1>1, <1>2
<1> HIDE DEF r
<1>5. IsQueue(Append(running, r), InRunning \union {r})
  BY <1>1, <1>2, <1>4, AppendQueue
<1>6. seq[r].scheduled = 0
  BY <1>1, <1>2, <1>4, RequestFacts DEF ShapeOf
<1>7. FrontChunk = FitChunk(context[r], WantedChunk(r), freeLeft)
  BY DEF FrontChunk, AdmitChunk, r
<1>8. IsPrefill(r)
  <2>1. WantedChunk(r) \in Int /\ WantedChunk(r) <= Remaining(r)
    BY <1>1, <1>2, WantedFits
  <2>2. WantedChunk(r) > 0
    BY <1>7, <2>1 DEF FitChunk
  <2>3. seq[r].computed \in Nat /\ Target(r) \in Nat /\ Remaining(r) = Target(r) - seq[r].computed
    BY <1>1, <1>2, RequestFacts, PrefillFacts DEF Remaining
  <2>4. QED
    BY <2>1, <2>2, <2>3 DEF IsPrefill
<1>9. QED
  BY <1>2, <1>3, <1>4, <1>5, <1>6, <1>7, <1>8 DEF Active, r

\* The front of waiting_ gets its first chunk.
LEMMA AdmitPrefillKeeps ==
  ASSUME Sound, AdmitPrefill, handles' = handles, failures' = failures
  PROVE  IInv'
<1> DEFINE r == Candidate
           n == FrontChunk
<1>1. /\ setup' = setup /\ failures' = failures /\ context' = context
      /\ suspended' = suspended /\ record' = record /\ restored' = restored
      /\ finished' = finished /\ decodes' = decodes /\ idx' = 1
      /\ moved' = moved /\ aborted' = IF idx = 1 THEN "no" ELSE "lost"
      /\ pc' = "admit" /\ pc \in {"admit", "retry"} /\ aborted = "no" /\ idx # 0 /\ Considered
      /\ n > 0
      /\ TakeChunk(r, n) /\ running' = Append(running, r) /\ waiting' = Tail(waiting)
  BY DEF AdmitPrefill, storeVars
<1>2. /\ r \in InWaiting /\ r \in Request /\ r \notin InRunning
      /\ Active(seq[r]) /\ seq[r].scheduled = 0 /\ IsPrefill(r)
      /\ n = FitChunk(context[r], WantedChunk(r), freeLeft)
      /\ idx = 1 => IsQueue(waiting', InWaiting \ {r})
      /\ idx # 1 => setup.priority
      /\ IsQueue(running', InRunning \union {r})
      /\ waiting # <<>>
  BY <1>1, AtFront
<1> HIDE DEF r, n
<1>3. /\ n \in Nat \ {0} /\ n <= Remaining(r)
      /\ freeLeft >= 0 => MoreBlocks(context[r], n) <= freeLeft
  BY <1>1, <1>2, ChunkFits
<1>4. /\ pc \in {"prefill", "admit", "retry"} /\ pc' \in {"prefill", "admit"}
      /\ pc' \in Building /\ pc' \notin BeforeBatch \union Stalled /\ pc' # "retry"
  BY <1>1 DEF Building, BeforeBatch, Stalled
<1>5. CASE idx = 1
  <2>1. aborted' = "no" /\ IsQueue(waiting', InWaiting \ {r})
    BY <1>1, <1>2, <1>5
  <2>2. /\ AllRequestsOK' /\ Homes'
        /\ batch' \in Seq(Row) /\ decodes' <= Len(batch') /\ batch' # <<>>
        /\ budget' \in Int /\ freeLeft' \in Int
        /\ ~moved => BatchOK'
        /\ Free' >= 0
        /\ ~setup.priority => freeLeft' >= 0 /\ FreeIn(Reserved)' = freeLeft'
    BY <1>1, <1>2, <1>3, <1>4, <2>1, ChunkTaken
  <2>3. Types'
    BY <1>1, <1>4, <2>1, <2>2 DEF Sound, Types
  <2>4. Batches'
    <3>1. moved => setup.priority
      BY DEF Sound, Batches
    <3>2. QED
      BY <1>1, <1>4, <2>2, <3>1 DEF Batches
  <2>5. Pool' /\ Loops'
    BY <1>1, <2>2 DEF Pool, Loops
  <2>6. QED
    BY <2>1, <2>2, <2>3, <2>4, <2>5, StillAlive DEF IInv, Sound
<1>6. CASE idx # 1
  <2>1. aborted' = "lost" /\ setup'.priority
    BY <1>1, <1>2, <1>6
  <2>2. /\ AllRequestsOK'
        /\ batch' \in Seq(Row) /\ decodes' <= Len(batch')
        /\ budget' \in Int /\ freeLeft' \in Int
        /\ Free' >= 0
    BY <1>1, <1>2, <1>3, <1>4, ChunkRow
  <2>3. Types'
    BY <1>1, <1>4, <2>1, <2>2 DEF Sound, Types
  <2>4. waiting' \in Seq(Request) /\ running' \in Seq(Request) /\ suspended' \subseteq Request
    <3>1. /\ IsQueue(waiting, InWaiting) /\ suspended \subseteq Request
      BY <1>2, NotQueued, PlacedFacts DEF Sound, Homes
    <3>2. waiting \in Seq(Request)
      BY <3>1 DEF IsQueue
    <3>3. Tail(waiting) \in Seq(Request)
      BY <1>2, <3>2
    <3>4. QED
      BY <1>1, <1>2, <3>1, <3>3 DEF IsQueue
  <2>5. QED
    BY <1>1, <2>1, <2>2, <2>3, <2>4 DEF IInv, Lost
<1>7. QED
  BY <1>5, <1>6

-----------------------------------------------------------------------------
(* Preempting a running sequence for the front of waiting_.                  *)

\* Where nothing of the batch moved, its rows are still what they were.
LEMMA BatchUntouched ==
  ASSUME Sound, pc = "admit", NEW r \in InRunning, Preempts(r), ~moved, ~PointersMove(seq')
  PROVE  RowsOK(batch, decodes, seq', {s \in InRunning : seq'[s].status = "running"})
<1> DEFINE R2 == {s \in InRunning : seq'[s].status = "running"}
<1>1. RowsOK(batch, decodes, seq, InRunning)
  BY DEF Sound, Batches, Building, BatchOK
<1>2. batch \in Seq(Row) /\ decodes \in Nat
  BY DEF Sound, Types
<1>3. IsQueue(running, InRunning)
  BY DEF Sound, Homes, Placed
<1>4. \A s \in InRunning : \E i \in 1 .. Len(running) : running[i] = s
  BY <1>3 DEF IsQueue, InRunning, ToSet
<1>5. ASSUME NEW s \in InRunning, seq'[s].status \in {"preempted", "suspended"}
      PROVE  \A j \in 1 .. Len(batch) : batch[j].req # s
  <2>1. PICK i \in 1 .. Len(running) : running[i] = s
    BY <1>4
  <2>2. QED
    BY <1>5, <2>1 DEF PointersMove
<1>6. r \in Request
  BY <1>3, QueueFacts DEF IsQueue
<1>7. \A j \in 1 .. Len(batch) : batch[j].req # r
  BY <1>5 DEF Preempts
<1>8. ASSUME NEW j \in 1 .. Len(batch)
      PROVE  batch[j].req \in R2
  <2>1. batch[j].req \in InRunning /\ seq[batch[j].req].status = "running"
    BY <1>1 DEF RowsOK, RowOK
  <2>2. batch[j].req \in Request \ {r}
    <3>1. batch[j] \in Row
      BY <1>2
    <3>2. QED
      BY <1>7, <3>1 DEF Row
  <2>3. seq'[batch[j].req] = seq[batch[j].req]
    BY <2>2 DEF Preempts
  <2>4. QED
    BY <2>1, <2>3
<1> HIDE DEF R2
<1>9. \A s \in Request \ {r} : seq'[s] = seq[s]
  BY DEF Preempts
<1>10. seq'[r].scheduled = 0
  BY DEF Preempts
<1>11. RowsOK(batch, decodes, seq', R2)
  BY <1>1, <1>2, <1>6, <1>7, <1>8, <1>9, <1>10, RowsStay
<1>12. QED
  BY <1>11 DEF R2

\* Where the reference of admission is after a preemption.
LEMMA FrontWithin ==
  ASSUME NEW st, WaitingAgain(st) \in Seq(Request)
  PROVE  FrontAfter(st) \in Nat /\ FrontAfter(st) <= Len(WaitingAgain(st))
<1> DEFINE w == WaitingAgain(st)
           I == {i \in 1 .. Len(w) : w[i] = Candidate}
           found == SelectInSeq(w, LAMBDA r : r = Candidate)
<1>1. found = IF I # {} THEN Min(I) ELSE 0
  BY DEF SelectInSeq
<1>2. FrontAfter(st) = IF InsertsAtEnds(st) THEN found ELSE 0
  BY DEF FrontAfter
<1>3. Len(w) \in Nat
  BY LenProperties
<1>4. I # {} => Min(I) \in 1 .. Len(w)
  <2>1. I \subseteq 1 .. Len(w) /\ I \subseteq Nat
    BY <1>3
  <2> HIDE DEF I
  <2>2. QED
    BY <2>1, MinIn
<1> HIDE DEF w, I, found
<1>5. FrontAfter(st) \in Nat /\ FrontAfter(st) <= Len(w)
  BY <1>1, <1>2, <1>3, <1>4
<1>6. QED
  BY <1>5 DEF w

\* A victim makes room for the front of waiting_.
LEMMA PreemptForWaitingKeeps ==
  ASSUME Sound, PreemptForWaiting, handles' = handles, failures' = failures
  PROVE  Sound'
<1> DEFINE r == Victim
<1>1. /\ setup' = setup /\ failures' = failures /\ restored' = restored /\ finished' = finished
      /\ batch' = batch /\ decodes' = decodes /\ budget' = budget /\ idx' = FrontAfter(seq')
      /\ pc = "admit" /\ pc' = "retry" /\ aborted = "no" /\ CanPreempt
      /\ PreemptSequence(r)
      /\ running' = StillRunning(seq') /\ waiting' = WaitingAgain(seq')
      /\ moved' = (moved \/ PointersMove(seq'))
      /\ freeLeft' = FreeIn(context')
  BY DEF PreemptForWaiting
<1>2. aborted = "no" /\ setup.priority /\ Victims # {}
  BY <1>1 DEF CanPreempt
<1>3. /\ Types /\ AllRequestsOK /\ Homes
      /\ Placed(seq, suspended, waiting, running, InWaiting, InRunning)
      /\ InRunning \subseteq Request
  BY NotQueued, PlacedFacts DEF Sound, Homes
<1>4. r \in InRunning /\ seq[r].status # "preempted" /\ r \in Request
  <2>1. r \in Victims
    BY <1>2, <1>3, VictimIsOne
  <2>2. QED
    BY <1>3, <2>1 DEF Victims, InRunning
<1> HIDE DEF r
<1>5. Preempts(r)
  <2>1. pc # "sampled"
    BY <1>1
  <2>2. QED
    BY <1>1, <1>2, <1>3, <1>4, <2>1, PreemptLeaves
<1>6. AllRequestsOK'
  <2>1. pc # "sampled" /\ pc' # "sampled"
    BY <1>1
  <2>2. QED
    BY <1>1, <1>2, <1>3, <1>4, <1>5, <2>1, OneRequest DEF Preempts
<1>7. Reapable(seq', suspended', waiting, running, InWaiting, InRunning)
  <2>1. /\ \A s \in Request \ {r} : seq'[s] = seq[s]
        /\ seq'[r].status \in {"preempted", "suspended"}
        /\ seq'[r].status = "suspended" => setup.checkpoint
        /\ suspended' \ {r} = suspended \ {r} /\ suspended' \subseteq Request
        /\ r \in suspended' <=> seq'[r].status = "suspended"
    BY <1>5 DEF Preempts
  <2>2. r \notin InWaiting
    BY <1>3, <1>4 DEF Placed
  <2>3. suspended' = {s \in Request : seq'[s].status = "suspended"}
    BY <1>3, <2>1 DEF Placed
  <2>4. \A s \in InWaiting : seq'[s].status \in {"waiting", "preempted"}
    BY <1>3, <2>1, <2>2, PlacedFacts, ZenonT(60) DEF Placed
  <2>5. \A s \in InRunning : seq'[s].status \in {"running", "preempted", "suspended"}
    BY <1>3, <2>1 DEF Placed
  <2>6. \A s \in Request : Active(seq'[s]) => s \in InWaiting \union InRunning
    BY <1>3, <1>4, <2>1 DEF Placed
  <2>7. \A s \in Request : seq'[s].status = "suspended" => setup.checkpoint
    BY <1>3, <2>1 DEF Placed
  <2>8. QED
    BY <1>3, <2>3, <2>4, <2>5, <2>6, <2>7 DEF Placed, Reapable
<1>8. /\ Homes' /\ InRunning' = {s \in InRunning : seq'[s].status = "running"}
      /\ WaitingAgain(seq') \in Seq(Request)
  <2> DEFINE R2 == {s \in InRunning : seq'[s].status = "running"}
  <2>1. PICK W \in SUBSET Request :
          Placed(seq', suspended', WaitingAgain(seq'), StillRunning(seq'), W, R2)
    BY <1>7, ReapQueues
  <2>2. Placed(seq', suspended', waiting', running', W, R2)
    BY <1>1, <2>1
  <2> HIDE DEF R2
  <2>3. Homes' /\ InRunning' = R2
    BY <1>1, <2>2, Rehome
  <2>4. WaitingAgain(seq') \in Seq(Request)
    BY <2>1 DEF Placed, IsQueue
  <2>5. QED
    BY <2>3, <2>4 DEF R2
<1>9. moved' \in BOOLEAN /\ (moved' <=> moved \/ PointersMove(seq'))
  BY <1>1, Zenon
<1>10. Batches'
  <2>1. ASSUME ~moved'
        PROVE  BatchOK'
    <3>1. ~moved /\ ~PointersMove(seq')
      BY <1>9, <2>1
    <3>2. RowsOK(batch, decodes, seq', {s \in InRunning : seq'[s].status = "running"})
      BY <1>1, <1>4, <1>5, <3>1, BatchUntouched
    <3>3. RowsOK(batch, decodes, seq', InRunning')
      BY <1>8, <3>2
    <3>4. QED
      BY <1>1, <3>3, RowsNext, Zenon
  <2>2. ASSUME moved'
        PROVE  batch # <<>>
    <3>1. CASE moved
      BY <3>1 DEF Sound, Batches
    <3>2. CASE PointersMove(seq')
      <4>1. Len(<<>>) = 0
        BY EmptySeq
      <4>2. batch # <<>> \/ \E j \in 1 .. Len(batch) : TRUE
        BY <3>2 DEF PointersMove
      <4>3. QED
        BY <4>1, <4>2
    <3>3. QED
      BY <1>9, <2>2, <3>1, <3>2
  <2>3. pc' \in Building /\ pc' \notin BeforeBatch \union Stalled
    BY <1>1 DEF Building, BeforeBatch, Stalled
  <2>4. QED
    BY <1>1, <1>2, <2>1, <2>2, <2>3 DEF Batches
<1>11. Free' >= 0 /\ freeLeft' \in Int
  <2>1. context \in [Request -> Int] /\ context' \in [Request -> Int]
    BY <1>3, <1>5 DEF AllRequestsOK, Preempts
  <2>2. FreeIn(context) <= FreeIn(context')
    BY <1>5, <2>1, PoolShrinks DEF Preempts
  <2>3. FreeIn(context) >= 0 /\ FreeIn(context) \in Int /\ FreeIn(context') \in Int
    BY <2>1, PoolSum DEF Sound, Pool, Free
  <2>4. freeLeft' \in Int
    BY <1>1, <2>3
  <2>5. QED
    BY <2>2, <2>3, <2>4 DEF Free
<1>12. Pool'
  BY <1>1, <1>2, <1>11 DEF Pool
<1>13. idx' \in Nat /\ idx' <= Len(waiting')
  BY <1>1, <1>8, FrontWithin
<1>14. Types'
  <2>1. pc' \in Building /\ pc' = "retry"
    BY <1>1 DEF Building
  <2>2. aborted' \in {"no", "free"}
    BY <1>5 DEF Preempts
  <2>3. QED
    BY <1>1, <1>9, <1>11, <1>13, <2>1, <2>2 DEF Sound, Types
<1>15. Aborts'
  <2>1. aborted' \in {"no", "free"} /\ (aborted' = "free" => setup'.checkpoint)
    BY <1>1, <1>5 DEF Preempts
  <2>2. QED
    BY <1>1, <2>1 DEF Aborts, ProcessSurvives
<1>16. Loops'
  BY <1>1, <1>2, <1>13 DEF Loops
<1>17. QED
  BY <1>6, <1>8, <1>10, <1>12, <1>14, <1>15, <1>16 DEF Sound

-----------------------------------------------------------------------------
(* The ends of admission that are no end of the step.                        *)

\* Nothing moves when the behaviour ends in a loop of schedule_step.
LEMMA EndsHere ==
  ASSUME Sound, pc \in {"admit", "retry", "reject"},
         UNCHANGED <<setup, seq, context, queueVars, storeVars, finished, stepVars, pc>>,
         handles' = handles, failures' = failures,
         aborted = "no", aborted' \in {"front", "context"},
         aborted' = "front" => setup.priority,
         aborted' = "context" => failures # 0
  PROVE  Sound'
<1>1. /\ setup' = setup /\ failures' = failures /\ seq' = seq /\ context' = context /\ waiting' = waiting
      /\ running' = running /\ suspended' = suspended /\ record' = record
      /\ restored' = restored /\ finished' = finished
      /\ batch' = batch /\ decodes' = decodes /\ budget' = budget /\ freeLeft' = freeLeft
      /\ idx' = idx /\ moved' = moved /\ pc' = pc
      /\ pc # "sampled" /\ pc' # "sampled"
  BY DEF queueVars, storeVars, stepVars
<1>2. AllRequestsOK' /\ Homes' /\ InWaiting' = InWaiting /\ InRunning' = InRunning /\ Free' = Free
  BY <1>1, Idle
<1>3. Types'
  BY <1>1 DEF Sound, Types
<1>4. Batches'
  <2>1. BatchOK => BatchOK'
    BY <1>1, <1>2 DEF BatchOK, RowsOK, RowOK
  <2>2. Batches
    BY DEF Sound
  <2>3. QED
    BY <1>1, <2>1, <2>2 DEF Batches
<1>5. Loops'
  BY <1>1, <1>2 DEF Sound, Loops
<1>6. Pool'
  <2>1. Reserved' = Reserved
    BY <1>1 DEF Reserved, PrefillRequests
  <2>2. FreeIn(Reserved)' = FreeIn(Reserved)
    BY <2>1, ReservedNext
  <2>3. QED
    BY <1>1, <1>2, <2>2 DEF Sound, Pool
<1>7. Aborts'
  BY <1>1 DEF Aborts, ProcessSurvives
<1>8. QED
  BY <1>2, <1>3, <1>4, <1>5, <1>6, <1>7 DEF Sound

\* Reading an invalid reference ends the behaviour, under priority alone.
LEMMA FrontMovedKeeps ==
  ASSUME Sound, FrontMoved, handles' = handles, failures' = failures
  PROVE  Sound'
<1>1. /\ pc = "retry" /\ aborted = "no" /\ aborted' = "front"
      /\ UNCHANGED <<setup, seq, context, queueVars, storeVars, finished, stepVars, pc>>
  BY DEF FrontMoved
<1>2. setup.priority
  BY <1>1 DEF Sound, Loops
<1>3. QED
  BY <1>1, <1>2, EndsHere

\* A handle outgrows what is to be recomputed only after a failed forward pass.
LEMMA CheckFailsKeeps ==
  ASSUME Sound, CheckFails, handles' = handles, failures' = failures
  PROVE  Sound'
<1>1. /\ aborted = "no" /\ aborted' = "context" /\ FrontOverfull
      /\ UNCHANGED <<setup, seq, context, queueVars, storeVars, finished, stepVars, pc>>
  BY DEF CheckFails
<1>2. pc \in {"admit", "retry", "reject"}
  BY <1>1 DEF FrontOverfull
<1>3. PICK r \in InWaiting : r \in Request /\ Overfull(r)
  <2>1. CASE pc = "reject"
    <3>1. waiting # <<>> /\ Overfull(Head(waiting))
      BY <1>1, <2>1 DEF FrontOverfull
    <3>2. IsQueue(waiting, InWaiting)
      BY DEF Sound, Homes, Placed
    <3>3. QED
      BY <3>1, <3>2, TailQueue
  <2>2. CASE pc # "reject"
    <3>1. pc \in {"admit", "retry"} /\ idx # 0 /\ Considered /\ Overfull(Candidate)
      BY <1>1, <2>2 DEF FrontOverfull
    <3>2. QED
      BY <3>1, CandidateWaits
  <2>3. QED
    BY <2>1, <2>2
<1>4. failures # 0
  <2>1. SUFFICES ASSUME failures = 0
                 PROVE  FALSE
    OBVIOUS
  <2>2. Types /\ AllRequestsOK /\ seq[r].status \in {"waiting", "preempted"}
    BY <1>3 DEF Sound, Homes, Placed
  <2>3. /\ seq[r].computed \in Nat /\ seq[r].scheduled \in Nat
        /\ ShapeOf(setup.prompt[r], seq[r])
        /\ KVOf(setup.prompt[r], seq[r], context[r], record[r], Extra(r), failures)
        /\ context[r] \in Int
    BY <1>1, <1>3, <2>2, RequestFacts
  <2>4. Extra(r) = 0
    BY <1>2 DEF Extra
  <2>5. seq[r].recompute /\ context[r] > Goal(setup.prompt[r], seq[r])
        /\ Goal(setup.prompt[r], seq[r]) \in Nat
    BY <1>3, <2>2, PrefillFacts DEF Overfull
  <2>6. InPrefill(setup.prompt[r], seq[r])
    BY <2>3, <2>5 DEF ShapeOf
  <2>7. context[r] = seq[r].computed
    BY <2>1, <2>2, <2>3, <2>4, <2>6 DEF KVOf, Active, Holds
  <2>8. QED
    BY <2>3, <2>5, <2>6, <2>7 DEF InPrefill
<1>5. QED
  BY <1>1, <1>2, <1>4, EndsHere

-----------------------------------------------------------------------------
(* The model reserves the slots of the prefill rows, and computes.           *)

\* The handle has the KV of its chunk once the model has reserved it.
LEMMA ReservedOK ==
  ASSUME NEW p \in Nat \ {0}, NEW q \in Progress, NEW c \in Int, NEW k, NEW f \in Nat,
         ShapeOf(p, q), KVOf(p, q, c, k, 0, f)
  PROVE  /\ q.status = "running" /\ InPrefill(p, q) => KVOf(p, q, c + q.scheduled, k, q.scheduled, f)
         /\ q.scheduled = 0 \/ ~InPrefill(p, q) => KVOf(p, q, c, k, q.scheduled, f)
<1>1. q.scheduled \in Nat /\ q.computed \in Nat
  BY DEF Progress
<1>2. ASSUME q.status = "running", InPrefill(p, q)
      PROVE  KVOf(p, q, c + q.scheduled, k, q.scheduled, f)
  <2>1. c >= q.computed + 0 /\ (f = 0 => c = q.computed + 0)
    BY <1>2 DEF KVOf, Holds, Active
  <2>2. /\ c + q.scheduled >= q.computed + q.scheduled
        /\ f = 0 => c + q.scheduled = q.computed + q.scheduled
        /\ c + q.scheduled # NoKV
    BY <1>1, <2>1 DEF NoKV
  <2>3. Holds(p, q, c + q.scheduled, q.scheduled, f)
    BY <1>2, <2>2 DEF Holds
  <2>4. Active(q) /\ q.status # "suspended"
    BY <1>2 DEF Active
  <2>5. QED
    BY <2>2, <2>3, <2>4 DEF KVOf
<1>3. ASSUME q.scheduled = 0
      PROVE  KVOf(p, q, c, k, q.scheduled, f)
  BY <1>3
<1>4. ASSUME ~InPrefill(p, q)
      PROVE  KVOf(p, q, c, k, q.scheduled, f)
  <2>1. Holds(p, q, c, 0, f) => Holds(p, q, c, q.scheduled, f)
    BY <1>4 DEF Holds
  <2>2. QED
    BY <2>1 DEF KVOf
<1>5. QED
  BY <1>2, <1>3, <1>4

\* What is reserved for a request is what it has scheduled of its prefill.
LEMMA ReservedHolds ==
  ASSUME Sound, aborted = "no", pc = "scheduled", ~moved, NEW r \in Request
  PROVE  KVOf(setup.prompt[r], seq[r], Reserved[r], record[r], seq[r].scheduled, failures)
         /\ Reserved[r] >= NoKV
<1> DEFINE p == setup.prompt[r]
           q == seq[r]
           c == context[r]
           k == record[r]
<1>1. /\ p \in Nat \ {0} /\ q \in Progress /\ c \in Int /\ c >= NoKV
      /\ ShapeOf(p, q) /\ KVOf(p, q, c, k, 0, failures) /\ q.scheduled \in Nat
  <2>1. Types /\ AllRequestsOK /\ Extra(r) = 0
    BY DEF Sound, Extra
  <2>2. QED
    BY <2>1, RequestFacts
<1>2. BatchOK /\ batch \in Seq(Row) /\ decodes \in Nat
  BY DEF Sound, Batches, Building, Types
<1>3. Reserved[r] = IF r \in PrefillRequests THEN c + q.scheduled ELSE c
  BY DEF Reserved
<1>4. ASSUME r \in PrefillRequests
      PROVE  q.status = "running" /\ InPrefill(p, q)
  <2>1. PICK i \in (decodes + 1) .. Len(batch) : batch[i].req = r
    BY <1>4 DEF PrefillRequests
  <2>2. i \in 1 .. Len(batch) /\ i > decodes
    BY <1>2, <2>1
  <2>3. QED
    BY <1>2, <2>1, <2>2 DEF BatchOK, RowsOK, RowOK
<1>5. ASSUME r \notin PrefillRequests
      PROVE  q.scheduled = 0 \/ ~InPrefill(p, q)
  <2>1. ASSUME q.scheduled # 0
        PROVE  ~InPrefill(p, q)
    <3>1. PICK i \in 1 .. Len(batch) : batch[i].req = r
      BY <1>2, <2>1 DEF BatchOK, RowsOK
    <3>2. ~(i \in (decodes + 1) .. Len(batch))
      BY <1>5, <3>1 DEF PrefillRequests
    <3>3. i <= decodes
      BY <1>2, <3>2
    <3>4. QED
      BY <1>2, <3>1, <3>3 DEF BatchOK, RowsOK, RowOK
  <2>2. QED
    BY <2>1
<1> HIDE DEF p, q, c, k
<1>6. /\ q.status = "running" /\ InPrefill(p, q) => KVOf(p, q, c + q.scheduled, k, q.scheduled, failures)
      /\ q.scheduled = 0 \/ ~InPrefill(p, q) => KVOf(p, q, c, k, q.scheduled, failures)
  <2>1. failures \in Nat
    BY DEF Sound, Types
  <2>2. QED
    BY <1>1, <2>1, ReservedOK
<1>7. KVOf(p, q, Reserved[r], k, q.scheduled, failures)
  BY <1>3, <1>4, <1>5, <1>6
<1>8. Reserved[r] >= NoKV
  BY <1>1, <1>3 DEF NoKV
<1>9. QED
  BY <1>7, <1>8 DEF p, q, c, k

\* The model reserves the chunks of the batch and computes it, or throws.
LEMMA ForwardKeeps ==
  ASSUME Sound, Forward
  PROVE  Sound'
<1>1. /\ setup' = setup /\ failures' = failures /\ seq' = seq /\ waiting' = waiting /\ running' = running
      /\ suspended' = suspended /\ record' = record /\ restored' = restored
      /\ finished' = finished /\ handles' = handles
      /\ batch' = batch /\ decodes' = decodes /\ budget' = budget /\ freeLeft' = freeLeft
      /\ idx' = idx /\ moved' = moved
      /\ pc = "scheduled" /\ pc' = "sampled" /\ aborted = "no"
  BY DEF Forward, queueVars, storeVars, stepVars, engineVars
<1>2. \/ moved /\ aborted' = "pointer" /\ context' = context
      \/ ~moved /\ FreeIn(Reserved) < 0 /\ aborted' = "reserve" /\ context' = context
      \/ ~moved /\ ~(FreeIn(Reserved) < 0) /\ aborted' = aborted /\ context' = Reserved
  BY DEF Forward
<1>3. Types /\ AllRequestsOK
  BY DEF Sound
<1>4. Reserved \in [Request -> Int] /\ context \in [Request -> Int]
  BY <1>3, ReservedType DEF AllRequestsOK
<1>5. FreeIn(Reserved) \in Int
  BY <1>4, PoolSum
<1>6. ~setup.priority => freeLeft >= 0 /\ FreeIn(Reserved) = freeLeft
  BY <1>1 DEF Sound, Pool
<1>7. /\ setup.priority \in BOOLEAN /\ moved \in BOOLEAN
      /\ moved => setup.priority /\ batch # <<>>
      /\ ~moved => BatchOK
  BY <1>1, <1>3, SetupFacts DEF Sound, Batches, Building, Types
<1>8. Types'
  BY <1>1, <1>2, <1>3 DEF Types
<1>9. AllRequestsOK'
  <2>1. \A r \in Request : ShapeOf(setup'.prompt[r], seq'[r])
    BY <1>1, <1>3 DEF AllRequestsOK
  <2>2. seq' \in [Request -> Progress] /\ record' \in [Request -> Checkpoint]
    BY <1>1, <1>3 DEF AllRequestsOK
  <2>3. CASE context' = context /\ aborted' # "no"
    <3>1. \A r \in Request : context'[r] >= NoKV
      BY <1>3, <2>3 DEF AllRequestsOK
    <3>2. context' \in [Request -> Int]
      BY <1>4, <2>3
    <3>3. QED
      BY <2>1, <2>2, <2>3, <3>1, <3>2 DEF AllRequestsOK
  <2>4. CASE context' = Reserved /\ ~moved
    <3>1. \A r \in Request : KVOf(setup.prompt[r], seq[r], Reserved[r], record[r], seq[r].scheduled, failures)
                             /\ Reserved[r] >= NoKV
      BY <1>1, <2>4, ReservedHolds
    <3>2. \A r \in Request : Extra(r)' = seq[r].scheduled
      BY <1>1 DEF Extra
    <3>3. \A r \in Request : KVOf(setup'.prompt[r], seq'[r], context'[r], record'[r], Extra(r)', failures')
      BY <1>1, <2>4, <3>1, <3>2
    <3>4. context' \in [Request -> Int] /\ \A r \in Request : context'[r] >= NoKV
      BY <1>4, <2>4, <3>1
    <3>5. QED
      BY <2>1, <2>2, <3>3, <3>4 DEF AllRequestsOK
  <2>5. QED
    BY <1>2, <2>3, <2>4
<1>10. Homes' /\ InRunning' = InRunning
  <2>1. InRunning' = InRunning /\ InWaiting' = InWaiting
    BY <1>1 DEF InRunning, InWaiting
  <2>2. QED
    BY <1>1, <2>1 DEF Sound, Homes, Placed
<1>11. Batches'
  <2>1. pc' = "sampled" /\ pc' \notin BeforeBatch \union Stalled
    BY <1>1 DEF BeforeBatch, Stalled
  <2>2. ~moved => BatchOK'
    BY <1>1, <1>7, <1>10 DEF BatchOK, RowsOK, RowOK
  <2>3. moved => aborted' # "no"
    BY <1>2
  <2>4. QED
    BY <1>1, <1>7, <2>1, <2>2, <2>3 DEF Batches
<1>12. Pool'
  <2>1. Free' >= 0
    <3>1. CASE context' = context
      BY <3>1 DEF Sound, Pool, Free
    <3>2. CASE context' = Reserved /\ ~(FreeIn(Reserved) < 0)
      <4>1. FreeIn(Reserved) >= 0
        BY <1>5, <3>2
      <4>2. QED
        BY <3>2, <4>1 DEF Free
    <3>3. QED
      BY <1>2, <3>1, <3>2
  <2>2. QED
    BY <1>1, <2>1, FreeHolds
<1>13. Aborts'
  <2>1. aborted' \in {"pointer", "reserve"} => setup.priority
    BY <1>1, <1>2, <1>5, <1>6, <1>7
  <2>2. QED
    BY <1>1, <1>2, <2>1 DEF Aborts, ProcessSurvives
<1>14. Loops'
  BY <1>1, NoLoop
<1>15. QED
  BY <1>8, <1>9, <1>10, <1>11, <1>12, <1>13, <1>14 DEF Sound

\* The scheduled tokens of a failed pass are not processed, though the KV has their slots.
Unprocessed(q) == [q EXCEPT !.scheduled = 0, !.stuck = @ \/ q.scheduled # 0]

\* A request keeps its place and, being owed less, its KV is enough.
LEMMA UnprocessedOK ==
  ASSUME NEW p \in Nat \ {0}, NEW q \in Progress, NEW c \in Int, NEW k, NEW f \in Nat,
         ShapeOf(p, q), KVOf(p, q, c, k, q.scheduled, f)
  PROVE  /\ Unprocessed(q) \in Progress /\ Unprocessed(q).scheduled = 0
         /\ Unprocessed(q).status = q.status
         /\ InPrefill(p, Unprocessed(q)) <=> InPrefill(p, q)
         /\ Unprocessed(q).outputs = q.outputs
         /\ ShapeOf(p, Unprocessed(q))
         /\ KVOf(p, Unprocessed(q), c, k, 0, f + 1)
<1> DEFINE s == Unprocessed(q)
<1>1. s = [q EXCEPT !.scheduled = 0, !.stuck = @ \/ q.scheduled # 0]
  BY DEF Unprocessed
<1> HIDE DEF s
<1>2. /\ s.status = q.status /\ s.scheduled = 0 /\ s.computed = q.computed
      /\ s.generated = q.generated /\ s.outputs = q.outputs
      /\ s.recompute = q.recompute /\ s.next = q.next
  BY <1>1 DEF Progress
<1>3. s \in Progress
  <2>1. (q.stuck \/ q.scheduled # 0) \in BOOLEAN
    OBVIOUS
  <2>2. QED
    BY <1>1, <2>1 DEF Progress
<1>4. (InPrefill(p, s) <=> InPrefill(p, q)) /\ Goal(p, s) = Goal(p, q)
  BY <1>2 DEF InPrefill, Goal
<1>5. /\ q.scheduled \in Nat /\ q.computed \in Nat /\ q.outputs \in Nat
      /\ Goal(p, q) \in Nat
  BY DEF Progress, Goal
<1>6. ShapeOf(p, s)
  <2>1. CASE q.status = "new"
    <3>1. q = NewSeq /\ q.scheduled = 0
      BY <2>1 DEF ShapeOf
    <3>2. s = q
      <4>1. (q.stuck \/ q.scheduled # 0) = q.stuck
        BY <3>1 DEF Progress
      <4>2. QED
        BY <1>1, <3>1, <4>1 DEF Progress
    <3>3. QED
      BY <3>2
  <2>2. CASE q.status # "new"
    BY <1>2, <1>4, <1>5, <2>2 DEF ShapeOf, Active
  <2>3. QED
    BY <2>1, <2>2
<1>7. KVOf(p, s, c, k, 0, f + 1)
  <2>1. f + 1 # 0
    OBVIOUS
  <2>2. \A x \in Int : Holds(p, q, x, q.scheduled, f) => Holds(p, s, x, 0, f + 1)
    BY <1>2, <1>4, <1>5, <2>1 DEF Holds
  <2>3. q.status = "suspended" => q.scheduled = 0
    BY DEF ShapeOf
  <2>4. ASSUME q.status = "suspended", k.context \in Nat, Holds(p, q, k.context, 0, f)
        PROVE  Holds(p, s, k.context, 0, f + 1)
    BY <2>2, <2>3, <2>4
  <2>5. /\ c # NoKV <=> Active(q)
        /\ Active(q) => Holds(p, q, c, q.scheduled, f)
        /\ q.status = "suspended" =>
             /\ k.seq.computed = q.computed /\ k.seq.outputs = q.outputs
             /\ k.seq.generated = q.generated
             /\ k.seq.recompute = q.recompute /\ k.seq.next = q.next
             /\ k.context \in Nat /\ Holds(p, q, k.context, 0, f)
    BY DEF KVOf
  <2>6. Active(s) <=> Active(q)
    BY <1>2 DEF Active
  <2>7. QED
    BY <1>2, <2>2, <2>4, <2>5, <2>6 DEF KVOf
<1>8. QED
  BY <1>2, <1>3, <1>4, <1>6, <1>7 DEF s

\* A forward pass that fails leaves the slots it reserved, and no row scheduled.
LEMMA ForwardFailsKeeps ==
  ASSUME Sound, ForwardFails
  PROVE  Sound'
<1>1. /\ setup' = setup /\ failures' = failures + 1 /\ waiting' = waiting /\ running' = running
      /\ suspended' = suspended /\ record' = record /\ restored' = restored
      /\ finished' = finished /\ handles' = handles /\ aborted' = aborted
      /\ pc = "scheduled" /\ pc' = "loop" /\ aborted = "no" /\ ~moved
      /\ context' = Reserved /\ FreeIn(Reserved) >= 0
      /\ batch' = <<>> /\ decodes' = 0 /\ budget' = 0 /\ freeLeft' = 0 /\ idx' = 1
      /\ moved' = FALSE
  BY DEF ForwardFails, queueVars, storeVars, DropOutput
<1>2. ASSUME NEW r \in Request
      PROVE  /\ seq'[r] = Unprocessed(seq[r])
             /\ Unprocessed(seq[r]) \in Progress /\ seq'[r].scheduled = 0
             /\ seq'[r].status = seq[r].status
             /\ InPrefill(setup.prompt[r], seq'[r]) <=> InPrefill(setup.prompt[r], seq[r])
             /\ ShapeOf(setup.prompt[r], seq'[r])
             /\ Reserved[r] \in Int /\ Reserved[r] >= NoKV
             /\ KVOf(setup.prompt[r], seq'[r], Reserved[r], record[r], 0, failures + 1)
  <2>1. seq'[r] = Unprocessed(seq[r])
    BY DEF ForwardFails, Abandoned, Unprocessed
  <2>2. /\ Types /\ AllRequestsOK /\ failures \in Nat
        /\ setup.prompt[r] \in Nat \ {0} /\ seq[r] \in Progress
        /\ ShapeOf(setup.prompt[r], seq[r])
    BY RequestFacts DEF Sound, Types
  <2>3. /\ KVOf(setup.prompt[r], seq[r], Reserved[r], record[r], seq[r].scheduled, failures)
        /\ Reserved[r] >= NoKV /\ Reserved[r] \in Int
    <3>1. Reserved \in [Request -> Int]
      BY <2>2, ReservedType DEF AllRequestsOK
    <3>2. QED
      BY <1>1, <3>1, ReservedHolds
  <2>4. /\ Unprocessed(seq[r]) \in Progress /\ Unprocessed(seq[r]).scheduled = 0
        /\ Unprocessed(seq[r]).status = seq[r].status
        /\ InPrefill(setup.prompt[r], Unprocessed(seq[r])) <=> InPrefill(setup.prompt[r], seq[r])
        /\ ShapeOf(setup.prompt[r], Unprocessed(seq[r]))
        /\ KVOf(setup.prompt[r], Unprocessed(seq[r]), Reserved[r], record[r], 0, failures + 1)
    <3> DEFINE p == setup.prompt[r]
               q == seq[r]
               c == Reserved[r]
               k == record[r]
               f == failures
    <3>1. /\ p \in Nat \ {0} /\ q \in Progress /\ c \in Int /\ f \in Nat
          /\ ShapeOf(p, q) /\ KVOf(p, q, c, k, q.scheduled, f)
      BY <2>2, <2>3
    <3> HIDE DEF p, q, c, k, f
    <3>2. /\ Unprocessed(q) \in Progress /\ Unprocessed(q).scheduled = 0
          /\ Unprocessed(q).status = q.status
          /\ InPrefill(p, Unprocessed(q)) <=> InPrefill(p, q)
          /\ ShapeOf(p, Unprocessed(q))
          /\ KVOf(p, Unprocessed(q), c, k, 0, f + 1)
      BY <3>1, UnprocessedOK
    <3>3. QED
      BY <3>2 DEF p, q, c, k, f
  <2>5. QED
    BY <2>1, <2>3, <2>4
<1>3. Types /\ AllRequestsOK /\ Placed(seq, suspended, waiting, running, InWaiting, InRunning)
  BY DEF Sound, Homes
<1>4. Types'
  <2>1. batch' \in Seq(Row) /\ Len(batch') = 0
    BY <1>1
  <2>2. failures \in Nat /\ setup \in Setup /\ restored \subseteq Request
        /\ finished \subseteq Request /\ handles \subseteq Request
    BY <1>3 DEF Types
  <2>3. pc' \in BeforeBatch /\ decodes' \in Nat /\ decodes' <= Len(batch') /\ moved' \in BOOLEAN
    <3>1. pc' = "loop" /\ decodes' = 0 /\ moved' = FALSE
      BY <1>1
    <3>2. decodes' <= Len(batch')
      BY <2>1, <3>1
    <3>3. QED
      BY <3>1, <3>2 DEF BeforeBatch
  <2>4. budget' \in Int /\ freeLeft' \in Int /\ idx' = 1 /\ aborted' = "no"
    BY <1>1
  <2>5. failures' \in Nat /\ setup' \in Setup /\ restored' \subseteq Request
        /\ finished' \subseteq Request /\ handles' \subseteq Request
    BY <1>1, <2>2
  <2>6. pc' # "retry" /\ idx' # 0
    BY <1>1
  <2>7. QED
    BY <2>1, <2>3, <2>4, <2>5, <2>6 DEF Types
<1>5. AllRequestsOK'
  <2>1. seq' \in [Request -> Progress]
    <3>1. seq' = [r \in Request |-> Unprocessed(seq[r])]
      BY DEF ForwardFails, Abandoned, Unprocessed
    <3>2. \A r \in Request : Unprocessed(seq[r]) \in Progress
      BY <1>2
    <3>3. QED
      BY <3>1, <3>2
  <2>2. /\ context' \in [Request -> Int] /\ record' \in [Request -> Checkpoint]
        /\ \A r \in Request : context'[r] >= NoKV
    BY <1>1, <1>2, <1>3, ReservedType DEF AllRequestsOK
  <2>3. \A r \in Request : Extra(r)' = 0
    BY <1>1 DEF Extra
  <2>4. \A r \in Request : KVOf(setup'.prompt[r], seq'[r], context'[r], record'[r], 0, failures')
    BY <1>1, <1>2
  <2>5. \A r \in Request : ShapeOf(setup'.prompt[r], seq'[r])
    BY <1>1, <1>2
  <2>6. QED
    BY <2>1, <2>2, <2>3, <2>4, <2>5 DEF AllRequestsOK
<1>6. Homes'
  <2>1. Placed(seq', suspended, waiting, running, InWaiting, InRunning)
    BY <1>2, <1>3, SamePlaced
  <2>2. Placed(seq', suspended', waiting', running', InWaiting, InRunning)
    BY <1>1, <2>1
  <2>3. QED
    BY <1>1, <2>2, Rehome
<1>7. Batches'
  BY <1>1, <1>2 DEF Batches, BeforeBatch, Building, Stalled
<1>8. Loops' /\ Pool' /\ Aborts'
  <2>1. Free' >= 0
    BY <1>1 DEF Free
  <2>2. QED
    BY <1>1, <2>1, NoLoop, FreeHolds, StillAlive
<1>9. QED
  BY <1>4, <1>5, <1>6, <1>7, <1>8 DEF Sound

-----------------------------------------------------------------------------
(* process_outputs.                                                          *)

\* What the rows of the batch that was computed are.
LEMMA RowFacts ==
  ASSUME Sound, pc = "sampled", aborted = "no"
  PROVE  /\ ~moved /\ SampledRows \subseteq Rows /\ Rows \subseteq InRunning /\ Rows \subseteq Request
         /\ \A r \in Rows : seq[r].status = "running"
         /\ \A r \in DecodeRows : ~InPrefill(setup.prompt[r], seq[r]) /\ seq[r].scheduled = 1
         /\ \A r \in Rows \ DecodeRows : InPrefill(setup.prompt[r], seq[r])
         /\ \A r \in Request \ Rows : seq[r].scheduled = 0
<1>1. ~moved /\ BatchOK /\ batch \in Seq(Row) /\ decodes \in Nat /\ decodes <= Len(batch)
  BY DEF Sound, Batches, Types
<1>2. /\ DecodeRows \subseteq Rows
      /\ \A r \in Rows : \E i \in 1 .. Len(batch) : batch[i].req = r
      /\ \A r \in DecodeRows : \E i \in 1 .. Len(batch) : i <= decodes /\ batch[i].req = r
      /\ \A r \in Rows \ DecodeRows : \E i \in 1 .. Len(batch) : i > decodes /\ batch[i].req = r
  <2>1. Len(batch) \in Nat
    BY <1>1
  <2>2. 1 .. decodes \subseteq 1 .. Len(batch)
    BY <1>1, <2>1
  <2>3. \A r \in DecodeRows : \E i \in 1 .. Len(batch) : i <= decodes /\ batch[i].req = r
    BY <1>1, <2>1, <2>2 DEF DecodeRows
  <2>4. ASSUME NEW r \in Rows \ DecodeRows
        PROVE  \E i \in 1 .. Len(batch) : i > decodes /\ batch[i].req = r
    <3>1. PICK i \in 1 .. Len(batch) : batch[i].req = r
      BY DEF Rows
    <3>2. ~(i \in 1 .. decodes)
      BY <2>4, <3>1 DEF DecodeRows
    <3>3. i > decodes
      BY <1>1, <2>1, <3>2
    <3>4. QED
      BY <3>1, <3>3
  <2>5. QED
    BY <2>2, <2>3, <2>4 DEF Rows, DecodeRows
<1>3. Rows \subseteq InRunning /\ \A r \in Rows : seq[r].status = "running"
  BY <1>1, <1>2 DEF BatchOK, RowsOK, RowOK
<1>4. \A r \in DecodeRows : ~InPrefill(setup.prompt[r], seq[r]) /\ seq[r].scheduled = 1
  BY <1>1, <1>2 DEF BatchOK, RowsOK, RowOK
<1>5. \A r \in Rows \ DecodeRows : InPrefill(setup.prompt[r], seq[r])
  BY <1>1, <1>2 DEF BatchOK, RowsOK, RowOK
<1>6. \A r \in Request \ Rows : seq[r].scheduled = 0
  BY <1>1 DEF BatchOK, RowsOK, Rows
<1>7. InRunning \subseteq Request
  <2>1. Placed(seq, suspended, waiting, running, InWaiting, InRunning)
    BY DEF Sound, Homes
  <2>2. QED
    BY <2>1, PlacedFacts
<1>8. QED
  BY <1>1, <1>2, <1>3, <1>4, <1>5, <1>6, <1>7 DEF SampledRows

\* update_prefill and append_token, field by field.
Counted(s, q, r, sampled, eos) ==
  /\ s \in Progress /\ s.status = q.status /\ s.scheduled = 0
  /\ r \in DecodeRows => s.computed = q.computed /\ s.recompute = q.recompute
  /\ r \notin DecodeRows => s.computed = q.computed + q.scheduled
  /\ r \notin DecodeRows /\ Reaches(r) => s.recompute = FALSE
  /\ r \notin DecodeRows /\ ~Reaches(r) => s.recompute = q.recompute
  /\ r \in sampled => s.next = TRUE
  /\ r \in sampled => s.generated = q.generated + 1 /\ s.outputs \in {q.outputs, q.outputs + 1}
  /\ r \notin sampled => s.generated = q.generated /\ s.outputs = q.outputs

\* What a row leaves of its request.
LEMMA ProcessedFields ==
  ASSUME NEW r \in Request, seq[r] \in Progress, NEW sampled, NEW eos
  PROVE  Counted(Processed(r, sampled, eos), seq[r], r, sampled, eos)
<1> DEFINE q == seq[r]
           done == IF r \in DecodeRows THEN q.computed ELSE q.computed + q.scheduled
           again == q.recompute /\ ~(r \notin DecodeRows /\ Reaches(r))
           p == [q EXCEPT !.computed = done, !.recompute = again, !.scheduled = 0,
                         !.stuck = FALSE]
           s == Processed(r, sampled, eos)
<1>1. p = [seq[r] EXCEPT !.computed = IF r \in DecodeRows THEN @ ELSE @ + seq[r].scheduled,
                         !.recompute = @ /\ ~(r \notin DecodeRows /\ Reaches(r)),
                         !.scheduled = 0, !.stuck = FALSE]
  OBVIOUS
<1>2. s = IF r \in sampled THEN RecordToken(p, r, eos) ELSE p
  BY <1>1, Zenon DEF Processed
<1>3. q \in Progress /\ q.computed \in Nat /\ q.scheduled \in Nat /\ q.recompute \in BOOLEAN
  BY DEF Progress
<1>4. done \in Nat /\ again \in BOOLEAN
  BY <1>3
<1>5. /\ again = TRUE \/ again = FALSE
      /\ r \in DecodeRows => again = q.recompute
      /\ r \notin DecodeRows /\ Reaches(r) => again = FALSE
      /\ r \notin DecodeRows /\ ~Reaches(r) => again = q.recompute
  BY <1>3
<1> HIDE DEF q, again, done, s
<1>6. /\ p \in Progress /\ p.computed = done /\ p.recompute = again /\ p.scheduled = 0
      /\ p.status = q.status /\ p.outputs = q.outputs /\ p.generated = q.generated
  BY <1>3, <1>4 DEF Progress
<1> HIDE DEF p
<1> DEFINE t == RecordToken(p, r, eos)
<1> DEFINE outs == IF r \in eos THEN p.outputs ELSE p.outputs + 1
<1> DEFINE more == p.generated + 1
<1>7. t = [p EXCEPT !.generated = more, !.outputs = outs, !.next = TRUE]
  BY DEF RecordToken
<1>8. outs \in Nat /\ outs \in {p.outputs, p.outputs + 1}
  BY <1>6 DEF Progress
<1>9. more \in Nat
  BY <1>6 DEF Progress
<1> HIDE DEF t, outs, more
<1>10. /\ t \in Progress /\ t.computed = p.computed /\ t.recompute = p.recompute
       /\ t.scheduled = p.scheduled /\ t.status = p.status /\ t.next = TRUE
       /\ t.generated = more /\ t.outputs = outs
  BY <1>6, <1>7, <1>8, <1>9 DEF Progress
<1>11. /\ s \in Progress /\ s.computed = done /\ s.recompute = again /\ s.scheduled = 0
       /\ s.status = q.status
       /\ r \in sampled => s.next = TRUE
       /\ r \in sampled => s.generated = q.generated + 1 /\ s.outputs \in {q.outputs, q.outputs + 1}
       /\ r \notin sampled => s.generated = q.generated /\ s.outputs = q.outputs
  <2>1. t.generated = q.generated + 1 /\ t.outputs \in {q.outputs, q.outputs + 1}
    BY <1>6, <1>10, <1>8 DEF more
  <2>2. QED
    BY <1>2, <1>6, <1>10, <2>1 DEF t
<1>12. /\ r \in DecodeRows => done = q.computed
       /\ r \notin DecodeRows => done = q.computed + q.scheduled
  BY DEF done
<1>13. /\ s \in Progress /\ s.status = q.status /\ s.scheduled = 0
       /\ r \in DecodeRows => s.computed = q.computed /\ s.recompute = q.recompute
       /\ r \notin DecodeRows => s.computed = q.computed + q.scheduled
       /\ r \notin DecodeRows /\ Reaches(r) => s.recompute = FALSE
       /\ r \notin DecodeRows /\ ~Reaches(r) => s.recompute = q.recompute
  BY <1>5, <1>11, <1>12
<1>14. QED
  BY <1>11, <1>13 DEF s, q, Counted

\* A row that does not end is as the model left it, its tokens counted.
LEMMA ProcessedOK ==
  ASSUME Sound, pc = "sampled", aborted = "no", NEW r \in Rows, NEW eos
  PROVE  /\ Processed(r, SampledRows, eos) \in Progress
         /\ Processed(r, SampledRows, eos).status = "running"
         /\ Processed(r, SampledRows, eos).scheduled = 0
         /\ Processed(r, SampledRows, eos).outputs >= seq[r].outputs
         /\ ShapeOf(setup.prompt[r], Processed(r, SampledRows, eos))
         /\ KVOf(setup.prompt[r], Processed(r, SampledRows, eos), context[r], record[r], 0, failures)
<1> DEFINE p == setup.prompt[r]
           q == seq[r]
           s == Processed(r, SampledRows, eos)
           c == context[r]
           k == record[r]
<1>1. Types /\ AllRequestsOK /\ Extra(r) = q.scheduled
  BY DEF Sound, Extra
<1>2. /\ r \in Request /\ q.status = "running"
      /\ r \in DecodeRows => ~InPrefill(p, q) /\ q.scheduled = 1
      /\ r \notin DecodeRows => InPrefill(p, q)
  BY RowFacts
<1>3. /\ p \in Nat \ {0} /\ q \in Progress /\ ShapeOf(p, q) /\ KVOf(p, q, c, k, q.scheduled, failures)
      /\ q.outputs \in Nat /\ c \in Int /\ failures \in Nat
  BY <1>1, <1>2, RequestFacts DEF Types
<1>4. Reaches(r) <=> q.computed + q.scheduled = Goal(p, q)
  BY <1>1, <1>2, PrefillFacts DEF Reaches
<1>5. r \in SampledRows <=> r \in DecodeRows \/ Reaches(r)
  BY DEF SampledRows
<1>6. /\ s \in Progress /\ s.status = q.status /\ s.scheduled = 0
      /\ r \in DecodeRows => s.computed = q.computed /\ s.recompute = q.recompute
      /\ r \notin DecodeRows => s.computed = q.computed + q.scheduled
      /\ r \notin DecodeRows /\ Reaches(r) => s.recompute = FALSE
      /\ r \notin DecodeRows /\ ~Reaches(r) => s.recompute = q.recompute
      /\ r \in SampledRows => s.next = TRUE
      /\ r \in SampledRows =>
           s.generated = q.generated + 1 /\ s.outputs \in {q.outputs, q.outputs + 1}
      /\ r \notin SampledRows => s.generated = q.generated /\ s.outputs = q.outputs
  <2>1. Counted(s, q, r, SampledRows, eos)
    BY <1>2, <1>3, ProcessedFields
  <2> HIDE DEF s, q
  <2>2. QED
    BY <2>1 DEF Counted
<1> HIDE DEF p, q, s, c, k
<1>7. s.outputs >= q.outputs
  BY <1>3, <1>6
<1>8. CASE r \in DecodeRows
  <2>1. /\ s.status = "running" /\ s.computed = q.computed /\ s.recompute = q.recompute
        /\ s.generated = q.generated + 1 /\ s.outputs \in {q.outputs, q.outputs + 1}
        /\ s.next = TRUE
    BY <1>2, <1>5, <1>6, <1>8
  <2>2. ShapeOf(p, s) /\ KVOf(p, s, c, k, 0, failures)
    BY <1>2, <1>3, <1>6, <1>8, <2>1, DecodedOK
  <2>3. QED
    BY <1>6, <1>7, <2>1, <2>2 DEF p, q, s, c, k
<1>9. CASE r \notin DecodeRows /\ Reaches(r)
  <2>1. /\ s.status = "running" /\ s.computed = q.computed + q.scheduled /\ s.recompute = FALSE
        /\ s.generated = q.generated + 1 /\ s.outputs \in {q.outputs, q.outputs + 1}
        /\ s.next = TRUE
    BY <1>2, <1>5, <1>6, <1>9
  <2>2. ShapeOf(p, s) /\ KVOf(p, s, c, k, 0, failures)
    BY <1>2, <1>3, <1>4, <1>6, <1>9, <2>1, PrefilledOK
  <2>3. QED
    BY <1>6, <1>7, <2>1, <2>2 DEF p, q, s, c, k
<1>10. CASE r \notin DecodeRows /\ ~Reaches(r)
  <2>1. /\ s.status = "running" /\ s.computed = q.computed + q.scheduled
        /\ s.recompute = q.recompute /\ s.outputs = q.outputs /\ s.generated = q.generated
    BY <1>2, <1>5, <1>6, <1>10
  <2>2. ShapeOf(p, s) /\ KVOf(p, s, c, k, 0, failures)
    BY <1>2, <1>3, <1>4, <1>6, <1>10, <2>1, ChunkOK
  <2>3. QED
    BY <1>6, <1>7, <2>1, <2>2 DEF p, q, s, c, k
<1>11. QED
  BY <1>8, <1>9, <1>10

\* What process_outputs makes of the rows and of the others; `ends' are the requests
\* that are done.
Processes(ends) ==
  /\ ends \subseteq Rows
  /\ seq' \in [Request -> Progress] /\ context' \in [Request -> Int]
  /\ record' \in [Request -> Checkpoint]
  /\ \A r \in ends : seq'[r] = Ended("finished") /\ context'[r] = NoKV
  /\ \A r \in Rows \ ends :
       /\ seq'[r].status = "running" /\ seq'[r].scheduled = 0
       /\ seq'[r].outputs >= seq[r].outputs
       /\ ShapeOf(setup.prompt[r], seq'[r])
       /\ KVOf(setup.prompt[r], seq'[r], context'[r], record'[r], 0, failures)
  /\ \A r \in Request \ Rows : seq'[r] = seq[r]
  /\ \A r \in Request \ ends : context'[r] = context[r] /\ record'[r] = record[r]

\* process_outputs leaves each row of the batch as Processes says.
LEMMA ProcessRows ==
  ASSUME Sound, pc = "sampled", aborted = "no", NEW eos,
         NEW ends, ends = {r \in SampledRows : IsLast(r, eos)},
         seq' = [r \in Request |->
                  IF r \in ends THEN Ended("finished")
                  ELSE IF r \in Rows THEN Processed(r, SampledRows, eos) ELSE seq[r]],
         context' = [r \in Request |-> IF r \in ends THEN NoKV ELSE context[r]],
         record' = [r \in Request |-> IF r \in ends \intersect restored THEN NoRecord ELSE record[r]]
  PROVE  Processes(ends)
<1>1. /\ seq \in [Request -> Progress] /\ context \in [Request -> Int]
      /\ record \in [Request -> Checkpoint] /\ Types /\ AllRequestsOK
  BY DEF Sound, AllRequestsOK
<1>2. ends \subseteq Rows /\ Rows \subseteq Request
  BY RowFacts
<1>3. \A r \in Request : setup.prompt[r] \in Nat \ {0}
  BY <1>1, RequestFacts
<1>4. NoRecord \in Checkpoint /\ (ends # {} => Ended("finished") \in Progress)
  <2>1. ASSUME ends # {}
        PROVE  Ended("finished") \in Progress
    <3>1. PICK r \in Request : TRUE
      BY <1>2, <2>1
    <3>2. setup.prompt[r] \in Nat \ {0} /\ "finished" \in Settled
      BY <1>3 DEF Settled
    <3>3. QED
      BY <3>2, EndedOK
  <2>2. NoRecord \in Checkpoint
    <3>1. 1 \in Nat \ {0}
      OBVIOUS
    <3>2. QED
      BY <3>1, NewOK
  <2>3. QED
    BY <2>1, <2>2
<1>5. ASSUME NEW r \in Rows \ ends
      PROVE  /\ Processed(r, SampledRows, eos) \in Progress
             /\ Processed(r, SampledRows, eos).status = "running"
             /\ Processed(r, SampledRows, eos).scheduled = 0
             /\ Processed(r, SampledRows, eos).outputs >= seq[r].outputs
             /\ ShapeOf(setup.prompt[r], Processed(r, SampledRows, eos))
             /\ KVOf(setup.prompt[r], Processed(r, SampledRows, eos), context[r], record[r], 0, failures)
  BY <1>5, ProcessedOK
<1>6. \A r \in Request \ ends : context'[r] = context[r] /\ record'[r] = record[r]
  OBVIOUS
<1>7. \A r \in ends : seq'[r] = Ended("finished") /\ context'[r] = NoKV
  BY <1>2
<1>8. \A r \in Request \ Rows : seq'[r] = seq[r]
  BY <1>2
<1>9. \A r \in Rows \ ends : seq'[r] = Processed(r, SampledRows, eos)
  BY <1>2
<1>10. seq' \in [Request -> Progress]
  <2>1. \A r \in Request : seq'[r] \in Progress
    BY <1>1, <1>4, <1>5, <1>7, <1>8, <1>9
  <2>2. QED
    BY <2>1
<1>11. context' \in [Request -> Int] /\ record' \in [Request -> Checkpoint]
  <2>1. \A r \in Request : context'[r] \in Int /\ record'[r] \in Checkpoint
    BY <1>1, <1>4 DEF NoKV
  <2>2. QED
    BY <2>1
<1>12. ASSUME NEW r \in Rows \ ends
       PROVE  /\ seq'[r].status = "running" /\ seq'[r].scheduled = 0
              /\ seq'[r].outputs >= seq[r].outputs
              /\ ShapeOf(setup.prompt[r], seq'[r])
              /\ KVOf(setup.prompt[r], seq'[r], context'[r], record'[r], 0, failures)
  <2>1. /\ seq'[r] = Processed(r, SampledRows, eos)
        /\ context'[r] = context[r] /\ record'[r] = record[r]
    BY <1>2, <1>6, <1>9, <1>12
  <2>2. QED
    BY <1>5, <2>1
<1>13. QED
  BY <1>2, <1>6, <1>7, <1>8, <1>10, <1>11, <1>12 DEF Processes

\* process_outputs keeps the counters and the KV of every request.
LEMMA ProcessRequests ==
  ASSUME Sound, pc = "sampled", pc' = "publish", aborted = "no", aborted' = "no", setup' = setup, failures' = failures,
         NEW ends, Processes(ends)
  PROVE  /\ AllRequestsOK' /\ Free' >= 0
         /\ \A r \in Request : seq'[r].scheduled = 0
<1>1. Types /\ AllRequestsOK /\ context \in [Request -> Int]
  BY DEF Sound, AllRequestsOK
<1>2. /\ \A r \in Request \ Rows : seq[r].scheduled = 0
      /\ Rows \subseteq Request
  BY RowFacts
<1>3. ASSUME NEW r \in Request
      PROVE  /\ ShapeOf(setup.prompt[r], seq'[r])
             /\ KVOf(setup.prompt[r], seq'[r], context'[r], record'[r], 0, failures)
             /\ context'[r] >= NoKV /\ context'[r] <= context[r]
             /\ seq'[r].scheduled = 0
  <2>1. /\ setup.prompt[r] \in Nat \ {0} /\ context[r] \in Int /\ context[r] >= NoKV
        /\ ShapeOf(setup.prompt[r], seq[r])
        /\ KVOf(setup.prompt[r], seq[r], context[r], record[r], Extra(r), failures)
    BY <1>1, RequestFacts
  <2>2. CASE r \in ends
    <3>1. seq'[r] = Ended("finished") /\ context'[r] = NoKV
      BY <2>2 DEF Processes
    <3>2. "finished" \in Settled
      BY DEF Settled
    <3>3. /\ Ended("finished").scheduled = 0 /\ ShapeOf(setup.prompt[r], Ended("finished"))
          /\ KVOf(setup.prompt[r], Ended("finished"), NoKV, record'[r], 0, failures)
      BY <2>1, <3>2, EndedOK
    <3>4. context'[r] >= NoKV /\ context'[r] <= context[r]
      BY <2>1, <3>1 DEF NoKV
    <3>5. QED
      BY <3>1, <3>3, <3>4
  <2>3. CASE r \in Rows \ ends
    <3>1. context'[r] = context[r]
      BY <2>3 DEF Processes
    <3>2. context'[r] >= NoKV /\ context'[r] <= context[r]
      BY <2>1, <3>1
    <3>3. QED
      BY <2>3, <3>2 DEF Processes
  <2>4. CASE r \notin Rows
    <3>1. seq'[r] = seq[r] /\ context'[r] = context[r] /\ record'[r] = record[r]
      BY <2>4 DEF Processes
    <3>2. Extra(r) = 0 /\ seq[r].scheduled = 0
      BY <1>2, <2>4 DEF Extra
    <3>3. KVOf(setup.prompt[r], seq[r], context[r], record[r], 0, failures)
      BY <2>1, <3>2
    <3>4. context'[r] >= NoKV /\ context'[r] <= context[r]
      BY <2>1, <3>1
    <3>5. ShapeOf(setup.prompt[r], seq'[r])
          /\ KVOf(setup.prompt[r], seq'[r], context'[r], record'[r], 0, failures)
      BY <2>1, <3>1, <3>3
    <3>6. QED
      BY <3>1, <3>2, <3>4, <3>5
  <2>5. QED
    BY <2>2, <2>3, <2>4
<1>4. AllRequestsOK'
  <2>1. \A r \in Request : Extra(r)' = 0
    BY DEF Extra
  <2>2. \A r \in Request : KVOf(setup'.prompt[r], seq'[r], context'[r], record'[r], Extra(r)', failures')
    BY <1>3, <2>1
  <2>3. \A r \in Request : ShapeOf(setup'.prompt[r], seq'[r]) /\ context'[r] >= NoKV
    BY <1>3
  <2>4. QED
    BY <2>2, <2>3 DEF AllRequestsOK, Processes
<1>5. Free' >= 0
  <2>1. context' \in [Request -> Int]
    BY DEF Processes
  <2>2. FreeIn(context) <= FreeIn(context')
    BY <1>1, <1>3, <2>1, PoolShrinks
  <2>3. FreeIn(context) >= 0 /\ FreeIn(context) \in Int /\ FreeIn(context') \in Int
    BY <1>1, <2>1, PoolSum DEF Sound, Pool, Free
  <2>4. QED
    BY <2>2, <2>3 DEF Free
<1>6. QED
  BY <1>3, <1>4, <1>5

\* What process_outputs ends leaves running_.
LEMMA ProcessHomes ==
  ASSUME Sound, pc = "sampled", aborted = "no", setup' = setup, failures' = failures, NEW ends, Processes(ends),
         waiting' = waiting, suspended' = suspended, running' = Only(running, Request \ ends)
  PROVE  Homes'
<1> DEFINE R2 == InRunning \intersect (Request \ ends)
<1>1. Placed(seq, suspended, waiting, running, InWaiting, InRunning)
  BY DEF Sound, Homes
<1>2. /\ InWaiting \subseteq Request /\ InRunning \subseteq Request
  BY <1>1, PlacedFacts
<1>3. /\ Rows \subseteq InRunning /\ Rows \subseteq Request /\ ends \subseteq Rows
      /\ \A r \in Rows : seq[r].status = "running"
  BY RowFacts DEF Processes
<1>4. IsQueue(waiting', InWaiting) /\ IsQueue(running', R2)
  <2>1. IsQueue(running, InRunning) /\ IsQueue(waiting, InWaiting)
    BY <1>1 DEF Placed
  <2>2. QED
    BY <2>1, OnlyQueue
<1>5. \A r \in ends : seq'[r].status = "finished"
  BY DEF Processes, Ended, NewSeq
<1>6. /\ \A r \in Rows \ ends : seq'[r].status = "running"
      /\ \A r \in Request \ Rows : seq'[r] = seq[r]
  BY DEF Processes
<1>7. \A r \in InWaiting : seq'[r].status \in {"waiting", "preempted"}
  BY <1>1, <1>2, <1>3, <1>6 DEF Placed
<1>8. ASSUME NEW r \in R2
      PROVE  /\ seq'[r].status \in {"running", "preempted", "suspended"}
             /\ seq'[r].status = "suspended" => ~InPrefill(setup.prompt[r], seq'[r])
  <2>1. CASE r \in Rows
    BY <1>6, <2>1
  <2>2. CASE r \notin Rows
    BY <1>1, <1>6, <2>2 DEF Placed
  <2>3. QED
    BY <2>1, <2>2
<1>9. ASSUME NEW r \in Request
      PROVE  /\ Active(seq'[r]) => r \in InWaiting \union R2
             /\ seq'[r].status = "suspended" <=> seq[r].status = "suspended"
  <2>1. CASE r \in ends
    BY <1>3, <1>5, <2>1 DEF Active
  <2>2. CASE r \in Rows \ ends
    BY <1>3, <1>6, <2>2
  <2>3. CASE r \notin Rows
    BY <1>1, <1>3, <1>6, <2>3 DEF Placed
  <2>4. QED
    BY <2>1, <2>2, <2>3
<1>10. suspended' = {r \in Request : seq'[r].status = "suspended"}
  BY <1>1, <1>9 DEF Placed
<1>11. \A r \in Request : seq'[r].status = "suspended" => setup.checkpoint
  BY <1>1, <1>9 DEF Placed
<1>12. InWaiting \intersect R2 = {}
  BY <1>1 DEF Placed
<1> HIDE DEF R2
<1>13. Placed(seq', suspended', waiting', running', InWaiting, R2)
  BY <1>4, <1>7, <1>8, <1>9, <1>10, <1>11, <1>12 DEF Placed
<1>14. QED
  BY <1>13, Rehome

\* The sampled tokens are processed.
LEMMA ProcessKeeps ==
  ASSUME Sound, Process
  PROVE  Sound'
<1>1. pc = "sampled" /\ pc' = "publish" /\ aborted = "no" /\ handles' = handles /\ failures' = failures
  BY DEF Process, engineVars
<1>2. PICK eos \in SUBSET SampledRows : ProcessOutputs(SampledRows, eos)
  BY DEF Process, engineVars
<1> DEFINE ends == {r \in SampledRows : IsLast(r, eos)}
<1>3. /\ seq' = [r \in Request |->
                  IF r \in ends THEN Ended("finished")
                  ELSE IF r \in Rows THEN Processed(r, SampledRows, eos) ELSE seq[r]]
      /\ context' = [r \in Request |-> IF r \in ends THEN NoKV ELSE context[r]]
      /\ running' = Only(running, Request \ ends)
      /\ finished' = finished \union ends
      /\ record' = [r \in Request |-> IF r \in ends \intersect restored THEN NoRecord ELSE record[r]]
      /\ restored' = restored \ ends
      /\ setup' = setup /\ waiting' = waiting /\ suspended' = suspended
      /\ batch' = batch /\ decodes' = decodes /\ budget' = budget /\ freeLeft' = freeLeft
      /\ idx' = idx /\ moved' = moved /\ aborted' = aborted
  BY <1>2 DEF ProcessOutputs, stepVars
<1>4. ends = {r \in SampledRows : IsLast(r, eos)}
  OBVIOUS
<1> HIDE DEF ends
<1>5. Processes(ends)
  BY <1>1, <1>3, <1>4, ProcessRows
<1>6. /\ AllRequestsOK' /\ Free' >= 0 /\ \A r \in Request : seq'[r].scheduled = 0
  BY <1>1, <1>3, <1>5, ProcessRequests
<1>7. Homes'
  BY <1>1, <1>3, <1>5, ProcessHomes
<1>8. ~moved /\ ends \subseteq Request
  BY <1>1, <1>5, RowFacts DEF Processes
<1>9. Types'
  BY <1>1, <1>3, <1>8 DEF Sound, Types
<1>10. Batches'
  <2>1. pc' \notin BeforeBatch \union Stalled \union Building /\ pc' # "sampled"
    BY <1>1 DEF BeforeBatch, Stalled, Building
  <2>2. QED
    BY <1>3, <1>6, <1>8, <2>1 DEF Batches
<1>11. Loops' /\ Pool' /\ Aborts'
  BY <1>1, <1>3, <1>6, NoLoop, FreeHolds, StillAlive
<1>12. QED
  BY <1>6, <1>7, <1>9, <1>10, <1>11 DEF Sound

-----------------------------------------------------------------------------
(* The invariant is inductive.                                               *)

\* Every step of schedule_step keeps the invariant.
LEMMA ScheduleKeeps ==
  ASSUME Sound, Schedule
  PROVE  IInv'
<1>1. handles' = handles /\ failures' = failures /\ ScheduleStep
  BY DEF Schedule, engineVars
<1> USE DEF IInv
<1>2. CASE BeginStep
  BY <1>1, <1>2, BeginStepKeeps
<1>3. CASE ReapPreempted
  <2>1. /\ running' = StillRunning(seq) /\ waiting' = WaitingAgain(seq)
        /\ UNCHANGED <<setup, seq, context, storeVars, finished, stepVars, aborted>>
        /\ pc = "reap" /\ pc' = "ready"
    BY <1>3 DEF ReapPreempted
  <2>2. QED
    BY <1>1, <2>1, ReapKeeps
<1>4. CASE AdmitDecodeReady
  BY <1>1, <1>4, AdmitDecodeReadyKeeps
<1>5. CASE ScheduleDecode
  BY <1>1, <1>5, ScheduleDecodeKeeps
<1>6. CASE DecodesScheduled
  BY <1>1, <1>6, DecodesScheduledKeeps
<1>7. CASE ScheduleRunningPrefill
  BY <1>1, <1>7, ScheduleRunningPrefillKeeps
<1>8. CASE PrefillsScheduled
  BY <1>1, <1>8, PrefillsScheduledKeeps
<1>9. CASE AdmitPrefill
  BY <1>1, <1>9, AdmitPrefillKeeps
<1>10. CASE PreemptForWaiting
  BY <1>1, <1>10, PreemptForWaitingKeeps
<1>11. CASE EndAdmission
  BY <1>1, <1>11, EndAdmissionKeeps
<1>12. CASE ReapStalled
  <2>1. /\ running' = StillRunning(seq) /\ waiting' = WaitingAgain(seq)
        /\ UNCHANGED <<setup, seq, context, storeVars, finished, stepVars, aborted>>
        /\ pc = "stalled" /\ pc' = "reject"
    BY <1>12 DEF ReapStalled
  <2>2. QED
    BY <1>1, <2>1, ReapKeeps
<1>13. CASE RejectWaiting
  BY <1>1, <1>13, RejectWaitingKeeps
<1>14. CASE FailStalledPrefill
  BY <1>1, <1>14, FailStalledPrefillKeeps
<1>15. CASE NothingStalled
  BY <1>1, <1>15, NothingStalledKeeps
<1>16. CASE FrontMoved
  BY <1>1, <1>16, FrontMovedKeeps
<1>17. CASE CheckFails
  BY <1>1, <1>17, CheckFailsKeeps
<1>18. QED
  BY <1>1, <1>2, <1>3, <1>4, <1>5, <1>6, <1>7, <1>8, <1>9, <1>10, <1>11, <1>12, <1>13, <1>14, <1>15,
     <1>16, <1>17
     DEF ScheduleStep

\* Nothing the engine knows changes.
LEMMA StutterKeeps ==
  ASSUME Sound, UNCHANGED vars
  PROVE  Sound'
<1>1. /\ setup' = setup /\ failures' = failures /\ seq' = seq /\ context' = context /\ waiting' = waiting
      /\ running' = running /\ suspended' = suspended /\ record' = record
      /\ restored' = restored /\ finished' = finished /\ batch' = batch /\ decodes' = decodes
      /\ budget' = budget /\ freeLeft' = freeLeft /\ idx' = idx /\ moved' = moved
      /\ aborted' = aborted /\ pc' = pc /\ handles' = handles
  BY DEF vars, schedVars, queueVars, storeVars, stepVars, engineVars
<1>2. Types'
  BY <1>1 DEF Sound, Types
<1>3. AllRequestsOK'
  <2>1. \A r \in Request : Extra(r)' = Extra(r)
    BY <1>1 DEF Extra
  <2>2. QED
    BY <1>1, <2>1 DEF Sound, AllRequestsOK
<1>4. Homes' /\ InRunning' = InRunning
  <2>1. InRunning' = InRunning /\ InWaiting' = InWaiting
    BY <1>1 DEF InRunning, InWaiting
  <2>2. QED
    BY <1>1, <2>1 DEF Sound, Homes, Placed
<1>5. Batches'
  <2>1. BatchOK => BatchOK'
    BY <1>1, <1>4 DEF BatchOK, RowsOK, RowOK
  <2>2. QED
    BY <1>1, <2>1 DEF Sound, Batches
<1>6. Loops'
  BY <1>1, <1>4 DEF Sound, Loops
<1>7. Pool'
  <2>1. Reserved' = Reserved
    BY <1>1 DEF Reserved, PrefillRequests
  <2>2. FreeIn(Reserved)' = FreeIn(Reserved)
    BY <2>1, ReservedNext
  <2>3. Free' = Free
    BY <1>1 DEF Free
  <2>4. QED
    BY <1>1, <2>2, <2>3 DEF Sound, Pool
<1>8. Aborts'
  BY <1>1 DEF Sound, Aborts, ProcessSurvives
<1>9. QED
  BY <1>2, <1>3, <1>4, <1>5, <1>6, <1>7, <1>8 DEF Sound

\* Where a request was lost the behaviour ends.
LEMMA LostEnds == Lost => ~Next
<1> SUFFICES ASSUME Lost
             PROVE  ~Next
  OBVIOUS
<1>1. aborted = "lost" /\ pc = "admit" /\ aborted # "no"
  BY DEF Lost
<1>2. ASSUME NEW r \in Request
      PROVE  ~Submit(r) /\ ~SubmitCancelled(r) /\ ~Cancel(r)
  BY <1>1 DEF Submit, SubmitCancelled, Cancel
<1>3. ~RunStep /\ ~CancellationsFlushed
  BY <1>1 DEF RunStep, CancellationsFlushed
<1>4. ~Forward /\ ~ForwardFails /\ ~Process /\ ~Publish
  BY <1>1 DEF Forward, ForwardFails, Process, Publish
<1>5. ~BeginStep /\ ~ReapPreempted /\ ~AdmitDecodeReady /\ ~ScheduleDecode /\ ~DecodesScheduled
  BY <1>1 DEF BeginStep, ReapPreempted, AdmitDecodeReady, ScheduleDecode, DecodesScheduled
<1>6. ~ScheduleRunningPrefill /\ ~PrefillsScheduled /\ ~AdmitPrefill /\ ~PreemptForWaiting
  BY <1>1 DEF ScheduleRunningPrefill, PrefillsScheduled, AdmitPrefill, PreemptForWaiting
<1>7. ~FrontMoved /\ ~EndAdmission /\ ~CheckFails
  BY <1>1 DEF FrontMoved, EndAdmission, CheckFails
<1>8. ~ReapStalled /\ ~RejectWaiting /\ ~FailStalledPrefill /\ ~NothingStalled
  BY <1>1 DEF ReapStalled, RejectWaiting, FailStalledPrefill, NothingStalled
<1>9. ~Schedule
  BY <1>5, <1>6, <1>7, <1>8 DEF Schedule, ScheduleStep
<1>10. QED
  BY <1>2, <1>3, <1>4, <1>9 DEF Next

\* Nothing happens after that.
LEMMA LostKeeps ==
  ASSUME Lost, [Next]_vars
  PROVE  Lost'
<1>1. aborted = "lost" /\ pc = "admit" /\ ~Next
  BY LostEnds DEF Lost
<1>2. /\ setup' = setup /\ failures' = failures /\ seq' = seq /\ context' = context /\ waiting' = waiting
      /\ running' = running /\ suspended' = suspended /\ record' = record
      /\ restored' = restored /\ finished' = finished /\ batch' = batch /\ decodes' = decodes
      /\ budget' = budget /\ freeLeft' = freeLeft /\ idx' = idx /\ moved' = moved
      /\ aborted' = aborted /\ pc' = pc /\ handles' = handles
  BY <1>1 DEF vars, schedVars, queueVars, storeVars, stepVars, engineVars
<1>3. Types' /\ Free' >= 0
  BY <1>2 DEF Lost, Types, Free
<1>4. AllRequestsOK'
  BY <1>1, <1>2 DEF Lost, AllRequestsOK
<1>5. QED
  BY <1>1, <1>2, <1>3, <1>4 DEF Lost

\* A new engine satisfies the invariant.
LEMMA InitOK == Init => Sound
<1> SUFFICES ASSUME Init
             PROVE  Sound
  OBVIOUS
<1>1. /\ setup \in Setup /\ seq = [r \in Request |-> NewSeq]
      /\ context = [r \in Request |-> NoKV] /\ waiting = <<>> /\ running = <<>>
      /\ suspended = {} /\ record = [r \in Request |-> NoRecord] /\ restored = {}
      /\ finished = {} /\ batch = <<>> /\ decodes = 0 /\ budget = 0 /\ freeLeft = 0 /\ idx = 1
      /\ moved = FALSE /\ aborted = "no" /\ pc = "loop" /\ handles = {}
      /\ failures = 0
  BY DEF Init, SchedulerInit
<1>2. \A r \in Request : setup.prompt[r] \in Nat \ {0}
  BY <1>1, SetupFacts
<1>3. /\ NewSeq \in Progress /\ NewSeq.status = "new" /\ NewSeq.scheduled = 0
      /\ NoRecord \in Checkpoint
      /\ \A p \in Nat \ {0} : ShapeOf(p, NewSeq) /\ KVOf(p, NewSeq, NoKV, NoRecord, 0, failures)
  <2>1. 1 \in Nat \ {0}
    OBVIOUS
  <2>2. /\ NewSeq \in Progress /\ NewSeq.status = "new" /\ NewSeq.scheduled = 0
        /\ NoRecord \in Checkpoint
    BY <2>1, NewOK
  <2>3. \A p \in Nat \ {0} : ShapeOf(p, NewSeq) /\ KVOf(p, NewSeq, NoKV, NoRecord, 0, failures)
    BY NewOK
  <2>4. QED
    BY <2>2, <2>3
<1>4. <<>> \in Seq(Row) /\ Len(<<>>) = 0
  BY EmptySeq
<1>5. Types
  <2>1. batch \in Seq(Row) /\ decodes \in Nat /\ decodes <= Len(batch)
    BY <1>1, <1>4
  <2>2. /\ restored \subseteq Request /\ finished \subseteq Request /\ handles \subseteq Request
        /\ budget \in Int /\ freeLeft \in Int /\ idx \in Nat \ {0}
    BY <1>1
  <2>3. moved \in BOOLEAN
    BY <1>1
  <2>4. aborted = "no" /\ pc \in BeforeBatch /\ failures \in Nat
    BY <1>1 DEF BeforeBatch
  <2>5. QED
    BY <1>1, <2>1, <2>2, <2>3, <2>4 DEF Types
<1>6. AllRequestsOK
  <2>1. \A r \in Request : Extra(r) = 0
    BY <1>1 DEF Extra
  <2>2. NoKV \in Int /\ NoKV >= NoKV
    BY DEF NoKV
  <2>3. \A r \in Request : seq[r] = NewSeq /\ context[r] = NoKV /\ record[r] = NoRecord
    BY <1>1
  <2>4. \A r \in Request : ShapeOf(setup.prompt[r], seq[r]) /\ context[r] >= NoKV
    BY <1>2, <1>3, <2>2, <2>3
  <2>5. \A r \in Request : KVOf(setup.prompt[r], seq[r], context[r], record[r], Extra(r), failures)
    BY <1>2, <1>3, <2>1, <2>3
  <2>6. seq \in [Request -> Progress] /\ context \in [Request -> Int]
        /\ record \in [Request -> Checkpoint]
    BY <1>1, <1>3, <2>2
  <2>7. QED
    BY <2>4, <2>5, <2>6 DEF AllRequestsOK
<1>7. Homes /\ InRunning = {}
  <2>1. IsQueue(waiting, {}) /\ IsQueue(running, {})
    BY <1>1, EmptyQueue
  <2>2. InWaiting = {} /\ InRunning = {}
    BY <2>1 DEF IsQueue, InWaiting, InRunning
  <2>3. \A r \in Request : seq[r].status = "new"
    BY <1>1, <1>3
  <2>4. QED
    BY <1>1, <2>1, <2>2, <2>3 DEF Homes, Placed, Active
<1>8. Batches
  <2>1. \A r \in Request : seq[r].scheduled = 0
    BY <1>1, <1>3
  <2>2. QED
    BY <1>1, <2>1 DEF Batches, Building
<1>9. Loops /\ Aborts
  BY <1>1 DEF Loops, Aborts, ProcessSurvives
<1>10. Pool
  <2>1. context \in [Request -> Int]
    BY <1>6 DEF AllRequestsOK
  <2>2. Free >= 0
    <3>1. \A r \in Request : Blocks(context[r]) = 0
      BY <1>1, BlocksNone
    <3>2. FreeIn(context) = NumBlocks
      BY <2>1, <3>1, PoolFree
    <3>3. QED
      BY <3>2, Positive DEF Free
  <2>3. QED
    BY <1>1, <2>2 DEF Pool
<1>11. QED
  BY <1>5, <1>6, <1>7, <1>8, <1>9, <1>10 DEF Sound

\* Every step of the engine keeps the invariant.
LEMMA NextKeeps ==
  ASSUME IInv, [Next]_vars
  PROVE  IInv'
<1>1. CASE Lost
  BY <1>1, LostKeeps DEF IInv
<1> SUFFICES ASSUME Sound
             PROVE  IInv'
  BY <1>1 DEF IInv
<1>2. ASSUME NEW r \in Request, Submit(r)
      PROVE  IInv'
  BY <1>2, SubmitKeeps DEF IInv
<1>3. ASSUME NEW r \in Request, SubmitCancelled(r)
      PROVE  IInv'
  BY <1>3, SubmitCancelledKeeps DEF IInv
<1>4. ASSUME NEW r \in Request, Cancel(r)
      PROVE  IInv'
  BY <1>4, CancelKeeps DEF IInv
<1>5. CASE RunStep
  BY <1>5, RunStepKeeps DEF IInv
<1>6. CASE CancellationsFlushed
  BY <1>6, CancellationsFlushedKeeps DEF IInv
<1>7. CASE Schedule
  BY <1>7, ScheduleKeeps
<1>8. CASE Forward
  BY <1>8, ForwardKeeps DEF IInv
<1>9. CASE Process
  BY <1>9, ProcessKeeps DEF IInv
<1>10. CASE Publish
  BY <1>10, PublishKeeps DEF IInv
<1>11. CASE UNCHANGED vars
  BY <1>11, StutterKeeps DEF IInv
<1>12. CASE ForwardFails
  BY <1>12, ForwardFailsKeeps DEF IInv
<1>13. QED
  BY <1>2, <1>3, <1>4, <1>5, <1>6, <1>7, <1>8, <1>9, <1>10, <1>11, <1>12 DEF Next

\* The inductive invariant holds in every state of every run: schedule_step, the
\* forward pass, also one that fails, process_outputs and the calls of the front
\* end keep it; only an admission under priority can leave Sound for Lost.
THEOREM Inductive == Spec => []IInv
<1>1. Init => IInv
  BY InitOK DEF IInv
<1>2. IInv /\ [Next]_vars => IInv'
  BY NextKeeps
<1>3. QED
  BY <1>1, <1>2, PTL DEF Spec

-----------------------------------------------------------------------------
(* What the runs check follows.                                              *)

\* The invariant gives the types.
LEMMA Typed == IInv => TypeOK
<1> SUFFICES ASSUME IInv
             PROVE  TypeOK
  OBVIOUS
<1>1. /\ Types /\ AllRequestsOK
      /\ context \in [Request -> Int] /\ FreeIn(context) >= 0
  BY DEF IInv, Sound, Lost, AllRequestsOK, Pool, Free
<1>2. ASSUME NEW r \in Request
      PROVE  /\ seq[r].status \in {"new", "waiting", "running", "preempted", "suspended"} \union Settled
             /\ {seq[r].computed, seq[r].scheduled, seq[r].generated, seq[r].outputs} \subseteq Nat
             /\ {seq[r].recompute, seq[r].next, seq[r].tired, seq[r].stuck} \subseteq BOOLEAN
             /\ context[r] \in -1 .. Capacity
  <2>1. seq[r] \in Progress /\ context[r] \in Int /\ context[r] >= -1
    BY <1>1, RequestFacts DEF NoKV
  <2>2. context[r] <= Capacity /\ Capacity \in Int
    BY <1>1, WithinCapacity, Positive DEF Capacity
  <2>3. context[r] \in -1 .. Capacity
    BY <2>1, <2>2
  <2>4. QED
    BY <2>1, <2>3 DEF Progress, Status
<1>3. waiting \in Seq(Request) /\ running \in Seq(Request) /\ suspended \subseteq Request
  <2>1. CASE Lost
    BY <2>1 DEF Lost
  <2>2. CASE Sound
    <3>1. Placed(seq, suspended, waiting, running, InWaiting, InRunning)
      BY <2>2 DEF Sound, Homes
    <3>2. QED
      BY <3>1, PlacedFacts DEF Placed, IsQueue
  <2>3. QED
    BY <2>1, <2>2 DEF IInv
<1>4. QED
  BY <1>1, <1>2, <1>3 DEF Types, TypeOK

\* The invariant gives every request one home.
LEMMA Homed == IInv => OneHome
<1> SUFFICES ASSUME IInv, aborted # "lost"
             PROVE  OneHome
  BY DEF OneHome
<1>1. Sound
  BY DEF IInv, Lost
<1>2. /\ Types /\ AllRequestsOK /\ Placed(seq, suspended, waiting, running, InWaiting, InRunning)
  BY <1>1 DEF Sound, Homes
<1>3. IsInjective(waiting) /\ IsInjective(running)
  BY <1>2 DEF Placed, IsQueue
<1>4. /\ InWaiting \subseteq Request /\ InRunning \subseteq Request /\ suspended \subseteq Request
      /\ InWaiting \intersect InRunning = {}
      /\ suspended = {r \in Request : seq[r].status = "suspended"}
      /\ \A r \in InWaiting : seq[r].status \in {"waiting", "preempted"}
      /\ \A r \in InRunning : seq[r].status \in {"running", "preempted", "suspended"}
      /\ \A r \in Request : Active(seq[r]) => r \in InWaiting \union InRunning
  BY <1>2, PlacedFacts DEF Placed
<1>5. InWaiting \intersect suspended = {}
  BY <1>4
<1>6. \A r \in Request : r \in Live <=> Active(seq[r]) \/ seq[r].status = "suspended"
  <2>1. \A r \in Request : seq[r].status \in Status
    BY <1>2, RequestFacts DEF Progress
  <2>2. QED
    BY <2>1 DEF Live, Active, Status, Settled
<1>7. InWaiting \union InRunning \union suspended = Live
  <2>1. Live \subseteq Request
    BY DEF Live
  <2>2. \A r \in Request : r \in InWaiting \union InRunning \union suspended <=> r \in Live
    BY <1>4, <1>6 DEF Active
  <2>3. QED
    BY <1>4, <2>1, <2>2
<1>8. ASSUME aborted = "no", NEW r \in Request
      PROVE  context[r] # NoKV <=> r \in (InWaiting \union InRunning) \ suspended
  <2>1. context[r] # NoKV <=> Active(seq[r])
    BY <1>2, <1>8, RequestFacts DEF KVOf
  <2>2. Active(seq[r]) <=> r \in (InWaiting \union InRunning) \ suspended
    BY <1>4 DEF Active
  <2>3. QED
    BY <2>1, <2>2
<1>9. QED
  BY <1>3, <1>4, <1>5, <1>7, <1>8 DEF OneHome

\* What the invariant says of KV is what the runs check.
LEMMA HoldsFit ==
  ASSUME NEW p \in Nat \ {0}, NEW q \in Progress, NEW c \in Int, ShapeOf(p, q),
         Active(q) \/ q.status = "suspended", q.scheduled = 0, Holds(p, q, c, 0, failures)
  PROVE  KVFits(p, q, c)
<1>1. q.computed \in Nat /\ q.outputs \in Nat /\ q.generated \in Nat
  BY DEF Progress
<1>2. InPrefill(p, q) <=> q.computed < p + (IF q.recompute THEN q.outputs ELSE 0)
  BY DEF InPrefill, Goal
<1>3. CASE InPrefill(p, q)
  BY <1>1, <1>2, <1>3 DEF Holds, KVFits
<1>4. CASE ~InPrefill(p, q)
  <2>1. q.next
    BY <1>4 DEF ShapeOf
  <2>2. c >= p + q.outputs - 1 /\ (failures = 0 => c <= p + q.generated - 1)
    BY <1>1, <1>4 DEF Holds
  <2>3. QED
    BY <1>2, <1>4, <2>1, <2>2 DEF KVFits
<1>5. QED
  BY <1>3, <1>4

\* The invariant gives each handle and each record its exact KV.
LEMMA Exact == IInv => ContextExact /\ Restorable
<1> SUFFICES ASSUME IInv, aborted = "no"
             PROVE  (pc = "loop" => ContextExact) /\ Restorable
  BY DEF ContextExact, Restorable
<1>1. Sound
  BY DEF IInv, Lost
<1>2. /\ Types /\ AllRequestsOK /\ Placed(seq, suspended, waiting, running, InWaiting, InRunning)
  BY <1>1 DEF Sound, Homes
<1>3. /\ InWaiting \subseteq Request /\ InRunning \subseteq Request /\ suspended \subseteq Request
      /\ suspended = {r \in Request : seq[r].status = "suspended"}
      /\ \A r \in InWaiting \union InRunning :
           seq[r].status \in {"waiting", "running", "preempted", "suspended"}
  BY <1>2, PlacedFacts DEF Placed
<1>4. ASSUME pc = "loop", NEW r \in (InWaiting \union InRunning) \ suspended
      PROVE  KVFits(setup.prompt[r], seq[r], context[r])
  <2>1. r \in Request /\ Active(seq[r])
    BY <1>3 DEF Active
  <2>2. Extra(r) = 0 /\ seq[r].scheduled = 0
    BY <1>1, <1>4, <2>1 DEF Extra, Sound, Batches, Building
  <2>3. /\ ShapeOf(setup.prompt[r], seq[r]) /\ seq[r] \in Progress /\ context[r] \in Int
        /\ setup.prompt[r] \in Nat \ {0}
        /\ KVOf(setup.prompt[r], seq[r], context[r], record[r], 0, failures)
    BY <1>2, <2>1, <2>2, RequestFacts
  <2>4. Holds(setup.prompt[r], seq[r], context[r], 0, failures)
    BY <2>1, <2>3 DEF KVOf
  <2>5. QED
    BY <2>1, <2>2, <2>3, <2>4, HoldsFit
<1>5. ASSUME NEW r \in suspended
      PROVE  record[r] # NoRecord /\ KVFits(setup.prompt[r], record[r].seq, record[r].context)
  <2>1. r \in Request /\ seq[r].status = "suspended"
    BY <1>3
  <2> DEFINE p == setup.prompt[r]
             q == seq[r]
             k == record[r]
  <2>2. /\ p \in Nat \ {0} /\ q \in Progress /\ ShapeOf(p, q)
        /\ KVOf(p, q, context[r], k, Extra(r), failures)
    BY <1>2, <2>1, RequestFacts
  <2>3. /\ k.seq.computed = q.computed /\ k.seq.outputs = q.outputs
        /\ k.seq.generated = q.generated
        /\ k.seq.recompute = q.recompute /\ k.seq.next = q.next
        /\ k.context \in Nat /\ Holds(p, q, k.context, 0, failures)
    BY <2>1, <2>2 DEF KVOf
  <2>4. record[r] # NoRecord
    BY <2>3 DEF NoRecord, NoKV
  <2> HIDE DEF p, q, k
  <2>5. q.scheduled = 0 /\ q.status = "suspended"
    BY <2>1, <2>2 DEF ShapeOf, q
  <2>6. KVFits(p, q, k.context)
    BY <2>2, <2>3, <2>5, HoldsFit
  <2>7. KVFits(p, k.seq, k.context)
    BY <2>3, <2>6 DEF KVFits
  <2>8. QED
    BY <2>4, <2>7 DEF p, k
<1>6. pc = "loop" => ContextExact
  BY <1>4 DEF ContextExact
<1>7. Restorable
  BY <1>5 DEF Restorable
<1>8. QED
  BY <1>6, <1>7

\* Every field of the engine and of its Scheduler stays of its type, and no handle
\* is ever larger than the pool.
THEOREM EngineTyped == Spec => []TypeOK
BY Inductive, Typed, PTL

\* Every request is in exactly the queue its status names, its handle has the KV its
\* tokens say (that and no more unless a forward pass failed), and a suspended one
\* has the record it resumes from, whatever schedule_step, process_outputs, failed
\* passes and cancellations did in what order.  It excepts the state in which the
\* admission popped another element than it moved (scheduler.cpp:869), which
\* EngineSurvives confines to priority scheduling.
THEOREM RequestsStayAccounted == Spec => []RequestsAccounted
<1>1. IInv => RequestsAccounted
  BY Homed, Exact DEF RequestsAccounted
<1>2. QED
  BY <1>1, Inductive, PTL

\* Under FCFS the chunks the scheduler granted find their blocks when the model
\* reserves them, no pointer of the batch and no reference of the admission dangles,
\* and the request admitted is the one taken off waiting_; with recompute no handle
\* is freed twice, whenever a client cancels, up to where a priority admission has
\* lost a request; and no handle outgrows its recompute unless a forward pass failed.
THEOREM EngineSurvives == Spec => []ProcessSurvives
<1>1. IInv => ProcessSurvives
  <2>1. Sound => ProcessSurvives
    BY DEF Sound, Aborts
  <2>2. Lost => ProcessSurvives
    BY DEF Lost, ProcessSurvives
  <2>3. QED
    BY <2>1, <2>2 DEF IInv
<1>2. QED
  BY <1>1, Inductive, PTL

-----------------------------------------------------------------------------
(* No step takes back a token.                                               *)

NoneLost == \A r \in Request : seq'[r].status \notin Settled => seq'[r].outputs >= seq[r].outputs

\* A step about one request loses no token if that one keeps its own.
LEMMA OneChanges ==
  ASSUME seq \in [Request -> Progress], NEW r \in Request, NEW s, seq' = [seq EXCEPT ![r] = s],
         s.status \in Settled \/ s.outputs = seq[r].outputs
  PROVE  NoneLost
<1>1. \A x \in Request : seq[x].outputs \in Nat
  BY DEF Progress
<1>2. seq'[r] = s /\ \A x \in Request \ {r} : seq'[x] = seq[x]
  OBVIOUS
<1>3. QED
  BY <1>1, <1>2 DEF NoneLost

\* A step about no request loses no token.
LEMMA NoneChanges ==
  ASSUME seq \in [Request -> Progress], seq' = seq
  PROVE  NoneLost
<1>1. \A x \in Request : seq[x].outputs \in Nat
  BY DEF Progress
<1>2. QED
  BY <1>1 DEF NoneLost

\* Ending a request loses no token of another.
LEMMA OneEnding ==
  ASSUME seq \in [Request -> Progress], NEW r, NEW status \in Settled,
         seq' = [seq EXCEPT ![r] = Ended(status)]
  PROVE  NoneLost
<1>1. Ended(status).status = status
  BY DEF Ended, NewSeq
<1>2. CASE r \in Request
  BY <1>1, <1>2, OneChanges
<1>3. CASE r \notin Request
  <2>1. seq' = seq
    BY <1>3
  <2>2. QED
    BY <2>1, NoneChanges
<1>4. QED
  BY <1>2, <1>3

\* A new status alone loses no token.
LEMMA OneRestated ==
  ASSUME seq \in [Request -> Progress], NEW r \in Request, NEW status,
         seq' = [seq EXCEPT ![r].status = status]
  PROVE  NoneLost
<1> DEFINE s == [seq[r] EXCEPT !.status = status]
<1>1. seq[r] \in Progress
  OBVIOUS
<1>2. s.outputs = seq[r].outputs
  BY <1>1 DEF Progress
<1>3. seq' = [seq EXCEPT ![r] = s]
  OBVIOUS
<1> HIDE DEF s
<1>4. QED
  BY <1>2, <1>3, OneChanges

\* A row alone loses no token.
LEMMA OneRowed ==
  ASSUME seq \in [Request -> Progress], NEW r \in Request, NEW n \in Nat,
         seq' = [seq EXCEPT ![r].status = "running", ![r].scheduled = n]
  PROVE  NoneLost
<1> DEFINE s == Rowed(seq[r], n)
<1>1. seq[r] \in Progress
  OBVIOUS
<1>2. s.outputs = seq[r].outputs
  BY <1>1, RowedFields
<1>3. seq' = [seq EXCEPT ![r] = s]
  BY Zenon DEF Rowed
<1> HIDE DEF s
<1>4. QED
  BY <1>2, <1>3, OneChanges

\* A preemption keeps the tokens of its victim.
LEMMA PreemptKeepsOutputs ==
  ASSUME seq \in [Request -> Progress], NEW r \in Request, Preempts(r)
  PROVE  NoneLost
<1>1. \A x \in Request : seq[x].outputs \in Nat
  BY DEF Progress
<1>2. QED
  BY <1>1 DEF Preempts, NoneLost

\* Ending a running request loses no token of another.
LEMMA ReapEndedKeepsOutputs ==
  ASSUME seq \in [Request -> Progress], NEW r, ReapEnded(r, "failed")
  PROVE  NoneLost
<1>1. CASE seq' = seq
  BY <1>1, NoneChanges
<1>2. CASE seq' = [seq EXCEPT ![r] = Ended("failed")]
  <2>1. "failed" \in Settled
    BY DEF Settled
  <2>2. QED
    BY <1>2, <2>1, OneEnding
<1>3. QED
  BY <1>1, <1>2 DEF ReapEnded

\* A cancellation loses no token of another request.
LEMMA CancelKeepsOutputs ==
  ASSUME Sound, NEW r \in Request, Cancel(r)
  PROVE  NoneLost
<1>1. seq \in [Request -> Progress] /\ {"failed", "erased"} \subseteq Settled
  BY DEF Sound, AllRequestsOK, Settled
<1>2. CASE CancelWaiting(r)
  BY <1>1, <1>2, OneEnding DEF CancelWaiting
<1>3. CASE CancelRunning(r)
  BY <1>1, <1>3, ReapEndedKeepsOutputs DEF CancelRunning
<1>4. CASE CancelSuspended(r)
  BY <1>1, <1>4, OneEnding DEF CancelSuspended
<1>5. QED
  BY <1>2, <1>3, <1>4 DEF Cancel, CancelRequest

\* A submission loses no token.
LEMMA SubmitKeepsOutputs ==
  ASSUME Sound, NEW r \in Request, Submit(r) \/ SubmitCancelled(r)
  PROVE  NoneLost
<1>1. seq \in [Request -> Progress] /\ "failed" \in Settled
  BY DEF Sound, AllRequestsOK, Settled
<1>2. \/ seq' = [seq EXCEPT ![r] = Ended("failed")]
      \/ seq' = [seq EXCEPT ![r].status = "waiting"]
  BY DEF Submit, SubmitCancelled, AddRequest
<1>3. QED
  BY <1>1, <1>2, OneEnding, OneRestated

\* The record that a restore takes has all the outputs.
LEMMA RestoreKeepsOutputs ==
  ASSUME Sound, aborted = "no", pc = "schedule", CanRestore, Restore(Min(suspended))
  PROVE  NoneLost
<1> DEFINE r == Min(suspended)
           k == record[r]
           q == [record[r].seq EXCEPT !.scheduled = 0]
           prefill == q.computed < setup.prompt[r] + (IF q.recompute THEN q.outputs ELSE 0)
           need == MoreBlocks(k.context, Max({0, setup.maxNew[r] - q.generated}))
           admitted == ~prefill /\ need <= Free - Blocks(k.context)
           status == IF admitted THEN "running" ELSE "waiting"
           tired == ~prefill /\ ~admitted
           s == [q EXCEPT !.status = status, !.tired = tired]
<1>1. seq' = [seq EXCEPT ![r] = s]
  BY DEF Restore
<1>2. Types /\ AllRequestsOK /\ Placed(seq, suspended, waiting, running, InWaiting, InRunning)
      /\ seq \in [Request -> Progress]
  BY DEF Sound, Homes, AllRequestsOK
<1>3. r \in Request /\ seq[r].status = "suspended"
  <2>1. suspended \subseteq Nat /\ suspended # {}
    BY <1>2, PlacedFacts, Positive DEF CanRestore
  <2>2. r \in suspended
    BY <2>1, MinIn
  <2>3. QED
    BY <1>2, <2>2, PlacedFacts DEF Placed
<1>4. k.seq.outputs = seq[r].outputs
  BY <1>2, <1>3, RequestFacts DEF KVOf
<1>5. k.seq \in Progress
  BY <1>2, <1>3, RequestFacts DEF Checkpoint
<1>6. q = [k.seq EXCEPT !.scheduled = 0]
  OBVIOUS
<1>7. s = [q EXCEPT !.status = status, !.tired = tired]
  OBVIOUS
<1> DEFINE ks == k.seq
<1>8. q = [ks EXCEPT !.scheduled = 0] /\ ks \in Progress /\ ks.outputs = seq[r].outputs
  BY <1>4, <1>5
<1> HIDE DEF r, k, ks, q, prefill, need, admitted, status, tired, s
<1>9. q \in Progress /\ q.outputs = ks.outputs
  BY <1>8 DEF Progress
<1>10. s.outputs = q.outputs
  BY <1>7, <1>9 DEF Progress
<1>11. s.outputs = seq[r].outputs
  BY <1>8, <1>9, <1>10
<1>12. QED
  BY <1>1, <1>2, <1>3, <1>11, OneChanges

\* The beginning of a step loses no token.
LEMMA BeginKeepsOutputs ==
  ASSUME Sound, BeginStep
  PROVE  NoneLost
<1>1. seq \in [Request -> Progress]
  BY DEF Sound, AllRequestsOK
<1>2. CASE CanRestore /\ Restore(Min(suspended))
  BY <1>2, RestoreKeepsOutputs DEF BeginStep
<1>3. CASE seq' = Rested(seq)
  <2>1. \A r \in Request : seq'[r] = [seq[r] EXCEPT !.tired = FALSE] /\ seq[r] \in Progress
    BY <1>1, <1>3 DEF Rested
  <2>2. \A r \in Request : seq'[r].outputs = seq[r].outputs /\ seq[r].outputs \in Nat
    BY <2>1 DEF Progress
  <2>3. QED
    BY <2>2 DEF NoneLost
<1>4. QED
  BY <1>2, <1>3 DEF BeginStep

\* Joining running_ loses no token.
LEMMA AdmitReadyKeepsOutputs ==
  ASSUME Sound, AdmitDecodeReady
  PROVE  NoneLost
<1>1. seq \in [Request -> Progress]
  BY DEF Sound, AllRequestsOK
<1>2. \A r \in Request : seq'[r] = [seq[r] EXCEPT !.status = "running"] \/ seq'[r] = seq[r]
  BY DEF AdmitDecodeReady
<1>3. \A r \in Request : seq'[r].outputs = seq[r].outputs /\ seq[r].outputs \in Nat
  BY <1>1, <1>2 DEF Progress
<1>4. QED
  BY <1>3 DEF NoneLost

\* Scheduling a decode loses no token.
LEMMA DecodeKeepsOutputs ==
  ASSUME Sound, ScheduleDecode, failures' = failures
  PROVE  NoneLost
<1> DEFINE r == running[Min(NextDecode)]
<1>1. /\ pc = "decode" /\ aborted = "no" /\ DecodesLeft /\ setup' = setup
      /\ \/ seq' = [seq EXCEPT ![r].status = "running", ![r].scheduled = 1]
         \/ PreemptSequence(r)
  BY DEF ScheduleDecode
<1>2. r \in InRunning /\ r \in Request /\ seq[r].status = "running"
  BY <1>1, AtDecode
<1> HIDE DEF r
<1>3. Types /\ AllRequestsOK /\ Homes /\ seq \in [Request -> Progress]
  BY DEF Sound, AllRequestsOK
<1>4. CASE seq' = [seq EXCEPT ![r].status = "running", ![r].scheduled = 1]
  BY <1>2, <1>3, <1>4, OneRowed
<1>5. CASE PreemptSequence(r)
  <2>1. pc # "sampled" /\ seq[r].status # "preempted"
    BY <1>1, <1>2
  <2>2. Preempts(r)
    BY <1>1, <1>2, <1>3, <1>5, <2>1, PreemptLeaves
  <2>3. QED
    BY <1>2, <1>3, <2>2, PreemptKeepsOutputs
<1>6. QED
  BY <1>1, <1>4, <1>5

\* Scheduling a chunk loses no token.
LEMMA ChunkKeepsOutputs ==
  ASSUME Sound, ScheduleRunningPrefill \/ AdmitPrefill
  PROVE  NoneLost
<1>1. seq \in [Request -> Progress]
  BY DEF Sound, AllRequestsOK
<1>2. CASE ScheduleRunningPrefill
  <2> DEFINE r == running[Min(NextPrefill)]
             n == RunningChunk(r)
  <2>1. pc = "prefill" /\ NextPrefill # {} /\ TakeChunk(r, n)
    BY <1>2 DEF ScheduleRunningPrefill
  <2>2. r \in Request /\ Active(seq[r]) /\ n > 0
    BY <2>1, AtPrefill
  <2>3. aborted = "no" /\ pc # "sampled"
    BY <2>1 DEF Sound, Aborts
  <2>4. n = FitChunk(context[r], WantedChunk(r), freeLeft)
    BY DEF RunningChunk
  <2> HIDE DEF r, n
  <2>5. n \in Nat
    BY <2>2, <2>3, <2>4, ChunkFits
  <2>6. QED
    BY <1>1, <2>1, <2>2, <2>5, OneRowed DEF TakeChunk
<1>3. CASE AdmitPrefill
  <2> DEFINE r == Candidate
             n == FrontChunk
  <2>1. /\ pc \in {"admit", "retry"} /\ aborted = "no" /\ idx # 0 /\ Considered
        /\ n > 0 /\ TakeChunk(r, n)
    BY <1>3 DEF AdmitPrefill
  <2>2. /\ r \in Request /\ Active(seq[r])
        /\ n = FitChunk(context[r], WantedChunk(r), freeLeft)
    BY <2>1, AtFront
  <2> HIDE DEF r, n
  <2>3. n \in Nat
    BY <2>1, <2>2, ChunkFits
  <2>4. QED
    BY <1>1, <2>1, <2>2, <2>3, OneRowed DEF TakeChunk
<1>4. QED
  BY <1>2, <1>3

\* Preempting for the front of waiting_ loses no token.
LEMMA WaitingKeepsOutputs ==
  ASSUME Sound, PreemptForWaiting, failures' = failures
  PROVE  NoneLost
<1> DEFINE r == Victim
<1>1. pc = "admit" /\ aborted = "no" /\ CanPreempt /\ PreemptSequence(r) /\ setup' = setup
  BY DEF PreemptForWaiting
<1>2. Types /\ AllRequestsOK /\ Homes /\ seq \in [Request -> Progress] /\ InRunning \subseteq Request
  BY PlacedFacts DEF Sound, AllRequestsOK, Homes
<1>3. r \in Victims
  BY <1>1, <1>2, VictimIsOne DEF CanPreempt
<1>4. r \in InRunning /\ r \in Request /\ seq[r].status # "preempted"
  BY <1>2, <1>3 DEF Victims, InRunning
<1> HIDE DEF r
<1>5. aborted = "no" /\ pc # "sampled"
  BY <1>1
<1>6. Preempts(r)
  BY <1>1, <1>2, <1>4, <1>5, PreemptLeaves
<1>7. QED
  BY <1>2, <1>4, <1>6, PreemptKeepsOutputs

\* process_outputs adds tokens and takes none back.
LEMMA ProcessKeepsOutputs ==
  ASSUME Sound, Process
  PROVE  NoneLost
<1>1. pc = "sampled" /\ aborted = "no"
  BY DEF Process
<1>2. PICK eos \in SUBSET SampledRows : ProcessOutputs(SampledRows, eos)
  BY DEF Process
<1> DEFINE ends == {r \in SampledRows : IsLast(r, eos)}
<1>3. /\ seq' = [r \in Request |->
                  IF r \in ends THEN Ended("finished")
                  ELSE IF r \in Rows THEN Processed(r, SampledRows, eos) ELSE seq[r]]
      /\ context' = [r \in Request |-> IF r \in ends THEN NoKV ELSE context[r]]
      /\ record' = [r \in Request |-> IF r \in ends \intersect restored THEN NoRecord ELSE record[r]]
  BY <1>2 DEF ProcessOutputs
<1>4. ends = {r \in SampledRows : IsLast(r, eos)}
  OBVIOUS
<1> HIDE DEF ends
<1>5. Processes(ends)
  BY <1>1, <1>3, <1>4, ProcessRows
<1>6. \A r \in ends : seq'[r].status \in Settled
  BY <1>5 DEF Processes, Ended, NewSeq, Settled
<1>7. \A r \in Request : seq[r].outputs \in Nat
  BY DEF Sound, AllRequestsOK, Progress
<1>8. QED
  BY <1>5, <1>6, <1>7 DEF Processes, NoneLost

\* No step takes back a token of a request it does not end.
LEMMA OutputsStep ==
  ASSUME Sound, Next
  PROVE  NoneLost
<1>1. seq \in [Request -> Progress] /\ "failed" \in Settled
  BY DEF Sound, AllRequestsOK, Settled
<1>2. ASSUME NEW r \in Request, Submit(r) \/ SubmitCancelled(r)
      PROVE  NoneLost
  BY <1>2, SubmitKeepsOutputs
<1>3. ASSUME NEW r \in Request, Cancel(r)
      PROVE  NoneLost
  BY <1>3, CancelKeepsOutputs
<1>4. CASE RunStep \/ CancellationsFlushed \/ Forward \/ Publish
  <2>1. seq' = seq
    BY <1>4 DEF RunStep, CancellationsFlushed, Forward, Publish
  <2>2. QED
    BY <1>1, <2>1, NoneChanges
<1>5. CASE Process
  BY <1>5, ProcessKeepsOutputs
<1>6. CASE Schedule
  <2>1. failures' = failures
    BY <1>6 DEF Schedule, engineVars
  <2>2. CASE BeginStep
    BY <2>2, BeginKeepsOutputs
  <2>3. CASE AdmitDecodeReady
    BY <2>3, AdmitReadyKeepsOutputs
  <2>4. CASE ScheduleDecode
    BY <2>1, <2>4, DecodeKeepsOutputs
  <2>5. CASE ScheduleRunningPrefill \/ AdmitPrefill
    BY <2>5, ChunkKeepsOutputs
  <2>6. CASE PreemptForWaiting
    BY <2>1, <2>6, WaitingKeepsOutputs
  <2>7. CASE RejectWaiting
    BY <1>1, <2>7, OneEnding DEF RejectWaiting
  <2>8. CASE FailStalledPrefill
    BY <1>1, <2>8, ReapEndedKeepsOutputs DEF FailStalledPrefill
  <2>9. CASE \/ ReapPreempted \/ DecodesScheduled \/ PrefillsScheduled \/ EndAdmission
             \/ ReapStalled \/ NothingStalled \/ FrontMoved \/ CheckFails
    <3>1. seq' = seq
      BY <2>9 DEF ReapPreempted, DecodesScheduled, PrefillsScheduled, EndAdmission, ReapStalled,
                  NothingStalled, FrontMoved, CheckFails
    <3>2. QED
      BY <1>1, <3>1, NoneChanges
  <2>10. QED
    BY <1>6, <2>2, <2>3, <2>4, <2>5, <2>6, <2>7, <2>8, <2>9 DEF Schedule, ScheduleStep
<1>7. CASE ForwardFails
  <2>1. \A r \in Request : seq'[r] = Unprocessed(seq[r]) /\ seq[r] \in Progress
    BY <1>1, <1>7 DEF ForwardFails, Abandoned, Unprocessed
  <2>2. \A r \in Request : seq'[r].outputs = seq[r].outputs /\ seq[r].outputs \in Nat
    BY <2>1 DEF Unprocessed, Progress
  <2>3. QED
    BY <2>2 DEF NoneLost
<1>8. QED
  BY <1>2, <1>3, <1>4, <1>5, <1>6, <1>7 DEF Next

\* A request that does not end keeps every token it was given: preemption,
\* checkpoint, restore and recomputation never take one back.
THEOREM OutputsStayKept == Spec => OutputsKept
<1>1. IInv /\ [Next]_vars => [NoneLost]_vars
  BY OutputsStep, LostEnds DEF IInv
<1>2. Spec => [][NoneLost]_vars
  BY <1>1, Inductive, PTL DEF Spec
<1>3. QED
  BY <1>2 DEF OutputsKept, NoneLost
=============================================================================
