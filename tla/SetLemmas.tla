------------------------------- MODULE SetLemmas -------------------------------
(***************************************************************************)
(* Facts about finite sets that the proofs of several modules rest on: a   *)
(* minimal member of a family of subsets (which is induction over finite   *)
(* sets, stated without a predicate), lower parts of sets of naturals, and *)
(* the sum of a function over a finite set.                                *)
(***************************************************************************)
EXTENDS Integers, FiniteSets, Functions, FiniteSetTheorems, WellFoundedInduction, TLAPS

\* F is a non-empty family of subsets of S, and x a member that contains no other.
IsFamily(F, S) == F \subseteq SUBSET S /\ F # {}
IsMinimal(x, F) == x \in F /\ \A y \in F : y \subseteq x => y = x

\* A non-empty family of subsets of a finite set has a member that contains no
\* other: induction over finite sets in a form that needs no predicate.
LEMMA MinimalMember ==
  ASSUME NEW S, IsFiniteSet(S), NEW F, IsFamily(F, S)
  PROVE  \E x : IsMinimal(x, F)
<1> USE DEF IsFamily, IsMinimal
<1>1. IsWellFoundedOn(StrictSubsetOrdering(S), SUBSET S)
  BY FS_StrictSubsetOrderingWellFounded, FS_FiniteSubsetsOfFinite
<1>2. PICK x \in F : \A y \in F : ~ (<<y, x>> \in StrictSubsetOrdering(S))
  BY <1>1, WFMin
<1>3. ASSUME NEW y \in F, y \subseteq x, y # x
      PROVE  FALSE
  <2>1. <<y, x>> \in StrictSubsetOrdering(S)
    BY <1>3 DEF StrictSubsetOrdering
  <2>2. QED
    BY <1>2, <2>1
<1>4. QED
  BY <1>2, <1>3

\* A non-empty finite set of naturals has a greatest element.
LEMMA GreatestElement ==
  ASSUME NEW S, S \subseteq Nat, IsFiniteSet(S), S # {}
  PROVE  \E x \in S : \A y \in S : y <= x
<1> DEFINE Above(x) == {y \in S : y > x}
           F == {Above(x) : x \in S}
<1>1. IsFamily(F, S)
  BY DEF IsFamily
<1>2. PICK u : IsMinimal(u, F)
  <2> HIDE DEF F
  <2>1. QED
    BY <1>1, MinimalMember
<1>3. PICK x \in S : \A y \in S : Above(y) \subseteq Above(x) => Above(y) = Above(x)
  <2> HIDE DEF Above
  <2>1. PICK x \in S : u = Above(x)
    BY <1>2 DEF IsMinimal
  <2>2. \A y \in S : Above(y) \in F
    OBVIOUS
  <2> HIDE DEF F
  <2>3. QED
    BY <1>2, <2>1, <2>2 DEF IsMinimal
<1>4. ASSUME NEW y \in S, y > x
      PROVE  FALSE
  <2>1. Above(y) \subseteq Above(x)
    <3>1. \A z \in S : z > y => z > x
      BY <1>4
    <3>2. QED
      BY <3>1
  <2>2. Above(y) = Above(x)
    BY <1>3, <2>1
  <2>3. QED
    BY <1>4, <2>2
<1>5. QED
  BY <1>4

\* A finite set of naturals has a lower part of every size up to its own.
LEMMA LowerPart ==
  ASSUME NEW F, F \subseteq Nat, IsFiniteSet(F), NEW n \in Nat, n <= Cardinality(F)
  PROVE  \E S \in SUBSET F : Cardinality(S) = n /\ \A i \in S, j \in F \ S : i < j
<1> DEFINE Lower == {S \in SUBSET F : /\ n <= Cardinality(S)
                                      /\ \A i \in S, j \in F \ S : i < j}
<1>1. IsFamily(Lower, F)
  <2>1. F \in Lower
    OBVIOUS
  <2>2. QED
    BY <2>1 DEF IsFamily
<1>2. PICK S \in Lower : \A T \in Lower : T \subseteq S => T = S
  <2> HIDE DEF Lower
  <2>1. PICK S : IsMinimal(S, Lower)
    BY <1>1, MinimalMember
  <2>2. QED
    BY <2>1 DEF IsMinimal
<1>3. IsFiniteSet(S) /\ Cardinality(S) \in Nat
  BY FS_Subset, FS_CardinalityType
<1>4. SUFFICES ASSUME Cardinality(S) > n
               PROVE  FALSE
  BY <1>3
<1>5. S # {}
  BY <1>4, FS_EmptySet
<1>6. PICK x \in S : \A y \in S : y <= x
  BY <1>3, <1>5, GreatestElement
<1>7. Cardinality(S \ {x}) >= n
  <2>1. Cardinality(S \ {x}) = Cardinality(S) - 1
    BY <1>3, FS_RemoveElement
  <2>2. QED
    BY <1>3, <1>4, <2>1
<1>8. \A i \in S \ {x}, j \in F \ (S \ {x}) : i < j
  BY <1>6
<1>9. S \ {x} \in Lower
  BY <1>7, <1>8
<1>10. QED
  BY <1>2, <1>9

-----------------------------------------------------------------------------
(* Sums.  SumFunctionOnSet is a CHOOSE of the function that satisfies its   *)
(* recursion; the lemmas show that this function exists, that it is unique, *)
(* and that the order in which the elements are added does not matter.      *)

Pick(s) == CHOOSE x \in s : TRUE

\* The function it adds up f over the subsets of S.
AddsUp(it, f, S) ==
  it = [s \in SUBSET S |-> IF s = {} THEN 0 ELSE f[Pick(s)] + it[s \ {Pick(s)}]]

Adder(f, S) == CHOOSE it : AddsUp(it, f, S)

\* The sum of the library is the value of the function that adds up.
LEMMA SumIsAdder ==
  ASSUME NEW f, NEW S
  PROVE  SumFunctionOnSet(f, S) = Adder(f, S)[S]
BY DEF SumFunctionOnSet, FoldFunctionOnSet, MapThenFoldSet, Adder, AddsUp, Pick

\* What is picked from a set is in it.
LEMMA PickIn ==
  ASSUME NEW s, s # {}
  PROVE  Pick(s) \in s
BY DEF Pick

\* What AddsUp says of one subset.
LEMMA AddsUpAt ==
  ASSUME NEW it, NEW f, NEW S, AddsUp(it, f, S)
  PROVE  /\ it[{}] = 0
         /\ \A s \in SUBSET S : s # {} => /\ Pick(s) \in s
                                          /\ it[s] = f[Pick(s)] + it[s \ {Pick(s)}]
<1>1. {} \in SUBSET S
  OBVIOUS
<1>2. it[{}] = 0
  BY <1>1 DEF AddsUp
<1>3. ASSUME NEW s \in SUBSET S, s # {}
      PROVE  Pick(s) \in s /\ it[s] = f[Pick(s)] + it[s \ {Pick(s)}]
  BY <1>3, PickIn DEF AddsUp
<1>4. QED
  BY <1>2, <1>3

\* The whole set is among those a function adds up.
LEMMA AddsUpAtTop ==
  ASSUME NEW it, NEW f, NEW S, AddsUp(it, f, S), S # {}
  PROVE  it[S] = f[Pick(S)] + it[S \ {Pick(S)}]
<1>1. S \in SUBSET S
  OBVIOUS
<1>2. QED
  BY <1>1, AddsUpAt

\* Two functions that add up the same agree where both are defined.
LEMMA AddersAgree ==
  ASSUME NEW f, NEW S, NEW T \in SUBSET S, IsFiniteSet(S),
         NEW a, AddsUp(a, f, S), NEW b, AddsUp(b, f, T)
  PROVE  \A s \in SUBSET T : a[s] = b[s]
<1> DEFINE Bad == {s \in SUBSET T : a[s] # b[s]}
<1>1. SUFFICES ASSUME Bad # {}
               PROVE  FALSE
  OBVIOUS
<1>2. PICK s \in Bad : \A t \in Bad : t \subseteq s => t = s
  <2>1. IsFamily(Bad, S)
    BY <1>1 DEF IsFamily
  <2> HIDE DEF Bad
  <2>2. PICK s : IsMinimal(s, Bad)
    BY <2>1, MinimalMember
  <2>3. QED
    BY <2>2 DEF IsMinimal
<1>3. s # {}
  BY AddsUpAt
<1>4. /\ Pick(s) \in s /\ s \in SUBSET T /\ s \in SUBSET S
      /\ a[s] = f[Pick(s)] + a[s \ {Pick(s)}]
      /\ b[s] = f[Pick(s)] + b[s \ {Pick(s)}]
  BY <1>3, AddsUpAt
<1>5. s \ {Pick(s)} \notin Bad
  BY <1>2, <1>4
<1>6. QED
  BY <1>4, <1>5

\* There is a function that adds up f over the subsets of a finite set.
LEMMA AdderExists ==
  ASSUME NEW f, NEW S, IsFiniteSet(S)
  PROVE  \A T \in SUBSET S : AddsUp(Adder(f, T), f, T)
<1> DEFINE Bad == {T \in SUBSET S : ~ \E it : AddsUp(it, f, T)}
<1>1. SUFFICES ASSUME Bad # {}
               PROVE  FALSE
  <2>1. ASSUME Bad = {}, NEW T \in SUBSET S
        PROVE  AddsUp(Adder(f, T), f, T)
    BY <2>1 DEF Adder
  <2>2. QED
    BY <2>1
<1>2. PICK T \in Bad : \A U \in Bad : U \subseteq T => U = T
  <2>1. IsFamily(Bad, S)
    BY <1>1 DEF IsFamily
  <2> HIDE DEF Bad
  <2>2. PICK s : IsMinimal(s, Bad)
    BY <2>1, MinimalMember
  <2>3. QED
    BY <2>2 DEF IsMinimal
<1>3. ASSUME NEW U \in SUBSET T, U # T
      PROVE  AddsUp(Adder(f, U), f, U) /\ IsFiniteSet(U)
  <2>1. U \in SUBSET S /\ U \notin Bad
    BY <1>2, <1>3
  <2>2. QED
    BY <2>1, FS_Subset DEF Adder
<1> DEFINE Total(u) == Adder(f, u)[u]
           it == [s \in SUBSET T |-> IF s = {} THEN 0
                                     ELSE f[Pick(s)] + Total(s \ {Pick(s)})]
<1>4. ASSUME NEW U \in SUBSET T, U # T
      PROVE  it[U] = Total(U)
  <2>1. CASE U = {}
    BY <1>3, <1>4, <2>1, AddsUpAt
  <2>2. CASE U # {}
    <3> DEFINE V == U \ {Pick(U)}
    <3>1. Pick(U) \in U
      BY <2>2, PickIn
    <3>2. V \in SUBSET U /\ V \in SUBSET T /\ V # T
      BY <1>4, <3>1
    <3>3. /\ AddsUp(Adder(f, U), f, U) /\ IsFiniteSet(U)
          /\ AddsUp(Adder(f, V), f, V)
      BY <1>3, <1>4, <3>2
    <3>4. it[U] = f[Pick(U)] + Total(V)
      BY <2>2
    <3> HIDE DEF V, it
    <3>5. Adder(f, U)[V] = Adder(f, V)[V]
      BY <3>2, <3>3, AddersAgree
    <3>6. Adder(f, U)[U] = f[Pick(U)] + Adder(f, U)[V]
      BY <2>2, <3>3, AddsUpAtTop DEF V
    <3>7. QED
      BY <3>4, <3>5, <3>6
  <2>3. QED
    BY <2>1, <2>2
<1>5. AddsUp(it, f, T)
  <2>1. ASSUME NEW s \in SUBSET T, s # {}
        PROVE  it[s] = f[Pick(s)] + it[s \ {Pick(s)}]
    <3>1. Pick(s) \in s
      BY <2>1, PickIn
    <3>2. s \ {Pick(s)} \in SUBSET T /\ s \ {Pick(s)} # T
      BY <3>1
    <3>3. it[s \ {Pick(s)}] = Total(s \ {Pick(s)})
      BY <1>4, <3>2
    <3>4. QED
      BY <2>1, <3>3
  <2>2. it = [s \in SUBSET T |-> IF s = {} THEN 0 ELSE f[Pick(s)] + it[s \ {Pick(s)}]]
    <3>1. \A s \in SUBSET T :
            it[s] = IF s = {} THEN 0 ELSE f[Pick(s)] + it[s \ {Pick(s)}]
      <4>1. ASSUME NEW s \in SUBSET T, s = {}
            PROVE  it[s] = 0
        BY <4>1
      <4> HIDE DEF it
      <4>2. QED
        BY <2>1, <4>1
    <3>2. it = [s \in SUBSET T |-> it[s]]
      OBVIOUS
    <3> HIDE DEF it
    <3>3. QED
      BY <3>1, <3>2
  <2> HIDE DEF it
  <2>3. QED
    BY <2>2 DEF AddsUp
<1>6. QED
  <2> HIDE DEF it
  <2>1. QED
    BY <1>2, <1>5

\* The sum over the empty set, and the recursion of the sum.
LEMMA SumUnfolds ==
  ASSUME NEW f, NEW S, IsFiniteSet(S)
  PROVE  /\ SumFunctionOnSet(f, {}) = 0
         /\ S # {} => /\ Pick(S) \in S
                      /\ SumFunctionOnSet(f, S) =
                           f[Pick(S)] + SumFunctionOnSet(f, S \ {Pick(S)})
<1> DEFINE P == S \ {Pick(S)}
<1>1. {} \in SUBSET S /\ S \in SUBSET S /\ P \in SUBSET S
  OBVIOUS
<1>2. AddsUp(Adder(f, {}), f, {}) /\ AddsUp(Adder(f, S), f, S) /\ AddsUp(Adder(f, P), f, P)
  BY <1>1, AdderExists
<1>3. SumFunctionOnSet(f, {}) = 0
  BY <1>2, AddsUpAt, SumIsAdder
<1>4. ASSUME S # {}
      PROVE  Pick(S) \in S /\ SumFunctionOnSet(f, S) = f[Pick(S)] + SumFunctionOnSet(f, P)
  <2>1. Pick(S) \in S /\ Adder(f, S)[S] = f[Pick(S)] + Adder(f, S)[P]
    BY <1>1, <1>2, <1>4, AddsUpAt
  <2>2. P \in SUBSET P
    OBVIOUS
  <2> HIDE DEF P
  <2>3. Adder(f, S)[P] = Adder(f, P)[P]
    BY <1>1, <1>2, <2>2, AddersAgree
  <2>4. QED
    BY <2>1, <2>3, SumIsAdder
<1>5. QED
  BY <1>3, <1>4

\* A sum of integers is an integer.
LEMMA SumInt ==
  ASSUME NEW f, NEW S, IsFiniteSet(S), \A x \in S : f[x] \in Int
  PROVE  SumFunctionOnSet(f, S) \in Int
<1> DEFINE Bad == {T \in SUBSET S : SumFunctionOnSet(f, T) \notin Int}
<1>1. SUFFICES ASSUME Bad # {}
               PROVE  FALSE
  OBVIOUS
<1>2. PICK T \in Bad : \A U \in Bad : U \subseteq T => U = T
  <2>1. IsFamily(Bad, S)
    BY <1>1 DEF IsFamily
  <2> HIDE DEF Bad
  <2>2. PICK s : IsMinimal(s, Bad)
    BY <2>1, MinimalMember
  <2>3. QED
    BY <2>2 DEF IsMinimal
<1>3. IsFiniteSet(T) /\ T \in SUBSET S
  BY FS_Subset
<1>4. T # {}
  <2>1. SumFunctionOnSet(f, {}) = 0
    BY <1>3, SumUnfolds
  <2>2. ASSUME T = {}
        PROVE  SumFunctionOnSet(f, T) = 0
    BY <2>1, <2>2
  <2>3. QED
    BY <1>2, <2>2
<1>5. /\ Pick(T) \in T
      /\ SumFunctionOnSet(f, T) = f[Pick(T)] + SumFunctionOnSet(f, T \ {Pick(T)})
  BY <1>3, <1>4, SumUnfolds
<1>6. T \ {Pick(T)} \notin Bad /\ T \ {Pick(T)} \in SUBSET S
  BY <1>2, <1>5
<1>7. QED
  BY <1>3, <1>5, <1>6

\* A sum of naturals is a natural.
LEMMA SumNat ==
  ASSUME NEW f, NEW S, IsFiniteSet(S), \A x \in S : f[x] \in Nat
  PROVE  SumFunctionOnSet(f, S) \in Nat
<1> DEFINE Bad == {T \in SUBSET S : SumFunctionOnSet(f, T) \notin Nat}
<1>1. SUFFICES ASSUME Bad # {}
               PROVE  FALSE
  OBVIOUS
<1>2. PICK T \in Bad : \A U \in Bad : U \subseteq T => U = T
  <2>1. IsFamily(Bad, S)
    BY <1>1 DEF IsFamily
  <2> HIDE DEF Bad
  <2>2. PICK s : IsMinimal(s, Bad)
    BY <2>1, MinimalMember
  <2>3. QED
    BY <2>2 DEF IsMinimal
<1>3. IsFiniteSet(T) /\ T \in SUBSET S
  BY FS_Subset
<1>4. T # {}
  <2>1. SumFunctionOnSet(f, {}) = 0
    BY <1>3, SumUnfolds
  <2>2. ASSUME T = {}
        PROVE  SumFunctionOnSet(f, T) = 0
    BY <2>1, <2>2
  <2>3. QED
    BY <1>2, <2>2
<1>5. /\ Pick(T) \in T
      /\ SumFunctionOnSet(f, T) = f[Pick(T)] + SumFunctionOnSet(f, T \ {Pick(T)})
  BY <1>3, <1>4, SumUnfolds
<1>6. T \ {Pick(T)} \notin Bad /\ T \ {Pick(T)} \in SUBSET S
  BY <1>2, <1>5
<1>7. QED
  BY <1>3, <1>5, <1>6

\* Any element may be added last: the order does not matter.
LEMMA SumRemove ==
  ASSUME NEW f, NEW S, IsFiniteSet(S), \A x \in S : f[x] \in Int
  PROVE  \A x \in S :
           SumFunctionOnSet(f, S) = f[x] + SumFunctionOnSet(f, S \ {x})
<1> DEFINE Splits(T) == \A x \in T :
             SumFunctionOnSet(f, T) = f[x] + SumFunctionOnSet(f, T \ {x})
           Bad == {T \in SUBSET S : ~ Splits(T)}
<1>1. SUFFICES ASSUME Bad # {}
               PROVE  FALSE
  OBVIOUS
<1>2. PICK T \in Bad : \A U \in Bad : U \subseteq T => U = T
  <2>1. IsFamily(Bad, S)
    BY <1>1 DEF IsFamily
  <2> HIDE DEF Bad
  <2>2. PICK s : IsMinimal(s, Bad)
    BY <2>1, MinimalMember
  <2>3. QED
    BY <2>2 DEF IsMinimal
<1>3. PICK x \in T : SumFunctionOnSet(f, T) # f[x] + SumFunctionOnSet(f, T \ {x})
  BY <1>2
<1> DEFINE p == Pick(T)
<1>4. IsFiniteSet(T) /\ T \in SUBSET S /\ T # {}
  BY <1>3, FS_Subset
<1>5. p \in T /\ SumFunctionOnSet(f, T) = f[p] + SumFunctionOnSet(f, T \ {p})
  BY <1>4, SumUnfolds
<1>6. x # p
  BY <1>3, <1>5
<1> HIDE DEF p
<1>7. \A y \in T : T \ {y} \notin Bad
  BY <1>2
<1>8. Splits(T \ {p}) /\ Splits(T \ {x})
  <2>1. T \ {p} \in SUBSET S /\ T \ {x} \in SUBSET S
    BY <1>4
  <2> HIDE DEF Splits
  <2>2. QED
    BY <1>7, <1>5, <2>1
<1>9. SumFunctionOnSet(f, T \ {p}) = f[x] + SumFunctionOnSet(f, (T \ {p}) \ {x})
  BY <1>6, <1>8
<1>10. SumFunctionOnSet(f, T \ {x}) = f[p] + SumFunctionOnSet(f, (T \ {x}) \ {p})
  BY <1>5, <1>6, <1>8
<1>11. (T \ {p}) \ {x} = (T \ {x}) \ {p}
  OBVIOUS
<1>12. SumFunctionOnSet(f, (T \ {x}) \ {p}) \in Int
  <2>1. IsFiniteSet((T \ {x}) \ {p}) /\ \A y \in (T \ {x}) \ {p} : f[y] \in Int
    BY <1>4, FS_RemoveElement
  <2>2. QED
    BY <2>1, SumInt
<1>13. f[x] \in Int /\ f[p] \in Int
  BY <1>3, <1>4, <1>5
<1> DEFINE rest == SumFunctionOnSet(f, (T \ {x}) \ {p})
<1>14. /\ SumFunctionOnSet(f, T) = f[p] + (f[x] + rest)
       /\ SumFunctionOnSet(f, T \ {x}) = f[p] + rest
       /\ rest \in Int
  BY <1>5, <1>9, <1>10, <1>11, <1>12
<1> HIDE DEF rest
<1>15. QED
  BY <1>3, <1>13, <1>14

\* A new element adds its value.
LEMMA SumAdd ==
  ASSUME NEW f, NEW S, IsFiniteSet(S), NEW y, y \notin S,
         \A x \in S \cup {y} : f[x] \in Int
  PROVE  SumFunctionOnSet(f, S \cup {y}) = f[y] + SumFunctionOnSet(f, S)
<1>1. IsFiniteSet(S \cup {y}) /\ (S \cup {y}) \ {y} = S /\ y \in S \cup {y}
  BY FS_AddElement
<1>2. QED
  BY <1>1, SumRemove

\* Only the values on the set matter.
LEMMA SumSame ==
  ASSUME NEW f, NEW g, NEW S, IsFiniteSet(S), \A x \in S : f[x] = g[x]
  PROVE  SumFunctionOnSet(f, S) = SumFunctionOnSet(g, S)
<1> DEFINE Bad == {T \in SUBSET S : SumFunctionOnSet(f, T) # SumFunctionOnSet(g, T)}
<1>1. SUFFICES ASSUME Bad # {}
               PROVE  FALSE
  OBVIOUS
<1>2. PICK T \in Bad : \A U \in Bad : U \subseteq T => U = T
  <2>1. IsFamily(Bad, S)
    BY <1>1 DEF IsFamily
  <2> HIDE DEF Bad
  <2>2. PICK s : IsMinimal(s, Bad)
    BY <2>1, MinimalMember
  <2>3. QED
    BY <2>2 DEF IsMinimal
<1>3. IsFiniteSet(T) /\ T \in SUBSET S
  BY FS_Subset
<1>4. T # {}
  BY <1>3, SumUnfolds
<1>5. /\ Pick(T) \in T
      /\ SumFunctionOnSet(f, T) = f[Pick(T)] + SumFunctionOnSet(f, T \ {Pick(T)})
      /\ SumFunctionOnSet(g, T) = g[Pick(T)] + SumFunctionOnSet(g, T \ {Pick(T)})
  BY <1>3, <1>4, SumUnfolds
<1>6. T \ {Pick(T)} \notin Bad /\ T \ {Pick(T)} \in SUBSET S
  BY <1>2, <1>5
<1>7. QED
  BY <1>3, <1>5, <1>6

\* A change at one element changes the sum by as much.
LEMMA SumChange ==
  ASSUME NEW f, NEW g, NEW S, IsFiniteSet(S), NEW y \in S,
         \A x \in S : f[x] \in Int /\ g[x] \in Int,
         \A x \in S \ {y} : f[x] = g[x]
  PROVE  SumFunctionOnSet(g, S) = SumFunctionOnSet(f, S) + (g[y] - f[y])
<1>1. IsFiniteSet(S \ {y})
  BY FS_RemoveElement
<1>2. SumFunctionOnSet(f, S \ {y}) = SumFunctionOnSet(g, S \ {y})
  BY <1>1, SumSame
<1>3. SumFunctionOnSet(f, S \ {y}) \in Int
  BY <1>1, SumInt
<1>4. /\ SumFunctionOnSet(f, S) = f[y] + SumFunctionOnSet(f, S \ {y})
      /\ SumFunctionOnSet(g, S) = g[y] + SumFunctionOnSet(g, S \ {y})
  BY SumRemove
<1>5. f[y] \in Int /\ g[y] \in Int
  OBVIOUS
<1>6. QED
  BY <1>2, <1>3, <1>4, <1>5

\* A sum over a set is the sums over a part and over the rest.
LEMMA SumSplits ==
  ASSUME NEW f, NEW S, IsFiniteSet(S), \A x \in S : f[x] \in Int
  PROVE  \A T \in SUBSET S :
           SumFunctionOnSet(f, S) = SumFunctionOnSet(f, T) + SumFunctionOnSet(f, S \ T)
<1> DEFINE Splits(T) == SumFunctionOnSet(f, S) =
                          SumFunctionOnSet(f, T) + SumFunctionOnSet(f, S \ T)
           Bad == {T \in SUBSET S : ~ Splits(T)}
<1>1. SUFFICES ASSUME Bad # {}
               PROVE  FALSE
  OBVIOUS
<1>2. PICK T \in Bad : \A U \in Bad : U \subseteq T => U = T
  <2>1. IsFamily(Bad, S)
    BY <1>1 DEF IsFamily
  <2> HIDE DEF Bad
  <2>2. PICK s : IsMinimal(s, Bad)
    BY <2>1, MinimalMember
  <2>3. QED
    BY <2>2 DEF IsMinimal
<1>3. T # {}
  <2>1. SumFunctionOnSet(f, {}) = 0 /\ SumFunctionOnSet(f, S) \in Int
    BY SumUnfolds, SumInt
  <2>2. S \ {} = S
    OBVIOUS
  <2>3. SumFunctionOnSet(f, S \ {}) = SumFunctionOnSet(f, S)
    BY <2>2
  <2>4. Splits({})
    BY <2>1, <2>3
  <2>5. QED
    BY <1>2, <2>4
<1>4. PICK p \in T : TRUE
  BY <1>3
<1> DEFINE U == T \ {p}
           R == S \ T
<1>5. U \in SUBSET S /\ U \notin Bad
  BY <1>2, <1>4
<1>6. SumFunctionOnSet(f, S) = SumFunctionOnSet(f, U) + SumFunctionOnSet(f, S \ U)
  BY <1>5
<1>7. S \ U = R \cup {p} /\ p \notin R
  BY <1>2, <1>4
<1>8. /\ IsFiniteSet(T) /\ IsFiniteSet(U) /\ IsFiniteSet(R)
      /\ \A x \in T : f[x] \in Int
      /\ \A x \in R \cup {p} : f[x] \in Int
      /\ \A x \in U : f[x] \in Int
  BY <1>2, <1>4, FS_Subset
<1>9. SumFunctionOnSet(f, T) = f[p] + SumFunctionOnSet(f, U)
  BY <1>4, <1>8, SumRemove
<1> HIDE DEF U, R
<1>10. SumFunctionOnSet(f, R \cup {p}) = f[p] + SumFunctionOnSet(f, R)
  BY <1>7, <1>8, SumAdd
<1>11. SumFunctionOnSet(f, U) \in Int /\ SumFunctionOnSet(f, R) \in Int
  BY <1>8, SumInt
<1>12. f[p] \in Int
  BY <1>8
<1>13. SumFunctionOnSet(f, S \ U) = f[p] + SumFunctionOnSet(f, R)
  BY <1>7, <1>10
<1>14. SumFunctionOnSet(f, S) = SumFunctionOnSet(f, T) + SumFunctionOnSet(f, R)
  BY <1>6, <1>9, <1>11, <1>12, <1>13
<1>15. QED
  BY <1>2, <1>14 DEF R

\* A sum of smaller values is not greater.
LEMMA SumBounded ==
  ASSUME NEW f, NEW g, NEW S, IsFiniteSet(S),
         \A x \in S : f[x] \in Int /\ g[x] \in Int /\ f[x] <= g[x]
  PROVE  SumFunctionOnSet(f, S) <= SumFunctionOnSet(g, S)
<1> DEFINE Bad == {T \in SUBSET S :
                     ~ (SumFunctionOnSet(f, T) <= SumFunctionOnSet(g, T))}
<1>1. SUFFICES ASSUME Bad # {}
               PROVE  FALSE
  OBVIOUS
<1>2. PICK T \in Bad : \A U \in Bad : U \subseteq T => U = T
  <2>1. IsFamily(Bad, S)
    BY <1>1 DEF IsFamily
  <2> HIDE DEF Bad
  <2>2. PICK s : IsMinimal(s, Bad)
    BY <2>1, MinimalMember
  <2>3. QED
    BY <2>2 DEF IsMinimal
<1>3. IsFiniteSet(T) /\ T \in SUBSET S
  BY FS_Subset
<1>4. T # {}
  <2>1. SumFunctionOnSet(f, {}) = 0 /\ SumFunctionOnSet(g, {}) = 0
    BY SumUnfolds
  <2>2. ASSUME T = {}
        PROVE  SumFunctionOnSet(f, T) = 0 /\ SumFunctionOnSet(g, T) = 0
    BY <2>1, <2>2
  <2>3. QED
    BY <1>2, <2>2
<1>5. /\ Pick(T) \in T
      /\ SumFunctionOnSet(f, T) = f[Pick(T)] + SumFunctionOnSet(f, T \ {Pick(T)})
      /\ SumFunctionOnSet(g, T) = g[Pick(T)] + SumFunctionOnSet(g, T \ {Pick(T)})
  BY <1>3, <1>4, SumUnfolds
<1> DEFINE U == T \ {Pick(T)}
<1>6. U \notin Bad /\ U \in SUBSET S
  BY <1>2, <1>5
<1>7. IsFiniteSet(U) /\ \A x \in U : f[x] \in Int /\ g[x] \in Int
  BY <1>3, <1>6, FS_Subset
<1>8. SumFunctionOnSet(f, U) \in Int /\ SumFunctionOnSet(g, U) \in Int
  BY <1>7, SumInt
<1>9. SumFunctionOnSet(f, U) <= SumFunctionOnSet(g, U)
  BY <1>6
<1>10. QED
  BY <1>2, <1>3, <1>5, <1>8, <1>9

\* A non-empty set of naturals has a least element.
LEMMA LeastElement ==
  ASSUME NEW S, S \subseteq Nat, S # {}
  PROVE  \E x \in S : \A y \in S : x <= y
<1>1. PICK a \in S : a \in Nat
  OBVIOUS
<1> DEFINE Below == {x \in S : x <= a}
           Gaps == {a - x : x \in Below}
<1>2. Gaps \subseteq Nat /\ Gaps # {} /\ Gaps \subseteq 0..a
  BY <1>1
<1>3. IsFiniteSet(Gaps)
  <2>1. IsFiniteSet(0..a)
    BY <1>1, FS_Interval
  <2> HIDE DEF Gaps
  <2>2. QED
    BY <1>2, <2>1, FS_Subset
<1>4. PICK d \in Gaps : \A e \in Gaps : e <= d
  <2> HIDE DEF Gaps
  <2>1. QED
    BY <1>2, <1>3, GreatestElement
<1>5. PICK x \in Below : d = a - x
  BY <1>4
<1>6. ASSUME NEW y \in S
      PROVE  x <= y
  <2>1. CASE y <= a
    <3>1. a - y \in Gaps /\ a - y <= d
      BY <1>4, <2>1
    <3>2. QED
      BY <1>1, <1>5, <3>1
  <2>2. CASE ~ y <= a
    BY <1>1, <1>5, <2>2
  <2>3. QED
    BY <2>1, <2>2
<1>7. QED
  BY <1>5, <1>6

\* A sum of zeros.
LEMMA SumZero ==
  ASSUME NEW f, NEW S, IsFiniteSet(S), \A x \in S : f[x] = 0
  PROVE  SumFunctionOnSet(f, S) = 0
<1> DEFINE Bad == {T \in SUBSET S : SumFunctionOnSet(f, T) # 0}
<1>1. SUFFICES ASSUME Bad # {}
               PROVE  FALSE
  OBVIOUS
<1>2. PICK T \in Bad : \A U \in Bad : U \subseteq T => U = T
  <2>1. IsFamily(Bad, S)
    BY <1>1 DEF IsFamily
  <2> HIDE DEF Bad
  <2>2. PICK s : IsMinimal(s, Bad)
    BY <2>1, MinimalMember
  <2>3. QED
    BY <2>2 DEF IsMinimal
<1>3. IsFiniteSet(T) /\ T \in SUBSET S
  BY FS_Subset
<1>4. T # {}
  <2>1. ASSUME T = {}
        PROVE  SumFunctionOnSet(f, T) = 0
    BY <2>1, <1>3, SumUnfolds
  <2>2. QED
    BY <1>2, <2>1
<1>5. /\ Pick(T) \in T
      /\ SumFunctionOnSet(f, T) = f[Pick(T)] + SumFunctionOnSet(f, T \ {Pick(T)})
  BY <1>3, <1>4, SumUnfolds
<1> DEFINE U == T \ {Pick(T)}
<1>6. U \notin Bad /\ U \in SUBSET S
  BY <1>2, <1>5
<1>7. SumFunctionOnSet(f, U) = 0
  BY <1>6
<1>8. QED
  BY <1>2, <1>3, <1>5, <1>7

\* Division with remainder.
LEMMA DivMod ==
  ASSUME NEW a \in Nat, NEW b \in Nat, b > 0
  PROVE  /\ a % b \in Nat /\ a % b < b
         /\ a \div b \in Nat
         /\ a = b * (a \div b) + (a % b)
<1>1. a % b \in Nat /\ a % b < b
  OBVIOUS
<1>2. a = b * (a \div b) + (a % b)
  OBVIOUS
<1>3. a \div b \in Nat
  OBVIOUS
<1>4. QED
  BY <1>1, <1>2, <1>3
=============================================================================
