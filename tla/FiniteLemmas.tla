----------------------------- MODULE FiniteLemmas -----------------------------
(* Induction over the numbers, the least and the greatest of some numbers,    *)
(* their numbering in their order, and sums of integers over finite sets:     *)
(* what the proofs about the rows of a profile, the lines of a file and the   *)
(* prices of a day have in common.                                            *)
EXTENDS Integers, FiniteSets, FiniteSetTheorems, SequenceTheorems, WellFoundedInduction, TLAPS

-----------------------------------------------------------------------------
(* Induction, and the first and the last of some numbers.                   *)

\* A set that has 0 and with each number the next one has all of them: a
\* statement P(n) is proved by induction with the set {n \in Nat : P(n)}.
LEMMA SetInduction ==
  ASSUME NEW S, 0 \in S, \A n \in Nat : n \in S => n + 1 \in S
  PROVE  \A n \in Nat : n \in S
<1> DEFINE Missing == Nat \ S
           Less == OpToRel(<, Nat)
<1> SUFFICES ASSUME Missing # {} PROVE FALSE
  OBVIOUS
<1>1. IsWellFoundedOn(Less, Nat)
  BY NatLessThanWellFounded, Zenon
<1>2. PICK least \in Missing : \A n \in Missing : <<n, least>> \notin Less
  <2> HIDE DEF Less
  <2> QED BY <1>1, WFMin
<1>3. \A n \in Missing : ~ (n < least)
  BY <1>2, Zenon DEF OpToRel
<1>4. least - 1 \in Nat /\ least - 1 \in S
  BY <1>3
<1> QED BY <1>4

\* Of some numbers one is the least.
LEMMA LeastOfThem ==
  ASSUME NEW S \in SUBSET Nat, S # {}
  PROVE  \E least \in S : \A j \in S : least <= j
<1> DEFINE Less == OpToRel(<, Nat)
<1>1. IsWellFoundedOn(Less, Nat)
  BY NatLessThanWellFounded, Zenon
<1>2. PICK least \in S : \A n \in S : <<n, least>> \notin Less
  <2> HIDE DEF Less
  <2> QED BY <1>1, WFMin
<1>3. \A n \in S : ~ (n < least)
  BY <1>2, Zenon DEF OpToRel
<1>4. \A n \in S : least <= n
  BY <1>3
<1> QED BY <1>4

\* Mirrored, the last one.
LEMMA LastOfThem ==
  ASSUME NEW n \in Nat, NEW S \in SUBSET (1..n), S # {}
  PROVE  \E last \in S : \A j \in S : j <= last
<1> DEFINE mirror == {n - i : i \in S}
<1>1. mirror \in SUBSET Nat /\ mirror # {}
  <2>1. \A i \in S : n - i \in Nat
    OBVIOUS
  <2> QED BY <2>1, Zenon
<1>2. PICK i \in S : \A m \in mirror : n - i <= m
  <2> HIDE DEF mirror
  <2>1. PICK least \in mirror : \A m \in mirror : least <= m
    BY <1>1, LeastOfThem
  <2> QED BY <2>1 DEF mirror
<1>3. \A j \in S : n - i <= n - j
  BY <1>2
<1> QED BY <1>3

-----------------------------------------------------------------------------
(* The numbering of some numbers.                                           *)

Below(F, i) == {j \in F : j < i}

\* The elements of a set of numbers can be numbered in their order.
LEMMA Ranks ==
  ASSUME NEW n \in Nat, NEW F \in SUBSET (1..n)
  PROVE  /\ Cardinality(F) \in Nat
         /\ \A k \in 1..Cardinality(F) : \E i \in F : Cardinality(Below(F, i)) = k - 1
         /\ \A i, j \in F : i < j => Cardinality(Below(F, i)) < Cardinality(Below(F, j))
         /\ \A i \in F : Cardinality(Below(F, i)) \in 0..(Cardinality(F) - 1)
<1> DEFINE N == Cardinality(F)
           rank == [i \in F |-> Cardinality(Below(F, i))]
<1>1. IsFiniteSet(F)
  <2>1. IsFiniteSet(1..n)
    BY FS_Interval
  <2> QED BY <2>1, FS_Subset
<1>2. N \in Nat
  BY <1>1, FS_CardinalityType
<1>3. \A i \in F : i \in Nat
  OBVIOUS
<1>4. ASSUME NEW i \in F
      PROVE  /\ IsFiniteSet(Below(F, i)) /\ Cardinality(Below(F, i)) \in Nat
             /\ Cardinality(Below(F, i)) \in 0..(N - 1)
  <2>1. Below(F, i) \in SUBSET (F \ {i})
    <3>1. ~ (i < i)
      BY <1>3
    <3> QED BY <3>1, Zenon DEF Below
  <2>2. IsFiniteSet(F \ {i}) /\ Cardinality(F \ {i}) = N - 1
    BY <1>1, FS_RemoveElement
  <2>3. IsFiniteSet(Below(F, i)) /\ Cardinality(Below(F, i)) <= N - 1
    BY <2>1, <2>2, FS_Subset
  <2>4. Cardinality(Below(F, i)) \in Nat
    BY <2>3, FS_CardinalityType
  <2> HIDE DEF N
  <2> QED BY <1>2, <2>3, <2>4
<1>5. ASSUME NEW i \in F, NEW j \in F, i < j
      PROVE  Cardinality(Below(F, i)) < Cardinality(Below(F, j))
  <2>1. i \notin Below(F, i) /\ Below(F, i) \cup {i} \in SUBSET Below(F, j)
    <3>1. ~ (i < i) /\ \A l \in F : l < i => l < j
      BY <1>3, <1>5
    <3> QED BY <1>5, <3>1, Zenon DEF Below
  <2>2. Cardinality(Below(F, i) \cup {i}) = Cardinality(Below(F, i)) + 1
    BY <1>4, <2>1, FS_AddElement
  <2>3. Cardinality(Below(F, i) \cup {i}) <= Cardinality(Below(F, j))
    BY <1>4, <2>1, FS_Subset
  <2>4. Cardinality(Below(F, i)) \in Nat /\ Cardinality(Below(F, j)) \in Nat
    BY <1>4
  <2> QED BY <2>2, <2>3, <2>4
<1>6. rank \in Injection(F, 0..(N - 1))
  <2>1. rank \in [F -> 0..(N - 1)]
    BY <1>4
  <2>2. \A i, j \in F : i # j => i < j \/ j < i
    BY <1>3
  <2>3. ASSUME NEW i \in F, NEW j \in F, rank[i] = rank[j] PROVE i = j
    <3>1. Cardinality(Below(F, i)) = Cardinality(Below(F, j)) /\ Cardinality(Below(F, j)) \in Nat
      BY <1>4, <2>3
    <3>2. ~ (i < j) /\ ~ (j < i)
      BY <1>5, <3>1
    <3> QED BY <2>2, <3>2
  <2> HIDE DEF rank
  <2> QED BY <2>1, <2>3 DEF Injection, IsInjective
<1>7. IsFiniteSet(0..(N - 1)) /\ Cardinality(0..(N - 1)) = N
  <2>1. 0 \in Int /\ N - 1 \in Int
    BY <1>2
  <2> HIDE DEF N
  <2>2. IsFiniteSet(0..(N - 1)) /\ Cardinality(0..(N - 1)) = IF 0 > N - 1 THEN 0 ELSE (N - 1) - 0 + 1
    BY <2>1, FS_Interval
  <2> QED BY <1>2, <2>2
<1>8. rank \in Surjection(F, 0..(N - 1))
  <2> HIDE DEF rank
  <2> QED BY <1>6, <1>7, FS_Injection
<1>9. ASSUME NEW k \in 1..N PROVE \E i \in F : Cardinality(Below(F, i)) = k - 1
  <2>1. k - 1 \in 0..(N - 1)
    <3> HIDE DEF N
    <3> QED BY <1>2, <1>9
  <2>2. \E i \in F : rank[i] = k - 1
    <3> HIDE DEF rank, N
    <3> QED BY <1>8, <2>1 DEF Surjection
  <2> QED BY <2>2
<1> QED BY <1>2, <1>4, <1>5, <1>9

-----------------------------------------------------------------------------
(* Sums of integers.                                                        *)

\* h[s] is the sum of g over s, for every set s of numbers from S.
Adds(h, g, S) ==
  h = [s \in SUBSET S |-> IF s = {} THEN 0
                          ELSE g[CHOOSE x \in s : TRUE] + h[s \ {CHOOSE x \in s : TRUE}]]

Summed(g, S) == (CHOOSE h : Adds(h, g, S))[S]

Small(S, n) == {s \in SUBSET S : Cardinality(s) <= n}

\* One that adds up the sets of at most n elements.
AddsSmall(h, g, S, n) ==
  h = [s \in Small(S, n) |-> IF s = {} THEN 0
                             ELSE g[CHOOSE x \in s : TRUE] + h[s \ {CHOOSE x \in s : TRUE}]]

LEMMA Removal ==
  ASSUME NEW S, IsFiniteSet(S), NEW s \in SUBSET S, NEW x \in s
  PROVE  /\ IsFiniteSet(s) /\ Cardinality(s) \in Nat \ {0}
         /\ s \ {x} \in SUBSET S
         /\ Cardinality(s \ {x}) = Cardinality(s) - 1
<1>1. IsFiniteSet(s)
  BY FS_Subset
<1>2. Cardinality(s) \in Nat /\ Cardinality(s) # 0
  BY <1>1, FS_CardinalityType, FS_EmptySet
<1> QED BY <1>1, <1>2, FS_RemoveElement

LEMMA AddsExists ==
  ASSUME NEW S, IsFiniteSet(S), NEW g
  PROVE  \E h : Adds(h, g, S)
<1> DEFINE Have == {n \in Nat : \E h : AddsSmall(h, g, S, n)}
<1>1. 0 \in Have
  <2> DEFINE h == [s \in Small(S, 0) |-> 0]
  <2>1. \A s \in Small(S, 0) : s = {}
    <3> TAKE s \in Small(S, 0)
    <3>1. IsFiniteSet(s) /\ Cardinality(s) \in Nat /\ Cardinality(s) <= 0
      BY FS_Subset, FS_CardinalityType DEF Small
    <3>2. Cardinality(s) = 0
      BY <3>1
    <3> QED BY <3>1, <3>2, FS_EmptySet
  <2>2. AddsSmall(h, g, S, 0)
    BY <2>1 DEF AddsSmall
  <2> QED BY <2>2
<1>2. ASSUME NEW n \in Nat, n \in Have PROVE n + 1 \in Have
  <2>1. PICK h : AddsSmall(h, g, S, n)
    BY <1>2
  <2> DEFINE Next1(s) == IF s = {} THEN 0
                         ELSE g[CHOOSE x \in s : TRUE] + h[s \ {CHOOSE x \in s : TRUE}]
             k == [s \in Small(S, n + 1) |-> Next1(s)]
  <2>2. \A s \in Small(S, n) : h[s] = Next1(s)
    BY <2>1 DEF AddsSmall
  <2>3. \A s \in Small(S, n) : s \in Small(S, n + 1)
    <3> TAKE s \in Small(S, n)
    <3>1. Cardinality(s) \in Nat /\ Cardinality(s) <= n /\ s \in SUBSET S
      BY FS_Subset, FS_CardinalityType DEF Small
    <3>2. Cardinality(s) <= n + 1
      BY <3>1
    <3> QED BY <3>1, <3>2 DEF Small
  <2>4. \A s \in Small(S, n) : k[s] = h[s]
    BY <2>2, <2>3
  <2>5. ASSUME NEW s \in Small(S, n + 1), s # {}
        PROVE  s \ {CHOOSE x \in s : TRUE} \in Small(S, n)
    <3>1. s \in SUBSET S /\ (CHOOSE x \in s : TRUE) \in s /\ Cardinality(s) <= n + 1
      BY <2>5 DEF Small
    <3> DEFINE t == s \ {CHOOSE x \in s : TRUE}
    <3>2. t \in SUBSET S /\ Cardinality(s) \in Nat /\ Cardinality(t) = Cardinality(s) - 1
      BY <3>1, Removal
    <3>3. Cardinality(t) <= n
      BY <3>1, <3>2
    <3> QED BY <3>2, <3>3 DEF Small
  <2>6. \A s \in Small(S, n + 1) :
          Next1(s) = IF s = {} THEN 0
                     ELSE g[CHOOSE x \in s : TRUE] + k[s \ {CHOOSE x \in s : TRUE}]
    <3> TAKE s \in Small(S, n + 1)
    <3>1. CASE s = {}
      BY Zenon, <3>1
    <3>2. CASE s # {}
      <4>1. k[s \ {CHOOSE x \in s : TRUE}] = h[s \ {CHOOSE x \in s : TRUE}]
        BY Zenon, <2>4, <2>5, <3>2
      <4> QED BY Zenon, <3>2, <4>1
    <3> QED BY Zenon, <3>1, <3>2
  <2>7. AddsSmall(k, g, S, n + 1)
    BY <2>6 DEF AddsSmall
  <2> QED BY <2>7
<1>3. Cardinality(S) \in Nat
  BY FS_CardinalityType
<1>4. Cardinality(S) \in Have
  <2> HIDE DEF Have
  <2>1. \A n \in Nat : n \in Have
    BY <1>1, <1>2, SetInduction
  <2> QED BY <1>3, <2>1
<1>5. PICK h : AddsSmall(h, g, S, Cardinality(S))
  BY <1>4
<1>6. Small(S, Cardinality(S)) = SUBSET S
  BY FS_Subset DEF Small
<1>7. Adds(h, g, S)
  BY <1>5, <1>6 DEF AddsSmall, Adds
<1> QED BY <1>7

\* Two that add up agree where both do.
LEMMA AddsAgree ==
  ASSUME NEW S, IsFiniteSet(S), NEW T \in SUBSET S, NEW g, NEW h, NEW k,
         Adds(h, g, S), Adds(k, g, T)
  PROVE  \A U \in SUBSET T : h[U] = k[U]
<1> DEFINE Same == {n \in Nat : \A U \in Small(T, n) : h[U] = k[U]}
<1>1. \A U \in SUBSET T :
        /\ h[U] = IF U = {} THEN 0 ELSE g[CHOOSE x \in U : TRUE] + h[U \ {CHOOSE x \in U : TRUE}]
        /\ k[U] = IF U = {} THEN 0 ELSE g[CHOOSE x \in U : TRUE] + k[U \ {CHOOSE x \in U : TRUE}]
  <2>1. \A U \in SUBSET S :
          h[U] = IF U = {} THEN 0 ELSE g[CHOOSE x \in U : TRUE] + h[U \ {CHOOSE x \in U : TRUE}]
    BY DEF Adds
  <2>2. \A U \in SUBSET T :
          k[U] = IF U = {} THEN 0 ELSE g[CHOOSE x \in U : TRUE] + k[U \ {CHOOSE x \in U : TRUE}]
    BY DEF Adds
  <2>3. \A U \in SUBSET T : U \in SUBSET S
    OBVIOUS
  <2> QED BY <2>1, <2>2, <2>3
<1>2. IsFiniteSet(T)
  BY FS_Subset
<1>3. 0 \in Same
  <2>1. ASSUME NEW U \in Small(T, 0) PROVE U = {}
    <3>1. IsFiniteSet(U) /\ Cardinality(U) \in Nat /\ Cardinality(U) <= 0
      BY <1>2, FS_Subset, FS_CardinalityType DEF Small
    <3>2. Cardinality(U) = 0
      BY <3>1
    <3> QED BY <3>1, <3>2, FS_EmptySet
  <2> QED BY <1>1, <2>1 DEF Small
<1>4. ASSUME NEW n \in Nat, n \in Same PROVE n + 1 \in Same
  <2>1. ASSUME NEW U \in Small(T, n + 1), U # {} PROVE h[U] = k[U]
    <3>1. U \in SUBSET T /\ (CHOOSE x \in U : TRUE) \in U /\ Cardinality(U) <= n + 1
      BY <2>1 DEF Small
    <3> DEFINE V == U \ {CHOOSE x \in U : TRUE}
    <3>2. V \in SUBSET T /\ Cardinality(U) \in Nat /\ Cardinality(V) = Cardinality(U) - 1
      BY <1>2, <3>1, Removal
    <3>3. Cardinality(V) <= n
      BY <3>1, <3>2
    <3>4. h[V] = k[V]
      BY <1>4, <3>2, <3>3 DEF Small
    <3> QED BY <1>1, <2>1, <3>1, <3>4
  <2>2. \A U \in Small(T, n + 1) : h[U] = k[U]
    BY <1>1, <2>1 DEF Small
  <2> QED BY <2>2
<1>5. \A n \in Nat : n \in Same
  <2> HIDE DEF Same
  <2> QED BY <1>3, <1>4, SetInduction
<1> TAKE U \in SUBSET T
<1>6. Cardinality(U) \in Nat /\ Cardinality(U) <= Cardinality(U)
  <2>1. Cardinality(U) \in Nat
    BY <1>2, FS_Subset, FS_CardinalityType
  <2> QED BY <2>1
<1> QED BY <1>5, <1>6 DEF Small

LEMMA SumAdds ==
  ASSUME NEW S, IsFiniteSet(S), NEW g
  PROVE  \E h : Adds(h, g, S) /\ \A T \in SUBSET S : Summed(g, T) = h[T]
<1>1. PICK h : Adds(h, g, S)
  BY AddsExists
<1>2. ASSUME NEW T \in SUBSET S PROVE Summed(g, T) = h[T]
  <2> DEFINE k == CHOOSE f : Adds(f, g, T)
  <2>1. IsFiniteSet(T)
    BY FS_Subset
  <2>2. \E f : Adds(f, g, T)
    BY <2>1, AddsExists
  <2>3. Adds(k, g, T)
    BY <2>2
  <2>4. h[T] = k[T]
    <3> HIDE DEF k
    <3> QED BY <1>1, <2>3, AddsAgree
  <2> QED BY <2>4 DEF Summed
<1> QED BY <1>1, <1>2

LEMMA SumIs ==
  ASSUME NEW S, IsFiniteSet(S), NEW g, NEW h, Adds(h, g, S)
  PROVE  Summed(g, S) = h[S]
<1>1. PICK k : Adds(k, g, S) /\ \A T \in SUBSET S : Summed(g, T) = k[T]
  BY SumAdds
<1>2. S \in SUBSET S
  OBVIOUS
<1>3. \A U \in SUBSET S : k[U] = h[U]
  BY <1>1, <1>2, AddsAgree
<1> QED BY <1>1, <1>3

\* The sum over no element, and the sum but for the element taken first.
LEMMA SumFirst ==
  ASSUME NEW S, IsFiniteSet(S), NEW g
  PROVE  /\ S = {} => Summed(g, S) = 0
         /\ S # {} => Summed(g, S) = g[CHOOSE x \in S : TRUE] + Summed(g, S \ {CHOOSE x \in S : TRUE})
<1>1. PICK h : Adds(h, g, S) /\ \A T \in SUBSET S : Summed(g, T) = h[T]
  BY SumAdds
<1>2. h[S] = IF S = {} THEN 0 ELSE g[CHOOSE x \in S : TRUE] + h[S \ {CHOOSE x \in S : TRUE}]
  BY <1>1 DEF Adds
<1>3. Summed(g, S) = h[S] /\ \A x : Summed(g, S \ {x}) = h[S \ {x}]
  BY <1>1
<1> QED BY <1>2, <1>3

LEMMA AddedInAnyOrder ==
  ASSUME NEW a \in Int, NEW b \in Int, NEW rest \in Int,
         NEW whole, NEW less, NEW other,
         whole = a + less, less = b + rest, other = a + rest
  PROVE  whole = b + other
<1>1. whole = a + (b + rest) /\ b + (a + rest) = a + (b + rest)
  OBVIOUS
<1> QED BY <1>1

\* The sum of integers is an integer, and any element may be added last.
LEMMA SumAny ==
  ASSUME NEW S, IsFiniteSet(S), NEW g, \A x \in S : g[x] \in Int
  PROVE  \A T \in SUBSET S :
           Summed(g, T) \in Int /\ \A x \in T : Summed(g, T) = g[x] + Summed(g, T \ {x})
<1> DEFINE Ok(T) == Summed(g, T) \in Int /\ \A x \in T : Summed(g, T) = g[x] + Summed(g, T \ {x})
           Done == {n \in Nat : \A T \in Small(S, n) : Ok(T)}
<1>1. \A T \in SUBSET S : T = {} => Ok(T)
  BY SumFirst, FS_EmptySet
<1>2. 0 \in Done
  <2>1. ASSUME NEW T \in Small(S, 0) PROVE T = {}
    <3>1. IsFiniteSet(T) /\ Cardinality(T) \in Nat /\ Cardinality(T) <= 0
      BY FS_Subset, FS_CardinalityType DEF Small
    <3>2. Cardinality(T) = 0
      BY <3>1
    <3> QED BY <3>1, <3>2, FS_EmptySet
  <2>2. \A T \in Small(S, 0) : Ok(T)
    <3> HIDE DEF Ok
    <3> QED BY <1>1, <2>1 DEF Small
  <2> QED BY <2>2
<1>3. ASSUME NEW n \in Nat, n \in Done PROVE n + 1 \in Done
  <2>1. ASSUME NEW T \in Small(S, n + 1), T # {} PROVE Ok(T)
    <3> DEFINE first == CHOOSE x \in T : TRUE
    <3>1. T \in SUBSET S /\ first \in T /\ Cardinality(T) <= n + 1
      BY <2>1 DEF Small
    <3>2. \A x \in T : T \ {x} \in Small(S, n)
      <4> TAKE x \in T
      <4>1. /\ T \ {x} \in SUBSET S /\ Cardinality(T) \in Nat
            /\ Cardinality(T \ {x}) = Cardinality(T) - 1
        BY <3>1, Removal
      <4>2. Cardinality(T \ {x}) <= n
        BY <3>1, <4>1
      <4> QED BY <4>1, <4>2 DEF Small
    <3>3. \A x \in T : Ok(T \ {x})
      <4> HIDE DEF Ok
      <4> QED BY <1>3, <3>2
    <3>4. IsFiniteSet(T)
      BY <3>1, FS_Subset
    <3>5. Summed(g, T) = g[first] + Summed(g, T \ {first})
      BY <2>1, <3>4, SumFirst
    <3>6. \A x \in T : g[x] \in Int
      BY <3>1
    <3> HIDE DEF first
    <3>7. \A x \in T : Summed(g, T \ {x}) \in Int
      BY <3>3
    <3>8. Summed(g, T) \in Int
      BY <3>1, <3>5, <3>6, <3>7
    <3>9. ASSUME NEW x \in T, x # first PROVE Summed(g, T) = g[x] + Summed(g, T \ {x})
      <4>1. Summed(g, T \ {first}) = g[x] + Summed(g, (T \ {first}) \ {x})
        BY <3>1, <3>3, <3>9
      <4>2. Summed(g, T \ {x}) = g[first] + Summed(g, (T \ {x}) \ {first})
        BY <3>1, <3>3, <3>9
      <4>3. (T \ {first}) \ {x} = (T \ {x}) \ {first}
        OBVIOUS
      <4>4. Summed(g, (T \ {first}) \ {x}) \in Int
        <5>1. (T \ {first}) \ {x} \in Small(S, n)
          <6>1. x \in T \ {first} /\ T \ {first} \in SUBSET S /\ T \ {first} \in Small(S, n)
            BY <3>1, <3>2, <3>9 DEF Small
          <6>2. /\ (T \ {first}) \ {x} \in SUBSET S /\ Cardinality(T \ {first}) \in Nat
                /\ Cardinality((T \ {first}) \ {x}) = Cardinality(T \ {first}) - 1
            BY <6>1, Removal
          <6>3. Cardinality(T \ {first}) <= n
            BY <6>1 DEF Small
          <6>4. Cardinality((T \ {first}) \ {x}) <= n
            BY <6>2, <6>3
          <6> QED BY <6>2, <6>4 DEF Small
        <5> QED BY <1>3, <5>1
      <4>5. g[x] \in Int /\ g[first] \in Int
        BY <3>1, <3>6
      <4>6. Summed(g, T \ {x}) = g[first] + Summed(g, (T \ {first}) \ {x})
        BY <4>2, <4>3
      <4> QED BY <3>5, <4>1, <4>4, <4>5, <4>6, AddedInAnyOrder
    <3> QED BY <3>5, <3>8, <3>9
  <2>2. \A T \in Small(S, n + 1) : Ok(T)
    <3> HIDE DEF Ok
    <3> QED BY <1>1, <2>1 DEF Small
  <2> QED BY <2>2
<1>4. \A n \in Nat : n \in Done
  <2> HIDE DEF Done
  <2> QED BY <1>2, <1>3, SetInduction
<1>5. \A T \in SUBSET S : Ok(T)
  <2> TAKE T \in SUBSET S
  <2>1. Cardinality(T) \in Nat
    BY FS_Subset, FS_CardinalityType
  <2>2. T \in Small(S, Cardinality(T))
    BY <2>1 DEF Small
  <2> HIDE DEF Ok
  <2> QED BY <1>4, <2>1, <2>2
<1> QED BY <1>5

\* A set of subsets that has the empty one and with each subset the larger by
\* one has the whole set: induction over finite sets.
LEMMA SubsetInduction ==
  ASSUME NEW S, IsFiniteSet(S), NEW Good, {} \in Good,
         \A T \in SUBSET S : \A x \in S \ T : T \in Good => T \cup {x} \in Good
  PROVE  S \in Good
<1> DEFINE Done == {n \in Nat : \A T \in Small(S, n) : T \in Good}
<1>1. 0 \in Done
  <2>1. ASSUME NEW T \in Small(S, 0) PROVE T = {}
    <3>1. IsFiniteSet(T) /\ Cardinality(T) \in Nat /\ Cardinality(T) <= 0
      BY FS_Subset, FS_CardinalityType DEF Small
    <3>2. Cardinality(T) = 0
      BY <3>1
    <3> QED BY <3>1, <3>2, FS_EmptySet
  <2> QED BY <2>1
<1>2. ASSUME NEW n \in Nat, n \in Done PROVE n + 1 \in Done
  <2>1. ASSUME NEW T \in Small(S, n + 1), T # {} PROVE T \in Good
    <3>1. PICK x \in T : TRUE
      BY <2>1
    <3>2. T \in SUBSET S /\ Cardinality(T) <= n + 1 /\ x \in S
      BY <3>1, <2>1 DEF Small
    <3> DEFINE U == T \ {x}
    <3>3. U \in SUBSET S /\ Cardinality(T) \in Nat /\ Cardinality(U) = Cardinality(T) - 1
      BY <3>1, <3>2, Removal
    <3>4. Cardinality(U) <= n
      BY <3>2, <3>3
    <3>5. U \in Good
      BY <1>2, <3>3, <3>4 DEF Small
    <3>6. x \in S \ U /\ T = U \cup {x}
      BY <3>1, <3>2
    <3> HIDE DEF U
    <3>7. U \cup {x} \in Good
      BY <3>3, <3>5, <3>6
    <3> QED BY <3>6, <3>7
  <2>2. \A T \in Small(S, n + 1) : T \in Good
    BY <2>1
  <2> QED BY <2>2
<1>3. Cardinality(S) \in Done
  <2> HIDE DEF Done
  <2>1. \A n \in Nat : n \in Done
    BY <1>1, <1>2, SetInduction
  <2> QED BY <2>1, FS_CardinalityType
<1>4. S \in Small(S, Cardinality(S))
  <2>1. Cardinality(S) \in Nat
    BY FS_CardinalityType
  <2> QED BY <2>1 DEF Small
<1> QED BY <1>3, <1>4

\* The sum over a set and one more element.
LEMMA SumWith ==
  ASSUME NEW S, IsFiniteSet(S), NEW g, \A x \in S : g[x] \in Int
  PROVE  /\ Summed(g, {}) = 0
         /\ \A T \in SUBSET S : Summed(g, T) \in Int
         /\ \A T \in SUBSET S : \A x \in S \ T : Summed(g, T \cup {x}) = g[x] + Summed(g, T)
<1>1. Summed(g, {}) = 0
  BY FS_EmptySet, SumFirst
<1>2. \A T \in SUBSET S :
        Summed(g, T) \in Int /\ \A x \in T : Summed(g, T) = g[x] + Summed(g, T \ {x})
  BY SumAny
<1>3. ASSUME NEW T \in SUBSET S, NEW x \in S \ T
      PROVE  Summed(g, T \cup {x}) = g[x] + Summed(g, T)
  <2> DEFINE U == T \cup {x}
  <2>1. U \in SUBSET S /\ x \in U /\ U \ {x} = T
    OBVIOUS
  <2> HIDE DEF U
  <2>2. Summed(g, U) = g[x] + Summed(g, U \ {x})
    BY <1>2, <2>1
  <2> QED BY <2>1, <2>2 DEF U
<1> QED BY <1>1, <1>2, <1>3

LEMMA LinearStep ==
  ASSUME NEW a \in Int, NEW b \in Int, NEW c \in Int, NEW e \in Int, NEW f \in Int, NEW h \in Int,
         NEW s \in Int, NEW t \in Int, NEW u \in Int
  PROVE  (a * e + b * f + c * h) + (a * s + b * t + c * u)
           = a * (e + s) + b * (f + t) + c * (h + u)
OBVIOUS

\* The sum of a combination is the combination of the sums.
LEMMA SumLinear ==
  ASSUME NEW S, IsFiniteSet(S), NEW g, NEW e, NEW f, NEW h,
         NEW a \in Int, NEW b \in Int, NEW c \in Int,
         \A x \in S : e[x] \in Int /\ f[x] \in Int /\ h[x] \in Int,
         \A x \in S : g[x] = a * e[x] + b * f[x] + c * h[x]
  PROVE  Summed(g, S) = a * Summed(e, S) + b * Summed(f, S) + c * Summed(h, S)
<1> DEFINE Good == {T \in SUBSET S :
                      Summed(g, T) = a * Summed(e, T) + b * Summed(f, T) + c * Summed(h, T)}
<1>0. \A x \in S : g[x] \in Int
  OBVIOUS
<1>1. {} \in Good
  <2>1. Summed(g, {}) = 0 /\ Summed(e, {}) = 0 /\ Summed(f, {}) = 0 /\ Summed(h, {}) = 0
    BY FS_EmptySet, SumFirst
  <2>2. 0 = a * 0 + b * 0 + c * 0
    OBVIOUS
  <2> QED BY <2>1, <2>2
<1>2. ASSUME NEW T \in SUBSET S, NEW x \in S \ T, T \in Good PROVE T \cup {x} \in Good
  <2> DEFINE U == T \cup {x}
             s == Summed(e, T)
             t == Summed(f, T)
             u == Summed(h, T)
  <2>1. /\ Summed(g, U) = g[x] + Summed(g, T)
        /\ Summed(e, U) = e[x] + s
        /\ Summed(f, U) = f[x] + t
        /\ Summed(h, U) = h[x] + u
    BY <1>0, SumWith
  <2>2. s \in Int /\ t \in Int /\ u \in Int
    BY SumWith
  <2>3. e[x] \in Int /\ f[x] \in Int /\ h[x] \in Int /\ g[x] = a * e[x] + b * f[x] + c * h[x]
    OBVIOUS
  <2>4. Summed(g, T) = a * s + b * t + c * u
    BY <1>2
  <2>5. U \in SUBSET S
    OBVIOUS
  <2> HIDE DEF U, s, t, u
  <2>6. (a * e[x] + b * f[x] + c * h[x]) + (a * s + b * t + c * u)
          = a * (e[x] + s) + b * (f[x] + t) + c * (h[x] + u)
    BY <2>2, <2>3, LinearStep
  <2>7. Summed(g, U) = a * Summed(e, U) + b * Summed(f, U) + c * Summed(h, U)
    BY <2>1, <2>3, <2>4, <2>6, Zenon
  <2> QED BY <2>5, <2>7 DEF U
<1>3. S \in Good
  <2> HIDE DEF Good
  <2> QED BY <1>1, <1>2, SubsetInduction
<1> QED BY <1>3

\* A sum of numbers of at most c, and of at least c.
LEMMA SumBounds ==
  ASSUME NEW S, IsFiniteSet(S), NEW g, \A x \in S : g[x] \in Int, NEW c \in Int
  PROVE  /\ (\A x \in S : g[x] <= c) => Summed(g, S) <= Cardinality(S) * c
         /\ (\A x \in S : g[x] >= c) => Summed(g, S) >= Cardinality(S) * c
<1> DEFINE Good == {T \in SUBSET S :
                      /\ (\A x \in S : g[x] <= c) => Summed(g, T) <= Cardinality(T) * c
                      /\ (\A x \in S : g[x] >= c) => Summed(g, T) >= Cardinality(T) * c}
<1>1. {} \in Good
  <2>1. Summed(g, {}) = 0 /\ Cardinality({}) = 0 /\ 0 * c = 0
    BY FS_EmptySet, SumFirst
  <2> QED BY <2>1
<1>2. ASSUME NEW T \in SUBSET S, NEW x \in S \ T, T \in Good PROVE T \cup {x} \in Good
  <2> DEFINE U == T \cup {x}
             s == Summed(g, T)
             n == Cardinality(T)
  <2>1. Summed(g, U) = g[x] + s /\ s \in Int /\ g[x] \in Int
    BY SumWith
  <2>2. Cardinality(U) = n + 1 /\ n \in Nat
    BY FS_Subset, FS_CardinalityType, FS_AddElement
  <2>3. U \in SUBSET S
    OBVIOUS
  <2>4. (n + 1) * c = n * c + c /\ n * c \in Int
    BY <2>2
  <2>5. /\ (\A y \in S : g[y] <= c) => g[x] <= c /\ s <= n * c
        /\ (\A y \in S : g[y] >= c) => g[x] >= c /\ s >= n * c
    BY <1>2
  <2> HIDE DEF U, s, n
  <2>6. /\ g[x] <= c /\ s <= n * c => g[x] + s <= (n + 1) * c
        /\ g[x] >= c /\ s >= n * c => g[x] + s >= (n + 1) * c
    BY <2>1, <2>4
  <2>7. /\ (\A y \in S : g[y] <= c) => Summed(g, U) <= Cardinality(U) * c
        /\ (\A y \in S : g[y] >= c) => Summed(g, U) >= Cardinality(U) * c
    BY <2>1, <2>2, <2>5, <2>6, Zenon
  <2> QED BY <2>3, <2>7 DEF U
<1>3. S \in Good
  <2> HIDE DEF Good
  <2> QED BY <1>1, <1>2, SubsetInduction
<1> QED BY <1>3
=============================================================================
