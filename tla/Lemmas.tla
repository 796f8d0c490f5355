------------------------------- MODULE Lemmas -------------------------------
(***************************************************************************)
(* Facts that the proofs about several modules rest on: least elements and *)
(* induction over the subsets of a finite set, sums over finite sets,      *)
(* counting, the arithmetic of linearised locations, and recursion.        *)
(***************************************************************************)
EXTENDS Integers, FiniteSets, FiniteSetsExt, FiniteSetTheorems, WellFoundedInduction, TLAPS

-----------------------------------------------------------------------------
(* Least elements.                                                         *)

LEMMA LeastNat ==
  ASSUME NEW S \in SUBSET Nat, S # {}
  PROVE  \E x \in S : \A y \in S : x <= y
<1> DEFINE R == OpToRel(<, Nat)
<1>1. IsWellFoundedOn(R, Nat)
  BY NatLessThanWellFounded
<1>2. \A x, y \in Nat : x < y => << x, y >> \in R
  BY DEF OpToRel
<1> HIDE DEF R
<1>3. PICK x \in S : \A y \in S : ~ (<< y, x >> \in R)
  BY <1>1, WFMin
<1>4. \A y \in S : ~ (y < x)
  BY <1>2, <1>3
<1> QED
  BY <1>4

\* Among finitely many columns one has the least distance, whatever its sign: otherwise there
\* were a least k such that no column up to k has it.
LEMMA LeastColumn ==
  ASSUME NEW m \in Nat, NEW S \in SUBSET (1 .. m), S # {},
         NEW D, \A j \in S : D[j] \in Int
  PROVE  \E j \in S : \A k \in S : D[j] <= D[k]
<1> DEFINE Best(n) == \E j \in S : j <= n /\ \A k \in S : k <= n => D[j] <= D[k]
           Bad == {n \in 0 .. m : (\E j \in S : j <= n) /\ ~ Best(n)}
<1>1. CASE Bad = {}
  <2>1. m \in 0 .. m /\ \E j \in S : j <= m
    <3>1. PICK j \in S : j \in 1 .. m
      OBVIOUS
    <3> QED
      BY <3>1
  <2>2. Best(m)
    <3> HIDE DEF Best
    <3> QED
      BY <1>1, <2>1
  <2> QED
    BY <2>2
<1>2. CASE Bad # {}
  <2>1. PICK n \in Bad : \A k \in Bad : n <= k
    <3>1. Bad \in SUBSET Nat
      OBVIOUS
    <3> HIDE DEF Bad
    <3> QED
      BY <1>2, <3>1, LeastNat
  <2>2. n \in 1 .. m /\ n - 1 \in 0 .. m /\ n - 1 \notin Bad /\ ~ Best(n)
    <3>1. n \in 0 .. m /\ (\E j \in S : j <= n) /\ ~ Best(n)
      BY <2>1
    <3>2. n # 0
      BY <3>1
    <3> HIDE DEF Best
    <3> QED
      BY <2>1, <3>1, <3>2
  <2>3. CASE \E j \in S : j <= n - 1
    <3>1. Best(n - 1)
      <4> HIDE DEF Best
      <4> QED
        BY <2>2, <2>3
    <3>2. PICK j \in S : j <= n - 1 /\ \A k \in S : k <= n - 1 => D[j] <= D[k]
      BY <3>1
    <3>3. \A k \in S : k <= n => k <= n - 1 \/ k = n
      BY <2>2
    <3>4. CASE n \in S /\ D[n] < D[j]
      <4>1. \A k \in S : k <= n => D[n] <= D[k]
        BY <3>2, <3>3, <3>4
      <4> QED
        BY <2>2, <3>4, <4>1
    <3>5. CASE ~ (n \in S /\ D[n] < D[j])
      <4>1. \A k \in S : k <= n => D[j] <= D[k]
        BY <3>2, <3>3, <3>5
      <4>2. j <= n
        BY <2>2, <3>2
      <4> QED
        BY <2>2, <3>2, <4>1, <4>2
    <3> QED
      BY <3>4, <3>5
  <2>4. CASE ~ \E j \in S : j <= n - 1
    <3>1. \A k \in S : k <= n => k = n
      BY <2>2, <2>4
    <3>2. PICK j \in S : j <= n
      BY <2>1
    <3>3. \A k \in S : k <= n => D[j] <= D[k]
      BY <3>1, <3>2
    <3> QED
      BY <2>2, <3>2, <3>3
  <2> QED
    BY <2>3, <2>4
<1> QED
  BY <1>1, <1>2

\* Induction over the subsets of a finite set: those in Q are all of them.
LEMMA SubsetInduction ==
  ASSUME NEW S, IsFiniteSet(S), NEW Q, {} \in Q,
         \A s \in SUBSET S : \A x \in S \ s : s \in Q => s \cup {x} \in Q
  PROVE  \A s \in SUBSET S : s \in Q
<1> DEFINE Bad == {n \in Nat : \E s \in SUBSET S : s \notin Q /\ Cardinality(s) = n}
<1>1. \A s \in SUBSET S : IsFiniteSet(s) /\ Cardinality(s) \in Nat
  BY FS_Subset, FS_CardinalityType
<1>2. SUFFICES Bad = {}
  BY <1>1, <1>2
<1>3. SUFFICES ASSUME Bad # {} PROVE FALSE
  OBVIOUS
<1>4. PICK n \in Bad : \A k \in Bad : n <= k
  <2>1. Bad \in SUBSET Nat
    OBVIOUS
  <2> HIDE DEF Bad
  <2> QED
    BY <1>3, <2>1, LeastNat
<1>5. PICK s \in SUBSET S : s \notin Q /\ Cardinality(s) = n
  BY <1>4
<1>6. PICK x \in s : TRUE
  BY <1>5
<1>7. Cardinality(s \ {x}) = n - 1 /\ n - 1 \in Nat
  BY <1>1, <1>5, <1>6, FS_RemoveElement
<1>8. s \ {x} \in Q
  <2>1. n - 1 \notin Bad
    <3>1. n \in Nat
      BY <1>4
    <3> HIDE DEF Bad
    <3> QED
      BY <1>4, <3>1
  <2> QED
    BY <1>7, <2>1
<1>9. (s \ {x}) \cup {x} = s
  BY <1>6
<1> QED
  BY <1>5, <1>6, <1>8, <1>9

\* A family of subsets of a finite set has a member none of whose elements can be taken out.
LEMMA LeastSubset ==
  ASSUME NEW S, IsFiniteSet(S), NEW B \in SUBSET SUBSET S, B # {}
  PROVE  \E s \in B : /\ IsFiniteSet(s)
                      /\ \A x \in s : s \ {x} \notin B
<1> DEFINE Sizes == {n \in Nat : \E s \in B : Cardinality(s) = n}
<1>1. \A s \in SUBSET S : IsFiniteSet(s) /\ Cardinality(s) \in Nat
  BY FS_Subset, FS_CardinalityType
<1>2. PICK n \in Sizes : \A k \in Sizes : n <= k
  <2>1. Sizes \in SUBSET Nat /\ Sizes # {}
    BY <1>1
  <2> HIDE DEF Sizes
  <2> QED
    BY <2>1, LeastNat
<1>3. PICK s \in B : Cardinality(s) = n
  BY <1>2
<1>4. ASSUME NEW x \in s, s \ {x} \in B
      PROVE  FALSE
  <2>1. Cardinality(s \ {x}) = n - 1 /\ n - 1 \in Nat /\ n \in Nat
    BY <1>1, <1>3, <1>4, FS_RemoveElement
  <2>2. n - 1 \in Sizes
    BY <1>4, <2>1
  <2> HIDE DEF Sizes
  <2> QED
    BY <1>2, <2>1, <2>2
<1> QED
  BY <1>1, <1>3, <1>4

-----------------------------------------------------------------------------
(* Sums over finite sets, of the values of a function.                     *)

FirstOf(s) == CHOOSE x \in s : TRUE

SumOn(h, S) == MapThenSumSet(LAMBDA x : h[x], S)

LEMMA FirstIn == ASSUME NEW s, s # {} PROVE FirstOf(s) \in s
  BY DEF FirstOf

\* The sum, expanded.
LEMMA SumExpanded ==
  ASSUME NEW S, NEW h
  PROVE  SumOn(h, S) = (CHOOSE g : g = [s \in SUBSET S |->
                          IF s = {} THEN 0 ELSE h[FirstOf(s)] + g[s \ {FirstOf(s)}]])[S]
  BY DEF SumOn, MapThenSumSet, MapThenFoldSet, FirstOf

\* A function that adds up h by the choices of First.
Adds(g, h, S) ==
  \A s \in SUBSET S : g[s] = IF s = {} THEN 0 ELSE h[FirstOf(s)] + g[s \ {FirstOf(s)}]

LEMMA AddsExists ==
  ASSUME NEW S, IsFiniteSet(S), NEW h
  PROVE  \E g : Adds(g, h, S) /\ SumOn(h, S) = g[S]
<1> DEFINE Small(n) == {s \in SUBSET S : Cardinality(s) <= n}
           Good(n) == \E g : g = [s \in Small(n) |-> IF s = {} THEN 0 ELSE h[FirstOf(s)] + g[s \ {FirstOf(s)}]]
           Bad == {n \in Nat : ~ Good(n)}
<1>1. \A s \in SUBSET S : IsFiniteSet(s) /\ Cardinality(s) \in Nat
  BY FS_Subset, FS_CardinalityType
<1>2. \A s \in SUBSET S : s # {} => s \ {FirstOf(s)} \in SUBSET S /\ Cardinality(s \ {FirstOf(s)}) = Cardinality(s) - 1
  BY <1>1, FirstIn, FS_RemoveElement
<1>3. \A s \in SUBSET S : Cardinality(s) = 0 <=> s = {}
  BY <1>1, FS_EmptySet
<1>4. Good(0)
  <2> DEFINE g == [s \in Small(0) |-> 0]
  <2>1. \A s \in Small(0) : s = {}
    BY <1>1, <1>3
  <2>2. g = [s \in Small(0) |-> IF s = {} THEN 0 ELSE h[FirstOf(s)] + g[s \ {FirstOf(s)}]]
    BY <2>1
  <2> QED
    BY <2>2
<1>5. ASSUME NEW n \in Nat, Good(n)
      PROVE  Good(n + 1)
  <2>1. PICK f : f = [s \in Small(n) |-> IF s = {} THEN 0 ELSE h[FirstOf(s)] + f[s \ {FirstOf(s)}]]
    BY <1>5
  <2> DEFINE g == [s \in Small(n + 1) |-> IF s \in Small(n) THEN f[s] ELSE h[FirstOf(s)] + f[s \ {FirstOf(s)}]]
  <2>2. \A s \in Small(n) : s \in Small(n + 1)
    BY <1>1
  <2>3. \A s \in Small(n + 1) : s # {} => s \ {FirstOf(s)} \in Small(n)
    BY <1>1, <1>2
  <2>4. {} \in Small(n)
    BY <1>3
  <2> HIDE DEF Small
  <2>5. ASSUME NEW s \in Small(n + 1)
        PROVE  g[s] = IF s = {} THEN 0 ELSE h[FirstOf(s)] + g[s \ {FirstOf(s)}]
    <3>1. CASE s = {}
      <4>1. f[s] = 0
        BY <2>1, <2>4, <3>1
      <4> QED
        BY <3>1, <4>1, <2>4
    <3>2. CASE s # {}
      <4>1. s \ {FirstOf(s)} \in Small(n)
        BY <2>3, <3>2
      <4>2. g[s \ {FirstOf(s)}] = f[s \ {FirstOf(s)}]
        BY <4>1, <2>2
      <4>3. s \in Small(n) => f[s] = h[FirstOf(s)] + f[s \ {FirstOf(s)}]
        BY <2>1, <3>2
      <4> QED
        BY <3>2, <4>2, <4>3
    <3> QED
      BY <3>1, <3>2
  <2>6. g = [s \in Small(n + 1) |-> IF s = {} THEN 0 ELSE h[FirstOf(s)] + g[s \ {FirstOf(s)}]]
    <3> DEFINE k == [s \in Small(n + 1) |-> IF s = {} THEN 0 ELSE h[FirstOf(s)] + g[s \ {FirstOf(s)}]]
    <3>1. \A s \in Small(n + 1) : g[s] = k[s]
      <4> HIDE DEF g
      <4> QED BY <2>5
    <3> QED
      BY <3>1
  <2> QED
    BY <2>6
<1>6. Bad = {}
  <2>1. SUFFICES ASSUME Bad # {} PROVE FALSE
    OBVIOUS
  <2>2. PICK n \in Bad : \A k \in Bad : n <= k
    <3>1. Bad \in SUBSET Nat
      OBVIOUS
    <3> HIDE DEF Bad
    <3> QED
      BY <2>1, <3>1, LeastNat
  <2> HIDE DEF Good
  <2>3. n \in Nat /\ ~ Good(n) /\ n # 0
    BY <1>4, <2>2
  <2>4. n - 1 \in Nat /\ n - 1 \notin Bad
    <3> HIDE DEF Bad
    <3> QED
      BY <2>2, <2>3
  <2>5. Good(n - 1)
    BY <2>4
  <2>6. Good((n - 1) + 1)
    BY <1>5, <2>4, <2>5
  <2> QED
    BY <2>3, <2>6
<1>7. \A s \in SUBSET S : Cardinality(s) <= Cardinality(S) /\ Cardinality(S) \in Nat
  BY FS_Subset, FS_CardinalityType
<1>8. Small(Cardinality(S)) = SUBSET S
  BY <1>7
<1>9. Good(Cardinality(S))
  <2> HIDE DEF Good
  <2> QED
    BY <1>6, <1>7
<1> DEFINE P(g) == g = [s \in SUBSET S |-> IF s = {} THEN 0 ELSE h[FirstOf(s)] + g[s \ {FirstOf(s)}]]
<1>10. \E g : P(g)
  BY <1>8, <1>9
<1>11. P(CHOOSE g : P(g))
  <2> HIDE DEF P
  <2> QED
    BY <1>10
<1>12. PICK g : P(g) /\ SumOn(h, S) = g[S]
  BY <1>11, SumExpanded
<1>13. Adds(g, h, S)
  BY <1>12 DEF Adds
<1> QED
  BY <1>12, <1>13

\* What is added up does not depend on the rest of the set.
LEMMA AddsAgree ==
  ASSUME NEW S, IsFiniteSet(S), NEW T, S \subseteq T, NEW h, NEW k, \A x \in S : h[x] = k[x],
         NEW f, Adds(f, h, S), NEW g, Adds(g, k, T)
  PROVE  f[S] = g[S]
<1> DEFINE Bad == {s \in SUBSET S : f[s] # g[s]}
<1>1. SUFFICES ASSUME Bad # {} PROVE FALSE
  OBVIOUS
<1>2. PICK s \in Bad : \A x \in s : s \ {x} \notin Bad
  <2>1. Bad \in SUBSET SUBSET S
    OBVIOUS
  <2> HIDE DEF Bad
  <2> QED
    BY <1>1, <2>1, LeastSubset
<1>3. s # {}
  BY DEF Adds
<1>4. FirstOf(s) \in s
  BY <1>3, FirstIn
<1>5. f[s \ {FirstOf(s)}] = g[s \ {FirstOf(s)}]
  BY <1>2, <1>4
<1>6. f[s] = h[FirstOf(s)] + f[s \ {FirstOf(s)}] /\ g[s] = k[FirstOf(s)] + g[s \ {FirstOf(s)}]
  BY <1>3 DEF Adds
<1>7. h[FirstOf(s)] = k[FirstOf(s)]
  BY <1>4
<1> QED
  BY <1>5, <1>6, <1>7

LEMMA SumIsAdds ==
  ASSUME NEW S, IsFiniteSet(S), NEW h, NEW g, Adds(g, h, S)
  PROVE  SumOn(h, S) = g[S]
<1>1. PICK f : Adds(f, h, S) /\ SumOn(h, S) = f[S]
  BY AddsExists
<1> QED
  BY <1>1, AddsAgree

LEMMA SumEmpty ==
  ASSUME NEW h
  PROVE  SumOn(h, {}) = 0
<1>1. IsFiniteSet({})
  BY FS_EmptySet
<1>2. PICK f : Adds(f, h, {}) /\ SumOn(h, {}) = f[{}]
  BY <1>1, AddsExists
<1> QED
  BY <1>2 DEF Adds

LEMMA SumCongruent ==
  ASSUME NEW S, IsFiniteSet(S), NEW h, NEW k, \A x \in S : h[x] = k[x]
  PROVE  SumOn(h, S) = SumOn(k, S)
<1>1. PICK f : Adds(f, h, S) /\ SumOn(h, S) = f[S]
  BY AddsExists
<1>2. PICK g : Adds(g, k, S) /\ SumOn(k, S) = g[S]
  BY AddsExists
<1> QED
  BY <1>1, <1>2, AddsAgree

LEMMA SumFirst ==
  ASSUME NEW S, IsFiniteSet(S), S # {}, NEW h
  PROVE  SumOn(h, S) = h[FirstOf(S)] + SumOn(h, S \ {FirstOf(S)})
<1>1. PICK g : Adds(g, h, S) /\ SumOn(h, S) = g[S]
  BY AddsExists
<1>2. S \ {FirstOf(S)} \subseteq S /\ IsFiniteSet(S \ {FirstOf(S)})
  BY FS_Subset
<1>3. Adds(g, h, S \ {FirstOf(S)})
  BY <1>1, <1>2 DEF Adds
<1>4. SumOn(h, S \ {FirstOf(S)}) = g[S \ {FirstOf(S)}]
  BY <1>2, <1>3, SumIsAdds
<1>5. g[S] = h[FirstOf(S)] + g[S \ {FirstOf(S)}]
  BY <1>1 DEF Adds
<1> QED
  BY <1>1, <1>4, <1>5

LEMMA SumType ==
  ASSUME NEW S, IsFiniteSet(S), NEW h, \A x \in S : h[x] \in Int
  PROVE  SumOn(h, S) \in Int
<1> DEFINE Bad == {s \in SUBSET S : SumOn(h, s) \notin Int}
<1>1. SUFFICES ASSUME Bad # {} PROVE FALSE
  OBVIOUS
<1>2. PICK s \in Bad : IsFiniteSet(s) /\ \A x \in s : s \ {x} \notin Bad
  <2>1. Bad \in SUBSET SUBSET S
    OBVIOUS
  <2> HIDE DEF Bad
  <2> QED
    BY <1>1, <2>1, LeastSubset
<1>3. s # {}
  BY SumEmpty
<1>4. FirstOf(s) \in s
  BY <1>3, FirstIn
<1>5. SumOn(h, s \ {FirstOf(s)}) \in Int
  BY <1>2, <1>4
<1>6. SumOn(h, s) = h[FirstOf(s)] + SumOn(h, s \ {FirstOf(s)})
  BY <1>2, <1>3, SumFirst
<1> QED
  BY <1>4, <1>5, <1>6

\* Any element may be taken out.
LEMMA SumRemove ==
  ASSUME NEW S, IsFiniteSet(S), NEW h, \A y \in S : h[y] \in Int, NEW x \in S
  PROVE  SumOn(h, S) = h[x] + SumOn(h, S \ {x})
<1> DEFINE Bad == {s \in SUBSET S : \E y \in s : SumOn(h, s) # h[y] + SumOn(h, s \ {y})}
<1>1. SUFFICES ASSUME Bad # {} PROVE FALSE
  BY <1>1
<1>2. PICK s \in Bad : IsFiniteSet(s) /\ \A y \in s : s \ {y} \notin Bad
  <2>1. Bad \in SUBSET SUBSET S
    OBVIOUS
  <2> HIDE DEF Bad
  <2> QED
    BY <1>1, <2>1, LeastSubset
<1>3. PICK y \in s : SumOn(h, s) # h[y] + SumOn(h, s \ {y})
  OBVIOUS
<1>4. PICK c \in s : SumOn(h, s) = h[c] + SumOn(h, s \ {c})
  <2>1. s # {} /\ IsFiniteSet(s)
    BY <1>2
  <2>2. FirstOf(s) \in s
    BY <2>1, FirstIn
  <2> HIDE DEF Bad
  <2> QED
    BY <2>1, <2>2, SumFirst
<1>5. c # y
  BY <1>3, <1>4
<1>6. SumOn(h, s \ {c}) = h[y] + SumOn(h, (s \ {c}) \ {y})
  BY <1>2, <1>5
<1>7. SumOn(h, s \ {y}) = h[c] + SumOn(h, (s \ {y}) \ {c})
  BY <1>2, <1>5
<1>8. (s \ {c}) \ {y} = (s \ {y}) \ {c}
  OBVIOUS
<1>9. SumOn(h, (s \ {c}) \ {y}) \in Int /\ h[c] \in Int /\ h[y] \in Int
  <2>1. (s \ {c}) \ {y} \subseteq s /\ c \in S /\ y \in S
    OBVIOUS
  <2>2. IsFiniteSet((s \ {c}) \ {y})
    BY <1>2, <2>1, FS_Subset
  <2>3. \A z \in (s \ {c}) \ {y} : h[z] \in Int
    OBVIOUS
  <2> QED
    BY <2>1, <2>2, <2>3, SumType
<1>10. PICK a \in Int : a = SumOn(h, (s \ {c}) \ {y})
  BY <1>9
<1> HIDE DEF Bad
<1>11. SumOn(h, s \ {c}) = h[y] + a /\ SumOn(h, s \ {y}) = h[c] + a
  BY <1>6, <1>7, <1>8, <1>10
<1>12. SumOn(h, s) = h[c] + (h[y] + a) /\ SumOn(h, s) # h[y] + (h[c] + a)
  BY <1>3, <1>4, <1>11
<1> QED
  BY <1>9, <1>12

-----------------------------------------------------------------------------
\* Pointwise.
LEMMA SumLeq ==
  ASSUME NEW S, IsFiniteSet(S), NEW h, NEW k,
         \A x \in S : h[x] \in Int /\ k[x] \in Int /\ h[x] <= k[x]
  PROVE  SumOn(h, S) <= SumOn(k, S)
<1> DEFINE Q == {s \in SUBSET S : SumOn(h, s) <= SumOn(k, s)}
<1>1. {} \in Q
  BY SumEmpty
<1>2. ASSUME NEW s \in SUBSET S, NEW x \in S \ s, s \in Q
      PROVE  s \cup {x} \in Q
  <2>1. IsFiniteSet(s) /\ IsFiniteSet(s \cup {x}) /\ (s \cup {x}) \ {x} = s
    BY FS_Subset
  <2>2. SumOn(h, s \cup {x}) = h[x] + SumOn(h, s) /\ SumOn(k, s \cup {x}) = k[x] + SumOn(k, s)
    <3>1. \A y \in s \cup {x} : h[y] \in Int /\ k[y] \in Int
      OBVIOUS
    <3> QED
      BY <2>1, <3>1, SumRemove
  <2>3. SumOn(h, s) \in Int /\ SumOn(k, s) \in Int
    BY <2>1, SumType
  <2> QED
    BY <1>2, <2>2, <2>3
<1> HIDE DEF Q
<1>3. S \in Q
  BY <1>1, <1>2, SubsetInduction
<1> QED
  BY <1>3 DEF Q

LEMMA SumPlus ==
  ASSUME NEW S, IsFiniteSet(S), NEW h, NEW k, NEW l,
         \A x \in S : h[x] \in Int /\ k[x] \in Int /\ l[x] = h[x] + k[x]
  PROVE  SumOn(l, S) = SumOn(h, S) + SumOn(k, S)
<1> DEFINE Q == {s \in SUBSET S : SumOn(l, s) = SumOn(h, s) + SumOn(k, s)}
<1>1. {} \in Q
  BY SumEmpty
<1>2. ASSUME NEW s \in SUBSET S, NEW x \in S \ s, s \in Q
      PROVE  s \cup {x} \in Q
  <2>1. IsFiniteSet(s) /\ IsFiniteSet(s \cup {x}) /\ (s \cup {x}) \ {x} = s
    BY FS_Subset
  <2>2. /\ SumOn(h, s \cup {x}) = h[x] + SumOn(h, s) /\ SumOn(k, s \cup {x}) = k[x] + SumOn(k, s)
        /\ SumOn(l, s \cup {x}) = l[x] + SumOn(l, s)
    <3>1. \A y \in s \cup {x} : h[y] \in Int /\ k[y] \in Int /\ l[y] \in Int
      OBVIOUS
    <3> QED
      BY <2>1, <3>1, SumRemove
  <2>3. SumOn(h, s) \in Int /\ SumOn(k, s) \in Int
    BY <2>1, SumType
  <2> QED
    BY <1>2, <2>2, <2>3
<1> HIDE DEF Q
<1>3. S \in Q
  BY <1>1, <1>2, SubsetInduction
<1> QED
  BY <1>3 DEF Q

\* Another index set.
LEMMA SumReindexed ==
  ASSUME NEW S, IsFiniteSet(S), NEW f, \A x, y \in S : f[x] = f[y] => x = y,
         NEW h, NEW k, \A x \in S : h[x] = k[f[x]] /\ k[f[x]] \in Int
  PROVE  SumOn(h, S) = SumOn(k, {f[x] : x \in S})
<1> DEFINE Q == {s \in SUBSET S : SumOn(h, s) = SumOn(k, {f[x] : x \in s})}
<1>1. {} \in Q
  <2>1. {f[x] : x \in {}} = {}
    OBVIOUS
  <2> QED
    BY <2>1, SumEmpty
<1>2. ASSUME NEW s \in SUBSET S, NEW x \in S \ s, s \in Q
      PROVE  s \cup {x} \in Q
  <2>1. IsFiniteSet(s) /\ IsFiniteSet(s \cup {x}) /\ (s \cup {x}) \ {x} = s
    BY FS_Subset
  <2> DEFINE I == {f[y] : y \in s \cup {x}}
  <2>2. IsFiniteSet(I)
    <3> DEFINE F == [y \in s \cup {x} |-> f[y]]
    <3>2. F \in Surjection(s \cup {x}, I)
      <4>1. F \in [s \cup {x} -> I] /\ \A t \in I : \E y \in s \cup {x} : F[y] = t
        OBVIOUS
      <4> HIDE DEF F, I
      <4> QED
        BY <4>1 DEF Surjection
    <3> HIDE DEF F, I
    <3> QED
      BY <2>1, <3>2, FS_Surjection
  <2>3. f[x] \in I /\ I \ {f[x]} = {f[y] : y \in s}
    OBVIOUS
  <2>4. SumOn(h, s \cup {x}) = h[x] + SumOn(h, s)
    <3>1. \A y \in s \cup {x} : h[y] \in Int
      OBVIOUS
    <3> QED
      BY <2>1, <3>1, SumRemove
  <2>5. SumOn(k, I) = k[f[x]] + SumOn(k, I \ {f[x]})
    <3>1. \A y \in I : k[y] \in Int
      OBVIOUS
    <3> HIDE DEF I
    <3> QED
      BY <2>2, <2>3, <3>1, SumRemove
  <2> QED
    BY <1>2, <2>3, <2>4, <2>5
<1> HIDE DEF Q
<1>3. S \in Q
  BY <1>1, <1>2, SubsetInduction
<1> QED
  BY <1>3 DEF Q

\* What is not positive may be left out or added.
LEMMA SumSubset ==
  ASSUME NEW S, IsFiniteSet(S), NEW h, \A x \in S : h[x] \in Int,
         NEW T \in SUBSET S, \A x \in S \ T : h[x] <= 0
  PROVE  /\ SumOn(h, S) <= SumOn(h, T)
         /\ (\A x \in S \ T : h[x] = 0) => SumOn(h, S) = SumOn(h, T)
<1> DEFINE Q == {s \in SUBSET S : /\ SumOn(h, s) <= SumOn(h, s \cap T)
                                  /\ (\A x \in s \ T : h[x] = 0) => SumOn(h, s) = SumOn(h, s \cap T)}
<1>1. {} \in Q
  <2>1. {} \cap T = {}
    OBVIOUS
  <2> QED
    BY <2>1, SumEmpty
<1>2. ASSUME NEW s \in SUBSET S, NEW x \in S \ s, s \in Q
      PROVE  s \cup {x} \in Q
  <2>1. IsFiniteSet(s) /\ IsFiniteSet(s \cup {x}) /\ (s \cup {x}) \ {x} = s
    BY FS_Subset
  <2>2. SumOn(h, s \cup {x}) = h[x] + SumOn(h, s)
    <3>1. \A y \in s \cup {x} : h[y] \in Int
      OBVIOUS
    <3> QED
      BY <2>1, <3>1, SumRemove
  <2>3. SumOn(h, s) \in Int /\ SumOn(h, s \cap T) \in Int /\ IsFiniteSet(s \cap T)
    <3>1. IsFiniteSet(s \cap T)
      BY <2>1, FS_Subset
    <3> QED
      BY <2>1, <3>1, SumType
  <2>4. CASE x \in T
    <3>1. (s \cup {x}) \cap T = (s \cap T) \cup {x} /\ ((s \cap T) \cup {x}) \ {x} = s \cap T
      BY <2>4
    <3>2. SumOn(h, (s \cap T) \cup {x}) = h[x] + SumOn(h, s \cap T)
      <4>1. IsFiniteSet((s \cap T) \cup {x}) /\ \A y \in (s \cap T) \cup {x} : h[y] \in Int
        BY <2>1, <3>1, FS_Subset
      <4> QED
        BY <3>1, <4>1, SumRemove
    <3> QED
      BY <1>2, <2>2, <2>3, <3>1, <3>2
  <2>5. CASE x \notin T
    <3>1. (s \cup {x}) \cap T = s \cap T /\ h[x] <= 0 /\ h[x] \in Int
      BY <2>5
    <3> QED
      BY <1>2, <2>2, <2>3, <2>5, <3>1
  <2> QED
    BY <2>4, <2>5
<1> HIDE DEF Q
<1>3. S \in Q
  BY <1>1, <1>2, SubsetInduction
<1>4. S \cap T = T
  OBVIOUS
<1> QED
  BY <1>3, <1>4 DEF Q

\* Functions that differ at two elements only: so do their sums.
LEMMA SumChanged ==
  ASSUME NEW S, IsFiniteSet(S), NEW x \in S, NEW z \in S,
         NEW h, NEW k, \A y \in S : h[y] \in Int /\ k[y] \in Int,
         \A y \in S \ {x, z} : h[y] = k[y]
  PROVE  /\ SumOn(h, S) \in Int /\ SumOn(k, S) \in Int
         /\ x = z => SumOn(h, S) - h[x] = SumOn(k, S) - k[x]
         /\ x # z => SumOn(h, S) - h[x] - h[z] = SumOn(k, S) - k[x] - k[z]
<1> DEFINE T == S \ {x}
           R == T \ {z}
<1>1. IsFiniteSet(T) /\ IsFiniteSet(R)
  BY FS_Subset
<1>2. R = S \ {x, z} /\ (x # z => z \in T) /\ (x = z => R = T) /\ T \subseteq S /\ R \subseteq S
  OBVIOUS
<1>3. SumOn(h, S) = h[x] + SumOn(h, T) /\ SumOn(k, S) = k[x] + SumOn(k, T)
  BY SumRemove
<1>4. \A y \in R : h[y] = k[y]
  OBVIOUS
<1> HIDE DEF T, R
<1>5. SumOn(h, R) = SumOn(k, R)
  BY <1>1, <1>4, SumCongruent
<1>6. /\ SumOn(h, S) \in Int /\ SumOn(h, T) \in Int /\ SumOn(h, R) \in Int
      /\ SumOn(k, S) \in Int /\ SumOn(k, T) \in Int /\ SumOn(k, R) \in Int
  <2>1. (\A y \in T : h[y] \in Int /\ k[y] \in Int) /\ (\A y \in R : h[y] \in Int /\ k[y] \in Int)
    BY <1>2
  <2> QED
    BY <1>1, <2>1, SumType
<1>7. CASE x = z
  <2>1. SumOn(h, T) = SumOn(k, T)
    BY <1>2, <1>5, <1>7
  <2>2. h[x] \in Int /\ k[x] \in Int
    OBVIOUS
  <2> QED
    BY <1>3, <1>6, <1>7, <2>1, <2>2
<1>8. CASE x # z
  <2>1. SumOn(h, T) = h[z] + SumOn(h, R) /\ SumOn(k, T) = k[z] + SumOn(k, R)
    <3>1. \A y \in T : h[y] \in Int /\ k[y] \in Int
      BY <1>2
    <3> QED
      BY <1>1, <1>2, <1>8, <3>1, SumRemove DEF R
  <2> QED
    BY <1>3, <1>5, <1>6, <1>8, <2>1
<1> QED
  BY <1>7, <1>8

\* Natural numbers add up to one, and a part of them to no more.
LEMMA SumNat ==
  ASSUME NEW S, IsFiniteSet(S), NEW h, \A x \in S : h[x] \in Nat
  PROVE  SumOn(h, S) \in Nat /\ \A T \in SUBSET S : SumOn(h, T) <= SumOn(h, S)
<1> DEFINE Q == {s \in SUBSET S : /\ SumOn(h, s) \in Nat
                                  /\ \A T \in SUBSET S : SumOn(h, T \cap s) <= SumOn(h, s)}
<1>1. {} \in Q
  <2>1. \A T : T \cap {} = {}
    OBVIOUS
  <2>2. SumOn(h, {}) = 0
    BY SumEmpty
  <2>3. \A T \in SUBSET S : SumOn(h, T \cap {}) <= SumOn(h, {})
    BY <2>1, <2>2
  <2> QED
    BY <2>2, <2>3
<1>2. ASSUME NEW s \in SUBSET S, NEW x \in S \ s, s \in Q
      PROVE  s \cup {x} \in Q
  <2>1. IsFiniteSet(s) /\ IsFiniteSet(s \cup {x}) /\ (s \cup {x}) \ {x} = s
    BY FS_Subset
  <2>2. \A T \in SUBSET S : x \in T => SumOn(h, T \cap (s \cup {x})) = h[x] + SumOn(h, T \cap s)
    <3> SUFFICES ASSUME NEW T \in SUBSET S, x \in T
                 PROVE  SumOn(h, T \cap (s \cup {x})) = h[x] + SumOn(h, T \cap s)
      OBVIOUS
    <3>1. /\ IsFiniteSet(T \cap (s \cup {x})) /\ x \in T \cap (s \cup {x})
          /\ (T \cap (s \cup {x})) \ {x} = T \cap s
      BY <2>1, FS_Subset
    <3>2. \A y \in T \cap (s \cup {x}) : h[y] \in Int
      OBVIOUS
    <3> QED
      BY <3>1, <3>2, SumRemove
  <2>3. \A T \in SUBSET S : x \notin T => T \cap (s \cup {x}) = T \cap s
    OBVIOUS
  <2>4. SumOn(h, s \cup {x}) = h[x] + SumOn(h, s)
    <3>1. \A y \in s \cup {x} : h[y] \in Int
      OBVIOUS
    <3> QED
      BY <2>1, <3>1, SumRemove
  <2>5. \A T \in SUBSET S : SumOn(h, T \cap s) \in Int
    <3> SUFFICES ASSUME NEW T \in SUBSET S PROVE SumOn(h, T \cap s) \in Int
      OBVIOUS
    <3>1. IsFiniteSet(T \cap s) /\ \A y \in T \cap s : h[y] \in Int
      BY <2>1, FS_Subset
    <3> QED
      BY <3>1, SumType
  <2>6. h[x] \in Nat /\ SumOn(h, s) \in Nat /\ \A T \in SUBSET S : SumOn(h, T \cap s) <= SumOn(h, s)
    BY <1>2
  <2>7. \A T \in SUBSET S : SumOn(h, T \cap (s \cup {x})) <= SumOn(h, s \cup {x})
    <3> SUFFICES ASSUME NEW T \in SUBSET S
                 PROVE  SumOn(h, T \cap (s \cup {x})) <= SumOn(h, s \cup {x})
      OBVIOUS
    <3>1. SumOn(h, T \cap s) \in Int /\ SumOn(h, T \cap s) <= SumOn(h, s)
      BY <2>5, <2>6
    <3>2. CASE x \in T
      BY <2>2, <2>4, <2>6, <3>1, <3>2
    <3>3. CASE x \notin T
      BY <2>3, <2>4, <2>6, <3>1, <3>3
    <3> QED
      BY <3>2, <3>3
  <2> QED
    BY <2>4, <2>6, <2>7
<1> HIDE DEF Q
<1>3. S \in Q
  BY <1>1, <1>2, SubsetInduction
<1>4. \A T \in SUBSET S : T \cap S = T
  OBVIOUS
<1> QED
  BY <1>3, <1>4 DEF Q

Column(m, R, c) == [r \in R |-> m[r][c]]

\* A table adds up to the same by rows and by columns.
LEMMA SumSwap ==
  ASSUME NEW R, IsFiniteSet(R), NEW C, IsFiniteSet(C), NEW m, \A r \in R, c \in C : m[r][c] \in Int,
         NEW row, \A r \in R : row[r] = SumOn(m[r], C),
         NEW col, \A c \in C : col[c] = SumOn(Column(m, R, c), R)
  PROVE  SumOn(row, R) = SumOn(col, C)
<1> DEFINE part == [T \in SUBSET R |-> [c \in C |-> SumOn(Column(m, R, c), T)]]
<1>0. \A T \in SUBSET R : \A c \in C : part[T][c] = SumOn(Column(m, R, c), T)
  OBVIOUS
<1> HIDE DEF part
<1> DEFINE Q == {s \in SUBSET R : SumOn(row, s) = SumOn(part[s], C)}
<1>1. {} \in Q
  <2> DEFINE zero == [c \in C |-> 0]
  <2>1. \A c \in C : part[{}][c] = zero[c]
    BY <1>0, SumEmpty
  <2>2. SumOn(part[{}], C) = SumOn(zero, C)
    <3> HIDE DEF zero
    <3> QED
      BY <2>1, SumCongruent
  <2>3. SumOn(zero, C) = SumOn(zero, {})
    <3>1. \A c \in C : zero[c] \in Int /\ zero[c] <= 0
      OBVIOUS
    <3>2. {} \in SUBSET C /\ \A c \in C \ {} : zero[c] = 0 /\ zero[c] <= 0
      OBVIOUS
    <3> HIDE DEF zero
    <3> QED
      BY <3>1, <3>2, SumSubset
  <2> QED
    BY <2>2, <2>3, SumEmpty
<1>2. ASSUME NEW s \in SUBSET R, NEW x \in R \ s, s \in Q
      PROVE  s \cup {x} \in Q
  <2>1. IsFiniteSet(s) /\ IsFiniteSet(s \cup {x}) /\ (s \cup {x}) \ {x} = s
    BY FS_Subset
  <2>2. \A r \in R : row[r] \in Int
    BY SumType
  <2>3. SumOn(row, s \cup {x}) = row[x] + SumOn(row, s)
    <3> DEFINE T == s \cup {x}
    <3>1. IsFiniteSet(T) /\ x \in T /\ T \ {x} = s /\ \A y \in T : row[y] \in Int
      BY <2>1, <2>2
    <3> HIDE DEF T
    <3>2. SumOn(row, T) = row[x] + SumOn(row, T \ {x})
      BY <3>1, SumRemove
    <3> QED
      BY <3>1, <3>2 DEF T
  <2>4. \A c \in C : /\ m[x][c] \in Int /\ part[s][c] \in Int
                     /\ part[s \cup {x}][c] = m[x][c] + part[s][c]
    <3> SUFFICES ASSUME NEW c \in C
                 PROVE  /\ m[x][c] \in Int /\ part[s][c] \in Int
                        /\ part[s \cup {x}][c] = m[x][c] + part[s][c]
      OBVIOUS
    <3> DEFINE h == Column(m, R, c)
    <3>1. \A y \in s \cup {x} : h[y] \in Int
      BY DEF Column
    <3>2. h[x] = m[x][c]
      BY DEF Column
    <3>3. part[s][c] = SumOn(h, s) /\ part[s \cup {x}][c] = SumOn(h, s \cup {x})
      BY <1>0, Zenon
    <3> HIDE DEF h
    <3>4. SumOn(h, s \cup {x}) = h[x] + SumOn(h, s)
      BY <2>1, <3>1, SumRemove
    <3>5. SumOn(h, s) \in Int
      BY <2>1, <3>1, SumType
    <3> QED
      BY <3>2, <3>3, <3>4, <3>5
  <2>5. SumOn(part[s \cup {x}], C) = SumOn(m[x], C) + SumOn(part[s], C)
    <3> DEFINE f == m[x]
               g == part[s]
               l == part[s \cup {x}]
    <3>1. \A c \in C : f[c] \in Int /\ g[c] \in Int /\ l[c] = f[c] + g[c]
      BY <2>4
    <3> HIDE DEF f, g, l
    <3>2. SumOn(l, C) = SumOn(f, C) + SumOn(g, C)
      BY <3>1, SumPlus
    <3> QED
      BY <3>2 DEF f, g, l
  <2>6. SumOn(row, s) = SumOn(part[s], C) /\ row[x] = SumOn(m[x], C)
    BY <1>2
  <2> QED
    BY <2>3, <2>5, <2>6
<1> HIDE DEF Q
<1>3. R \in Q
  BY <1>1, <1>2, SubsetInduction
<1>4. SumOn(part[R], C) = SumOn(col, C)
  <2> DEFINE g == part[R]
  <2>1. \A c \in C : g[c] = col[c]
    BY <1>0
  <2> HIDE DEF g
  <2>2. SumOn(g, C) = SumOn(col, C)
    BY <2>1, SumCongruent
  <2> QED
    BY <2>2 DEF g
<1> QED
  BY <1>3, <1>4 DEF Q

\* What counts the same each time: as often as it counts.
LEMMA SumOfEqual ==
  ASSUME NEW S, IsFiniteSet(S), NEW v \in Int, NEW T \in SUBSET S, NEW h,
         \A x \in S : h[x] = IF x \in T THEN v ELSE 0
  PROVE  Cardinality(T) \in Nat /\ SumOn(h, S) = v * Cardinality(T)
<1> DEFINE Q == {s \in SUBSET S : Cardinality(T \cap s) \in Nat /\ SumOn(h, s) = v * Cardinality(T \cap s)}
<1>1. {} \in Q
  <2>1. T \cap {} = {} /\ Cardinality({}) = 0 /\ SumOn(h, {}) = 0
    BY FS_EmptySet, SumEmpty
  <2> QED
    BY <2>1
<1>2. ASSUME NEW s \in SUBSET S, NEW x \in S \ s, s \in Q
      PROVE  s \cup {x} \in Q
  <2>1. IsFiniteSet(s) /\ IsFiniteSet(s \cup {x}) /\ (s \cup {x}) \ {x} = s
    BY FS_Subset
  <2>2. SumOn(h, s \cup {x}) = h[x] + SumOn(h, s)
    <3>1. \A y \in s \cup {x} : h[y] \in Int
      OBVIOUS
    <3> QED
      BY <2>1, <3>1, SumRemove
  <2>3. CASE x \in T
    <3>1. T \cap (s \cup {x}) = (T \cap s) \cup {x} /\ x \notin T \cap s /\ IsFiniteSet(T \cap s)
      BY <2>1, <2>3, FS_Subset
    <3>2. Cardinality(T \cap (s \cup {x})) = Cardinality(T \cap s) + 1
      BY <3>1, FS_AddElement
    <3>3. h[x] = v
      BY <2>3
    <3> DEFINE n == Cardinality(T \cap s)
    <3>4. n \in Nat /\ SumOn(h, s) = v * n
      BY <1>2
    <3>5. SumOn(h, s \cup {x}) = v + v * n /\ Cardinality(T \cap (s \cup {x})) = n + 1
      BY <2>2, <3>2, <3>3, <3>4
    <3> HIDE DEF n
    <3>6. v * (n + 1) = v + v * n
      BY <3>4
    <3> QED
      BY <3>4, <3>5, <3>6
  <2>4. CASE x \notin T
    <3>1. T \cap (s \cup {x}) = T \cap s /\ h[x] = 0
      BY <2>4
    <3> DEFINE n == Cardinality(T \cap s)
    <3>2. n \in Nat /\ SumOn(h, s) = v * n /\ Cardinality(T \cap (s \cup {x})) = n
      BY <1>2, <3>1
    <3> HIDE DEF n
    <3>3. v * n \in Int
      BY <3>2
    <3>4. SumOn(h, s \cup {x}) = 0 + v * n
      BY <2>2, <3>1, <3>2
    <3> QED
      BY <3>2, <3>3, <3>4
  <2> QED
    BY <2>3, <2>4
<1> HIDE DEF Q
<1>3. S \in Q
  BY <1>1, <1>2, SubsetInduction
<1>4. T \cap S = T
  OBVIOUS
<1> QED
  BY <1>3, <1>4 DEF Q

-----------------------------------------------------------------------------
(* Counting.                                                               *)

\* The members of a set of numbers by how many smaller ones it has: no two have as many.
LEMMA Ranked ==
  ASSUME NEW n \in Nat, NEW F \in SUBSET (0 .. n)
  PROVE  /\ IsFiniteSet(F)
         /\ \A a \in F : IsFiniteSet({b \in F : b < a}) /\ Cardinality({b \in F : b < a}) \in Nat
         /\ \A a \in F : Cardinality({b \in F : b < a}) < Cardinality(F)
         /\ \A a, b \in F : Cardinality({c \in F : c < a}) = Cardinality({c \in F : c < b}) => a = b
<1> DEFINE below(a) == {b \in F : b < a}
<1>1. IsFiniteSet(F)
  <2> DEFINE I == 0 .. n
  <2>1. IsFiniteSet(I) /\ F \subseteq I
    BY FS_Interval
  <2> HIDE DEF I
  <2> QED
    BY <2>1, FS_Subset
<1>2. \A a \in F : IsFiniteSet(below(a)) /\ Cardinality(below(a)) \in Nat
  <2>1. \A a \in F : below(a) \subseteq F
    OBVIOUS
  <2> HIDE DEF below
  <2> QED
    BY <1>1, <2>1, FS_Subset, FS_CardinalityType
<1>3. ASSUME NEW a \in F, NEW b \in F, a < b
      PROVE  Cardinality(below(a)) < Cardinality(below(b))
  <2>1. below(a) \cup {a} \subseteq below(b) /\ a \notin below(a)
    <3>1. \A c \in F : c \in Nat
      OBVIOUS
    <3>2. a \in Nat /\ b \in Nat /\ a \in F /\ a < b /\ ~ (a < a)
      BY <1>3, <3>1
    <3>3. \A c \in F : c < a => c < b
      BY <3>1, <3>2
    <3> QED
      BY <3>2, <3>3, Zenon
  <2>2. Cardinality(below(a) \cup {a}) = Cardinality(below(a)) + 1
    <3> HIDE DEF below
    <3> QED
      BY <1>2, <2>1, FS_AddElement
  <2>3. Cardinality(below(a) \cup {a}) <= Cardinality(below(b))
    <3> HIDE DEF below
    <3> QED
      BY <1>2, <2>1, FS_Subset
  <2> HIDE DEF below
  <2> QED
    BY <1>2, <2>2, <2>3
<1>4. ASSUME NEW a \in F, NEW b \in F, Cardinality(below(a)) = Cardinality(below(b)), a # b
      PROVE  FALSE
  <2>1. a \in Nat /\ b \in Nat
    OBVIOUS
  <2>2. a < b \/ b < a
    BY <1>4, <2>1
  <2> HIDE DEF below
  <2> QED
    BY <1>2, <1>3, <1>4, <2>2
<1>5. ASSUME NEW a \in F
      PROVE  Cardinality(below(a)) < Cardinality(F)
  <2>1. below(a) \subseteq F /\ a \notin below(a)
    <3>1. a \in Nat /\ ~ (a < a)
      OBVIOUS
    <3> QED
      BY <3>1, Zenon
  <2> HIDE DEF below
  <2>2. Cardinality(below(a)) <= Cardinality(F) /\ Cardinality(below(a)) # Cardinality(F)
    BY <1>1, <2>1, FS_Subset
  <2>3. Cardinality(below(a)) \in Nat /\ Cardinality(F) \in Nat
    BY <1>1, <1>2, FS_CardinalityType
  <2> QED
    BY <2>2, <2>3
<1> QED
  BY <1>1, <1>2, <1>4, <1>5

\* Of a set of agents, those with fewer than k smaller ones are at most k.
LEMMA FirstFew ==
  ASSUME NEW n \in Nat, NEW F \in SUBSET (0 .. n), NEW k \in Nat
  PROVE  LET few == {a \in F : Cardinality({b \in F : b < a}) < k}
         IN  IsFiniteSet(few) /\ Cardinality(few) \in Nat /\ Cardinality(few) <= k
<1> DEFINE below(a) == {b \in F : b < a}
           few == {a \in F : Cardinality(below(a)) < k}
           f == [a \in few |-> Cardinality(below(a))]
<1>1. /\ IsFiniteSet(F) /\ \A a \in F : Cardinality(below(a)) \in Nat
      /\ \A a, b \in F : Cardinality(below(a)) = Cardinality(below(b)) => a = b
  BY Ranked
<1>2. few \subseteq F
  OBVIOUS
<1>3. \A a \in few : f[a] = Cardinality(below(a)) /\ f[a] \in 0 .. k - 1
  BY <1>1
<1>4. IsFiniteSet(few) /\ Cardinality(few) \in Nat
  <2> HIDE DEF few
  <2> QED
    BY <1>1, <1>2, FS_Subset, FS_CardinalityType
<1>5. f \in Injection(few, 0 .. k - 1)
  <2>1. DOMAIN f = few /\ f \in [few -> 0 .. k - 1]
    BY <1>3
  <2> HIDE DEF few, f, below
  <2> QED
    BY <1>1, <1>2, <1>3, <2>1 DEF Injection, IsInjective
<1>6. Cardinality(few) <= k
  <2> DEFINE I == 0 .. k - 1
  <2>1. k - 1 \in Int /\ 0 \in Int
    OBVIOUS
  <2>2. IsFiniteSet(I) /\ Cardinality(I) = IF 0 > k - 1 THEN 0 ELSE (k - 1) - 0 + 1
    BY <2>1, FS_Interval
  <2>3. Cardinality(I) = k
    BY <2>2
  <2>4. f \in Injection(few, I)
    BY <1>5
  <2> HIDE DEF few, f, I
  <2> QED
    BY <2>2, <2>3, <2>4, FS_Injection
<1> QED
  BY <1>4, <1>6

\* Somebody has exactly so many smaller ones.
LEMMA NthMember ==
  ASSUME NEW n \in Nat, NEW F \in SUBSET (0 .. n), NEW i \in 0 .. Cardinality(F) - 1
  PROVE  \E a \in F : Cardinality({b \in F : b < a}) = i
<1> DEFINE below(a) == {b \in F : b < a}
           size == Cardinality(F)
           I == 0 .. size - 1
           f == [a \in F |-> Cardinality(below(a))]
<1>1. /\ IsFiniteSet(F)
      /\ \A a \in F : Cardinality(below(a)) \in Nat /\ Cardinality(below(a)) < size
      /\ \A a, b \in F : Cardinality(below(a)) = Cardinality(below(b)) => a = b
  BY Ranked
<1>2. size \in Nat
  BY <1>1, FS_CardinalityType
<1> HIDE DEF size, below
<1>3. \A a \in F : f[a] = Cardinality(below(a)) /\ f[a] \in I
  BY <1>1, <1>2
<1>4. f \in Injection(F, I)
  <2>1. DOMAIN f = F /\ f \in [F -> I]
    BY <1>3
  <2> HIDE DEF f, I
  <2> QED
    BY <1>1, <1>3, <2>1 DEF Injection, IsInjective
<1>5. IsFiniteSet(I) /\ Cardinality(I) = size
  <2>1. size - 1 \in Int /\ 0 \in Int
    BY <1>2
  <2>2. IsFiniteSet(I) /\ Cardinality(I) = IF 0 > size - 1 THEN 0 ELSE (size - 1) - 0 + 1
    BY <2>1, FS_Interval
  <2> QED
    BY <1>2, <2>2
<1>6. i \in I
  BY DEF size
<1> HIDE DEF f, I
<1>7. f \in Surjection(F, I)
  BY <1>4, <1>5, FS_Injection DEF size
<1> QED
  BY <1>3, <1>6, <1>7 DEF Surjection, below

\* Two sets without a common member.
LEMMA TwoParts ==
  ASSUME NEW S, NEW T, IsFiniteSet(S), IsFiniteSet(T), S \cap T = {}
  PROVE  Cardinality(S \cup T) = Cardinality(S) + Cardinality(T)
<1>1. Cardinality(S \cup T) = Cardinality(S) + Cardinality(T) - Cardinality(S \cap T)
  BY FS_Union
<1>2. Cardinality(S \cap T) = 0 /\ Cardinality(S) \in Nat /\ Cardinality(T) \in Nat
  BY FS_EmptySet, FS_CardinalityType
<1> QED
  BY <1>1, <1>2

\* A set that is not larger fits into another.
LEMMA RoomForAll ==
  ASSUME NEW S, NEW T, IsFiniteSet(S), IsFiniteSet(T), Cardinality(S) <= Cardinality(T)
  PROVE  \E h \in Injection(S, T) : TRUE
<1> DEFINE m == Cardinality(S)
           n == Cardinality(T)
<1>1. m \in Nat /\ n \in Nat /\ m <= n
  BY FS_CardinalityType
<1>2. PICK f : f \in Bijection(1 .. m, S)
  BY FS_CardinalityType DEF ExistsBijection
<1>3. PICK g : g \in Bijection(1 .. n, T)
  BY FS_CardinalityType DEF ExistsBijection
<1> HIDE DEF m, n
<1> DEFINE place == [x \in S |-> CHOOSE i \in 1 .. m : f[i] = x]
           h == [x \in S |-> g[place[x]]]
<1>4. \A x \in S : \E i \in 1 .. m : f[i] = x
  BY <1>2 DEF Bijection, Surjection
<1>5. \A x \in S : place[x] \in 1 .. m /\ f[place[x]] = x
  BY <1>4
<1>6. \A i \in 1 .. m : i \in 1 .. n
  BY <1>1
<1>7. \A i \in 1 .. n : g[i] \in T
  BY <1>3 DEF Bijection, Injection
<1>8. \A i, j \in 1 .. n : g[i] = g[j] => i = j
  BY <1>3 DEF Bijection, Injection, IsInjective
<1>9. \A x \in S : h[x] = g[place[x]] /\ h[x] \in T
  BY <1>5, <1>6, <1>7
<1>10. \A x, y \in S : h[x] = h[y] => x = y
  <2> HIDE DEF place, h
  <2> SUFFICES ASSUME NEW x \in S, NEW y \in S, h[x] = h[y] PROVE x = y
    OBVIOUS
  <2>1. place[x] = place[y]
    BY <1>5, <1>6, <1>8, <1>9
  <2> QED
    BY <1>5, <2>1
<1>11. h \in [S -> T] /\ DOMAIN h = S
  BY <1>9
<1> QED
  <2> HIDE DEF h, place
  <2> QED
    BY <1>10, <1>11 DEF Injection, IsInjective

\* When as many are chosen as the smaller of two sets has members, all of one set are used.
LEMMA UsedUp ==
  ASSUME NEW S, NEW T, IsFiniteSet(S), IsFiniteSet(T), NEW chosen \in SUBSET S,
         Cardinality(chosen) = Cardinality(S) \/ Cardinality(chosen) = Cardinality(T),
         NEW f \in Injection(chosen, T)
  PROVE  chosen = S \/ \A t \in T : \E a \in chosen : f[a] = t
<1>1. CASE Cardinality(chosen) = Cardinality(S)
  BY <1>1, FS_Subset
<1>2. CASE Cardinality(chosen) = Cardinality(T)
  <2>1. f \in Surjection(chosen, T)
    BY <1>2, FS_Injection
  <2> QED
    BY <2>1 DEF Surjection
<1> QED
  BY <1>1, <1>2

-----------------------------------------------------------------------------
(* Linearised locations: row * cols + column.                              *)

\* Quotient and remainder, as the code uses them for row and column.
LEMMA DivMod ==
  ASSUME NEW c \in Nat, NEW cols \in Nat \ {0}
  PROVE  /\ c \div cols \in Nat /\ c % cols \in 0 .. cols - 1
         /\ c = cols * (c \div cols) + (c % cols)
  OBVIOUS

\* Quotient and remainder are the only such numbers.
LEMMA DivModUnique ==
  ASSUME NEW d \in Nat, NEW cols \in Nat \ {0}, NEW q \in Int, NEW r \in 0 .. cols - 1,
         d = cols * q + r
  PROVE  d \div cols = q /\ d % cols = r
  BY SMT

\* Row and column distance, on a map of this width.
Magnitude(n) == IF n < 0 THEN -n ELSE n

CellDistance(c, d, cols) ==
  Magnitude((c \div cols) - (d \div cols)) + Magnitude((c % cols) - (d % cols))

\* One step to the east stays in the row, or is as long as the map is wide.
LEMMA StepEast ==
  ASSUME NEW c \in Nat, NEW d \in Nat, NEW cols \in Nat \ {0}, d = c + 1, cols > 1
  PROVE  /\ CellDistance(c, d, cols) <= 1 <=> d \div cols = c \div cols /\ d % cols = (c % cols) + 1
         /\ CellDistance(d, c, cols) = CellDistance(c, d, cols)
<1> DEFINE q == c \div cols
           r == c % cols
           q2 == d \div cols
           r2 == d % cols
<1>1. q \in Nat /\ r \in 0 .. cols - 1 /\ c = cols * q + r /\ c \in Nat /\ d \in Nat
  BY DivMod
<1>2. cols \in Nat \ {0}
  OBVIOUS
<1>3. CellDistance(c, d, cols) = Magnitude(q - q2) + Magnitude(r - r2) /\ CellDistance(d, c, cols) = Magnitude(q2 - q) + Magnitude(r2 - r)
  BY DEF CellDistance
<1>4. \/ q2 = q /\ r2 = r + 1
      \/ q2 = q + 1 /\ r2 = 0 /\ r + 1 = cols
  <2>1. CASE r + 1 < cols
    <3>1. d = cols * q + (r + 1) /\ r + 1 \in 0 .. cols - 1
      BY <1>1, <1>2, <2>1
    <3> HIDE DEF q, r
    <3>2. q \in Int /\ d \in Nat
      BY <1>1
    <3>3. d \div cols = q /\ d % cols = r + 1
      BY <3>1, <3>2, DivModUnique
    <3> QED
      BY <3>3
  <2>2. CASE r + 1 = cols
    <3> HIDE DEF q, r
    <3>1. d = cols * (q + 1) + 0
      BY <1>1, <1>2, <2>2
    <3>2. q + 1 \in Int /\ 0 \in 0 .. cols - 1 /\ d \in Nat
      BY <1>1, <1>2
    <3>3. d \div cols = q + 1 /\ d % cols = 0
      BY <3>1, <3>2, DivModUnique
    <3> QED
      BY <2>2, <3>3
  <2> QED
    BY <1>1, <1>2, <2>1, <2>2
<1>5. (CellDistance(c, d, cols) <= 1 <=> q2 = q /\ r2 = r + 1) /\ CellDistance(d, c, cols) = CellDistance(c, d, cols)
  <2> HIDE DEF q, r, q2, r2
  <2>1. q \in Nat /\ r \in Nat /\ q2 \in Nat /\ r2 \in Nat
    BY <1>1, <1>2, <1>4
  <2>2. CASE q2 = q /\ r2 = r + 1
    BY <1>3, <2>1, <2>2 DEF Magnitude
  <2>3. CASE q2 = q + 1 /\ r2 = 0 /\ r + 1 = cols
    BY <1>3, <2>1, <2>3 DEF Magnitude
  <2> QED
    BY <1>4, <2>2, <2>3
<1> QED
  BY <1>5

\* A step of one row changes the row only.
LEMMA StepSouth ==
  ASSUME NEW c \in Nat, NEW d \in Nat, NEW cols \in Nat \ {0}, d = c + cols
  PROVE  /\ d \div cols = (c \div cols) + 1 /\ d % cols = c % cols
         /\ CellDistance(c, d, cols) = 1 /\ CellDistance(d, c, cols) = 1
<1> DEFINE q == c \div cols
           r == c % cols
           q2 == d \div cols
           r2 == d % cols
<1>1. q \in Nat /\ r \in 0 .. cols - 1 /\ c = cols * q + r /\ c \in Nat /\ d \in Nat
  BY DivMod
<1>2. cols \in Nat \ {0}
  OBVIOUS
<1>3. d = cols * (q + 1) + r
  BY <1>1, <1>2
<1>4. q2 = q + 1 /\ r2 = r
  <2> HIDE DEF q, r
  <2>1. q + 1 \in Int /\ r \in 0 .. cols - 1 /\ d \in Nat
    BY <1>1
  <2>2. d \div cols = q + 1 /\ d % cols = r
    BY <1>3, <2>1, DivModUnique
  <2> QED
    BY <2>2
<1>5. CellDistance(c, d, cols) = Magnitude(q - q2) + Magnitude(r - r2) /\ CellDistance(d, c, cols) = Magnitude(q2 - q) + Magnitude(r2 - r)
  BY DEF CellDistance
<1>6. CellDistance(c, d, cols) = 1 /\ CellDistance(d, c, cols) = 1
  <2> HIDE DEF q, r, q2, r2
  <2> QED
    BY <1>1, <1>2, <1>4, <1>5 DEF Magnitude
<1> QED
  BY <1>4, <1>6

\* A location is at distance 0 from itself and from no other.
LEMMA DistanceZero ==
  ASSUME NEW c \in Nat, NEW d \in Nat, NEW cols \in Nat \ {0}
  PROVE  CellDistance(c, d, cols) \in Nat /\ (CellDistance(c, d, cols) = 0 <=> c = d)
<1>1. /\ c \div cols \in Nat /\ c % cols \in Nat
      /\ c = cols * (c \div cols) + (c % cols)
  BY DivMod
<1>2. /\ d \div cols \in Nat /\ d % cols \in Nat
      /\ d = cols * (d \div cols) + (d % cols)
  BY DivMod
<1> QED
  BY <1>1, <1>2 DEF CellDistance, Magnitude

\* A location that is not in the last column and the one after it are in one row.
LEMMA StepInRow ==
  ASSUME NEW c \in Nat, NEW d \in Nat, NEW cols \in Nat \ {0}, d = c + 1, c % cols < cols - 1
  PROVE  CellDistance(c, d, cols) = 1 /\ CellDistance(d, c, cols) = 1
<1> DEFINE q == c \div cols
           r == c % cols
           q2 == d \div cols
           r2 == d % cols
<1>1. q \in Nat /\ r \in 0 .. cols - 1 /\ c = cols * q + r /\ c \in Nat /\ d \in Nat
  BY DivMod
<1>2. cols \in Nat \ {0} /\ r < cols - 1
  OBVIOUS
<1>3. CellDistance(c, d, cols) = Magnitude(q - q2) + Magnitude(r - r2) /\ CellDistance(d, c, cols) = Magnitude(q2 - q) + Magnitude(r2 - r)
  BY DEF CellDistance
<1>4. d = cols * q + (r + 1)
  BY <1>1, <1>2
<1>5. q2 = q /\ r2 = r + 1
  <2> HIDE DEF q, r
  <2>1. q \in Int /\ r + 1 \in 0 .. cols - 1 /\ d \in Nat
    BY <1>1, <1>2
  <2>2. d \div cols = q /\ d % cols = r + 1
    BY <1>4, <2>1, DivModUnique
  <2> QED
    BY <2>2
<1> HIDE DEF q, r, q2, r2
<1> QED
  BY <1>1, <1>2, <1>3, <1>5 DEF Magnitude

\* Going back: a location that is not in the first column follows one that is not in the last.
LEMMA StepBack ==
  ASSUME NEW c \in Nat, NEW d \in Nat, NEW cols \in Nat \ {0}, d = c - 1, c % cols > 0
  PROVE  d % cols < cols - 1
<1> DEFINE q == c \div cols
           r == c % cols
           t == r - 1
<1>1. q \in Nat /\ r \in 0 .. cols - 1 /\ c = cols * q + r /\ c \in Nat /\ d \in Nat
  BY DivMod
<1>2. cols \in Nat \ {0} /\ r > 0
  OBVIOUS
<1>3. d = cols * q + t
  BY <1>1, <1>2
<1>4. q \in Int /\ t \in 0 .. cols - 1 /\ d \in Nat /\ t < cols - 1
  BY <1>1, <1>2
<1> HIDE DEF q, r, t
<1>5. d % cols = t
  BY <1>3, <1>4, DivModUnique
<1> QED
  BY <1>4, <1>5

-----------------------------------------------------------------------------
(* Recursion on the numbers.                                               *)

\* Induction up to a bound: the numbers in Q are all of them.
LEMMA NatUpTo ==
  ASSUME NEW n \in Nat, NEW Q, 0 \in Q, \A k \in 1 .. n : k - 1 \in Q => k \in Q
  PROVE  \A k \in 0 .. n : k \in Q
<1> DEFINE Bad == {k \in 0 .. n : k \notin Q}
<1>1. SUFFICES ASSUME Bad # {} PROVE FALSE
  OBVIOUS
<1>2. PICK k \in Bad : \A j \in Bad : k <= j
  <2>1. Bad \in SUBSET Nat
    OBVIOUS
  <2> HIDE DEF Bad
  <2> QED
    BY <1>1, <2>1, LeastNat
<1>3. k \in 0 .. n /\ k \notin Q /\ k # 0
  BY <1>2
<1>4. k - 1 \in 0 .. n /\ k \in 1 .. n /\ ~ (k <= k - 1)
  BY <1>3
<1>5. k - 1 \in Q
  <2>1. k - 1 \notin Bad
    <3> HIDE DEF Bad
    <3> QED
      BY <1>2, <1>4
  <2> QED
    BY <1>4, <2>1
<1> QED
  BY <1>3, <1>4, <1>5

\* How a recursion goes on.
Continues(F, n, S) == F \in [1 .. n -> [S -> S]]

\* The function that begins with b and goes on with F.
Unfolds(f, n, S, b, F) ==
  /\ f \in [0 .. n -> S]
  /\ f[0] = b
  /\ \A k \in 1 .. n : f[k] = F[k][f[k - 1]]

\* There is a function that begins with b and goes on with F.
LEMMA Recursion ==
  ASSUME NEW n \in Nat, NEW S, NEW b \in S, NEW F, Continues(F, n, S)
  PROVE  \E f : Unfolds(f, n, S, b, F)
<1> DEFINE Good(m) == \E f \in [0 .. m -> S] : f[0] = b /\ \A k \in 1 .. m : f[k] = F[k][f[k - 1]]
           Q == {m \in 0 .. n : Good(m)}
<1>1. 0 \in Q
  <2> DEFINE f == [k \in 0 .. 0 |-> b]
  <2>1. f \in [0 .. 0 -> S] /\ f[0] = b /\ \A k \in 1 .. 0 : f[k] = F[k][f[k - 1]]
    OBVIOUS
  <2> HIDE DEF f
  <2>2. Good(0)
    BY <2>1
  <2> QED
    BY <2>2
<1>2. ASSUME NEW m \in 1 .. n, m - 1 \in Q
      PROVE  m \in Q
  <2>1. PICK f \in [0 .. m - 1 -> S] : f[0] = b /\ \A k \in 1 .. m - 1 : f[k] = F[k][f[k - 1]]
    BY <1>2
  <2> DEFINE g == [k \in 0 .. m |-> IF k = m THEN F[m][f[m - 1]] ELSE f[k]]
  <2>2. f[m - 1] \in S /\ F[m][f[m - 1]] \in S
    <3>1. m - 1 \in 0 .. m - 1 /\ F[m] \in [S -> S]
      BY DEF Continues
    <3> QED
      BY <2>1, <3>1
  <2>3. \A k \in 0 .. m : k = m \/ k \in 0 .. m - 1
    OBVIOUS
  <2>4. g \in [0 .. m -> S]
    BY <2>1, <2>2, <2>3
  <2>5. g[m] = F[m][f[m - 1]] /\ \A k \in 0 .. m - 1 : g[k] = f[k]
    OBVIOUS
  <2> HIDE DEF g
  <2>6. \A k \in 1 .. m : k - 1 \in 0 .. m - 1 /\ (k = m \/ k \in 1 .. m - 1)
    OBVIOUS
  <2>7. \A k \in 1 .. m : g[k] = F[k][g[k - 1]]
    BY <2>1, <2>5, <2>6
  <2>8. g[0] = b
    BY <2>1, <2>5
  <2>9. Good(m)
    BY <2>4, <2>7, <2>8
  <2>10. m \in 0 .. n
    OBVIOUS
  <2> HIDE DEF Good
  <2> QED
    BY <2>9, <2>10
<1> HIDE DEF Q
<1>3. \A k \in 0 .. n : k \in Q
  BY <1>1, <1>2, NatUpTo
<1>4. n \in Q
  BY <1>3
<1> QED
  BY <1>4 DEF Q, Unfolds

=============================================================================
