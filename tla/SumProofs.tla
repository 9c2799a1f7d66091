----------------------------- MODULE SumProofs -----------------------------
(***************************************************************************)
(* What the proofs about amounts need to know of the community modules' sum *)
(* of a function over a finite set: it is an integer, it does not depend on *)
(* the order in which it is taken, and it changes with its terms one by one.*)
(*                                                                         *)
(* The sum is a recursive function that CHOOSEs the element to take next.   *)
(* Each lemma is proved by looking at a smallest set for which it would     *)
(* fail (SmallestSet), which takes the place of induction over finite sets. *)
(***************************************************************************)
EXTENDS Integers, FiniteSets, Functions, TLAPS, FiniteSetTheorems, WellFoundedInduction

(* A set of numbers has a least one.                                        *)
LEMMA LeastNatural ==
  ASSUME NEW T, T \subseteq Nat, T # {}
  PROVE  \E x \in T : \A y \in T : x <= y
<1> DEFINE R == OpToRel(<, Nat)
<1>1. \A x, y \in Nat : y < x => <<y, x>> \in R
  BY DEF OpToRel
<1>2. IsWellFoundedOn(R, Nat)
  BY NatLessThanWellFounded
<1> HIDE DEF R
<1>3. PICK x \in T : \A y \in T : ~ (<<y, x>> \in R)
  BY <1>2, WFMin
<1>4. \A y \in T : x \in Nat /\ y \in Nat /\ ~(y < x)
  BY <1>1, <1>3
<1> QED
  BY <1>4

(* Of some subsets of a finite set, one has none of the others strictly     *)
(* inside it.                                                               *)
LEMMA SmallestSet ==
  ASSUME NEW S, IsFiniteSet(S), NEW C, C \subseteq SUBSET S, C # {}
  PROVE  \E s \in C : \A x \in s : s \ {x} \notin C
<1> DEFINE N == {Cardinality(s) : s \in C}
<1>1. \A s \in C : IsFiniteSet(s) /\ Cardinality(s) \in Nat
  BY FS_Subset, FS_CardinalityType
<1>2. N \subseteq Nat /\ N # {}
  BY <1>1
<1>3. PICK n \in N : \A m \in N : n <= m
  <2> HIDE DEF N
  <2> QED
    BY <1>2, LeastNatural
<1>4. PICK s \in C : Cardinality(s) = n
  OBVIOUS
<1>5. ASSUME NEW x \in s, s \ {x} \in C
      PROVE  FALSE
  <2>1. Cardinality(s \ {x}) = Cardinality(s) - 1
    BY <1>1, FS_RemoveElement
  <2>2. n <= Cardinality(s \ {x}) /\ Cardinality(s) \in Nat
    BY <1>1, <1>3, <1>5
  <2> QED
    BY <1>4, <2>1, <2>2
<1> QED
  BY <1>5
-----------------------------------------------------------------------------
\* The element the sum over s takes first, and one step of the recursion.
Pick(s) == CHOOSE x \in s : TRUE
Unfolded(f, g, s) == IF s = {} THEN 0 ELSE f[Pick(s)] + g[s \ {Pick(s)}]
IsSum(g, f, S) == g = [s \in SUBSET S |-> Unfolded(f, g, s)]

LEMMA SumIsChosen ==
  ASSUME NEW f, NEW S
  PROVE  SumFunctionOnSet(f, S) = (CHOOSE g : IsSum(g, f, S))[S]
BY DEF SumFunctionOnSet, FoldFunctionOnSet, MapThenFoldSet, IsSum, Unfolded, Pick

\* A set that is not empty has an element to pick.
LEMMA Picked == ASSUME NEW s, s # {} PROVE Pick(s) \in s
BY DEF Pick

(* The recursion has a solution: solve it for the sets of at most n         *)
(* elements, for one n after the other.                                     *)
LEMMA SumExists ==
  ASSUME NEW f, NEW S, IsFiniteSet(S)
  PROVE  \E g : IsSum(g, f, S)
<1> DEFINE Solves(g, n) == \A s \in SUBSET S : Cardinality(s) <= n => g[s] = Unfolded(f, g, s)
           Unsolved == {n \in Nat : ~ \E g : g = [s \in SUBSET S |-> g[s]] /\ Solves(g, n)}
<1>1. \A s \in SUBSET S : IsFiniteSet(s) /\ Cardinality(s) \in Nat /\ Cardinality(s) <= Cardinality(S)
  BY FS_Subset, FS_CardinalityType
<1>2. Unsolved = {}
  <2> SUFFICES ASSUME Unsolved # {} PROVE FALSE
    OBVIOUS
  <2>1. PICK n \in Unsolved : \A m \in Unsolved : n <= m
    <3>1. Unsolved \subseteq Nat
      OBVIOUS
    <3> HIDE DEF Unsolved
    <3> QED
      BY <3>1, LeastNatural
  <2>2. CASE n = 0
    <3> DEFINE g == [s \in SUBSET S |-> 0]
    <3>1. \A s \in SUBSET S : Cardinality(s) <= 0 => s = {}
      BY <1>1, FS_EmptySet
    <3>2. Solves(g, 0)
      BY <3>1 DEF Unfolded
    <3>3. g = [s \in SUBSET S |-> g[s]]
      OBVIOUS
    <3> HIDE DEF g, Solves
    <3> QED
      BY <2>1, <2>2, <3>2, <3>3
  <2>3. CASE n # 0
    <3>1. n - 1 \in Nat /\ n - 1 \notin Unsolved
      <4>1. n \in Nat /\ n - 1 \in Nat /\ ~(n <= n - 1)
        BY <2>3
      <4> HIDE DEF Unsolved
      <4> QED
        BY <2>1, <4>1
    <3>2. PICK g : g = [s \in SUBSET S |-> g[s]] /\ Solves(g, n - 1)
      BY <3>1
    <3> DEFINE h == [s \in SUBSET S |-> Unfolded(f, g, s)]
    <3>3. ASSUME NEW s \in SUBSET S, Cardinality(s) <= n
          PROVE  h[s] = Unfolded(f, h, s)
      <4>1. h[s] = Unfolded(f, g, s)
        OBVIOUS
      <4>2. CASE s = {}
        BY <4>1, <4>2 DEF Unfolded
      <4>3. CASE s # {}
        <5>1. Pick(s) \in s
          BY <4>3, Picked
        <5>2. /\ s \ {Pick(s)} \in SUBSET S
              /\ Cardinality(s \ {Pick(s)}) = Cardinality(s) - 1
          BY <1>1, <5>1, FS_RemoveElement
        <5>3. Cardinality(s \ {Pick(s)}) <= n - 1
          BY <1>1, <2>1, <3>3, <5>2
        <5>4. g[s \ {Pick(s)}] = h[s \ {Pick(s)}]
          BY <3>2, <5>2, <5>3
        <5> QED
          BY <4>1, <4>3, <5>4 DEF Unfolded
      <4> QED
        BY <4>2, <4>3
    <3>4. h = [s \in SUBSET S |-> h[s]] /\ Solves(h, n)
      <4>1. h = [s \in SUBSET S |-> h[s]]
        OBVIOUS
      <4> HIDE DEF h
      <4> QED
        BY <3>3, <4>1
    <3> HIDE DEF h, Solves
    <3> QED
      BY <2>1, <3>4
  <2> QED
    BY <2>2, <2>3
<1>3. PICK g : g = [s \in SUBSET S |-> g[s]] /\ Solves(g, Cardinality(S))
  <2>1. Cardinality(S) \in Nat
    BY FS_CardinalityType
  <2> QED
    BY <1>2, <2>1
<1>4. \A s \in SUBSET S : g[s] = Unfolded(f, g, s)
  BY <1>1, <1>3
<1> QED
  BY <1>3, <1>4 DEF IsSum

(* Two solutions agree on a set on which the functions they sum agree.      *)
LEMMA SumsAgree ==
  ASSUME NEW f, NEW g, NEW S, IsFiniteSet(S), IsSum(g, f, S),
         NEW h, NEW k, NEW T, IsSum(k, h, T),
         NEW U, U \subseteq S, U \subseteq T, \A x \in U : f[x] = h[x]
  PROVE  g[U] = k[U]
<1> DEFINE C == {s \in SUBSET U : g[s] # k[s]}
<1>1. /\ \A s \in SUBSET S : g[s] = Unfolded(f, g, s)
      /\ \A s \in SUBSET T : k[s] = Unfolded(h, k, s)
  BY DEF IsSum
<1>2. C = {}
  <2> SUFFICES ASSUME C # {} PROVE FALSE
    OBVIOUS
  <2>1. IsFiniteSet(U) /\ C \subseteq SUBSET U
    BY FS_Subset
  <2>2. PICK s \in C : \A x \in s : s \ {x} \notin C
    <3> HIDE DEF C
    <3> QED
      BY <2>1, SmallestSet
  <2>3. s \in SUBSET U /\ s \in SUBSET S /\ s \in SUBSET T /\ g[s] # k[s]
    OBVIOUS
  <2>4. CASE s = {}
    BY <1>1, <2>3, <2>4 DEF Unfolded
  <2>5. CASE s # {}
    <3>1. Pick(s) \in s
      BY <2>5, Picked
    <3>2. g[s \ {Pick(s)}] = k[s \ {Pick(s)}]
      BY <2>2, <2>3, <3>1
    <3>3. f[Pick(s)] = h[Pick(s)]
      BY <2>3, <3>1
    <3> QED
      BY <1>1, <2>3, <2>5, <3>2, <3>3 DEF Unfolded
  <2> QED
    BY <2>4, <2>5
<1> QED
  BY <1>2

(* Functions that agree on a finite set have the same sum over it.          *)
LEMMA SumCongruence ==
  ASSUME NEW f, NEW h, NEW S, IsFiniteSet(S), \A x \in S : f[x] = h[x]
  PROVE  SumFunctionOnSet(f, S) = SumFunctionOnSet(h, S)
<1> DEFINE g == CHOOSE g : IsSum(g, f, S)
           k == CHOOSE k : IsSum(k, h, S)
<1>1. IsSum(g, f, S) /\ IsSum(k, h, S)
  BY SumExists
<1>2. SumFunctionOnSet(f, S) = g[S] /\ SumFunctionOnSet(h, S) = k[S]
  BY SumIsChosen
<1> HIDE DEF g, k
<1> QED
  BY <1>1, <1>2, SumsAgree

(* The sum over nothing.                                                    *)
LEMMA SumEmpty == ASSUME NEW f PROVE SumFunctionOnSet(f, {}) = 0
<1> DEFINE g == CHOOSE g : IsSum(g, f, {})
<1>1. IsSum(g, f, {})
  BY SumExists, FS_EmptySet
<1>2. SumFunctionOnSet(f, {}) = g[{}]
  BY SumIsChosen
<1> HIDE DEF g
<1> QED
  BY <1>1, <1>2 DEF IsSum, Unfolded

\* The sum takes the element it picks first.
LEMMA SumUnfolds ==
  ASSUME NEW f, NEW S, IsFiniteSet(S), S # {}
  PROVE  SumFunctionOnSet(f, S) = f[Pick(S)] + SumFunctionOnSet(f, S \ {Pick(S)})
<1> DEFINE R == S \ {Pick(S)}
           g == CHOOSE g : IsSum(g, f, S)
           k == CHOOSE k : IsSum(k, f, R)
<1>1. IsFiniteSet(R)
  BY FS_RemoveElement, FS_Subset
<1>2. IsSum(g, f, S) /\ IsSum(k, f, R)
  BY <1>1, SumExists
<1>3. SumFunctionOnSet(f, S) = g[S] /\ SumFunctionOnSet(f, R) = k[R]
  BY SumIsChosen
<1> HIDE DEF g, k
<1>4. g[R] = k[R]
  BY <1>2, SumsAgree
<1>5. g[S] = f[Pick(S)] + g[R]
  BY <1>2 DEF IsSum, Unfolded
<1> QED
  BY <1>3, <1>4, <1>5
-----------------------------------------------------------------------------
(* A sum of integers is an integer.                                         *)
LEMMA SumInt ==
  ASSUME NEW f, NEW S, IsFiniteSet(S), \A x \in S : f[x] \in Int
  PROVE  SumFunctionOnSet(f, S) \in Int
<1> DEFINE C == {s \in SUBSET S : SumFunctionOnSet(f, s) \notin Int}
<1>1. C = {}
  <2> SUFFICES ASSUME C # {} PROVE FALSE
    OBVIOUS
  <2>1. PICK s \in C : \A x \in s : s \ {x} \notin C
    <3>1. C \subseteq SUBSET S
      OBVIOUS
    <3> HIDE DEF C
    <3> QED
      BY <3>1, SmallestSet
  <2>2. s \in SUBSET S /\ IsFiniteSet(s) /\ s # {}
    <3>1. s \in SUBSET S /\ SumFunctionOnSet(f, s) # 0
      OBVIOUS
    <3>2. SumFunctionOnSet(f, {}) = 0
      BY SumEmpty
    <3> QED
      BY <3>1, <3>2, FS_Subset
  <2>3. Pick(s) \in s /\ f[Pick(s)] \in Int /\ SumFunctionOnSet(f, s \ {Pick(s)}) \in Int
    BY <2>1, <2>2, Picked
  <2> QED
    BY <2>2, <2>3, SumUnfolds
<1> QED
  BY <1>1

(* A sum of natural numbers is one.                                         *)
LEMMA SumNat ==
  ASSUME NEW f, NEW S, IsFiniteSet(S), \A x \in S : f[x] \in Nat
  PROVE  SumFunctionOnSet(f, S) \in Nat
<1> DEFINE C == {s \in SUBSET S : SumFunctionOnSet(f, s) \notin Nat}
<1>1. C = {}
  <2> SUFFICES ASSUME C # {} PROVE FALSE
    OBVIOUS
  <2>1. PICK s \in C : \A x \in s : s \ {x} \notin C
    <3>1. C \subseteq SUBSET S
      OBVIOUS
    <3> HIDE DEF C
    <3> QED
      BY <3>1, SmallestSet
  <2>2. s \in SUBSET S /\ IsFiniteSet(s) /\ s # {}
    <3>1. s \in SUBSET S /\ SumFunctionOnSet(f, s) # 0
      OBVIOUS
    <3>2. SumFunctionOnSet(f, {}) = 0
      BY SumEmpty
    <3> QED
      BY <3>1, <3>2, FS_Subset
  <2>3. Pick(s) \in s /\ f[Pick(s)] \in Nat /\ SumFunctionOnSet(f, s \ {Pick(s)}) \in Nat
    BY <2>1, <2>2, Picked
  <2> QED
    BY <2>2, <2>3, SumUnfolds
<1> QED
  BY <1>1

(* Any element of the set may be taken out first.                           *)
LEMMA SumRemove ==
  ASSUME NEW f, NEW S, IsFiniteSet(S), \A x \in S : f[x] \in Int, NEW x \in S
  PROVE  SumFunctionOnSet(f, S) = f[x] + SumFunctionOnSet(f, S \ {x})
<1> DEFINE Fails(s) == \E y \in s : SumFunctionOnSet(f, s) # f[y] + SumFunctionOnSet(f, s \ {y})
           C == {s \in SUBSET S : Fails(s)}
<1>1. C = {}
  <2> SUFFICES ASSUME C # {} PROVE FALSE
    OBVIOUS
  <2>1. PICK s \in C : \A y \in s : s \ {y} \notin C
    <3>1. C \subseteq SUBSET S
      OBVIOUS
    <3> HIDE DEF C
    <3> QED
      BY <3>1, SmallestSet
  <2>2. PICK y \in s : SumFunctionOnSet(f, s) # f[y] + SumFunctionOnSet(f, s \ {y})
    OBVIOUS
  <2> DEFINE p == Pick(s)
  <2>3. s \in SUBSET S /\ s # {} /\ p \in s
    BY <2>2, Picked
  <2>4. /\ IsFiniteSet(s) /\ IsFiniteSet(s \ {y}) /\ IsFiniteSet((s \ {y}) \ {p})
        /\ (s \ {y}) \ {p} = (s \ {p}) \ {y}
        /\ s \ {p} \in SUBSET S /\ s \ {y} \in SUBSET S
    BY <2>3, FS_Subset
  <2>5. SumFunctionOnSet(f, s) = f[p] + SumFunctionOnSet(f, s \ {p})
    BY <2>3, <2>4, SumUnfolds
  <2>6. p # y
    BY <2>2, <2>5
  <2>7. ~Fails(s \ {p}) /\ ~Fails(s \ {y})
    BY <2>1, <2>2, <2>3, <2>4
  <2> HIDE DEF p
  <2>8. SumFunctionOnSet(f, s \ {p}) = f[y] + SumFunctionOnSet(f, (s \ {p}) \ {y})
    BY <2>2, <2>6, <2>7
  <2>9. SumFunctionOnSet(f, s \ {y}) = f[p] + SumFunctionOnSet(f, (s \ {y}) \ {p})
    BY <2>3, <2>6, <2>7
  <2>10. f[p] \in Int /\ f[y] \in Int
    BY <2>2, <2>3
  <2>11. SumFunctionOnSet(f, (s \ {y}) \ {p}) \in Int
    <3>1. \A z \in (s \ {y}) \ {p} : f[z] \in Int
      BY <2>3
    <3> QED
      BY <2>4, <3>1, SumInt
  <2> QED
    BY <2>2, <2>4, <2>5, <2>8, <2>9, <2>10, <2>11
<1>2. ~Fails(S)
  <2> HIDE DEF Fails
  <2> QED
    BY <1>1
<1> QED
  BY <1>2

(* One more element.                                                        *)
LEMMA SumAdd ==
  ASSUME NEW f, NEW S, IsFiniteSet(S), NEW x, x \notin S, \A y \in S \cup {x} : f[y] \in Int
  PROVE  SumFunctionOnSet(f, S \cup {x}) = SumFunctionOnSet(f, S) + f[x]
<1>1. IsFiniteSet(S \cup {x}) /\ (S \cup {x}) \ {x} = S /\ x \in S \cup {x}
  BY FS_AddElement
<1>2. SumFunctionOnSet(f, S \cup {x}) = f[x] + SumFunctionOnSet(f, (S \cup {x}) \ {x})
  BY <1>1, SumRemove
<1>3. SumFunctionOnSet(f, S) \in Int
  BY SumInt
<1>4. f[x] \in Int
  OBVIOUS
<1>5. SumFunctionOnSet(f, S \cup {x}) = f[x] + SumFunctionOnSet(f, S)
  BY <1>1, <1>2
<1> QED
  BY <1>3, <1>4, <1>5

(* One term changes.                                                        *)
LEMMA SumChange ==
  ASSUME NEW f, NEW h, NEW S, IsFiniteSet(S), \A y \in S : f[y] \in Int /\ h[y] \in Int,
         NEW x \in S, \A y \in S : y # x => h[y] = f[y]
  PROVE  SumFunctionOnSet(h, S) = SumFunctionOnSet(f, S) + (h[x] - f[x])
<1>1. /\ SumFunctionOnSet(h, S) = h[x] + SumFunctionOnSet(h, S \ {x})
      /\ SumFunctionOnSet(f, S) = f[x] + SumFunctionOnSet(f, S \ {x})
  BY SumRemove
<1>2. IsFiniteSet(S \ {x})
  BY FS_RemoveElement
<1>3. SumFunctionOnSet(h, S \ {x}) = SumFunctionOnSet(f, S \ {x})
  BY <1>2, SumCongruence
<1>4. SumFunctionOnSet(f, S \ {x}) \in Int /\ f[x] \in Int /\ h[x] \in Int
  BY <1>2, SumInt
<1> QED
  BY <1>1, <1>3, <1>4

(* A sum of natural numbers is at least each of them.                       *)
LEMMA SumBounds ==
  ASSUME NEW f, NEW S, IsFiniteSet(S), \A y \in S : f[y] \in Nat, NEW x \in S
  PROVE  f[x] <= SumFunctionOnSet(f, S)
<1>1. SumFunctionOnSet(f, S) = f[x] + SumFunctionOnSet(f, S \ {x})
  BY SumRemove
<1>2. IsFiniteSet(S \ {x})
  BY FS_RemoveElement
<1>3. SumFunctionOnSet(f, S \ {x}) \in Nat /\ f[x] \in Nat
  BY <1>2, SumNat
<1> QED
  BY <1>1, <1>3

(* Terms that are 0 can be left out.                                        *)
LEMMA SumWithoutZeros ==
  ASSUME NEW f, NEW S, IsFiniteSet(S), \A x \in S : f[x] \in Int,
         NEW T, T \subseteq S, \A x \in S \ T : f[x] = 0
  PROVE  SumFunctionOnSet(f, S) = SumFunctionOnSet(f, T)
<1> DEFINE C == {s \in SUBSET S : T \subseteq s /\ SumFunctionOnSet(f, s) # SumFunctionOnSet(f, T)}
<1>1. C = {}
  <2> SUFFICES ASSUME C # {} PROVE FALSE
    OBVIOUS
  <2>1. PICK s \in C : \A x \in s : s \ {x} \notin C
    <3>1. C \subseteq SUBSET S
      OBVIOUS
    <3> HIDE DEF C
    <3> QED
      BY <3>1, SmallestSet
  <2>2. s \subseteq S /\ T \subseteq s /\ SumFunctionOnSet(f, s) # SumFunctionOnSet(f, T)
    BY <2>1
  <2>3. PICK x \in s : x \notin T
    BY <2>2
  <2>4. SumFunctionOnSet(f, s \ {x}) = SumFunctionOnSet(f, T)
    BY <2>1, <2>2, <2>3
  <2>5. IsFiniteSet(s) /\ IsFiniteSet(T)
    BY <2>2, FS_Subset
  <2>6. SumFunctionOnSet(f, T) \in Int
    BY <2>2, <2>5, SumInt
  <2>7. SumFunctionOnSet(f, s) = f[x] + SumFunctionOnSet(f, s \ {x})
    BY <2>2, <2>5, SumRemove
  <2> QED
    BY <2>2, <2>3, <2>4, <2>6, <2>7
<1> QED
  BY <1>1

(* Two terms change, if they are among those that are summed.               *)
LEMMA SumChanges ==
  ASSUME NEW f, NEW h, NEW S, IsFiniteSet(S), \A y \in S : f[y] \in Int /\ h[y] \in Int,
         NEW x, NEW z, x # z, \A y \in S : y # x /\ y # z => h[y] = f[y]
  PROVE  SumFunctionOnSet(h, S) = SumFunctionOnSet(f, S)
                                    + ((IF x \in S THEN h[x] - f[x] ELSE 0) + (IF z \in S THEN h[z] - f[z] ELSE 0))
<1> DEFINE g == [y \in S |-> IF y = x THEN h[y] ELSE f[y]]
<1>1. \A y \in S : g[y] = IF y = x THEN h[y] ELSE f[y]
  OBVIOUS
<1>2. \A y \in S : g[y] \in Int
  BY <1>1
<1> HIDE DEF g
<1>3. SumFunctionOnSet(f, S) \in Int
  BY SumInt
<1>4. SumFunctionOnSet(g, S) = SumFunctionOnSet(f, S) + (IF x \in S THEN h[x] - f[x] ELSE 0)
  <2>1. CASE x \in S
    <3>1. SumFunctionOnSet(g, S) = SumFunctionOnSet(f, S) + (g[x] - f[x])
      BY <1>1, <1>2, <2>1, SumChange
    <3> QED
      BY <1>1, <2>1, <3>1
  <2>2. CASE x \notin S
    <3>1. SumFunctionOnSet(g, S) = SumFunctionOnSet(f, S)
      BY <1>1, <2>2, SumCongruence
    <3> QED
      BY <1>3, <2>2, <3>1
  <2> QED
    BY <2>1, <2>2
<1>5. SumFunctionOnSet(h, S) = SumFunctionOnSet(g, S) + (IF z \in S THEN h[z] - f[z] ELSE 0)
  <2>0. SumFunctionOnSet(g, S) \in Int
    BY <1>2, SumInt
  <2>1. CASE z \in S
    <3>1. SumFunctionOnSet(h, S) = SumFunctionOnSet(g, S) + (h[z] - g[z])
      BY <1>1, <1>2, <2>1, SumChange
    <3> QED
      BY <1>1, <2>1, <3>1
  <2>2. CASE z \notin S
    <3>1. SumFunctionOnSet(h, S) = SumFunctionOnSet(g, S)
      BY <1>1, <2>2, SumCongruence
    <3> QED
      BY <2>0, <2>2, <3>1
  <2> QED
    BY <2>1, <2>2
<1>6. /\ (IF x \in S THEN h[x] - f[x] ELSE 0) \in Int
      /\ (IF z \in S THEN h[z] - f[z] ELSE 0) \in Int
  OBVIOUS
<1> QED
  BY <1>3, <1>4, <1>5, <1>6
=============================================================================
