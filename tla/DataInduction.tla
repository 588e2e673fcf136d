----------------------------- MODULE DataInduction -----------------------------
(***************************************************************************)
(* Induction over finite sets and over the naturals, and what it says of   *)
(* the sums and the folds of the community modules and of sets listed in   *)
(* an order.  The induction theorems of the library take a predicate; here *)
(* a predicate is the set of what satisfies it, so that the lemmas are     *)
(* cited like any other.                                                   *)
(***************************************************************************)
EXTENDS Integers, FiniteSetsExt, Functions, FiniteSetTheorems, WellFoundedInduction, TLAPS

(* What {} is and what another element of S leaves true, S is: a smallest  *)
(* subset of S for which it is not would have a smaller one.               *)
LEMMA FiniteInduction ==
  ASSUME NEW S, IsFiniteSet(S), NEW Good, {} \in Good,
         \A T \in SUBSET S : \A x \in S \ T : T \in Good => T \cup {x} \in Good
  PROVE  S \in Good
<1> DEFINE R == StrictSubsetOrdering(S)
           Bad == (SUBSET S) \ Good
<1>1. IsWellFoundedOn(R, SUBSET S)
  BY FS_StrictSubsetOrderingWellFounded, FS_FiniteSubsetsOfFinite
<1>2. SUFFICES ASSUME S \notin Good PROVE FALSE
  OBVIOUS
<1>3. Bad # {} /\ Bad \subseteq SUBSET S
  BY <1>2
<1>4. PICK T \in Bad : \A U \in Bad : ~(<<U, T>> \in R)
  <2> HIDE DEF Bad, R
  <2> QED
    BY <1>1, <1>3, WFMin
<1>5. PICK x \in T : TRUE
  BY <1>4
<1> DEFINE U == T \ {x}
<1>6. U \in SUBSET S /\ x \in S \ U /\ U \cup {x} = T
  BY <1>4, <1>5
<1>7. U \in Good
  <2>1. <<U, T>> \in R
    BY <1>4, <1>5 DEF StrictSubsetOrdering
  <2> QED
    BY <2>1, <1>4, <1>6
<1> QED
  BY <1>4, <1>6, <1>7

(* A subset of a finite set is finite and loses an element at a time.      *)
LEMMA Smaller ==
  ASSUME NEW S, IsFiniteSet(S), NEW T \in SUBSET S
  PROVE  /\ IsFiniteSet(T) /\ Cardinality(T) \in Nat
         /\ Cardinality(T) = 0 <=> T = {}
         /\ \A x \in T : Cardinality(T \ {x}) = Cardinality(T) - 1
         /\ \A x \in S \ T : Cardinality(T \cup {x}) = Cardinality(T) + 1
<1>1. IsFiniteSet(T)
  BY FS_Subset
<1> QED
  BY <1>1, FS_CardinalityType, FS_EmptySet, FS_RemoveElement, FS_AddElement

(* What 0 is and a successor stays, every natural number is. *)
LEMMA NatInduction0 ==
  ASSUME NEW Good, 0 \in Good, \A n \in Nat : n \in Good => n + 1 \in Good
  PROVE  Nat \subseteq Good
<1> SUFFICES ASSUME NEW n \in Nat PROVE n \in Good
  OBVIOUS
<1> DEFINE S == 1..n
           Fine == {T \in SUBSET S : Cardinality(T) \in Good}
<1>1. IsFiniteSet(S) /\ Cardinality(S) = n
  BY FS_Interval
<1>2. {} \in Fine
  BY FS_EmptySet
<1>3. ASSUME NEW T \in SUBSET S, NEW x \in S \ T, T \in Fine PROVE T \cup {x} \in Fine
  <2>1. Cardinality(T) \in Nat /\ Cardinality(T \cup {x}) = Cardinality(T) + 1
    BY <1>1, Smaller
  <2> QED
    BY <1>3, <2>1
<1>4. S \in Fine
  <2> HIDE DEF S, Fine
  <2> QED
    BY <1>1, <1>2, <1>3, FiniteInduction
<1> QED
  BY <1>1, <1>4

------------------------------------------------------------------------------
(* Sums. *)

(* The function that the fold of a sum over S defines. *)
First(f, g, s) ==
  IF s = {} THEN 0 ELSE LET x == CHOOSE y \in s : TRUE IN f[x] + g[s \ {x}]

Sums(f, S, g) == g = [s \in SUBSET S |-> First(f, g, s)]

(* There is one, built up from the subsets of less elements. *)
LEMMA SumsExist ==
  ASSUME NEW f, NEW S, IsFiniteSet(S)
  PROVE  \E g : Sums(f, S, g)
<1> DEFINE D(n) == {s \in SUBSET S : Cardinality(s) <= n}
           Up(n, g) == g = [s \in D(n) |-> First(f, g, s)]
           Good == {n \in Nat : \E g : Up(n, g)}
<1>1. 0 \in Good
  <2>1. D(0) = {{}}
    BY Smaller
  <2> DEFINE h == [s \in D(0) |-> 0]
  <2>2. Up(0, h)
    BY <2>1 DEF First
  <2> HIDE DEF h, Up
  <2> QED
    BY <2>2
<1>2. ASSUME NEW n \in Nat, n \in Good PROVE n + 1 \in Good
  <2>1. PICK g : Up(n, g)
    BY <1>2
  <2> DEFINE h == [s \in D(n + 1) |-> First(f, g, s)]
  <2>2. \A s \in D(n + 1) : s # {} => s \ {CHOOSE y \in s : TRUE} \in D(n)
    BY Smaller
  <2>3. D(n) \subseteq D(n + 1)
    BY Smaller
  <2>4. \A s \in D(n) : h[s] = g[s]
    BY <2>1, <2>3
  <2>5. ASSUME NEW s \in D(n + 1) PROVE First(f, g, s) = First(f, h, s)
    <3> HIDE DEF h, D
    <3> QED
      BY <2>2, <2>4, <2>5 DEF First
  <2>6. Up(n + 1, h)
    BY <2>5
  <2> HIDE DEF h, Up
  <2> QED
    BY <2>6
<1>3. Cardinality(S) \in Good
  <2> HIDE DEF Good
  <2> QED
    BY <1>1, <1>2, NatInduction0, FS_CardinalityType
<1>4. D(Cardinality(S)) = SUBSET S
  BY FS_Subset
<1> QED
  BY <1>3, <1>4 DEF Sums

(* There is only one, wherever the sum is part of. *)
LEMMA SumsAgree ==
  ASSUME NEW f, NEW S, IsFiniteSet(S), NEW T \in SUBSET S,
         NEW g, Sums(f, S, g), NEW h, Sums(f, T, h)
  PROVE  \A s \in SUBSET T : g[s] = h[s]
<1> DEFINE Good == {n \in Nat : \A s \in SUBSET T : Cardinality(s) = n => g[s] = h[s]}
<1>1. 0 \in Good
  BY Smaller DEF Sums, First
<1>2. ASSUME NEW n \in Nat, n \in Good PROVE n + 1 \in Good
  <2> SUFFICES ASSUME NEW s \in SUBSET T, Cardinality(s) = n + 1 PROVE g[s] = h[s]
    OBVIOUS
  <2> DEFINE x == CHOOSE y \in s : TRUE
  <2>1. s # {} /\ x \in s
    BY Smaller
  <2>2. g[s] = f[x] + g[s \ {x}] /\ h[s] = f[x] + h[s \ {x}]
    BY <2>1 DEF Sums, First
  <2> HIDE DEF x
  <2>3. s \in SUBSET S /\ s \ {x} \in SUBSET T
    OBVIOUS
  <2>4. Cardinality(s \ {x}) = n
    BY <2>1, <2>3, Smaller
  <2> QED
    BY <1>2, <2>2, <2>3, <2>4
<1>3. Nat \subseteq Good
  <2> HIDE DEF Good
  <2> QED
    BY <1>1, <1>2, NatInduction0
<1> QED
  BY <1>3, Smaller

(* The sum is that function's value at S. *)
LEMMA SumIs ==
  ASSUME NEW f, NEW S, IsFiniteSet(S)
  PROVE  \E g : Sums(f, S, g) /\ SumFunctionOnSet(f, S) = g[S]
<1> DEFINE iter == CHOOSE g : Sums(f, S, g)
<1>1. SumFunctionOnSet(f, S) = iter[S]
  BY DEF SumFunctionOnSet, FoldFunctionOnSet, MapThenFoldSet, Sums, First
<1>2. Sums(f, S, iter)
  <2> HIDE DEF Sums, First
  <2> QED
    BY SumsExist
<1> HIDE DEF iter
<1> QED
  BY <1>1, <1>2

(* The sum of nothing. *)
LEMMA SumEmpty == ASSUME NEW f PROVE SumFunctionOnSet(f, {}) = 0
<1>1. PICK g : Sums(f, {}, g) /\ SumFunctionOnSet(f, {}) = g[{}]
  BY FS_EmptySet, SumIs
<1> QED
  BY <1>1 DEF Sums, First

(* The element that is taken first. *)
LEMMA SumFirst ==
  ASSUME NEW f, NEW S, IsFiniteSet(S), S # {}
  PROVE  \E x \in S : SumFunctionOnSet(f, S) = f[x] + SumFunctionOnSet(f, S \ {x})
<1> DEFINE x == CHOOSE y \in S : TRUE
           T == S \ {x}
<1>1. x \in S /\ T \in SUBSET S /\ IsFiniteSet(T)
  BY Smaller
<1>2. PICK g : Sums(f, S, g) /\ SumFunctionOnSet(f, S) = g[S]
  BY SumIs
<1>3. PICK h : Sums(f, T, h) /\ SumFunctionOnSet(f, T) = h[T]
  BY <1>1, SumIs
<1>4. g[T] = h[T]
  <2> HIDE DEF T
  <2> QED
    BY <1>1, <1>2, <1>3, SumsAgree
<1>5. g[S] = f[x] + g[T]
  BY <1>2 DEF Sums, First
<1> QED
  BY <1>1, <1>2, <1>3, <1>4, <1>5

(* A sum of naturals is one. *)
LEMMA SumNat ==
  ASSUME NEW f, NEW S, IsFiniteSet(S), \A x \in S : f[x] \in Nat
  PROVE  SumFunctionOnSet(f, S) \in Nat
<1> DEFINE Good == {n \in Nat : \A T \in SUBSET S : Cardinality(T) = n => SumFunctionOnSet(f, T) \in Nat}
<1>1. 0 \in Good
  BY Smaller, SumEmpty
<1>2. ASSUME NEW n \in Nat, n \in Good PROVE n + 1 \in Good
  <2> SUFFICES ASSUME NEW T \in SUBSET S, Cardinality(T) = n + 1
               PROVE  SumFunctionOnSet(f, T) \in Nat
    OBVIOUS
  <2>1. IsFiniteSet(T) /\ T # {}
    BY Smaller
  <2>2. PICK x \in T : SumFunctionOnSet(f, T) = f[x] + SumFunctionOnSet(f, T \ {x})
    BY <2>1, SumFirst
  <2>3. T \ {x} \in SUBSET S /\ Cardinality(T \ {x}) = n
    BY Smaller
  <2> QED
    BY <1>2, <2>2, <2>3
<1>3. Nat \subseteq Good
  <2> HIDE DEF Good
  <2> QED
    BY <1>1, <1>2, NatInduction0
<1> QED
  BY <1>3, Smaller

(* Any element may be taken first. *)
LEMMA SumRemove ==
  ASSUME NEW f, NEW S, IsFiniteSet(S), \A x \in S : f[x] \in Nat, NEW x \in S
  PROVE  SumFunctionOnSet(f, S) = f[x] + SumFunctionOnSet(f, S \ {x})
<1> DEFINE Takes(T) == \A y \in T : SumFunctionOnSet(f, T) = f[y] + SumFunctionOnSet(f, T \ {y})
           Good == {n \in Nat : \A T \in SUBSET S : Cardinality(T) = n => Takes(T)}
<1>1. 0 \in Good
  BY Smaller
<1>2. ASSUME NEW n \in Nat, n \in Good PROVE n + 1 \in Good
  <2> SUFFICES ASSUME NEW T \in SUBSET S, Cardinality(T) = n + 1, NEW y \in T
               PROVE  SumFunctionOnSet(f, T) = f[y] + SumFunctionOnSet(f, T \ {y})
    OBVIOUS
  <2>1. IsFiniteSet(T) /\ T # {}
    BY Smaller
  <2>2. PICK z \in T : SumFunctionOnSet(f, T) = f[z] + SumFunctionOnSet(f, T \ {z})
    BY <2>1, SumFirst
  <2>3. CASE z = y
    BY <2>2, <2>3
  <2>4. CASE z # y
    <3> DEFINE U == (T \ {y}) \ {z}
    <3>1. /\ T \ {z} \in SUBSET S /\ Cardinality(T \ {z}) = n /\ y \in T \ {z}
          /\ T \ {y} \in SUBSET S /\ Cardinality(T \ {y}) = n /\ z \in T \ {y}
      BY <2>4, Smaller
    <3>2. (T \ {z}) \ {y} = U /\ U \in SUBSET S /\ IsFiniteSet(U)
      BY Smaller
    <3>3. SumFunctionOnSet(f, T \ {z}) = f[y] + SumFunctionOnSet(f, U)
      BY <1>2, <3>1, <3>2
    <3>4. SumFunctionOnSet(f, T \ {y}) = f[z] + SumFunctionOnSet(f, U)
      BY <1>2, <3>1
    <3>5. SumFunctionOnSet(f, U) \in Nat /\ f[y] \in Nat /\ f[z] \in Nat
      BY <3>2, SumNat
    <3> QED
      BY <2>2, <3>3, <3>4, <3>5
  <2> QED
    BY <2>3, <2>4
<1>3. Nat \subseteq Good
  <2> HIDE DEF Good
  <2> QED
    BY <1>1, <1>2, NatInduction0
<1> QED
  BY <1>3, Smaller

(* The sum depends on the values at the elements alone. *)
LEMMA SumSame ==
  ASSUME NEW f, NEW g, NEW S, IsFiniteSet(S), \A x \in S : f[x] = g[x]
  PROVE  SumFunctionOnSet(f, S) = SumFunctionOnSet(g, S)
<1>1. PICK k : Sums(f, S, k) /\ SumFunctionOnSet(f, S) = k[S]
  BY SumIs
<1>2. PICK h : Sums(g, S, h) /\ SumFunctionOnSet(g, S) = h[S]
  BY SumIs
<1>3. Sums(f, S, h)
  <2>1. ASSUME NEW s \in SUBSET S PROVE First(f, h, s) = First(g, h, s)
    BY <2>1 DEF First
  <2> QED
    BY <1>2, <2>1 DEF Sums
<1>4. k[S] = h[S]
  BY <1>1, <1>3, SumsAgree
<1> QED
  BY <1>1, <1>2, <1>4

(* The sum of two disjoint parts. *)
LEMMA SumUnion ==
  ASSUME NEW f, NEW S, IsFiniteSet(S), \A x \in S : f[x] \in Nat,
         NEW A \in SUBSET S, NEW B \in SUBSET S, A \cap B = {}
  PROVE  SumFunctionOnSet(f, A \cup B) = SumFunctionOnSet(f, A) + SumFunctionOnSet(f, B)
<1> DEFINE Sum(T) == SumFunctionOnSet(f, T)
           Good == {T \in SUBSET B : Sum(A \cup T) = Sum(A) + Sum(T)}
<1>0. ASSUME NEW T \in SUBSET S
      PROVE  IsFiniteSet(T) /\ Sum(T) \in Nat /\ \A y \in T : Sum(T) = f[y] + Sum(T \ {y})
  <2>1. IsFiniteSet(T)
    BY FS_Subset
  <2> QED
    BY <2>1, SumNat, SumRemove
<1>1. {} \in Good
  <2>1. Sum(A) \in Nat /\ Sum({}) = 0 /\ A \cup {} = A
    BY <1>0, SumEmpty
  <2> HIDE DEF Sum
  <2> QED
    BY <2>1
<1>2. ASSUME NEW T \in SUBSET B, NEW x \in B \ T, T \in Good PROVE T \cup {x} \in Good
  <2> DEFINE U == T \cup {x}
             V == A \cup U
  <2>1. /\ U \in SUBSET S /\ V \in SUBSET S /\ T \in SUBSET S /\ x \in U /\ x \in V
        /\ U \ {x} = T /\ V \ {x} = A \cup T
    OBVIOUS
  <2>2. Sum(A) \in Nat /\ Sum(T) \in Nat /\ f[x] \in Nat
    BY <1>0, <2>1
  <2>3. Sum(U) = f[x] + Sum(T) /\ Sum(V) = f[x] + Sum(A \cup T)
    <3> HIDE DEF Sum, U, V
    <3> QED
      BY <1>0, <2>1
  <2>4. Sum(A \cup T) = Sum(A) + Sum(T)
    BY <1>2
  <2>5. Sum(V) = Sum(A) + Sum(U)
    <3> HIDE DEF Sum, U, V
    <3> QED
      BY <2>2, <2>3, <2>4
  <2> QED
    BY <2>5
<1>3. B \in Good
  <2> HIDE DEF Good
  <2> QED
    BY <1>0, <1>1, <1>2, FiniteInduction
<1> QED
  BY <1>3

(* A sum, a part for each key. *)
LEMMA SumParts ==
  ASSUME NEW f, NEW S, IsFiniteSet(S), \A x \in S : f[x] \in Nat,
         NEW key, NEW K, IsFiniteSet(K), \A x \in S : key[x] \in K
  PROVE  SumFunctionOnSet(f, S)
           = SumFunction([k \in K |-> SumFunctionOnSet(f, {x \in S : key[x] = k})])
<1> DEFINE Part(k) == {x \in S : key[x] = k}
           Parts(L) == {x \in S : key[x] \in L}
           g == [k \in K |-> SumFunctionOnSet(f, Part(k))]
           Good == {L \in SUBSET K : SumFunctionOnSet(f, Parts(L)) = SumFunctionOnSet(g, L)}
<1>0. \A k \in K : g[k] \in Nat /\ g[k] = SumFunctionOnSet(f, Part(k))
  <2> SUFFICES ASSUME NEW k \in K PROVE SumFunctionOnSet(f, Part(k)) \in Nat
    OBVIOUS
  <2>1. IsFiniteSet(Part(k)) /\ \A x \in Part(k) : f[x] \in Nat
    BY FS_Subset
  <2> HIDE DEF Part
  <2> QED
    BY <2>1, SumNat
<1>1. {} \in Good
  <2>1. Parts({}) = {}
    OBVIOUS
  <2> QED
    BY <2>1, SumEmpty
<1>2. ASSUME NEW L \in SUBSET K, NEW k \in K \ L, L \in Good PROVE L \cup {k} \in Good
  <2> DEFINE M == L \cup {k}
  <2>1. /\ Parts(M) = Parts(L) \cup Part(k) /\ Parts(L) \cap Part(k) = {}
        /\ Parts(L) \in SUBSET S /\ Part(k) \in SUBSET S
    OBVIOUS
  <2>2. SumFunctionOnSet(f, Parts(M)) = SumFunctionOnSet(f, Parts(L)) + SumFunctionOnSet(f, Part(k))
    <3> HIDE DEF Parts, Part, M
    <3> QED
      BY <2>1, SumUnion
  <2>3. SumFunctionOnSet(g, M) = g[k] + SumFunctionOnSet(g, L)
    <3>1. IsFiniteSet(M) /\ k \in M /\ M \ {k} = L /\ M \in SUBSET K
      BY FS_Subset
    <3>2. \A y \in M : g[y] \in Nat
      BY <1>0
    <3> HIDE DEF g, M
    <3> QED
      BY <3>1, <3>2, SumRemove
  <2>4. SumFunctionOnSet(f, Parts(L)) = SumFunctionOnSet(g, L)
    BY <1>2
  <2>5. SumFunctionOnSet(g, L) \in Nat
    <3>1. IsFiniteSet(L)
      BY FS_Subset
    <3> HIDE DEF g
    <3> QED
      BY <1>0, <3>1, SumNat
  <2>6. SumFunctionOnSet(f, Parts(M)) = SumFunctionOnSet(g, M)
    <3> HIDE DEF g, M, Parts, Part
    <3> QED
      BY <1>0, <2>2, <2>3, <2>4, <2>5
  <2> QED
    BY <2>6
<1>3. K \in Good
  <2> HIDE DEF Good
  <2> QED
    BY <1>1, <1>2, FiniteInduction
<1>4. Parts(K) = S /\ DOMAIN g = K
  OBVIOUS
<1> QED
  BY <1>3, <1>4 DEF SumFunction

(* A cardinality is a sum of ones. *)
LEMMA SumOnes ==
  ASSUME NEW f, NEW S, IsFiniteSet(S), \A x \in S : f[x] = 1
  PROVE  SumFunctionOnSet(f, S) = Cardinality(S)
<1> DEFINE Good == {T \in SUBSET S : SumFunctionOnSet(f, T) = Cardinality(T)}
<1>1. {} \in Good
  BY SumEmpty, FS_EmptySet
<1>2. ASSUME NEW T \in SUBSET S, NEW x \in S \ T, T \in Good PROVE T \cup {x} \in Good
  <2> DEFINE U == T \cup {x}
  <2>1. U \in SUBSET S /\ x \in U /\ U \ {x} = T
    OBVIOUS
  <2>2. IsFiniteSet(U) /\ Cardinality(T) \in Nat /\ Cardinality(U) = Cardinality(T) + 1
    BY FS_Subset, Smaller
  <2>3. SumFunctionOnSet(f, U) = f[x] + SumFunctionOnSet(f, T)
    <3> HIDE DEF U
    <3> QED
      BY <2>1, <2>2, SumRemove
  <2>4. SumFunctionOnSet(f, U) = Cardinality(U)
    <3> HIDE DEF U
    <3> QED
      BY <1>2, <2>2, <2>3
  <2> QED
    BY <2>1, <2>4
<1>3. S \in Good
  <2> HIDE DEF Good
  <2> QED
    BY <1>1, <1>2, FiniteInduction
<1> QED
  BY <1>3

------------------------------------------------------------------------------
(* Sets of numbers and images. *)

(* The image of a finite set is finite. *)
LEMMA Images == ASSUME NEW f, NEW S, IsFiniteSet(S) PROVE IsFiniteSet({f[x] : x \in S})
<1> DEFINE T == {f[x] : x \in S}
           g == [x \in S |-> f[x]]
<1>1. g \in Surjection(S, T)
  BY DEF Surjection
<1> HIDE DEF g
<1> QED
  BY <1>1, FS_Surjection

(* An injection keeps the number of elements. *)
LEMMA ImagesMany ==
  ASSUME NEW f, NEW S, IsFiniteSet(S), \A x, y \in S : f[x] = f[y] => x = y
  PROVE  Cardinality({f[x] : x \in S}) = Cardinality(S)
<1> DEFINE T == {f[x] : x \in S}
           g == [x \in S |-> f[x]]
<1>1. g \in Bijection(S, T)
  BY DEF Bijection, Injection, Surjection, IsInjective
<1> HIDE DEF g, T
<1>2. ExistsBijection(S, T)
  BY <1>1 DEF ExistsBijection
<1> QED
  BY <1>2, FS_Bijection DEF T

(* A finite set of numbers has a greatest and a least one. *)
LEMMA Extremes ==
  ASSUME NEW S \in SUBSET Int, IsFiniteSet(S), S # {}
  PROVE  /\ Max(S) \in S /\ \A y \in S : y <= Max(S)
         /\ Min(S) \in S /\ \A y \in S : Min(S) <= y
<1> DEFINE Good == {T \in SUBSET S : T # {} => /\ \E x \in T : \A y \in T : x >= y
                                               /\ \E x \in T : \A y \in T : x =< y}
<1>1. {} \in Good
  OBVIOUS
<1>2. ASSUME NEW T \in SUBSET S, NEW z \in S \ T, T \in Good PROVE T \cup {z} \in Good
  <2>1. CASE T = {}
    BY <2>1
  <2>2. CASE T # {}
    <3>1. PICK a \in T : \A y \in T : a >= y
      BY <1>2, <2>2
    <3>2. PICK b \in T : \A y \in T : b =< y
      BY <1>2, <2>2
    <3>3. \E x \in T \cup {z} : \A y \in T \cup {z} : x >= y
      <4>1. CASE a >= z
        BY <3>1, <4>1
      <4>2. CASE ~(a >= z)
        BY <3>1, <4>2
      <4> QED
        BY <4>1, <4>2
    <3>4. \E x \in T \cup {z} : \A y \in T \cup {z} : x =< y
      <4>1. CASE b =< z
        BY <3>2, <4>1
      <4>2. CASE ~(b =< z)
        BY <3>2, <4>2
      <4> QED
        BY <4>1, <4>2
    <3> QED
      BY <3>3, <3>4
  <2> QED
    BY <2>1, <2>2
<1>3. S \in Good
  <2> HIDE DEF Good
  <2> QED
    BY <1>1, <1>2, FiniteInduction
<1>4. Max(S) \in S /\ \A y \in S : Max(S) >= y
  BY <1>3 DEF Max
<1>5. Min(S) \in S /\ \A y \in S : Min(S) =< y
  BY <1>3 DEF Min
<1> QED
  BY <1>4, <1>5

(* The elements that some number tells apart take the places 1 to n by it. *)
Rank(E, num, e) == Cardinality({f \in E : num[f] < num[e]})

(* Ranks go from 0 to n - 1, in the order of the numbers.                  *)
LEMMA Ranks ==
  ASSUME NEW E, IsFiniteSet(E), NEW num, \A e \in E : num[e] \in Int,
         \A e, f \in E : num[e] = num[f] => e = f
  PROVE  /\ Cardinality(E) \in Nat
         /\ \A e \in E : Rank(E, num, e) \in 0..(Cardinality(E) - 1)
         /\ \A e, f \in E : num[f] < num[e] <=> Rank(E, num, f) < Rank(E, num, e)
         /\ \A e, f \in E : Rank(E, num, f) = Rank(E, num, e) => e = f
         /\ \A i \in 0..(Cardinality(E) - 1) : \E e \in E : Rank(E, num, e) = i
<1> DEFINE n == Cardinality(E)
           Before(e) == {f \in E : num[f] < num[e]}
<1>0. n \in Nat
  BY FS_CardinalityType
<1>1. ASSUME NEW e \in E
      PROVE  IsFiniteSet(Before(e)) /\ Cardinality(Before(e)) \in Nat
             /\ Cardinality(Before(e)) < n
  <2>1. Before(e) \in SUBSET E /\ e \notin Before(e)
    BY <1>1
  <2>2. IsFiniteSet(Before(e)) /\ Cardinality(Before(e)) <= n /\ Cardinality(Before(e)) # n
    <3> HIDE DEF Before
    <3> QED
      BY <2>1, FS_Subset
  <2> QED
    BY <1>0, <2>2, FS_CardinalityType
<1>2. ASSUME NEW e \in E, NEW f \in E, num[f] < num[e]
      PROVE  Cardinality(Before(f)) < Cardinality(Before(e))
  <2>1. Before(f) \in SUBSET Before(e) /\ f \in Before(e) /\ f \notin Before(f)
    BY <1>2
  <2>2. Cardinality(Before(f)) <= Cardinality(Before(e)) /\ Cardinality(Before(f)) # Cardinality(Before(e))
    <3> HIDE DEF Before
    <3> QED
      BY <1>1, <2>1, FS_Subset
  <2>3. Cardinality(Before(f)) \in Nat /\ Cardinality(Before(e)) \in Nat
    BY <1>1
  <2> HIDE DEF Before
  <2> QED
    BY <2>2, <2>3
<1>3. \A e \in E : Rank(E, num, e) \in 0..(n - 1)
  <2> SUFFICES ASSUME NEW e \in E PROVE Cardinality(Before(e)) \in 0..(n - 1)
    BY DEF Rank
  <2> HIDE DEF Before, n
  <2> QED
    BY <1>0, <1>1
<1>4. \A e, f \in E : num[f] < num[e] <=> Rank(E, num, f) < Rank(E, num, e)
  <2> SUFFICES ASSUME NEW e \in E, NEW f \in E
               PROVE  num[f] < num[e] <=> Cardinality(Before(f)) < Cardinality(Before(e))
    BY DEF Rank
  <2>1. num[f] < num[e] \/ num[e] < num[f] \/ e = f
    OBVIOUS
  <2> HIDE DEF Before
  <2> QED
    BY <1>1, <1>2, <2>1
<1>5. \A e, f \in E : Rank(E, num, f) = Rank(E, num, e) => e = f
  <2> SUFFICES ASSUME NEW e \in E, NEW f \in E, Rank(E, num, f) = Rank(E, num, e) PROVE e = f
    OBVIOUS
  <2>1. ~(num[f] < num[e]) /\ ~(num[e] < num[f])
    BY <1>3, <1>4
  <2> QED
    BY <2>1
<1>6. \A i \in 0..(n - 1) : \E e \in E : Rank(E, num, e) = i
  <2> DEFINE r == [e \in E |-> Rank(E, num, e)]
  <2>1. r \in Injection(E, 0..(n - 1))
    BY <1>3, <1>5 DEF Injection, IsInjective
  <2>2. IsFiniteSet(0..(n - 1)) /\ Cardinality(0..(n - 1)) = n
    BY <1>0, FS_Interval
  <2>3. r \in Surjection(E, 0..(n - 1))
    <3> HIDE DEF r
    <3> QED
      BY <2>1, <2>2, FS_Injection
  <2> QED
    BY <2>3 DEF Surjection
<1> QED
  BY <1>0, <1>3, <1>4, <1>5, <1>6

(* A set listed in the order of some number.                               *)
Listed(E, num, a) ==
  /\ Cardinality(E) \in Nat /\ DOMAIN a = 1..Cardinality(E)
  /\ \A i \in 1..Cardinality(E) : a[i] \in E
  /\ \A i, j \in 1..Cardinality(E) : i < j => num[a[i]] < num[a[j]]
  /\ \A e \in E : \E i \in 1..Cardinality(E) : a[i] = e

(* The list by rank is one.                                                *)
LEMMA Listing ==
  ASSUME NEW E, IsFiniteSet(E), NEW num \in [E -> Int],
         \A e, f \in E : num[e] = num[f] => e = f,
         NEW a, DOMAIN a = 1..Cardinality(E),
         \A i \in 1..Cardinality(E) : (\E e \in E : Rank(E, num, e) = i - 1) =>
           a[i] \in E /\ Rank(E, num, a[i]) = i - 1
  PROVE  Listed(E, num, a)
<1> DEFINE n == Cardinality(E)
<1>1. /\ n \in Nat
      /\ \A e \in E : Rank(E, num, e) \in 0..(n - 1)
      /\ \A e, f \in E : num[f] < num[e] <=> Rank(E, num, f) < Rank(E, num, e)
      /\ \A e, f \in E : Rank(E, num, f) = Rank(E, num, e) => e = f
      /\ \A i \in 0..(n - 1) : \E e \in E : Rank(E, num, e) = i
  BY Ranks
<1>2. DOMAIN a = 1..n
  OBVIOUS
<1> HIDE DEF n
<1>3. ASSUME NEW i \in 1..n PROVE a[i] \in E /\ Rank(E, num, a[i]) = i - 1
  <2>1. i - 1 \in 0..(n - 1)
    BY <1>1
  <2>2. \E e \in E : Rank(E, num, e) = i - 1
    BY <1>1, <2>1
  <2> QED
    BY <2>2 DEF n
<1>4. ASSUME NEW i \in 1..n, NEW j \in 1..n, i < j PROVE num[a[i]] < num[a[j]]
  <2>1. Rank(E, num, a[i]) = i - 1 /\ Rank(E, num, a[j]) = j - 1
    BY <1>3
  <2>2. Rank(E, num, a[i]) < Rank(E, num, a[j])
    BY <1>1, <1>4, <2>1
  <2> QED
    BY <1>1, <1>3, <2>2
<1>5. ASSUME NEW e \in E PROVE \E i \in 1..n : a[i] = e
  <2> DEFINE i == Rank(E, num, e) + 1
  <2>1. i \in 1..n /\ i - 1 = Rank(E, num, e)
    BY <1>1
  <2>2. a[i] \in E /\ Rank(E, num, a[i]) = Rank(E, num, e)
    <3> HIDE DEF i
    <3> QED
      BY <1>3, <2>1
  <2> QED
    BY <1>1, <2>1, <2>2
<1> QED
  BY <1>1, <1>2, <1>3, <1>4, <1>5 DEF n, Listed

(* A set that is listed in the order of some number has each of its        *)
(* elements, and each number, once.                                        *)
LEMMA ListedOnce ==
  ASSUME NEW S, NEW num \in [S -> Int], NEW x, Listed(S, num, x)
  PROVE  /\ \A e, f \in S : num[e] = num[f] => e = f
         /\ \A i, j \in 1..Cardinality(S) : x[i] = x[j] => i = j
<1> DEFINE n == Cardinality(S)
<1>1. ASSUME NEW i \in 1..n, NEW j \in 1..n, num[x[i]] = num[x[j]] PROVE i = j
  <2>1. (i < j => num[x[i]] < num[x[j]]) /\ (j < i => num[x[j]] < num[x[i]])
    BY DEF Listed
  <2>2. num[x[i]] \in Int /\ n \in Nat
    BY DEF Listed
  <2> HIDE DEF n
  <2> QED
    BY <1>1, <2>1, <2>2
<1>2. ASSUME NEW e \in S, NEW f \in S, num[e] = num[f] PROVE e = f
  <2>1. PICK i \in 1..n : x[i] = e
    BY DEF Listed
  <2>2. PICK j \in 1..n : x[j] = f
    BY DEF Listed
  <2>3. i = j
    BY <1>1, <1>2, <2>1, <2>2
  <2> QED
    BY <2>1, <2>2, <2>3
<1> QED
  BY <1>1, <1>2

(* There is one way to list a set in the order of some number.             *)
LEMMA OneOrder ==
  ASSUME NEW S, IsFiniteSet(S), NEW num \in [S -> Int],
         NEW x, Listed(S, num, x), NEW y, Listed(S, num, y)
  PROVE  \A i \in 1..Cardinality(S) : x[i] = y[i]
<1> DEFINE n == Cardinality(S)
<1>1. n \in Nat
  BY FS_CardinalityType
<1>2. ASSUME NEW z, Listed(S, num, z), NEW i \in 1..n
      PROVE  z[i] \in S /\ Rank(S, num, z[i]) = i - 1
  <2> DEFINE I == 1..(i - 1)
  <2>1. IsFiniteSet(I) /\ Cardinality(I) = i - 1
    BY FS_Interval
  <2>2. /\ \A j \in 1..n : z[j] \in S
        /\ \A j, k \in 1..n : j < k => num[z[j]] < num[z[k]]
        /\ \A e \in S : \E j \in 1..n : z[j] = e
    BY <1>2 DEF Listed
  <2> HIDE DEF n
  <2>3. \A j, k \in 1..n : num[z[j]] < num[z[k]] <=> j < k
    <3> SUFFICES ASSUME NEW j \in 1..n, NEW k \in 1..n PROVE num[z[j]] < num[z[k]] <=> j < k
      OBVIOUS
    <3>1. num[z[j]] \in Int /\ num[z[k]] \in Int
      BY <2>2
    <3>2. j < k \/ j = k \/ k < j
      BY <1>1
    <3> QED
      BY <2>2, <3>1, <3>2
  <2>4. \A j \in I : j \in 1..n /\ j < i
    BY <1>1
  <2>5. \A j \in 1..n : j < i => j \in I
    BY <1>1
  <2> HIDE DEF I
  <2>6. \A j, k \in I : z[j] = z[k] => j = k
    <3> SUFFICES ASSUME NEW j \in I, NEW k \in I, z[j] = z[k] PROVE j = k
      OBVIOUS
    <3>1. j \in 1..n /\ k \in 1..n /\ num[z[j]] \in Int /\ num[z[j]] = num[z[k]]
      BY <2>2, <2>4
    <3>2. ~(j < k) /\ ~(k < j)
      BY <2>3, <3>1
    <3> QED
      BY <1>1, <3>1, <3>2
  <2>7. {e \in S : num[e] < num[z[i]]} = {z[j] : j \in I}
    BY <2>2, <2>3, <2>4, <2>5
  <2> QED
    BY <2>1, <2>2, <2>6, <2>7, ImagesMany DEF Rank
<1>3. \A e, f \in S : num[e] = num[f] => e = f
  <2> SUFFICES ASSUME NEW e \in S, NEW f \in S, num[e] = num[f] PROVE e = f
    OBVIOUS
  <2>1. PICK i \in 1..n : x[i] = e
    BY DEF Listed
  <2>2. PICK j \in 1..n : x[j] = f
    BY DEF Listed
  <2>3. (i < j => num[e] < num[f]) /\ (j < i => num[f] < num[e]) /\ num[e] \in Int
    BY <2>1, <2>2 DEF Listed
  <2>4. i = j
    BY <1>1, <2>3
  <2> QED
    BY <2>1, <2>2, <2>4
<1>4. \A e, f \in S : Rank(S, num, f) = Rank(S, num, e) => e = f
  <2>1. \A e \in S : num[e] \in Int
    OBVIOUS
  <2> QED
    BY <1>3, <2>1, Ranks
<1> QED
  BY <1>2, <1>4

------------------------------------------------------------------------------
(* Folds of sequences. *)

(* A fold over 1..n, whose value so far is in V, is a function of the      *)
(* sets of places that it has left.                                        *)
Folds(n, base, op, g) ==
  \A s \in SUBSET (1..n) : g[s] = IF s = {} THEN base ELSE op[Max(s)][g[s \ {Max(s)}]]

(* There is one, built up from the sets of less places.                    *)
LEMMA FoldsExist ==
  ASSUME NEW n \in Nat, NEW V, NEW base \in V, NEW op \in [1..n -> [V -> V]]
  PROVE  \E g \in [SUBSET (1..n) -> V] : Folds(n, base, op, g)
<1> DEFINE S == 1..n
           D(k) == {s \in SUBSET S : Cardinality(s) <= k}
           Step(g, s) == IF s = {} THEN base ELSE op[Max(s)][g[s \ {Max(s)}]]
           Up(k, g) == g \in [D(k) -> V] /\ \A s \in D(k) : g[s] = Step(g, s)
           Good == {k \in Nat : \E g : Up(k, g)}
<1>0. IsFiniteSet(S) /\ Cardinality(S) = n
  BY FS_Interval
<1>m. ASSUME NEW s \in SUBSET S, s # {}
      PROVE  /\ Max(s) \in s /\ Max(s) \in 1..n
             /\ Cardinality(s) \in Nat /\ Cardinality(s \ {Max(s)}) = Cardinality(s) - 1
  <2>1. Max(s) \in s
    <3>1. s \in SUBSET Int
      OBVIOUS
    <3>2. IsFiniteSet(s)
      <4> HIDE DEF S
      <4> QED
        BY <1>0, FS_Subset
    <3> QED
      BY <1>m, <3>1, <3>2, Extremes
  <2>2. Cardinality(s \ {Max(s)}) = Cardinality(s) - 1 /\ Cardinality(s) \in Nat
    <3> HIDE DEF S
    <3> QED
      BY <2>1, <1>0, Smaller
  <2> QED
    BY <2>1, <2>2
<1>1. 0 \in Good
  <2>1. D(0) = {{}}
    <3> HIDE DEF S
    <3> QED
      BY <1>0, Smaller
  <2> DEFINE h == [s \in D(0) |-> base]
  <2>2. Up(0, h)
    BY <2>1
  <2> HIDE DEF h, Up
  <2> QED
    BY <2>2
<1>2. ASSUME NEW k \in Nat, k \in Good PROVE k + 1 \in Good
  <2>1. PICK g : Up(k, g)
    BY <1>2
  <2> DEFINE h == [s \in D(k + 1) |-> Step(g, s)]
  <2>2. \A s \in D(k + 1) : s # {} => s \ {Max(s)} \in D(k)
    <3> SUFFICES ASSUME NEW s \in D(k + 1), s # {} PROVE s \ {Max(s)} \in D(k)
      OBVIOUS
    <3>1. Cardinality(s) <= k + 1 /\ s \in SUBSET S /\ s \ {Max(s)} \in SUBSET S
      OBVIOUS
    <3>2. Cardinality(s \ {Max(s)}) = Cardinality(s) - 1 /\ Cardinality(s) \in Nat
      BY <1>m
    <3> QED
      BY <3>1, <3>2
  <2>3. \A s \in D(k) : s \in D(k + 1)
    <3> SUFFICES ASSUME NEW s \in SUBSET S, Cardinality(s) <= k PROVE Cardinality(s) <= k + 1
      OBVIOUS
    <3>1. Cardinality(s) \in Nat
      <4> HIDE DEF S
      <4> QED
        BY <1>0, Smaller
    <3> QED
      BY <3>1
  <2>4. \A s \in D(k) : h[s] = g[s]
    BY <2>1, <2>3
  <2>5. ASSUME NEW s \in D(k + 1) PROVE Step(g, s) \in V /\ Step(g, s) = Step(h, s)
    <3>1. CASE s = {}
      BY <3>1
    <3>2. CASE s # {}
      <4>1. s \ {Max(s)} \in D(k) /\ Max(s) \in 1..n
        BY <1>m, <2>2, <3>2
      <4>2. h[s \ {Max(s)}] = g[s \ {Max(s)}] /\ g[s \ {Max(s)}] \in V
        <5> HIDE DEF h, D
        <5> QED
          BY <4>1, <2>1, <2>4
      <4>3. op[Max(s)][g[s \ {Max(s)}]] \in V
        BY <4>1, <4>2
      <4> HIDE DEF h, D
      <4> QED
        BY <3>2, <4>2, <4>3
    <3> QED
      BY <3>1, <3>2
  <2>6. Up(k + 1, h)
    <3> HIDE DEF Step
    <3> QED
      BY <2>5
  <2> HIDE DEF h, Up
  <2> QED
    BY <2>6
<1>3. n \in Good
  <2> HIDE DEF Good
  <2> QED
    BY <1>1, <1>2, NatInduction0
<1>4. D(n) = SUBSET S
  <2>1. \A s \in SUBSET S : Cardinality(s) <= n
    <3> HIDE DEF S
    <3> QED
      BY <1>0, FS_Subset
  <2> QED
    BY <2>1
<1>5. PICK g : Up(n, g)
  BY <1>3
<1> HIDE DEF D
<1> QED
  BY <1>4, <1>5 DEF Folds

(* It goes from place to place. *)
LEMMA UpTo ==
  ASSUME NEW i \in Nat \ {0}
  PROVE  Max(1..i) = i /\ (1..i) \ {i} = 1..(i - 1) /\ 1..i # {}
<1> DEFINE s == 1..i
<1>1. s \in SUBSET Int /\ i \in s /\ s # {} /\ \A y \in s : y <= i
  OBVIOUS
<1>2. IsFiniteSet(s)
  BY FS_Interval
<1>3. Max(s) \in s /\ \A y \in s : y <= Max(s)
  <2> HIDE DEF s
  <2> QED
    BY <1>1, <1>2, Extremes
<1>4. Max(s) = i
  <2>1. Max(s) \in Int /\ Max(s) <= i /\ i <= Max(s)
    <3> HIDE DEF s
    <3> QED
      BY <1>1, <1>3
  <2> QED
    BY <2>1
<1>5. s \ {i} = 1..(i - 1)
  OBVIOUS
<1> QED
  BY <1>1, <1>4, <1>5
==============================================================================
