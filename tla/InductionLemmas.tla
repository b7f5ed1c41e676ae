--------------------------- MODULE InductionLemmas ---------------------------
(***************************************************************************)
(* Induction over finite sets, and what SumFunctionOnSet of the community  *)
(* modules computes: the lemmas that proofs about sums of stock and money  *)
(* need.  A sum does not depend on the order in which the fold takes the   *)
(* elements.                                                               *)
(***************************************************************************)
EXTENDS Functions, FiniteSetTheorems, TLAPS

\* Induction over the finite subsets of S, in a form that takes a set and no
\* operator: a family of them has a member that contains no other one.
LEMMA LeastSubset ==
  ASSUME NEW S, IsFiniteSet(S), NEW F \in SUBSET (SUBSET S), F # {}
  PROVE  \E T \in F : \A U \in F : U \subseteq T => U = T
<1> DEFINE R == StrictSubsetOrdering(S)
<1>1. F \subseteq FiniteSubsetsOf(S)
  BY FS_FiniteSubsetsOfFinite
<1>2. IsWellFoundedOn(R, FiniteSubsetsOf(S))
  BY FS_StrictSubsetOrderingWellFounded
<1>3. PICK T \in F : \A U \in F : ~ (<<U, T>> \in R)
  <2> HIDE DEF R
  <2> QED BY <1>1, <1>2, WFMin
<1> QED BY <1>3 DEF StrictSubsetOrdering

\* The element the fold takes next.
Chosen(s) == CHOOSE x \in s : TRUE

\* g is the sum of f over every subset of S.
Adds(g, f, S) ==
  g = [s \in SUBSET S |-> IF s = {} THEN 0 ELSE f[Chosen(s)] + g[s \ {Chosen(s)}]]

\* The recursive function of the fold, as the provers see it.
Iter(f, S) == CHOOSE g : Adds(g, f, S)

LEMMA SumIsIter ==
  ASSUME NEW f, NEW S
  PROVE  SumFunctionOnSet(f, S) = Iter(f, S)[S]
BY Zenon DEF SumFunctionOnSet, FoldFunctionOnSet, MapThenFoldSet, Iter, Adds, Chosen

LEMMA ChosenIsMember ==
  ASSUME NEW s, s # {}
  PROVE  Chosen(s) \in s
BY DEF Chosen

\* Two functions that add up f agree wherever both are defined.
LEMMA AddsAgree ==
  ASSUME NEW f, NEW S, NEW T, IsFiniteSet(S), NEW g, NEW h,
         Adds(g, f, S), Adds(h, f, T), NEW s \in (SUBSET S) \cap (SUBSET T)
  PROVE  g[s] = h[s]
<1> DEFINE F == {u \in (SUBSET S) \cap (SUBSET T) : g[u] # h[u]}
<1>1. SUFFICES ASSUME F # {} PROVE FALSE
  OBVIOUS
<1>2. PICK u \in F : \A v \in F : v \subseteq u => v = u
  <2>1. F \in SUBSET (SUBSET S)
    OBVIOUS
  <2> HIDE DEF F
  <2> QED BY <1>1, <2>1, LeastSubset
<1>3. /\ g[u] = IF u = {} THEN 0 ELSE f[Chosen(u)] + g[u \ {Chosen(u)}]
      /\ h[u] = IF u = {} THEN 0 ELSE f[Chosen(u)] + h[u \ {Chosen(u)}]
  BY DEF Adds
<1>4. u # {}
  BY <1>3
<1>5. Chosen(u) \in u
  BY <1>4, ChosenIsMember
<1>6. u \ {Chosen(u)} \notin F
  BY <1>2, <1>5
<1> QED BY <1>3, <1>4, <1>6

\* A fold over a finite set satisfies its recursion equation.
LEMMA IterAdds ==
  ASSUME NEW f, NEW S, IsFiniteSet(S)
  PROVE  Adds(Iter(f, S), f, S)
<1> DEFINE F == {u \in SUBSET S : ~ Adds(Iter(f, u), f, u)}
<1>1. SUFFICES ASSUME F # {} PROVE FALSE
  OBVIOUS
<1>2. PICK T \in F : \A U \in F : U \subseteq T => U = T
  <2>1. F \in SUBSET (SUBSET S)
    OBVIOUS
  <2> HIDE DEF F
  <2> QED BY <1>1, <2>1, LeastSubset
<1>3. \A s \in SUBSET T : s # T => Adds(Iter(f, s), f, s)
  BY <1>2
<1> DEFINE below(s) == IF s = {} THEN 0 ELSE f[Chosen(s)] + Iter(f, s \ {Chosen(s)})[s \ {Chosen(s)}]
           g == [s \in SUBSET T |-> below(s)]
<1>4. ASSUME NEW s \in SUBSET T, s # {}
      PROVE  g[s \ {Chosen(s)}] = Iter(f, s \ {Chosen(s)})[s \ {Chosen(s)}]
  <2> DEFINE r == s \ {Chosen(s)}
             i == Iter(f, r)
  <2>1. Chosen(s) \in s /\ r \in SUBSET T /\ r # T
    BY <1>4, ChosenIsMember
  <2>2. Adds(i, f, r)
    BY <1>3, <2>1
  <2>3. i[r] = IF r = {} THEN 0 ELSE f[Chosen(r)] + i[r \ {Chosen(r)}]
    BY <2>2 DEF Adds
  <2>4. CASE r = {}
    BY <2>1, <2>3, <2>4
  <2>5. CASE r # {}
    <3> DEFINE q == r \ {Chosen(r)}
    <3>1. Chosen(r) \in r /\ q \in SUBSET T /\ q # T /\ q \in SUBSET r
      BY <2>1, <2>5, ChosenIsMember
    <3>2. Adds(Iter(f, q), f, q)
      BY <1>3, <3>1
    <3>3. IsFiniteSet(r)
      BY <2>1, FS_Subset
    <3>4. i[q] = Iter(f, q)[q]
      <4> HIDE DEF i, q, r, g
      <4> QED BY <2>2, <3>1, <3>2, <3>3, AddsAgree
    <3> QED BY <2>1, <2>3, <2>5, <3>4
  <2> QED BY <2>4, <2>5
<1>5. Adds(g, f, T)
  BY <1>4 DEF Adds
<1>6. Adds(Iter(f, T), f, T)
  <2> HIDE DEF g
  <2> QED BY <1>5 DEF Iter
<1> QED BY <1>2, <1>6

\* One step of the fold.
LEMMA SumStep ==
  ASSUME NEW f, NEW S, IsFiniteSet(S)
  PROVE  /\ S = {} => SumFunctionOnSet(f, S) = 0
         /\ S # {} => /\ Chosen(S) \in S
                      /\ SumFunctionOnSet(f, S)
                           = f[Chosen(S)] + SumFunctionOnSet(f, S \ {Chosen(S)})
<1> DEFINE r == S \ {Chosen(S)}
<1>1. Adds(Iter(f, S), f, S) /\ IsFiniteSet(r)
  BY IterAdds, FS_Subset
<1>2. Adds(Iter(f, r), f, r)
  BY <1>1, IterAdds
<1>3. Iter(f, S)[S] = IF S = {} THEN 0 ELSE f[Chosen(S)] + Iter(f, S)[r]
  BY <1>1 DEF Adds
<1>4. Iter(f, S)[r] = Iter(f, r)[r]
  <2>1. r \in (SUBSET S) \cap (SUBSET r)
    OBVIOUS
  <2> HIDE DEF r
  <2> QED BY <1>1, <1>2, <2>1, AddsAgree
<1> QED BY <1>3, <1>4, SumIsIter, ChosenIsMember

\* The sum of integers is an integer.
LEMMA SumType ==
  ASSUME NEW f, NEW S, IsFiniteSet(S), \A x \in S : f[x] \in Int
  PROVE  SumFunctionOnSet(f, S) \in Int
<1> DEFINE F == {u \in SUBSET S : SumFunctionOnSet(f, u) \notin Int}
<1>1. SUFFICES ASSUME F # {} PROVE FALSE
  OBVIOUS
<1>2. PICK T \in F : \A U \in F : U \subseteq T => U = T
  <2>1. F \in SUBSET (SUBSET S)
    OBVIOUS
  <2> HIDE DEF F
  <2> QED BY <1>1, <2>1, LeastSubset
<1>3. IsFiniteSet(T)
  BY FS_Subset
<1>4. T # {}
  <2>1. SumFunctionOnSet(f, T) \notin Int
    BY <1>2
  <2>2. T = {} => SumFunctionOnSet(f, T) = 0
    BY <1>3, SumStep
  <2> QED BY <2>1, <2>2
<1>5. Chosen(T) \in T /\ SumFunctionOnSet(f, T) = f[Chosen(T)] + SumFunctionOnSet(f, T \ {Chosen(T)})
  BY <1>3, <1>4, SumStep
<1>6. SumFunctionOnSet(f, T \ {Chosen(T)}) \in Int
  BY <1>2, <1>5
<1>7. f[Chosen(T)] \in Int
  BY <1>5
<1> QED BY <1>2, <1>5, <1>6, <1>7

\* A sum is any one of its terms and the rest.
LEMMA SumTakeOut ==
  ASSUME NEW f, NEW S, IsFiniteSet(S), \A x \in S : f[x] \in Int, NEW y \in S
  PROVE  SumFunctionOnSet(f, S) = f[y] + SumFunctionOnSet(f, S \ {y})
<1> DEFINE Sum(u) == SumFunctionOnSet(f, u)
           F == {u \in SUBSET S : \E z \in u : Sum(u) # f[z] + Sum(u \ {z})}
<1>1. SUFFICES ASSUME F # {} PROVE FALSE
  OBVIOUS
<1>2. PICK T \in F : \A U \in F : U \subseteq T => U = T
  <2>1. F \in SUBSET (SUBSET S)
    OBVIOUS
  <2> HIDE DEF F
  <2> QED BY <1>1, <2>1, LeastSubset
<1>3. PICK z \in T : Sum(T) # f[z] + Sum(T \ {z})
  BY <1>2
<1> DEFINE a == Chosen(T)
<1>4. IsFiniteSet(T) /\ IsFiniteSet(T \ {z}) /\ IsFiniteSet(T \ {a}) /\ IsFiniteSet((T \ {a}) \ {z})
  BY FS_Subset
<1>5. a \in T /\ Sum(T) = f[a] + Sum(T \ {a})
  BY <1>3, <1>4, SumStep
<1>6. a # z
  BY <1>3, <1>5
<1>7. T \ {z} \notin F /\ T \ {a} \notin F
  BY <1>2, <1>3, <1>5
<1>8. Sum(T \ {z}) = f[a] + Sum((T \ {z}) \ {a})
  BY <1>5, <1>6, <1>7
<1>9. Sum(T \ {a}) = f[z] + Sum((T \ {a}) \ {z})
  BY <1>3, <1>6, <1>7, <1>5
<1>10. (T \ {z}) \ {a} = (T \ {a}) \ {z}
  OBVIOUS
<1>11. Sum((T \ {a}) \ {z}) \in Int
  BY <1>4, SumType
<1>12. f[a] \in Int /\ f[z] \in Int
  BY <1>3, <1>5
<1> DEFINE R == Sum((T \ {a}) \ {z})
<1>13. Sum(T) = f[a] + (f[z] + R)
  BY <1>5, <1>9
<1>14. f[z] + Sum(T \ {z}) = f[z] + (f[a] + R)
  BY <1>8, <1>10
<1>15. f[a] + (f[z] + R) = f[z] + (f[a] + R)
  <2> HIDE DEF R, a
  <2> QED BY <1>11, <1>12 DEF R
<1> QED BY <1>3, <1>13, <1>14, <1>15

\* What a proof about a sum cites.
LEMMA SumEmpty ==
  ASSUME NEW f
  PROVE  SumFunctionOnSet(f, {}) = 0
BY SumStep, FS_EmptySet

LEMMA SumAdd ==
  ASSUME NEW f, NEW S, IsFiniteSet(S), NEW x, x \notin S, \A y \in S \cup {x} : f[y] \in Int
  PROVE  SumFunctionOnSet(f, S \cup {x}) = f[x] + SumFunctionOnSet(f, S)
<1>1. IsFiniteSet(S \cup {x}) /\ (S \cup {x}) \ {x} = S
  BY FS_AddElement
<1> QED BY <1>1, SumTakeOut

\* Terms that are not negative: the sum over more of them is not less.
LEMMA SumMonotonic ==
  ASSUME NEW f, NEW S, IsFiniteSet(S), NEW T \in SUBSET S, \A y \in S : f[y] \in Nat
  PROVE  /\ SumFunctionOnSet(f, T) \in Nat /\ SumFunctionOnSet(f, S) \in Nat
         /\ SumFunctionOnSet(f, T) <= SumFunctionOnSet(f, S)
<1> DEFINE Sum(u) == SumFunctionOnSet(f, u)
           F == {u \in SUBSET S : ~ (\A v \in SUBSET u : Sum(v) \in Nat /\ Sum(v) <= Sum(u))}
<1>1. SUFFICES ASSUME F # {} PROVE FALSE
  OBVIOUS
<1>2. PICK U \in F : \A V \in F : V \subseteq U => V = U
  <2>1. F \in SUBSET (SUBSET S)
    OBVIOUS
  <2> HIDE DEF F
  <2> QED BY <1>1, <2>1, LeastSubset
<1>3. PICK v \in SUBSET U : ~ (Sum(v) \in Nat /\ Sum(v) <= Sum(U))
  BY <1>2
<1>4. Sum({}) = 0
  BY SumEmpty
<1>5. CASE U = {}
  BY <1>3, <1>4, <1>5
<1>6. CASE U # {}
  <2>1. PICK z \in U : v # U => z \notin v
    BY <1>6
  <2>2. IsFiniteSet(U) /\ \A y \in U : f[y] \in Int
    BY FS_Subset
  <2>3. Sum(U) = f[z] + Sum(U \ {z})
    BY <2>2, SumTakeOut
  <2>4. U \ {z} \notin F
    BY <1>2, <2>1
  <2>5. Sum(U \ {z}) \in Nat
    BY <2>4
  <2>6. f[z] \in Nat
    BY <2>1
  <2>7. v # U => Sum(v) \in Nat /\ Sum(v) <= Sum(U \ {z})
    BY <2>1, <2>4
  <2> HIDE DEF Sum
  <2> QED BY <1>3, <2>3, <2>5, <2>6, <2>7
<1> QED BY <1>5, <1>6

\* A sum is that of the terms, whatever function they come from.
LEMMA SumAgree ==
  ASSUME NEW f, NEW g, NEW S, IsFiniteSet(S), \A x \in S : f[x] = g[x]
  PROVE  SumFunctionOnSet(f, S) = SumFunctionOnSet(g, S)
<1> DEFINE F == {u \in SUBSET S : SumFunctionOnSet(f, u) # SumFunctionOnSet(g, u)}
<1>1. SUFFICES ASSUME F # {} PROVE FALSE
  OBVIOUS
<1>2. PICK T \in F : \A U \in F : U \subseteq T => U = T
  <2>1. F \in SUBSET (SUBSET S)
    OBVIOUS
  <2> HIDE DEF F
  <2> QED BY <1>1, <2>1, LeastSubset
<1>3. IsFiniteSet(T)
  BY FS_Subset
<1>4. T # {}
  BY <1>2, <1>3, SumStep
<1>5. /\ Chosen(T) \in T
      /\ SumFunctionOnSet(f, T) = f[Chosen(T)] + SumFunctionOnSet(f, T \ {Chosen(T)})
      /\ SumFunctionOnSet(g, T) = g[Chosen(T)] + SumFunctionOnSet(g, T \ {Chosen(T)})
  BY <1>3, <1>4, SumStep
<1>6. T \ {Chosen(T)} \notin F
  BY <1>2, <1>5
<1> QED BY <1>2, <1>5, <1>6

\* One term changes.
LEMMA SumOther ==
  ASSUME NEW f, NEW g, NEW S, IsFiniteSet(S), NEW c \in S,
         \A x \in S : f[x] \in Int /\ g[x] \in Int, \A x \in S \ {c} : g[x] = f[x]
  PROVE  SumFunctionOnSet(g, S) = SumFunctionOnSet(f, S) + (g[c] - f[c])
<1> DEFINE Rest(h) == SumFunctionOnSet(h, S \ {c})
<1>1. IsFiniteSet(S \ {c})
  BY FS_Subset
<1>2. Rest(f) = Rest(g) /\ Rest(f) \in Int
  BY <1>1, SumAgree, SumType
<1>3. SumFunctionOnSet(f, S) = f[c] + Rest(f) /\ SumFunctionOnSet(g, S) = g[c] + Rest(g)
  BY SumTakeOut
<1> HIDE DEF Rest
<1> QED BY <1>2, <1>3

\* Terms that are not greater than m.
LEMMA SumBound ==
  ASSUME NEW f, NEW S, IsFiniteSet(S), NEW m \in Nat, \A x \in S : f[x] \in 0 .. m
  PROVE  SumFunctionOnSet(f, S) \in 0 .. Cardinality(S) * m
<1> DEFINE Sum(u) == SumFunctionOnSet(f, u)
           F == {u \in SUBSET S : Sum(u) \notin 0 .. Cardinality(u) * m}
<1>1. SUFFICES ASSUME F # {} PROVE FALSE
  OBVIOUS
<1>2. PICK T \in F : \A U \in F : U \subseteq T => U = T
  <2>1. F \in SUBSET (SUBSET S)
    OBVIOUS
  <2> HIDE DEF F
  <2> QED BY <1>1, <2>1, LeastSubset
<1>3. IsFiniteSet(T)
  BY FS_Subset
<1>4. T # {}
  <2>1. Sum({}) = 0 /\ Cardinality({}) = 0
    BY SumEmpty, FS_EmptySet
  <2>2. 0 \in 0 .. 0 * m
    OBVIOUS
  <2>3. Sum({}) \in 0 .. Cardinality({}) * m
    BY <2>1, <2>2
  <2> QED BY <1>2, <2>3
<1> DEFINE a == Chosen(T)
<1>5. a \in T /\ Sum(T) = f[a] + Sum(T \ {a})
  BY <1>3, <1>4, SumStep
<1>6. Cardinality(T \ {a}) = Cardinality(T) - 1 /\ Cardinality(T) \in Nat
  BY <1>3, <1>5, FS_RemoveElement, FS_CardinalityType
<1>7. Cardinality(T \ {a}) \in Nat
  BY <1>3, FS_Subset, FS_CardinalityType
<1>8. Sum(T \ {a}) \in 0 .. Cardinality(T \ {a}) * m
  BY <1>2, <1>5
<1>9. f[a] \in 0 .. m
  BY <1>5
<1>10. ASSUME NEW n \in Nat, NEW k \in Nat, k = n - 1, NEW x \in 0 .. m, NEW y \in 0 .. k * m
       PROVE  x + y \in 0 .. n * m
  <2>1. n = k + 1
    BY <1>10
  <2>2. (k + 1) * m = k * m + m
    OBVIOUS
  <2>3. k * m \in Nat
    OBVIOUS
  <2>4. n * m = k * m + m
    BY <2>1, <2>2
  <2> QED BY <2>3, <2>4
<1>11. Sum(T) \in 0 .. Cardinality(T) * m
  <2> HIDE DEF Sum, a
  <2> QED BY <1>5, <1>6, <1>7, <1>8, <1>9, <1>10
<1> QED BY <1>2, <1>11

==============================================================================
