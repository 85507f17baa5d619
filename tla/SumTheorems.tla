------------------------------ MODULE SumTheorems ------------------------------
(***************************************************************************)
(* Sums, counts and orders of finite sets, for the modules that add up,    *)
(* sort out and list rows.  The community modules define a sum by          *)
(* recursion over the subsets of the set, each time taking away an element *)
(* that CHOOSE picks.  Here: that finite sets have such a table, one only, *)
(* and what sums of naturals obey; then what clusters count, and what is   *)
(* left of a list cut to its first entries.                                *)
(***************************************************************************)
EXTENDS Integers, FiniteSets, Functions, FiniteSetTheorems, WellFoundedInduction, TLAPS

\* One unfolding of the sum of w over the set s, by the sums g of smaller sets.
Unfold(w, g, s) ==
  IF s = {} THEN 0 ELSE LET x == CHOOSE y \in s : TRUE IN w[x] + g[s \ {x}]

\* g is the sum of w over every subset of S.
Sums(w, S, g) == g = [s \in SUBSET S |-> Unfold(w, g, s)]

\* Among some subsets of a finite set one has none of the others below it.
LEMMA MinimalSubset ==
  ASSUME NEW S, IsFiniteSet(S), NEW D \in SUBSET SUBSET S, D # {}
  PROVE  \E T \in D : \A U \in D : U \subseteq T => U = T
<1>1. IsWellFoundedOn(StrictSubsetOrdering(S), SUBSET S)
  BY FS_StrictSubsetOrderingWellFounded, FS_FiniteSubsetsOfFinite
<1>2. PICK T \in D : \A U \in D : ~(<<U, T>> \in StrictSubsetOrdering(S))
  BY <1>1, WFMin
<1> QED
  BY <1>2 DEF StrictSubsetOrdering

\* Two tables of sums agree wherever both are defined: a smallest subset on which they did
\* not would unfold to a smaller one.
LEMMA SumsAgree ==
  ASSUME NEW w, NEW S, IsFiniteSet(S), NEW T, NEW g, NEW h,
         Sums(w, S, g), Sums(w, T, h), NEW R, R \subseteq S, R \subseteq T
  PROVE  g[R] = h[R]
<1> DEFINE D == {s \in SUBSET R : g[s] # h[s]}
<1> SUFFICES ASSUME D # {} PROVE FALSE
  OBVIOUS
<1>1. PICK s \in D : \A u \in D : u \subseteq s => u = s
  <2>1. IsFiniteSet(R) /\ D \in SUBSET SUBSET R
    BY FS_Subset
  <2> HIDE DEF D
  <2> QED BY <2>1, MinimalSubset
<1>2. g[s] = Unfold(w, g, s) /\ h[s] = Unfold(w, h, s)
  BY <1>1 DEF Sums
<1>3. s # {}
  BY <1>1, <1>2 DEF Unfold
<1> DEFINE x == CHOOSE y \in s : TRUE
<1>4. x \in s
  BY <1>3
<1>5. g[s \ {x}] = h[s \ {x}]
  BY <1>1, <1>4
<1> QED
  BY <1>1, <1>2, <1>3, <1>5 DEF Unfold

\* A finite set has a table of sums: a smallest one without would get it from the smaller.
LEMMA SumsExist ==
  ASSUME NEW w, NEW S, IsFiniteSet(S)
  PROVE  \E g : Sums(w, S, g)
<1> DEFINE D == {T \in SUBSET S : ~ \E g : Sums(w, T, g)}
<1> SUFFICES ASSUME D # {} PROVE FALSE
  OBVIOUS
<1>0. D \in SUBSET SUBSET S
  OBVIOUS
<1> HIDE DEF D
<1>1. PICK T \in D : \A U \in D : U \subseteq T => U = T
  BY <1>0, MinimalSubset
<1> DEFINE G(s) == CHOOSE g : Sums(w, s, g)
<1>2. \A s \in SUBSET T : s # T => Sums(w, s, G(s))
  <2> SUFFICES ASSUME NEW s \in SUBSET T, s # T PROVE \E g : Sums(w, s, g)
    OBVIOUS
  <2> QED BY <1>0, <1>1 DEF D
<1> DEFINE val(s) == IF s = {} THEN 0
                     ELSE LET x == CHOOSE y \in s : TRUE IN w[x] + G(s \ {x})[s \ {x}]
<1> DEFINE h == [s \in SUBSET T |-> val(s)]
<1>3. ASSUME NEW s \in SUBSET T, s # {} PROVE val(s) = Unfold(w, h, s)
  <2> DEFINE x == CHOOSE y \in s : TRUE
             r == s \ {x}
  <2>1. x \in s
    BY <1>3
  <2>2. r \in SUBSET T /\ r # T /\ h[r] = val(r)
    BY <2>1
  <2>3. Sums(w, r, G(r))
    BY <1>2, <2>2
  <2>4. G(r)[r] = val(r)
    <3>1. G(r)[r] = Unfold(w, G(r), r)
      BY <2>3 DEF Sums
    <3>2. CASE r = {}
      BY <3>1, <3>2 DEF Unfold
    <3>3. CASE r # {}
      <4> DEFINE z == CHOOSE y \in r : TRUE
                 q == r \ {z}
      <4>1. z \in r
        BY <3>3
      <4>2. q \in SUBSET T /\ q # T /\ q \subseteq r
        BY <2>2, <4>1
      <4>3. Sums(w, q, G(q))
        BY <1>2, <4>2
      <4>4. IsFiniteSet(r)
        BY <1>0, <2>2, FS_Subset
      <4> HIDE DEF r, q, G
      <4>5. G(r)[q] = G(q)[q]
        BY <2>3, <4>2, <4>3, <4>4, SumsAgree
      <4> QED
        BY <3>1, <3>3, <4>5 DEF Unfold, q
    <3> QED BY <3>2, <3>3
  <2> QED
    BY <1>3, <2>2, <2>4 DEF Unfold
<1>4. \A s \in SUBSET T : val(s) = Unfold(w, h, s)
  BY <1>3 DEF Unfold
<1>5. Sums(w, T, h)
  BY <1>4 DEF Sums
<1> QED
  BY <1>1, <1>5 DEF D

\* A sum is an entry of any table of sums of the set.
LEMMA SumIsInTable ==
  ASSUME NEW w, NEW S, IsFiniteSet(S), NEW g, Sums(w, S, g), NEW T \in SUBSET S
  PROVE  SumFunctionOnSet(w, T) = g[T]
<1>1. IsFiniteSet(T)
  BY FS_Subset
<1> DEFINE h == CHOOSE h : Sums(w, T, h)
<1>2. Sums(w, T, h)
  BY <1>1, SumsExist
<1>3. SumFunctionOnSet(w, T) = h[T]
  BY DEF SumFunctionOnSet, FoldFunctionOnSet, MapThenFoldSet, Sums, Unfold
<1> HIDE DEF h
<1>4. T \subseteq S /\ T \subseteq T
  OBVIOUS
<1>5. g[T] = h[T]
  BY <1>2, <1>4, SumsAgree
<1> QED BY <1>3, <1>5

\* A set of subsets that holds the empty one, and with one each that has an element more,
\* holds them all.
LEMMA EverySubset ==
  ASSUME NEW S, IsFiniteSet(S), NEW D, {} \in D,
         \A T \in SUBSET S : \A x \in T : T \ {x} \in D => T \in D
  PROVE  \A T \in SUBSET S : T \in D
<1> DEFINE E == {T \in SUBSET S : T \notin D}
<1> SUFFICES ASSUME E # {} PROVE FALSE
  OBVIOUS
<1>1. PICK T \in E : \A U \in E : U \subseteq T => U = T
  <2>1. E \in SUBSET SUBSET S
    OBVIOUS
  <2> HIDE DEF E
  <2> QED BY <2>1, MinimalSubset
<1>2. PICK x \in T : TRUE
  BY <1>1
<1>3. T \ {x} \in D
  BY <1>1, <1>2
<1> QED BY <1>1, <1>2, <1>3

\* Nothing adds up to zero,
LEMMA SumOfNothing == ASSUME NEW w PROVE SumFunctionOnSet(w, {}) = 0
<1>1. PICK g : Sums(w, {}, g)
  BY SumsExist, FS_EmptySet
<1>2. SumFunctionOnSet(w, {}) = g[{}]
  BY <1>1, SumIsInTable, FS_EmptySet
<1> QED BY <1>1, <1>2 DEF Sums, Unfold

\* ... only the values on the set matter,
LEMMA SumsOfEquals ==
  ASSUME NEW S, IsFiniteSet(S), NEW v, NEW w, \A x \in S : v[x] = w[x]
  PROVE  SumFunctionOnSet(v, S) = SumFunctionOnSet(w, S)
<1>1. PICK g : Sums(v, S, g)
  BY SumsExist
<1>2. ASSUME NEW s \in SUBSET S PROVE Unfold(v, g, s) = Unfold(w, g, s)
  BY DEF Unfold
<1>3. Sums(w, S, g)
  BY <1>1, <1>2 DEF Sums
<1>4. S \in SUBSET S
  OBVIOUS
<1>5. SumFunctionOnSet(v, S) = g[S]
  BY <1>1, <1>4, SumIsInTable
<1>6. SumFunctionOnSet(w, S) = g[S]
  BY <1>3, <1>4, SumIsInTable
<1> QED BY <1>5, <1>6

\* ... a sum of naturals is a natural,
LEMMA SumIsNat ==
  ASSUME NEW S, IsFiniteSet(S), NEW w, \A x \in S : w[x] \in Nat
  PROVE  SumFunctionOnSet(w, S) \in Nat
<1>1. PICK g : Sums(w, S, g)
  BY SumsExist
<1> DEFINE D == {s \in SUBSET S : g[s] \notin Nat}
<1> SUFFICES ASSUME D # {} PROVE FALSE
  <2>1. SumFunctionOnSet(w, S) = g[S]
    BY <1>1, SumIsInTable
  <2> QED BY <2>1
<1>2. PICK s \in D : \A u \in D : u \subseteq s => u = s
  <2>1. D \in SUBSET SUBSET S
    OBVIOUS
  <2> HIDE DEF D
  <2> QED BY <2>1, MinimalSubset
<1>3. g[s] = Unfold(w, g, s)
  BY <1>1, <1>2 DEF Sums
<1>4. s # {}
  BY <1>2, <1>3 DEF Unfold
<1> DEFINE x == CHOOSE y \in s : TRUE
<1>5. x \in s /\ x \in S
  BY <1>2, <1>4
<1>6. g[s \ {x}] \in Nat
  BY <1>2, <1>5
<1> QED
  BY <1>2, <1>3, <1>4, <1>5, <1>6 DEF Unfold

\* ... and it does not matter which element is taken away first.
LEMMA SumTakesAny ==
  ASSUME NEW S, IsFiniteSet(S), NEW w, \A x \in S : w[x] \in Nat, NEW a \in S
  PROVE  /\ SumFunctionOnSet(w, S) = w[a] + SumFunctionOnSet(w, S \ {a})
         /\ SumFunctionOnSet(w, S \ {a}) \in Nat
<1>1. PICK g : Sums(w, S, g)
  BY SumsExist
<1>2. \A T \in SUBSET S : SumFunctionOnSet(w, T) = g[T] /\ g[T] \in Nat
  <2> SUFFICES ASSUME NEW T \in SUBSET S PROVE SumFunctionOnSet(w, T) = g[T] /\ g[T] \in Nat
    OBVIOUS
  <2>1. SumFunctionOnSet(w, T) = g[T]
    BY <1>1, SumIsInTable
  <2>2. SumFunctionOnSet(w, T) \in Nat
    BY FS_Subset, SumIsNat
  <2> QED BY <2>1, <2>2
<1> DEFINE D == {T \in SUBSET S : \E x \in T : g[T] # w[x] + g[T \ {x}]}
<1> SUFFICES ASSUME D # {} PROVE FALSE
  BY <1>2
<1>3. PICK T \in D : \A U \in D : U \subseteq T => U = T
  <2>1. D \in SUBSET SUBSET S
    OBVIOUS
  <2> HIDE DEF D
  <2> QED BY <2>1, MinimalSubset
<1>4. PICK x \in T : g[T] # w[x] + g[T \ {x}]
  BY <1>3
<1> DEFINE z == CHOOSE y \in T : TRUE
<1>5. z \in T /\ g[T] = w[z] + g[T \ {z}]
  BY <1>1, <1>3, <1>4 DEF Sums, Unfold
<1> HIDE DEF z
<1>6. z # x
  BY <1>4, <1>5
<1>7. T \ {z} \notin D /\ T \ {x} \notin D /\ T \ {z} \in SUBSET S /\ T \ {x} \in SUBSET S
  BY <1>3, <1>4, <1>5
<1>8. (T \ {z}) \ {x} = (T \ {x}) \ {z}
  OBVIOUS
<1>9. /\ g[T \ {z}] = w[x] + g[(T \ {z}) \ {x}]
      /\ g[T \ {x}] = w[z] + g[(T \ {z}) \ {x}]
  BY <1>4, <1>5, <1>6, <1>7, <1>8
<1>10. w[x] \in Nat /\ w[z] \in Nat /\ g[(T \ {z}) \ {x}] \in Nat
  BY <1>2, <1>3, <1>4, <1>5
<1> QED BY <1>4, <1>5, <1>9, <1>10

\* Sums of two parts.
LEMMA SumOfParts ==
  ASSUME NEW S, NEW T, IsFiniteSet(S), IsFiniteSet(T), S \cap T = {},
         NEW w, \A x \in S \cup T : w[x] \in Nat
  PROVE  SumFunctionOnSet(w, S \cup T) = SumFunctionOnSet(w, S) + SumFunctionOnSet(w, T)
<1> DEFINE D == {U \in SUBSET S : SumFunctionOnSet(w, U \cup T)
                                  = SumFunctionOnSet(w, U) + SumFunctionOnSet(w, T)}
<1>0. SumFunctionOnSet(w, T) \in Nat
  BY SumIsNat
<1>1. {} \in D
  <2>1. {} \cup T = T
    OBVIOUS
  <2> QED BY <1>0, <2>1, SumOfNothing
<1>2. ASSUME NEW U \in SUBSET S, NEW x \in U, U \ {x} \in D PROVE U \in D
  <2>1. IsFiniteSet(U) /\ IsFiniteSet(U \cup T) /\ x \in U \cup T
    BY FS_Subset, FS_Union
  <2>2. (U \cup T) \ {x} = (U \ {x}) \cup T
    OBVIOUS
  <2>3. /\ SumFunctionOnSet(w, U) = w[x] + SumFunctionOnSet(w, U \ {x})
        /\ SumFunctionOnSet(w, U \ {x}) \in Nat
    BY <2>1, SumTakesAny
  <2>4. SumFunctionOnSet(w, U \cup T) = w[x] + SumFunctionOnSet(w, (U \ {x}) \cup T)
    BY <2>1, <2>2, SumTakesAny
  <2>5. w[x] \in Nat
    OBVIOUS
  <2> QED BY <1>0, <1>2, <2>3, <2>4, <2>5
<1> HIDE DEF D
<1>3. \A U \in SUBSET S : \A x \in U : U \ {x} \in D => U \in D
  BY <1>2
<1>4. \A U \in SUBSET S : U \in D
  BY <1>1, <1>3, EverySubset
<1>5. S \in D
  BY <1>4
<1> QED BY <1>5 DEF D

\* A part is no more than the whole.
LEMMA SumOfSubset ==
  ASSUME NEW S, IsFiniteSet(S), NEW T \in SUBSET S, NEW w, \A x \in S : w[x] \in Nat
  PROVE  SumFunctionOnSet(w, T) <= SumFunctionOnSet(w, S)
<1> DEFINE R == S \ T
<1>1. IsFiniteSet(T) /\ IsFiniteSet(R) /\ T \cap R = {} /\ T \cup R = S
  BY FS_Subset
<1> HIDE DEF R
<1>2. SumFunctionOnSet(w, T) \in Nat /\ SumFunctionOnSet(w, R) \in Nat
  BY <1>1, SumIsNat
<1>3. \A x \in T \cup R : w[x] \in Nat
  BY <1>1
<1>4. SumFunctionOnSet(w, T \cup R) = SumFunctionOnSet(w, T) + SumFunctionOnSet(w, R)
  BY <1>1, <1>3, SumOfParts
<1>5. SumFunctionOnSet(w, T \cup R) = SumFunctionOnSet(w, S)
  BY <1>1, Zenon
<1> QED BY <1>2, <1>4, <1>5

\* Term by term: a sum of sums,
LEMMA SumOfSums ==
  ASSUME NEW S, IsFiniteSet(S), NEW u, NEW v, NEW w,
         \A x \in S : v[x] \in Nat /\ w[x] \in Nat /\ u[x] = v[x] + w[x]
  PROVE  SumFunctionOnSet(u, S) = SumFunctionOnSet(v, S) + SumFunctionOnSet(w, S)
<1> DEFINE D == {U \in SUBSET S : SumFunctionOnSet(u, U)
                                  = SumFunctionOnSet(v, U) + SumFunctionOnSet(w, U)}
<1>1. {} \in D
  BY SumOfNothing
<1>2. ASSUME NEW U \in SUBSET S, NEW x \in U, U \ {x} \in D PROVE U \in D
  <2>1. IsFiniteSet(U) /\ \A y \in U : u[y] \in Nat
    BY FS_Subset
  <2>2. /\ SumFunctionOnSet(u, U) = u[x] + SumFunctionOnSet(u, U \ {x})
        /\ SumFunctionOnSet(u, U \ {x}) \in Nat
    BY <2>1, SumTakesAny
  <2>3. /\ SumFunctionOnSet(v, U) = v[x] + SumFunctionOnSet(v, U \ {x})
        /\ SumFunctionOnSet(v, U \ {x}) \in Nat
    BY <2>1, SumTakesAny
  <2>4. /\ SumFunctionOnSet(w, U) = w[x] + SumFunctionOnSet(w, U \ {x})
        /\ SumFunctionOnSet(w, U \ {x}) \in Nat
    BY <2>1, SumTakesAny
  <2>5. v[x] \in Nat /\ w[x] \in Nat /\ u[x] = v[x] + w[x]
    OBVIOUS
  <2> QED BY <1>2, <2>2, <2>3, <2>4, <2>5
<1> HIDE DEF D
<1>3. S \in D
  BY <1>1, <1>2, EverySubset
<1> QED BY <1>3 DEF D

\* ... a multiple of a sum,
LEMMA SumOfMultiples ==
  ASSUME NEW S, IsFiniteSet(S), NEW u, NEW w, NEW n \in Nat,
         \A x \in S : w[x] \in Nat /\ u[x] = n * w[x]
  PROVE  SumFunctionOnSet(u, S) = n * SumFunctionOnSet(w, S)
<1> DEFINE D == {U \in SUBSET S : SumFunctionOnSet(u, U) = n * SumFunctionOnSet(w, U)}
<1>0. \A a, b \in Nat : n * a \in Nat /\ n * (a + b) = n * a + n * b
  OBVIOUS
<1>1. {} \in D
  BY SumOfNothing
<1>2. ASSUME NEW U \in SUBSET S, NEW x \in U, U \ {x} \in D PROVE U \in D
  <2>1. IsFiniteSet(U) /\ \A y \in U : u[y] \in Nat
    BY <1>0, FS_Subset
  <2>2. /\ SumFunctionOnSet(u, U) = u[x] + SumFunctionOnSet(u, U \ {x})
        /\ SumFunctionOnSet(u, U \ {x}) \in Nat
    BY <2>1, SumTakesAny
  <2>3. /\ SumFunctionOnSet(w, U) = w[x] + SumFunctionOnSet(w, U \ {x})
        /\ SumFunctionOnSet(w, U \ {x}) \in Nat
    BY <2>1, SumTakesAny
  <2>4. w[x] \in Nat /\ u[x] = n * w[x]
    OBVIOUS
  <2>5. n * (w[x] + SumFunctionOnSet(w, U \ {x})) = n * w[x] + n * SumFunctionOnSet(w, U \ {x})
    BY <1>0, <2>3, <2>4
  <2> QED BY <1>2, <2>2, <2>3, <2>4, <2>5
<1> HIDE DEF D
<1>3. S \in D
  BY <1>1, <1>2, EverySubset
<1> QED BY <1>3 DEF D

\* ... a sum that is nowhere larger,
LEMMA SumOfSmaller ==
  ASSUME NEW S, IsFiniteSet(S), NEW v, NEW w,
         \A x \in S : v[x] \in Nat /\ w[x] \in Nat /\ v[x] <= w[x]
  PROVE  SumFunctionOnSet(v, S) <= SumFunctionOnSet(w, S)
<1> DEFINE D == {U \in SUBSET S : SumFunctionOnSet(v, U) <= SumFunctionOnSet(w, U)}
<1>1. {} \in D
  BY SumOfNothing
<1>2. ASSUME NEW U \in SUBSET S, NEW x \in U, U \ {x} \in D PROVE U \in D
  <2>1. IsFiniteSet(U)
    BY FS_Subset
  <2>2. /\ SumFunctionOnSet(v, U) = v[x] + SumFunctionOnSet(v, U \ {x})
        /\ SumFunctionOnSet(v, U \ {x}) \in Nat
    BY <2>1, SumTakesAny
  <2>3. /\ SumFunctionOnSet(w, U) = w[x] + SumFunctionOnSet(w, U \ {x})
        /\ SumFunctionOnSet(w, U \ {x}) \in Nat
    BY <2>1, SumTakesAny
  <2>4. v[x] \in Nat /\ w[x] \in Nat /\ v[x] <= w[x]
    OBVIOUS
  <2> QED BY <1>2, <2>2, <2>3, <2>4
<1> HIDE DEF D
<1>3. S \in D
  BY <1>1, <1>2, EverySubset
<1> QED BY <1>3 DEF D

\* ... what is zero adds nothing,
LEMMA SumSkipsZeros ==
  ASSUME NEW S, IsFiniteSet(S), NEW T \in SUBSET S, NEW w, \A x \in S : w[x] \in Nat,
         \A x \in S \ T : w[x] = 0
  PROVE  SumFunctionOnSet(w, S) = SumFunctionOnSet(w, T)
<1> DEFINE R == S \ T
<1>1. IsFiniteSet(T) /\ IsFiniteSet(R) /\ T \cap R = {} /\ T \cup R = S
  BY FS_Subset
<1>2. \A x \in R : w[x] \in Nat /\ w[x] = 0 * w[x]
  OBVIOUS
<1> HIDE DEF R
<1>3. SumFunctionOnSet(w, R) \in Nat /\ SumFunctionOnSet(w, T) \in Nat
  BY <1>1, SumIsNat
<1>4. SumFunctionOnSet(w, R) = 0 * SumFunctionOnSet(w, R)
  BY <1>1, <1>2, SumOfMultiples
<1>5. SumFunctionOnSet(w, R) = 0
  <2>1. \A n \in Nat : 0 * n = 0
    OBVIOUS
  <2> QED BY <1>3, <1>4, <2>1
<1>6. \A x \in T \cup R : w[x] \in Nat
  BY <1>1
<1>7. SumFunctionOnSet(w, T \cup R) = SumFunctionOnSet(w, T) + SumFunctionOnSet(w, R)
  BY <1>1, <1>6, SumOfParts
<1>8. SumFunctionOnSet(w, S) = SumFunctionOnSet(w, T) + SumFunctionOnSet(w, R)
  BY <1>1, <1>7, Zenon
<1> QED BY <1>3, <1>5, <1>8

\* ... terms that are each within half of s keep their sum within half of s for each,
LEMMA SumOfRounded ==
  ASSUME NEW S, IsFiniteSet(S), NEW s \in Nat, NEW v, NEW w,
         \A x \in S : /\ v[x] \in Nat /\ w[x] \in Nat
                      /\ 2 * (s * v[x]) <= 2 * w[x] + s /\ 2 * w[x] <= 2 * (s * v[x]) + s
  PROVE  LET V == SumFunctionOnSet(v, S)
             W == SumFunctionOnSet(w, S)
         IN  /\ 2 * (s * V) <= 2 * W + s * Cardinality(S)
             /\ 2 * W <= 2 * (s * V) + s * Cardinality(S)
<1> DEFINE near(U) == /\ 2 * (s * SumFunctionOnSet(v, U)) <= 2 * SumFunctionOnSet(w, U) + s * Cardinality(U)
                      /\ 2 * SumFunctionOnSet(w, U) <= 2 * (s * SumFunctionOnSet(v, U)) + s * Cardinality(U)
           D == {U \in SUBSET S : near(U)}
<1>0. \A a, b \in Nat : s * a \in Nat /\ s * (a + b) = s * a + s * b /\ s * (a + 1) = s * a + s
  OBVIOUS
<1>1. {} \in D
  <2>1. SumFunctionOnSet(v, {}) = 0 /\ SumFunctionOnSet(w, {}) = 0 /\ Cardinality({}) = 0
    BY SumOfNothing, FS_EmptySet
  <2> QED BY <2>1
<1>2. ASSUME NEW U \in SUBSET S, NEW x \in U, U \ {x} \in D PROVE U \in D
  <2>1. IsFiniteSet(U) /\ IsFiniteSet(U \ {x})
    BY FS_Subset
  <2>2. PICK a \in Nat : /\ a = SumFunctionOnSet(v, U \ {x})
                        /\ SumFunctionOnSet(v, U) = v[x] + a
    BY <2>1, SumTakesAny
  <2>3. PICK b \in Nat : /\ b = SumFunctionOnSet(w, U \ {x})
                        /\ SumFunctionOnSet(w, U) = w[x] + b
    BY <2>1, SumTakesAny
  <2>4. PICK n \in Nat : n = Cardinality(U \ {x}) /\ Cardinality(U) = n + 1
    BY <2>1, FS_RemoveElement, FS_CardinalityType
  <2>5. PICK y \in Nat : y = v[x]
    OBVIOUS
  <2>6. PICK z \in Nat : z = w[x]
    OBVIOUS
  <2>7. 2 * (s * y) <= 2 * z + s /\ 2 * z <= 2 * (s * y) + s
    BY <2>5, <2>6
  <2>8. 2 * (s * a) <= 2 * b + s * n /\ 2 * b <= 2 * (s * a) + s * n
    BY <1>2, <2>2, <2>3, <2>4
  <2>9. /\ s * (y + a) = s * y + s * a /\ s * (n + 1) = s * n + s
        /\ s * y \in Nat /\ s * a \in Nat /\ s * n \in Nat
    BY <1>0
  <2>10. /\ 2 * (s * (y + a)) <= 2 * (z + b) + s * (n + 1)
         /\ 2 * (z + b) <= 2 * (s * (y + a)) + s * (n + 1)
    BY <2>7, <2>8, <2>9
  <2> QED BY <2>2, <2>3, <2>4, <2>5, <2>6, <2>10
<1> HIDE DEF D
<1>3. S \in D
  BY <1>1, <1>2, EverySubset
<1> QED BY <1>3 DEF D

\* ... and one that is smaller everywhere.
LEMMA SumOfLess ==
  ASSUME NEW S, IsFiniteSet(S), S # {}, NEW v, NEW w,
         \A x \in S : v[x] \in Nat /\ w[x] \in Nat /\ v[x] < w[x]
  PROVE  SumFunctionOnSet(v, S) < SumFunctionOnSet(w, S)
<1>1. PICK x \in S : TRUE
  OBVIOUS
<1>2. IsFiniteSet(S \ {x})
  BY FS_Subset
<1>3. SumFunctionOnSet(v, S \ {x}) <= SumFunctionOnSet(w, S \ {x})
  BY <1>2, SumOfSmaller
<1>4. /\ SumFunctionOnSet(v, S) = v[x] + SumFunctionOnSet(v, S \ {x})
      /\ SumFunctionOnSet(v, S \ {x}) \in Nat
  BY SumTakesAny
<1>5. /\ SumFunctionOnSet(w, S) = w[x] + SumFunctionOnSet(w, S \ {x})
      /\ SumFunctionOnSet(w, S \ {x}) \in Nat
  BY SumTakesAny
<1> QED BY <1>3, <1>4, <1>5

\* A sum is at least each of its terms, so it is zero only when they all are.
LEMMA SumIsPositive ==
  ASSUME NEW S, IsFiniteSet(S), NEW w, \A x \in S : w[x] \in Nat
  PROVE  /\ \A x \in S : w[x] <= SumFunctionOnSet(w, S)
         /\ SumFunctionOnSet(w, S) > 0 <=> \E x \in S : w[x] > 0
<1>1. \A x \in S : w[x] <= SumFunctionOnSet(w, S)
  <2> SUFFICES ASSUME NEW x \in S PROVE w[x] <= SumFunctionOnSet(w, S)
    OBVIOUS
  <2>1. /\ SumFunctionOnSet(w, S) = w[x] + SumFunctionOnSet(w, S \ {x})
        /\ SumFunctionOnSet(w, S \ {x}) \in Nat
    BY SumTakesAny
  <2> QED BY <2>1
<1>2. SumFunctionOnSet(w, S) \in Nat
  BY SumIsNat
<1>3. ASSUME \A x \in S : w[x] = 0 PROVE SumFunctionOnSet(w, S) = 0
  <2>1. \A x \in S : w[x] = 0 * w[x]
    BY <1>3
  <2>2. SumFunctionOnSet(w, S) = 0 * SumFunctionOnSet(w, S)
    BY <2>1, SumOfMultiples
  <2> QED BY <1>2, <2>2
<1> QED BY <1>1, <1>2, <1>3

\* The elements of S that t sends to v.
Group(t, S, v) == {x \in S : t[x] = v}

\* What the groups of a set add up to is what the set adds up to,
LEMMA SumByGroups ==
  ASSUME NEW S, IsFiniteSet(S), NEW w, \A x \in S : w[x] \in Nat,
         NEW V, IsFiniteSet(V), NEW t, \A x \in S : t[x] \in V,
         NEW u, \A v \in V : u[v] = SumFunctionOnSet(w, Group(t, S, v))
  PROVE  SumFunctionOnSet(u, V) = SumFunctionOnSet(w, S)
<1> DEFINE group(v) == Group(t, S, v)
           inside(U) == {x \in S : t[x] \in U}
           D == {U \in SUBSET V : SumFunctionOnSet(u, U) = SumFunctionOnSet(w, inside(U))}
<1>1. {} \in D
  <2>1. inside({}) = {}
    OBVIOUS
  <2> QED BY <2>1, SumOfNothing
<1>2. \A v \in V : u[v] = SumFunctionOnSet(w, group(v)) /\ u[v] \in Nat
  <2> SUFFICES ASSUME NEW v \in V PROVE SumFunctionOnSet(w, group(v)) \in Nat
    OBVIOUS
  <2>1. group(v) \in SUBSET S
    BY DEF Group
  <2> HIDE DEF group
  <2>2. IsFiniteSet(group(v)) /\ \A x \in group(v) : w[x] \in Nat
    BY <2>1, FS_Subset
  <2> QED BY <2>2, SumIsNat
<1>3. ASSUME NEW U \in SUBSET V, NEW v \in U, U \ {v} \in D PROVE U \in D
  <2>1. IsFiniteSet(U) /\ \A y \in U : u[y] \in Nat
    BY <1>2, FS_Subset
  <2>2. SumFunctionOnSet(u, U) = u[v] + SumFunctionOnSet(u, U \ {v})
    BY <2>1, SumTakesAny
  <2>3. /\ inside(U) = group(v) \cup inside(U \ {v}) /\ group(v) \cap inside(U \ {v}) = {}
        /\ group(v) \in SUBSET S /\ inside(U \ {v}) \in SUBSET S
    BY DEF Group
  <2> DEFINE G == group(v)
             R == inside(U \ {v})
  <2>4. SumFunctionOnSet(u, U \ {v}) = SumFunctionOnSet(w, R) /\ u[v] = SumFunctionOnSet(w, G)
    BY <1>2, <1>3
  <2> HIDE DEF group, inside, G, R
  <2>5. inside(U) = G \cup R /\ G \cap R = {} /\ G \in SUBSET S /\ R \in SUBSET S
    BY <2>3 DEF G, R
  <2>6. IsFiniteSet(G) /\ IsFiniteSet(R) /\ \A x \in G \cup R : w[x] \in Nat
    BY <2>5, FS_Subset
  <2>7. SumFunctionOnSet(w, G \cup R) = SumFunctionOnSet(w, G) + SumFunctionOnSet(w, R)
    BY <2>5, <2>6, SumOfParts
  <2>8. U \in D <=> SumFunctionOnSet(u, U) = SumFunctionOnSet(w, inside(U))
    OBVIOUS
  <2> QED BY <2>2, <2>4, <2>5, <2>7, <2>8
<1>4. \A U \in SUBSET V : \A v \in U : U \ {v} \in D => U \in D
  BY <1>3
<1> HIDE DEF D
<1>5. \A U \in SUBSET V : U \in D
  BY <1>1, <1>4, EverySubset
<1>6. V \in D
  BY <1>5
<1>7. inside(V) = S
  OBVIOUS
<1> QED BY <1>6, <1>7 DEF D

\* ... how many there are is a sum of ones,
LEMMA CardinalityIsSum ==
  ASSUME NEW S, IsFiniteSet(S), NEW w, \A x \in S : w[x] = 1
  PROVE  SumFunctionOnSet(w, S) = Cardinality(S)
<1> DEFINE D == {U \in SUBSET S : SumFunctionOnSet(w, U) = Cardinality(U)}
<1>1. {} \in D
  BY SumOfNothing, FS_EmptySet
<1>2. ASSUME NEW U \in SUBSET S, NEW x \in U, U \ {x} \in D PROVE U \in D
  <2>1. IsFiniteSet(U)
    BY FS_Subset
  <2>2. SumFunctionOnSet(w, U) = 1 + SumFunctionOnSet(w, U \ {x})
    BY <2>1, SumTakesAny
  <2>3. Cardinality(U \ {x}) = Cardinality(U) - 1 /\ Cardinality(U) \in Nat
    BY <2>1, FS_RemoveElement, FS_CardinalityType
  <2> QED BY <1>2, <2>2, <2>3
<1> HIDE DEF D
<1>3. \A U \in SUBSET S : \A x \in U : U \ {x} \in D => U \in D
  BY <1>2
<1>4. \A U \in SUBSET S : U \in D
  BY <1>1, <1>3, EverySubset
<1>5. S \in D
  BY <1>4
<1> QED BY <1>5 DEF D

\* ... and so the groups of a set count what the set counts.
LEMMA CountByGroups ==
  ASSUME NEW S, IsFiniteSet(S), NEW V, IsFiniteSet(V), NEW t, \A x \in S : t[x] \in V,
         NEW u, \A v \in V : u[v] = Cardinality(Group(t, S, v))
  PROVE  SumFunctionOnSet(u, V) = Cardinality(S)
<1> DEFINE w == [x \in S |-> 1]
<1>1. \A x \in S : w[x] = 1 /\ w[x] \in Nat
  OBVIOUS
<1> HIDE DEF w
<1>2. ASSUME NEW v \in V PROVE u[v] = SumFunctionOnSet(w, Group(t, S, v))
  <2> DEFINE G == Group(t, S, v)
  <2>1. G \in SUBSET S /\ u[v] = Cardinality(G)
    BY DEF Group
  <2> HIDE DEF G
  <2>2. IsFiniteSet(G) /\ \A x \in G : w[x] = 1
    BY <1>1, <2>1, FS_Subset
  <2>3. SumFunctionOnSet(w, G) = Cardinality(G)
    BY <2>2, CardinalityIsSum
  <2> QED BY <2>1, <2>3 DEF G
<1>3. \A v \in V : u[v] = SumFunctionOnSet(w, Group(t, S, v))
  BY <1>2
<1>4. \A x \in S : w[x] \in Nat
  BY <1>1
<1>5. SumFunctionOnSet(u, V) = SumFunctionOnSet(w, S)
  BY <1>3, <1>4, SumByGroups
<1> QED BY <1>1, <1>5, CardinalityIsSum

\* The ratio of two sums lies between the ratios of their terms.
LEMMA RatioOfSums ==
  ASSUME NEW S, IsFiniteSet(S), S # {}, NEW a, NEW b,
         \A x \in S : a[x] \in Nat /\ b[x] \in Nat
  PROVE  LET A == SumFunctionOnSet(a, S)
             B == SumFunctionOnSet(b, S)
         IN  /\ \E x \in S : a[x] * B >= A * b[x]
             /\ \E x \in S : a[x] * B <= A * b[x]
<1> DEFINE A == SumFunctionOnSet(a, S)
           B == SumFunctionOnSet(b, S)
           u == [x \in S |-> a[x] * B]
           v == [x \in S |-> A * b[x]]
<1>0. \A m, n \in Nat : m * n \in Nat /\ m * n = n * m
  OBVIOUS
<1>1. A \in Nat /\ B \in Nat
  BY SumIsNat
<1>2. /\ \A x \in S : u[x] = a[x] * B /\ v[x] = A * b[x]
      /\ A = SumFunctionOnSet(a, S) /\ B = SumFunctionOnSet(b, S)
  OBVIOUS
<1> HIDE DEF A, B, u, v
<1>3. \A x \in S : /\ u[x] \in Nat /\ u[x] = B * a[x] /\ a[x] \in Nat
                   /\ v[x] \in Nat /\ v[x] = A * b[x] /\ b[x] \in Nat
  BY <1>0, <1>1, <1>2
<1>4. SumFunctionOnSet(u, S) = B * A /\ SumFunctionOnSet(v, S) = A * B
  BY <1>1, <1>2, <1>3, SumOfMultiples
<1>5. SumFunctionOnSet(u, S) = SumFunctionOnSet(v, S) /\ SumFunctionOnSet(u, S) \in Nat
  BY <1>0, <1>1, <1>4
<1>6. \E x \in S : u[x] >= v[x]
  <2> SUFFICES ASSUME \A x \in S : u[x] < v[x] PROVE FALSE
    BY <1>3
  <2>1. SumFunctionOnSet(u, S) < SumFunctionOnSet(v, S)
    BY <1>3, SumOfLess
  <2> QED BY <1>5, <2>1
<1>7. \E x \in S : u[x] <= v[x]
  <2> SUFFICES ASSUME \A x \in S : v[x] < u[x] PROVE FALSE
    BY <1>3
  <2>1. SumFunctionOnSet(v, S) < SumFunctionOnSet(u, S)
    BY <1>3, SumOfLess
  <2> QED BY <1>5, <2>1
<1> QED BY <1>2, <1>6, <1>7

(***************************************************************************)
(* Counting.                                                               *)
(***************************************************************************)
\* A table of a finite set has finitely many values.
LEMMA ValuesAreFinite ==
  ASSUME NEW S, IsFiniteSet(S), NEW f
  PROVE  IsFiniteSet({f[x] : x \in S})
<1> DEFINE T == {f[x] : x \in S}
           g == [x \in S |-> f[x]]
<1>1. g \in Surjection(S, T)
  BY DEF Surjection
<1> HIDE DEF g, T
<1>2. IsFiniteSet(T)
  BY <1>1, FS_Surjection
<1> QED BY <1>2 DEF T

\* Two parts make up the whole.
LEMMA CountOfParts ==
  ASSUME NEW S, IsFiniteSet(S), NEW A, NEW B, A \cup B = S, A \cap B = {}
  PROVE  /\ Cardinality(A) + Cardinality(B) = Cardinality(S)
         /\ Cardinality(A) \in Nat /\ Cardinality(B) \in Nat
<1>1. A \in SUBSET S /\ B \in SUBSET S
  OBVIOUS
<1>2. IsFiniteSet(A) /\ IsFiniteSet(B)
  BY <1>1, FS_Subset
<1>3. Cardinality(A \cup B) = Cardinality(A) + Cardinality(B) - Cardinality(A \cap B)
  BY <1>2, FS_Union
<1>4. Cardinality(A \cup B) = Cardinality(S) /\ Cardinality(A \cap B) = 0
  BY FS_EmptySet
<1>5. Cardinality(A) \in Nat /\ Cardinality(B) \in Nat
  BY <1>2, FS_CardinalityType
<1> QED BY <1>3, <1>4, <1>5

\* Elements of either colour are as many as there are of each.
LEMMA TwoColours ==
  ASSUME NEW S, IsFiniteSet(S), NEW red, NEW amber, S \subseteq red \cup amber, red \cap amber = {}
  PROVE  /\ Cardinality(S \cap red) + Cardinality(S \cap amber) = Cardinality(S)
         /\ Cardinality(S \cap red) \in Nat /\ Cardinality(S \cap amber) \in Nat
         /\ Cardinality(S \cap red) > 0 <=> S \cap red # {}
<1> DEFINE A == S \cap red
           B == S \cap amber
<1>1. A \cup B = S /\ A \cap B = {} /\ A \in SUBSET S
  OBVIOUS
<1> HIDE DEF A, B
<1>2. /\ Cardinality(A) + Cardinality(B) = Cardinality(S)
      /\ Cardinality(A) \in Nat /\ Cardinality(B) \in Nat
  BY <1>1, CountOfParts
<1>3. Cardinality(A) = 0 <=> A = {}
  BY <1>1, FS_Subset, FS_EmptySet
<1> QED BY <1>2, <1>3 DEF A, B

\* Clusters, each the one of its members, count every element once.
LEMMA ClustersCount ==
  ASSUME NEW S, IsFiniteSet(S), NEW cluster, NEW C,
         \A x \in S : cluster[x] \in C, \A c \in C : \E x \in S : c = cluster[x],
         \A c \in C : c.members \in SUBSET S /\ \A x \in S : x \in c.members <=> cluster[x] = c,
         NEW u, \A c \in C : u[c] = Cardinality(c.members)
  PROVE  /\ SumFunctionOnSet(u, C) = Cardinality(S)
         /\ UNION {c.members : c \in C} = S
<1>1. IsFiniteSet(C)
  <2>1. C = {cluster[x] : x \in S}
    OBVIOUS
  <2>2. IsFiniteSet({cluster[x] : x \in S})
    BY ValuesAreFinite
  <2> QED BY <2>1, <2>2
<1>2. \A x \in S : cluster[x] \in C
  OBVIOUS
<1>3. ASSUME NEW c \in C PROVE u[c] = Cardinality(Group(cluster, S, c))
  <2>1. Group(cluster, S, c) = c.members
    BY DEF Group
  <2> QED BY <2>1
<1>4. SumFunctionOnSet(u, C) = Cardinality(S)
  BY <1>1, <1>2, <1>3, CountByGroups
<1>5. UNION {c.members : c \in C} = S
  OBVIOUS
<1> QED BY <1>4, <1>5

(***************************************************************************)
(* Lists cut to their first entries.                                       *)
(***************************************************************************)
\* R orders S, one way each two.
Orders(R, S) ==
  /\ \A x \in S : <<x, x>> \notin R
  /\ \A x, y \in S : x # y => <<x, y>> \in R \/ <<y, x>> \in R
  /\ \A x, y, z \in S : <<x, y>> \in R /\ <<y, z>> \in R => <<x, z>> \in R

\* A finite set has a first element and a last.
LEMMA FirstAndLast ==
  ASSUME NEW S, IsFiniteSet(S), S # {}, NEW R, Orders(R, S)
  PROVE  /\ \E x \in S : \A y \in S : y = x \/ <<x, y>> \in R
         /\ \E x \in S : \A y \in S : y = x \/ <<y, x>> \in R
<1> DEFINE first(T) == \E x \in T : \A y \in T : y = x \/ <<x, y>> \in R
           last(T) == \E x \in T : \A y \in T : y = x \/ <<y, x>> \in R
           D == {T \in SUBSET S : T = {} \/ (first(T) /\ last(T))}
<1>1. {} \in D
  OBVIOUS
<1>2. ASSUME NEW T \in SUBSET S, NEW z \in T, T \ {z} \in D PROVE T \in D
  <2>1. CASE T \ {z} = {}
    <3>1. first(T) /\ last(T)
      BY <2>1
    <3> QED BY <3>1
  <2>2. CASE first(T \ {z}) /\ last(T \ {z})
    <3>1. PICK x \in T \ {z} : \A y \in T \ {z} : y = x \/ <<x, y>> \in R
      BY <2>2
    <3>2. first(T)
      <4>1. CASE <<x, z>> \in R
        BY <3>1, <4>1
      <4>2. CASE <<z, x>> \in R
        BY <3>1, <4>2 DEF Orders
      <4> QED BY <3>1, <4>1, <4>2 DEF Orders
    <3>3. PICK x2 \in T \ {z} : \A y \in T \ {z} : y = x2 \/ <<y, x2>> \in R
      BY <2>2
    <3>4. last(T)
      <4>1. CASE <<z, x2>> \in R
        BY <3>3, <4>1
      <4>2. CASE <<x2, z>> \in R
        BY <3>3, <4>2 DEF Orders
      <4> QED BY <3>3, <4>1, <4>2 DEF Orders
    <3> QED BY <3>2, <3>4
  <2> QED BY <1>2, <2>1, <2>2
<1> HIDE DEF D
<1>3. S \in D
  BY <1>1, <1>2, EverySubset
<1> QED BY <1>3 DEF D

\* What of a list has fewer than n entries before it: all of it is before the rest, and
\* where there is a rest there are n of it.
LEMMA FirstFew ==
  ASSUME NEW S, IsFiniteSet(S), NEW R, Orders(R, S), NEW n \in Nat,
         NEW ahead, \A x \in S : ahead[x] \in SUBSET S /\ \A y \in S : y \in ahead[x] <=> <<y, x>> \in R,
         NEW few \in SUBSET S, \A x \in S : x \in few <=> Cardinality(ahead[x]) < n
  PROVE  /\ \A x \in few, y \in S \ few : <<x, y>> \in R
         /\ few = S \/ Cardinality(few) = n
<1> DEFINE rest == S \ few
<1>1. \A x \in S : ahead[x] \in SUBSET S
  OBVIOUS
<1>2. \A T \in SUBSET S : IsFiniteSet(T) /\ Cardinality(T) \in Nat
  BY FS_Subset, FS_CardinalityType
<1>3. \A T, U \in SUBSET S : T \subseteq U => Cardinality(T) <= Cardinality(U)
  BY <1>2, FS_Subset
<1>4. ASSUME NEW x \in few, NEW y \in rest PROVE <<x, y>> \in R
  <2> SUFFICES ASSUME <<y, x>> \in R PROVE FALSE
    BY DEF Orders
  <2>1. ahead[y] \subseteq ahead[x]
    BY DEF Orders
  <2>2. Cardinality(ahead[y]) <= Cardinality(ahead[x])
    BY <1>1, <1>3, <2>1
  <2>3. Cardinality(ahead[x]) < n /\ ~(Cardinality(ahead[y]) < n)
    OBVIOUS
  <2>4. Cardinality(ahead[x]) \in Nat /\ Cardinality(ahead[y]) \in Nat
    BY <1>1, <1>2
  <2> QED BY <2>2, <2>3, <2>4
<1>5. ASSUME rest # {} PROVE Cardinality(few) = n
  <2>0. few \in SUBSET S /\ rest \in SUBSET S /\ Orders(R, rest) /\ Orders(R, few)
    BY DEF Orders
  <2>1. PICK r \in rest : \A y \in rest : y = r \/ <<r, y>> \in R
    <3>1. IsFiniteSet(rest)
      BY <1>2, <2>0
    <3> HIDE DEF rest
    <3> QED BY <1>5, <2>0, <3>1, FirstAndLast
  <2>2. ahead[r] = few
    <3>1. r \in S /\ ahead[r] \in SUBSET S /\ \A y \in S : y \in ahead[r] <=> <<y, r>> \in R
      OBVIOUS
    <3>2. \A y \in rest : <<y, r>> \notin R
      BY <2>1, <3>1 DEF Orders
    <3> QED BY <1>4, <3>1, <3>2
  <2>3. Cardinality(few) \in Nat /\ Cardinality(few) >= n
    <3>1. ~(Cardinality(ahead[r]) < n)
      BY <2>1
    <3> QED BY <1>2, <2>0, <2>2, <3>1
  <2>4. CASE few = {}
    <3>1. Cardinality({}) = 0
      BY FS_EmptySet
    <3> QED BY <2>3, <2>4, <3>1
  <2>5. CASE few # {}
    <3>1. PICK l \in few : \A y \in few : y = l \/ <<y, l>> \in R
      <4> QED BY <1>2, <2>0, <2>5, FirstAndLast
    <3>2. few \ {l} \subseteq ahead[l] /\ few \ {l} \in SUBSET S /\ l \in S
      BY <3>1
    <3>3. Cardinality(ahead[l]) < n
      BY <3>1
    <3>4. Cardinality(few \ {l}) <= Cardinality(ahead[l]) /\ Cardinality(ahead[l]) \in Nat
      BY <1>1, <1>2, <1>3, <3>2
    <3>5. Cardinality(few \ {l}) = Cardinality(few) - 1
      <4> QED BY <1>2, <2>0, <3>1, FS_RemoveElement
    <3> QED BY <2>3, <3>3, <3>4, <3>5
  <2> QED BY <2>4, <2>5
<1>6. few = S \/ Cardinality(few) = n
  <2>1. rest = {} => few = S
    OBVIOUS
  <2> HIDE DEF rest
  <2> QED BY <1>5, <2>1
<1>7. \A x \in few, y \in S \ few : <<x, y>> \in R
  BY <1>4
<1> QED BY <1>6, <1>7, Zenon
=============================================================================
