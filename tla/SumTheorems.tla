---------------------------- MODULE SumTheorems ----------------------------
(***************************************************************************)
(* What the proofs need to know of a sum over a finite set: the library's  *)
(* SumFunctionOnSet(f, T), which folds + over T taking its elements in an  *)
(* order nobody chooses.                                                   *)
(*                                                                         *)
(* Facts about every finite set are proved by looking at a smallest subset *)
(* for which they fail (SmallestSubset): one element less makes it smaller *)
(* still.  LeastOne and GreatestOne do the same for numbers.               *)
(***************************************************************************)
EXTENDS Integers, Functions, FiniteSetTheorems, WellFoundedInduction, TLAPS

-----------------------------------------------------------------------------
(* The fold is well defined. *)

\* The smallest of the subsets of a finite set that have a property: what stands in
\* for an induction over finite sets.
LEMMA SmallestSubset ==
  ASSUME NEW S, IsFiniteSet(S), NEW C \in SUBSET (SUBSET S), C # {}
  PROVE  \E T \in C : \A U \in SUBSET T : U # T => U \notin C
<1>1. FiniteSubsetsOf(S) = SUBSET S
  BY FS_FiniteSubsetsOfFinite
<1>2. IsWellFoundedOn(StrictSubsetOrdering(S), SUBSET S)
  BY <1>1, FS_StrictSubsetOrderingWellFounded
<1>3. \E T \in C : \A U \in C : ~ (<<U, T>> \in StrictSubsetOrdering(S))
  <2> DEFINE R == StrictSubsetOrdering(S)
             P == SUBSET S
  <2>1. IsWellFoundedOn(R, P) /\ C \subseteq P /\ C # {}
    BY <1>2
  <2> HIDE DEF R, P
  <2>2. \E T \in C : \A U \in C : ~ (<<U, T>> \in R)
    BY <2>1, WFMin
  <2> QED  BY <2>2 DEF R
<1> QED  BY <1>3 DEF StrictSubsetOrdering

\* The element the fold takes next.
Chosen(s) == CHOOSE x \in s : TRUE

\* What the fold defines: the sum of f over each subset of T.
Totals(it, f, T) ==
  it = [s \in SUBSET T |-> IF s = {} THEN 0 ELSE f[Chosen(s)] + it[s \ {Chosen(s)}]]

\* A sum is what the fold makes of its set.
LEMMA SumIsFold ==
  ASSUME NEW f, NEW T
  PROVE  SumFunctionOnSet(f, T) = (CHOOSE it : Totals(it, f, T))[T]
BY DEF SumFunctionOnSet, FoldFunctionOnSet, MapThenFoldSet, Totals, Chosen

\* The fold takes an element of the set.
LEMMA ChosenIn == \A s : s # {} => Chosen(s) \in s
BY DEF Chosen

\* The fold of one subset, from the fold of a smaller one.
LEMMA FoldAt ==
  ASSUME NEW it, NEW f, NEW T, Totals(it, f, T), NEW s \in SUBSET T
  PROVE  it[s] = IF s = {} THEN 0 ELSE f[Chosen(s)] + it[s \ {Chosen(s)}]
<1> DEFINE g == [r \in SUBSET T |-> IF r = {} THEN 0 ELSE f[Chosen(r)] + it[r \ {Chosen(r)}]]
<1>1. it = g
  BY DEF Totals
<1>2. g[s] = IF s = {} THEN 0 ELSE f[Chosen(s)] + it[s \ {Chosen(s)}]
  OBVIOUS
<1> HIDE DEF g
<1> QED  BY <1>1, <1>2

\* Two folds of f agree on every finite set both are defined for.
LEMMA FoldUnique ==
  ASSUME NEW f, NEW A, NEW B, NEW a, Totals(a, f, A), NEW b, Totals(b, f, B),
         NEW T, IsFiniteSet(T), T \subseteq A, T \subseteq B
  PROVE  a[T] = b[T]
<1> DEFINE C == {s \in SUBSET T : a[s] # b[s]}
<1> SUFFICES ASSUME C # {}
             PROVE  FALSE
  OBVIOUS
<1>1. PICK s \in C : \A r \in SUBSET s : r # s => r \notin C
  <2>1. C \in SUBSET (SUBSET T)
    OBVIOUS
  <2> HIDE DEF C
  <2> QED  BY <2>1, SmallestSubset
<1>2. s \in SUBSET A /\ s \in SUBSET B
  OBVIOUS
<1>3. CASE s = {}
  BY <1>2, <1>3, FoldAt
<1>4. CASE s # {}
  <2> DEFINE r == s \ {Chosen(s)}
  <2>1. r \in SUBSET s /\ r # s
    BY <1>4, ChosenIn
  <2>2. a[r] = b[r]
    BY <1>1, <2>1
  <2>3. a[s] = f[Chosen(s)] + a[r] /\ b[s] = f[Chosen(s)] + b[r]
    BY <1>2, <1>4, FoldAt
  <2> HIDE DEF r
  <2> QED  BY <2>2, <2>3
<1> QED  BY <1>3, <1>4

\* There is a fold over every finite set.
LEMMA FoldExists ==
  ASSUME NEW f, NEW T, IsFiniteSet(T)
  PROVE  \E it : Totals(it, f, T)
<1> DEFINE C == {s \in SUBSET T : ~ \E it : Totals(it, f, s)}
<1> SUFFICES ASSUME C # {}
             PROVE  FALSE
  OBVIOUS
<1>1. PICK s \in C : \A r \in SUBSET s : r # s => r \notin C
  <2>1. C \in SUBSET (SUBSET T)
    OBVIOUS
  <2> HIDE DEF C
  <2> QED  BY <2>1, SmallestSubset
<1> DEFINE Sum(r) == (CHOOSE it : Totals(it, f, r))[r]
<1>2. ASSUME NEW r \in SUBSET s, r # s
      PROVE  Sum(r) = IF r = {} THEN 0 ELSE f[Chosen(r)] + Sum(r \ {Chosen(r)})
  <2> DEFINE it == CHOOSE it : Totals(it, f, r)
             q == r \ {Chosen(r)}
             jt == CHOOSE jt : Totals(jt, f, q)
  <2>1. Totals(it, f, r)
    BY <1>1, <1>2
  <2>2. q \subseteq r /\ q \in SUBSET s /\ q # s
    BY <1>2
  <2>3. Totals(jt, f, q)
    BY <1>1, <2>2
  <2>4. IsFiniteSet(q)
    BY <2>2, FS_Subset
  <2>5. it[q] = jt[q]
    <3> HIDE DEF it, jt, q
    <3> QED  BY <2>1, <2>2, <2>3, <2>4, FoldUnique
  <2>6. it[r] = IF r = {} THEN 0 ELSE f[Chosen(r)] + it[q]
    <3> HIDE DEF it
    <3> QED  BY <2>1, FoldAt
  <2> QED  BY <2>5, <2>6
<1> HIDE DEF Sum
<1> DEFINE g == [r \in SUBSET s |-> IF r = {} THEN 0 ELSE f[Chosen(r)] + Sum(r \ {Chosen(r)})]
<1>3. ASSUME NEW r \in SUBSET s, r # {}
      PROVE  g[r \ {Chosen(r)}] = Sum(r \ {Chosen(r)})
  <2>1. Chosen(r) \in r
    BY <1>3, ChosenIn
  <2>2. r \ {Chosen(r)} \in SUBSET s /\ r \ {Chosen(r)} # s
    BY <2>1
  <2> QED  BY <1>2, <2>2
<1>4. \A r \in SUBSET s :
        g[r] = IF r = {} THEN 0 ELSE f[Chosen(r)] + g[r \ {Chosen(r)}]
  BY <1>3
<1>5. g = [r \in SUBSET s |-> g[r]]
  OBVIOUS
<1> HIDE DEF g
<1>6. g = [r \in SUBSET s |-> IF r = {} THEN 0 ELSE f[Chosen(r)] + g[r \ {Chosen(r)}]]
  BY <1>4, <1>5
<1>7. Totals(g, f, s)
  BY <1>6 DEF Totals
<1> QED  BY <1>1, <1>7

\* A sum is one element, which the fold takes, and the sum of the others.
LEMMA SumUnfolds ==
  ASSUME NEW f, NEW T, IsFiniteSet(T)
  PROVE  /\ T = {} => SumFunctionOnSet(f, T) = 0
         /\ T # {} => /\ Chosen(T) \in T
                      /\ SumFunctionOnSet(f, T) =
                           f[Chosen(T)] + SumFunctionOnSet(f, T \ {Chosen(T)})
<1> DEFINE q == T \ {Chosen(T)}
           it == CHOOSE it : Totals(it, f, T)
           jt == CHOOSE jt : Totals(jt, f, q)
<1>1. IsFiniteSet(q) /\ q \subseteq T
  BY FS_Subset
<1>2. Totals(it, f, T) /\ Totals(jt, f, q)
  BY <1>1, FoldExists
<1>3. it[T] = SumFunctionOnSet(f, T) /\ jt[q] = SumFunctionOnSet(f, q)
  BY SumIsFold
<1> HIDE DEF it, jt, q
<1>4. it[q] = jt[q]
  BY <1>1, <1>2, FoldUnique
<1>5. it[T] = IF T = {} THEN 0 ELSE f[Chosen(T)] + it[q]
  BY <1>2, FoldAt DEF q
<1>6. T # {} => Chosen(T) \in T
  BY ChosenIn
<1> QED  BY <1>3, <1>4, <1>5, <1>6 DEF q

-----------------------------------------------------------------------------
(* Sums *)

\* Nothing adds up to nothing.
LEMMA SumEmpty == \A f : SumFunctionOnSet(f, {}) = 0
BY SumUnfolds, FS_EmptySet

\* Functions that agree on a set have the same sum over it.
LEMMA SumSame ==
  ASSUME NEW f, NEW g, NEW T, IsFiniteSet(T), \A x \in T : f[x] = g[x]
  PROVE  SumFunctionOnSet(f, T) = SumFunctionOnSet(g, T)
<1> DEFINE C == {s \in SUBSET T : SumFunctionOnSet(f, s) # SumFunctionOnSet(g, s)}
<1> SUFFICES ASSUME C # {}
             PROVE  FALSE
  OBVIOUS
<1>1. PICK s \in C : \A r \in SUBSET s : r # s => r \notin C
  <2>1. C \in SUBSET (SUBSET T)
    OBVIOUS
  <2> HIDE DEF C
  <2> QED  BY <2>1, SmallestSubset
<1>2. s \subseteq T /\ IsFiniteSet(s)
  BY FS_Subset
<1>3. s # {}
  BY SumEmpty
<1> DEFINE x == Chosen(s)
           r == s \ {x}
<1>4. x \in s /\ SumFunctionOnSet(f, s) = f[x] + SumFunctionOnSet(f, r)
                /\ SumFunctionOnSet(g, s) = g[x] + SumFunctionOnSet(g, r)
  BY <1>2, <1>3, SumUnfolds
<1>5. SumFunctionOnSet(f, r) = SumFunctionOnSet(g, r) /\ f[x] = g[x]
  BY <1>1, <1>2, <1>4
<1> QED  BY <1>4, <1>5

\* Integers add up to an integer.
LEMMA SumIsInt ==
  ASSUME NEW f, NEW T, IsFiniteSet(T), \A x \in T : f[x] \in Int
  PROVE  SumFunctionOnSet(f, T) \in Int
<1> DEFINE C == {s \in SUBSET T : SumFunctionOnSet(f, s) \notin Int}
<1> SUFFICES ASSUME C # {}
             PROVE  FALSE
  OBVIOUS
<1>1. PICK s \in C : \A r \in SUBSET s : r # s => r \notin C
  <2>1. C \in SUBSET (SUBSET T)
    OBVIOUS
  <2> HIDE DEF C
  <2> QED  BY <2>1, SmallestSubset
<1>2. s \subseteq T /\ IsFiniteSet(s)
  BY FS_Subset
<1>3. s # {}
  BY SumEmpty
<1> DEFINE x == Chosen(s)
           r == s \ {x}
<1>4. x \in s /\ SumFunctionOnSet(f, s) = f[x] + SumFunctionOnSet(f, r)
  BY <1>2, <1>3, SumUnfolds
<1>5. SumFunctionOnSet(f, r) \in Int /\ f[x] \in Int
  BY <1>1, <1>2, <1>4
<1> QED  BY <1>4, <1>5

\* Any element may be taken first: the sum does not depend on the order.
LEMMA SumSplit ==
  ASSUME NEW f, NEW T, IsFiniteSet(T), \A x \in T : f[x] \in Int, NEW x \in T
  PROVE  SumFunctionOnSet(f, T) = f[x] + SumFunctionOnSet(f, T \ {x})
<1> DEFINE C == {s \in SUBSET T :
                   \E y \in s : SumFunctionOnSet(f, s) # f[y] + SumFunctionOnSet(f, s \ {y})}
<1> SUFFICES ASSUME C # {}
             PROVE  FALSE
  OBVIOUS
<1>1. PICK s \in C : \A r \in SUBSET s : r # s => r \notin C
  <2>1. C \in SUBSET (SUBSET T)
    OBVIOUS
  <2> HIDE DEF C
  <2> QED  BY <2>1, SmallestSubset
<1>2. \A r \in SUBSET s : /\ r \subseteq T /\ IsFiniteSet(r)
                          /\ SumFunctionOnSet(f, r) \in Int
  <2> TAKE r \in SUBSET s
  <2>1. r \subseteq T /\ IsFiniteSet(r)
    BY FS_Subset
  <2> QED  BY <2>1, SumIsInt
<1>3. PICK y \in s : SumFunctionOnSet(f, s) # f[y] + SumFunctionOnSet(f, s \ {y})
  OBVIOUS
<1> DEFINE z == Chosen(s)
<1>4. z \in s /\ SumFunctionOnSet(f, s) = f[z] + SumFunctionOnSet(f, s \ {z})
  BY <1>2, <1>3, SumUnfolds
<1> HIDE DEF z
<1>5. y # z
  BY <1>3, <1>4
<1>6. /\ SumFunctionOnSet(f, s \ {z}) = f[y] + SumFunctionOnSet(f, (s \ {z}) \ {y})
      /\ SumFunctionOnSet(f, s \ {y}) = f[z] + SumFunctionOnSet(f, (s \ {y}) \ {z})
  <2>1. s \ {z} \notin C /\ s \ {y} \notin C
    BY <1>1, <1>3, <1>4
  <2>2. s \ {z} \in SUBSET T /\ s \ {y} \in SUBSET T /\ y \in s \ {z} /\ z \in s \ {y}
    BY <1>2, <1>3, <1>4, <1>5
  <2> QED  BY <2>1, <2>2
<1>7. (s \ {z}) \ {y} = (s \ {y}) \ {z}
  OBVIOUS
<1>8. /\ f[y] \in Int /\ f[z] \in Int
      /\ SumFunctionOnSet(f, (s \ {y}) \ {z}) \in Int
  BY <1>2, <1>3, <1>4
<1> DEFINE u == f[y]
           v == f[z]
           rest == SumFunctionOnSet(f, (s \ {y}) \ {z})
           noY == SumFunctionOnSet(f, s \ {y})
           noZ == SumFunctionOnSet(f, s \ {z})
           whole == SumFunctionOnSet(f, s)
<1>9. noZ = u + rest
  BY <1>6, <1>7, Zenon
<1>10. noY = v + rest /\ whole = v + noZ /\ whole # u + noY
  BY <1>3, <1>4, <1>6, Zenon
<1>11. u \in Int /\ v \in Int /\ rest \in Int
  BY <1>8
<1> HIDE DEF u, v, rest, noY, noZ, whole
<1> QED  BY <1>9, <1>10, <1>11

\* Adding two functions adds their sums.
LEMMA SumPlus ==
  ASSUME NEW f, NEW g, NEW h, NEW T, IsFiniteSet(T),
         \A x \in T : f[x] \in Int /\ g[x] \in Int /\ h[x] = f[x] + g[x]
  PROVE  SumFunctionOnSet(h, T) = SumFunctionOnSet(f, T) + SumFunctionOnSet(g, T)
<1> DEFINE C == {s \in SUBSET T :
             SumFunctionOnSet(h, s) # SumFunctionOnSet(f, s) + SumFunctionOnSet(g, s)}
<1> SUFFICES ASSUME C # {}
             PROVE  FALSE
  OBVIOUS
<1>1. PICK s \in C : \A r \in SUBSET s : r # s => r \notin C
  <2>1. C \in SUBSET (SUBSET T)
    OBVIOUS
  <2> HIDE DEF C
  <2> QED  BY <2>1, SmallestSubset
<1>2. s \subseteq T /\ IsFiniteSet(s)
  BY FS_Subset
<1>3. s # {}
  <2>1. SumFunctionOnSet(h, {}) = SumFunctionOnSet(f, {}) + SumFunctionOnSet(g, {})
    BY SumEmpty
  <2>2. SumFunctionOnSet(h, s) # SumFunctionOnSet(f, s) + SumFunctionOnSet(g, s)
    OBVIOUS
  <2> QED  BY <2>1, <2>2
<1> DEFINE x == Chosen(s)
           r == s \ {x}
<1>4. /\ x \in s /\ SumFunctionOnSet(f, s) = f[x] + SumFunctionOnSet(f, r)
      /\ SumFunctionOnSet(g, s) = g[x] + SumFunctionOnSet(g, r)
      /\ SumFunctionOnSet(h, s) = h[x] + SumFunctionOnSet(h, r)
  BY <1>2, <1>3, SumUnfolds
<1>5. r \subseteq T /\ IsFiniteSet(r) /\ r # s
  BY <1>2, <1>4, FS_Subset
<1>6. SumFunctionOnSet(f, r) \in Int /\ SumFunctionOnSet(g, r) \in Int
  BY <1>5, SumIsInt
<1>7. SumFunctionOnSet(h, r) = SumFunctionOnSet(f, r) + SumFunctionOnSet(g, r)
  BY <1>1, <1>5
<1>8. f[x] \in Int /\ g[x] \in Int /\ h[x] = f[x] + g[x]
  BY <1>2, <1>4
<1> HIDE DEF x, r
<1> QED  BY <1>4, <1>6, <1>7, <1>8

\* The smaller of two functions has the smaller sum.
LEMMA SumUpTo ==
  ASSUME NEW f, NEW g, NEW T, IsFiniteSet(T),
         \A x \in T : f[x] \in Int /\ g[x] \in Int /\ f[x] <= g[x]
  PROVE  SumFunctionOnSet(f, T) <= SumFunctionOnSet(g, T)
<1> DEFINE C == {s \in SUBSET T : ~(SumFunctionOnSet(f, s) <= SumFunctionOnSet(g, s))}
<1> SUFFICES ASSUME C # {}
             PROVE  FALSE
  OBVIOUS
<1>1. PICK s \in C : \A r \in SUBSET s : r # s => r \notin C
  <2>1. C \in SUBSET (SUBSET T)
    OBVIOUS
  <2> HIDE DEF C
  <2> QED  BY <2>1, SmallestSubset
<1>2. s \subseteq T /\ IsFiniteSet(s)
  BY FS_Subset
<1>3. s # {}
  BY SumEmpty
<1> DEFINE x == Chosen(s)
           r == s \ {x}
<1>4. /\ x \in s /\ SumFunctionOnSet(f, s) = f[x] + SumFunctionOnSet(f, r)
      /\ SumFunctionOnSet(g, s) = g[x] + SumFunctionOnSet(g, r)
  BY <1>2, <1>3, SumUnfolds
<1>5. r \subseteq T /\ IsFiniteSet(r) /\ r # s
  BY <1>2, <1>4, FS_Subset
<1>6. SumFunctionOnSet(f, r) \in Int /\ SumFunctionOnSet(g, r) \in Int
  BY <1>5, SumIsInt
<1>7. SumFunctionOnSet(f, r) <= SumFunctionOnSet(g, r)
  BY <1>1, <1>5
<1>8. f[x] \in Int /\ g[x] \in Int /\ f[x] <= g[x]
  BY <1>2, <1>4
<1> HIDE DEF x, r
<1> QED  BY <1>4, <1>6, <1>7, <1>8

\* Zeros add up to zero.
LEMMA SumZero ==
  ASSUME NEW f, NEW T, IsFiniteSet(T), \A x \in T : f[x] = 0
  PROVE  SumFunctionOnSet(f, T) = 0
<1> DEFINE v == SumFunctionOnSet(f, T)
<1>1. \A x \in T : f[x] \in Int /\ f[x] = f[x] + f[x]
  OBVIOUS
<1>2. v \in Int
  BY <1>1, SumIsInt
<1>3. v = v + v
  BY <1>1, SumPlus
<1>4. v = 0
  <2> HIDE DEF v
  <2> QED  BY <1>2, <1>3
<1> QED  BY <1>4, Zenon

\* The sum over one element.
LEMMA SumOne ==
  ASSUME NEW f, NEW x, f[x] \in Int
  PROVE  SumFunctionOnSet(f, {x}) = f[x]
<1>1. IsFiniteSet({x}) /\ {x} \ {x} = {} /\ \A y \in {x} : f[y] \in Int
  BY FS_Singleton
<1>2. SumFunctionOnSet(f, {x}) = f[x] + SumFunctionOnSet(f, {x} \ {x})
  BY <1>1, SumSplit
<1>3. SumFunctionOnSet(f, {x} \ {x}) = 0
  BY <1>1, SumEmpty, Zenon
<1> QED  BY <1>2, <1>3

\* Opposite functions have opposite sums.
LEMMA SumOpposite ==
  ASSUME NEW f, NEW g, NEW T, IsFiniteSet(T), \A x \in T : f[x] \in Int /\ g[x] = -f[x]
  PROVE  SumFunctionOnSet(g, T) = -SumFunctionOnSet(f, T)
<1> DEFINE h == [x \in T |-> 0]
<1>1. \A x \in T : f[x] \in Int /\ g[x] \in Int /\ h[x] = f[x] + g[x] /\ h[x] = 0
  OBVIOUS
<1> HIDE DEF h
<1>2. SumFunctionOnSet(h, T) = 0
  BY <1>1, SumZero
<1>3. SumFunctionOnSet(h, T) = SumFunctionOnSet(f, T) + SumFunctionOnSet(g, T)
  BY <1>1, SumPlus
<1>4. SumFunctionOnSet(f, T) \in Int /\ SumFunctionOnSet(g, T) \in Int
  BY <1>1, SumIsInt
<1> QED  BY <1>2, <1>3, <1>4

\* Counts add up to a count, no smaller than any of them.
LEMMA SumIsNat ==
  ASSUME NEW f, NEW T, IsFiniteSet(T), \A x \in T : f[x] \in Nat
  PROVE  /\ SumFunctionOnSet(f, T) \in Nat
         /\ \A x \in T : f[x] <= SumFunctionOnSet(f, T)
<1> DEFINE zero == [x \in T |-> 0]
<1>1. ASSUME NEW S \in SUBSET T
      PROVE  SumFunctionOnSet(f, S) \in Nat
  <2>1. IsFiniteSet(S)
    BY FS_Subset
  <2>2. \A x \in S : zero[x] \in Int /\ zero[x] = 0 /\ f[x] \in Int /\ zero[x] <= f[x]
    OBVIOUS
  <2> HIDE DEF zero
  <2>3. SumFunctionOnSet(zero, S) = 0 /\ SumFunctionOnSet(f, S) \in Int
    BY <2>1, <2>2, SumZero, SumIsInt
  <2>4. SumFunctionOnSet(zero, S) <= SumFunctionOnSet(f, S)
    BY <2>1, <2>2, SumUpTo
  <2> QED  BY <2>3, <2>4
<1>2. ASSUME NEW x \in T
      PROVE  f[x] <= SumFunctionOnSet(f, T)
  <2>1. SumFunctionOnSet(f, T) = f[x] + SumFunctionOnSet(f, T \ {x})
    BY SumSplit
  <2>2. SumFunctionOnSet(f, T \ {x}) \in Nat
    BY <1>1
  <2> QED  BY <2>1, <2>2
<1> QED  BY <1>1, <1>2

\* Changing one element changes the sum by as much.
LEMMA SumChange ==
  ASSUME NEW f, NEW g, NEW T, IsFiniteSet(T), \A y \in T : f[y] \in Int, NEW x \in T,
         g[x] \in Int, \A y \in T \ {x} : g[y] = f[y]
  PROVE  SumFunctionOnSet(g, T) = SumFunctionOnSet(f, T) - f[x] + g[x]
<1>1. \A y \in T : g[y] \in Int
  OBVIOUS
<1>2. IsFiniteSet(T \ {x})
  BY FS_Subset
<1>3. SumFunctionOnSet(g, T \ {x}) = SumFunctionOnSet(f, T \ {x})
  BY <1>2, SumSame
<1>4. SumFunctionOnSet(f, T \ {x}) \in Int
  BY <1>2, SumIsInt
<1>5. /\ SumFunctionOnSet(f, T) = f[x] + SumFunctionOnSet(f, T \ {x})
      /\ SumFunctionOnSet(g, T) = g[x] + SumFunctionOnSet(g, T \ {x})
  BY <1>1, SumSplit
<1>6. f[x] \in Int
  OBVIOUS
<1> QED  BY <1>3, <1>4, <1>5, <1>6

\* A function that is zero outside a part of the set has the sum of that part.
LEMMA SumRestricted ==
  ASSUME NEW f, NEW g, NEW T, IsFiniteSet(T), NEW S \in SUBSET T, \A x \in S : f[x] \in Int,
         \A x \in T : g[x] = IF x \in S THEN f[x] ELSE 0
  PROVE  SumFunctionOnSet(g, T) = SumFunctionOnSet(f, S)
<1> DEFINE C == {s \in SUBSET T : SumFunctionOnSet(g, s) # SumFunctionOnSet(f, s \cap S)}
<1>1. C = {}
  <2> SUFFICES ASSUME C # {}
               PROVE  FALSE
    OBVIOUS
  <2>1. PICK s \in C : \A r \in SUBSET s : r # s => r \notin C
    <3>1. C \in SUBSET (SUBSET T)
      OBVIOUS
    <3> HIDE DEF C
    <3> QED  BY <3>1, SmallestSubset
  <2>2. s \subseteq T /\ IsFiniteSet(s) /\ IsFiniteSet(s \cap S)
    BY FS_Subset
  <2>3. s # {}
    <3>1. s = {} => s \cap S = {}
      OBVIOUS
    <3> QED  BY <3>1, SumEmpty
  <2> DEFINE x == Chosen(s)
             r == s \ {x}
  <2>4. x \in s /\ SumFunctionOnSet(g, s) = g[x] + SumFunctionOnSet(g, r)
    BY <2>2, <2>3, SumUnfolds
  <2>5. SumFunctionOnSet(g, r) = SumFunctionOnSet(f, r \cap S)
    BY <2>1, <2>2, <2>4
  <2> HIDE DEF x
  <2>6. r \cap S = (s \cap S) \ {x} /\ IsFiniteSet(r \cap S)
    BY <2>2, FS_Subset
  <2>7. SumFunctionOnSet(f, r \cap S) \in Int
    BY <2>6, SumIsInt
  <2>8. CASE x \in S
    <3>1. x \in s \cap S /\ \A y \in s \cap S : f[y] \in Int
      BY <2>4, <2>8
    <3>2. SumFunctionOnSet(f, s \cap S) = f[x] + SumFunctionOnSet(f, (s \cap S) \ {x})
      BY <2>2, <3>1, SumSplit
    <3> QED  BY <2>2, <2>4, <2>5, <2>6, <2>8, <3>2
  <2>9. CASE x \notin S
    <3>1. r \cap S = s \cap S /\ g[x] = 0
      BY <2>2, <2>4, <2>9
    <3> QED  BY <2>1, <2>4, <2>5, <2>7, <3>1
  <2> QED  BY <2>8, <2>9
<1>2. T \cap S = S /\ T \in SUBSET T
  OBVIOUS
<1> QED  BY <1>1, <1>2

\* The sum over two sets with nothing in common.
LEMMA SumUnion ==
  ASSUME NEW f, NEW S, NEW T, IsFiniteSet(S), IsFiniteSet(T), S \cap T = {},
         \A x \in S \cup T : f[x] \in Int
  PROVE  SumFunctionOnSet(f, S \cup T) = SumFunctionOnSet(f, S) + SumFunctionOnSet(f, T)
<1> DEFINE U == S \cup T
           g == [x \in U |-> IF x \in S THEN f[x] ELSE 0]
           h == [x \in U |-> IF x \in T THEN f[x] ELSE 0]
<1>1. IsFiniteSet(U)
  BY FS_Union
<1>2. SumFunctionOnSet(f, U) = SumFunctionOnSet(g, U) + SumFunctionOnSet(h, U)
  <2>1. \A x \in U : g[x] \in Int /\ h[x] \in Int /\ f[x] = g[x] + h[x]
    OBVIOUS
  <2> HIDE DEF U, g, h
  <2> QED  BY <1>1, <2>1, SumPlus
<1>3. SumFunctionOnSet(g, U) = SumFunctionOnSet(f, S)
  <2>1. S \in SUBSET U /\ (\A x \in S : f[x] \in Int)
        /\ \A x \in U : g[x] = IF x \in S THEN f[x] ELSE 0
    OBVIOUS
  <2> HIDE DEF U, g
  <2> QED  BY <1>1, <2>1, SumRestricted
<1>4. SumFunctionOnSet(h, U) = SumFunctionOnSet(f, T)
  <2>1. T \in SUBSET U /\ (\A x \in T : f[x] \in Int)
        /\ \A x \in U : h[x] = IF x \in T THEN f[x] ELSE 0
    OBVIOUS
  <2> HIDE DEF U, h
  <2> QED  BY <1>1, <2>1, SumRestricted
<1> QED  BY <1>2, <1>3, <1>4

\* The sum, one element apart, of a set that may or may not have it.
LEMMA SumApart ==
  ASSUME NEW f, NEW T, IsFiniteSet(T), \A y \in T : f[y] \in Nat, NEW x
  PROVE  /\ SumFunctionOnSet(f, T) = SumFunctionOnSet(f, T \ {x}) + (IF x \in T THEN f[x] ELSE 0)
         /\ SumFunctionOnSet(f, T \ {x}) \in Nat
<1>1. SumFunctionOnSet(f, T \ {x}) \in Nat
  <2>1. IsFiniteSet(T \ {x}) /\ \A y \in T \ {x} : f[y] \in Nat
    BY FS_Subset
  <2> QED  BY <2>1, SumIsNat
<1>2. CASE x \in T
  <2>1. \A y \in T : f[y] \in Int
    OBVIOUS
  <2>2. SumFunctionOnSet(f, T) = f[x] + SumFunctionOnSet(f, T \ {x})
    BY <1>2, <2>1, SumSplit
  <2>3. f[x] \in Nat
    BY <1>2
  <2> QED  BY <1>1, <1>2, <2>2, <2>3
<1>3. CASE x \notin T
  <2>1. T \ {x} = T
    BY <1>3
  <2>2. SumFunctionOnSet(f, T \ {x}) = SumFunctionOnSet(f, T)
    BY <2>1, Zenon
  <2> QED  BY <1>1, <1>3, <2>2
<1> QED  BY <1>1, <1>2, <1>3

\* A sum is less than another if one of its terms is and none is more.
LEMMA SumLess ==
  ASSUME NEW f, NEW g, NEW T, IsFiniteSet(T), \A y \in T : f[y] \in Int /\ g[y] \in Int,
         NEW x \in T, f[x] < g[x], \A y \in T \ {x} : f[y] <= g[y]
  PROVE  SumFunctionOnSet(f, T) < SumFunctionOnSet(g, T)
<1>1. IsFiniteSet(T \ {x})
  BY FS_RemoveElement
<1>2. \A y \in T \ {x} : f[y] \in Int /\ g[y] \in Int /\ f[y] <= g[y]
  OBVIOUS
<1>3. SumFunctionOnSet(f, T \ {x}) <= SumFunctionOnSet(g, T \ {x})
  BY <1>1, <1>2, SumUpTo
<1>4. SumFunctionOnSet(f, T \ {x}) \in Int /\ SumFunctionOnSet(g, T \ {x}) \in Int
  BY <1>1, <1>2, SumIsInt
<1>5. SumFunctionOnSet(f, T) = f[x] + SumFunctionOnSet(f, T \ {x})
  BY SumSplit
<1>6. SumFunctionOnSet(g, T) = g[x] + SumFunctionOnSet(g, T \ {x})
  BY SumSplit
<1>7. f[x] \in Int /\ g[x] \in Int
  OBVIOUS
<1> QED  BY <1>3, <1>4, <1>5, <1>6, <1>7

-----------------------------------------------------------------------------
(* Numbers *)

\* The least of a set of counts: what stands in for an induction over numbers.
LEMMA LeastOne ==
  ASSUME NEW C \in SUBSET Nat, C # {}
  PROVE  \E n \in C : \A m \in C : n <= m
<1>1. PICK top \in C : TRUE
  OBVIOUS
<1> DEFINE F == {0 .. n : n \in C \cap 0 .. top}
<1>2. IsFiniteSet(0 .. top)
  <2>1. 0 \in Int /\ top \in Int
    OBVIOUS
  <2> QED  BY <2>1, FS_Interval
<1>3. PICK s \in F : \A r \in SUBSET s : r # s => r \notin F
  <2>1. \A n \in C \cap 0 .. top : 0 .. n \subseteq 0 .. top
    OBVIOUS
  <2>2. top \in C \cap 0 .. top
    BY <1>1
  <2>3. F \in SUBSET (SUBSET (0 .. top))
    BY <2>1
  <2>4. F # {}
    BY <2>2
  <2> DEFINE S == 0 .. top
  <2>5. IsFiniteSet(S) /\ F \in SUBSET (SUBSET S)
    BY <1>2, <2>3
  <2> HIDE DEF F, S
  <2> QED  BY <2>4, <2>5, SmallestSubset
<1>4. PICK n \in C \cap 0 .. top : s = 0 .. n
  BY <1>3
<1>5. ASSUME NEW m \in C, m < n
      PROVE  FALSE
  <2>1. 0 .. m \in F
    BY <1>4, <1>5
  <2>2. 0 .. m \in SUBSET s /\ n \in s /\ n \notin 0 .. m
    BY <1>4, <1>5
  <2> HIDE DEF F
  <2> QED  BY <1>3, <2>1, <2>2
<1> QED  BY <1>4, <1>5

\* A bounded set of counts has a greatest: the least of its bounds.
LEMMA GreatestOne ==
  ASSUME NEW C \in SUBSET Nat, C # {}, NEW top \in Nat, \A m \in C : m <= top
  PROVE  \E n \in C : \A m \in C : m <= n
<1> DEFINE B == {n \in Nat : \A m \in C : m <= n}
<1>1. B \in SUBSET Nat /\ top \in B
  OBVIOUS
<1>2. PICK n \in B : \A b \in B : n <= b
  <2> HIDE DEF B
  <2> QED  BY <1>1, LeastOne
<1>3. n \in C
  <2> SUFFICES ASSUME n \notin C PROVE FALSE
    OBVIOUS
  <2>1. \A m \in C : m <= n - 1
    BY <1>2
  <2>2. n - 1 \in B
    <3>1. PICK m \in C : m <= n - 1
      BY <2>1
    <3>2. n - 1 \in Nat
      BY <3>1
    <3> QED  BY <2>1, <3>2
  <2> QED  BY <1>2, <2>2
<1> QED  BY <1>2, <1>3

=============================================================================
