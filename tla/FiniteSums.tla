----------------------------- MODULE FiniteSums -----------------------------
(***************************************************************************)
(* Sums of functions over finite sets, as SumFunction of the community     *)
(* module Functions computes them.                                         *)
(***************************************************************************)
EXTENDS Integers, FiniteSets, Functions, FiniteSetTheorems, WellFoundedInduction, TLAPS

\* The element that the folds of Functions take first.
First(s) == CHOOSE x \in s : TRUE

\* g[s] is the sum of f over s.
Sums(f, g, s) == g[s] = IF s = {} THEN 0 ELSE f[First(s)] + g[s \ {First(s)}]

SumsOf(D, f, g) == \A s \in SUBSET D : Sums(f, g, s)

\* g is the table of the sums of f, a function over D.
Table(D, f, g) == f \in [D -> Int] /\ g \in [SUBSET D -> Int] /\ SumsOf(D, f, g)

\* Over D, f2 is f1 with k added at c.
Shift(D, f1, f2, c, k) == \A x \in D : f2[x] = f1[x] + IF x = c THEN k ELSE 0

\* Over D, h is f with the values of S erased.
Erased(D, S, f, h) == \A x \in D : h[x] = IF x \in S THEN 0 ELSE f[x]

\* g sums f whatever element is taken first.
AnyFirst(D, f, g) == \A s \in SUBSET D : \A x \in s : g[s] = f[x] + g[s \ {x}]

\* A set of naturals has a least element.
LEMMA Least ==
  ASSUME NEW T \in SUBSET Nat, T # {}
  PROVE  \E n \in T : \A m \in T : n <= m
<1>1. PICK n \in T : \A m \in T : ~(<<m, n>> \in OpToRel(<, Nat))
  BY WFMin, NatLessThanWellFounded, Zenon
<1>2. \A m \in T : ~(m < n)
  BY <1>1, Zenon DEF OpToRel
<1> QED
  BY <1>2

\* A nonempty part of a finite set loses its first element.
LEMMA SubsetSize ==
  ASSUME NEW D, IsFiniteSet(D), NEW s \in SUBSET D
  PROVE  /\ Cardinality(s) \in Nat /\ Cardinality(s) <= Cardinality(D)
         /\ s # {} => First(s) \in s /\ Cardinality(s \ {First(s)}) = Cardinality(s) - 1
<1>1. IsFiniteSet(s) /\ Cardinality(s) \in Nat /\ Cardinality(s) <= Cardinality(D)
  BY FS_Subset, FS_CardinalityType, Zenon
<1>2. s # {} => First(s) \in s
  BY Zenon DEF First
<1> QED
  BY <1>1, <1>2, FS_RemoveElement, Zenon

\* A function over a finite set has sums over all subsets.
LEMMA SumsExist ==
  ASSUME NEW D, IsFiniteSet(D), NEW f \in [D -> Int]
  PROVE  \E g \in [SUBSET D -> Int] : SumsOf(D, f, g)
<1> DEFINE Upto(n) == \E g \in [SUBSET D -> Int] :
                        \A s \in SUBSET D : Cardinality(s) <= n => Sums(f, g, s)
<1>1. \A s \in SUBSET D : Cardinality(s) \in Nat /\ Cardinality(s) <= Cardinality(D)
  BY SubsetSize, Zenon
<1>2. \A s \in SUBSET D : s # {} => First(s) \in s /\ s \ {First(s)} \in SUBSET D
                                    /\ Cardinality(s \ {First(s)}) = Cardinality(s) - 1
  BY SubsetSize, Zenon
<1>3. Upto(0)
  <2>1. \A s \in SUBSET D : Cardinality(s) <= 0 => s = {}
    BY <1>1, FS_EmptySet, FS_Subset
  <2>2. [s \in SUBSET D |-> 0] \in [SUBSET D -> Int]
    OBVIOUS
  <2> QED
    BY <2>1, <2>2, Zenon DEF Sums
<1>4. ASSUME NEW n \in Nat, Upto(n) PROVE Upto(n + 1)
  <2>1. PICK g \in [SUBSET D -> Int] : \A s \in SUBSET D : Cardinality(s) <= n => Sums(f, g, s)
    BY <1>4, Zenon
  <2> DEFINE h == [s \in SUBSET D |-> IF s = {} THEN 0 ELSE f[First(s)] + g[s \ {First(s)}]]
  <2>0. \A s \in SUBSET D : s # {} => f[First(s)] + g[s \ {First(s)}] \in Int
    BY <1>2
  <2>2. h \in [SUBSET D -> Int]
    BY <2>0
  <2>3. \A s \in SUBSET D : Cardinality(s) <= n => h[s] = g[s]
    BY <2>1, Zenon DEF Sums
  <2>4. ASSUME NEW s \in SUBSET D, Cardinality(s) <= n + 1 PROVE Sums(f, h, s)
    <3>1. s # {} => h[s \ {First(s)}] = g[s \ {First(s)}]
      <4> HIDE DEF h
      <4>1. s # {} => s \ {First(s)} \in SUBSET D /\ Cardinality(s \ {First(s)}) <= n
        BY <1>1, <1>2, <2>4
      <4> QED
        BY <2>3, <4>1, Zenon
    <3> QED
      BY <3>1, Zenon DEF Sums
  <2> HIDE DEF h
  <2> QED
    BY <2>2, <2>4, Zenon
<1>5. \A n \in Nat : Upto(n)
  <2> DEFINE T == {n \in Nat : ~Upto(n)}
  <2> HIDE DEF Upto
  <2>1. SUFFICES ASSUME T # {} PROVE FALSE
    BY Zenon
  <2>2. PICK n \in T : \A m \in T : n <= m
    BY <2>1, Least, Zenon
  <2>3. n # 0
    BY <1>3, Zenon
  <2>4. n - 1 \in Nat /\ Upto(n - 1)
    BY <2>2, <2>3
  <2> QED
    BY <1>4, <2>4
<1>6. PICK g \in [SUBSET D -> Int] : \A s \in SUBSET D : Cardinality(s) <= Cardinality(D) => Sums(f, g, s)
  BY <1>5, FS_CardinalityType, Zenon
<1> QED
  BY <1>1, <1>6, Zenon DEF SumsOf

\* Adding k to f at c adds k to the sums over the subsets that have c.
LEMMA SumsShift ==
  ASSUME NEW D, IsFiniteSet(D), NEW f1 \in [D -> Int], NEW f2 \in [D -> Int], NEW c, NEW k \in Int,
         Shift(D, f1, f2, c, k), NEW g1 \in [SUBSET D -> Int], SumsOf(D, f1, g1),
         NEW g2, SumsOf(D, f2, g2)
  PROVE  g2[D] = g1[D] + IF c \in D THEN k ELSE 0
<1> DEFINE Shifted(s) == g2[s] = g1[s] + IF c \in s THEN k ELSE 0
           T == {n \in Nat : \E s \in SUBSET D : Cardinality(s) = n /\ ~Shifted(s)}
<1>1. SUFFICES ASSUME ~Shifted(D) PROVE FALSE
  BY Zenon
<1>2. Cardinality(D) \in T
  BY <1>1, SubsetSize, Zenon
<1>3. PICK n \in T : \A m \in T : n <= m
  BY <1>2, Least, Zenon
<1>4. PICK t \in SUBSET D : Cardinality(t) = n /\ ~Shifted(t)
  BY <1>3, Zenon
<1> DEFINE x == First(t)
           r == t \ {x}
<1>5. t # {}
  <2>1. g2[{}] = 0 /\ g1[{}] = 0
    BY Zenon DEF SumsOf, Sums
  <2>2. Shifted({})
    BY <2>1
  <2> QED
    BY <1>4, <2>2, Zenon
<1>6. x \in t /\ x \in D /\ r \in SUBSET D /\ x \notin r /\ n \in Nat /\ Cardinality(r) = n - 1 /\ Cardinality(r) \in Nat
  BY <1>4, <1>5, SubsetSize, Zenon
<1>7. Shifted(r)
  BY <1>3, <1>6
<1>8. g2[t] = f2[x] + g2[r] /\ g1[t] = f1[x] + g1[r]
  BY <1>5, Zenon DEF SumsOf, Sums
<1>9. f2[x] = f1[x] + IF x = c THEN k ELSE 0
  BY <1>6, Zenon DEF Shift
<1>10. f1[x] \in Int /\ g1[r] \in Int /\ (c \in t <=> c = x \/ c \in r)
  BY <1>6, Zenon
<1> QED
  BY <1>4, <1>6, <1>7, <1>8, <1>9, <1>10

\* SumFunction is the sum over the whole domain.
LEMMA SumIs ==
  ASSUME NEW D, IsFiniteSet(D), NEW f \in [D -> Int], NEW g \in [SUBSET D -> Int],
         SumsOf(D, f, g)
  PROVE  SumFunction(f) = g[D]
<1> DEFINE Def(h) == h = [s \in SUBSET D |-> IF s = {} THEN 0 ELSE f[First(s)] + h[s \ {First(s)}]]
<1>1. SumFunction(f) = (CHOOSE h : Def(h))[D]
  BY Zenon DEF SumFunction, SumFunctionOnSet, FoldFunctionOnSet, MapThenFoldSet, First
<1>2. Def(g)
  BY Zenon DEF SumsOf, Sums
<1>3. PICK h : Def(h) /\ SumFunction(f) = h[D]
  <2> HIDE DEF Def
  <2> QED
    BY <1>1, <1>2, Zenon
<1>4. SumsOf(D, f, h)
  BY <1>3, Zenon DEF SumsOf, Sums
<1>5. PICK z \in Int : z = 0
  OBVIOUS
<1>6. Shift(D, f, f, z, z)
  BY <1>5 DEF Shift
<1>7. h[D] = g[D] + IF z \in D THEN z ELSE 0
  BY <1>4, <1>6, SumsShift
<1>8. h[D] = g[D]
  BY <1>5, <1>7
<1> QED
  BY <1>3, <1>8, Zenon

\* The sum of integers is one.
LEMMA SumInt ==
  ASSUME NEW D, IsFiniteSet(D), NEW f \in [D -> Int]
  PROVE  SumFunction(f) \in Int
<1>1. PICK g \in [SUBSET D -> Int] : SumsOf(D, f, g)
  BY SumsExist, Zenon
<1> QED
  BY <1>1, SumIs

\* Adding k to one value of a function over a finite set adds k to the sum.
LEMMA SumShift ==
  ASSUME NEW D, IsFiniteSet(D), NEW f1 \in [D -> Int], NEW f2 \in [D -> Int], NEW c \in D,
         NEW k \in Int, Shift(D, f1, f2, c, k)
  PROVE  SumFunction(f1) \in Int /\ SumFunction(f2) = SumFunction(f1) + k
<1>1. PICK g1 \in [SUBSET D -> Int] : SumsOf(D, f1, g1)
  BY SumsExist, Zenon
<1>2. PICK g2 \in [SUBSET D -> Int] : SumsOf(D, f2, g2)
  BY SumsExist, Zenon
<1>3. g2[D] = g1[D] + IF c \in D THEN k ELSE 0
  BY <1>1, <1>2, SumsShift
<1>4. SumFunction(f1) = g1[D] /\ SumFunction(f2) = g2[D]
  BY <1>1, <1>2, SumIs, Zenon
<1> QED
  BY <1>3, <1>4, Zenon

\* A function that is zero everywhere has the sum zero.
LEMMA SumZero ==
  ASSUME NEW D, IsFiniteSet(D)
  PROVE  SumFunction([x \in D |-> 0]) = 0
<1> DEFINE f == [x \in D |-> 0]
           g == [s \in SUBSET D |-> 0]
<1>1. f \in [D -> Int] /\ g \in [SUBSET D -> Int] /\ g[D] = 0
  OBVIOUS
<1>2. \A s \in SUBSET D : s # {} => First(s) \in D
  BY Zenon DEF First
<1>3. SumsOf(D, f, g)
  BY <1>2 DEF SumsOf, Sums
<1> HIDE DEF f, g
<1>4. SumFunction(f) = 0
  BY <1>1, <1>3, SumIs, Zenon
<1> QED
  BY <1>4, Zenon DEF f

\* A sum over s may begin with any element of s.
LEMMA SumsAny ==
  ASSUME NEW D, IsFiniteSet(D), NEW f \in [D -> Int], NEW g \in [SUBSET D -> Int], SumsOf(D, f, g)
  PROVE  AnyFirst(D, f, g)
<1> DEFINE Any(s) == \A x \in s : g[s] = f[x] + g[s \ {x}]
           T == {n \in Nat : \E s \in SUBSET D : Cardinality(s) = n /\ ~Any(s)}
<1>1. SUFFICES ASSUME NEW u \in SUBSET D, ~Any(u) PROVE FALSE
  BY Zenon DEF AnyFirst
<1>2. Cardinality(u) \in T
  BY <1>1, SubsetSize, Zenon
<1>3. PICK n \in T : \A m \in T : n <= m
  BY <1>2, Least, Zenon
<1>4. PICK t \in SUBSET D : Cardinality(t) = n /\ ~Any(t)
  BY <1>3, Zenon
<1>5. PICK x \in t : g[t] # f[x] + g[t \ {x}]
  BY <1>4, Zenon
<1> DEFINE y == First(t)
<1>6. y \in t /\ g[t] = f[y] + g[t \ {y}] /\ x \in D /\ y \in D /\ IsFiniteSet(t) /\ n \in Nat
  BY <1>5, SubsetSize, FS_Subset, Zenon DEF SumsOf, Sums
<1> HIDE DEF y
<1>7. x # y
  BY <1>5, <1>6, Zenon
<1>8. /\ t \ {y} \in SUBSET D /\ Cardinality(t \ {y}) = n - 1
      /\ t \ {x} \in SUBSET D /\ Cardinality(t \ {x}) = n - 1
  BY <1>4, <1>6, FS_RemoveElement, Zenon
<1>9. n - 1 \in Nat /\ ~(n <= n - 1)
  <2>1. n - 1 \in Nat
    BY <1>8, SubsetSize, Zenon
  <2> QED
    BY <2>1, <1>6
<1>10. Any(t \ {y}) /\ Any(t \ {x})
  BY <1>3, <1>8, <1>9, Zenon
<1>11. (t \ {y}) \ {x} = (t \ {x}) \ {y} /\ (t \ {y}) \ {x} \in SUBSET D
  BY Zenon
<1>12. PICK r \in Int : r = g[(t \ {y}) \ {x}] /\ r = g[(t \ {x}) \ {y}]
  BY <1>11, Zenon
<1>13. g[t \ {y}] = f[x] + r /\ g[t \ {x}] = f[y] + r /\ f[x] \in Int /\ f[y] \in Int
  BY <1>6, <1>7, <1>10, <1>12, Zenon
<1> QED
  BY <1>5, <1>6, <1>13

\* A sum is the sum over a part of the domain and the sum of the rest.
LEMMA SumsSplit ==
  ASSUME NEW D, IsFiniteSet(D), NEW S \in SUBSET D, NEW f, NEW g, Table(D, f, g),
         NEW h, NEW k, Table(D, h, k), Erased(D, S, f, h)
  PROVE  g[D] = g[S] + k[D]
<1>0. /\ f \in [D -> Int] /\ g \in [SUBSET D -> Int] /\ SumsOf(D, f, g)
      /\ h \in [D -> Int] /\ k \in [SUBSET D -> Int] /\ SumsOf(D, h, k)
  BY Zenon DEF Table
<1> DEFINE Split(s) == g[s] = g[s \cap S] + k[s]
           T == {n \in Nat : \E s \in SUBSET D : Cardinality(s) = n /\ ~Split(s)}
<1>1. SUFFICES ASSUME ~Split(D) PROVE FALSE
  <2>1. D \cap S = S
    BY Zenon
  <2> QED
    BY <2>1, Zenon
<1>2. Cardinality(D) \in T
  BY <1>1, SubsetSize, Zenon
<1>3. PICK n \in T : \A m \in T : n <= m
  BY <1>2, Least, Zenon
<1>4. PICK t \in SUBSET D : Cardinality(t) = n /\ ~Split(t)
  BY <1>3, Zenon
<1> DEFINE x == First(t)
           r == t \ {x}
<1>5. t # {}
  <2>1. g[{}] = 0 /\ k[{}] = 0 /\ {} \cap S = {}
    BY <1>0, Zenon DEF SumsOf, Sums
  <2>2. Split({})
    BY <2>1
  <2> QED
    BY <1>4, <2>2, Zenon
<1>6. x \in t /\ x \in D /\ r \in SUBSET D /\ n \in Nat /\ Cardinality(r) = n - 1 /\ Cardinality(r) \in Nat
  BY <1>4, <1>5, SubsetSize, Zenon
<1>7. g[r] = g[r \cap S] + k[r]
  <2>1. n - 1 \in Nat
    BY <1>6, Zenon
  <2>2. ~(n <= n - 1)
    BY <1>6, <2>1
  <2> QED
    BY <1>3, <1>6, <2>1, <2>2, Zenon
<1>8. g[t] = f[x] + g[r] /\ k[t] = h[x] + k[r]
  BY <1>0, <1>5, Zenon DEF SumsOf, Sums
<1> HIDE DEF x
<1>9. CASE x \in S
  <2>1. (t \cap S) \ {x} = r \cap S
    BY Zenon
  <2>2. x \in t \cap S /\ t \cap S \in SUBSET D /\ r \cap S \in SUBSET D
    BY <1>6, <1>9, Zenon
  <2>3. g[t \cap S] = f[x] + g[r \cap S]
    <3>1. AnyFirst(D, f, g)
      BY <1>0, SumsAny, Zenon
    <3>2. g[t \cap S] = f[x] + g[(t \cap S) \ {x}]
      BY <2>2, <3>1, Zenon DEF AnyFirst
    <3> QED
      BY <2>1, <3>2, Zenon
  <2>4. h[x] = 0
    BY <1>6, <1>9, Zenon DEF Erased
  <2>5. PICK a \in Int, b \in Int, c \in Int : a = g[r \cap S] /\ b = k[r] /\ c = f[x]
    BY <1>0, <1>6, <2>2, Zenon
  <2>6. g[t] = c + (a + b) /\ k[t] = 0 + b /\ g[t \cap S] = c + a
    BY <1>7, <1>8, <2>3, <2>4, <2>5, Zenon
  <2>7. c + (a + b) = (c + a) + (0 + b)
    OBVIOUS
  <2> QED
    BY <1>4, <2>6, <2>7, Zenon
<1>10. CASE x \notin S
  <2>1. t \cap S = r \cap S
    BY <1>10, Zenon
  <2>2. h[x] = f[x] /\ r \cap S \in SUBSET D
    BY <1>6, <1>10, Zenon DEF Erased
  <2>3. PICK a \in Int, b \in Int, c \in Int : a = g[r \cap S] /\ b = k[r] /\ c = f[x]
    BY <1>0, <1>6, <2>2, Zenon
  <2>4. g[t] = c + (a + b) /\ k[t] = c + b /\ g[t \cap S] = a
    BY <1>7, <1>8, <2>1, <2>2, <2>3, Zenon
  <2>5. c + (a + b) = a + (c + b)
    OBVIOUS
  <2> QED
    BY <1>4, <2>4, <2>5, Zenon
<1> QED
  BY <1>9, <1>10, Zenon

\* The sum over S of a function over D, and what it is without the values of S.
LEMMA SumSplit ==
  ASSUME NEW D, IsFiniteSet(D), NEW f \in [D -> Int], NEW S \in SUBSET D
  PROVE  /\ SumFunction([x \in S |-> f[x]]) \in Int
         /\ SumFunction([x \in D |-> IF x \in S THEN 0 ELSE f[x]])
              = SumFunction(f) - SumFunction([x \in S |-> f[x]])
<1> DEFINE h == [x \in D |-> IF x \in S THEN 0 ELSE f[x]]
           e == [x \in S |-> f[x]]
<1>1. h \in [D -> Int] /\ e \in [S -> Int] /\ Erased(D, S, f, h)
  BY DEF Erased
<1>2. \A x \in S : e[x] = f[x]
  BY Zenon
<1> HIDE DEF h, e
<1>3. PICK g \in [SUBSET D -> Int] : SumsOf(D, f, g)
  BY SumsExist, Zenon
<1>4. PICK k \in [SUBSET D -> Int] : SumsOf(D, h, k)
  BY <1>1, SumsExist, Zenon
<1>5. g[D] = g[S] + k[D]
  <2>1. Table(D, f, g) /\ Table(D, h, k)
    BY <1>1, <1>3, <1>4, Zenon DEF Table
  <2> QED
    BY <1>1, <2>1, SumsSplit
<1>6. SumFunction(f) = g[D] /\ SumFunction(h) = k[D]
  BY <1>1, <1>3, <1>4, SumIs, Zenon
<1> DEFINE l == [s \in SUBSET S |-> g[s]]
<1>7. l \in [SUBSET S -> Int] /\ l[S] = g[S] /\ IsFiniteSet(S)
  <2>1. \A s \in SUBSET S : s \in SUBSET D
    BY Zenon
  <2>2. l \in [SUBSET S -> Int]
    BY <2>1, Zenon
  <2>3. l[S] = g[S]
    BY Zenon
  <2> QED
    BY <2>2, <2>3, FS_Subset, Zenon
<1>8. SumsOf(S, e, l)
  <2>1. SUFFICES ASSUME NEW s \in SUBSET S PROVE Sums(e, l, s)
    BY Zenon DEF SumsOf
  <2>2. s # {} => First(s) \in s
    BY Zenon DEF First
  <2>3. Sums(f, g, s)
    BY <1>3, Zenon DEF SumsOf
  <2>4. l[s] = g[s] /\ l[s \ {First(s)}] = g[s \ {First(s)}]
    BY Zenon
  <2> HIDE DEF l
  <2> QED
    BY <1>2, <2>2, <2>3, <2>4, Zenon DEF Sums
<1> HIDE DEF l
<1>9. SumFunction(e) = g[S]
  BY <1>1, <1>7, <1>8, SumIs, Zenon
<1>10. PICK a \in Int, b \in Int : a = g[S] /\ b = k[D]
  BY Zenon
<1>11. b = (a + b) - a
  OBVIOUS
<1>12. SumFunction(h) = SumFunction(f) - SumFunction(e) /\ SumFunction(e) \in Int
  BY <1>5, <1>6, <1>9, <1>10, <1>11, Zenon
<1> QED
  BY <1>12, Zenon DEF h, e

\* The sum of naturals is one.
LEMMA SumNat ==
  ASSUME NEW D, IsFiniteSet(D), NEW f \in [D -> Nat]
  PROVE  SumFunction(f) \in Nat
<1>0. f \in [D -> Int]
  OBVIOUS
<1>1. PICK g \in [SUBSET D -> Int] : SumsOf(D, f, g)
  BY <1>0, SumsExist, Zenon
<1> DEFINE T == {n \in Nat : \E s \in SUBSET D : Cardinality(s) = n /\ g[s] \notin Nat}
<1>2. SUFFICES ASSUME g[D] \notin Nat PROVE FALSE
  BY <1>0, <1>1, SumIs, Zenon
<1>3. Cardinality(D) \in T
  BY <1>2, SubsetSize, Zenon
<1>4. PICK n \in T : \A m \in T : n <= m
  BY <1>3, Least, Zenon
<1>5. PICK t \in SUBSET D : Cardinality(t) = n /\ g[t] \notin Nat
  BY <1>4, Zenon
<1> DEFINE x == First(t)
           r == t \ {x}
<1>6. t # {}
  <2>1. g[{}] = 0
    BY <1>1, Zenon DEF SumsOf, Sums
  <2>2. 0 \in Nat
    OBVIOUS
  <2> QED
    BY <1>5, <2>1, <2>2, Zenon
<1>7. x \in D /\ r \in SUBSET D /\ n \in Nat /\ Cardinality(r) = n - 1 /\ Cardinality(r) \in Nat
  BY <1>5, <1>6, SubsetSize, Zenon
<1>8. g[t] = f[x] + g[r]
  BY <1>1, <1>6, Zenon DEF SumsOf, Sums
<1> HIDE DEF x, r
<1>9. g[r] \in Nat
  <2>1. n - 1 \in Nat /\ n \in Nat
    BY <1>7, Zenon
  <2>2. ~(n <= n - 1)
    BY <2>1
  <2> QED
    BY <1>4, <1>7, <2>1, <2>2, Zenon
<1>10. f[x] \in Nat
  BY <1>7, Zenon
<1> QED
  BY <1>5, <1>8, <1>9, <1>10

\* The sum over one element.
LEMMA SumOne ==
  ASSUME NEW x, NEW v \in Int
  PROVE  SumFunction([y \in {x} |-> v]) = v
<1> DEFINE f == [y \in {x} |-> v]
           z == [y \in {x} |-> 0]
<1>1. IsFiniteSet({x}) /\ x \in {x}
  BY FS_Singleton, Zenon
<1>2. f \in [{x} -> Int] /\ z \in [{x} -> Int] /\ Shift({x}, z, f, x, v)
  BY DEF Shift
<1>3. SumFunction(z) = 0
  BY <1>1, SumZero, Zenon
<1> HIDE DEF f, z
<1>4. SumFunction(f) = SumFunction(z) + v
  BY <1>1, <1>2, SumShift
<1>5. SumFunction(f) = v
  BY <1>3, <1>4
<1> QED
  BY <1>5, Zenon DEF f

\* The sum over 1..n+1 adds the last value to the sum over 1..n.
LEMMA SumPrefix ==
  ASSUME NEW n \in Nat, NEW f \in [1..n+1 -> Int]
  PROVE  /\ SumFunction([i \in 1..n |-> f[i]]) \in Int
         /\ SumFunction(f) = SumFunction([i \in 1..n |-> f[i]]) + f[n+1]
<1> DEFINE D == 1..n+1
           S == 1..n
           h == [x \in D |-> IF x \in S THEN 0 ELSE f[x]]
           z == [x \in D |-> 0]
<1>1. IsFiniteSet(D) /\ S \in SUBSET D /\ f[n+1] \in Int /\ n+1 \in D /\ f \in [D -> Int]
  BY FS_Interval
<1>2. h \in [D -> Int] /\ z \in [D -> Int] /\ Shift(D, z, h, n+1, f[n+1])
  <2>1. \A x \in D : x \notin S => x = n+1
    OBVIOUS
  <2>2. n+1 \notin S
    OBVIOUS
  <2>3. h \in [D -> Int] /\ z \in [D -> Int]
    OBVIOUS
  <2>4. \A x \in D : h[x] = IF x = n+1 THEN f[n+1] ELSE 0
    BY <2>1, <2>2, Zenon
  <2>5. \A x \in D : z[x] = 0
    BY Zenon
  <2> HIDE DEF h, z, D, S
  <2> QED
    BY <1>1, <2>3, <2>4, <2>5 DEF Shift
<1>3. SumFunction(z) = 0
  BY <1>1, SumZero, Zenon
<1> HIDE DEF D, S
<1>4. /\ SumFunction([i \in S |-> f[i]]) \in Int
      /\ SumFunction(h) = SumFunction(f) - SumFunction([i \in S |-> f[i]])
  BY <1>1, SumSplit, Zenon
<1> HIDE DEF h, z
<1>5. SumFunction(h) = SumFunction(z) + f[n+1]
  <2>1. PICK c \in D, k \in Int : c = n+1 /\ k = f[n+1]
    BY <1>1, Zenon
  <2>2. Shift(D, z, h, c, k)
    BY <1>2, <2>1, Zenon
  <2>3. IsFiniteSet(D) /\ z \in [D -> Int] /\ h \in [D -> Int]
    BY <1>1, <1>2, Zenon
  <2>4. SumFunction(h) = SumFunction(z) + k
    BY <2>2, <2>3, SumShift
  <2> QED
    BY <2>1, <2>4, Zenon
<1>6. SumFunction(f) \in Int
  BY <1>1, SumInt, Zenon
<1>7. PICK a \in Int, b \in Int, c \in Int :
        a = SumFunction([i \in S |-> f[i]]) /\ b = SumFunction(f) /\ c = f[n+1]
  BY <1>1, <1>4, <1>6, Zenon
<1>8. b - a = 0 + c
  BY <1>3, <1>4, <1>5, <1>7, Zenon
<1>9. b = a + c
  BY <1>8
<1> QED
  BY <1>7, <1>9, Zenon DEF S

\* Without the first value the sum over 1..n+1 is less by it.
LEMMA SumTail ==
  ASSUME NEW n \in Nat, NEW f \in [1..n+1 -> Int]
  PROVE  SumFunction([i \in 1..n |-> f[i+1]]) = SumFunction(f) - f[1]
<1> DEFINE L(m) == SumFunction([i \in 1..m |-> f[i+1]])
           R(m) == SumFunction([i \in 1..m |-> f[i]])
<1>1. /\ L(0) = 0 /\ R(0) = 0
  <2>1. IsFiniteSet({}) /\ 1..0 = {}
    BY FS_EmptySet
  <2>2. [i \in {} |-> f[i+1]] = [x \in {} |-> 0] /\ [i \in {} |-> f[i]] = [x \in {} |-> 0]
    BY Zenon
  <2> QED
    BY <2>1, <2>2, SumZero, Zenon
<1>2. ASSUME NEW m \in Nat, m < n PROVE L(m+1) = L(m) + f[m+2] /\ L(m) \in Int
  <2> DEFINE e == [i \in 1..m+1 |-> f[i+1]]
  <2>1. e \in [1..m+1 -> Int] /\ e[m+1] = f[m+2] /\ [i \in 1..m |-> e[i]] = [i \in 1..m |-> f[i+1]]
    <3>1. \A i \in 1..m+1 : i+1 \in 1..n+1
      BY <1>2
    <3>2. m+1 \in 1..m+1 /\ (m+1)+1 = m+2 /\ \A i \in 1..m : i \in 1..m+1
      OBVIOUS
    <3> QED
      BY <3>1, <3>2, Zenon
  <2> HIDE DEF e
  <2>2. SumFunction(e) = SumFunction([i \in 1..m |-> e[i]]) + e[m+1] /\ SumFunction([i \in 1..m |-> e[i]]) \in Int
    BY <2>1, SumPrefix, Zenon
  <2> QED
    BY <2>1, <2>2, Zenon DEF e
<1>3. ASSUME NEW m \in Nat, m <= n PROVE R(m+1) = R(m) + f[m+1] /\ R(m) \in Int
  <2> DEFINE e == [i \in 1..m+1 |-> f[i]]
  <2>1. e \in [1..m+1 -> Int] /\ e[m+1] = f[m+1] /\ [i \in 1..m |-> e[i]] = [i \in 1..m |-> f[i]]
    <3>1. \A i \in 1..m+1 : i \in 1..n+1
      BY <1>3
    <3>2. m+1 \in 1..m+1 /\ \A i \in 1..m : i \in 1..m+1
      OBVIOUS
    <3> QED
      BY <3>1, <3>2, Zenon
  <2> HIDE DEF e
  <2>2. SumFunction(e) = SumFunction([i \in 1..m |-> e[i]]) + e[m+1] /\ SumFunction([i \in 1..m |-> e[i]]) \in Int
    BY <2>1, SumPrefix, Zenon
  <2> QED
    BY <2>1, <2>2, Zenon DEF e
<1>4. R(n+1) = SumFunction(f) /\ f[1] \in Int
  <2>1. [i \in 1..n+1 |-> f[i]] = f /\ 1 \in 1..n+1
    OBVIOUS
  <2> QED
    BY <2>1, Zenon
<1> HIDE DEF L, R
<1> DEFINE T == {m \in Nat : m <= n /\ L(m) + f[1] # R(m+1)}
<1>5. L(n) + f[1] = R(n+1)
  <2>0. n <= n
    OBVIOUS
  <2>1. SUFFICES ASSUME n \in T PROVE FALSE
    BY <2>0, Zenon
  <2>2. PICK m \in T : \A k \in T : m <= k
    BY <2>1, Least, Zenon
  <2>3. m \in Nat /\ m <= n /\ L(m) + f[1] # R(m+1)
    BY <2>2, Zenon
  <2>4. CASE m = 0
    BY <1>1, <1>3, <1>4, <2>3, <2>4
  <2>5. CASE m # 0
    <3>1. PICK k \in Nat : m = k+1 /\ k < n /\ k+1 <= n /\ ~(m <= k)
      BY <2>3, <2>5
    <3>2. L(k) + f[1] = R(k+1)
      BY <2>2, <3>1
    <3>3. L(k+1) = L(k) + f[k+2] /\ L(k) \in Int
      BY <1>2, <3>1
    <3>4. R((k+1)+1) = R(k+1) + f[(k+1)+1] /\ f[(k+1)+1] = f[k+2] /\ f[k+2] \in Int
      BY <1>3, <3>1
    <3> QED
      BY <1>4, <2>3, <3>1, <3>2, <3>3, <3>4
  <2> QED
    BY <2>4, <2>5, Zenon
<1>6. L(n) \in Int
  <2>1. CASE n = 0
    BY <1>1, <2>1
  <2>2. CASE n # 0
    <3>1. PICK k \in Nat : n = k+1 /\ k < n
      BY <2>2
    <3>2. L(k+1) = L(k) + f[k+2] /\ L(k) \in Int /\ f[k+2] \in Int
      BY <1>2, <3>1
    <3> QED
      BY <3>1, <3>2
  <2> QED
    BY <2>1, <2>2, Zenon
<1>7. L(n) = SumFunction(f) - f[1]
  BY <1>4, <1>5, <1>6
<1> QED
  BY <1>7, Zenon DEF L

=============================================================================
