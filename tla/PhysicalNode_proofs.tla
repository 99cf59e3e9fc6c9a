-------------------------- MODULE PhysicalNode_proofs --------------------------
(***************************************************************************)
(* The partitions of one owner and their selector, for any rules, weights  *)
(* and limits: what the load order lists, and how far the credits of the   *)
(* smooth weighted selector can drift apart.  And the router in front of   *)
(* the nodes: one home for every ticket, which moves only for a cause.     *)
(***************************************************************************)
EXTENDS PhysicalNode, FiniteSetTheorems, SequenceTheorems, WellFoundedInduction, TLAPS

(* Induction over the subsets of a finite set.                             *)
LEMMA SubsetInduction ==
  ASSUME NEW K, IsFiniteSet(K), NEW G,
         \A T \in SUBSET K : (\A U \in SUBSET T : U # T => U \in G) => T \in G
  PROVE  SUBSET K \subseteq G
<1> DEFINE Bad == {T \in SUBSET K : T \notin G}
           R == StrictSubsetOrdering(K)
<1> SUFFICES ASSUME Bad # {} PROVE FALSE
  OBVIOUS
<1>1. IsWellFoundedOn(R, FiniteSubsetsOf(K))
  BY FS_StrictSubsetOrderingWellFounded
<1>2. IsWellFoundedOn(R, SUBSET K)
  BY <1>1, FS_FiniteSubsetsOfFinite
<1>3. PICK T \in Bad : \A U \in Bad : ~(<<U, T>> \in R)
  <2>1. Bad \subseteq SUBSET K
    OBVIOUS
  <2> HIDE DEF R, Bad
  <2> QED
    BY <1>2, <2>1, WFMin
<1>4. \A U \in SUBSET T : U # T => U \in G
  <2> TAKE U \in SUBSET T
  <2> HAVE U # T
  <2>1. <<U, T>> \in R
    BY DEF R, StrictSubsetOrdering
  <2> QED
    BY <1>3, <2>1
<1> QED
  BY <1>4

LEMMA SetInduction ==
  ASSUME NEW K, IsFiniteSet(K), NEW G, {} \in G,
         \A T \in SUBSET K : \A x \in T : T \ {x} \in G => T \in G
  PROVE  SUBSET K \subseteq G
<1>1. ASSUME NEW T \in SUBSET K, \A U \in SUBSET T : U # T => U \in G PROVE T \in G
  <2>1. CASE T = {}
    BY <2>1
  <2>2. ASSUME NEW x \in T PROVE T \in G
    <3>1. T \ {x} \in SUBSET T /\ T \ {x} # T
      BY <2>2
    <3> QED
      BY <1>1, <2>2, <3>1
  <2> QED
    BY <2>1, <2>2
<1> QED
  BY <1>1, SubsetInduction

-------------------------------------------------------------------------------
(* Sums over a finite set.  MapThenSumSet is the value of a recursive      *)
(* function on the subsets: Unfold is the equation that defines it.        *)
Chosen(T) == CHOOSE x \in T : TRUE
Unfold(f, g, T) == IF T = {} THEN 0 ELSE f[Chosen(T)] + g[T \ {Chosen(T)}]
IsSum(f, g, K) == g = [T \in SUBSET K |-> Unfold(f, g, T)]
Total(f, K) == MapThenSumSet(LAMBDA x : f[x], K)

LEMMA TotalDef == ASSUME NEW f, NEW K PROVE Total(f, K) = (CHOOSE g : IsSum(f, g, K))[K]
  BY DEF Total, IsSum, Unfold, Chosen, MapThenSumSet, MapThenFoldSet

LEMMA ChosenIn == ASSUME NEW T, T # {} PROVE Chosen(T) \in T
  BY DEF Chosen

LEMMA SumExists ==
  ASSUME NEW f, NEW K, IsFiniteSet(K)
  PROVE  \E g : IsSum(f, g, K)
<1> DEFINE Upto(g, n) == \A T \in SUBSET K : Cardinality(T) < n => g[T] = Unfold(f, g, T)
           Once(g) == [T \in SUBSET K |-> Unfold(f, g, T)]
           Bad == {n \in Nat : ~\E g : Upto(g, n)}
           R == OpToRel(<, Nat)
<1>1. \A T \in SUBSET K : IsFiniteSet(T) /\ Cardinality(T) \in Nat
  BY FS_Subset, FS_CardinalityType
<1>2. ASSUME NEW g, NEW n \in Nat, Upto(g, n), NEW T \in SUBSET K, Cardinality(T) <= n
      PROVE  Unfold(f, Once(g), T) = Unfold(f, g, T)
  <2>1. CASE T = {}
    BY <2>1 DEF Unfold
  <2>2. CASE T # {}
    <3>1. PICK U \in SUBSET K : U = T \ {Chosen(T)}
      OBVIOUS
    <3>2. Cardinality(U) = Cardinality(T) - 1
      BY <1>1, <2>2, <3>1, ChosenIn, FS_RemoveElement
    <3>3. Cardinality(U) < n
      BY <1>1, <1>2, <3>2
    <3>4. g[U] = Unfold(f, g, U) /\ Once(g)[U] = Unfold(f, g, U)
      BY <1>2, <3>3
    <3> HIDE DEF Once
    <3> QED
      BY <3>1, <3>4 DEF Unfold
  <2> QED
    BY <2>1, <2>2
<1>3. Bad = {}
  <2> SUFFICES ASSUME Bad # {} PROVE FALSE
    OBVIOUS
  <2>1. PICK n \in Bad : \A m \in Bad : ~(<<m, n>> \in R)
    <3>1. IsWellFoundedOn(R, Nat)
      BY NatLessThanWellFounded
    <3> HIDE DEF R
    <3> QED
      BY <3>1, WFMin
  <2>2. n # 0
    <3>1. Upto(f, 0)
      BY <1>1
    <3> QED
      BY <2>1, <3>1
  <2>3. n - 1 \in Nat /\ <<n - 1, n>> \in R
    BY <2>2 DEF OpToRel
  <2>4. n - 1 \notin Bad
    BY <2>1, <2>3
  <2>5. PICK g : Upto(g, n - 1)
    BY <2>3, <2>4
  <2>6. Upto(Once(g), n)
    <3> SUFFICES ASSUME NEW T \in SUBSET K, Cardinality(T) < n
                 PROVE  Once(g)[T] = Unfold(f, Once(g), T)
      OBVIOUS
    <3>1. Cardinality(T) <= n - 1
      BY <1>1
    <3>2. Unfold(f, Once(g), T) = Unfold(f, g, T)
      BY <1>2, <2>3, <2>5, <3>1
    <3> QED
      BY <3>2
  <2> QED
    BY <2>1, <2>6
<1>4. PICK n \in Nat : n = Cardinality(K) + 1
  BY FS_CardinalityType
<1>5. PICK g : Upto(g, n)
  BY <1>3
<1>6. \A T \in SUBSET K : Cardinality(T) <= n
  BY <1>1, <1>4, FS_Subset, FS_CardinalityType
<1>7. \A T \in SUBSET K : Unfold(f, Once(g), T) = Unfold(f, g, T)
  BY <1>2, <1>5, <1>6
<1>8. PICK h : h = Once(g)
  OBVIOUS
<1>9. \A T \in SUBSET K : Unfold(f, h, T) = Unfold(f, g, T)
  BY <1>7, <1>8
<1>10. h = [T \in SUBSET K |-> Unfold(f, h, T)]
  BY <1>8, <1>9
<1> QED
  BY <1>10 DEF IsSum

LEMMA SumsAgree ==
  ASSUME NEW f, NEW K, NEW L, IsFiniteSet(K), L \in SUBSET K,
         NEW g, IsSum(f, g, K), NEW h, IsSum(f, h, L)
  PROVE  g[L] = h[L]
<1> DEFINE G == {T \in SUBSET L : g[T] = h[T]}
<1>1. IsFiniteSet(L)
  BY FS_Subset
<1>2. \A T \in SUBSET L : g[T] = Unfold(f, g, T) /\ h[T] = Unfold(f, h, T)
  BY DEF IsSum
<1>3. ASSUME NEW T \in SUBSET L, \A U \in SUBSET T : U # T => U \in G
      PROVE  T \in G
  <2>1. CASE T = {}
    BY <1>2, <2>1 DEF Unfold
  <2>2. CASE T # {}
    <3>1. T \ {Chosen(T)} \in SUBSET T /\ T \ {Chosen(T)} # T
      BY <2>2, ChosenIn
    <3>2. g[T \ {Chosen(T)}] = h[T \ {Chosen(T)}]
      BY <1>3, <3>1
    <3> QED
      BY <1>2, <2>2, <3>2 DEF Unfold
  <2> QED
    BY <2>1, <2>2
<1>4. SUBSET L \subseteq G
  <2> HIDE DEF G
  <2> QED
    BY <1>1, <1>3, SubsetInduction
<1> QED
  BY <1>4

LEMMA TotalOfSubset ==
  ASSUME NEW f, NEW K, IsFiniteSet(K), NEW T \in SUBSET K, NEW g, IsSum(f, g, K)
  PROVE  Total(f, T) = g[T]
<1>1. IsFiniteSet(T)
  BY FS_Subset
<1>2. PICK h : h = (CHOOSE g2 : IsSum(f, g2, T))
  OBVIOUS
<1>3. IsSum(f, h, T)
  BY <1>1, <1>2, SumExists
<1>4. Total(f, T) = h[T]
  BY <1>2, TotalDef
<1> QED
  BY <1>3, <1>4, SumsAgree

LEMMA TotalEmpty == ASSUME NEW f PROVE Total(f, {}) = 0
<1>1. IsFiniteSet({})
  BY FS_EmptySet
<1>2. PICK g : IsSum(f, g, {})
  BY <1>1, SumExists
<1>3. g[{}] = 0
  BY <1>2 DEF IsSum, Unfold
<1> QED
  BY <1>1, <1>2, <1>3, TotalOfSubset

LEMMA TotalUnfold ==
  ASSUME NEW f, NEW K, IsFiniteSet(K), K # {}
  PROVE  Total(f, K) = f[Chosen(K)] + Total(f, K \ {Chosen(K)})
<1>1. PICK g : IsSum(f, g, K)
  BY SumExists
<1>2. Total(f, K) = g[K] /\ Total(f, K \ {Chosen(K)}) = g[K \ {Chosen(K)}]
  BY <1>1, TotalOfSubset
<1>3. g[K] = Unfold(f, g, K)
  BY <1>1 DEF IsSum
<1> QED
  BY <1>2, <1>3 DEF Unfold

LEMMA TotalType ==
  ASSUME NEW K, IsFiniteSet(K), NEW f \in [K -> Int], NEW S \in SUBSET K
  PROVE  Total(f, S) \in Int
<1> DEFINE G == {T \in SUBSET K : Total(f, T) \in Int}
<1>1. ASSUME NEW T \in SUBSET K, \A U \in SUBSET T : U # T => U \in G PROVE T \in G
  <2>1. CASE T = {}
    BY <2>1, TotalEmpty
  <2>2. CASE T # {}
    <3>1. Chosen(T) \in T /\ IsFiniteSet(T)
      BY <2>2, ChosenIn, FS_Subset
    <3>2. T \ {Chosen(T)} \in G
      BY <1>1, <3>1
    <3>3. Total(f, T) = f[Chosen(T)] + Total(f, T \ {Chosen(T)})
      BY <2>2, <3>1, TotalUnfold
    <3> QED
      BY <3>1, <3>2, <3>3
  <2> QED
    BY <2>1, <2>2
<1>2. SUBSET K \subseteq G
  <2> HIDE DEF G
  <2> QED
    BY <1>1, SubsetInduction
<1> QED
  BY <1>2

(* Any element may be taken out first.                                     *)
LEMMA TotalRemove ==
  ASSUME NEW K, IsFiniteSet(K), NEW f \in [K -> Int], NEW S \in SUBSET K, NEW x \in S
  PROVE  Total(f, S) = f[x] + Total(f, S \ {x})
<1> DEFINE G == {T \in SUBSET K : \A y \in T : Total(f, T) = f[y] + Total(f, T \ {y})}
<1>1. ASSUME NEW T \in SUBSET K, \A U \in SUBSET T : U # T => U \in G,
             NEW y \in T
      PROVE  Total(f, T) = f[y] + Total(f, T \ {y})
  <2>1. PICK c \in T : c = Chosen(T)
    BY ChosenIn
  <2>2. IsFiniteSet(T)
    BY FS_Subset
  <2>3. Total(f, T) = f[c] + Total(f, T \ {c})
    BY <2>1, <2>2, TotalUnfold
  <2>4. CASE y = c
    BY <2>3, <2>4
  <2>5. CASE y # c
    <3>1. T \ {c} \in G /\ y \in T \ {c} /\ T \ {y} \in G /\ c \in T \ {y}
      BY <1>1, <2>5
    <3>2. Total(f, T \ {c}) = f[y] + Total(f, (T \ {c}) \ {y})
      BY <3>1
    <3>3. Total(f, T \ {y}) = f[c] + Total(f, (T \ {y}) \ {c})
      BY <3>1
    <3>4. (T \ {y}) \ {c} = (T \ {c}) \ {y}
      OBVIOUS
    <3>5. Total(f, (T \ {c}) \ {y}) \in Int /\ f[y] \in Int /\ f[c] \in Int
      BY TotalType
    <3>6. PICK t, u, v \in Int : /\ t = Total(f, (T \ {c}) \ {y}) /\ u = f[y] /\ v = f[c]
      BY <3>5
    <3>7. Total(f, T) = v + (u + t) /\ Total(f, T \ {y}) = v + t
      BY <2>3, <3>2, <3>3, <3>4, <3>6
    <3>8. v + (u + t) = u + (v + t)
      BY <3>6
    <3> QED
      BY <3>6, <3>7, <3>8
  <2> QED
    BY <2>4, <2>5
<1>2. \A T \in SUBSET K : (\A U \in SUBSET T : U # T => U \in G) => T \in G
  BY <1>1
<1>3. SUBSET K \subseteq G
  <2> HIDE DEF G
  <2> QED
    BY <1>2, SubsetInduction
<1> QED
  BY <1>3

LEMMA TotalSplit ==
  ASSUME NEW K, IsFiniteSet(K), NEW f \in [K -> Int], NEW S \in SUBSET K, NEW A \in SUBSET S
  PROVE  Total(f, S) = Total(f, A) + Total(f, S \ A)
<1> DEFINE G == {T \in SUBSET S : Total(f, S) = Total(f, T) + Total(f, S \ T)}
<1>1. IsFiniteSet(S)
  BY FS_Subset
<1>2. {} \in G
  <2>1. Total(f, S) \in Int /\ S \ {} = S
    BY TotalType
  <2> QED
    BY <2>1, TotalEmpty
<1>3. ASSUME NEW T \in SUBSET S, NEW x \in T, T \ {x} \in G PROVE T \in G
  <2>1. PICK a, b, c \in Int : a = Total(f, T \ {x}) /\ b = f[x] /\ c = Total(f, S \ T)
    BY TotalType
  <2>2. Total(f, T) = b + a
    BY <2>1, TotalRemove
  <2>3. Total(f, S \ (T \ {x})) = b + c
    <3>1. x \in S \ (T \ {x}) /\ (S \ (T \ {x})) \ {x} = S \ T
      BY <1>3
    <3> QED
      BY <2>1, <3>1, TotalRemove
  <2>4. Total(f, S) = a + (b + c)
    BY <1>3, <2>1, <2>3
  <2>5. a + (b + c) = (b + a) + c
    BY <2>1
  <2> QED
    BY <2>1, <2>2, <2>4, <2>5
<1>4. SUBSET S \subseteq G
  <2> HIDE DEF G
  <2> QED
    BY <1>1, <1>2, <1>3, SetInduction
<1> QED
  BY <1>4

(* A sum that depends on S alone, and the sum of two functions.            *)
LEMMA TotalSame ==
  ASSUME NEW K, IsFiniteSet(K), NEW f \in [K -> Int], NEW g \in [K -> Int], NEW S \in SUBSET K,
         \A x \in S : f[x] = g[x]
  PROVE  Total(f, S) = Total(g, S)
<1> DEFINE G == {T \in SUBSET S : Total(f, T) = Total(g, T)}
<1>1. IsFiniteSet(S)
  BY FS_Subset
<1>2. {} \in G
  BY TotalEmpty
<1>3. ASSUME NEW T \in SUBSET S, NEW x \in T, T \ {x} \in G PROVE T \in G
  <2>1. /\ Total(f, T) = f[x] + Total(f, T \ {x})
        /\ Total(g, T) = g[x] + Total(g, T \ {x})
    BY TotalRemove
  <2> QED
    BY <1>3, <2>1
<1>4. SUBSET S \subseteq G
  <2> HIDE DEF G
  <2> QED
    BY <1>1, <1>2, <1>3, SetInduction
<1> QED
  BY <1>4

LEMMA TotalPlus ==
  ASSUME NEW K, IsFiniteSet(K), NEW f \in [K -> Int], NEW g \in [K -> Int], NEW h \in [K -> Int],
         NEW S \in SUBSET K, \A x \in S : h[x] = f[x] + g[x]
  PROVE  Total(h, S) = Total(f, S) + Total(g, S)
<1> DEFINE G == {T \in SUBSET S : Total(h, T) = Total(f, T) + Total(g, T)}
<1>1. IsFiniteSet(S)
  BY FS_Subset
<1>2. {} \in G
  BY TotalEmpty
<1>3. ASSUME NEW T \in SUBSET S, NEW x \in T, T \ {x} \in G PROVE T \in G
  <2>1. /\ Total(f, T) = f[x] + Total(f, T \ {x})
        /\ Total(g, T) = g[x] + Total(g, T \ {x})
        /\ Total(h, T) = h[x] + Total(h, T \ {x})
    BY TotalRemove
  <2>2. PICK a, b, c, d \in Int : /\ a = f[x] /\ b = Total(f, T \ {x})
                                 /\ c = g[x] /\ d = Total(g, T \ {x})
    BY TotalType
  <2>3. h[x] = a + c /\ Total(h, T \ {x}) = b + d
    BY <1>3, <2>2
  <2>4. (a + c) + (b + d) = (a + b) + (c + d)
    BY <2>2
  <2> QED
    BY <2>1, <2>2, <2>3, <2>4
<1>4. SUBSET S \subseteq G
  <2> HIDE DEF G
  <2> QED
    BY <1>1, <1>2, <1>3, SetInduction
<1> QED
  BY <1>4

LEMMA TotalNat ==
  ASSUME NEW K, IsFiniteSet(K), NEW f \in [K -> Nat], NEW S \in SUBSET K
  PROVE  Total(f, S) \in Nat
<1> DEFINE G == {T \in SUBSET S : Total(f, T) \in Nat}
<1>1. IsFiniteSet(S) /\ f \in [K -> Int]
  BY FS_Subset
<1>2. {} \in G
  BY TotalEmpty
<1>3. ASSUME NEW T \in SUBSET S, NEW x \in T, T \ {x} \in G PROVE T \in G
  <2>1. Total(f, T) = f[x] + Total(f, T \ {x})
    BY <1>1, TotalRemove
  <2> QED
    BY <1>3, <2>1
<1>4. SUBSET S \subseteq G
  <2> HIDE DEF G
  <2> QED
    BY <1>1, <1>2, <1>3, SetInduction
<1> QED
  BY <1>4

LEMMA TotalBound ==
  ASSUME NEW K, IsFiniteSet(K), NEW f \in [K -> Int], NEW S \in SUBSET K,
         NEW b \in Int, \A x \in S : f[x] <= b
  PROVE  Total(f, S) <= Cardinality(S) * b
<1> DEFINE G == {T \in SUBSET S : Total(f, T) <= Cardinality(T) * b}
<1>1. IsFiniteSet(S)
  BY FS_Subset
<1>2. {} \in G
  BY TotalEmpty, FS_EmptySet
<1>3. ASSUME NEW T \in SUBSET S, NEW x \in T, T \ {x} \in G PROVE T \in G
  <2>1. Total(f, T) = f[x] + Total(f, T \ {x})
    BY TotalRemove
  <2>2. IsFiniteSet(T) /\ Cardinality(T \ {x}) = Cardinality(T) - 1 /\ Cardinality(T) \in Nat
    BY <1>1, FS_Subset, FS_RemoveElement, FS_CardinalityType
  <2>3. PICK t \in Nat, p, q \in Int : /\ t = Cardinality(T) /\ p = f[x]
                                       /\ q = Total(f, T \ {x})
    BY <2>2, TotalType
  <2>4. p <= b /\ q <= (t - 1) * b
    BY <1>3, <2>2, <2>3
  <2>5. p + q <= t * b
    <3>1. (t - 1) * b = t * b - b
      BY <2>3
    <3>2. t * b \in Int
      BY <2>3
    <3> QED
      BY <2>3, <2>4, <3>1, <3>2
  <2> QED
    BY <2>1, <2>3, <2>5
<1>4. SUBSET S \subseteq G
  <2> HIDE DEF G
  <2> QED
    BY <1>1, <1>2, <1>3, SetInduction
<1> QED
  BY <1>4

LEMMA TotalZero ==
  ASSUME NEW K, IsFiniteSet(K), NEW f \in [K -> Int], NEW S \in SUBSET K, \A x \in S : f[x] = 0
  PROVE  Total(f, S) = 0
<1> DEFINE G == {T \in SUBSET S : Total(f, T) = 0}
<1>1. IsFiniteSet(S)
  BY FS_Subset
<1>2. {} \in G
  BY TotalEmpty
<1>3. ASSUME NEW T \in SUBSET S, NEW x \in T, T \ {x} \in G PROVE T \in G
  <2>1. Total(f, T) = f[x] + Total(f, T \ {x})
    BY TotalRemove
  <2> QED
    BY <1>3, <2>1
<1>4. SUBSET S \subseteq G
  <2> HIDE DEF G
  <2> QED
    BY <1>1, <1>2, <1>3, SetInduction
<1> QED
  BY <1>4

-------------------------------------------------------------------------------
(* One selection, on any finite set of keys: the candidates E earn their   *)
(* weight and the chosen c pays for all of them.                           *)
Selected(x, w, E, c, K) ==
  [k \in K |-> IF k \in E THEN x[k] + w[k] - IF k = c THEN Total(w, E) ELSE 0 ELSE x[k]]

(* No set of keys holds more credit than the others could owe it.          *)
Fair(x, K, m) ==
  \A S \in SUBSET K : Total(x, S) <= (Cardinality(S) * (Cardinality(K) - Cardinality(S))) * m

LEMMA SelectedType ==
  ASSUME NEW K, IsFiniteSet(K), NEW x \in [K -> Int], NEW w \in [K -> Nat],
         NEW E \in SUBSET K, NEW c \in E
  PROVE  Selected(x, w, E, c, K) \in [K -> Int]
<1>1. PICK t \in Nat : t = Total(w, E)
  BY TotalNat
<1> QED
  BY <1>1 DEF Selected

LEMMA SelectedTotal ==
  ASSUME NEW K, IsFiniteSet(K), NEW x \in [K -> Int], NEW w \in [K -> Nat],
         NEW E \in SUBSET K, NEW c \in E, NEW S \in SUBSET K
  PROVE  Total(Selected(x, w, E, c, K), S)
           = Total(x, S) + Total(w, S \cap E) - IF c \in S THEN Total(w, E) ELSE 0
<1>1. PICK t \in Nat : t = Total(w, E)
  BY TotalNat
<1>2. PICK y \in [K -> Int] : y = Selected(x, w, E, c, K)
  BY SelectedType
<1>3. PICK earn \in [K -> Int] : \A k \in K : earn[k] = IF k \in E THEN w[k] ELSE 0
  <2>1. [k \in K |-> IF k \in E THEN w[k] ELSE 0] \in [K -> Int]
    OBVIOUS
  <2> QED
    BY <2>1
<1>4. PICK pay \in [K -> Int] : \A k \in K : pay[k] = IF k = c THEN 0 - t ELSE 0
  <2>1. [k \in K |-> IF k = c THEN 0 - t ELSE 0] \in [K -> Int]
    OBVIOUS
  <2> QED
    BY <2>1
<1>5. PICK both \in [K -> Int] : \A k \in K : both[k] = earn[k] + pay[k]
  <2>1. [k \in K |-> earn[k] + pay[k]] \in [K -> Int]
    OBVIOUS
  <2> QED
    BY <2>1
<1>6. \A k \in K : y[k] = x[k] + both[k]
  BY <1>1, <1>2, <1>3, <1>4, <1>5 DEF Selected
<1>7. Total(y, S) = Total(x, S) + Total(both, S)
  BY <1>6, TotalPlus
<1>8. Total(both, S) = Total(earn, S) + Total(pay, S)
  BY <1>5, TotalPlus
<1>9. w \in [K -> Int] /\ S \cap E \in SUBSET K
  OBVIOUS
<1>10. Total(earn, S) = Total(w, S \cap E)
  <2>1. Total(earn, S) = Total(earn, S \cap E) + Total(earn, S \ (S \cap E))
    BY TotalSplit
  <2>2. Total(earn, S \cap E) = Total(w, S \cap E)
    BY <1>3, <1>9, TotalSame
  <2>3. Total(earn, S \ (S \cap E)) = 0
    BY <1>3, TotalZero
  <2>4. Total(earn, S \cap E) \in Int
    BY TotalType
  <2> QED
    BY <2>1, <2>2, <2>3, <2>4
<1>11. Total(pay, S) = IF c \in S THEN 0 - t ELSE 0
  <2>1. CASE c \notin S
    BY <1>4, <2>1, TotalZero
  <2>2. CASE c \in S
    <3>1. Total(pay, S) = pay[c] + Total(pay, S \ {c})
      BY <2>2, TotalRemove
    <3>2. Total(pay, S \ {c}) = 0
      BY <1>4, TotalZero
    <3> QED
      BY <1>4, <2>2, <3>1, <3>2
  <2> QED
    BY <2>1, <2>2
<1>12. PICK a, b \in Int : a = Total(x, S) /\ b = Total(w, S \cap E)
  BY <1>9, TotalType
<1> QED
  BY <1>1, <1>2, <1>7, <1>8, <1>10, <1>11, <1>12

(* The arithmetic of the case in which the chosen key is not in the set.   *)
LEMMA Monotone == ASSUME NEW a \in Nat, NEW p \in Int, NEW q \in Int, p <= q PROVE a * p <= a * q
  OBVIOUS

LEMMA Cancel ==
  ASSUME NEW a \in Nat, NEW p \in Int, NEW q \in Int, (a + 1) * p <= (a + 1) * q
  PROVE  p <= q
  OBVIOUS

LEMMA Identity ==
  ASSUME NEW a \in Int, NEW s \in Int, NEW n \in Int, NEW m \in Int
  PROVE  ((s - a) * (n - s + a)) * m + a * (((s + 1) * (n - s - 1)) * m) + a * m + a * (a * m)
           = (a + 1) * ((s * (n - s)) * m)
  OBVIOUS

LEMMA FairArithmetic ==
  ASSUME NEW a \in Nat, NEW s \in Nat, NEW n \in Nat, NEW m \in Nat,
         NEW tA \in Int, NEW tR \in Int, NEW wA \in Int, NEW xc \in Int, NEW wc \in Int,
         tR <= ((s - a) * (n - s + a)) * m,
         (tA + tR) + xc <= ((s + 1) * (n - s - 1)) * m,
         tA + wA <= a * (xc + wc),
         wA <= a * m,
         wc <= m
  PROVE  (tA + tR) + wA <= (s * (n - s)) * m
<1> DEFINE rest == ((s - a) * (n - s + a)) * m
           all == ((s + 1) * (n - s - 1)) * m
           goal == (s * (n - s)) * m
           total == (tA + tR) + wA
<1>1. PICK r, l, g, am \in Int : /\ r = rest /\ l = all /\ g = goal /\ am = a * m
  <2>1. rest \in Int /\ all \in Int /\ goal \in Int /\ a * m \in Int
    OBVIOUS
  <2> QED
    BY <2>1
<1>2. PICK t \in Int : t = total
  OBVIOUS
<1>3. r + a * l + am + a * am = (a + 1) * g
  BY <1>1, Identity
<1>4. a * ((tA + tR) + xc) <= a * l
  <2>1. (tA + tR) + xc \in Int /\ (tA + tR) + xc <= l
    BY <1>1
  <2> QED
    BY <2>1, Monotone
<1>5. a * wA <= a * am
  BY <1>1, Monotone
<1>6. a * wc <= am
  BY <1>1, Monotone
<1>7. tR <= r
  BY <1>1
<1> HIDE DEF rest, all, goal
<1>8. (a + 1) * t <= (a + 1) * g
  <2>1. t <= tR + a * (xc + wc)
    BY <1>2
  <2>2. PICK p, q, u \in Int : /\ p = a * ((tA + tR) + xc) /\ q = a * wA /\ u = a * wc
    <3>1. a * ((tA + tR) + xc) \in Int /\ a * wA \in Int /\ a * wc \in Int
      OBVIOUS
    <3> QED
      BY <3>1
  <2>3. (a + 1) * t = a * ((tA + tR) + wA) + t
    BY <1>2
  <2>4. a * ((tA + tR) + wA) + a * (xc + wc) = p + q + u
    <3>1. a * ((tA + tR) + wA) + a * (xc + wc) = a * ((tA + tR) + xc) + a * wA + a * wc
      OBVIOUS
    <3> QED
      BY <2>2, <3>1
  <2>5. (a + 1) * t <= p + q + u + tR
    <3>1. PICK v, z \in Int : v = a * ((tA + tR) + wA) /\ z = a * (xc + wc)
      <4>1. a * ((tA + tR) + wA) \in Int /\ a * (xc + wc) \in Int
        OBVIOUS
      <4> QED
        BY <4>1
    <3>2. t <= tR + z /\ v + z = p + q + u /\ (a + 1) * t = v + t
      BY <2>1, <2>3, <2>4, <3>1
    <3>3. v + t <= p + q + u + tR
      BY <2>2, <3>1, <3>2
    <3> QED
      BY <3>2, <3>3
  <2>6. PICK al, aam \in Int : al = a * l /\ aam = a * am
    <3>1. a * l \in Int /\ a * am \in Int
      OBVIOUS
    <3> QED
      BY <3>1
  <2>7. p <= al /\ q <= aam /\ u <= am /\ tR <= r
    BY <1>4, <1>5, <1>6, <1>7, <2>2, <2>6
  <2>8. (a + 1) * g = r + al + am + aam
    BY <1>3, <2>6
  <2>9. p + q + u + tR <= r + al + am + aam
    BY <2>2, <2>6, <2>7
  <2>10. PICK left \in Int : left = (a + 1) * t
    OBVIOUS
  <2>11. left <= p + q + u + tR
    BY <2>5, <2>10
  <2>12. left <= r + al + am + aam
    BY <2>2, <2>6, <2>9, <2>10, <2>11
  <2> QED
    BY <2>8, <2>10, <2>12
<1>9. t <= g
  BY <1>8, Cancel
<1> QED
  BY <1>1, <1>2, <1>9

LEMMA FairKept ==
  ASSUME NEW K, IsFiniteSet(K), NEW x \in [K -> Int], NEW w \in [K -> Nat], NEW m \in Nat,
         \A k \in K : w[k] <= m,
         NEW E \in SUBSET K, NEW c \in E,
         \A k \in E : x[k] + w[k] <= x[c] + w[c],
         Fair(x, K, m)
  PROVE  Fair(Selected(x, w, E, c, K), K, m)
<1> SUFFICES ASSUME NEW S \in SUBSET K
             PROVE  Total(Selected(x, w, E, c, K), S)
                      <= (Cardinality(S) * (Cardinality(K) - Cardinality(S))) * m
  BY DEF Fair
<1>1. w \in [K -> Int] /\ S \cap E \in SUBSET K /\ S \cap E \in SUBSET S /\ c \in K
  OBVIOUS
<1>2. PICK tS, wA \in Int : tS = Total(x, S) /\ wA = Total(w, S \cap E)
  BY <1>1, TotalType
<1>3. PICK wE \in Nat : wE = Total(w, E)
  BY TotalNat
<1>4. Total(Selected(x, w, E, c, K), S) = tS + wA - IF c \in S THEN wE ELSE 0
  BY <1>2, <1>3, SelectedTotal
<1>5. PICK s, n \in Nat : s = Cardinality(S) /\ n = Cardinality(K)
  BY FS_Subset, FS_CardinalityType
<1>6. tS <= (s * (n - s)) * m
  BY <1>2, <1>5 DEF Fair
<1>7. CASE c \in S
  <2>1. PICK rest \in Nat : rest = Total(w, E \ (S \cap E))
    BY TotalNat
  <2>2. wE = wA + rest
    <3>1. S \cap E \in SUBSET E
      OBVIOUS
    <3> QED
      BY <1>1, <1>2, <1>3, <2>1, <3>1, TotalSplit
  <2>3. tS + wA - wE <= tS
    BY <1>2, <1>3, <2>1, <2>2
  <2>4. PICK b \in Int : b = (s * (n - s)) * m
    BY <1>5
  <2> QED
    BY <1>2, <1>3, <1>4, <1>5, <1>6, <1>7, <2>3, <2>4
<1>8. CASE c \notin S
  <2>1. PICK tA, tR \in Int : tA = Total(x, S \cap E) /\ tR = Total(x, S \ (S \cap E))
    BY <1>1, TotalType
  <2>2. tS = tA + tR
    BY <1>1, <1>2, <2>1, TotalSplit
  <2>3. IsFiniteSet(S) /\ IsFiniteSet(S \cap E)
    BY <1>1, FS_Subset
  <2>4. PICK a \in Nat : a = Cardinality(S \cap E)
    BY <2>3, FS_CardinalityType
  <2>5. Cardinality(S \ (S \cap E)) = s - a
    <3>1. S \cap (S \cap E) = S \cap E
      OBVIOUS
    <3> QED
      BY <1>5, <2>3, <2>4, <3>1, FS_Difference
  <2>6. Cardinality(S \cup {c}) = s + 1
    BY <1>5, <1>8, <2>3, FS_AddElement
  <2>7. PICK xc, wc \in Int : xc = x[c] /\ wc = w[c]
    BY <1>1
  <2>8. tR <= ((s - a) * (n - s + a)) * m
    <3>1. tR <= ((s - a) * (n - (s - a))) * m
      <4>1. S \ (S \cap E) \in SUBSET K
        OBVIOUS
      <4>2. Total(x, S \ (S \cap E)) <= (Cardinality(S \ (S \cap E))
                * (Cardinality(K) - Cardinality(S \ (S \cap E)))) * m
        BY <4>1 DEF Fair
      <4> QED
        BY <1>5, <2>1, <2>5, <4>2
    <3>2. n - (s - a) = n - s + a
      BY <1>5, <2>4
    <3> QED
      BY <3>1, <3>2
  <2>9. (tA + tR) + xc <= ((s + 1) * (n - s - 1)) * m
    <3>1. S \cup {c} \in SUBSET K /\ (S \cup {c}) \ {c} = S
      BY <1>1, <1>8
    <3>2. Total(x, S \cup {c}) = xc + tS
      BY <1>2, <2>7, <3>1, TotalRemove
    <3>3. Total(x, S \cup {c}) <= ((s + 1) * (n - (s + 1))) * m
      <4>1. Total(x, S \cup {c})
              <= (Cardinality(S \cup {c}) * (Cardinality(K) - Cardinality(S \cup {c}))) * m
        BY <3>1 DEF Fair
      <4> QED
        BY <1>5, <2>6, <4>1
    <3>4. n - (s + 1) = n - s - 1
      BY <1>5
    <3>5. xc + tS = (tA + tR) + xc
      BY <1>2, <2>1, <2>2, <2>7
    <3> QED
      BY <3>2, <3>3, <3>4, <3>5
  <2>10. tA + wA <= a * (xc + wc)
    <3>1. PICK f \in [K -> Int] : \A k \in K : f[k] = x[k] + w[k]
      <4>1. [k \in K |-> x[k] + w[k]] \in [K -> Int]
        OBVIOUS
      <4> QED
        BY <4>1
    <3>2. Total(f, S \cap E) = tA + wA
      BY <1>1, <1>2, <2>1, <3>1, TotalPlus
    <3>3. \A k \in S \cap E : f[k] <= xc + wc
      BY <1>1, <2>7, <3>1
    <3> QED
      BY <1>1, <2>4, <2>7, <3>2, <3>3, TotalBound
  <2>11. wA <= a * m
    BY <1>1, <1>2, <2>4, TotalBound
  <2>12. wc <= m
    BY <1>1, <2>7
  <2>13. (tA + tR) + wA <= (s * (n - s)) * m
    BY <1>5, <2>1, <2>4, <1>2, <2>7, <2>8, <2>9, <2>10, <2>11, <2>12, FairArithmetic
  <2>14. tS + wA - 0 = (tA + tR) + wA
    BY <1>2, <2>1, <2>2
  <2> QED
    BY <1>4, <1>5, <1>8, <2>13, <2>14
<1> QED
  BY <1>7, <1>8

(* What is earned is paid: the credits of all keys still cancel out.       *)
LEMMA SelectedCancels ==
  ASSUME NEW K, IsFiniteSet(K), NEW x \in [K -> Int], NEW w \in [K -> Nat],
         NEW E \in SUBSET K, NEW c \in E, Total(x, K) = 0
  PROVE  Total(Selected(x, w, E, c, K), K) = 0
<1>1. K \cap E = E /\ c \in K
  OBVIOUS
<1>2. PICK t \in Nat : t = Total(w, E)
  BY TotalNat
<1> QED
  BY <1>1, <1>2, SelectedTotal

(* Every key within what the others allow: from above by its own set, from *)
(* below because the others hold what it owes.                             *)
LEMMA FairBounds ==
  ASSUME NEW K, IsFiniteSet(K), NEW x \in [K -> Int], NEW m \in Nat,
         Fair(x, K, m), Total(x, K) = 0, NEW k \in K
  PROVE  x[k] \in (-((Cardinality(K) - 1) * m))..((Cardinality(K) - 1) * m)
<1>1. PICK n \in Nat : n = Cardinality(K)
  BY FS_CardinalityType
<1>2. PICK b \in Int : b = (n - 1) * m
  BY <1>1
<1>3. PICK p, q \in Int : p = x[k] /\ q = Total(x, K \ {k})
  BY TotalType
<1>4. p <= b
  <2>1. Cardinality({k}) = 1
    BY FS_Singleton
  <2>2. Total(x, {k}) = x[k] + Total(x, {k} \ {k}) /\ {k} \ {k} = {}
    BY TotalRemove
  <2>3. Total(x, {k}) = p
    BY <1>3, <2>2, TotalEmpty
  <2>4. Total(x, {k}) <= (1 * (n - 1)) * m
    BY <1>1, <2>1 DEF Fair
  <2>5. (1 * (n - 1)) * m = b
    BY <1>1, <1>2
  <2> QED
    BY <2>3, <2>4, <2>5
<1>5. q <= b
  <2>1. Cardinality(K \ {k}) = n - 1
    BY <1>1, FS_RemoveElement
  <2>2. Total(x, K \ {k}) <= ((n - 1) * (n - (n - 1))) * m
    <3>1. K \ {k} \in SUBSET K
      OBVIOUS
    <3>2. Total(x, K \ {k})
            <= (Cardinality(K \ {k}) * (Cardinality(K) - Cardinality(K \ {k}))) * m
      BY <3>1 DEF Fair
    <3> QED
      BY <1>1, <2>1, <3>2
  <2>3. ((n - 1) * (n - (n - 1))) * m = b
    <3>1. n - (n - 1) = 1
      BY <1>1
    <3>2. (n - 1) * 1 = n - 1
      BY <1>1
    <3> QED
      BY <1>2, <3>1, <3>2
  <2> QED
    BY <1>3, <2>2, <2>3
<1>6. p + q = 0
  BY <1>3, TotalRemove
<1>7. p \in (-b)..b
  BY <1>2, <1>3, <1>4, <1>5, <1>6
<1> QED
  BY <1>1, <1>2, <1>3, <1>7

-------------------------------------------------------------------------------
(* The keys, and the weights that bound their credits.                     *)
LEMMA KeysFinite == ASSUME PhysicalAssumption PROVE IsFiniteSet(Keys)
<1> DEFINE Pairs == Rules \X Placements
           f == [p \in Pairs |-> [rule |-> p[1], placement |-> p[2]]]
<1>1. IsFiniteSet(Pairs)
  BY FS_Product DEF PhysicalAssumption
<1>2. f \in Surjection(Pairs, Keys)
  <2>1. f \in [Pairs -> Keys]
    BY DEF Keys
  <2>2. ASSUME NEW key \in Keys PROVE \E p \in Pairs : f[p] = key
    <3>1. <<key.rule, key.placement>> \in Pairs
      BY DEF Keys
    <3>2. f[<<key.rule, key.placement>>] = key
      BY <3>1 DEF Keys
    <3> QED
      BY <3>1, <3>2
  <2> HIDE DEF f
  <2> QED
    BY <2>1, <2>2 DEF Surjection
<1> HIDE DEF f
<1> QED
  BY <1>1, <1>2, FS_Surjection

LEMMA KeyParts ==
  /\ \A key \in Keys : key.rule \in Rules /\ key.placement \in Placements
  /\ \A a, b \in Keys : a.rule = b.rule /\ a.placement = b.placement => a = b
  BY DEF Keys

LEMMA WeightType == ASSUME PhysicalAssumption, NEW rule \in Rules PROVE Weight(rule) \in Nat \ {0}
  BY DEF PhysicalAssumption, Weight

(* A finite set of naturals has a maximum.                                 *)
LEMMA MaximumExists ==
  ASSUME NEW S, IsFiniteSet(S), NEW w \in [S -> Nat], S # {}
  PROVE  \E x \in S : \A y \in S : w[y] <= w[x]
<1> DEFINE G == {T \in SUBSET S : T # {} => \E x \in T : \A y \in T : w[y] <= w[x]}
<1>1. {} \in G
  OBVIOUS
<1>2. ASSUME NEW T \in SUBSET S, NEW z \in T, T \ {z} \in G PROVE T \in G
  <2>1. CASE T \ {z} = {}
    <3>1. \A y \in T : y = z
      BY <2>1
    <3> QED
      BY <3>1
  <2>2. CASE T \ {z} # {}
    <3>1. PICK x \in T \ {z} : \A y \in T \ {z} : w[y] <= w[x]
      BY <1>2, <2>2
    <3>2. CASE w[z] <= w[x]
      <4>1. \A y \in T : w[y] <= w[x]
        BY <3>1, <3>2
      <4> QED
        BY <4>1
    <3>3. CASE ~(w[z] <= w[x])
      <4>1. \A y \in T : w[y] <= w[z]
        BY <3>1, <3>3
      <4> QED
        BY <4>1
    <3> QED
      BY <3>2, <3>3
  <2> QED
    BY <2>1, <2>2
<1>3. SUBSET S \subseteq G
  <2> HIDE DEF G
  <2> QED
    BY <1>1, <1>2, SetInduction
<1> QED
  BY <1>3

LEMMA HighestWeightBounds ==
  ASSUME PhysicalAssumption, Rules # {}
  PROVE  HighestWeight \in Nat /\ \A rule \in Rules : Weight(rule) <= HighestWeight
<1>1. PICK w \in [Rules -> Nat] : \A rule \in Rules : w[rule] = Weight(rule)
  <2>1. [rule \in Rules |-> Weight(rule)] \in [Rules -> Nat]
    BY WeightType
  <2> QED
    BY <2>1
<1>2. PICK x \in Rules : \A y \in Rules : w[y] <= w[x]
  <2>1. IsFiniteSet(Rules)
    BY DEF PhysicalAssumption
  <2> QED
    BY <2>1, MaximumExists
<1> DEFINE W == {Weight(rule) : rule \in Rules}
<1>3. \E a \in W : \A b \in W : a >= b
  <2>1. w[x] \in W
    BY <1>1
  <2>2. \A b \in W : w[x] >= b
    BY <1>1, <1>2
  <2> QED
    BY <2>1, <2>2
<1>4. PICK h : h = Max(W)
  OBVIOUS
<1>5. h \in W /\ \A b \in W : h >= b
  BY <1>3, <1>4 DEF Max
<1>6. h \in Nat /\ \A rule \in Rules : Weight(rule) <= h
  BY <1>5, WeightType
<1>7. HighestWeight = h
  BY <1>4 DEF HighestWeight
<1> QED
  BY <1>6, <1>7

(* The price that the chosen key pays is the total weight of the eligible. *)
KeyWeight == [key \in Keys |-> Weight(key.rule)]

LEMMA KeyWeightType ==
  ASSUME PhysicalAssumption
  PROVE  KeyWeight \in [Keys -> Nat]
  BY WeightType, KeyParts DEF KeyWeight

LEMMA PriceIsTotal ==
  ASSUME PhysicalAssumption, NEW rule
  PROVE  Price(rule) = Total(KeyWeight, EligibleKeys)
<1> DEFINE F(g) == g = [T \in SUBSET EligibleKeys |->
                         IF T = {} THEN 0
                         ELSE Weight((CHOOSE x \in T : TRUE).rule) + g[T \ {CHOOSE x \in T : TRUE}]]
<1>1. IsFiniteSet(EligibleKeys) /\ EligibleKeys \in SUBSET Keys
  BY KeysFinite, FS_Subset DEF EligibleKeys
<1>2. Price(rule) = (CHOOSE g : F(g))[EligibleKeys]
  BY DEF Price, MapThenSumSet, MapThenFoldSet
<1>3. PICK g : IsSum(KeyWeight, g, EligibleKeys)
  BY <1>1, SumExists
<1>4. ASSUME NEW T \in SUBSET EligibleKeys, T # {}
      PROVE  KeyWeight[CHOOSE x \in T : TRUE] = Weight((CHOOSE x \in T : TRUE).rule)
  <2>1. (CHOOSE x \in T : TRUE) \in T
    BY <1>4
  <2> QED
    BY <1>1, <1>4, <2>1 DEF KeyWeight
<1>5. F(g)
  BY <1>3, <1>4 DEF IsSum, Unfold, Chosen
<1>6. PICK h : h = (CHOOSE h2 : F(h2))
  OBVIOUS
<1>7. F(h)
  <2> HIDE DEF F
  <2> QED
    BY <1>5, <1>6
<1>8. IsSum(KeyWeight, h, EligibleKeys)
  BY <1>4, <1>7 DEF IsSum, Unfold, Chosen
<1>9. Total(KeyWeight, EligibleKeys) = h[EligibleKeys]
  BY <1>1, <1>8, TotalOfSubset
<1> QED
  BY <1>2, <1>6, <1>9

-------------------------------------------------------------------------------
(* The load order.                                                         *)
Listed(s) == {s[i] : i \in DOMAIN s}
Distinct(s) == \A i, j \in DOMAIN s : s[i] = s[j] => i = j

LEMMA ListedCount ==
  ASSUME NEW s \in Seq(Rules), Distinct(s)
  PROVE  Len(s) = Cardinality(Listed(s))
<1>1. Len(s) \in Nat /\ DOMAIN s = 1..Len(s)
  OBVIOUS
<1>2. IsFiniteSet(1..Len(s)) /\ Cardinality(1..Len(s)) = Len(s)
  BY <1>1, FS_Interval
<1>3. s \in Surjection(1..Len(s), Listed(s))
  BY <1>1 DEF Surjection, Listed
<1>4. s \in Injection(1..Len(s), Listed(s))
  BY <1>1 DEF Injection, IsInjective, Listed, Distinct
<1> QED
  BY <1>2, <1>3, <1>4, FS_Surjection

LEMMA Appended ==
  ASSUME NEW s \in Seq(Rules), Distinct(s), NEW rule \in Rules, rule \notin Listed(s)
  PROVE  /\ Append(s, rule) \in Seq(Rules)
         /\ Distinct(Append(s, rule))
         /\ Listed(Append(s, rule)) = Listed(s) \cup {rule}
<1>1. PICK n \in Nat : n = Len(s) /\ DOMAIN s = 1..n
  OBVIOUS
<1>2. PICK t : t = Append(s, rule)
  OBVIOUS
<1>3. /\ t \in Seq(Rules) /\ Len(t) = n + 1 /\ DOMAIN t = 1..(n + 1)
      /\ \A i \in 1..n : t[i] = s[i]
      /\ t[n + 1] = rule
  BY <1>1, <1>2, AppendProperties
<1>4. Distinct(t)
  BY <1>1, <1>3 DEF Distinct, Listed
<1>5. Listed(t) = Listed(s) \cup {rule}
  BY <1>1, <1>3 DEF Listed
<1> QED
  BY <1>2, <1>3, <1>4, <1>5

LEMMA WithoutOne ==
  ASSUME NEW s \in Seq(Rules), Distinct(s), NEW rule \in Listed(s)
  PROVE  /\ Seqs!RemoveFirst(s, rule) \in Seq(Rules)
         /\ Distinct(Seqs!RemoveFirst(s, rule))
         /\ Listed(Seqs!RemoveFirst(s, rule)) = Listed(s) \ {rule}
<1>1. PICK n \in Nat : n = Len(s) /\ DOMAIN s = 1..n /\ \A i \in 1..n : s[i] \in Rules
  <2>1. Len(s) \in Nat /\ DOMAIN s = 1..Len(s) /\ \A i \in 1..Len(s) : s[i] \in Rules
    OBVIOUS
  <2> QED
    BY <2>1
<1>2. PICK p \in 1..n : s[p] = rule
  BY <1>1 DEF Listed
<1>3. Seqs!SelectInSeq(s, LAMBDA v : v = rule) = p
  <2> DEFINE I == {i \in 1..Len(s) : s[i] = rule}
  <2>1. I = {p}
    BY <1>1, <1>2 DEF Distinct
  <2>2. PICK low : low = Seqs!Min(I)
    OBVIOUS
  <2>3. low \in I
    <3>1. \E x \in I : \A y \in I : x =< y
      BY <2>1
    <3> HIDE DEF I
    <3> QED
      BY <2>2, <3>1 DEF Seqs!Min
  <2>4. Seqs!SelectInSeq(s, LAMBDA v : v = rule) = IF I # {} THEN low ELSE 0
    BY <2>2 DEF Seqs!SelectInSeq
  <2> QED
    BY <2>1, <2>3, <2>4
<1>4. PICK a, b : a = SubSeq(s, 1, p - 1) /\ b = SubSeq(s, p + 1, n)
  OBVIOUS
<1>5. PICK t : t = a \o b
  OBVIOUS
<1>6. Seqs!RemoveFirst(s, rule) = t
  <2>1. \E i \in 1..Len(s) : s[i] = rule
    BY <1>1, <1>2
  <2>2. Seqs!RemoveFirst(s, rule) = Seqs!RemoveAt(s, p)
    BY <1>3, <2>1 DEF Seqs!RemoveFirst
  <2> QED
    BY <1>1, <1>4, <1>5, <2>2 DEF Seqs!RemoveAt
<1>7. /\ a \in Seq(Rules) /\ Len(a) = p - 1
      /\ \A i \in 1..(p - 1) : a[i] = s[i]
  <2>1. \A i \in 1..(p - 1) : s[i] \in Rules
    BY <1>1
  <2> QED
    BY <1>2, <1>4, <2>1, SubSeqProperties
<1>8. /\ b \in Seq(Rules) /\ Len(b) = n - p
      /\ \A i \in 1..(n - p) : b[i] = s[p + i]
  <2>1. \A i \in (p + 1)..n : s[i] \in Rules
    BY <1>1
  <2>2. /\ b \in Seq(Rules) /\ Len(b) = IF p + 1 <= n THEN n - (p + 1) + 1 ELSE 0
        /\ \A i \in 1..(n - (p + 1) + 1) : b[i] = s[(p + 1) + i - 1]
    BY <1>1, <1>2, <1>4, <2>1, SubSeqProperties
  <2>3. n - (p + 1) + 1 = n - p /\ \A i \in 1..(n - p) : (p + 1) + i - 1 = p + i
    BY <1>1, <1>2
  <2> QED
    BY <1>1, <1>2, <2>2, <2>3
<1>9. /\ t \in Seq(Rules) /\ Len(t) = n - 1 /\ DOMAIN t = 1..(n - 1)
      /\ \A i \in 1..(n - 1) : t[i] = IF i < p THEN s[i] ELSE s[i + 1]
  <2>1. /\ t \in Seq(Rules) /\ Len(t) = Len(a) + Len(b)
        /\ \A i \in 1..(Len(a) + Len(b)) : t[i] = IF i <= Len(a) THEN a[i] ELSE b[i - Len(a)]
    BY <1>5, <1>7, <1>8, ConcatProperties
  <2>2. Len(a) + Len(b) = n - 1
    BY <1>1, <1>2, <1>7, <1>8
  <2>3. ASSUME NEW i \in 1..(n - 1) PROVE t[i] = IF i < p THEN s[i] ELSE s[i + 1]
    <3>1. t[i] = IF i <= p - 1 THEN a[i] ELSE b[i - (p - 1)]
      BY <1>7, <2>1, <2>2
    <3>2. CASE i < p
      BY <1>2, <1>7, <3>1, <3>2
    <3>3. CASE ~(i < p)
      <4>1. i - (p - 1) \in 1..(n - p) /\ p + (i - (p - 1)) = i + 1
        BY <1>1, <1>2, <3>3
      <4>2. b[i - (p - 1)] = s[i + 1]
        BY <1>8, <4>1
      <4> QED
        BY <1>2, <3>1, <3>3, <4>2
    <3> QED
      BY <3>2, <3>3
  <2> QED
    BY <2>1, <2>2, <2>3
<1>10. Distinct(t)
  <2>1. \A i \in 1..(n - 1) : \E j \in 1..n :
          t[i] = s[j] /\ j = IF i < p THEN i ELSE i + 1
    BY <1>1, <1>2, <1>9
  <2>2. \A i, j \in 1..n : i # j => s[i] # s[j]
    BY <1>1 DEF Distinct
  <2>3. ASSUME NEW i \in 1..(n - 1), NEW j \in 1..(n - 1), i # j PROVE t[i] # t[j]
    <3>1. PICK k \in 1..n : t[i] = s[k] /\ k = IF i < p THEN i ELSE i + 1
      BY <2>1
    <3>2. PICK l \in 1..n : t[j] = s[l] /\ l = IF j < p THEN j ELSE j + 1
      BY <2>1
    <3>3. k # l
      BY <1>1, <1>2, <2>3, <3>1, <3>2
    <3> QED
      BY <2>2, <3>1, <3>2, <3>3
  <2> QED
    BY <1>9, <2>3 DEF Distinct
<1>11. Listed(t) = Listed(s) \ {rule}
  <2>1. ASSUME NEW i \in 1..(n - 1) PROVE t[i] \in Listed(s) \ {rule}
    <3>1. PICK j \in 1..n : t[i] = s[j] /\ j # p
      <4>1. CASE i < p
        BY <1>1, <1>2, <1>9, <4>1
      <4>2. CASE ~(i < p)
        BY <1>1, <1>2, <1>9, <4>2
      <4> QED
        BY <4>1, <4>2
    <3>2. s[j] # s[p]
      BY <1>1, <3>1 DEF Distinct
    <3> QED
      BY <1>1, <1>2, <3>1, <3>2 DEF Listed
  <2>2. ASSUME NEW i \in 1..n, s[i] # rule PROVE s[i] \in Listed(t)
    <3>1. CASE i < p
      BY <1>1, <1>2, <1>9, <3>1 DEF Listed
    <3>2. CASE i > p
      <4>1. i - 1 \in 1..(n - 1) /\ ~(i - 1 < p) /\ (i - 1) + 1 = i
        BY <1>1, <1>2, <3>2
      <4>2. t[i - 1] = s[i]
        BY <1>9, <4>1
      <4> QED
        BY <1>9, <4>1, <4>2 DEF Listed
    <3> QED
      BY <1>2, <2>2, <3>1, <3>2
  <2> QED
    BY <1>1, <1>9, <2>1, <2>2 DEF Listed
<1> QED
  BY <1>6, <1>9, <1>10, <1>11

-------------------------------------------------------------------------------
(* The views of the partitions.                                            *)
Sound(v) == v \in View /\ v.ready <= v.waiting

Counts(v, w, r) == [v EXCEPT !.waiting = w, !.ready = r]
Charged(v, r, b) == [v EXCEPT !.ready = r, !.budget = b]

LEMMA CountsSound ==
  ASSUME PhysicalAssumption, NEW v \in View, NEW w \in 0..MaxWaiting, NEW r \in 0..w
  PROVE  Sound(Counts(v, w, r))
<1>1. PICK u : u = [v EXCEPT !.waiting = w]
  OBVIOUS
<1>2. u \in View /\ u.waiting = w
  BY <1>1 DEF View
<1>3. Counts(v, w, r) = [u EXCEPT !.ready = r]
  BY <1>1 DEF Counts
<1>4. r \in 0..MaxWaiting
  BY DEF PhysicalAssumption
<1>5. PICK x : x = [u EXCEPT !.ready = r]
  OBVIOUS
<1>6. x \in View /\ x.ready = r /\ x.waiting = w
  BY <1>2, <1>4, <1>5 DEF View
<1> QED
  BY <1>3, <1>5, <1>6 DEF Sound

LEMMA ChargedSound ==
  ASSUME PhysicalAssumption, NEW v \in View, NEW r \in 0..v.waiting, NEW b \in 0..RoundLimit
  PROVE  Sound(Charged(v, r, b))
<1>1. r \in 0..MaxWaiting
  BY DEF PhysicalAssumption, View
<1>2. PICK u : u = [v EXCEPT !.ready = r]
  OBVIOUS
<1>3. u \in View /\ u.waiting = v.waiting /\ u.ready = r
  BY <1>1, <1>2 DEF View
<1>4. Charged(v, r, b) = [u EXCEPT !.budget = b]
  BY <1>2 DEF Charged
<1>5. PICK x : x = [u EXCEPT !.budget = b]
  OBVIOUS
<1>6. x \in View /\ x.ready = r /\ x.waiting = v.waiting
  BY <1>3, <1>5 DEF View
<1> QED
  BY <1>4, <1>5, <1>6 DEF Sound

LEMMA AddedSound ==
  ASSUME PhysicalAssumption, NEW v, Sound(v), NEW x \in Added(v)
  PROVE  Sound(x)
<1>1. v.state = "Ready" /\ v.waiting < MaxWaiting
  BY DEF Added
<1>2. PICK extra \in {0, 1} : x = Counts(v, v.waiting + 1, v.ready + extra)
  BY <1>1 DEF Added, Counts
<1>3. v.waiting + 1 \in 0..MaxWaiting /\ v.ready + extra \in 0..(v.waiting + 1)
  BY <1>1 DEF Sound, View, PhysicalAssumption
<1>4. Sound(Counts(v, v.waiting + 1, v.ready + extra))
  BY <1>3, CountsSound DEF Sound
<1> QED
  BY <1>2, <1>4

LEMMA WithoutSound ==
  ASSUME PhysicalAssumption, NEW v, Sound(v), NEW n \in Nat, NEW x \in Without(v, n)
  PROVE  Sound(x)
<1>1. PICK tried \in 0..n : /\ x = Counts(v, v.waiting - n, v.ready - tried)
                            /\ tried <= v.ready /\ n <= v.waiting /\ x.ready <= x.waiting
  <2> DEFINE most == IF n < v.ready THEN n ELSE v.ready
             left == {Counts(v, v.waiting - n, v.ready - tried) : tried \in 0..most}
  <2>1. Without(v, n) = IF n > v.waiting THEN {} ELSE {w \in left : w.ready <= w.waiting}
    BY DEF Without, Counts
  <2>2. ~(n > v.waiting) /\ x \in {w \in left : w.ready <= w.waiting}
    BY <2>1
  <2>3. x \in left /\ x.ready <= x.waiting
    BY <2>2
  <2>4. PICK tried \in 0..most : x = Counts(v, v.waiting - n, v.ready - tried)
    BY <2>3
  <2>5. tried \in 0..n /\ tried <= v.ready /\ n <= v.waiting
    BY <2>2 DEF Sound, View
  <2> QED
    BY <2>3, <2>4, <2>5
<1>2. v.waiting - n \in 0..MaxWaiting /\ v.ready - tried \in Nat
  BY <1>1 DEF Sound, View, PhysicalAssumption
<1>3. PICK w \in 0..MaxWaiting, r \in Nat : w = v.waiting - n /\ r = v.ready - tried
  BY <1>2
<1>4. x = Counts(v, w, r)
  BY <1>1, <1>3
<1>5. x.ready = r /\ x.waiting = w
  <2>1. PICK u : u = [v EXCEPT !.waiting = w]
    OBVIOUS
  <2>2. u \in View /\ u.waiting = w
    BY <2>1 DEF Sound, View
  <2>3. x = [u EXCEPT !.ready = r]
    BY <1>4, <2>1 DEF Counts
  <2> QED
    BY <2>2, <2>3 DEF View
<1>6. r \in 0..w
  BY <1>1, <1>3, <1>5
<1>7. Sound(Counts(v, w, r))
  BY <1>6, CountsSound DEF Sound
<1> QED
  BY <1>4, <1>7

LEMMA BegunSound ==
  ASSUME PhysicalAssumption, NEW v, Sound(v)
  PROVE  Sound(Begun(v))
<1>1. PICK yes : yes = TRUE
  OBVIOUS
<1>2. PICK u : u = [v EXCEPT !.begun = yes]
  OBVIOUS
<1>3. u \in View /\ u.waiting = v.waiting
  BY <1>1, <1>2 DEF Sound, View
<1>4. Begun(v) = Charged(u, v.waiting, RoundLimit)
  BY <1>1, <1>2 DEF Begun, Charged
<1>5. PICK w : w = v.waiting
  OBVIOUS
<1>6. w \in 0..u.waiting /\ RoundLimit \in 0..RoundLimit
  BY <1>3, <1>5 DEF Sound, View, PhysicalAssumption
<1>7. Sound(Charged(u, w, RoundLimit))
  BY <1>3, <1>6, ChargedSound
<1> QED
  BY <1>4, <1>5, <1>7

LEMMA DrainedSound == ASSUME NEW v, Sound(v) PROVE Sound(Drained(v))
  BY DEF Sound, View, Drained

LEMMA ReservedSound ==
  ASSUME PhysicalAssumption, NEW v, Sound(v), NEW n \in Nat, n <= v.ready, n <= v.budget
  PROVE  Sound(Reserved(v, n))
<1>1. PICK r \in 0..v.waiting, b \in 0..RoundLimit : r = v.ready - n /\ b = v.budget - n
  <2>1. v.ready - n \in 0..v.waiting /\ v.budget - n \in 0..RoundLimit
    BY DEF Sound, View, PhysicalAssumption
  <2> QED
    BY <2>1
<1>2. Reserved(v, n) = Charged(v, r, b)
  BY <1>1 DEF Reserved, Charged
<1>3. Sound(Charged(v, r, b))
  BY ChargedSound DEF Sound
<1> QED
  BY <1>2, <1>3

LEMMA ProducedSound ==
  ASSUME PhysicalAssumption, NEW v, Sound(v), NEW x \in Produced(v)
  PROVE  Sound(x)
<1> DEFINE tried == {Reserved(v, n) : n \in {m \in 1..CallLimit : m <= v.ready /\ m <= v.budget}}
<1>1. ASSUME NEW w \in tried PROVE Sound(w)
  <2>1. PICK n \in Nat : w = Reserved(v, n) /\ n <= v.ready /\ n <= v.budget
    BY DEF PhysicalAssumption
  <2> QED
    BY <2>1, ReservedSound
<1>2. x \in tried \/ \E w \in tried : x \in Matched(w)
  BY DEF Produced
<1>3. ASSUME NEW w \in tried, x \in Matched(w) PROVE Sound(x)
  <2>1. PICK n \in Nat : x \in Without(w, n)
    BY <1>3 DEF Matched, PhysicalAssumption
  <2> QED
    BY <1>1, <2>1, WithoutSound
<1> QED
  BY <1>1, <1>2, <1>3

-------------------------------------------------------------------------------
(* The nodes and the load order.                                           *)
NodesInv ==
  /\ Loaded \subseteq Rules
  /\ \A rule \in Loaded : /\ nodes[rule] \in [placement : Placements, view : View]
                          /\ Sound(nodes[rule].view)

OrderInv ==
  /\ order \in Seq(Rules)
  /\ Distinct(order)
  /\ Listed(order) = Loaded

LEMMA NewViewSound == ASSUME PhysicalAssumption PROVE Sound(NewView)
<1>1. 0 \in 0..MaxWaiting /\ 0 \in 0..RoundLimit
  BY DEF PhysicalAssumption
<1> QED
  BY <1>1 DEF NewView, Sound, View

LEMMA LoadNodes ==
  ASSUME PhysicalAssumption, NodesInv, OrderInv, NEW key \in Keys, Load(key)
  PROVE  NodesInv' /\ OrderInv'
<1>1. key.rule \in Rules /\ key.placement \in Placements
  BY KeyParts
<1>2. PICK node : node = [placement |-> key.placement, view |-> NewView]
  OBVIOUS
<1>3. node \in [placement : Placements, view : View] /\ Sound(node.view)
  BY <1>1, <1>2, NewViewSound DEF Sound
<1>4. /\ Loaded' = Loaded \cup {key.rule}
      /\ \A rule \in Loaded' : nodes'[rule] = IF rule = key.rule THEN node ELSE nodes[rule]
  BY <1>2 DEF Load, Loaded
<1>5. NodesInv'
  BY <1>1, <1>3, <1>4 DEF NodesInv
<1>6. key.rule \notin Listed(order)
  BY DEF Load, OrderInv
<1>7. OrderInv'
  BY <1>1, <1>4, <1>6, Appended DEF Load, OrderInv
<1> QED
  BY <1>5, <1>7

LEMMA UpdateNodes ==
  ASSUME NodesInv, OrderInv, NEW key \in Keys, NEW views, Update(key, views),
         \A view \in views : Sound(view)
  PROVE  NodesInv' /\ OrderInv'
<1>1. PICK view \in views : nodes' = [nodes EXCEPT ![key.rule].view = view]
  BY DEF Update
<1>2. key.rule \in Loaded
  BY DEF Update, Resolves
<1>3. PICK node : node = [nodes[key.rule] EXCEPT !.view = view]
  OBVIOUS
<1>4. node \in [placement : Placements, view : View] /\ node.view = view
  BY <1>1, <1>2, <1>3 DEF NodesInv, Sound
<1>5. nodes' = [nodes EXCEPT ![key.rule] = node]
  BY <1>1, <1>3
<1>6. /\ Loaded' = Loaded
      /\ \A rule \in Loaded : nodes'[rule] = IF rule = key.rule THEN node ELSE nodes[rule]
  BY <1>5 DEF Loaded
<1>7. NodesInv'
  BY <1>1, <1>4, <1>6 DEF NodesInv
<1>8. OrderInv'
  BY <1>6 DEF Update, OrderInv
<1> QED
  BY <1>7, <1>8

LEMMA BeginNodes ==
  ASSUME PhysicalAssumption, NodesInv, OrderInv, BeginMatchRound
  PROVE  NodesInv' /\ OrderInv'
<1>1. Loaded' = Loaded
  BY DEF BeginMatchRound, Loaded
<1>2. ASSUME NEW rule \in Loaded
      PROVE  nodes'[rule] \in [placement : Placements, view : View] /\ Sound(nodes'[rule].view)
  <2>1. PICK view : view = Begun(nodes[rule].view)
    OBVIOUS
  <2>2. Sound(view)
    BY <1>2, <2>1, BegunSound DEF NodesInv
  <2>3. nodes'[rule] = [nodes[rule] EXCEPT !.view = view]
    BY <1>2, <2>1 DEF BeginMatchRound
  <2>4. PICK node : node = [nodes[rule] EXCEPT !.view = view]
    OBVIOUS
  <2>5. node \in [placement : Placements, view : View] /\ node.view = view
    BY <1>2, <2>2, <2>4 DEF NodesInv, Sound
  <2> QED
    BY <2>2, <2>3, <2>4, <2>5
<1>3. NodesInv'
  BY <1>1, <1>2 DEF NodesInv
<1>4. OrderInv'
  BY <1>1 DEF BeginMatchRound, OrderInv
<1> QED
  BY <1>3, <1>4

LEMMA StopNodes ==
  ASSUME NodesInv, OrderInv, NEW key \in Keys, Stop(key)
  PROVE  NodesInv' /\ OrderInv'
<1>1. key.rule \in Loaded
  BY DEF Stop, Resolves
<1>2. /\ Loaded' = Loaded \ {key.rule}
      /\ \A rule \in Loaded' : nodes'[rule] = nodes[rule]
  BY DEF Stop, Loaded
<1>3. NodesInv'
  BY <1>2 DEF NodesInv
<1>4. order' = Seqs!RemoveFirst(order, key.rule) /\ key.rule \in Listed(order)
  BY <1>1 DEF Stop, OrderWithout, OrderInv
<1>5. OrderInv'
  BY <1>2, <1>4, WithoutOne DEF OrderInv
<1> QED
  BY <1>3, <1>5

LEMMA NodesStep ==
  ASSUME PhysicalAssumption, NodesInv, OrderInv, Next
  PROVE  NodesInv' /\ OrderInv'
<1>1. ASSUME NEW key \in Keys, Resolves(key) PROVE Sound(nodes[key.rule].view)
  BY <1>1 DEF Resolves, NodesInv
<1>2. ASSUME NEW key \in Keys, Load(key) PROVE NodesInv' /\ OrderInv'
  BY <1>2, LoadNodes
<1>3. ASSUME NEW key \in Keys, Add(key) PROVE NodesInv' /\ OrderInv'
  <2>1. Update(key, Added(nodes[key.rule].view)) /\ Resolves(key)
    BY <1>3 DEF Add, Update
  <2>2. \A view \in Added(nodes[key.rule].view) : Sound(view)
    BY <1>1, <2>1, AddedSound
  <2> QED
    BY <2>1, <2>2, UpdateNodes
<1>4. ASSUME NEW key \in Keys, Remove(key) PROVE NodesInv' /\ OrderInv'
  <2>1. Update(key, Removed(nodes[key.rule].view)) /\ Resolves(key)
    BY <1>4 DEF Remove, Update
  <2>2. \A view \in Removed(nodes[key.rule].view) : Sound(view)
    BY <1>1, <2>1, WithoutSound DEF Removed
  <2> QED
    BY <2>1, <2>2, UpdateNodes
<1>5. ASSUME NEW key \in Keys, BeginDrain(key) PROVE NodesInv' /\ OrderInv'
  <2>1. Update(key, {Drained(nodes[key.rule].view)}) /\ Resolves(key)
    BY <1>5 DEF BeginDrain, Update
  <2>2. \A view \in {Drained(nodes[key.rule].view)} : Sound(view)
    BY <1>1, <2>1, DrainedSound
  <2> QED
    BY <2>1, <2>2, UpdateNodes
<1>6. ASSUME NEW key \in Keys, Stop(key) PROVE NodesInv' /\ OrderInv'
  BY <1>6, StopNodes
<1>7. CASE BeginMatchRound
  BY <1>7, BeginNodes
<1>8. ASSUME NEW rule \in Rules, ProduceMatch(rule) PROVE NodesInv' /\ OrderInv'
  <2>1. /\ IsEligible(rule) /\ rule \in Loaded
        /\ Update(KeyOf(rule), Produced(nodes[rule].view))
    BY <1>8 DEF ProduceMatch, IsEligible
  <2>2. PICK key \in Keys : key = KeyOf(rule) /\ key.rule = rule
    BY <2>1 DEF NodesInv, KeyOf, Keys
  <2>3. \A view \in Produced(nodes[rule].view) : Sound(view)
    BY <2>1, ProducedSound DEF NodesInv
  <2> QED
    BY <2>1, <2>2, <2>3, UpdateNodes
<1> QED
  BY <1>2, <1>3, <1>4, <1>5, <1>6, <1>7, <1>8 DEF Next

-------------------------------------------------------------------------------
(* The selectors.                                                          *)
SelectorInv ==
  /\ roundActive \in BOOLEAN
  /\ last \in Keys \cup {NoKey}
  /\ current \in [Keys -> Int]

(* The strengthening of CreditsBounded: the bound on single keys is not    *)
(* inductive, the bound on every set of them is.                           *)
Balanced(x) ==
  /\ Total(x, Keys) = 0
  /\ Keys # {} => Fair(x, Keys, HighestWeight)

CreditInv == \E x \in {current} : Balanced(x)

LEMMA ChosenKey ==
  ASSUME NodesInv, NEW rule \in Loaded
  PROVE  /\ KeyOf(rule) \in Keys
         /\ KeyOf(rule).rule = rule
         /\ Resolves(KeyOf(rule))
         /\ IsEligible(rule) => KeyOf(rule) \in EligibleKeys
<1>1. KeyOf(rule) \in Keys /\ KeyOf(rule).rule = rule
  BY DEF NodesInv, KeyOf, Keys
<1>2. Resolves(KeyOf(rule))
  BY <1>1 DEF Resolves
<1> QED
  BY <1>1, <1>2 DEF EligibleKeys

LEMMA WeightedSelects ==
  ASSUME PhysicalAssumption, NodesInv, OrderInv, SelectorInv, NEW i \in DOMAIN order,
         IsEligible(order[i]), SmoothWeighted(i)
  PROVE  /\ KeyOf(order[i]) \in EligibleKeys
         /\ current' = Selected(current, KeyWeight, EligibleKeys, KeyOf(order[i]), Keys)
         /\ \A key \in EligibleKeys :
              current[key] + KeyWeight[key]
                <= current[KeyOf(order[i])] + KeyWeight[KeyOf(order[i])]
<1>1. order[i] \in Loaded
  BY DEF IsEligible
<1>2. PICK c \in EligibleKeys : c = KeyOf(order[i]) /\ c \in Keys /\ c.rule = order[i]
  BY <1>1, ChosenKey
<1>3. ASSUME NEW key \in EligibleKeys
      PROVE  /\ key \in Keys /\ KeyOf(key.rule) = key /\ IsEligible(key.rule)
             /\ Credit(key.rule) = current[key] + KeyWeight[key]
             /\ current[key] \in Int /\ KeyWeight[key] \in Nat
  <2>1. key \in Keys /\ KeyOf(key.rule) = key /\ IsEligible(key.rule)
    BY DEF EligibleKeys, Resolves
  <2>2. Credit(key.rule) = current[key] + KeyWeight[key]
    BY <2>1 DEF Credit, KeyWeight
  <2>3. current[key] \in Int /\ KeyWeight[key] \in Nat
    BY <2>1, KeyWeightType DEF SelectorInv
  <2> QED
    BY <2>1, <2>2, <2>3
<1>4. Credit(order[i]) = current[c] + KeyWeight[c] /\ Credit(order[i]) \in Int
  BY <1>2, <1>3
<1>5. ASSUME NEW key \in EligibleKeys
      PROVE  current[key] + KeyWeight[key] <= current[c] + KeyWeight[c]
  <2>1. key.rule \in Listed(order)
    BY <1>3 DEF OrderInv, IsEligible
  <2>2. PICK j \in DOMAIN order : order[j] = key.rule
    BY <2>1 DEF Listed
  <2>3. Credit(order[j]) < Credit(order[i]) \/ Credit(order[j]) = Credit(order[i])
    BY <1>3, <2>2 DEF SmoothWeighted
  <2>4. Credit(order[j]) = current[key] + KeyWeight[key]
    BY <1>3, <2>2
  <2>5. PICK a, b \in Int : a = current[key] + KeyWeight[key] /\ b = current[c] + KeyWeight[c]
    <3>1. current[key] + KeyWeight[key] \in Int /\ current[c] + KeyWeight[c] \in Int
      BY <1>3
    <3> QED
      BY <3>1
  <2>6. a < b \/ a = b
    BY <1>4, <2>3, <2>4, <2>5
  <2> QED
    BY <2>5, <2>6
<1>6. current' = Selected(current, KeyWeight, EligibleKeys, c, Keys)
  <2>1. PICK t \in Nat : t = Total(KeyWeight, EligibleKeys)
    <3>1. EligibleKeys \in SUBSET Keys
      BY DEF EligibleKeys
    <3> QED
      BY <3>1, KeysFinite, KeyWeightType, TotalNat
  <2>2. \A rule : Price(rule) = t
    BY <2>1, PriceIsTotal
  <2>3. current' = [key \in Keys |->
          IF key \in EligibleKeys
          THEN Credit(key.rule) - IF key.rule = order[i] THEN t ELSE 0
          ELSE current[key]]
    BY <2>2 DEF SmoothWeighted
  <2>4. \A key \in EligibleKeys : (key.rule = order[i]) <=> (key = c)
    BY <1>2, <1>3
  <2>5. \A key \in EligibleKeys : Credit(key.rule) = current[key] + KeyWeight[key]
    BY <1>3
  <2>6. current' = [key \in Keys |->
          IF key \in EligibleKeys
          THEN current[key] + KeyWeight[key] - IF key = c THEN t ELSE 0
          ELSE current[key]]
    <3> DEFINE a(key) == Credit(key.rule) - IF key.rule = order[i] THEN t ELSE 0
               b(key) == current[key] + KeyWeight[key] - IF key = c THEN t ELSE 0
    <3>1. ASSUME NEW key \in EligibleKeys PROVE a(key) = b(key)
      <4>1. PICK p, q \in Int : p = current[key] /\ q = KeyWeight[key]
        BY <1>3
      <4> DEFINE e == p + q
      <4>4. e = Credit(key.rule)
        BY <1>3, <4>1
      <4>2. CASE key = c
        <5>1. key.rule = order[i]
          BY <2>4, <4>2
        <5>2. a(key) = e - t
          BY <4>4, <5>1
        <5>3. b(key) = e - t
          BY <4>1, <4>2
        <5> QED
          BY <5>2, <5>3
      <4>3. CASE key # c
        <5>1. key.rule # order[i]
          BY <2>4, <4>3
        <5>2. a(key) = e - 0
          BY <4>4, <5>1
        <5>3. b(key) = e - 0
          BY <4>1, <4>3
        <5> QED
          BY <5>2, <5>3
      <4> QED
        BY <4>2, <4>3
    <3>2. current' = [key \in Keys |-> IF key \in EligibleKeys THEN a(key) ELSE current[key]]
      BY <2>3
    <3> HIDE DEF a, b
    <3>3. current' = [key \in Keys |-> IF key \in EligibleKeys THEN b(key) ELSE current[key]]
      BY <3>1, <3>2
    <3> QED
      BY <3>3 DEF b
  <2> QED
    BY <2>1, <2>6 DEF Selected
<1> QED
  BY <1>2, <1>5, <1>6

(* A step that selects by weight, or leaves the credits alone.             *)
LEMMA NextCredits ==
  ASSUME Next
  PROVE  \/ UNCHANGED current
         \/ \E i \in DOMAIN order : IsEligible(order[i]) /\ SmoothWeighted(i)
<1>1. ASSUME NEW key \in Keys,
             Load(key) \/ Add(key) \/ Remove(key) \/ BeginDrain(key) \/ Stop(key)
      PROVE  UNCHANGED current
  BY <1>1 DEF Load, Add, Remove, BeginDrain, Stop, selectorVars
<1>2. CASE BeginMatchRound
  BY <1>2 DEF BeginMatchRound, selectorVars
<1>3. ASSUME NEW rule \in Rules, ProduceMatch(rule)
      PROVE  \/ UNCHANGED current
             \/ \E i \in DOMAIN order : IsEligible(order[i]) /\ SmoothWeighted(i)
  <2>1. PICK i \in DOMAIN order : order[i] = rule /\ IsEligible(rule) /\ Select(i)
    BY <1>3 DEF ProduceMatch
  <2> QED
    BY <2>1 DEF Select, RoundRobin, selectorVars
<1> QED
  BY <1>1, <1>2, <1>3 DEF Next

LEMMA SelectorStep ==
  ASSUME PhysicalAssumption, NodesInv, OrderInv, SelectorInv, Next
  PROVE  SelectorInv'
<1>1. roundActive' \in BOOLEAN
  BY DEF Next, SelectorInv, Load, Add, Remove, BeginDrain, Stop, BeginMatchRound, ProduceMatch,
         Update
<1>2. last' \in Keys \cup {NoKey}
  <2>1. ASSUME NEW key \in Keys,
               Load(key) \/ Add(key) \/ Remove(key) \/ BeginDrain(key) \/ Stop(key)
        PROVE  UNCHANGED last
    BY <2>1 DEF Load, Add, Remove, BeginDrain, Stop, selectorVars
  <2>2. CASE BeginMatchRound
    BY <2>2 DEF BeginMatchRound, selectorVars, SelectorInv
  <2>3. ASSUME NEW rule \in Rules, ProduceMatch(rule) PROVE last' \in Keys \cup {NoKey}
    <3>1. PICK i \in DOMAIN order : order[i] = rule /\ IsEligible(rule) /\ Select(i)
      BY <2>3 DEF ProduceMatch
    <3>2. KeyOf(order[i]) \in Keys
      BY <3>1, ChosenKey DEF IsEligible
    <3> QED
      BY <3>1, <3>2 DEF Select, RoundRobin, SmoothWeighted, selectorVars, SelectorInv
  <2> QED
    BY <2>1, <2>2, <2>3 DEF Next, SelectorInv
<1>3. current' \in [Keys -> Int]
  <2>1. CASE UNCHANGED current
    BY <2>1 DEF SelectorInv
  <2>2. ASSUME NEW i \in DOMAIN order, IsEligible(order[i]), SmoothWeighted(i)
        PROVE  current' \in [Keys -> Int]
    <3>1. /\ KeyOf(order[i]) \in EligibleKeys
          /\ current' = Selected(current, KeyWeight, EligibleKeys, KeyOf(order[i]), Keys)
      BY <2>2, WeightedSelects
    <3>2. EligibleKeys \in SUBSET Keys
      BY DEF EligibleKeys
    <3> QED
      BY <3>1, <3>2, KeysFinite, KeyWeightType, SelectedType DEF SelectorInv
  <2> QED
    BY <2>1, <2>2, NextCredits
<1> QED
  BY <1>1, <1>2, <1>3 DEF SelectorInv

LEMMA CreditStep ==
  ASSUME PhysicalAssumption, NodesInv, OrderInv, SelectorInv, CreditInv, Next
  PROVE  CreditInv'
<1>1. CASE UNCHANGED current
  BY <1>1 DEF CreditInv
<1>2. ASSUME NEW i \in DOMAIN order, IsEligible(order[i]), SmoothWeighted(i)
      PROVE  CreditInv'
  <2>1. PICK c \in EligibleKeys :
          /\ current' = Selected(current, KeyWeight, EligibleKeys, c, Keys)
          /\ \A key \in EligibleKeys :
               current[key] + KeyWeight[key] <= current[c] + KeyWeight[c]
    BY <1>2, WeightedSelects
  <2>2. /\ EligibleKeys \in SUBSET Keys /\ Keys # {} /\ Rules # {}
        /\ IsFiniteSet(Keys) /\ KeyWeight \in [Keys -> Nat]
    BY KeysFinite, KeyWeightType, KeyParts DEF EligibleKeys
  <2>3. PICK m \in Nat : m = HighestWeight /\ \A key \in Keys : KeyWeight[key] <= m
    BY <2>2, HighestWeightBounds, KeyParts DEF KeyWeight
  <2>4. Balanced(current)
    BY DEF CreditInv
  <2>5. PICK y : y = Selected(current, KeyWeight, EligibleKeys, c, Keys)
    OBVIOUS
  <2>6. Total(y, Keys) = 0
    BY <2>2, <2>4, <2>5, SelectedCancels DEF SelectorInv, Balanced
  <2>7. Fair(y, Keys, m)
    BY <2>1, <2>2, <2>3, <2>4, <2>5, FairKept DEF SelectorInv, Balanced
  <2>8. Balanced(y)
    BY <2>3, <2>6, <2>7 DEF Balanced
  <2> QED
    BY <2>1, <2>5, <2>8 DEF CreditInv
<1> QED
  BY <1>1, <1>2, NextCredits

-------------------------------------------------------------------------------
NodeInv == NodesInv /\ OrderInv /\ SelectorInv /\ CreditInv

LEMMA ZeroBalanced ==
  ASSUME PhysicalAssumption, NEW x, x = [key \in Keys |-> 0]
  PROVE  Balanced(x)
<1>1. x \in [Keys -> Int] /\ \A key \in Keys : x[key] = 0
  OBVIOUS
<1>2. \A S \in SUBSET Keys : Total(x, S) = 0
  BY <1>1, KeysFinite, TotalZero
<1>3. ASSUME Keys # {}, NEW S \in SUBSET Keys
      PROVE  0 <= (Cardinality(S) * (Cardinality(Keys) - Cardinality(S))) * HighestWeight
  <2>1. Rules # {}
    BY <1>3, KeyParts
  <2>2. PICK m \in Nat : m = HighestWeight
    BY <2>1, HighestWeightBounds
  <2>3. PICK s, d \in Nat : s = Cardinality(S) /\ d = Cardinality(Keys) - Cardinality(S)
    <3>1. /\ Cardinality(S) \in Nat /\ Cardinality(Keys) \in Nat
          /\ Cardinality(S) <= Cardinality(Keys)
      BY KeysFinite, FS_Subset, FS_CardinalityType
    <3> QED
      BY <3>1
  <2>4. s * d \in Nat
    BY <2>3
  <2>5. (s * d) * m \in Nat
    BY <2>2, <2>4
  <2> QED
    BY <2>2, <2>3, <2>5
<1>4. Keys # {} => Fair(x, Keys, HighestWeight)
  BY <1>2, <1>3 DEF Fair
<1> QED
  BY <1>2, <1>4 DEF Balanced

LEMMA InitNode == ASSUME PhysicalAssumption, Init PROVE NodeInv
<1>1. Loaded = {}
  BY DEF Init, Loaded
<1>2. NodesInv
  BY <1>1 DEF NodesInv
<1>3. OrderInv
  BY <1>1 DEF Init, OrderInv, Distinct, Listed
<1>4. SelectorInv
  <2>1. roundActive \in BOOLEAN
    BY DEF Init
  <2>2. last \in Keys \cup {NoKey}
    BY DEF Init
  <2>3. current \in [Keys -> Int]
    BY DEF Init
  <2> QED
    BY <2>1, <2>2, <2>3 DEF SelectorInv
<1>5. CreditInv
  BY ZeroBalanced DEF Init, CreditInv
<1> QED
  BY <1>2, <1>3, <1>4, <1>5 DEF NodeInv

LEMMA StutterNode == ASSUME NodeInv, UNCHANGED vars PROVE NodeInv'
<1>1. UNCHANGED nodes /\ UNCHANGED order /\ UNCHANGED roundActive /\ UNCHANGED last
        /\ UNCHANGED current
  BY DEF vars, selectorVars
<1>2. NodesInv'
  BY <1>1 DEF NodeInv, NodesInv, Loaded
<1>3. OrderInv' /\ SelectorInv' /\ CreditInv'
  BY <1>1 DEF NodeInv, OrderInv, SelectorInv, CreditInv, Loaded
<1> QED
  BY <1>2, <1>3 DEF NodeInv

LEMMA NodeInvariant == Spec => []NodeInv
<1>1. Init => NodeInv
  BY InitNode, PhysicalAssumption
<1>2. NodeInv /\ [Next]_vars => NodeInv'
  <2>1. ASSUME NodeInv, Next PROVE NodeInv'
    BY <2>1, PhysicalAssumption, NodesStep, SelectorStep, CreditStep DEF NodeInv
  <2> QED
    BY <2>1, StutterNode
<1> QED
  BY <1>1, <1>2, PTL DEF Spec

(* The partitions, their views, the load order and what the selectors keep *)
(* have the types the code gives them, whatever is loaded, stopped and     *)
(* loaded again.                                                           *)
THEOREM TypeCorrect == Spec => []TypeOK
<1>1. NodeInv => TypeOK
  BY DEF NodeInv, NodesInv, OrderInv, SelectorInv, TypeOK
<1> QED
  BY <1>1, NodeInvariant, PTL

(* The load order lists every loaded partition once and nothing else, so   *)
(* each one is a candidate of the selector and starts with every round.    *)
THEOREM EveryNodeListed == Spec => []OrderListsNodes
<1>1. NodeInv => OrderListsNodes
  BY ListedCount DEF NodeInv, OrderInv, OrderListsNodes, Listed
<1> QED
  BY <1>1, NodeInvariant, PTL

(* The credits of smooth weighted round robin cancel out, and no partition *)
(* builds up a claim above the highest weight for every other one, for any *)
(* weights and any sequence of eligible candidates, with partitions        *)
(* stopped and loaded again under credits they left behind.                *)
THEOREM CreditsStayBounded == Spec => []CreditsBounded
<1>1. NodeInv => CreditsBounded
  <2> SUFFICES ASSUME NodeInv PROVE CreditsBounded
    OBVIOUS
  <2>1. PICK x \in [Keys -> Int] : x = current /\ Balanced(x)
    BY DEF NodeInv, SelectorInv, CreditInv
  <2>2. MapThenSumSet(LAMBDA key : current[key], Keys) = 0
    BY <2>1 DEF Balanced, Total
  <2>3. ASSUME NEW key \in Keys
        PROVE  x[key] \in (-((Cardinality(Keys) - 1) * HighestWeight))
                             ..((Cardinality(Keys) - 1) * HighestWeight)
    <3>1. Rules # {} /\ Keys # {}
      BY KeyParts
    <3>2. HighestWeight \in Nat
      BY <3>1, PhysicalAssumption, HighestWeightBounds
    <3> QED
      BY <2>1, <3>1, <3>2, PhysicalAssumption, KeysFinite, FairBounds DEF Balanced
  <2> QED
    BY <2>1, <2>2, <2>3 DEF CreditsBounded
<1> QED
  BY <1>1, NodeInvariant, PTL

-------------------------------------------------------------------------------
(* The router in front of the nodes, for any tables and hashes.            *)
CONSTANTS Nodes, RuleOf, Requests, Hashes, Configs
VARIABLES hash, table, owner

Routing == INSTANCE Router

LEMMA SameFiniteness ==
  /\ \A S : Routing!IsFiniteSet(S) <=> IsFiniteSet(S)
  /\ \A S : Routing!Cardinality(S) = Cardinality(S)
BY DEF Routing!IsFiniteSet, IsFiniteSet, Routing!Cardinality, Cardinality

(* What the hash and the tables in use are, which the steps preserve.      *)
RouterInv ==
  /\ hash \in [Requests -> [Nodes -> Hashes]]
  /\ table \in Configs
  /\ Routing!Valid(table)

LEMMA RouterStep == RouterInv /\ [Routing!Next]_(Routing!vars) => RouterInv'
<1> SUFFICES ASSUME RouterInv, [Routing!Next]_(Routing!vars) PROVE RouterInv'
  OBVIOUS
<1>1. ASSUME NEW c \in Configs, Routing!Replace(c) PROVE RouterInv'
  BY <1>1 DEF Routing!Replace, RouterInv, Routing!Valid
<1>2. CASE UNCHANGED <<hash, table>>
  BY <1>2 DEF RouterInv, Routing!Valid
<1> QED
  BY <1>1, <1>2 DEF Routing!Next, Routing!RouteNew, Routing!vars

(* The open routes of a rule are on nodes of their own.                    *)
LEMMA OpenRoutes ==
  ASSUME Routing!RouterAssumption, NEW c \in Configs, Routing!Valid(c), NEW rule
  PROVE  /\ IsFiniteSet(Routing!Open(c, rule))
         /\ \A r \in Routing!Open(c, rule) :
              /\ r \in c.routes /\ r.node \in Nodes /\ r.node \in Nat
              /\ r.weight \in Nat /\ r.weight > 0
         /\ \A r, s \in Routing!Open(c, rule) : r # s => r.node # s.node
<1>1. /\ IsFiniteSet(c.routes) /\ DOMAIN c.nodes \subseteq Nodes /\ Nodes \subseteq Nat
      /\ \A r \in c.routes : r.weight \in Nat
  BY SameFiniteness DEF Routing!RouterAssumption
<1>2. /\ Routing!Open(c, rule) \subseteq c.routes
      /\ \A r \in Routing!Open(c, rule) : RuleOf[r.logical] = rule
  BY DEF Routing!Open
<1>3. IsFiniteSet(Routing!Open(c, rule))
  BY <1>1, <1>2, FS_Subset
<1>4. \A r \in c.routes :
        /\ r.node \in DOMAIN c.nodes /\ r.weight > 0
        /\ \A s \in c.routes \ {r} :
             ~(RuleOf[r.logical] = RuleOf[s.logical] /\ r.node = s.node)
  BY DEF Routing!Valid
<1> QED
  BY <1>1, <1>2, <1>3, <1>4

(* Of two routes on different nodes one wins, and to win is transitive.    *)
LEMMA WinsIsOrder ==
  ASSUME Routing!RouterAssumption, hash \in [Requests -> [Nodes -> Hashes]],
         NEW c \in Configs, Routing!Valid(c), NEW request \in Requests
  PROVE  LET open == Routing!Open(c, request.rule)
         IN /\ \A r, s \in open : r # s =>
                 /\ Routing!Wins(c, request, r, s) \/ Routing!Wins(c, request, s, r)
                 /\ ~ (Routing!Wins(c, request, r, s) /\ Routing!Wins(c, request, s, r))
            /\ \A r, s, t \in open :
                 Routing!Wins(c, request, r, s) /\ Routing!Wins(c, request, s, t) =>
                   Routing!Wins(c, request, r, t)
            /\ \A r \in open : ~ Routing!Wins(c, request, r, r)
<1> DEFINE open == Routing!Open(c, request.rule)
<1>1. \A r \in open : Routing!Score(c, request, r) \in Nat /\ r.node \in Nat
  <2> TAKE r \in open
  <2>1. r.node \in Nodes /\ r.node \in Nat /\ r.weight \in Nat
    BY OpenRoutes
  <2>2. PICK h \in Nat : h = hash[request][r.node]
    <3>1. hash[request] \in [Nodes -> Hashes] /\ Hashes \subseteq Nat
      BY DEF Routing!RouterAssumption
    <3>2. hash[request][r.node] \in Nat
      BY <2>1, <3>1
    <3> QED
      BY <3>2
  <2> QED
    BY <2>1, <2>2 DEF Routing!Score
<1>2. \A r, s \in open : r # s => r.node # s.node
  BY OpenRoutes
<1> HIDE DEF open
<1>3. \A r, s \in open : r # s =>
        /\ Routing!Wins(c, request, r, s) \/ Routing!Wins(c, request, s, r)
        /\ ~ (Routing!Wins(c, request, r, s) /\ Routing!Wins(c, request, s, r))
  BY <1>1, <1>2 DEF Routing!Wins
<1>4. \A r, s, t \in open :
        Routing!Wins(c, request, r, s) /\ Routing!Wins(c, request, s, t) =>
          Routing!Wins(c, request, r, t)
  BY <1>1 DEF Routing!Wins
<1>5. \A r \in open : ~ Routing!Wins(c, request, r, r)
  BY <1>1 DEF Routing!Wins
<1> QED
  BY <1>3, <1>4, <1>5 DEF open

(* Some open route wins against every other, if any is open.               *)
LEMMA BestIsOne ==
  ASSUME Routing!RouterAssumption, hash \in [Requests -> [Nodes -> Hashes]],
         NEW c \in Configs, Routing!Valid(c), NEW request \in Requests
  PROVE  Cardinality(Routing!Best(c, request)) =
           IF Routing!Open(c, request.rule) = {} THEN 0 ELSE 1
<1> DEFINE open == Routing!Open(c, request.rule)
           Before(r) == {t \in open : Routing!Wins(c, request, t, r)}
           counts == {Cardinality(Before(r)) : r \in open}
<1>1. \A r \in open : Before(r) \subseteq open /\ IsFiniteSet(Before(r))
  BY OpenRoutes, FS_Subset
<1>2. CASE open = {}
  <2>1. Routing!Best(c, request) = {}
    BY <1>2 DEF Routing!Best
  <2> QED
    BY <1>2, <2>1, FS_EmptySet
<1>3. CASE open # {}
  <2>1. counts \subseteq Nat /\ counts # {}
    BY <1>1, <1>3, FS_CardinalityType
  <2>2. PICK n \in counts : \A m \in counts : ~ (<<m, n>> \in OpToRel(<, Nat))
    <3> HIDE DEF counts
    <3> QED
      BY <2>1, NatLessThanWellFounded, WFMin
  <2>3. PICK r \in open : n = Cardinality(Before(r))
    OBVIOUS
  <2>4. \A s \in open : ~ (Cardinality(Before(s)) < Cardinality(Before(r)))
    <3> TAKE s \in open
    <3>1. Cardinality(Before(s)) \in counts /\ Cardinality(Before(r)) \in counts
      OBVIOUS
    <3> QED
      BY <2>1, <2>2, <2>3, <3>1 DEF OpToRel
  <2>5. ASSUME NEW s \in open, Routing!Wins(c, request, s, r) PROVE FALSE
    <3>1. Before(s) \subseteq Before(r)
      BY <2>5, WinsIsOrder
    <3>2. s \in Before(r) /\ s \notin Before(s)
      BY <2>5, WinsIsOrder
    <3>3. /\ Cardinality(Before(s)) \in Nat /\ Cardinality(Before(r)) \in Nat
          /\ Cardinality(Before(s)) <= Cardinality(Before(r))
          /\ Cardinality(Before(s)) # Cardinality(Before(r))
      <4> HIDE DEF Before, open
      <4>1. IsFiniteSet(Before(r)) /\ IsFiniteSet(Before(s))
        BY <1>1, <2>3, <2>5
      <4> QED
        BY <3>1, <3>2, <4>1, FS_Subset, FS_CardinalityType
    <3>4. ~ (Cardinality(Before(s)) < Cardinality(Before(r)))
      BY <2>4
    <3> HIDE DEF Before
    <3> QED
      BY <3>3, <3>4
  <2>6. r \in Routing!Best(c, request)
    BY <2>5, WinsIsOrder DEF Routing!Best
  <2>7. ASSUME NEW s \in Routing!Best(c, request), s # r PROVE FALSE
    <3>1. s \in open /\ Routing!Wins(c, request, s, r)
      BY <2>7 DEF Routing!Best
    <3> QED
      BY <2>5, <3>1
  <2>8. Routing!Best(c, request) = {r}
    BY <2>6, <2>7
  <2> QED
    BY <1>3, <2>8, FS_Singleton
<1> QED
  BY <1>2, <1>3

LEMMA WorthOfNode ==
  ASSUME Routing!RouterAssumption, NEW c \in Configs, Routing!Valid(c), NEW rule, NEW node
  PROVE  /\ \A r \in Routing!Open(c, rule) : r.node = node =>
              Routing!Worth(c, rule, node) = r.weight
         /\ (\A r \in Routing!Open(c, rule) : r.node # node) =>
              Routing!Worth(c, rule, node) = 0
<1> DEFINE open == Routing!Open(c, rule)
           at == {r \in open : r.node = node}
<1>1. Routing!Worth(c, rule, node) = IF at = {} THEN 0 ELSE (CHOOSE r \in at : TRUE).weight
  BY DEF Routing!Worth
<1>2. \A r, s \in open : r # s => r.node # s.node
  BY OpenRoutes
<1>3. ASSUME NEW r \in open, r.node = node PROVE Routing!Worth(c, rule, node) = r.weight
  <2>1. at = {r}
    BY <1>2, <1>3
  <2>2. (CHOOSE x \in at : TRUE) \in at
    BY <2>1
  <2>3. (CHOOSE x \in at : TRUE) = r /\ at # {}
    BY <2>1, <2>2
  <2> QED
    BY <1>1, <2>3
<1>4. ASSUME \A r \in open : r.node # node PROVE Routing!Worth(c, rule, node) = 0
  <2>1. at = {}
    BY <1>4
  <2> QED
    BY <1>1, <2>1
<1> QED
  BY <1>3, <1>4

LEMMA MoreWeightMoreScore ==
  ASSUME NEW v \in Nat, NEW w \in Nat, NEW h \in Nat, v <= w
  PROVE  v * h <= w * h
OBVIOUS

(* Two tables between which the best route of a request moves, although    *)
(* the node it leaves lost nothing and the node it goes to won nothing,    *)
(* would score both nodes the same, and each would precede the other.      *)
LEMMA MoveNeedsCause ==
  ASSUME Routing!RouterAssumption, hash \in [Requests -> [Nodes -> Hashes]],
         NEW c \in Configs, Routing!Valid(c), NEW d \in Configs, Routing!Valid(d),
         NEW request \in Requests,
         NEW r \in Routing!Best(c, request), NEW s \in Routing!Best(d, request),
         r.node # s.node,
         ~ (Routing!Worth(d, request.rule, r.node) < Routing!Worth(c, request.rule, r.node)),
         ~ (Routing!Worth(d, request.rule, s.node) > Routing!Worth(c, request.rule, s.node))
  PROVE  FALSE
<1> DEFINE old == Routing!Open(c, request.rule)
           new == Routing!Open(d, request.rule)
<1>1. /\ r \in old /\ \A t \in old \ {r} : Routing!Wins(c, request, r, t)
      /\ s \in new /\ \A t \in new \ {s} : Routing!Wins(d, request, s, t)
  BY DEF Routing!Best
<1>2. /\ \A t \in old : t.node \in Nodes /\ t.node \in Nat /\ t.weight \in Nat /\ t.weight > 0
      /\ \A t \in new : t.node \in Nodes /\ t.node \in Nat /\ t.weight \in Nat /\ t.weight > 0
  BY OpenRoutes
<1>3. PICK p \in new : p.node = r.node /\ r.weight <= p.weight
  <2>1. Routing!Worth(c, request.rule, r.node) = r.weight /\ r.weight > 0 /\ r.weight \in Nat
    BY <1>1, <1>2, WorthOfNode
  <2>2. CASE \A t \in new : t.node # r.node
    <3>1. Routing!Worth(d, request.rule, r.node) = 0
      BY <2>2, WorthOfNode
    <3> QED
      BY <2>1, <3>1
  <2>3. ASSUME NEW t \in new, t.node = r.node PROVE r.weight <= t.weight
    <3>1. Routing!Worth(d, request.rule, r.node) = t.weight /\ t.weight \in Nat
      BY <1>2, <2>3, WorthOfNode
    <3> QED
      BY <2>1, <3>1
  <2> QED
    BY <2>2, <2>3
<1>4. PICK q \in old : q.node = s.node /\ s.weight <= q.weight
  <2>1. Routing!Worth(d, request.rule, s.node) = s.weight /\ s.weight > 0 /\ s.weight \in Nat
    BY <1>1, <1>2, WorthOfNode
  <2>2. CASE \A t \in old : t.node # s.node
    <3>1. Routing!Worth(c, request.rule, s.node) = 0
      BY <2>2, WorthOfNode
    <3> QED
      BY <2>1, <3>1
  <2>3. ASSUME NEW t \in old, t.node = s.node PROVE s.weight <= t.weight
    <3>1. Routing!Worth(c, request.rule, s.node) = t.weight /\ t.weight \in Nat
      BY <1>2, <2>3, WorthOfNode
    <3> QED
      BY <2>1, <3>1
  <2> QED
    BY <2>2, <2>3
<1>5. Routing!Wins(c, request, r, q) /\ Routing!Wins(d, request, s, p)
  BY <1>1, <1>3, <1>4
<1>6. PICK h \in Nat : h = hash[request][r.node]
  <2>1. hash[request] \in [Nodes -> Hashes] /\ Hashes \subseteq Nat /\ r.node \in Nodes
    BY <1>1, <1>2 DEF Routing!RouterAssumption
  <2>2. hash[request][r.node] \in Nat
    BY <2>1
  <2> QED
    BY <2>2
<1>7. PICK g \in Nat : g = hash[request][s.node]
  <2>1. hash[request] \in [Nodes -> Hashes] /\ Hashes \subseteq Nat /\ s.node \in Nodes
    BY <1>1, <1>2 DEF Routing!RouterAssumption
  <2>2. hash[request][s.node] \in Nat
    BY <2>1
  <2> QED
    BY <2>2
<1>8. PICK x \in Nat : x = Routing!Score(c, request, r) /\ x = r.weight * h
  BY <1>1, <1>2, <1>6 DEF Routing!Score
<1>9. PICK y \in Nat : y = Routing!Score(d, request, s) /\ y = s.weight * g
  BY <1>1, <1>2, <1>7 DEF Routing!Score
<1>10. PICK u \in Nat : u = Routing!Score(d, request, p) /\ x <= u
  <2>1. Routing!Score(d, request, p) = p.weight * h
    BY <1>3, <1>6 DEF Routing!Score
  <2>2. r.weight * h <= p.weight * h /\ p.weight * h \in Nat
    BY <1>1, <1>2, <1>3, MoreWeightMoreScore
  <2> QED
    BY <1>8, <2>1, <2>2
<1>11. PICK v \in Nat : v = Routing!Score(c, request, q) /\ y <= v
  <2>1. Routing!Score(c, request, q) = q.weight * g
    BY <1>4, <1>7 DEF Routing!Score
  <2>2. s.weight * g <= q.weight * g /\ q.weight * g \in Nat
    BY <1>1, <1>2, <1>4, MoreWeightMoreScore
  <2> QED
    BY <1>9, <2>1, <2>2
<1>12. x > v \/ (x = v /\ r.node < s.node)
  <2>1. \/ Routing!Score(c, request, r) > Routing!Score(c, request, q)
        \/ /\ Routing!Score(c, request, r) = Routing!Score(c, request, q)
           /\ r.node < q.node
    BY <1>5 DEF Routing!Wins
  <2>2. q.node = s.node
    BY <1>4
  <2>3. x = Routing!Score(c, request, r) /\ v = Routing!Score(c, request, q)
    BY <1>8, <1>11
  <2>4. \/ x > v
        \/ x = v /\ r.node < s.node
    BY <2>1, <2>2, <2>3, Zenon
  <2> QED
    BY <2>4
<1>13. y > u \/ (y = u /\ s.node < r.node)
  <2>1. \/ Routing!Score(d, request, s) > Routing!Score(d, request, p)
        \/ /\ Routing!Score(d, request, s) = Routing!Score(d, request, p)
           /\ s.node < p.node
    BY <1>5 DEF Routing!Wins
  <2>2. p.node = r.node
    BY <1>3
  <2>3. y = Routing!Score(d, request, s) /\ u = Routing!Score(d, request, p)
    BY <1>9, <1>10
  <2>4. \/ y > u
        \/ y = u /\ s.node < r.node
    BY <2>1, <2>2, <2>3, Zenon
  <2> QED
    BY <2>4
<1>14. r.node \in Nat /\ s.node \in Nat
  BY <1>1, <1>2
<1> QED
  BY <1>10, <1>11, <1>12, <1>13, <1>14

LEMMA RouterInit == Routing!Init => RouterInv
BY DEF Routing!Init, RouterInv

(* A LogicalNode has one home, the rule tells it on a PhysicalNode, and a  *)
(* new ticket finds exactly one home if its rule has an open route         *)
(* (NewRouteTable and Router.RouteNew), for any tables and hashes.         *)
THEOREM HomeIsOne ==
  Routing!RouterAssumption => (Routing!Spec => []Routing!OneHome)
<1> SUFFICES ASSUME Routing!RouterAssumption PROVE Routing!Spec => []Routing!OneHome
  OBVIOUS
<1>1. RouterInv => Routing!OneHome
  <2> SUFFICES ASSUME RouterInv PROVE Routing!OneHome
    OBVIOUS
  <2>1. ASSUME NEW r \in table.routes, NEW s \in table.routes, r # s
        PROVE  /\ r.logical # s.logical
               /\ <<r.node, RuleOf[r.logical]>> # <<s.node, RuleOf[s.logical]>>
    BY <2>1 DEF RouterInv, Routing!Valid
  <2>2. \A request \in Requests :
          Routing!Cardinality(Routing!Best(table, request)) =
            IF Routing!Open(table, request.rule) = {} THEN 0 ELSE 1
    BY BestIsOne, SameFiniteness DEF RouterInv
  <2> QED
    BY <2>1, <2>2 DEF Routing!OneHome
<1> QED
  BY <1>1, RouterInit, RouterStep, PTL DEF Routing!Spec

(* A new route table moves an affinity to another node only if its node    *)
(* lost weight or the other won some, whatever happens to third nodes      *)
(* (Router.Replace and Router.RouteNew).                                   *)
THEOREM MovesHaveCause ==
  Routing!RouterAssumption => (Routing!Spec => [][Routing!MoveHasCause]_(Routing!vars))
<1> SUFFICES ASSUME Routing!RouterAssumption
             PROVE  Routing!Spec => [][Routing!MoveHasCause]_(Routing!vars)
  OBVIOUS
<1>1. RouterInv /\ RouterInv' => Routing!MoveHasCause
  <2> SUFFICES ASSUME RouterInv, RouterInv' PROVE Routing!MoveHasCause
    OBVIOUS
  <2>1. PICK c \in Configs : c = table
    BY DEF RouterInv
  <2>2. PICK d \in Configs : d = table'
    BY DEF RouterInv
  <2>3. Routing!Valid(c) /\ Routing!Valid(d)
    BY <2>1, <2>2 DEF RouterInv, Routing!Valid
  <2>4. \A request \in Requests :
          \A r \in Routing!Best(c, request), s \in Routing!Best(d, request) :
            r.node # s.node =>
              \/ Routing!Worth(d, request.rule, r.node) < Routing!Worth(c, request.rule, r.node)
              \/ Routing!Worth(d, request.rule, s.node) > Routing!Worth(c, request.rule, s.node)
    BY <2>3, MoveNeedsCause DEF RouterInv
  <2> QED
    BY <2>1, <2>2, <2>4 DEF Routing!MoveHasCause
<1> QED
  BY <1>1, RouterInit, RouterStep, PTL DEF Routing!Spec
===============================================================================
