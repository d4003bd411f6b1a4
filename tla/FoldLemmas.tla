----------------------------- MODULE FoldLemmas -----------------------------
(***************************************************************************)
(* What a fold of the community modules computes on a finite set.          *)
(*                                                                         *)
(* The library's induction theorems take an operator; SetInduction and     *)
(* SubsetInduction take a set instead, which a proof can define.  A fold   *)
(* is a recursive function that is chosen: FoldExists says that there is   *)
(* such a function, so that its equation may be used, and the lemmas after *)
(* it draw the consequences for sums and for folds over a sequence.        *)
(***************************************************************************)
EXTENDS Integers, FiniteSets, FiniteSetsExt, Functions, FiniteSetTheorems, WellFoundedInduction, TLAPS

(* Induction on the natural numbers, for a set of them.                    *)
LEMMA SetInduction ==
    ASSUME NEW T \in SUBSET Nat, 0 \in T, \A n \in T : n + 1 \in T
    PROVE  T = Nat
<1> DEFINE B == Nat \ T
<1>1. SUFFICES ASSUME B # {} PROVE FALSE
  OBVIOUS
<1>2. PICK x \in B : \A y \in B : ~(<<y, x>> \in OpToRel(<, Nat))
  <2>1. B \subseteq Nat
    OBVIOUS
  <2> HIDE DEF B
  <2> QED BY <1>1, <2>1, NatLessThanWellFounded, WFMin
<1>3. \A y \in B : ~(y < x)
  <2>1. B \subseteq Nat
    OBVIOUS
  <2> HIDE DEF B
  <2> QED BY <1>2, <2>1 DEF OpToRel
<1>4. x # 0 /\ x - 1 \in Nat /\ x - 1 < x
  OBVIOUS
<1>5. x - 1 \in T
  BY <1>3, <1>4
<1> QED BY <1>5

(* A property of the empty set that a set has when the sets with one       *)
(* element less have it.                                                   *)
LEMMA SubsetInduction ==
    ASSUME NEW T, IsFiniteSet(T), NEW P \in SUBSET (SUBSET T), {} \in P,
           \A s \in SUBSET T : s # {} /\ (\A x \in s : s \ {x} \in P) => s \in P
    PROVE  P = SUBSET T
<1> DEFINE N == {n \in Nat : \A s \in SUBSET T : Cardinality(s) <= n => s \in P}
<1>1. \A s \in SUBSET T : IsFiniteSet(s) /\ Cardinality(s) \in Nat
  BY FS_Subset, FS_CardinalityType
<1>2. 0 \in N
  <2>1. \A s \in SUBSET T : Cardinality(s) <= 0 => s = {}
    BY <1>1, FS_EmptySet
  <2> QED BY <2>1
<1>3. ASSUME NEW n \in N PROVE n + 1 \in N
  <2> SUFFICES ASSUME NEW s \in SUBSET T, Cardinality(s) <= n + 1, s # {} PROVE s \in P
    OBVIOUS
  <2>1. \A x \in s : Cardinality(s \ {x}) <= n
    BY <1>1, FS_RemoveElement
  <2> QED BY <2>1
<1>4. N = Nat
  <2> HIDE DEF N
  <2>1. N \in SUBSET Nat
    BY DEF N
  <2> QED BY <1>2, <1>3, <2>1, SetInduction
<1> QED BY <1>1, <1>4

(* Equations of a fold: iter is the function on the subsets of T.          *)
Folds(iter, T, c, q, b) ==
    iter = [s \in SUBSET T |-> IF s = {} THEN b ELSE q[<<c[s], iter[s \ {c[s]}]>>]]

(* The equations have a solution when the fold stays within V.             *)
LEMMA FoldExists ==
    ASSUME NEW T, IsFiniteSet(T), NEW c,
           \A s \in SUBSET T : s # {} => c[s] \in s,
           NEW V, NEW b \in V, NEW q \in [T \X V -> V]
    PROVE  \E iter \in [SUBSET T -> V] : Folds(iter, T, c, q, b)
<1> DEFINE Small(n) == {s \in SUBSET T : Cardinality(s) <= n}
           Part(f, n) == f \in [Small(n) -> V] /\ \A s \in Small(n) :
                            f[s] = IF s = {} THEN b ELSE q[<<c[s], f[s \ {c[s]}]>>]
           P == {n \in Nat : \E f : Part(f, n)}
<1>0. \A s \in SUBSET T : IsFiniteSet(s) /\ Cardinality(s) \in Nat
  BY FS_Subset, FS_CardinalityType
<1>9. \A s \in SUBSET T : s # {} => Cardinality(s \ {c[s]}) = Cardinality(s) - 1 /\ s \ {c[s]} \in SUBSET T
  BY <1>0, FS_RemoveElement
<1>1. 0 \in P
  <2> DEFINE f == [s \in Small(0) |-> b]
  <2>1. \A s \in Small(0) : s = {}
    BY <1>0, FS_EmptySet
  <2>2. Part(f, 0)
    BY <2>1
  <2> QED BY <2>2
<1>2. ASSUME NEW n \in P PROVE n + 1 \in P
  <2>1. PICK f : Part(f, n)
    OBVIOUS
  <2> DEFINE g == [s \in Small(n + 1) |-> IF s = {} THEN b ELSE q[<<c[s], f[s \ {c[s]}]>>]]
  <2>2. ASSUME NEW s \in Small(n + 1), s # {}
        PROVE s \ {c[s]} \in Small(n)
    BY <1>9, <1>0, <2>2
  <2>3. \A s \in Small(n) : s \in Small(n + 1) /\ g[s] = f[s]
    BY <2>1, <1>0
  <2>4. g \in [Small(n + 1) -> V]
    <3> SUFFICES ASSUME NEW s \in Small(n + 1), s # {} PROVE q[<<c[s], f[s \ {c[s]}]>>] \in V
      OBVIOUS
    <3> QED BY <2>2, <2>1
  <2>5. Part(g, n + 1)
    BY <2>2, <2>3, <2>4
  <2>6. n + 1 \in Nat /\ \E e : Part(e, n + 1)
    <3> HIDE DEF g, Part
    <3> QED BY <2>5
  <2> QED BY <2>6
<1>3. P = Nat
  <2> HIDE DEF P
  <2>1. P \in SUBSET Nat
    BY DEF P
  <2> QED BY <1>1, <1>2, <2>1, SetInduction
<1>4. PICK f : Part(f, Cardinality(T))
  BY <1>3, <1>0
<1>5. Small(Cardinality(T)) = SUBSET T
  BY <1>0, FS_Subset
<1>6. f \in [SUBSET T -> V] /\ \A s \in SUBSET T : f[s] = IF s = {} THEN b ELSE q[<<c[s], f[s \ {c[s]}]>>]
  BY <1>4, <1>5
<1>7. f = [s \in SUBSET T |-> IF s = {} THEN b ELSE q[<<c[s], f[s \ {c[s]}]>>]]
  BY <1>6
<1>10. f \in [SUBSET T -> V]
  BY <1>6
<1> HIDE DEF Part, P, Small
<1> QED BY <1>7, <1>10 DEF Folds

(* The sums of g over the subsets of T, one index taken away at a time.    *)
SumTable(iter, T, g) ==
    /\ iter \in [SUBSET T -> Int]
    /\ iter[{}] = 0
    /\ \A s \in SUBSET T : s # {} =>
          iter[s] = g[CHOOSE x \in s : TRUE] + iter[s \ {CHOOSE x \in s : TRUE}]

(* SumFunctionOnSet is such a sum.                                         *)
LEMMA SumIsFold ==
    ASSUME NEW T, IsFiniteSet(T), NEW g, \A x \in T : g[x] \in Int
    PROVE  \E iter : SumTable(iter, T, g) /\ SumFunctionOnSet(g, T) = iter[T]
<1> DEFINE c == [s \in SUBSET T |-> CHOOSE x \in s : TRUE]
           q == [p \in T \X Int |-> g[p[1]] + p[2]]
<1>1. PICK iter \in [SUBSET T -> Int] : Folds(iter, T, c, q, 0)
  <2>1. q \in [T \X Int -> Int]
    OBVIOUS
  <2>2. \A s \in SUBSET T : s # {} => c[s] \in s
    OBVIOUS
  <2>3. 0 \in Int
    OBVIOUS
  <2> HIDE DEF c, q
  <2> QED BY <2>1, <2>2, <2>3, FoldExists
<1> DEFINE body(f) == [s \in SUBSET T |-> IF s = {} THEN 0
                          ELSE LET x == CHOOSE y \in s : TRUE IN g[x] + f[s \ {x}]]
<1>2. iter = body(iter)
  <2>1. ASSUME NEW s \in SUBSET T, s # {}
        PROVE LET x == CHOOSE y \in s : TRUE IN iter[s] = g[x] + iter[s \ {x}]
    <3> DEFINE x == CHOOSE y \in s : TRUE
    <3>1. x \in s
      BY <2>1
    <3>2. c[s] = x
      OBVIOUS
    <3>3. iter[s \ {x}] \in Int
      BY <1>1
    <3> HIDE DEF x, c, q
    <3>4. iter[s] = q[<<x, iter[s \ {x}]>>]
      BY <1>1, <3>2, <2>1 DEF Folds
    <3>5. iter[s] = g[x] + iter[s \ {x}]
      BY <3>4, <3>3, <3>1 DEF q
    <3> QED BY <3>5 DEF x
  <2>2. iter[{}] = 0
    BY <1>1 DEF Folds
  <2> QED BY <2>1, <2>2, <1>1
<1> DEFINE it == CHOOSE f : f = body(f)
<1>3. it = body(it)
  <2> HIDE DEF body
  <2> QED BY <1>2
<1>4. SumFunctionOnSet(g, T) = it[T]
  BY DEF SumFunctionOnSet, FoldFunctionOnSet, MapThenFoldSet
<1>5. \A s \in SUBSET T : iter[s] = it[s]
  <2> DEFINE P == {s \in SUBSET T : iter[s] = it[s]}
  <2> HIDE DEF it
  <2>1. {} \in P
    BY <1>2, <1>3
  <2>2. ASSUME NEW s \in SUBSET T, s # {}, \A x \in s : s \ {x} \in P
        PROVE  s \in P
    <3> DEFINE x == CHOOSE y \in s : TRUE
    <3>1. x \in s
      BY <2>2
    <3>2. iter[s] = g[x] + iter[s \ {x}]
      BY <1>2, <2>2
    <3>3. it[s] = g[x] + it[s \ {x}]
      BY <1>3, <2>2
    <3> HIDE DEF x
    <3> QED BY <3>1, <3>2, <3>3, <2>2
  <2>3. P \in SUBSET (SUBSET T)
    OBVIOUS
  <2> HIDE DEF body, c, q, P
  <2>4. P = SUBSET T
    BY <2>1, <2>2, <2>3, SubsetInduction
  <2> QED BY <2>4 DEF P
<1>6. SumTable(iter, T, g)
  BY <1>2 DEF SumTable
<1> HIDE DEF it, body, c, q
<1> QED BY <1>4, <1>5, <1>6

(* The sums do not depend on the set they are tabulated for.               *)
LEMMA SumTableUnique ==
    ASSUME NEW S, IsFiniteSet(S), NEW T, S \subseteq T, NEW g,
           NEW f, SumTable(f, T, g), NEW it, SumTable(it, S, g)
    PROVE  it[S] = f[S]
<1> DEFINE P == {s \in SUBSET S : f[s] = it[s]}
<1>1. {} \in P
  BY DEF SumTable
<1>2. ASSUME NEW s \in SUBSET S, s # {}, \A x \in s : s \ {x} \in P
      PROVE  s \in P
  <2> DEFINE x == CHOOSE y \in s : TRUE
  <2>1. x \in s
    BY <1>2
  <2>2. f[s] = g[x] + f[s \ {x}] /\ it[s] = g[x] + it[s \ {x}]
    BY <1>2 DEF SumTable
  <2> HIDE DEF x
  <2> QED BY <2>1, <2>2, <1>2
<1>3. P \in SUBSET (SUBSET S)
  OBVIOUS
<1> HIDE DEF P
<1>4. P = SUBSET S
  BY <1>1, <1>2, <1>3, SubsetInduction
<1> QED BY <1>4 DEF P

(* Any index may be taken out of a sum, not only the one chosen.           *)
LEMMA SumTakeOut ==
    ASSUME NEW T, IsFiniteSet(T), NEW g, \A x \in T : g[x] \in Int
    PROVE  /\ SumFunctionOnSet(g, {}) = 0
           /\ SumFunctionOnSet(g, T) \in Int
           /\ \A x \in T : SumFunctionOnSet(g, T) = g[x] + SumFunctionOnSet(g, T \ {x})
<1>1. PICK iter : SumTable(iter, T, g) /\ SumFunctionOnSet(g, T) = iter[T]
  BY SumIsFold
<1>2. ASSUME NEW S \in SUBSET T
      PROVE  SumFunctionOnSet(g, S) = iter[S]
  <2>1. IsFiniteSet(S) /\ \A x \in S : g[x] \in Int
    BY FS_Subset
  <2>2. PICK it : SumTable(it, S, g) /\ SumFunctionOnSet(g, S) = it[S]
    BY <2>1, SumIsFold
  <2> QED BY <1>1, <2>1, <2>2, SumTableUnique
<1> DEFINE Q == {s \in SUBSET T : \A x \in s : iter[s] = g[x] + iter[s \ {x}]}
<1>3. {} \in Q
  OBVIOUS
<1>4. ASSUME NEW s \in SUBSET T, s # {}, \A x \in s : s \ {x} \in Q
      PROVE  s \in Q
  <2> SUFFICES ASSUME NEW x \in s PROVE iter[s] = g[x] + iter[s \ {x}]
    OBVIOUS
  <2> DEFINE y == CHOOSE z \in s : TRUE
  <2>1. y \in s
    OBVIOUS
  <2>2. iter[s] = g[y] + iter[s \ {y}]
    BY <1>1, <1>4 DEF SumTable
  <2> HIDE DEF y
  <2>3. CASE x = y
    BY <2>2, <2>3
  <2>4. CASE x # y
    <3>1. s \ {y} \in Q /\ s \ {x} \in Q
      BY <1>4, <2>1
    <3>2. iter[s \ {y}] = g[x] + iter[(s \ {y}) \ {x}] /\ iter[s \ {x}] = g[y] + iter[(s \ {x}) \ {y}]
      BY <3>1, <2>4, <2>1
    <3>3. (s \ {y}) \ {x} = (s \ {x}) \ {y}
      OBVIOUS
    <3>4. g[x] \in Int /\ g[y] \in Int /\ iter[(s \ {x}) \ {y}] \in Int
      BY <2>1, <1>1 DEF SumTable
    <3>5. iter[s] = g[y] + (g[x] + iter[(s \ {x}) \ {y}])
      BY <2>2, <3>2, <3>3
    <3>6. iter[s \ {x}] = g[y] + iter[(s \ {x}) \ {y}]
      BY <3>2
    <3> HIDE DEF Q
    <3>7. \A u, v, w \in Int : u + (v + w) = v + (u + w)
      OBVIOUS
    <3> QED BY <3>4, <3>5, <3>6, <3>7
  <2> QED BY <2>3, <2>4
<1>5. Q = SUBSET T
  <2>1. Q \in SUBSET (SUBSET T)
    OBVIOUS
  <2> HIDE DEF Q
  <2> QED BY <1>3, <1>4, <2>1, SubsetInduction
<1>6. \A x \in T : iter[T] = g[x] + iter[T \ {x}]
  BY <1>5
<1> HIDE DEF Q
<1>7. iter[{}] = 0 /\ iter[T] \in Int
  BY <1>1 DEF SumTable
<1>8. {} \in SUBSET T /\ T \in SUBSET T /\ \A x \in T : T \ {x} \in SUBSET T
  OBVIOUS
<1>9. \A x \in T : SumFunctionOnSet(g, T \ {x}) = iter[T \ {x}]
  BY <1>2, <1>8
<1>10. SumFunctionOnSet(g, {}) = iter[{}] /\ SumFunctionOnSet(g, T) = iter[T]
  BY <1>2, <1>8
<1> QED BY <1>6, <1>7, <1>9, <1>10

(* Only the values at the indices matter.                                  *)
LEMMA SumAgree ==
    ASSUME NEW T, IsFiniteSet(T), NEW g, NEW h, \A x \in T : g[x] \in Int /\ h[x] = g[x]
    PROVE  SumFunctionOnSet(h, T) = SumFunctionOnSet(g, T)
<1> DEFINE P == {s \in SUBSET T : SumFunctionOnSet(h, s) = SumFunctionOnSet(g, s)}
<1>1. ASSUME NEW s \in SUBSET T
      PROVE  /\ SumFunctionOnSet(g, {}) = 0 /\ SumFunctionOnSet(h, {}) = 0
             /\ \A x \in s : SumFunctionOnSet(g, s) = g[x] + SumFunctionOnSet(g, s \ {x})
             /\ \A x \in s : SumFunctionOnSet(h, s) = h[x] + SumFunctionOnSet(h, s \ {x})
  <2>1. IsFiniteSet(s) /\ (\A x \in s : g[x] \in Int) /\ (\A x \in s : h[x] \in Int)
    BY FS_Subset
  <2> QED BY <2>1, SumTakeOut
<1>2. {} \in P
  BY <1>1
<1>3. ASSUME NEW s \in SUBSET T, s # {}, \A x \in s : s \ {x} \in P
      PROVE  s \in P
  <2>1. PICK x \in s : TRUE
    BY <1>3
  <2> QED BY <1>1, <1>3, <2>1
<1>4. P \in SUBSET (SUBSET T)
  OBVIOUS
<1> HIDE DEF P
<1>5. P = SUBSET T
  BY <1>2, <1>3, <1>4, SubsetInduction
<1> QED BY <1>5 DEF P

(* One index has another value.                                            *)
LEMMA SumChange ==
    ASSUME NEW T, IsFiniteSet(T), NEW g, NEW h, NEW x \in T,
           \A y \in T : g[y] \in Int /\ h[y] \in Int,
           \A y \in T \ {x} : h[y] = g[y]
    PROVE  SumFunctionOnSet(h, T) = (SumFunctionOnSet(g, T) - g[x]) + h[x]
<1>1. IsFiniteSet(T \ {x})
  BY FS_Subset
<1>2. /\ SumFunctionOnSet(g, T) = g[x] + SumFunctionOnSet(g, T \ {x})
      /\ SumFunctionOnSet(h, T) = h[x] + SumFunctionOnSet(h, T \ {x})
  BY SumTakeOut
<1>3. SumFunctionOnSet(g, T \ {x}) \in Int
  BY <1>1, SumTakeOut
<1>4. SumFunctionOnSet(h, T \ {x}) = SumFunctionOnSet(g, T \ {x})
  <2> DEFINE R == T \ {x}
  <2>1. IsFiniteSet(R) /\ \A y \in R : g[y] \in Int /\ h[y] = g[y]
    BY <1>1
  <2> HIDE DEF R
  <2>2. SumFunctionOnSet(h, R) = SumFunctionOnSet(g, R)
    BY <2>1, SumAgree
  <2> QED BY <2>2 DEF R
<1> QED BY <1>2, <1>3, <1>4

(* A sum of natural numbers is one.                                        *)
LEMMA SumNat ==
    ASSUME NEW T, IsFiniteSet(T), NEW g, \A x \in T : g[x] \in Nat
    PROVE  SumFunctionOnSet(g, T) \in Nat
<1> DEFINE P == {s \in SUBSET T : SumFunctionOnSet(g, s) \in Nat}
<1>1. ASSUME NEW s \in SUBSET T
      PROVE  /\ SumFunctionOnSet(g, {}) = 0
             /\ \A x \in s : SumFunctionOnSet(g, s) = g[x] + SumFunctionOnSet(g, s \ {x})
  <2>1. IsFiniteSet(s) /\ \A x \in s : g[x] \in Int
    BY FS_Subset
  <2> QED BY <2>1, SumTakeOut
<1>2. {} \in P
  BY <1>1
<1>3. ASSUME NEW s \in SUBSET T, s # {}, \A x \in s : s \ {x} \in P
      PROVE  s \in P
  <2>1. PICK x \in s : TRUE
    BY <1>3
  <2>2. g[x] \in Nat /\ SumFunctionOnSet(g, s \ {x}) \in Nat
    BY <1>3, <2>1
  <2>3. SumFunctionOnSet(g, s) = g[x] + SumFunctionOnSet(g, s \ {x})
    BY <1>1, <2>1
  <2> QED BY <2>2, <2>3
<1>4. P \in SUBSET (SUBSET T)
  OBVIOUS
<1>5. P = SUBSET T
  <2> HIDE DEF P
  <2> QED BY <1>2, <1>3, <1>4, SubsetInduction
<1> QED BY <1>5

(* The maximum of a set of indices.                                        *)
LEMMA IntervalMax ==
    ASSUME NEW n \in Nat, NEW S \in SUBSET (0..n), S # {}
    PROVE  Max(S) \in S /\ \A y \in S : y <= Max(S)
<1> DEFINE P == {k \in Nat : \A R \in SUBSET (0..k) : R # {} => \E m \in R : \A y \in R : m >= y}
<1>1. 0 \in P
  <2>1. \A R \in SUBSET (0..0) : R # {} => 0 \in R /\ \A y \in R : 0 >= y
    <3> SUFFICES ASSUME NEW R \in SUBSET (0..0), R # {} PROVE 0 \in R /\ \A y \in R : 0 >= y
      OBVIOUS
    <3>1. \A y \in R : y = 0
      OBVIOUS
    <3>2. PICK z \in R : TRUE
      OBVIOUS
    <3>3. 0 \in R
      BY <3>1, <3>2
    <3>4. 0 >= 0
      OBVIOUS
    <3> QED BY <3>1, <3>3, <3>4
  <2> QED BY <2>1
<1>2. ASSUME NEW k \in P PROVE k + 1 \in P
  <2> SUFFICES ASSUME NEW R \in SUBSET (0..(k + 1)), R # {} PROVE \E m \in R : \A y \in R : m >= y
    OBVIOUS
  <2>1. CASE k + 1 \in R
    <3>1. \A y \in R : k + 1 >= y
      OBVIOUS
    <3> QED BY <2>1, <3>1
  <2>2. CASE k + 1 \notin R
    <3>1. R \in SUBSET (0..k)
      BY <2>2
    <3> QED BY <3>1
  <2> QED BY <2>1, <2>2
<1>3. P = Nat
  <2>1. P \in SUBSET Nat
    OBVIOUS
  <2> HIDE DEF P
  <2> QED BY <1>1, <1>2, <2>1, SetInduction
<1>4. \E m \in S : \A y \in S : m >= y
  BY <1>3
<1>5. Max(S) \in S /\ \A y \in S : Max(S) >= y
  BY <1>4 DEF Max
<1> QED BY <1>5

(* The last index of a prefix.                                             *)
LEMMA IntervalTop ==
    ASSUME NEW n \in Nat, n > 0
    PROVE  Max(1..n) = n /\ (1..n) \ {n} = 1..(n - 1)
<1>1. Max(1..n) \in 1..n /\ \A y \in 1..n : y <= Max(1..n)
  <2>1. (1..n) \in SUBSET (0..n) /\ 1..n # {}
    OBVIOUS
  <2> QED BY <2>1, IntervalMax
<1>2. n \in 1..n
  OBVIOUS
<1> QED BY <1>1, <1>2

(* Equations of a fold over a sequence, which goes through its indices     *)
(* from the last one down: iter is the function on the sets of indices.    *)
LeftFolds(iter, n, b, q) ==
    \A s \in SUBSET (1..n) : iter[s] = IF s = {} THEN b ELSE q[<<Max(s), iter[s \ {Max(s)}]>>]

(* They have a solution, as for any fold.                                  *)
LEMMA LeftFoldExists ==
    ASSUME NEW n \in Nat, NEW V, NEW b \in V, NEW q \in [(1..n) \X V -> V]
    PROVE  \E iter \in [SUBSET (1..n) -> V] : LeftFolds(iter, n, b, q)
<1> DEFINE c == [s \in SUBSET (1..n) |-> Max(s)]
<1>1. ASSUME NEW s \in SUBSET (1..n), s # {} PROVE c[s] \in s
  <2>1. s \in SUBSET (0..n)
    OBVIOUS
  <2> HIDE DEF c
  <2>2. Max(s) \in s
    BY <1>1, <2>1, IntervalMax
  <2> QED BY <2>2 DEF c
<1>2. IsFiniteSet(1..n)
  BY FS_Interval
<1>3. \A s \in SUBSET (1..n) : c[s] = Max(s)
  OBVIOUS
<1> HIDE DEF c
<1>4. PICK iter \in [SUBSET (1..n) -> V] : Folds(iter, 1..n, c, q, b)
  BY <1>1, <1>2, FoldExists
<1> QED BY <1>3, <1>4 DEF Folds, LeftFolds
=============================================================================
