---------------------------- MODULE BillingSums ----------------------------
(***************************************************************************)
(* Facts about SumOf, the sum of the values of a function over a finite    *)
(* set.  It is a fold, that is a recursive function on the subsets of the  *)
(* set; the facts are proved by looking at a least subset that is against  *)
(* them.                                                                   *)
(***************************************************************************)
EXTENDS BillingStore, FiniteSetTheorems, TLAPS

(* A set of subsets of a finite set has a least element.                   *)
LEMMA LeastSubset ==
  ASSUME NEW S, IsFiniteSet(S), NEW Bad \in SUBSET SUBSET S, Bad # {}
  PROVE  \E T \in Bad : \A U \in SUBSET T : U # T => U \notin Bad
<1>1. IsWellFoundedOn(StrictSubsetOrdering(S), SUBSET S)
  BY FS_StrictSubsetOrderingWellFounded, FS_FiniteSubsetsOfFinite
<1>2. PICK T \in Bad : \A U \in Bad : ~ (<<U, T>> \in StrictSubsetOrdering(S))
  BY <1>1, WFMin
<1>3. ASSUME NEW U \in SUBSET T, U # T, U \in Bad
      PROVE  FALSE
  BY <1>2, <1>3 DEF StrictSubsetOrdering
<1> QED BY <1>3

-----------------------------------------------------------------------------
(* The recursive function behind SumOf.                                    *)

First(s) == CHOOSE x \in s : TRUE

IsSum(h, f, S) ==
  h = [s \in SUBSET S |-> IF s = {} THEN 0 ELSE f[First(s)] + h[s \ {First(s)}]]

(* SumOf is that function at the whole set.                                *)
LEMMA SumIsFold ==
  ASSUME NEW f, NEW S
  PROVE  SumOf(f, S) = (CHOOSE h : IsSum(h, f, S))[S]
  BY DEF SumOf, MapThenSumSet, MapThenFoldSet, IsSum, First

(* What it is at one subset.                                               *)
LEMMA SumAt ==
  ASSUME NEW f, NEW S, NEW h, IsSum(h, f, S), NEW s \in SUBSET S
  PROVE  h[s] = IF s = {} THEN 0 ELSE f[First(s)] + h[s \ {First(s)}]
<1> DEFINE Step(g) == [t \in SUBSET S |-> IF t = {} THEN 0 ELSE f[First(t)] + g[t \ {First(t)}]]
<1>1. h = Step(h)
  BY DEF IsSum
<1>2. Step(h)[s] = IF s = {} THEN 0 ELSE f[First(s)] + h[s \ {First(s)}]
  OBVIOUS
<1> HIDE DEF Step
<1> QED BY <1>1, <1>2

(* The empty set adds up to nothing.                                       *)
LEMMA SumAtEmpty ==
  ASSUME NEW f, NEW S, NEW h, IsSum(h, f, S)
  PROVE  h[{}] = 0
<1>1. {} \in SUBSET S
  OBVIOUS
<1> QED BY <1>1, SumAt

(* The element that is added first is one.                                 *)
LEMMA FirstIn ==
  ASSUME NEW s, s # {}
  PROVE  First(s) \in s
  BY DEF First

(* Two of them agree where both are defined.                               *)
LEMMA SumUnique ==
  ASSUME NEW f, NEW g, NEW S, NEW T, IsFiniteSet(T), NEW h, IsSum(h, f, S), NEW k, IsSum(k, g, T),
         T \subseteq S, \A x \in T : f[x] = g[x]
  PROVE  h[T] = k[T]
<1> DEFINE Bad == {U \in SUBSET T : h[U] # k[U]}
<1> SUFFICES ASSUME Bad # {} PROVE FALSE
  OBVIOUS
<1>0. Bad \in SUBSET SUBSET T
  OBVIOUS
<1> HIDE DEF Bad
<1>1. PICK U \in Bad : \A V \in SUBSET U : V # U => V \notin Bad
  BY <1>0, LeastSubset
<1> USE DEF Bad
<1>2. U # {}
  <2>2. h[{}] = 0
    BY SumAtEmpty
  <2>3. k[{}] = 0
    BY SumAtEmpty
  <2> QED BY <2>2, <2>3
<1>3. First(U) \in U
  BY <1>2, FirstIn
<1> DEFINE V == U \ {First(U)}
<1>4. h[V] = k[V]
  BY <1>1, <1>3
<1>5. f[First(U)] = g[First(U)]
  BY <1>3
<1>6. U \in SUBSET S /\ U \in SUBSET T
  OBVIOUS
<1>7. h[U] = f[First(U)] + h[V]
  BY <1>2, <1>6, SumAt
<1>8. k[U] = g[First(U)] + k[V]
  <2>1. k[U] = IF U = {} THEN 0 ELSE g[First(U)] + k[U \ {First(U)}]
    BY <1>6, SumAt
  <2> QED BY <2>1, <1>2
<1> QED BY <1>4, <1>5, <1>7, <1>8

(* There is one.                                                           *)
LEMMA SumExists ==
  ASSUME NEW f, NEW S, IsFiniteSet(S)
  PROVE  \E h : IsSum(h, f, S)
<1> DEFINE Bad == {U \in SUBSET S : ~ \E h : IsSum(h, f, U)}
<1> SUFFICES ASSUME Bad # {} PROVE FALSE
  OBVIOUS
<1>0. Bad \in SUBSET SUBSET S
  OBVIOUS
<1> HIDE DEF Bad
<1>1. PICK T \in Bad : \A U \in SUBSET T : U # T => U \notin Bad
  BY <1>0, LeastSubset
<1> USE DEF Bad
<1> DEFINE g(U) == CHOOSE h : IsSum(h, f, U)
           val(U) == g(U)[U]
           h == [s \in SUBSET T |-> IF s = T THEN IF T = {} THEN 0 ELSE f[First(T)] + val(T \ {First(T)})
                                    ELSE val(s)]
<1>2. ASSUME NEW U \in SUBSET T, U # T
      PROVE  IsSum(g(U), f, U)
  <2>1. \E k : IsSum(k, f, U)
    BY <1>1, <1>2
  <2> QED BY <2>1
<1> HIDE DEF g
<1>3. ASSUME NEW U \in SUBSET T, U # T, U # {}
      PROVE  val(U) = f[First(U)] + val(U \ {First(U)})
  <2> DEFINE V == U \ {First(U)}
  <2>1. First(U) \in U
    BY <1>3, FirstIn
  <2>2. V \in SUBSET T /\ V # T /\ V \subseteq U /\ IsFiniteSet(V)
    BY <2>1, <1>3, FS_Subset
  <2>3. g(U)[V] = g(V)[V]
    BY <1>2, <1>3, <2>2, SumUnique
  <2>4. g(U)[U] = f[First(U)] + g(U)[V]
    BY <1>2, <1>3, SumAt
  <2> QED BY <2>3, <2>4
<1>4. ASSUME {} # T
      PROVE  val({}) = 0
  BY <1>2, <1>4, SumAt
<1>5. ASSUME NEW s \in SUBSET T
      PROVE  h[s] = IF s = {} THEN 0 ELSE f[First(s)] + h[s \ {First(s)}]
  <2>1. CASE s = {}
    BY <2>1, <1>4
  <2>2. CASE s # {}
    <3> DEFINE V == s \ {First(s)}
    <3>1. First(s) \in s
      BY <2>2, FirstIn
    <3>2. V \in SUBSET T /\ V # T
      BY <3>1
    <3>3. h[V] = val(V)
      BY <3>2
    <3> HIDE DEF val
    <3>4. h[s] = f[First(s)] + val(V)
      BY <1>3, <2>2
    <3> QED BY <3>3, <3>4, <2>2
  <2> QED BY <2>1, <2>2
<1>6. IsSum(h, f, T)
  <2> DEFINE R == [s \in SUBSET T |-> IF s = {} THEN 0 ELSE f[First(s)] + h[s \ {First(s)}]]
  <2>1. h = [s \in SUBSET T |-> h[s]]
    OBVIOUS
  <2> HIDE DEF h
  <2>2. h = R
    BY <2>1, <1>5
  <2> QED BY <2>2 DEF IsSum
<1> QED BY <1>6

-----------------------------------------------------------------------------
(* The sum of a set, element by element.                                   *)

(* The sum of a set, its first element apart.                              *)
LEMMA SumStep ==
  ASSUME NEW f, NEW S, IsFiniteSet(S)
  PROVE  SumOf(f, S) = IF S = {} THEN 0 ELSE f[First(S)] + SumOf(f, S \ {First(S)})
<1> DEFINE g(U) == CHOOSE h : IsSum(h, f, U)
<1>1. ASSUME NEW U \in SUBSET S
      PROVE  IsSum(g(U), f, U)
  BY SumExists, FS_Subset
<1> HIDE DEF g
<1>2. \A U : SumOf(f, U) = g(U)[U]
  BY SumIsFold DEF g
<1>3. CASE S = {}
  <2>1. g(S)[S] = 0
    BY <1>1, <1>3, SumAt
  <2> QED BY <1>2, <1>3, <2>1
<1>4. CASE S # {}
  <2> DEFINE V == S \ {First(S)}
  <2>1. V \in SUBSET S /\ IsFiniteSet(V)
    BY FS_Subset
  <2>2. g(S)[V] = g(V)[V]
    BY <1>1, <2>1, SumUnique
  <2>3. g(S)[S] = f[First(S)] + g(S)[V]
    BY <1>1, <1>4, SumAt
  <2> QED BY <1>2, <2>2, <2>3, <1>4
<1> QED BY <1>3, <1>4

(* The sum of nothing.                                                     *)
LEMMA SumEmpty ==
  ASSUME NEW f
  PROVE  SumOf(f, {}) = 0
  BY SumStep, FS_EmptySet

(* Functions that agree on the set have the same sum.                      *)
LEMMA SumSame ==
  ASSUME NEW f, NEW g, NEW S, IsFiniteSet(S), \A x \in S : f[x] = g[x]
  PROVE  SumOf(f, S) = SumOf(g, S)
<1> DEFINE h == CHOOSE h : IsSum(h, f, S)
           k == CHOOSE k : IsSum(k, g, S)
<1>1. IsSum(h, f, S) /\ IsSum(k, g, S)
  BY SumExists
<1>2. SumOf(f, S) = h[S] /\ SumOf(g, S) = k[S]
  BY SumIsFold
<1> HIDE DEF h, k
<1> QED BY <1>1, <1>2, SumUnique

(* A sum of natural numbers is one.                                        *)
LEMMA SumNat ==
  ASSUME NEW f, NEW S, IsFiniteSet(S), \A x \in S : f[x] \in Nat
  PROVE  SumOf(f, S) \in Nat
<1> DEFINE Bad == {U \in SUBSET S : SumOf(f, U) \notin Nat}
<1> SUFFICES ASSUME Bad # {} PROVE FALSE
  OBVIOUS
<1>0. Bad \in SUBSET SUBSET S
  OBVIOUS
<1> HIDE DEF Bad
<1>1. PICK U \in Bad : \A V \in SUBSET U : V # U => V \notin Bad
  BY <1>0, LeastSubset
<1> USE DEF Bad
<1>2. U # {}
  BY SumEmpty
<1>3. First(U) \in U /\ IsFiniteSet(U)
  BY <1>2, FirstIn, FS_Subset
<1>4. SumOf(f, U \ {First(U)}) \in Nat
  BY <1>1, <1>3
<1>5. f[First(U)] \in Nat
  BY <1>3
<1>6. SumOf(f, U) = f[First(U)] + SumOf(f, U \ {First(U)})
  BY <1>2, <1>3, SumStep
<1> QED BY <1>4, <1>5, <1>6

(* Any element may be taken out first.                                     *)
LEMMA SumTakeOut ==
  ASSUME NEW f, NEW S, IsFiniteSet(S), \A x \in S : f[x] \in Nat, NEW x \in S
  PROVE  SumOf(f, S) = f[x] + SumOf(f, S \ {x})
<1> DEFINE Bad == {U \in SUBSET S : \E y \in U : SumOf(f, U) # f[y] + SumOf(f, U \ {y})}
<1> SUFFICES ASSUME Bad # {} PROVE FALSE
  OBVIOUS
<1>0. Bad \in SUBSET SUBSET S
  OBVIOUS
<1> HIDE DEF Bad
<1>1. PICK U \in Bad : \A V \in SUBSET U : V # U => V \notin Bad
  BY <1>0, LeastSubset
<1> USE DEF Bad
<1>2. PICK y \in U : SumOf(f, U) # f[y] + SumOf(f, U \ {y})
  OBVIOUS
<1> DEFINE z == First(U)
<1>3. z \in U /\ IsFiniteSet(U)
  BY FirstIn, FS_Subset
<1>4. SumOf(f, U) = f[z] + SumOf(f, U \ {z})
  BY <1>3, SumStep
<1> HIDE DEF z
<1>5. z # y
  BY <1>2, <1>4
<1>6. SumOf(f, U \ {z}) = f[y] + SumOf(f, (U \ {z}) \ {y})
  <2>1. U \ {z} \notin Bad /\ U \ {z} \in SUBSET S
    BY <1>1, <1>3
  <2>2. y \in U \ {z}
    BY <1>5
  <2> QED BY <2>1, <2>2
<1>7. SumOf(f, U \ {y}) = f[z] + SumOf(f, (U \ {y}) \ {z})
  <2>1. U \ {y} \notin Bad /\ U \ {y} \in SUBSET S
    BY <1>1, <1>2
  <2>2. z \in U \ {y}
    BY <1>3, <1>5
  <2> QED BY <2>1, <2>2
<1>8. (U \ {z}) \ {y} = (U \ {y}) \ {z}
  OBVIOUS
<1>9. f[y] \in Nat /\ f[z] \in Nat
  BY <1>2, <1>3
<1>10. SumOf(f, (U \ {y}) \ {z}) \in Nat
  <2> DEFINE W == (U \ {y}) \ {z}
  <2>1. IsFiniteSet(W)
    BY <1>3, FS_Subset
  <2>2. \A w \in W : f[w] \in Nat
    OBVIOUS
  <2> HIDE DEF W
  <2>3. SumOf(f, W) \in Nat
    BY <2>1, <2>2, SumNat
  <2> QED BY <2>3, Zenon DEF W
<1> DEFINE a == f[y]
           b == f[z]
           c == SumOf(f, (U \ {y}) \ {z})
<1>11. SumOf(f, U) = b + (a + c)
  BY <1>4, <1>6, <1>8, Zenon
<1>12. f[y] + SumOf(f, U \ {y}) = a + (b + c)
  BY <1>7, Zenon
<1>13. a \in Nat /\ b \in Nat /\ c \in Nat
  BY <1>9, <1>10, Zenon
<1> HIDE DEF a, b, c
<1>14. b + (a + c) = a + (b + c)
  BY <1>13
<1> QED BY <1>2, <1>11, <1>12, <1>14, Zenon

(* The sum of two sets without a common element.                           *)
LEMMA SumDisjoint ==
  ASSUME NEW f, NEW S, NEW T, IsFiniteSet(S), IsFiniteSet(T), S \cap T = {},
         \A x \in S \cup T : f[x] \in Nat
  PROVE  SumOf(f, S \cup T) = SumOf(f, S) + SumOf(f, T)
<1> DEFINE Bad == {U \in SUBSET T : SumOf(f, S \cup U) # SumOf(f, S) + SumOf(f, U)}
<1> SUFFICES ASSUME Bad # {} PROVE FALSE
  OBVIOUS
<1>0. Bad \in SUBSET SUBSET T
  OBVIOUS
<1> HIDE DEF Bad
<1>1. PICK U \in Bad : \A V \in SUBSET U : V # U => V \notin Bad
  BY <1>0, LeastSubset
<1> USE DEF Bad
<1>2. SumOf(f, S) \in Nat
  BY SumNat
<1>3. U # {}
  <2>1. S \cup {} = S
    OBVIOUS
  <2> QED BY <2>1, <1>2, SumEmpty
<1>4. PICK x \in U : TRUE
  BY <1>3
<1> DEFINE V == U \ {x}
<1>5. SumOf(f, S \cup V) = SumOf(f, S) + SumOf(f, V)
  BY <1>1
<1>6. IsFiniteSet(U) /\ IsFiniteSet(V) /\ IsFiniteSet(S \cup U)
  BY FS_Subset, FS_Union
<1>7. SumOf(f, U) = f[x] + SumOf(f, V)
  BY <1>6, SumTakeOut
<1>8. SumOf(f, S \cup U) = f[x] + SumOf(f, S \cup V)
  <2>1. (S \cup U) \ {x} = S \cup V
    OBVIOUS
  <2>2. x \in S \cup U /\ \A y \in S \cup U : f[y] \in Nat
    OBVIOUS
  <2>3. SumOf(f, S \cup U) = f[x] + SumOf(f, (S \cup U) \ {x})
    BY <2>2, <1>6, SumTakeOut
  <2> QED BY <2>1, <2>3
<1>9. f[x] \in Nat /\ SumOf(f, V) \in Nat
  BY <1>6, SumNat
<1> QED BY <1>2, <1>5, <1>7, <1>8, <1>9
(* A sum is covered by two others when each of its terms is.               *)
LEMMA SumCovered ==
  ASSUME NEW f, NEW a, NEW h, NEW S, NEW T \in SUBSET S, IsFiniteSet(S),
         \A x \in S : f[x] \in Nat /\ h[x] \in Nat,
         \A x \in T : a[x] \in Nat /\ f[x] <= a[x] + h[x],
         \A x \in S \ T : f[x] <= h[x]
  PROVE  SumOf(f, S) <= SumOf(a, T) + SumOf(h, S)
<1> DEFINE Bad == {U \in SUBSET S : ~ (SumOf(f, U) <= SumOf(a, U \cap T) + SumOf(h, U))}
<1> SUFFICES ASSUME Bad # {} PROVE FALSE
  <2>1. S \cap T = T
    OBVIOUS
  <2> QED BY <2>1
<1>0. Bad \in SUBSET SUBSET S
  OBVIOUS
<1> HIDE DEF Bad
<1>1. PICK U \in Bad : \A V \in SUBSET U : V # U => V \notin Bad
  BY <1>0, LeastSubset
<1> USE DEF Bad
<1>2. U # {}
  <2>1. {} \cap T = {}
    OBVIOUS
  <2> QED BY <2>1, SumEmpty
<1>3. PICK x \in U : TRUE
  BY <1>2
<1> DEFINE V == U \ {x}
           F == SumOf(f, V)
           A == SumOf(a, V \cap T)
           H == SumOf(h, V)
<1>4. F <= A + H
  BY <1>1
<1>5. IsFiniteSet(U) /\ IsFiniteSet(V) /\ IsFiniteSet(U \cap T) /\ IsFiniteSet(V \cap T)
  BY FS_Subset
<1>6. F \in Nat /\ A \in Nat /\ H \in Nat
  <2>1. /\ \A y \in V : f[y] \in Nat
        /\ \A y \in V : h[y] \in Nat
        /\ \A y \in V \cap T : a[y] \in Nat
    OBVIOUS
  <2> HIDE DEF V, F, A, H
  <2>2. SumOf(f, V) \in Nat
    BY <1>5, <2>1, SumNat
  <2>3. SumOf(h, V) \in Nat
    BY <1>5, <2>1, SumNat
  <2>4. SumOf(a, V \cap T) \in Nat
    BY <1>5, <2>1, SumNat
  <2> QED BY <2>2, <2>3, <2>4, Zenon DEF F, A, H
<1>7. SumOf(f, U) = f[x] + F /\ SumOf(h, U) = h[x] + H
  <2>1. \A y \in U : f[y] \in Nat /\ h[y] \in Nat
    OBVIOUS
  <2>2. SumOf(f, U) = f[x] + SumOf(f, U \ {x})
    BY <1>5, <2>1, SumTakeOut
  <2>3. SumOf(h, U) = h[x] + SumOf(h, U \ {x})
    BY <1>5, <2>1, SumTakeOut
  <2> QED BY <2>2, <2>3, Zenon
<1>8. f[x] \in Nat /\ h[x] \in Nat
  OBVIOUS
<1>9. ~ (f[x] + F <= SumOf(a, U \cap T) + (h[x] + H))
  BY <1>7
<1>10. CASE x \in T
  <2>1. SumOf(a, U \cap T) = a[x] + A
    <3>1. x \in U \cap T /\ \A y \in U \cap T : a[y] \in Nat
      BY <1>10
    <3>2. SumOf(a, U \cap T) = a[x] + SumOf(a, (U \cap T) \ {x})
      BY <1>5, <3>1, SumTakeOut
    <3>3. (U \cap T) \ {x} = V \cap T
      OBVIOUS
    <3> QED BY <3>2, <3>3
  <2>2. a[x] \in Nat /\ f[x] <= a[x] + h[x]
    BY <1>10
  <2>3. ~ (f[x] + F <= (a[x] + A) + (h[x] + H))
    BY <1>9, <2>1, Zenon
  <2> DEFINE p == f[x]
             q == a[x]
             r == h[x]
  <2>4. /\ p \in Nat /\ q \in Nat /\ r \in Nat /\ p <= q + r
        /\ ~ (p + F <= (q + A) + (r + H))
    BY <1>8, <2>2, <2>3
  <2> HIDE DEF p, q, r, F, A, H
  <2> QED BY <1>4, <1>6, <2>4
<1>11. CASE x \notin T
  <2>1. U \cap T = V \cap T
    BY <1>11
  <2>2. f[x] <= h[x]
    BY <1>11
  <2> DEFINE p == f[x]
             r == h[x]
  <2>3. /\ p \in Nat /\ r \in Nat /\ p <= r
        /\ ~ (p + F <= A + (r + H))
    BY <1>8, <1>9, <2>1, <2>2
  <2> HIDE DEF p, r, F, A, H
  <2> QED BY <1>4, <1>6, <2>3
<1> QED BY <1>10, <1>11
=============================================================================
