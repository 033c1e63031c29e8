----------------------------- MODULE SumTheorems -----------------------------
(***************************************************************************)
(* Facts about SumBy, the total size of the entries that evict() in        *)
(* internal/cache/disk/disk.go computes.  SumBy takes the elements in an   *)
(* order that is not known, so first it is shown to be the value of an     *)
(* additive set function, by taking a smallest counterexample.             *)
(***************************************************************************)
EXTENDS Sums, FiniteSetTheorems, TLAPS

(* g gives the sum of f over each subset of K. *)
Additive(f, K, g) ==
  /\ g \in [SUBSET K -> Nat]
  /\ g[{}] = 0
  /\ \A S \in SUBSET K : \A k \in S : g[S] = f[k] + g[S \ {k}]

(* Among subsets of a finite set there is one that contains no other. *)
LEMMA MinimalSubset ==
  ASSUME NEW K, IsFiniteSet(K), NEW T \in SUBSET (SUBSET K), T # {}
  PROVE  \E A \in T : \A B \in T : ~(B \subseteq A /\ B # A)
<1>1. IsWellFoundedOn(StrictSubsetOrdering(K), FiniteSubsetsOf(K))
  BY FS_StrictSubsetOrderingWellFounded
<1>2. T \subseteq FiniteSubsetsOf(K)
  BY FS_FiniteSubsetsOfFinite
<1>3. PICK A \in T : \A B \in T : ~(<<B, A>> \in StrictSubsetOrdering(K))
  BY <1>1, <1>2, WFMin
<1>4. \A B \in T : ~(B \subseteq A /\ B # A)
  BY <1>3 DEF StrictSubsetOrdering
<1> QED BY <1>4

(* Every f over a finite set has an additive set function. *)
LEMMA AdditiveExists ==
  ASSUME NEW K, IsFiniteSet(K), NEW f \in [K -> Nat]
  PROVE  \E g : Additive(f, K, g)
<1> DEFINE Bad == {A \in SUBSET K : ~ \E g : Additive(f, A, g)}
<1>1. SUFFICES ASSUME Bad # {} PROVE FALSE
  BY DEF Bad
<1>2. PICK A \in Bad : \A B \in Bad : ~(B \subseteq A /\ B # A)
  <2>1. Bad \in SUBSET (SUBSET K) BY DEF Bad
  <2> HIDE DEF Bad
  <2> QED BY <1>1, <2>1, MinimalSubset
<1>3. A # {}
  <2>1. Additive(f, {}, [S \in SUBSET {} |-> 0])
    BY DEF Additive
  <2> QED BY <2>1 DEF Bad
<1>4. PICK x \in A : TRUE
  BY <1>3
<1>5. PICK h : Additive(f, A \ {x}, h)
  <2>1. A \ {x} \notin Bad
    BY <1>2, <1>4
  <2>2. A \ {x} \in SUBSET K
    BY <1>2 DEF Bad
  <2> QED BY <2>1, <2>2 DEF Bad
<1> DEFINE g == [S \in SUBSET A |-> IF x \in S THEN f[x] + h[S \ {x}] ELSE h[S]]
<1>6. Additive(f, A, g)
  <2>0. A \in SUBSET K  BY <1>2 DEF Bad
  <2>1. g \in [SUBSET A -> Nat]
    <3> SUFFICES ASSUME NEW S \in SUBSET A PROVE g[S] \in Nat
      OBVIOUS
    <3>1. S \ {x} \in SUBSET (A \ {x}) OBVIOUS
    <3>2. x \notin S => S \in SUBSET (A \ {x}) OBVIOUS
    <3>3. f[x] \in Nat BY <1>4, <2>0
    <3> QED BY <3>1, <3>2, <3>3, <1>5 DEF Additive
  <2>2. g[{}] = 0
    BY <1>5 DEF Additive
  <2>3. ASSUME NEW S \in SUBSET A, NEW k \in S PROVE g[S] = f[k] + g[S \ {k}]
    <3>1. CASE k = x
      BY <3>1
    <3>2. CASE k # x /\ x \in S
      <4>1. S \ {x} \in SUBSET (A \ {x}) /\ k \in S \ {x}  BY <3>2
      <4>2. h[S \ {x}] = f[k] + h[(S \ {x}) \ {k}]  BY <4>1, <1>5 DEF Additive
      <4>3. (S \ {x}) \ {k} = (S \ {k}) \ {x}  OBVIOUS
      <4>4. h[(S \ {k}) \ {x}] \in Nat /\ f[k] \in Nat /\ f[x] \in Nat
        <5>1. (S \ {k}) \ {x} \in SUBSET (A \ {x}) OBVIOUS
        <5> QED BY <5>1, <1>5, <2>0, <1>4 DEF Additive
      <4>5. g[S] = f[x] + h[S \ {x}]  BY <3>2
      <4>6. g[S \ {k}] = f[x] + h[(S \ {k}) \ {x}]  BY <3>2
      <4> HIDE DEF g
      <4> QED BY <4>2, <4>3, <4>4, <4>5, <4>6
    <3>3. CASE k # x /\ x \notin S
      <4>1. S \in SUBSET (A \ {x})  BY <3>3
      <4> QED BY <4>1, <3>3, <1>5 DEF Additive
    <3> QED BY <3>1, <3>2, <3>3
  <2> QED BY <2>1, <2>2, <2>3 DEF Additive
<1> QED BY <1>6, <1>2 DEF Bad

(* SumBy(f) is the value of any additive set function of f.  It holds
   because SumBy's recursive function satisfies the same equation. *)
LEMMA SumByAdditive ==
  ASSUME NEW K, IsFiniteSet(K), NEW f \in [K -> Nat], NEW g, Additive(f, K, g)
  PROVE  SumBy(f) = g[K]
<1> DEFINE Rec(s) == s = [S \in SUBSET K |-> IF S = {} THEN 0 ELSE f[CHOOSE k \in S : TRUE] + s[S \ {CHOOSE k \in S : TRUE}]]
           sum == CHOOSE s : Rec(s)
<1>1. SumBy(f) = sum[K]
  <2>1. DOMAIN f = K  OBVIOUS
  <2> QED BY <2>1 DEF SumBy, MapThenSumSet, MapThenFoldSet
<1>2. Rec(g)
  <2>1. ASSUME NEW S \in SUBSET K
        PROVE  g[S] = IF S = {} THEN 0 ELSE f[CHOOSE k \in S : TRUE] + g[S \ {CHOOSE k \in S : TRUE}]
    <3>1. CASE S = {} BY <3>1 DEF Additive
    <3>2. CASE S # {}
      <4>1. (CHOOSE k \in S : TRUE) \in S BY <3>2
      <4> QED BY <4>1, <3>2 DEF Additive
    <3> QED BY <3>1, <3>2
  <2>2. g = [S \in SUBSET K |-> g[S]] BY DEF Additive
  <2> QED BY <2>1, <2>2
<1>3. Rec(sum)
  BY <1>2
<1>4. \A S \in SUBSET K : sum[S] = g[S]
  <2> DEFINE Bad == {S \in SUBSET K : sum[S] # g[S]}
  <2>1. SUFFICES ASSUME Bad # {} PROVE FALSE
    BY DEF Bad
  <2>2. PICK A \in Bad : \A B \in Bad : ~(B \subseteq A /\ B # A)
    <3>1. Bad \in SUBSET (SUBSET K) OBVIOUS
    <3> HIDE DEF Bad
    <3> QED BY <2>1, <3>1, MinimalSubset
  <2>3. sum[A] = IF A = {} THEN 0 ELSE f[CHOOSE k \in A : TRUE] + sum[A \ {CHOOSE k \in A : TRUE}]
    <3> HIDE DEF sum
    <3> QED BY <1>3, <2>2
  <2>4. g[A] = IF A = {} THEN 0 ELSE f[CHOOSE k \in A : TRUE] + g[A \ {CHOOSE k \in A : TRUE}]
    BY <1>2, <2>2
  <2>5. A # {}  BY <2>2, <2>3, <2>4
  <2>6. (CHOOSE k \in A : TRUE) \in A BY <2>5
  <2>7. A \ {CHOOSE k \in A : TRUE} \notin Bad  BY <2>6, <2>2
  <2>8. sum[A \ {CHOOSE k \in A : TRUE}] = g[A \ {CHOOSE k \in A : TRUE}]
    BY <2>2, <2>7
  <2> QED BY <2>2, <2>3, <2>4, <2>5, <2>8
<1> QED BY <1>1, <1>4

(* Sums of natural numbers are natural numbers. *)
LEMMA SumType ==
  ASSUME NEW K, IsFiniteSet(K), NEW f \in [K -> Nat]
  PROVE  SumBy(f) \in Nat
<1>1. PICK g : Additive(f, K, g)
  BY AdditiveExists
<1>2. SumBy(f) = g[K]
  BY <1>1, SumByAdditive
<1> QED BY <1>1, <1>2 DEF Additive

(* The sum of zeros is zero. *)
LEMMA SumZero ==
  ASSUME NEW K, IsFiniteSet(K), NEW f \in [K -> Nat], \A k \in K : f[k] = 0
  PROVE  SumBy(f) = 0
<1> DEFINE g == [S \in SUBSET K |-> 0]
<1>1. Additive(f, K, g)
  BY DEF Additive
<1>2. SumBy(f) = g[K]
  BY <1>1, SumByAdditive
<1> QED BY <1>2

(* Changing one value changes the sum by the difference. *)
LEMMA SumUpdate ==
  ASSUME NEW K, IsFiniteSet(K), NEW f \in [K -> Nat], NEW x \in K, NEW v \in Nat
  PROVE  /\ f[x] <= SumBy(f)
         /\ SumBy([f EXCEPT ![x] = v]) = (SumBy(f) - f[x]) + v
<1> DEFINE f2 == [f EXCEPT ![x] = v]
<1>1. PICK g : Additive(f, K, g)
  BY AdditiveExists
<1> DEFINE h == [S \in SUBSET K |-> IF x \in S THEN v + g[S \ {x}] ELSE g[S]]
<1>2. f2 \in [K -> Nat]
  OBVIOUS
<1>3. Additive(f2, K, h)
  <2>1. h \in [SUBSET K -> Nat]
    BY <1>1 DEF Additive
  <2>2. h[{}] = 0
    BY <1>1 DEF Additive
  <2>3. ASSUME NEW S \in SUBSET K, NEW k \in S PROVE h[S] = f2[k] + h[S \ {k}]
    <3>1. CASE k = x
      BY <3>1
    <3>2. CASE k # x /\ x \in S
      <4>1. S \ {x} \in SUBSET K /\ k \in S \ {x}  BY <3>2
      <4>2. g[S \ {x}] = f[k] + g[(S \ {x}) \ {k}]  BY <4>1, <1>1 DEF Additive
      <4>3. (S \ {x}) \ {k} = (S \ {k}) \ {x}  OBVIOUS
      <4>4. g[(S \ {k}) \ {x}] \in Nat /\ f[k] \in Nat
        BY <1>1 DEF Additive
      <4>5. h[S] = v + g[S \ {x}]  BY <3>2
      <4>6. h[S \ {k}] = v + g[(S \ {k}) \ {x}]  BY <3>2
      <4>7. f2[k] = f[k]  BY <3>2
      <4> HIDE DEF h, f2
      <4>8. g[S \ {x}] = f[k] + g[(S \ {k}) \ {x}]  BY <4>2, <4>3
      <4>9. \A a, b, c \in Nat : a + (b + c) = b + (a + c)  OBVIOUS
      <4> QED BY <4>4, <4>5, <4>6, <4>7, <4>8, <4>9
    <3>3. CASE k # x /\ x \notin S
      BY <3>3, <1>1 DEF Additive
    <3> QED BY <3>1, <3>2, <3>3
  <2> HIDE DEF h, f2
  <2> QED BY <2>1, <2>2, <2>3 DEF Additive
<1>4. SumBy(f) = g[K]
  BY <1>1, SumByAdditive
<1>5. SumBy(f2) = h[K]
  <2> HIDE DEF h, f2
  <2> QED BY <1>2, <1>3, SumByAdditive
<1>6. g[K] = f[x] + g[K \ {x}] /\ g[K \ {x}] \in Nat
  BY <1>1 DEF Additive
<1>7. h[K] = v + g[K \ {x}]
  OBVIOUS
<1> QED BY <1>4, <1>5, <1>6, <1>7

(* Larger values have a larger sum. *)
LEMMA SumMonotone ==
  ASSUME NEW K, IsFiniteSet(K), NEW f \in [K -> Nat], NEW f2 \in [K -> Nat],
         \A k \in K : f[k] <= f2[k]
  PROVE  SumBy(f) <= SumBy(f2)
<1>1. PICK g : Additive(f, K, g)
  BY AdditiveExists
<1>2. PICK h : Additive(f2, K, h)
  BY AdditiveExists
<1> DEFINE Bad == {S \in SUBSET K : ~(g[S] <= h[S])}
<1>3. Bad = {}
  <2>1. SUFFICES ASSUME Bad # {} PROVE FALSE
    OBVIOUS
  <2>2. PICK A \in Bad : \A B \in Bad : ~(B \subseteq A /\ B # A)
    <3>1. Bad \in SUBSET (SUBSET K)  OBVIOUS
    <3> HIDE DEF Bad
    <3> QED BY <2>1, <3>1, MinimalSubset
  <2>3. A # {}
    <3>1. g[{}] <= h[{}]  BY <1>1, <1>2 DEF Additive
    <3>2. {} \notin Bad  BY <3>1
    <3> QED BY <2>2, <3>2
  <2>4. PICK x \in A : TRUE
    BY <2>3
  <2>5. g[A] = f[x] + g[A \ {x}] /\ h[A] = f2[x] + h[A \ {x}]
    BY <2>2, <2>4, <1>1, <1>2 DEF Additive
  <2>6. g[A \ {x}] <= h[A \ {x}]
    <3>1. A \ {x} \notin Bad  BY <2>2, <2>4
    <3>2. A \ {x} \in SUBSET K  BY <2>2
    <3> QED BY <3>1, <3>2
  <2>7. /\ g[A \ {x}] \in Nat /\ h[A \ {x}] \in Nat
        /\ f[x] \in Nat /\ f2[x] \in Nat /\ f[x] <= f2[x]
    BY <2>2, <2>4, <1>1, <1>2 DEF Additive
  <2> QED BY <2>2, <2>5, <2>6, <2>7
<1>4. SumBy(f) = g[K] /\ SumBy(f2) = h[K]
  BY <1>1, <1>2, SumByAdditive
<1> QED BY <1>3, <1>4
=============================================================================
