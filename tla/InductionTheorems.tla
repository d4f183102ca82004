---------------------------- MODULE InductionTheorems ----------------------------
(***************************************************************************)
(* Induction and recursion along the naturals up to n, which sequences are *)
(* folded along, in a form that speaks of sets and functions only: what a  *)
(* statement holds for is named as a set, and a step is a function.        *)
(***************************************************************************)
EXTENDS Integers, FiniteSetTheorems, WellFoundedInduction, TLAPS

LEMMA SmallestOf ==
  ASSUME NEW T \in SUBSET Nat, T # {}
  PROVE  \E n \in T : \A m \in T : n <= m
  <1>1. PICK x \in T : \A y \in T : ~(<<y, x>> \in OpToRel(<, Nat))
    BY NatLessThanWellFounded, WFMin
  <1>2. \A y \in T : ~(y < x)
    BY <1>1 DEF OpToRel
  <1> QED
    BY <1>2

(* G is where a statement holds. *)
THEOREM InductionUpTo ==
  ASSUME NEW n \in Nat, NEW G, 0 \in G, \A k \in 1..n : k - 1 \in G => k \in G
  PROVE  0..n \subseteq G
  <1> DEFINE T == {k \in 0..n : k \notin G}
  <1> SUFFICES ASSUME T # {} PROVE FALSE
    OBVIOUS
  <1>1. PICK k \in T : \A m \in T : k <= m
    <2>1. T \in SUBSET Nat
      OBVIOUS
    <2> HIDE DEF T
    <2> QED
      BY <2>1, SmallestOf
  <1>2. k \in 1..n /\ k - 1 \in 0..n /\ k - 1 \notin T
    BY <1>1
  <1> QED
    BY <1>1, <1>2

(* What a function from 0 on is when each value follows from the one before. *)
IsRecursion(f, base, step, n) == f[0] = base /\ \A k \in 1..n : f[k] = step[k][f[k - 1]]

(* Such a function exists, whatever the steps. *)
THEOREM RecursionUpTo ==
  ASSUME NEW n \in Nat, NEW V, NEW base \in V, NEW step \in [1..n -> [V -> V]]
  PROVE  \E f \in [0..n -> V] : IsRecursion(f, base, step, n)
  <1> DEFINE Begun(g, m) == g[0] = base /\ \A k \in 1..m : g[k] = step[k][g[k - 1]]
             G == {m \in 0..n : \E g \in [0..m -> V] : Begun(g, m)}
  <1>1. 0 \in G
    <2> DEFINE g == [k \in 0..0 |-> base]
    <2>1. g \in [0..0 -> V] /\ Begun(g, 0)
      OBVIOUS
    <2> HIDE DEF g, Begun
    <2>2. 0 \in 0..n /\ \E h \in [0..0 -> V] : Begun(h, 0)
      BY <2>1
    <2> QED
      BY <2>2
  <1>2. ASSUME NEW m \in 1..n, m - 1 \in G
        PROVE  m \in G
    <2> DEFINE p == m - 1
    <2>1. p \in 0..n /\ m \in 0..n /\ p \in Nat /\ m = p + 1 /\ p \in 0..p
      OBVIOUS
    <2>2. PICK g \in [0..p -> V] : Begun(g, p)
      BY <1>2
    <2> HIDE DEF p
    <2> DEFINE next == step[m][g[p]]
               longer == [k \in 0..m |-> IF k = m THEN next ELSE g[k]]
    <2>3. next \in V
      BY <2>1, <2>2
    <2> HIDE DEF next
    <2>4. longer \in [0..m -> V]
      <3>1. \A k \in 0..m : k = m \/ k \in 0..p
        BY <2>1
      <3> QED
        BY <2>2, <2>3, <3>1
    <2>5. longer[m] = next /\ \A k \in 0..p : longer[k] = g[k]
      BY <2>1
    <2> HIDE DEF longer
    <2>6. longer[0] = base
      BY <2>1, <2>2, <2>5
    <2>7. ASSUME NEW k \in 1..m PROVE longer[k] = step[k][longer[k - 1]]
      <3> DEFINE l == k - 1
      <3>1. l \in 0..p
        BY <2>1
      <3>2. CASE k = m
        <4>1. l = p
          BY <2>1, <3>2
        <4> QED
          BY <2>5, <3>1, <3>2, <4>1 DEF next
      <3>3. CASE k # m
        <4>1. k \in 1..p /\ k \in 0..p
          BY <2>1, <3>3
        <4> QED
          BY <2>2, <2>5, <3>1, <4>1
      <3> QED
        BY <3>2, <3>3
    <2>8. Begun(longer, m)
      BY <2>6, <2>7
    <2> HIDE DEF Begun
    <2> QED
      BY <2>1, <2>4, <2>8
  <1>3. n \in G
    <2>1. n \in 0..n
      OBVIOUS
    <2> HIDE DEF G
    <2> QED
      BY <1>1, <1>2, <2>1, InductionUpTo
  <1> QED
    BY <1>3 DEF IsRecursion

(* Of finitely many, one is least by a measure. *)
THEOREM LeastOfFinite ==
  ASSUME NEW K, IsFiniteSet(K), K # {}, NEW measure \in [K -> Int]
  PROVE  \E k \in K : \A l \in K : measure[k] <= measure[l]
  <1> DEFINE Below(k) == {l \in K : measure[l] <= measure[k]}
             T == {Below(k) : k \in K}
  <1>1. T \subseteq FiniteSubsetsOf(K) /\ T # {}
    <2>1. \A k \in K : Below(k) \in SUBSET K /\ IsFiniteSet(Below(k))
      <3> SUFFICES ASSUME NEW k \in K PROVE Below(k) \in SUBSET K /\ IsFiniteSet(Below(k))
        OBVIOUS
      <3>1. Below(k) \in SUBSET K
        OBVIOUS
      <3> HIDE DEF Below
      <3> QED
        BY <3>1, FS_Subset
    <2> HIDE DEF Below
    <2>2. T \subseteq FiniteSubsetsOf(K)
      BY <2>1 DEF FiniteSubsetsOf
    <2>3. T # {}
      OBVIOUS
    <2> QED
      BY <2>2, <2>3
  <1> HIDE DEF T
  <1>2. PICK x \in T : \A y \in T : ~(<<y, x>> \in StrictSubsetOrdering(K))
    BY <1>1, FS_StrictSubsetOrderingWellFounded, WFMin
  <1>3. PICK k \in K : x = Below(k)
    BY DEF T
  <1>4. ASSUME NEW l \in K, ~(measure[k] <= measure[l])
        PROVE  FALSE
    <2>1. Below(l) \in T
      BY DEF T
    <2>2. Below(l) \subseteq Below(k) /\ Below(l) # Below(k)
      <3>1. measure[k] \in Int /\ measure[l] \in Int /\ measure[l] < measure[k]
        BY <1>4
      <3>2. \A i \in K : measure[i] \in Int
        OBVIOUS
      <3>3. k \in Below(k) /\ k \notin Below(l)
        BY <3>1
      <3> QED
        BY <3>1, <3>2, <3>3
    <2>3. <<Below(l), Below(k)>> \in StrictSubsetOrdering(K)
      BY <2>2 DEF StrictSubsetOrdering
    <2> QED
      BY <1>2, <1>3, <2>1, <2>3
  <1> QED
    BY <1>4
==================================================================================
