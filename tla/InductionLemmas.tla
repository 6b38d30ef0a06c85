--------------------------- MODULE InductionLemmas --------------------------
(***************************************************************************)
(* Induction over the natural numbers for a set, which first-order provers *)
(* can apply: a proof by induction names the set of the numbers for which  *)
(* its claim holds.  And what follows from it for functions defined by     *)
(* recursion over 0..m, whose step is a function.                          *)
(***************************************************************************)
EXTENDS Integers, WellFoundedInduction, TLAPS

(* A set that holds 0 and, with a number, its successor, holds them all. *)
LEMMA NatSetInduction ==
  ASSUME NEW T, 0 \in T, \A n \in Nat : n \in T => n + 1 \in T
  PROVE  Nat \subseteq T
<1> SUFFICES ASSUME Nat \ T # {} PROVE FALSE
  OBVIOUS
<1>1. PICK n \in Nat \ T : \A m \in Nat \ T : ~ (<<m, n>> \in OpToRel(<, Nat))
  BY WFMin, NatLessThanWellFounded, Zenon
<1>2. \A m \in Nat \ T : ~ (m < n)
  BY <1>1 DEF OpToRel
<1>3. n # 0 /\ n - 1 \in Nat /\ (n - 1) + 1 = n
  OBVIOUS
<1>4. n - 1 \in T
  BY <1>2, <1>3
<1> QED BY <1>3, <1>4

(* What a function defined by recursion, v at 0 and then by steps, is       *)
(* given by.                                                               *)
Recursion(m, v, step, g) ==
  g = [n \in 0..m |-> IF n = 0 THEN v ELSE step[n][g[n - 1]]]

LEMMA Predecessors ==
  ASSUME NEW m \in Nat
  PROVE  0 \in 0..m /\ \A n \in 1..m : n \in 0..m /\ n - 1 \in 0..m /\ n # 0 /\ n \in Nat
OBVIOUS

(* There is such a function. *)
LEMMA RecursionExists ==
  ASSUME NEW m \in Nat, NEW V, NEW v \in V, NEW step \in [1..m -> [V -> V]]
  PROVE  \E g \in [0..m -> V] : Recursion(m, v, step, g)
<1> DEFINE Upto(k, g) == g[0] = v /\ \A n \in 1..m : n <= k => g[n] = step[n][g[n - 1]]
           T == {k \in Nat : \E g \in [0..m -> V] : Upto(k, g)}
<1>1. 0 \in T
  <2> DEFINE g == [n \in 0..m |-> v]
  <2>1. g \in [0..m -> V]
    OBVIOUS
  <2>2. g[0] = v
    BY Predecessors
  <2>3. \A n \in 1..m : ~(n <= 0)
    OBVIOUS
  <2> HIDE DEF g
  <2> QED BY <2>1, <2>2, <2>3
<1>2. ASSUME NEW k \in Nat, k \in T PROVE k + 1 \in T
  <2>1. PICK g \in [0..m -> V] : Upto(k, g)
    BY <1>2
  <2>2. CASE k + 1 \notin 1..m
    <3>1. \A n \in 1..m : n <= k + 1 => n <= k
      BY <2>2
    <3>2. Upto(k + 1, g)
      BY <2>1, <3>1
    <3> HIDE DEF Upto
    <3> QED BY <3>2
  <2>3. CASE k + 1 \in 1..m
    <3> DEFINE w == step[k + 1][g[k]]
               h == [g EXCEPT ![k + 1] = w]
    <3>1. k \in 0..m /\ g[k] \in V /\ k + 1 \in 0..m /\ k + 1 # 0 /\ (k + 1) - 1 = k
      BY <2>3
    <3>2. w \in V
      <4>1. step[k + 1] \in [V -> V]
        BY <2>3
      <4> QED BY <3>1, <4>1
    <3> HIDE DEF w
    <3>3. h \in [0..m -> V]
      BY <3>1, <3>2
    <3>4. \A n \in 0..m : h[n] = IF n = k + 1 THEN w ELSE g[n]
      OBVIOUS
    <3> HIDE DEF h
    <3>5. h[0] = v
      BY <2>1, <3>1, <3>4, Predecessors
    <3>6. ASSUME NEW n \in 1..m, n <= k + 1 PROVE h[n] = step[n][h[n - 1]]
      <4>1. n \in 0..m /\ n - 1 \in 0..m /\ n - 1 # k + 1
        BY <3>6
      <4>2. h[n - 1] = g[n - 1]
        BY <3>4, <4>1
      <4>3. CASE n = k + 1
        <5>1. h[n] = w /\ n - 1 = k
          BY <3>4, <4>1, <4>3
        <5> QED BY <4>2, <4>3, <5>1 DEF w
      <4>4. CASE n # k + 1
        <5>1. n <= k /\ h[n] = g[n]
          BY <3>4, <3>6, <4>1, <4>4
        <5> QED BY <2>1, <4>2, <5>1
      <4> QED BY <4>3, <4>4
    <3>7. Upto(k + 1, h)
      BY <3>5, <3>6
    <3> HIDE DEF Upto
    <3> QED BY <3>3, <3>7
  <2> QED BY <2>2, <2>3
<1>3. Nat \subseteq T
  <2> HIDE DEF T
  <2> QED BY <1>1, <1>2, NatSetInduction
<1>4. PICK g \in [0..m -> V] : Upto(m, g)
  BY <1>3
<1>5. ASSUME NEW n \in 0..m PROVE g[n] = IF n = 0 THEN v ELSE step[n][g[n - 1]]
  <2>1. n # 0 => n \in 1..m /\ n <= m
    OBVIOUS
  <2> QED BY <1>4, <2>1
<1>6. g = [n \in 0..m |-> IF n = 0 THEN v ELSE step[n][g[n - 1]]]
  BY <1>5
<1> QED BY <1>6 DEF Recursion

(* Whatever starts in V, and goes by such steps while it is in V, stays    *)
(* there.                                                                  *)
LEMMA RecursionStays ==
  ASSUME NEW m \in Nat, NEW V, NEW step \in [1..m -> [V -> V]], NEW g,
         g[0] \in V, \A n \in 1..m : g[n - 1] \in V => g[n] = step[n][g[n - 1]]
  PROVE  \A n \in 0..m : g[n] \in V
<1> DEFINE T == {n \in Nat : n \in 0..m => g[n] \in V}
<1>1. 0 \in T
  OBVIOUS
<1>2. ASSUME NEW n \in Nat, n \in T PROVE n + 1 \in T
  <2> SUFFICES ASSUME n + 1 \in 0..m PROVE g[n + 1] \in V
    OBVIOUS
  <2>1. n \in 0..m /\ n + 1 \in 1..m /\ (n + 1) - 1 = n
    OBVIOUS
  <2>2. g[n] \in V
    BY <1>2, <2>1
  <2>3. g[n + 1] = step[n + 1][g[n]]
    BY <2>1, <2>2
  <2>4. step[n + 1] \in [V -> V]
    BY <2>1
  <2> QED BY <2>2, <2>3, <2>4
<1>3. Nat \subseteq T
  <2> HIDE DEF T
  <2> QED BY <1>1, <1>2, NatSetInduction
<1> QED BY <1>3

(* A step that looks at the values of a function at smaller numbers only.   *)
LooksBack(m, V, step) ==
  \A n \in 1..m : \A f, g \in [1..m -> V] :
    (\A k \in 1..n - 1 : f[k] = g[k]) => step[n][f] = step[n][g]

Follows(m, step, f) == \A n \in 1..m : f[n] = step[n][f]

(* The function such a step defines. *)
LEMMA CourseOfValues ==
  ASSUME NEW m \in Nat, NEW V, NEW v \in V, NEW step \in [1..m -> [[1..m -> V] -> V]],
         LooksBack(m, V, step)
  PROVE  \E f \in [1..m -> V] : Follows(m, step, f)
<1> DEFINE F == [1..m -> V]
           Upto(k, f) == \A n \in 1..m : n <= k => f[n] = step[n][f]
           T == {k \in Nat : \E f \in F : Upto(k, f)}
<1>1. 0 \in T
  <2>1. [n \in 1..m |-> v] \in F
    OBVIOUS
  <2>2. \A n \in 1..m : ~(n <= 0)
    OBVIOUS
  <2> HIDE DEF F
  <2> QED BY <2>1, <2>2
<1>2. ASSUME NEW k \in Nat, k \in T PROVE k + 1 \in T
  <2>1. PICK f \in F : Upto(k, f)
    BY <1>2
  <2>2. CASE k + 1 \notin 1..m
    <3>1. Upto(k + 1, f)
      BY <2>1, <2>2
    <3> HIDE DEF Upto
    <3> QED BY <3>1
  <2>3. CASE k + 1 \in 1..m
    <3> DEFINE w == step[k + 1][f]
               h == [f EXCEPT ![k + 1] = w]
    <3>1. w \in V
      <4>1. step[k + 1] \in [F -> V]
        BY <2>3
      <4> QED BY <2>1, <4>1
    <3> HIDE DEF w
    <3>2. h \in F /\ \A n \in 1..m : h[n] = IF n = k + 1 THEN w ELSE f[n]
      BY <3>1
    <3> HIDE DEF h
    <3>3. ASSUME NEW n \in 1..m, n <= k + 1 PROVE h[n] = step[n][h]
      <4>1. \A j \in 1..n - 1 : h[j] = f[j]
        BY <3>2, <3>3
      <4>2. step[n][h] = step[n][f]
        BY <2>1, <3>2, <4>1 DEF LooksBack
      <4>3. n = k + 1 \/ (n <= k /\ n # k + 1)
        BY <3>3
      <4> QED BY <2>1, <3>2, <4>2, <4>3 DEF w
    <3> HIDE DEF F
    <3> QED BY <3>2, <3>3
  <2> QED BY <2>2, <2>3
<1>3. Nat \subseteq T
  <2> HIDE DEF T
  <2> QED BY <1>1, <1>2, NatSetInduction
<1>4. PICK f \in F : Upto(m, f)
  BY <1>3
<1> QED BY <1>4 DEF Follows

=============================================================================
