--------------------------- MODULE TestRunnerProofs -------------------------
(***************************************************************************)
(* What the runner of TestRunner promises, proved for scripts of any size: *)
(* every test is reported exactly once, a script that ends with status 0   *)
(* has reported them all and no failure, both but for the blocks whose     *)
(* describe body calls run(), each execution reports exactly the statuses  *)
(* its declarations and its failing bodies call for, and the beforeAll and *)
(* afterAll hooks of a suite run once, around all that is in it.           *)
(***************************************************************************)
EXTENDS TestRunner, InductionLemmas, SequenceTheorems, FiniteSetTheorems

-----------------------------------------------------------------------------
(* Trees.                                                                  *)

Nodes ==
  [kind : {"suite", "test"}, parent : Nat, flag : Flags \cup {"todo", "threw"},
   hooks : [Kinds -> Nat]]

(* A node is declared after the suite it is in. *)
IsTree(tree) ==
  /\ tree \in Seq(Nodes) /\ Len(tree) >= 1
  /\ tree[Root].kind = "suite" /\ tree[Root].parent = 0
  /\ \A n \in 2..Len(tree) : tree[n].parent \in 1..n - 1 /\ tree[tree[n].parent].kind = "suite"

LEMMA TreeFacts ==
  ASSUME NEW tree, IsTree(tree)
  PROVE  /\ Len(tree) \in Nat /\ DOMAIN tree = 1..Len(tree) /\ Root \in DOMAIN tree
         /\ \A n \in DOMAIN tree : tree[n] \in Nodes /\ n \in Nat
         /\ \A n \in DOMAIN tree \ {Root} :
              /\ tree[n].parent \in DOMAIN tree /\ tree[n].parent < n
              /\ tree[n].parent \in 1..n - 1
              /\ tree[tree[n].parent].kind = "suite"
         /\ Suites(tree) \subseteq DOMAIN tree /\ Tests(tree) \subseteq DOMAIN tree
         /\ Suites(tree) \cup Tests(tree) = DOMAIN tree
         /\ \A n \in Tests(tree) : tree[n].kind = "test" /\ n # Root
         /\ Root \in Suites(tree)
<1>1. Len(tree) \in Nat /\ DOMAIN tree = 1..Len(tree) /\ \A n \in 1..Len(tree) : tree[n] \in Nodes
  BY LenProperties DEF IsTree
<1>2. Root \in DOMAIN tree
  BY <1>1 DEF IsTree, Root
<1>3. \A n \in DOMAIN tree \ {Root} : n \in 2..Len(tree)
  BY <1>1 DEF Root
<1>4. \A n \in DOMAIN tree \ {Root} : /\ tree[n].parent \in DOMAIN tree /\ tree[n].parent < n
                                     /\ tree[n].parent \in 1..n - 1
                                     /\ tree[tree[n].parent].kind = "suite"
  BY <1>1, <1>3 DEF IsTree
<1>5. \A n \in DOMAIN tree : tree[n].kind \in {"suite", "test"}
  BY <1>1 DEF Nodes
<1> QED BY <1>1, <1>2, <1>4, <1>5 DEF Suites, Tests, IsTree

(* A set that holds the root and, with its parent, every other node, holds   *)
(* them all.                                                               *)
LEMMA TreeInduction ==
  ASSUME NEW tree, IsTree(tree), NEW T, Root \in T,
         \A n \in DOMAIN tree \ {Root} : tree[n].parent \in T => n \in T
  PROVE  DOMAIN tree \subseteq T
<1> DEFINE U == {k \in Nat : \A n \in 1..k : n \in DOMAIN tree => n \in T}
<1>1. 0 \in U
  OBVIOUS
<1>2. ASSUME NEW k \in Nat, k \in U PROVE k + 1 \in U
  <2> SUFFICES ASSUME NEW n \in 1..k + 1, n \in DOMAIN tree PROVE n \in T
    OBVIOUS
  <2>1. CASE n = Root
    BY <2>1
  <2>2. CASE n # Root
    <3>1. tree[n].parent \in 1..n - 1 /\ tree[n].parent \in DOMAIN tree
      BY <2>2, TreeFacts, Zenon
    <3>2. tree[n].parent \in 1..k
      BY <3>1
    <3> QED BY <1>2, <2>2, <3>1, <3>2
  <2> QED BY <2>1, <2>2
<1>3. Nat \subseteq U
  <2> HIDE DEF U
  <2> QED BY <1>1, <1>2, NatSetInduction
<1>4. \A n \in DOMAIN tree : n \in Nat /\ n \in 1..n
  <2>1. DOMAIN tree = 1..Len(tree) /\ Len(tree) \in Nat
    BY TreeFacts
  <2> QED BY <2>1
<1> QED BY <1>3, <1>4

(* The recursion that Chain is defined by has a solution. *)
LEMMA ChainStep ==
  ASSUME NEW tree, IsTree(tree)
  PROVE  /\ Chain(tree, Root) = <<Root>>
         /\ \A n \in DOMAIN tree \ {Root} :
              Chain(tree, n) = Append(Chain(tree, tree[n].parent), n)
         /\ \A n \in DOMAIN tree : Chain(tree, n) \in Seq(Nat)
<1> DEFINE m == Len(tree)
           F == [1..m -> Seq(Nat)]
           at(n, f) == IF n = Root THEN <<Root>> ELSE Append(f[tree[n].parent], n)
           step == [n \in 1..m |-> [f \in F |-> at(n, f)]]
           Up(up) == up = [n \in DOMAIN tree |-> IF n = Root THEN <<Root>>
                                                 ELSE Append(up[tree[n].parent], n)]
<1>1. m \in Nat /\ DOMAIN tree = 1..m /\ Root \in 1..m /\ \A n \in 1..m : n \in Nat
  BY TreeFacts
<1>2. \A n \in 1..m : n # Root => tree[n].parent \in 1..m /\ tree[n].parent \in 1..n - 1
  BY TreeFacts
<1> HIDE DEF m
<1>3. <<>> \in Seq(Nat) /\ <<Root>> \in Seq(Nat)
  BY EmptySeq DEF Root
<1>4. \A n \in 1..m : \A f \in F : at(n, f) \in Seq(Nat)
  <2> SUFFICES ASSUME NEW n \in 1..m, NEW f \in F PROVE at(n, f) \in Seq(Nat)
    OBVIOUS
  <2>1. n # Root => f[tree[n].parent] \in Seq(Nat)
    BY <1>2
  <2> QED BY <1>1, <1>3, <2>1
<1>5. step \in [1..m -> [F -> Seq(Nat)]] /\ \A n \in 1..m : \A f \in F : step[n][f] = at(n, f)
  BY <1>4
<1>6. \A n \in 1..m : \A f, g \in F : (\A k \in 1..n - 1 : f[k] = g[k]) => at(n, f) = at(n, g)
  BY <1>2
<1> HIDE DEF step, at
<1>7. ASSUME NEW n \in 1..m, NEW f \in F, NEW g \in F, \A k \in 1..n - 1 : f[k] = g[k]
      PROVE  step[n][f] = step[n][g]
  <2> HIDE DEF F
  <2>1. step[n][f] = at(n, f) /\ step[n][g] = at(n, g)
    BY <1>5
  <2>2. at(n, f) = at(n, g)
    BY <1>6, <1>7
  <2> QED BY <2>1, <2>2
<1>8. PICK up \in F : \A n \in 1..m : up[n] = step[n][up]
  <2> DEFINE V == Seq(Nat)
  <2>1. step \in [1..m -> [[1..m -> V] -> V]]
    BY <1>5
  <2>2. LooksBack(m, V, step)
    BY <1>7 DEF LooksBack
  <2>3. <<>> \in V /\ m \in Nat
    BY <1>1, <1>3
  <2> HIDE DEF V, F
  <2>4. \E f \in [1..m -> V] : Follows(m, step, f)
    BY <2>1, <2>2, <2>3, CourseOfValues
  <2> QED BY <2>4 DEF V, F, Follows
<1>9. Up(up)
  <2>1. \A n \in 1..m : up[n] = at(n, up)
    BY <1>5, <1>8
  <2> QED BY <1>1, <2>1 DEF at
<1>10. Up(CHOOSE u : Up(u))
  <2> HIDE DEF Up
  <2> QED BY <1>9
<1> DEFINE c == CHOOSE u : Up(u)
<1>11. \A n \in DOMAIN tree : Chain(tree, n) = c[n]
  BY DEF Chain
<1> HIDE DEF c
<1>12. \A n \in DOMAIN tree : c[n] = IF n = Root THEN <<Root>> ELSE Append(c[tree[n].parent], n)
  BY <1>10 DEF c
<1>13. /\ Chain(tree, Root) = <<Root>>
       /\ \A n \in DOMAIN tree \ {Root} : Chain(tree, n) = Append(Chain(tree, tree[n].parent), n)
  BY <1>1, <1>2, <1>11, <1>12
<1>14. DOMAIN tree \subseteq {n \in DOMAIN tree : Chain(tree, n) \in Seq(Nat)}
  <2> DEFINE T == {n \in DOMAIN tree : Chain(tree, n) \in Seq(Nat)}
  <2>1. Root \in T
    BY <1>1, <1>3, <1>13
  <2>2. ASSUME NEW n \in DOMAIN tree \ {Root}, tree[n].parent \in T PROVE n \in T
    <3>1. Chain(tree, tree[n].parent) \in Seq(Nat) /\ n \in Nat
      BY <1>1, <2>2
    <3>2. Append(Chain(tree, tree[n].parent), n) \in Seq(Nat)
      BY <3>1
    <3> QED BY <1>13, <3>2
  <2> HIDE DEF T
  <2>3. DOMAIN tree \subseteq T
    BY <2>1, <2>2, TreeInduction
  <2> QED BY <2>3 DEF T
<1> QED BY <1>13, <1>14

(* The nodes from the root to n. *)
Path(tree, n) == ToSet(Chain(tree, n))

LEMMA PathStep ==
  ASSUME NEW tree, IsTree(tree)
  PROVE  /\ Path(tree, Root) = {Root}
         /\ \A n \in DOMAIN tree \ {Root} :
              Path(tree, n) = Path(tree, tree[n].parent) \cup {n}
<1>1. Path(tree, Root) = {Root}
  <2>1. ToSet(<<Root>>) = {Root}
    BY DEF ToSet
  <2> QED BY <2>1, ChainStep DEF Path
<1>2. ASSUME NEW n \in DOMAIN tree \ {Root}
      PROVE  Path(tree, n) = Path(tree, tree[n].parent) \cup {n}
  <2> DEFINE c == Chain(tree, tree[n].parent)
  <2>1. c \in Seq(Nat) /\ n \in Nat /\ Chain(tree, n) = Append(c, n)
    BY ChainStep, TreeFacts, Zenon
  <2> HIDE DEF c
  <2>2. ToSet(Append(c, n)) = ToSet(c) \cup {n}
    BY <2>1, AppendProperties DEF ToSet
  <2> QED BY <2>1, <2>2 DEF Path, c
<1> QED BY <1>1, <1>2

LEMMA PathFacts ==
  ASSUME NEW tree, IsTree(tree)
  PROVE  \A n \in DOMAIN tree :
           /\ Root \in Path(tree, n) /\ n \in Path(tree, n)
           /\ Path(tree, n) \subseteq 1..n /\ Path(tree, n) \subseteq DOMAIN tree
           /\ Path(tree, n) \ {n} \subseteq Suites(tree)
<1> DEFINE Ok(n) == /\ Root \in Path(tree, n) /\ n \in Path(tree, n)
                    /\ Path(tree, n) \subseteq 1..n /\ Path(tree, n) \subseteq DOMAIN tree
                    /\ Path(tree, n) \ {n} \subseteq Suites(tree)
           T == {n \in DOMAIN tree : Ok(n)}
<1>1. Root \in T
  <2>1. Path(tree, Root) = {Root} /\ Root \in DOMAIN tree
    BY PathStep, TreeFacts
  <2>2. Root \in 1..Root
    BY DEF Root
  <2> QED BY <2>1, <2>2
<1>2. ASSUME NEW n \in DOMAIN tree \ {Root}, tree[n].parent \in T PROVE n \in T
  <2>1. Ok(tree[n].parent)
    BY <1>2
  <2>2. Path(tree, n) = Path(tree, tree[n].parent) \cup {n}
    BY PathStep
  <2>3. tree[n].parent \in 1..n - 1 /\ tree[n].parent \in Suites(tree) /\ n \in Nat
    BY TreeFacts DEF Suites
  <2>4. 1..tree[n].parent \subseteq 1..n /\ n \in 1..n
    BY <2>3
  <2> QED BY <2>1, <2>2, <2>3, <2>4
<1> HIDE DEF T
<1>3. DOMAIN tree \subseteq T
  BY <1>1, <1>2, TreeInduction
<1> QED BY <1>3 DEF T

(* The block of the root that a node is in. *)
LEMMA TopStep ==
  ASSUME NEW tree, IsTree(tree)
  PROVE  \A n \in DOMAIN tree \ {Root} :
           TopOf(tree, n) = IF tree[n].parent = Root THEN n ELSE TopOf(tree, tree[n].parent)
<1> DEFINE T == {n \in DOMAIN tree : n # Root => Len(Chain(tree, n)) >= 2}
<1>0. Len(Chain(tree, Root)) = 1 /\ Chain(tree, Root) = <<Root>>
  BY ChainStep
<1>1. Root \in T
  BY TreeFacts
<1>2. ASSUME NEW n \in DOMAIN tree \ {Root}, tree[n].parent \in T PROVE n \in T
  <2> DEFINE c == Chain(tree, tree[n].parent)
  <2>1. c \in Seq(Nat) /\ n \in Nat /\ Chain(tree, n) = Append(c, n)
    BY ChainStep, TreeFacts, Zenon
  <2>2. Len(c) >= 1
    <3>1. CASE tree[n].parent = Root
      <4>1. c = <<Root>>
        BY <1>0, <3>1
      <4> HIDE DEF c
      <4> QED BY <4>1
    <3>2. CASE tree[n].parent # Root
      <4>1. Len(c) >= 2
        BY <1>2, <3>2
      <4> HIDE DEF c
      <4> QED BY <2>1, <4>1, LenProperties
    <3> QED BY <3>1, <3>2
  <2> HIDE DEF c
  <2>3. Len(Append(c, n)) >= 2
    BY <2>1, <2>2
  <2> QED BY <2>1, <2>3
<1> HIDE DEF T
<1>3. DOMAIN tree \subseteq T
  BY <1>1, <1>2, TreeInduction
<1>4. ASSUME NEW n \in DOMAIN tree \ {Root}
      PROVE  TopOf(tree, n) = IF tree[n].parent = Root THEN n ELSE TopOf(tree, tree[n].parent)
  <2> DEFINE c == Chain(tree, tree[n].parent)
  <2>1. c \in Seq(Nat) /\ n \in Nat /\ Chain(tree, n) = Append(c, n)
    BY ChainStep, TreeFacts, Zenon
  <2>2. tree[n].parent \in DOMAIN tree
    BY TreeFacts
  <2>3. CASE tree[n].parent = Root
    <3>1. c = <<Root>>
      BY <1>0, <2>3
    <3>2. Append(<<Root>>, n)[2] = n
      OBVIOUS
    <3> QED BY <2>1, <2>3, <3>1, <3>2 DEF TopOf
  <2>4. CASE tree[n].parent # Root
    <3>1. Len(c) >= 2
      BY <1>3, <2>2, <2>4 DEF T
    <3> HIDE DEF c
    <3>2. Append(c, n)[2] = c[2]
      BY <2>1, <3>1
    <3> QED BY <2>1, <2>4, <3>2 DEF TopOf, c
  <2> QED BY <2>3, <2>4
<1> QED BY <1>4

LEMMA TopFacts ==
  ASSUME NEW tree, IsTree(tree)
  PROVE  \A n \in DOMAIN tree \ {Root} :
           /\ TopOf(tree, n) \in DOMAIN tree \ {Root} /\ TopOf(tree, n) \in Path(tree, n)
           /\ tree[TopOf(tree, n)].parent = Root
           /\ \A c \in Path(tree, n) \ {Root} : tree[c].parent = Root => c = TopOf(tree, n)
<1> DEFINE Ok(n) == /\ TopOf(tree, n) \in DOMAIN tree \ {Root} /\ TopOf(tree, n) \in Path(tree, n)
                    /\ tree[TopOf(tree, n)].parent = Root
                    /\ \A c \in Path(tree, n) \ {Root} :
                         tree[c].parent = Root => c = TopOf(tree, n)
           T == {n \in DOMAIN tree : n # Root => Ok(n)}
<1>1. Root \in T
  BY TreeFacts
<1>2. ASSUME NEW n \in DOMAIN tree \ {Root}, tree[n].parent \in T PROVE n \in T
  <2>1. /\ Path(tree, n) = Path(tree, tree[n].parent) \cup {n}
        /\ TopOf(tree, n) = IF tree[n].parent = Root THEN n ELSE TopOf(tree, tree[n].parent)
    BY PathStep, TopStep
  <2>2. CASE tree[n].parent = Root
    <3>1. Path(tree, n) = {Root, n}
      BY <2>1, <2>2, PathStep
    <3> QED BY <2>1, <2>2, <3>1
  <2>3. CASE tree[n].parent # Root
    <3>1. Ok(tree[n].parent)
      BY <1>2, <2>3
    <3> QED BY <2>1, <2>3, <3>1
  <2> QED BY <2>2, <2>3
<1> HIDE DEF T
<1>3. DOMAIN tree \subseteq T
  BY <1>1, <1>2, TreeInduction
<1> QED BY <1>3 DEF T

LEMMA PathTransitive ==
  ASSUME NEW tree, IsTree(tree)
  PROVE  \A n \in DOMAIN tree : \A c \in Path(tree, n) : Path(tree, c) \subseteq Path(tree, n)
<1> DEFINE T == {n \in DOMAIN tree : \A c \in Path(tree, n) : Path(tree, c) \subseteq Path(tree, n)}
<1>1. Root \in T
  BY PathStep, TreeFacts
<1>2. \A n \in DOMAIN tree \ {Root} : tree[n].parent \in T => n \in T
  BY PathStep
<1> HIDE DEF T
<1>3. DOMAIN tree \subseteq T
  BY <1>1, <1>2, TreeInduction
<1> QED BY <1>3 DEF T

(* A path goes through one child of each suite on it. *)
LEMMA PathForks ==
  ASSUME NEW tree, IsTree(tree)
  PROVE  \A n \in DOMAIN tree : \A c, d \in Path(tree, n) \ {Root} :
           tree[c].parent = tree[d].parent => c = d
<1> DEFINE Ok(n) == \A c, d \in Path(tree, n) \ {Root} : tree[c].parent = tree[d].parent => c = d
           T == {n \in DOMAIN tree : Ok(n)}
<1>1. Root \in T
  BY PathStep, TreeFacts
<1>2. ASSUME NEW n \in DOMAIN tree \ {Root}, tree[n].parent \in T PROVE n \in T
  <2> DEFINE p == tree[n].parent
  <2>1. p \in DOMAIN tree /\ Path(tree, n) = Path(tree, p) \cup {n} /\ Ok(p)
    BY <1>2, PathStep, TreeFacts
  <2>2. ASSUME NEW d \in Path(tree, p) \ {Root} PROVE tree[d].parent # p
    <3>1. d \in 1..p /\ d \in DOMAIN tree
      BY <2>1, PathFacts
    <3>2. tree[d].parent \in 1..d - 1 /\ d \in Nat /\ p \in Nat
      BY <2>1, <3>1, TreeFacts, Zenon
    <3> QED BY <3>1, <3>2
  <2> QED BY <2>1, <2>2
<1> HIDE DEF T
<1>3. DOMAIN tree \subseteq T
  BY <1>1, <1>2, TreeInduction
<1> QED BY <1>3 DEF T

-----------------------------------------------------------------------------
(* What one execution works on.                                            *)

Env(e) ==
  /\ IsTree(e.tree)
  /\ \A n \in e.top : n \in DOMAIN e.tree \ {Root} /\ e.tree[n].parent = Root

(* The nodes of an execution that s holds, itself among them. *)
Below(e, s) ==
  {n \in DOMAIN e.tree :
    /\ s \in Path(e.tree, n)
    /\ s = Root => n = Root \/ TopOf(e.tree, n) \in e.top}

LEMMA BelowParts ==
  ASSUME NEW e, Env(e), NEW s \in Suites(e.tree)
  PROVE  /\ s \in Below(e, s)
         /\ \A n \in Below(e, s) \ {s} : \E c \in Children(s, e) : n \in Below(e, c)
<1> DEFINE tree == e.tree
           T == {n \in DOMAIN tree : n \in Below(e, s) \ {s} => \E c \in Children(s, e) : n \in Below(e, c)}
<1>0. IsTree(tree) /\ s \in DOMAIN tree
  BY TreeFacts DEF Env
<1>1. s \in Below(e, s)
  BY <1>0, PathFacts DEF Below
<1>2. Root \in T
  <2>1. Path(tree, Root) = {Root} /\ Root \in DOMAIN tree
    BY <1>0, PathStep, TreeFacts
  <2> QED BY <2>1 DEF Below
<1>3. ASSUME NEW n \in DOMAIN tree \ {Root}, tree[n].parent \in T PROVE n \in T
  <2> DEFINE p == tree[n].parent
  <2> SUFFICES ASSUME n \in Below(e, s) \ {s} PROVE \E c \in Children(s, e) : n \in Below(e, c)
    OBVIOUS
  <2>1. /\ p \in DOMAIN tree /\ Path(tree, n) = Path(tree, p) \cup {n} /\ n \in Path(tree, n)
        /\ TopOf(tree, n) = IF p = Root THEN n ELSE TopOf(tree, p)
    <3>1. p \in DOMAIN tree
      BY <1>0, TreeFacts
    <3>2. Path(tree, n) = Path(tree, p) \cup {n}
      BY <1>0, PathStep
    <3>3. TopOf(tree, n) = IF p = Root THEN n ELSE TopOf(tree, p)
      BY <1>0, TopStep
    <3> QED BY <3>1, <3>2, <3>3
  <2>2. s \in Path(tree, p) /\ (s = Root => TopOf(tree, n) \in e.top)
    BY <2>1 DEF Below
  <2>3. CASE p = s
    <3>1. n \in Children(s, e)
      BY <2>1, <2>2, <2>3 DEF Children
    <3>2. n \in Below(e, n)
      BY <2>1 DEF Below
    <3> QED BY <3>1, <3>2
  <2>4. CASE p # s
    <3>1. p \in Below(e, s) \ {s}
      BY <2>1, <2>2, <2>4 DEF Below
    <3>2. PICK c \in Children(s, e) : p \in Below(e, c)
      BY <1>3, <3>1
    <3>3. c # Root
      <4>1. s # 0 /\ tree[Root].parent = 0
        BY <1>0, TreeFacts DEF IsTree
      <4> QED BY <4>1 DEF Children
    <3>4. n \in Below(e, c)
      BY <2>1, <3>2, <3>3 DEF Below
    <3> QED BY <3>2, <3>4
  <2> QED BY <2>3, <2>4
<1> HIDE DEF T
<1>4. DOMAIN tree \subseteq T
  BY <1>0, <1>2, <1>3, TreeInduction
<1> QED BY <1>1, <1>4 DEF T, Below

LEMMA BelowChildren ==
  ASSUME NEW e, Env(e), NEW s \in Suites(e.tree), NEW c \in Children(s, e)
  PROVE  /\ c \in DOMAIN e.tree \ {Root} /\ e.tree[c].parent = s /\ s < c
         /\ Below(e, c) \subseteq Below(e, s) /\ s \notin Below(e, c)
         /\ \A d \in Children(s, e) : c # d => Below(e, c) \cap Below(e, d) = {}
<1> DEFINE tree == e.tree
<1>1. IsTree(tree) /\ s \in DOMAIN tree /\ s \in Nat /\ s # 0
  <2>1. IsTree(tree) /\ s \in DOMAIN tree /\ s \in Nat /\ DOMAIN tree = 1..Len(tree)
    BY TreeFacts DEF Env
  <2> QED BY <2>1
<1>2. \A d \in Children(s, e) : d \in DOMAIN tree \ {Root} /\ tree[d].parent = s
  BY <1>1 DEF Children, IsTree
<1>3. s < c /\ s \in Path(tree, c)
  <2>1. c \in DOMAIN tree \ {Root} /\ tree[c].parent = s
    BY <1>2
  <2>2. s < c
    BY <1>1, <2>1, TreeFacts
  <2>3. s \in Path(tree, s) /\ Path(tree, c) = Path(tree, s) \cup {c}
    BY <1>1, <2>1, PathStep, PathFacts
  <2> QED BY <2>2, <2>3
<1>4. Below(e, c) \subseteq Below(e, s)
  <2> SUFFICES ASSUME NEW n \in Below(e, c) PROVE n \in Below(e, s)
    OBVIOUS
  <2>1. n \in DOMAIN tree /\ c \in Path(tree, n)
    BY DEF Below
  <2>2. s \in Path(tree, n)
    BY <1>1, <1>3, <2>1, PathTransitive
  <2>3. CASE s = Root
    <3>1. n # Root
      BY <1>1, <1>2, <2>1, PathStep
    <3>2. c = TopOf(tree, n)
      BY <1>1, <1>2, <2>1, <2>3, <3>1, TopFacts
    <3> QED BY <2>1, <2>2, <3>2 DEF Below, Children
  <2> QED BY <2>1, <2>2, <2>3 DEF Below
<1>5. s \notin Below(e, c)
  <2>1. s \in Below(e, c) => c \in 1..s
    BY <1>1, PathFacts DEF Below
  <2> QED BY <1>1, <1>3, <2>1
<1>6. ASSUME NEW d \in Children(s, e), NEW n \in Below(e, c) \cap Below(e, d) PROVE c = d
  <2>1. n \in DOMAIN tree /\ c \in Path(tree, n) \ {Root} /\ d \in Path(tree, n) \ {Root}
    BY <1>2 DEF Below
  <2> QED BY <1>1, <1>2, <2>1, PathForks
<1> QED BY <1>2, <1>3, <1>4, <1>5, <1>6

(* A test holds itself only. *)
LEMMA BelowTest ==
  ASSUME NEW e, Env(e), NEW t \in Tests(e.tree)
  PROVE  Below(e, t) = {t}
<1> DEFINE tree == e.tree
<1>1. IsTree(tree) /\ t \in DOMAIN tree \ {Root} /\ t \notin Suites(tree)
  BY TreeFacts DEF Env, Tests
<1>2. \A n \in DOMAIN tree : t \in Path(tree, n) => n = t
  BY <1>1, PathFacts
<1> QED BY <1>1, <1>2, PathFacts DEF Below

-----------------------------------------------------------------------------
(* Outcomes, and what a part of an execution reports.                      *)

Attempts == [node : Nat, kind : Kinds \cup {"body"}, nth : Nat]
Reported == [node : Nat, status : {"pass", "fail", "skip", "todo"}]
Outcomes == [results : Seq(Reported), log : Seq(Attempts), only : BOOLEAN]

(* The results rs are among X and about nodes of N, each of them at most once, *)
(* and those of T among them exactly once.                                  *)
Lists(rs, N, T, X) ==
  /\ rs \in Seq(X)
  /\ \A i \in 1..Len(rs) : rs[i].node \in N
  /\ \A i, j \in 1..Len(rs) : rs[i].node = rs[j].node => i = j
  /\ \A t \in T \cap N : \E i \in 1..Len(rs) : rs[i].node = t

LEMMA NothingLists ==
  ASSUME NEW only \in BOOLEAN
  PROVE  /\ Nothing(only) \in Outcomes /\ Nothing(only).only = only
         /\ \A T, X : Lists(Nothing(only).results, {}, T, X)
BY EmptySeq DEF Nothing, Outcomes, Lists

LEMMA ListsNone ==
  ASSUME NEW N, NEW T, NEW X, T \cap N = {}
  PROVE  Lists(<<>>, N, T, X)
BY EmptySeq DEF Lists

LEMMA RecordLists ==
  ASSUME NEW n \in Nat, NEW status \in {"pass", "fail", "skip", "todo"}, NEW only \in BOOLEAN
  PROVE  /\ record(n, status, only) \in Outcomes /\ record(n, status, only).only = only
         /\ \A T, X : [node |-> n, status |-> status] \in X
                        => Lists(record(n, status, only).results, {n}, T, X)
<1> DEFINE r == [node |-> n, status |-> status]
<1>1. r \in Reported /\ r.node = n
  BY DEF Reported
<1>2. record(n, status, only) = [results |-> <<r>>, log |-> <<>>, only |-> only]
  BY DEF record
<1> HIDE DEF r
<1>3. <<r>> \in Seq(Reported) /\ Len(<<r>>) = 1 /\ <<r>>[1] = r
  BY <1>1
<1>4. record(n, status, only) \in Outcomes /\ record(n, status, only).only = only
  BY <1>2, <1>3, EmptySeq DEF Outcomes
<1>5. ASSUME NEW T, NEW X, r \in X PROVE Lists(<<r>>, {n}, T, X)
  <2>1. <<r>> \in Seq(X)
    BY <1>5
  <2>2. \A i \in 1..1 : i = 1
    OBVIOUS
  <2> QED BY <1>1, <1>3, <2>1, <2>2 DEF Lists
<1>6. record(n, status, only).results = <<r>>
  BY <1>2
<1> QED BY <1>4, <1>5, <1>6 DEF r

LEMMA ThenIs ==
  ASSUME NEW o \in Outcomes, NEW p \in Outcomes
  PROVE  /\ Then(o, p) \in Outcomes /\ Then(o, p).only = p.only
         /\ Then(o, p).results = o.results \o p.results
         /\ Then(o, p).log = o.log \o p.log
BY ConcatProperties DEF Then, Outcomes

LEMMA ListsJoin ==
  ASSUME NEW N, NEW M, NEW T, NEW X, N \cap M = {},
         NEW a, Lists(a, N, T, X), NEW b, Lists(b, M, T, X)
  PROVE  Lists(a \o b, N \cup M, T, X)
<1> DEFINE ab == a \o b
<1>1. /\ a \in Seq(X) /\ b \in Seq(X) /\ Len(a) \in Nat /\ Len(b) \in Nat
  BY LenProperties DEF Lists
<1>2. /\ ab \in Seq(X) /\ Len(ab) = Len(a) + Len(b)
      /\ \A i \in 1..Len(a) + Len(b) : ab[i] = IF i <= Len(a) THEN a[i] ELSE b[i - Len(a)]
  BY <1>1, ConcatProperties
<1> HIDE DEF ab
<1>3. \A i \in 1..Len(ab) : /\ i <= Len(a) => i \in 1..Len(a)
                            /\ ~(i <= Len(a)) => i - Len(a) \in 1..Len(b)
  BY <1>1, <1>2
<1>4. /\ \A i \in 1..Len(a) : a[i].node \in N
      /\ \A i \in 1..Len(b) : b[i].node \in M
      /\ \A i, j \in 1..Len(a) : a[i].node = a[j].node => i = j
      /\ \A i, j \in 1..Len(b) : b[i].node = b[j].node => i = j
      /\ \A t \in T \cap N : \E i \in 1..Len(a) : a[i].node = t
      /\ \A t \in T \cap M : \E i \in 1..Len(b) : b[i].node = t
  BY DEF Lists
<1>5. \A i \in 1..Len(ab) : ab[i].node \in IF i <= Len(a) THEN N ELSE M
  BY <1>2, <1>3, <1>4
<1>6. ASSUME NEW i \in 1..Len(ab), NEW j \in 1..Len(ab), ab[i].node = ab[j].node PROVE i = j
  <2>1. i <= Len(a) <=> j <= Len(a)
    BY <1>5, <1>6
  <2>2. CASE i <= Len(a)
    <3>1. ab[i] = a[i] /\ ab[j] = a[j] /\ i \in 1..Len(a) /\ j \in 1..Len(a)
      BY <1>2, <1>3, <2>1, <2>2
    <3> QED BY <1>4, <1>6, <3>1
  <2>3. CASE ~(i <= Len(a))
    <3>1. /\ ab[i] = b[i - Len(a)] /\ ab[j] = b[j - Len(a)]
          /\ i - Len(a) \in 1..Len(b) /\ j - Len(a) \in 1..Len(b)
      BY <1>2, <1>3, <2>1, <2>3
    <3>2. i - Len(a) = j - Len(a)
      BY <1>4, <1>6, <3>1
    <3> QED BY <1>1, <3>2
  <2> QED BY <2>2, <2>3
<1>7. ASSUME NEW t \in T \cap N PROVE \E i \in 1..Len(ab) : ab[i].node = t
  <2>1. PICK i \in 1..Len(a) : a[i].node = t
    BY <1>4
  <2>2. i \in 1..Len(ab) /\ ab[i] = a[i]
    BY <1>1, <1>2
  <2> QED BY <2>1, <2>2
<1>8. ASSUME NEW t \in T \cap M PROVE \E i \in 1..Len(ab) : ab[i].node = t
  <2>1. PICK i \in 1..Len(b) : b[i].node = t
    BY <1>4
  <2>2. /\ i + Len(a) \in 1..Len(a) + Len(b) /\ ~(i + Len(a) <= Len(a))
        /\ (i + Len(a)) - Len(a) = i
    BY <1>1
  <2> QED BY <1>2, <2>1, <2>2
<1>9. \A i \in 1..Len(ab) : ab[i].node \in N \cup M
  BY <1>5
<1>10. Lists(ab, N \cup M, T, X)
  BY <1>2, <1>6, <1>7, <1>8, <1>9 DEF Lists
<1> QED BY <1>10 DEF ab

(* What is listed of N is listed of a larger set that asks for no more. *)
LEMMA ListsWiden ==
  ASSUME NEW N, NEW M, NEW T, NEW X, N \subseteq M, T \cap M \subseteq N,
         NEW a, Lists(a, N, T, X)
  PROVE  Lists(a, M, T, X)
BY DEF Lists

-----------------------------------------------------------------------------
(* Children in turn.                                                       *)

Parts(e) == [DOMAIN e.tree -> [BOOLEAN -> Outcomes]]

LEMMA InTurnSteps ==
  ASSUME NEW e, Env(e), NEW S, NEW part \in Parts(e), NEW only \in BOOLEAN
  PROVE  \E done \in [0..Len(e.tree) -> Outcomes] :
           /\ done[0] = Nothing(only)
           /\ \A n \in 1..Len(e.tree) :
                done[n] = IF n \in S THEN Then(done[n - 1], part[n][done[n - 1].only])
                          ELSE done[n - 1]
           /\ InTurn(S, part, only, e) = done[Len(e.tree)]
<1> DEFINE m == Len(e.tree)
           V == Outcomes
           at(n, o) == IF n \in S THEN Then(o, part[n][o.only]) ELSE o
           step == [n \in 1..m |-> [o \in V |-> at(n, o)]]
           v == Nothing(only)
           Done(g) == g = [n \in 0..m |-> IF n = 0 THEN Nothing(only)
                             ELSE LET before == g[n - 1]
                                  IN IF n \in S THEN Then(before, part[n][before.only]) ELSE before]
<1>1. m \in Nat /\ DOMAIN e.tree = 1..m
  BY TreeFacts DEF Env
<1>2. v \in V
  BY NothingLists
<1>3. \A n \in 1..m : \A o \in V : at(n, o) \in V
  <2> SUFFICES ASSUME NEW n \in 1..m, NEW o \in V PROVE at(n, o) \in V
    OBVIOUS
  <2>1. o.only \in BOOLEAN
    BY DEF Outcomes
  <2>2. part[n][o.only] \in Outcomes
    BY <1>1, <2>1 DEF Parts
  <2> QED BY <2>2, ThenIs
<1>4. step \in [1..m -> [V -> V]] /\ \A n \in 1..m : \A o \in V : step[n][o] = at(n, o)
  BY <1>3
<1> HIDE DEF step, v, V
<1>5. PICK g \in [0..m -> V] : Recursion(m, v, step, g)
  BY <1>1, <1>2, <1>4, RecursionExists
<1>6. \A n \in 1..m : n \in 0..m /\ n - 1 \in 0..m /\ n # 0
  BY <1>1, Predecessors
<1>7. g = [n \in 0..m |-> IF n = 0 THEN v ELSE step[n][g[n - 1]]]
  BY <1>5 DEF Recursion
<1>8. ASSUME NEW n \in 0..m PROVE g[n] = IF n = 0 THEN v ELSE at(n, g[n - 1])
  <2>1. n # 0 => n \in 1..m
    BY <1>1
  <2> QED BY <1>4, <1>6, <1>7, <2>1
<1>9. Done(g)
  BY <1>5, <1>8 DEF v
<1> DEFINE d == CHOOSE h : Done(h)
<1>10. Done(d)
  <2> HIDE DEF Done
  <2> QED BY <1>9
<1>11. InTurn(S, part, only, e) = d[m]
  BY DEF InTurn
<1> HIDE DEF d
<1>12. d[0] = v /\ \A n \in 1..m : d[n] = at(n, d[n - 1])
  BY <1>1, <1>6, <1>10, Predecessors DEF v
<1> HIDE DEF at
<1>13. \A n \in 0..m : d[n] \in V
  <2>1. d[0] \in V
    BY <1>2, <1>12
  <2>2. \A n \in 1..m : d[n - 1] \in V => d[n] = step[n][d[n - 1]]
    BY <1>4, <1>12
  <2> HIDE DEF Done, m
  <2> QED BY <1>1, <1>4, <2>1, <2>2, RecursionStays
<1>14. d \in [0..m -> V]
  BY <1>10, <1>13
<1> QED BY <1>11, <1>12, <1>14 DEF v, V, at

LEMMA InTurnOutcome ==
  ASSUME NEW e, Env(e), NEW S, NEW part \in Parts(e), NEW only \in BOOLEAN
  PROVE  InTurn(S, part, only, e) \in Outcomes
<1>1. Len(e.tree) \in 0..Len(e.tree)
  <2>1. Len(e.tree) \in Nat
    BY TreeFacts DEF Env
  <2> QED BY <2>1
<1>2. PICK done \in [0..Len(e.tree) -> Outcomes] :
        /\ done[0] = Nothing(only)
        /\ \A n \in 1..Len(e.tree) :
             done[n] = IF n \in S THEN Then(done[n - 1], part[n][done[n - 1].only])
                       ELSE done[n - 1]
        /\ InTurn(S, part, only, e) = done[Len(e.tree)]
  BY InTurnSteps
<1> QED BY <1>1, <1>2

(* The nodes of S that have had their turn, with what is below them. *)
BelowUpTo(e, S, k) == UNION {Below(e, n) : n \in {c \in S : c <= k}}

(* Parts that list what is below their nodes list it all, one after another; *)
(* O is what usedOnly may be.                                               *)
LEMMA InTurnLists ==
  ASSUME NEW e, Env(e), NEW S, S \subseteq DOMAIN e.tree,
         NEW part \in Parts(e), NEW O, O \subseteq BOOLEAN, NEW only \in O,
         NEW T, NEW X,
         \A n \in S : \A o \in O : /\ part[n][o].only \in O
                                   /\ Lists(part[n][o].results, Below(e, n), T, X),
         \A c, d \in S : c # d => Below(e, c) \cap Below(e, d) = {}
  PROVE  /\ InTurn(S, part, only, e) \in Outcomes
         /\ InTurn(S, part, only, e).only \in O
         /\ Lists(InTurn(S, part, only, e).results, UNION {Below(e, n) : n \in S}, T, X)
<1> DEFINE m == Len(e.tree)
           B(k) == BelowUpTo(e, S, k)
<1>1. m \in Nat /\ DOMAIN e.tree = 1..m
  BY TreeFacts DEF Env
<1>2. PICK done \in [0..m -> Outcomes] :
        /\ done[0] = Nothing(only)
        /\ \A n \in 1..m : done[n] = IF n \in S THEN Then(done[n - 1], part[n][done[n - 1].only])
                                     ELSE done[n - 1]
        /\ InTurn(S, part, only, e) = done[m]
  BY InTurnSteps
<1> DEFINE Ok(k) == done[k].only \in O /\ Lists(done[k].results, B(k), T, X)
           K == {k \in Nat : k \in 0..m => Ok(k)}
<1>3. 0 \in K
  <2>1. B(0) = {}
    BY <1>1 DEF BelowUpTo
  <2>2. done[0].only = only /\ Lists(done[0].results, {}, T, X)
    BY <1>2, NothingLists
  <2> QED BY <2>1, <2>2
<1>4. ASSUME NEW k \in Nat, k \in K PROVE k + 1 \in K
  <2> DEFINE n == k + 1
             p == part[n][done[k].only]
  <2> SUFFICES ASSUME n \in 0..m PROVE Ok(n)
    OBVIOUS
  <2>1. n \in 1..m /\ n - 1 = k /\ k \in 0..m /\ n \in Nat
    BY <1>1
  <2>2. Ok(k)
    BY <1>4, <2>1
  <2>3. done[n] = IF n \in S THEN Then(done[k], p) ELSE done[k]
    BY <1>2, <2>1
  <2>4. \A c \in S : c <= n <=> (c <= k \/ c = n)
    BY <1>1, <2>1
  <2>5. CASE n \notin S
    <3>1. B(n) = B(k)
      BY <2>4, <2>5 DEF BelowUpTo
    <3> QED BY <2>2, <2>3, <2>5, <3>1
  <2>6. CASE n \in S
    <3>1. done[k].only \in O /\ done[k].only \in BOOLEAN /\ done[k] \in Outcomes
      BY <1>2, <2>1, <2>2
    <3>2. p \in Outcomes
      BY <1>1, <2>1, <3>1 DEF Parts
    <3>3. p.only \in O /\ Lists(p.results, Below(e, n), T, X)
      BY <2>6, <3>1
    <3>4. B(n) = B(k) \cup Below(e, n)
      BY <2>1, <2>4, <2>6 DEF BelowUpTo
    <3>5. B(k) \cap Below(e, n) = {}
      <4>1. \A c \in S : c <= k => c # n
        BY <2>1
      <4> QED BY <2>6, <4>1 DEF BelowUpTo
    <3> HIDE DEF p, n, B
    <3>6. done[n].only = p.only /\ done[n].results = done[k].results \o p.results
      BY <2>3, <2>6, <3>1, <3>2, ThenIs
    <3>7. Lists(done[k].results \o p.results, B(k) \cup Below(e, n), T, X)
      BY <2>2, <3>3, <3>5, ListsJoin
    <3> QED BY <3>3, <3>4, <3>6, <3>7
  <2> QED BY <2>5, <2>6
<1>5. Nat \subseteq K
  <2> HIDE DEF K
  <2> QED BY <1>3, <1>4, NatSetInduction
<1>6. Ok(m)
  BY <1>1, <1>5
<1>7. B(m) = UNION {Below(e, n) : n \in S}
  BY <1>1 DEF BelowUpTo
<1> QED BY <1>1, <1>2, <1>6, <1>7

(* The children of a suite: what is below it, but itself. *)
LEMMA ChildrenList ==
  ASSUME NEW e, Env(e), NEW s \in Suites(e.tree),
         NEW part \in Parts(e), NEW O, O \subseteq BOOLEAN, NEW only \in O,
         NEW T, NEW X,
         \A n \in Children(s, e) : \A o \in O :
           part[n][o].only \in O /\ Lists(part[n][o].results, Below(e, n), T, X)
  PROVE  /\ InTurn(Children(s, e), part, only, e) \in Outcomes
         /\ InTurn(Children(s, e), part, only, e).only \in O
         /\ Lists(InTurn(Children(s, e), part, only, e).results, Below(e, s) \ {s}, T, X)
<1> DEFINE S == Children(s, e)
<1>1. S \subseteq DOMAIN e.tree
  BY DEF Children
<1>2. \A c, d \in S : c # d => Below(e, c) \cap Below(e, d) = {}
  BY BelowChildren
<1>3. UNION {Below(e, n) : n \in S} = Below(e, s) \ {s}
  <2>1. \A c \in S : Below(e, c) \subseteq Below(e, s) \ {s}
    BY BelowChildren
  <2>2. \A n \in Below(e, s) \ {s} : \E c \in S : n \in Below(e, c)
    BY BelowParts
  <2> QED BY <2>1, <2>2
<1> HIDE DEF S
<1>4. /\ InTurn(S, part, only, e) \in Outcomes
      /\ InTurn(S, part, only, e).only \in O
      /\ Lists(InTurn(S, part, only, e).results, UNION {Below(e, n) : n \in S}, T, X)
  <2>1. \A n \in S : \A o \in O : /\ part[n][o].only \in O
                                  /\ Lists(part[n][o].results, Below(e, n), T, X)
    BY DEF S
  <2> QED BY <1>1, <1>2, <2>1, InTurnLists
<1> QED BY <1>3, <1>4 DEF S

-----------------------------------------------------------------------------
(* Tests that are reported without being run.                              *)

Skipped(t, e) == IF e.tree[t].flag = "todo" THEN "todo" ELSE "skip"

LEMMA UnrunParts ==
  ASSUME NEW e, Env(e), NEW inner \in Parts(e), NEW failed \in BOOLEAN
  PROVE  /\ Unrun(inner, failed, e) \in Parts(e)
         /\ \A n \in DOMAIN e.tree : \A o \in BOOLEAN :
              /\ n \in Suites(e.tree) => Unrun(inner, failed, e)[n][o] = inner[n][o]
              /\ n \in Tests(e.tree) =>
                   Unrun(inner, failed, e)[n][o]
                     = record(n, IF failed THEN "fail" ELSE Skipped(n, e), o)
<1>1. \A n \in DOMAIN e.tree : n \in Nat
  BY TreeFacts DEF Env
<1>2. ASSUME NEW n \in DOMAIN e.tree, NEW o \in BOOLEAN
      PROVE  inner[n][o] \in Outcomes /\ record(n, "fail", o) \in Outcomes /\ NotRun(n, o, e) \in Outcomes
             /\ NotRun(n, o, e) = record(n, Skipped(n, e), o)
  BY <1>1, RecordLists DEF Parts, NotRun, Skipped
<1>3. Unrun(inner, failed, e) \in Parts(e)
  BY <1>2 DEF Unrun, Parts
<1>4. \A n \in DOMAIN e.tree : \A o \in BOOLEAN :
        Unrun(inner, failed, e)[n][o]
          = IF e.tree[n].kind = "suite" THEN inner[n][o]
            ELSE IF failed THEN record(n, "fail", o) ELSE NotRun(n, o, e)
  BY DEF Unrun
<1> QED BY <1>2, <1>3, <1>4 DEF Suites, Tests

LEMMA ReportLevels ==
  ASSUME NEW e, Env(e), NEW failed \in BOOLEAN
  PROVE  \E report \in [0..Len(e.tree) -> Parts(e)] :
           /\ \A d \in 1..Len(e.tree) : \A n \in DOMAIN e.tree : \A o \in BOOLEAN :
                report[d][n][o]
                  = InTurn(Children(n, e), Unrun(report[d - 1], failed, e), o, e)
           /\ \A n \in DOMAIN e.tree : \A o \in BOOLEAN :
                reportNotRun(n, failed, o, e) = report[Len(e.tree)][n][o]
<1> DEFINE m == Len(e.tree)
           V == Parts(e)
           v == [n \in DOMAIN e.tree |-> [o \in BOOLEAN |-> Nothing(o)]]
           at(inner) == [n \in DOMAIN e.tree |-> [o \in BOOLEAN |->
                          InTurn(Children(n, e), Unrun(inner, failed, e), o, e)]]
           step == [d \in 1..m |-> [inner \in V |-> at(inner)]]
           Level(g) == g = [d \in 0..m |-> [n \in DOMAIN e.tree |-> [o \in BOOLEAN |->
                              IF d = 0 THEN Nothing(o)
                              ELSE InTurn(Children(n, e), Unrun(g[d - 1], failed, e), o, e)]]]
<1>1. m \in Nat
  BY TreeFacts DEF Env
<1>2. v \in V
  BY NothingLists DEF Parts
<1>3. ASSUME NEW inner \in V PROVE at(inner) \in V
  <2>1. ASSUME NEW n \in DOMAIN e.tree, NEW o \in BOOLEAN
        PROVE  InTurn(Children(n, e), Unrun(inner, failed, e), o, e) \in Outcomes
    BY UnrunParts, InTurnOutcome
  <2> QED BY <2>1 DEF Parts
<1>4. step \in [1..m -> [V -> V]] /\ \A d \in 1..m : \A inner \in V : step[d][inner] = at(inner)
  BY <1>3
<1> HIDE DEF step, v, V, at
<1>5. PICK g \in [0..m -> V] : Recursion(m, v, step, g)
  BY <1>1, <1>2, <1>4, RecursionExists
<1>6. \A d \in 1..m : d \in 0..m /\ d - 1 \in 0..m /\ d # 0
  BY <1>1, Predecessors
<1>7. g = [d \in 0..m |-> IF d = 0 THEN v ELSE step[d][g[d - 1]]]
  BY <1>5 DEF Recursion
<1>8. ASSUME NEW d \in 0..m PROVE g[d] = IF d = 0 THEN v ELSE at(g[d - 1])
  <2>1. d # 0 => d \in 1..m
    BY <1>1
  <2> QED BY <1>4, <1>6, <1>7, <2>1
<1>9. Level(g)
  <2>1. ASSUME NEW d \in 0..m
        PROVE  g[d] = [n \in DOMAIN e.tree |-> [o \in BOOLEAN |->
                        IF d = 0 THEN Nothing(o)
                        ELSE InTurn(Children(n, e), Unrun(g[d - 1], failed, e), o, e)]]
    <3>1. CASE d = 0
      BY <1>8, <3>1 DEF v
    <3>2. CASE d # 0
      BY <1>8, <3>2 DEF at
    <3> QED BY <3>1, <3>2
  <2> QED BY <1>5, <2>1
<1> DEFINE r == CHOOSE h : Level(h)
<1>10. Level(r)
  <2> HIDE DEF Level
  <2> QED BY <1>9
<1>11. \A n \in DOMAIN e.tree : \A o \in BOOLEAN : reportNotRun(n, failed, o, e) = r[m][n][o]
  BY DEF reportNotRun
<1> HIDE DEF r
<1>12. r[0] = v /\ \A d \in 1..m : r[d] = at(r[d - 1])
  <2>1. r[0] = v
    BY <1>1, <1>10, Predecessors DEF v
  <2>2. ASSUME NEW d \in 1..m PROVE r[d] = at(r[d - 1])
    BY <1>6, <1>10 DEF at
  <2> QED BY <2>1, <2>2
<1>13. \A d \in 0..m : r[d] \in V
  <2>1. r[0] \in V
    BY <1>2, <1>12
  <2>2. \A d \in 1..m : r[d - 1] \in V => r[d] = step[d][r[d - 1]]
    BY <1>4, <1>12
  <2> HIDE DEF Level, m
  <2> QED BY <1>1, <1>4, <2>1, <2>2, RecursionStays
<1>14. r \in [0..m -> V]
  BY <1>10, <1>13
<1>15. ASSUME NEW d \in 1..m, NEW n \in DOMAIN e.tree, NEW o \in BOOLEAN
       PROVE  r[d][n][o] = InTurn(Children(n, e), Unrun(r[d - 1], failed, e), o, e)
  <2>1. r[d] = at(r[d - 1])
    BY <1>12
  <2> QED BY <2>1 DEF at
<1> QED BY <1>11, <1>14, <1>15 DEF V

LEMMA ReportNotRunLists ==
  ASSUME NEW e, Env(e), NEW s \in Suites(e.tree), NEW failed \in BOOLEAN, NEW only \in BOOLEAN,
         NEW T, NEW X, T \cap (Below(e, s) \ {s}) \subseteq Tests(e.tree),
         \A t \in Tests(e.tree) \cap Below(e, s) :
           [node |-> t, status |-> IF failed THEN "fail" ELSE Skipped(t, e)] \in X
  PROVE  /\ reportNotRun(s, failed, only, e) \in Outcomes
         /\ reportNotRun(s, failed, only, e).only = only
         /\ Lists(reportNotRun(s, failed, only, e).results, Below(e, s) \ {s}, T, X)
<1> DEFINE m == Len(e.tree)
           tree == e.tree
<1>1. m \in Nat /\ DOMAIN tree = 1..m /\ s \in DOMAIN tree
      /\ Suites(tree) \cup Tests(tree) = DOMAIN tree
  BY TreeFacts DEF Env
<1>2. PICK report \in [0..m -> Parts(e)] :
        /\ \A d \in 1..m : \A n \in DOMAIN tree : \A o \in BOOLEAN :
             report[d][n][o] = InTurn(Children(n, e), Unrun(report[d - 1], failed, e), o, e)
        /\ \A n \in DOMAIN tree : \A o \in BOOLEAN :
             reportNotRun(n, failed, o, e) = report[m][n][o]
  BY ReportLevels
<1> DEFINE Ok(d, n) == \A o \in BOOLEAN : /\ report[d][n][o].only = o
                                          /\ Lists(report[d][n][o].results, Below(e, n) \ {n}, T, X)
           D == {d \in Nat : d \in 0..m =>
                  \A n \in Suites(tree) \cap Below(e, s) :
                    Below(e, n) \subseteq Below(e, s) /\ m - n < d => Ok(d, n)}
<1>3. 0 \in D
  <2>1. \A n \in Suites(tree) : ~(m - n < 0)
    BY <1>1
  <2> QED BY <2>1
<1>4. ASSUME NEW d \in Nat, d \in D PROVE d + 1 \in D
  <2> HIDE DEF Ok
  <2> SUFFICES ASSUME d + 1 \in 0..m, NEW n \in Suites(tree) \cap Below(e, s),
                      Below(e, n) \subseteq Below(e, s), m - n < d + 1
               PROVE  Ok(d + 1, n)
    OBVIOUS
  <2> USE DEF Ok
  <2> SUFFICES ASSUME NEW o \in BOOLEAN
               PROVE  /\ report[d + 1][n][o].only = o
                      /\ Lists(report[d + 1][n][o].results, Below(e, n) \ {n}, T, X)
    BY Zenon
  <2> DEFINE part == Unrun(report[d], failed, e)
             C == Children(n, e)
  <2>1. d + 1 \in 1..m /\ (d + 1) - 1 = d /\ d \in 0..m /\ n \in DOMAIN tree
    BY <1>1
  <2>2. report[d] \in Parts(e) /\ part \in Parts(e)
    BY <1>2, <2>1, UnrunParts
  <2>3. report[d + 1][n][o] = InTurn(C, part, o, e)
    BY <1>2, <2>1
  <2>4. ASSUME NEW c \in C
        PROVE  part[c][o].only = o /\ Lists(part[c][o].results, Below(e, c), T, X)
    <3>1. c \in DOMAIN tree /\ n < c /\ Below(e, c) \subseteq Below(e, s)
      BY BelowChildren
    <3>2. CASE c \in Suites(tree)
      <4>1. c \in Below(e, s)
        BY <3>1, <3>2, BelowParts
      <4>2. m - c < d
        BY <1>1, <2>1, <3>1
      <4>3. Ok(d, c)
        BY <1>4, <2>1, <3>1, <3>2, <4>1, <4>2
      <4>4. part[c][o] = report[d][c][o]
        BY <2>2, <3>1, <3>2, UnrunParts
      <4>5. c # s
        <5>1. s \in 1..n /\ s \in Nat /\ n \in Nat /\ c \in Nat
          BY <1>1, <2>1, <3>1, PathFacts DEF Env, Below
        <5> QED BY <3>1, <5>1
      <4>6. c \notin T
        BY <3>2, <4>1, <4>5 DEF Tests
      <4>7. Lists(part[c][o].results, Below(e, c) \ {c}, T, X)
        BY <4>3, <4>4
      <4>8. Lists(part[c][o].results, Below(e, c), T, X)
        BY <4>6, <4>7, ListsWiden
      <4> QED BY <4>3, <4>4, <4>8
    <3>3. CASE c \in Tests(tree)
      <4> DEFINE st == IF failed THEN "fail" ELSE Skipped(c, e)
      <4>1. Below(e, c) = {c} /\ c \in Nat
        BY <1>1, <3>3, BelowTest, <3>1
      <4>2. [node |-> c, status |-> st] \in X
        BY <3>1, <3>3, <4>1
      <4>3. part[c][o] = record(c, st, o)
        BY <2>2, <3>1, <3>3, UnrunParts
      <4>4. st \in {"pass", "fail", "skip", "todo"}
        BY DEF Skipped
      <4> HIDE DEF st, part
      <4>5. record(c, st, o).only = o
        BY <4>1, <4>4, RecordLists
      <4>6. Lists(record(c, st, o).results, {c}, T, X)
        BY <4>1, <4>2, <4>4, RecordLists
      <4> QED BY <4>1, <4>3, <4>5, <4>6
    <3> QED BY <1>1, <3>1, <3>2, <3>3
  <2> HIDE DEF part, C
  <2>5. /\ InTurn(C, part, o, e).only \in {o}
        /\ Lists(InTurn(C, part, o, e).results, Below(e, n) \ {n}, T, X)
    <3> DEFINE O == {o}
    <3>1. \A c \in Children(n, e) : \A q \in O :
            part[c][q].only \in O /\ Lists(part[c][q].results, Below(e, c), T, X)
      BY <2>4 DEF C
    <3>2. O \subseteq BOOLEAN /\ o \in O /\ n \in Suites(tree)
      OBVIOUS
    <3> HIDE DEF O
    <3>3. /\ InTurn(Children(n, e), part, o, e).only \in O
          /\ Lists(InTurn(Children(n, e), part, o, e).results, Below(e, n) \ {n}, T, X)
      BY <2>2, <3>1, <3>2, ChildrenList
    <3> QED BY <3>3 DEF C, O
  <2> QED BY <2>3, <2>5
<1>5. Nat \subseteq D
  <2> HIDE DEF D
  <2> QED BY <1>3, <1>4, NatSetInduction
<1>6. s \in Below(e, s) /\ m - s < m /\ m \in 0..m
  BY <1>1, BelowParts
<1>7. Ok(m, s)
  BY <1>1, <1>5, <1>6
<1>8. reportNotRun(s, failed, only, e) = report[m][s][only]
  BY <1>1, <1>2
<1>9. report[m][s][only] \in Outcomes
  BY <1>1, <1>2, <1>6 DEF Parts
<1> QED BY <1>7, <1>8, <1>9

-----------------------------------------------------------------------------
(* Bodies that run.                                                        *)

(* The recursion that FlattenSeq is defined by has a solution. *)
LEMMA FlattenSteps ==
  ASSUME NEW S, NEW seqs \in Seq(Seq(S))
  PROVE  \E h \in [1..Len(seqs) -> Seq(S)] :
           /\ \A i \in 1..Len(seqs) : h[i] = IF i = 1 THEN seqs[i] ELSE h[i - 1] \o seqs[i]
           /\ FlattenSeq(seqs) = IF Len(seqs) = 0 THEN seqs ELSE h[Len(seqs)]
<1> DEFINE m == Len(seqs)
           V == Seq(S)
           F == [1..m -> V]
           at(i, f) == IF i = 1 THEN seqs[i] ELSE f[i - 1] \o seqs[i]
           step == [i \in 1..m |-> [f \in F |-> at(i, f)]]
           Flat(h) == h = [i \in 1..m |-> IF i = 1 THEN seqs[i] ELSE h[i - 1] \o seqs[i]]
<1>1. m \in Nat /\ <<>> \in V /\ \A i \in 1..m : seqs[i] \in V
  BY LenProperties, ElementOfSeq, EmptySeq
<1> HIDE DEF m
<1>2. \A i \in 1..m : i # 1 => i - 1 \in 1..m /\ i - 1 \in 1..i - 1
  BY <1>1
<1>3. \A i \in 1..m : \A f \in F : at(i, f) \in V
  <2> SUFFICES ASSUME NEW i \in 1..m, NEW f \in F PROVE at(i, f) \in V
    OBVIOUS
  <2>1. i # 1 => f[i - 1] \in V
    BY <1>2
  <2> QED BY <1>1, <2>1, ConcatProperties
<1>4. step \in [1..m -> [F -> V]] /\ \A i \in 1..m : \A f \in F : step[i][f] = at(i, f)
  BY <1>3
<1>5. \A i \in 1..m : \A f, g \in F : (\A k \in 1..i - 1 : f[k] = g[k]) => at(i, f) = at(i, g)
  BY <1>2
<1> HIDE DEF step, at, V, F
<1>6. ASSUME NEW i \in 1..m, NEW f \in F, NEW g \in F, \A k \in 1..i - 1 : f[k] = g[k]
      PROVE  step[i][f] = step[i][g]
  <2>1. step[i][f] = at(i, f) /\ step[i][g] = at(i, g)
    BY <1>4
  <2>2. at(i, f) = at(i, g)
    BY <1>5, <1>6
  <2> QED BY <2>1, <2>2
<1>7. PICK f \in F : Follows(m, step, f)
  <2>1. LooksBack(m, V, step)
    BY <1>6 DEF LooksBack, F
  <2>2. step \in [1..m -> [[1..m -> V] -> V]]
    BY <1>4 DEF F
  <2>3. \E f \in [1..m -> V] : Follows(m, step, f)
    BY <1>1, <2>1, <2>2, CourseOfValues
  <2> QED BY <2>3 DEF F
<1>8. Flat(f)
  <2>1. \A i \in 1..m : f[i] = at(i, f)
    BY <1>4, <1>7 DEF Follows
  <2> QED BY <2>1 DEF at, F
<1> DEFINE h == CHOOSE c : Flat(c)
<1>9. Flat(h)
  <2> HIDE DEF Flat
  <2> QED BY <1>8
<1>10. FlattenSeq(seqs) = IF m = 0 THEN seqs ELSE h[m]
  BY DEF FlattenSeq, m
<1> HIDE DEF h
<1>11. \A i \in 1..m : h[i] = IF i = 1 THEN seqs[i] ELSE h[i - 1] \o seqs[i]
  BY <1>9
<1> DEFINE K == {k \in Nat : k + 1 \in 1..m => h[k + 1] \in V}
<1>12. 0 \in K
  <2>1. 0 + 1 = 1
    OBVIOUS
  <2> QED BY <1>1, <1>11, <2>1
<1>13. ASSUME NEW k \in Nat, k \in K PROVE k + 1 \in K
  <2> SUFFICES ASSUME (k + 1) + 1 \in 1..m PROVE h[(k + 1) + 1] \in V
    OBVIOUS
  <2>1. k + 1 \in 1..m /\ ((k + 1) + 1) - 1 = k + 1 /\ (k + 1) + 1 # 1
    BY <1>1
  <2>2. h[k + 1] \in V /\ seqs[(k + 1) + 1] \in V
    BY <1>1, <1>13, <2>1
  <2>3. h[(k + 1) + 1] = h[k + 1] \o seqs[(k + 1) + 1]
    BY <1>11, <2>1
  <2> QED BY <2>2, <2>3, ConcatProperties DEF V
<1>14. Nat \subseteq K
  <2> HIDE DEF K
  <2> QED BY <1>12, <1>13, NatSetInduction
<1>15. h \in [1..m -> V]
  <2>1. \A i \in 1..m : i - 1 \in Nat /\ (i - 1) + 1 = i
    BY <1>1
  <2>2. \A i \in 1..m : h[i] \in V
    BY <1>14, <2>1
  <2> QED BY <1>9, <2>2
<1> QED BY <1>10, <1>11, <1>15 DEF m, V

LEMMA FlattenSeqType ==
  ASSUME NEW S, NEW seqs \in Seq(Seq(S))
  PROVE  FlattenSeq(seqs) \in Seq(S)
<1> DEFINE m == Len(seqs)
           V == Seq(S)
<1>1. PICK h \in [1..m -> V] : FlattenSeq(seqs) = IF m = 0 THEN seqs ELSE h[m]
  BY FlattenSteps
<1>2. m \in Nat /\ <<>> \in V /\ (m = 0 => seqs = <<>>)
  BY LenProperties, EmptySeq
<1> HIDE DEF m, V
<1>3. m # 0 => m \in 1..m
  BY <1>2
<1> QED BY <1>1, <1>2, <1>3 DEF V

LEMMA HooksType ==
  ASSUME NEW tree, IsTree(tree), NEW s \in DOMAIN tree, NEW kind \in Kinds
  PROVE  Hooks(tree, s, kind) \in Seq(Attempts)
<1>1. tree[s] \in Nodes /\ s \in Nat
  BY TreeFacts
<1>2. tree[s].hooks[kind] \in Nat
  BY <1>1 DEF Nodes
<1> DEFINE h == [i \in 1..tree[s].hooks[kind] |-> [node |-> s, kind |-> kind, nth |-> i]]
<1>3. h \in [1..tree[s].hooks[kind] -> Attempts]
  BY <1>1 DEF Attempts
<1>4. h \in Seq(Attempts)
  BY <1>2, <1>3
<1> QED BY <1>4 DEF Hooks

LEMMA AttemptIs ==
  ASSUME NEW bodies \in Seq(Attempts), NEW only \in BOOLEAN, NEW e
  PROVE  /\ attempt(bodies, only, e) \in Outcomes
         /\ attempt(bodies, only, e).results = <<>>
         /\ attempt(bodies, only, e).log = bodies
         /\ e.focusing = {} => attempt(bodies, only, e).only = only
<1> DEFINE o == only \/ (~autoRun /\ \E i \in DOMAIN bodies : bodies[i] \in e.focusing)
<1>1. o \in BOOLEAN
  OBVIOUS
<1>2. attempt(bodies, only, e) = [results |-> <<>>, log |-> bodies, only |-> o]
  BY DEF attempt
<1>3. e.focusing = {} => o = only
  OBVIOUS
<1> HIDE DEF o
<1> QED BY <1>1, <1>2, <1>3, EmptySeq DEF Outcomes

LEMMA ChainNodes ==
  ASSUME NEW tree, IsTree(tree), NEW s \in DOMAIN tree
  PROVE  /\ Chain(tree, s) \in Seq(Nat) /\ Len(Chain(tree, s)) \in Nat
         /\ DOMAIN Chain(tree, s) = 1..Len(Chain(tree, s))
         /\ \A i \in 1..Len(Chain(tree, s)) :
              /\ Chain(tree, s)[i] \in DOMAIN tree /\ Reverse(Chain(tree, s))[i] \in DOMAIN tree
              /\ Chain(tree, s)[i] \in Path(tree, s)
              /\ Reverse(Chain(tree, s))[i] \in Path(tree, s)
<1> DEFINE c == Chain(tree, s)
<1>1. c \in Seq(Nat) /\ Len(c) \in Nat /\ DOMAIN c = 1..Len(c)
  BY ChainStep, LenProperties
<1>2. \A i \in 1..Len(c) : c[i] \in Path(tree, s)
  BY <1>1 DEF Path, ToSet
<1>3. Path(tree, s) \subseteq DOMAIN tree
  BY PathFacts
<1> HIDE DEF c
<1>4. \A i \in 1..Len(c) : Reverse(c)[i] = c[(Len(c) - i) + 1] /\ (Len(c) - i) + 1 \in 1..Len(c)
  BY <1>1 DEF Reverse
<1> QED BY <1>1, <1>2, <1>3, <1>4 DEF c

LEMMA BodiesType ==
  ASSUME NEW e, Env(e), NEW s \in DOMAIN e.tree, NEW t \in Tests(e.tree)
  PROVE  BodiesOf(s, t, e) \in Seq(Attempts)
<1> DEFINE chain == Chain(e.tree, s)
           before(i) == Hooks(e.tree, chain[i], "beforeEach")
           broken == {i \in DOMAIN chain : AnyFailing(before(i), e)}
           reached == [i \in DOMAIN chain |-> IF \E j \in broken : j < i THEN <<>> ELSE before(i)]
           own == IF broken = {} THEN <<Body(t)>> ELSE <<>>
           after == [i \in DOMAIN chain |-> Hooks(e.tree, Reverse(chain)[i], "afterEach")]
           SA == Seq(Attempts)
<1>1. /\ Len(chain) \in Nat /\ DOMAIN chain = 1..Len(chain)
      /\ \A i \in 1..Len(chain) : chain[i] \in DOMAIN e.tree /\ Reverse(chain)[i] \in DOMAIN e.tree
  BY ChainNodes DEF Env
<1>2. \A i \in 1..Len(chain) : before(i) \in SA /\ Hooks(e.tree, Reverse(chain)[i], "afterEach") \in SA
  BY <1>1, HooksType DEF Env, Kinds
<1>3. <<>> \in SA
  BY EmptySeq
<1>4. own \in SA
  <2>1. t \in Nat
    BY TreeFacts DEF Env
  <2>2. Body(t) \in Attempts
    BY <2>1 DEF Body, Attempts
  <2>3. <<Body(t)>> \in SA
    BY <2>2
  <2> QED BY <1>3, <2>3
<1>5. FlattenSeq(reached) \in SA
  <2>1. reached \in [1..Len(chain) -> SA]
    BY <1>1, <1>2, <1>3
  <2> HIDE DEF reached
  <2>2. reached \in Seq(SA)
    BY <1>1, <2>1
  <2> QED BY <2>2, FlattenSeqType
<1>6. FlattenSeq(after) \in SA
  <2>1. after \in [1..Len(chain) -> SA]
    BY <1>1, <1>2
  <2> HIDE DEF after
  <2>2. after \in Seq(SA)
    BY <1>1, <2>1
  <2> QED BY <2>2, FlattenSeqType
<1>7. BodiesOf(s, t, e) = FlattenSeq(reached) \o own \o FlattenSeq(after)
  BY DEF BodiesOf, AfterEach
<1> HIDE DEF reached, own, after
<1> QED BY <1>4, <1>5, <1>6, <1>7, ConcatProperties

LEMMA RunTestLists ==
  ASSUME NEW e, Env(e), NEW s \in DOMAIN e.tree, NEW t \in Tests(e.tree), NEW only \in BOOLEAN
  PROVE  /\ runTest(s, t, only, e) \in Outcomes
         /\ e.focusing = {} => runTest(s, t, only, e).only = only
         /\ \A T, X :
              [node |-> t, status |-> IF AnyFailing(BodiesOf(s, t, e), e) THEN "fail" ELSE "pass"] \in X
                => Lists(runTest(s, t, only, e).results, {t}, T, X)
<1> DEFINE ran == attempt(BodiesOf(s, t, e), only, e)
           st == IF AnyFailing(BodiesOf(s, t, e), e) THEN "fail" ELSE "pass"
           rec == record(t, st, ran.only)
<1>1. ran \in Outcomes /\ ran.results = <<>> /\ ran.log = BodiesOf(s, t, e)
      /\ (e.focusing = {} => ran.only = only)
  BY BodiesType, AttemptIs
<1>2. runTest(s, t, only, e) = Then(ran, rec)
  BY <1>1 DEF runTest
<1> HIDE DEF ran
<1>3. t \in Nat /\ ran.only \in BOOLEAN /\ st \in {"pass", "fail", "skip", "todo"}
  <2>1. t \in Nat
    BY TreeFacts DEF Env
  <2> QED BY <1>1, <2>1 DEF Outcomes
<1> HIDE DEF st
<1>4. /\ rec \in Outcomes /\ rec.only = ran.only
      /\ \A T, X : [node |-> t, status |-> st] \in X => Lists(rec.results, {t}, T, X)
  BY <1>3, RecordLists
<1> HIDE DEF rec
<1>5. /\ Then(ran, rec) \in Outcomes /\ Then(ran, rec).only = rec.only
      /\ Then(ran, rec).results = <<>> \o rec.results
  BY <1>1, <1>4, ThenIs
<1>6. <<>> \o rec.results = rec.results
  BY <1>4, ConcatEmptySeq DEF Outcomes
<1> QED BY <1>1, <1>2, <1>4, <1>5, <1>6 DEF st

-----------------------------------------------------------------------------
(* Suites that run.                                                        *)

Runs(e) == [DOMAIN e.tree -> [BOOLEAN -> [BOOLEAN -> [BOOLEAN -> Outcomes]]]]

LEMMA ReportOutcome ==
  ASSUME NEW e, Env(e), NEW n \in DOMAIN e.tree, NEW failed \in BOOLEAN, NEW only \in BOOLEAN
  PROVE  reportNotRun(n, failed, only, e) \in Outcomes
<1>1. Len(e.tree) \in 0..Len(e.tree)
  <2>1. Len(e.tree) \in Nat
    BY TreeFacts DEF Env
  <2> QED BY <2>1
<1>2. PICK report \in [0..Len(e.tree) -> Parts(e)] :
        /\ \A d \in 1..Len(e.tree) : \A k \in DOMAIN e.tree : \A o \in BOOLEAN :
             report[d][k][o] = InTurn(Children(k, e), Unrun(report[d - 1], failed, e), o, e)
        /\ \A k \in DOMAIN e.tree : \A o \in BOOLEAN :
             reportNotRun(k, failed, o, e) = report[Len(e.tree)][k][o]
  BY ReportLevels
<1>3. report[Len(e.tree)] \in Parts(e)
  BY <1>1, <1>2
<1>4. report[Len(e.tree)][n][only] \in Outcomes
  BY <1>3 DEF Parts
<1> QED BY <1>2, <1>4

LEMMA RunChildParts ==
  ASSUME NEW e, Env(e), NEW inner \in Runs(e), NEW s \in DOMAIN e.tree,
         NEW skip \in BOOLEAN, NEW focus \in BOOLEAN
  PROVE  /\ RunChild(s, skip, focus, inner, e) \in Parts(e)
         /\ \A n \in DOMAIN e.tree : \A o \in BOOLEAN :
              /\ n \in Suites(e.tree) =>
                   RunChild(s, skip, focus, inner, e)[n][o] = inner[n][skip][focus][o]
              /\ n \in Tests(e.tree) =>
                   RunChild(s, skip, focus, inner, e)[n][o]
                     = IF shouldRun(n, skip, focus, o, e) THEN runTest(s, n, o, e)
                       ELSE record(n, Skipped(n, e), o)
<1> DEFINE at(n, o) == IF e.tree[n].kind = "suite" THEN inner[n][skip][focus][o]
                       ELSE IF shouldRun(n, skip, focus, o, e) THEN runTest(s, n, o, e)
                       ELSE NotRun(n, o, e)
<1>1. ASSUME NEW n \in DOMAIN e.tree, NEW o \in BOOLEAN PROVE at(n, o) \in Outcomes
  <2>1. inner[n][skip][focus][o] \in Outcomes
    BY DEF Runs
  <2>2. n \in Nat /\ (e.tree[n].kind # "suite" => n \in Tests(e.tree))
    BY TreeFacts DEF Env, Tests, Suites
  <2>3. e.tree[n].kind # "suite" => runTest(s, n, o, e) \in Outcomes
    BY <2>2, RunTestLists
  <2>4. NotRun(n, o, e) \in Outcomes
    BY <2>2, RecordLists DEF NotRun
  <2> QED BY <2>1, <2>3, <2>4
<1>2. \A n \in DOMAIN e.tree : \A o \in BOOLEAN : RunChild(s, skip, focus, inner, e)[n][o] = at(n, o)
  BY DEF RunChild
<1>3. RunChild(s, skip, focus, inner, e) \in Parts(e)
  BY <1>1 DEF RunChild, Parts
<1>4. \A n \in DOMAIN e.tree : \A o \in BOOLEAN : NotRun(n, o, e) = record(n, Skipped(n, e), o)
  BY DEF NotRun, Skipped
<1> QED BY <1>2, <1>3, <1>4 DEF Suites, Tests

(* What a suite does before, inside and after its children. *)
SuiteParts(e, inner, s, skipped, focused, only) ==
  LET skip == skipped \/ e.tree[s].flag = "skip"
      focus == focused \/ Focused(s, e)
      setUp == runHooks(s, "beforeAll", only, e)
      broken == AnyFailing(Hooks(e.tree, s, "beforeAll"), e)
      children == InTurn(Children(s, e), RunChild(s, skip, focus, inner, e), setUp.only, e)
      inside == IF broken THEN reportNotRun(s, TRUE, setUp.only, e) ELSE children
      tearDown == runHooks(s, "afterAll", inside.only, e)
      verdict == IF AnyFailing(Hooks(e.tree, s, "afterAll"), e)
                 THEN record(s, "fail", tearDown.only) ELSE Nothing(tearDown.only)
  IN  /\ skip \in BOOLEAN /\ focus \in BOOLEAN
      /\ setUp \in Outcomes /\ setUp.results = <<>>
      /\ inside \in Outcomes /\ inside.only \in BOOLEAN
      /\ tearDown \in Outcomes /\ tearDown.results = <<>>
      /\ verdict \in Outcomes /\ verdict.only = tearDown.only
      /\ RunSuiteWith(inner, s, skipped, focused, only, e)
           = IF hasRunnable(s, skipped, focused, only, e)
             THEN Then(Then(setUp, inside), Then(tearDown, verdict))
             ELSE reportNotRun(s, FALSE, only, e)

LEMMA RunSuiteParts ==
  ASSUME NEW e, Env(e), NEW inner \in Runs(e), NEW s \in DOMAIN e.tree,
         NEW skipped \in BOOLEAN, NEW focused \in BOOLEAN, NEW only \in BOOLEAN
  PROVE  /\ SuiteParts(e, inner, s, skipped, focused, only)
         /\ RunSuiteWith(inner, s, skipped, focused, only, e) \in Outcomes
<1> DEFINE skip == skipped \/ e.tree[s].flag = "skip"
           focus == focused \/ Focused(s, e)
           setUp == runHooks(s, "beforeAll", only, e)
           broken == AnyFailing(Hooks(e.tree, s, "beforeAll"), e)
           children == InTurn(Children(s, e), RunChild(s, skip, focus, inner, e), setUp.only, e)
           inside == IF broken THEN reportNotRun(s, TRUE, setUp.only, e) ELSE children
           tearDown == runHooks(s, "afterAll", inside.only, e)
           verdict == IF AnyFailing(Hooks(e.tree, s, "afterAll"), e)
                      THEN record(s, "fail", tearDown.only) ELSE Nothing(tearDown.only)
<1>1. skip \in BOOLEAN /\ focus \in BOOLEAN
  BY DEF Focused
<1>2. ASSUME NEW kind \in Kinds, NEW o \in BOOLEAN
      PROVE  /\ runHooks(s, kind, o, e) \in Outcomes /\ runHooks(s, kind, o, e).results = <<>>
             /\ runHooks(s, kind, o, e).log = Hooks(e.tree, s, kind)
  <2> DEFINE h == Hooks(e.tree, s, kind)
  <2>1. h \in Seq(Attempts)
    BY HooksType DEF Env
  <2> HIDE DEF h
  <2>2. attempt(h, o, e) \in Outcomes
    BY <2>1, AttemptIs
  <2>3. attempt(h, o, e).results = <<>> /\ attempt(h, o, e).log = h
    BY DEF attempt
  <2> QED BY <2>2, <2>3 DEF runHooks, h
<1>3. "beforeAll" \in Kinds /\ "afterAll" \in Kinds
  BY DEF Kinds
<1>4. \A o \in Outcomes : o.only \in BOOLEAN
  BY DEF Outcomes
<1>5. setUp \in Outcomes /\ setUp.results = <<>> /\ setUp.log = Hooks(e.tree, s, "beforeAll")
  BY <1>2, <1>3
<1>6. setUp.only \in BOOLEAN
  BY <1>4, <1>5
<1> HIDE DEF skip, focus, setUp
<1>7. children \in Outcomes
  BY <1>1, <1>6, RunChildParts, InTurnOutcome
<1>8. reportNotRun(s, TRUE, setUp.only, e) \in Outcomes /\ reportNotRun(s, FALSE, only, e) \in Outcomes
  BY <1>6, ReportOutcome
<1> HIDE DEF children
<1>9. inside \in Outcomes
  BY <1>7, <1>8
<1>10. inside.only \in BOOLEAN
  BY <1>4, <1>9
<1>11. RunSuiteWith(inner, s, skipped, focused, only, e)
         = IF hasRunnable(s, skipped, focused, only, e)
           THEN Then(Then(setUp, inside), Then(tearDown, verdict))
           ELSE reportNotRun(s, FALSE, only, e)
  <2>1. runHooks(s, "afterAll", inside.only, e).log = Hooks(e.tree, s, "afterAll")
    BY <1>2, <1>3, <1>10
  <2> QED BY <1>5, <2>1 DEF RunSuiteWith, setUp, skip, focus, children
<1> HIDE DEF inside
<1>12. tearDown \in Outcomes /\ tearDown.results = <<>>
  BY <1>2, <1>3, <1>10
<1>13. tearDown.only \in BOOLEAN /\ s \in Nat
  <2>1. s \in Nat
    BY TreeFacts DEF Env
  <2> QED BY <1>4, <1>12, <2>1
<1> HIDE DEF tearDown
<1>14. verdict \in Outcomes /\ verdict.only = tearDown.only
  BY <1>13, RecordLists, NothingLists
<1> HIDE DEF verdict
<1>15. Then(Then(setUp, inside), Then(tearDown, verdict)) \in Outcomes
  BY <1>5, <1>9, <1>12, <1>14, ThenIs
<1> QED BY <1>1, <1>5, <1>8, <1>9, <1>10, <1>11, <1>12, <1>14, <1>15
        DEF SuiteParts, skip, focus, setUp, children, inside, tearDown, verdict

LEMMA RunLevels ==
  ASSUME NEW e, Env(e)
  PROVE  \E run \in [0..Len(e.tree) -> Runs(e)] :
           /\ \A d \in 1..Len(e.tree) : \A n \in DOMAIN e.tree :
              \A skip, focus, o \in BOOLEAN :
                run[d][n][skip][focus][o] = RunSuiteWith(run[d - 1], n, skip, focus, o, e)
           /\ \A n \in DOMAIN e.tree : \A skip, focus, o \in BOOLEAN :
                runSuite(n, skip, focus, o, e) = run[Len(e.tree)][n][skip][focus][o]
<1> DEFINE m == Len(e.tree)
           V == Runs(e)
           v == [n \in DOMAIN e.tree |-> [skip \in BOOLEAN |-> [focus \in BOOLEAN |-> [o \in BOOLEAN |->
                  Nothing(o)]]]]
           at(inner) ==
             [n \in DOMAIN e.tree |-> [skip \in BOOLEAN |-> [focus \in BOOLEAN |-> [o \in BOOLEAN |->
               RunSuiteWith(inner, n, skip, focus, o, e)]]]]
           step == [d \in 1..m |-> [inner \in V |-> at(inner)]]
           Level(g) == g = [d \in 0..m |->
             [n \in DOMAIN e.tree |-> [skip \in BOOLEAN |-> [focus \in BOOLEAN |-> [o \in BOOLEAN |->
               IF d = 0 THEN Nothing(o) ELSE RunSuiteWith(g[d - 1], n, skip, focus, o, e)]]]]]
<1>1. m \in Nat
  BY TreeFacts DEF Env
<1>2. v \in V
  BY NothingLists DEF Runs
<1>3. ASSUME NEW inner \in V PROVE at(inner) \in V
  <2>1. ASSUME NEW n \in DOMAIN e.tree, NEW skip \in BOOLEAN, NEW focus \in BOOLEAN, NEW o \in BOOLEAN
        PROVE  RunSuiteWith(inner, n, skip, focus, o, e) \in Outcomes
    BY RunSuiteParts
  <2> QED BY <2>1 DEF Runs
<1>4. step \in [1..m -> [V -> V]] /\ \A d \in 1..m : \A inner \in V : step[d][inner] = at(inner)
  BY <1>3
<1> HIDE DEF step, v, V, at
<1>5. PICK g \in [0..m -> V] : Recursion(m, v, step, g)
  BY <1>1, <1>2, <1>4, RecursionExists
<1>6. \A d \in 1..m : d \in 0..m /\ d - 1 \in 0..m /\ d # 0
  BY <1>1, Predecessors
<1>7. g = [d \in 0..m |-> IF d = 0 THEN v ELSE step[d][g[d - 1]]]
  BY <1>5 DEF Recursion
<1>8. ASSUME NEW d \in 0..m PROVE g[d] = IF d = 0 THEN v ELSE at(g[d - 1])
  <2>1. d # 0 => d \in 1..m
    BY <1>1
  <2> QED BY <1>4, <1>6, <1>7, <2>1
<1>9. Level(g)
  <2>1. ASSUME NEW d \in 0..m
        PROVE  g[d] = [n \in DOMAIN e.tree |-> [skip \in BOOLEAN |-> [focus \in BOOLEAN |-> [o \in BOOLEAN |->
                 IF d = 0 THEN Nothing(o) ELSE RunSuiteWith(g[d - 1], n, skip, focus, o, e)]]]]
    <3>1. CASE d = 0
      BY <1>8, <3>1 DEF v
    <3>2. CASE d # 0
      BY <1>8, <3>2 DEF at
    <3> QED BY <3>1, <3>2
  <2> QED BY <1>5, <2>1
<1> DEFINE r == CHOOSE h : Level(h)
<1>10. Level(r)
  <2> HIDE DEF Level
  <2> QED BY <1>9
<1>11. \A n \in DOMAIN e.tree : \A skip, focus, o \in BOOLEAN :
         runSuite(n, skip, focus, o, e) = r[m][n][skip][focus][o]
  BY DEF runSuite
<1> HIDE DEF r
<1>12. r[0] = v /\ \A d \in 1..m : r[d] = at(r[d - 1])
  <2>1. r[0] = v
    BY <1>1, <1>10, Predecessors DEF v
  <2>2. ASSUME NEW d \in 1..m PROVE r[d] = at(r[d - 1])
    <3>1. d \in 0..m /\ d # 0
      BY <1>6
    <3>2. r[d] = [n \in DOMAIN e.tree |-> [skip \in BOOLEAN |-> [focus \in BOOLEAN |-> [o \in BOOLEAN |->
                    IF d = 0 THEN Nothing(o) ELSE RunSuiteWith(r[d - 1], n, skip, focus, o, e)]]]]
      BY <1>10, <3>1, Zenon
    <3> QED BY <3>1, <3>2 DEF at
  <2> QED BY <2>1, <2>2
<1>13. \A d \in 0..m : r[d] \in V
  <2>1. r[0] \in V
    BY <1>2, <1>12
  <2>2. \A d \in 1..m : r[d - 1] \in V => r[d] = step[d][r[d - 1]]
    BY <1>4, <1>12
  <2> HIDE DEF Level, m
  <2> QED BY <1>1, <1>4, <2>1, <2>2, RecursionStays
<1>14. r \in [0..m -> V]
  BY <1>10, <1>13
<1>15. ASSUME NEW d \in 1..m, NEW n \in DOMAIN e.tree,
              NEW skip \in BOOLEAN, NEW focus \in BOOLEAN, NEW o \in BOOLEAN
       PROVE  r[d][n][skip][focus][o] = RunSuiteWith(r[d - 1], n, skip, focus, o, e)
  <2>1. r[d] = at(r[d - 1])
    BY <1>12
  <2> QED BY <2>1 DEF at
<1> QED BY <1>11, <1>14, <1>15 DEF V

(* usedOnly may be one of O all through an execution of e. *)
Keeps(e, O) ==
  /\ O \subseteq BOOLEAN
  /\ O = BOOLEAN \/ e.focusing = {}

(* What the bodies and the children of s must be for s to report the nodes   *)
(* below it as X says, those of T among them exactly once.                   *)
Reporting(e, s, inner, skipped, focused, only, O, T, X) ==
  /\ ~hasRunnable(s, skipped, focused, only, e) =>
       /\ T \cap Below(e, s) \subseteq Tests(e.tree)
       /\ \A t \in Tests(e.tree) \cap Below(e, s) : [node |-> t, status |-> Skipped(t, e)] \in X
  /\ hasRunnable(s, skipped, focused, only, e) =>
       /\ IF AnyFailing(Hooks(e.tree, s, "afterAll"), e)
          THEN [node |-> s, status |-> "fail"] \in X ELSE s \notin T
       /\ IF AnyFailing(Hooks(e.tree, s, "beforeAll"), e)
          THEN /\ T \cap (Below(e, s) \ {s}) \subseteq Tests(e.tree)
               /\ \A t \in Tests(e.tree) \cap Below(e, s) : [node |-> t, status |-> "fail"] \in X
          ELSE \A c \in Children(s, e) : \A o \in O :
                 LET child == RunChild(s, skipped \/ e.tree[s].flag = "skip",
                                       focused \/ Focused(s, e), inner, e)[c][o]
                 IN child.only \in O /\ Lists(child.results, Below(e, c), T, X)

LEMMA RunSuiteLists ==
  ASSUME NEW e, Env(e), NEW s \in Suites(e.tree), NEW inner \in Runs(e),
         NEW skipped \in BOOLEAN, NEW focused \in BOOLEAN, NEW O, Keeps(e, O), NEW only \in O,
         NEW T, NEW X, Reporting(e, s, inner, skipped, focused, only, O, T, X)
  PROVE  /\ RunSuiteWith(inner, s, skipped, focused, only, e).only \in O
         /\ Lists(RunSuiteWith(inner, s, skipped, focused, only, e).results, Below(e, s), T, X)
<1> DEFINE skip == skipped \/ e.tree[s].flag = "skip"
           focus == focused \/ Focused(s, e)
           setUp == runHooks(s, "beforeAll", only, e)
           broken == AnyFailing(Hooks(e.tree, s, "beforeAll"), e)
           failing == AnyFailing(Hooks(e.tree, s, "afterAll"), e)
           part == RunChild(s, skip, focus, inner, e)
           children == InTurn(Children(s, e), part, setUp.only, e)
           inside == IF broken THEN reportNotRun(s, TRUE, setUp.only, e) ELSE children
           tearDown == runHooks(s, "afterAll", inside.only, e)
           verdict == IF failing THEN record(s, "fail", tearDown.only) ELSE Nothing(tearDown.only)
           run == RunSuiteWith(inner, s, skipped, focused, only, e)
           runnable == hasRunnable(s, skipped, focused, only, e)
           unrun == reportNotRun(s, FALSE, only, e)
<1>1. s \in DOMAIN e.tree /\ s \in Nat /\ O \subseteq BOOLEAN /\ only \in BOOLEAN /\ s \notin Tests(e.tree)
      /\ Tests(e.tree) \subseteq DOMAIN e.tree
  <2>1. s \in DOMAIN e.tree /\ s \in Nat
    BY TreeFacts DEF Env
  <2> QED BY <2>1 DEF Keeps, Tests
<1>2. /\ skip \in BOOLEAN /\ focus \in BOOLEAN
      /\ setUp \in Outcomes /\ setUp.results = <<>>
      /\ inside \in Outcomes /\ inside.only \in BOOLEAN
      /\ tearDown \in Outcomes /\ tearDown.results = <<>>
      /\ verdict \in Outcomes /\ verdict.only = tearDown.only
      /\ run = IF runnable THEN Then(Then(setUp, inside), Then(tearDown, verdict)) ELSE unrun
  <2>1. SuiteParts(e, inner, s, skipped, focused, only)
    BY <1>1, RunSuiteParts
  <2> QED BY <2>1 DEF SuiteParts
<1>3. ASSUME NEW kind \in Kinds, NEW o \in O PROVE runHooks(s, kind, o, e).only \in O
  <2> DEFINE h == Hooks(e.tree, s, kind)
  <2>1. h \in Seq(Attempts) /\ o \in BOOLEAN
    BY <1>1, HooksType DEF Env
  <2> HIDE DEF h
  <2>2. attempt(h, o, e) \in Outcomes
    BY <2>1, AttemptIs
  <2>3. attempt(h, o, e).only \in BOOLEAN
    BY <2>2 DEF Outcomes
  <2>4. e.focusing = {} => attempt(h, o, e).only = o
    BY <2>1 DEF attempt
  <2> QED BY <2>3, <2>4 DEF Keeps, runHooks, h
<1>4. CASE ~runnable
  <2>1. /\ T \cap Below(e, s) \subseteq Tests(e.tree)
        /\ \A t \in Tests(e.tree) \cap Below(e, s) : [node |-> t, status |-> Skipped(t, e)] \in X
    BY <1>4 DEF Reporting
  <2>2. unrun.only = only /\ Lists(unrun.results, Below(e, s) \ {s}, T, X)
    BY <1>1, <2>1, ReportNotRunLists
  <2>3. s \notin T
    BY <1>1, <2>1, BelowParts
  <2> HIDE DEF run, unrun, runnable
  <2>4. Lists(unrun.results, Below(e, s), T, X)
    BY <2>2, <2>3, ListsWiden
  <2>5. run = unrun
    BY <1>2, <1>4
  <2> QED BY <2>2, <2>4, <2>5 DEF run
<1>5. CASE runnable
  <2>1. "beforeAll" \in Kinds /\ "afterAll" \in Kinds
    BY DEF Kinds
  <2>2. setUp.only \in O /\ setUp.only \in BOOLEAN
    BY <1>1, <1>3, <2>1
  <2> HIDE DEF setUp
  <2>3. inside.only \in O /\ Lists(inside.results, Below(e, s) \ {s}, T, X)
    <3>1. CASE broken
      <4>1. /\ T \cap (Below(e, s) \ {s}) \subseteq Tests(e.tree)
            /\ \A t \in Tests(e.tree) \cap Below(e, s) : [node |-> t, status |-> "fail"] \in X
        BY <1>5, <3>1 DEF Reporting
      <4>2. /\ reportNotRun(s, TRUE, setUp.only, e).only = setUp.only
            /\ Lists(reportNotRun(s, TRUE, setUp.only, e).results, Below(e, s) \ {s}, T, X)
        BY <2>2, <4>1, ReportNotRunLists
      <4> QED BY <2>2, <3>1, <4>2
    <3>2. CASE ~broken
      <4>1. \A c \in Children(s, e) : \A o \in O :
              part[c][o].only \in O /\ Lists(part[c][o].results, Below(e, c), T, X)
        BY <1>5, <3>2 DEF Reporting
      <4>2. part \in Parts(e)
        BY <1>1, <1>2, RunChildParts
      <4> HIDE DEF part
      <4>3. children.only \in O /\ Lists(children.results, Below(e, s) \ {s}, T, X)
        BY <1>1, <2>2, <4>1, <4>2, ChildrenList
      <4> QED BY <3>2, <4>3
    <3> QED BY <3>1, <3>2
  <2> HIDE DEF inside
  <2>4. tearDown.only \in O /\ tearDown.only \in BOOLEAN
    BY <1>1, <1>3, <2>1, <2>3
  <2> HIDE DEF tearDown
  <2>5. Lists(verdict.results, {s}, T, X)
    <3>1. CASE failing
      <4>1. [node |-> s, status |-> "fail"] \in X
        BY <1>5, <3>1 DEF Reporting
      <4>2. Lists(record(s, "fail", tearDown.only).results, {s}, T, X)
        BY <1>1, <2>4, <4>1, RecordLists
      <4> QED BY <3>1, <4>2
    <3>2. CASE ~failing
      <4>1. T \cap {s} = {}
        BY <1>5, <3>2 DEF Reporting
      <4>2. Lists(<<>>, {s}, T, X)
        BY <4>1, ListsNone
      <4> QED BY <3>2, <4>2 DEF Nothing
    <3> QED BY <3>1, <3>2
  <2> HIDE DEF verdict
  <2> DEFINE first == Then(setUp, inside)
             last == Then(tearDown, verdict)
  <2>6. /\ first \in Outcomes /\ first.results = <<>> \o inside.results
        /\ last \in Outcomes /\ last.results = <<>> \o verdict.results /\ last.only = verdict.only
    <3>1. setUp \in Outcomes /\ inside \in Outcomes /\ tearDown \in Outcomes /\ verdict \in Outcomes
      BY <1>2
    <3>2. first \in Outcomes /\ last \in Outcomes
      BY <3>1, ThenIs
    <3>3. setUp.results = <<>> /\ tearDown.results = <<>>
      BY <1>2
    <3> QED BY <3>2, <3>3 DEF Then
  <2>7. <<>> \o inside.results = inside.results /\ <<>> \o verdict.results = verdict.results
    BY <1>2, ConcatEmptySeq DEF Outcomes
  <2> HIDE DEF first, last
  <2>8. Then(first, last).only = last.only
        /\ Then(first, last).results = inside.results \o verdict.results
    BY <2>6, <2>7 DEF Then
  <2>9. Lists(inside.results \o verdict.results, (Below(e, s) \ {s}) \cup {s}, T, X)
    <3> DEFINE N == Below(e, s) \ {s}
               M == {s}
    <3>1. N \cap M = {} /\ Lists(inside.results, N, T, X) /\ Lists(verdict.results, M, T, X)
      BY <2>3, <2>5
    <3> HIDE DEF N, M
    <3>2. Lists(inside.results \o verdict.results, N \cup M, T, X)
      BY <3>1, ListsJoin
    <3> QED BY <3>2 DEF N, M
  <2>10. (Below(e, s) \ {s}) \cup {s} = Below(e, s)
    BY BelowParts
  <2> HIDE DEF run
  <2>11. run = Then(first, last)
    BY <1>2, <1>5 DEF first, last
  <2> QED BY <1>2, <2>4, <2>6, <2>8, <2>9, <2>10, <2>11 DEF run
<1> QED BY <1>4, <1>5

(* A suite that is executed reports every test below it exactly once. *)
LEMMA RunLists ==
  ASSUME NEW e, Env(e), NEW s \in Suites(e.tree),
         NEW skipped \in BOOLEAN, NEW focused \in BOOLEAN, NEW only \in BOOLEAN
  PROVE  /\ runSuite(s, skipped, focused, only, e) \in Outcomes
         /\ Lists(runSuite(s, skipped, focused, only, e).results, Below(e, s), Tests(e.tree), Reported)
<1> DEFINE m == Len(e.tree)
           tree == e.tree
           T == Tests(e.tree)
<1>1. m \in Nat /\ DOMAIN tree = 1..m /\ s \in DOMAIN tree /\ (\A n \in DOMAIN tree : n \in Nat)
      /\ Suites(tree) \cup Tests(tree) = DOMAIN tree /\ Suites(tree) \cap T = {}
      /\ \A n \in Suites(tree) : n \in DOMAIN tree /\ n \notin T
  BY TreeFacts DEF Env, Tests
<1>2. PICK run \in [0..m -> Runs(e)] :
        /\ \A d \in 1..m : \A n \in DOMAIN tree : \A skip, focus, o \in BOOLEAN :
             run[d][n][skip][focus][o] = RunSuiteWith(run[d - 1], n, skip, focus, o, e)
        /\ \A n \in DOMAIN tree : \A skip, focus, o \in BOOLEAN :
             runSuite(n, skip, focus, o, e) = run[m][n][skip][focus][o]
  BY RunLevels
<1> HIDE DEF T, m
<1>3. Keeps(e, BOOLEAN)
  BY DEF Keeps
<1>4. ASSUME NEW n \in DOMAIN tree, NEW st \in {"pass", "fail", "skip", "todo"}
      PROVE  [node |-> n, status |-> st] \in Reported
  BY <1>1 DEF Reported
<1>5. \A n \in DOMAIN tree : Skipped(n, e) \in {"pass", "fail", "skip", "todo"}
  BY DEF Skipped
<1> DEFINE Ok(d, n) == \A skip, focus, o \in BOOLEAN :
                         Lists(run[d][n][skip][focus][o].results, Below(e, n), T, Reported)
           D == {d \in Nat : d \in 0..m => \A n \in Suites(tree) : m - n < d => Ok(d, n)}
<1>6. 0 \in D
  <2>1. \A n \in Suites(tree) : ~(m - n < 0)
    BY <1>1
  <2> QED BY <2>1
<1>7. ASSUME NEW d \in Nat, d \in D PROVE d + 1 \in D
  <2> HIDE DEF Ok
  <2> SUFFICES ASSUME d + 1 \in 0..m, NEW n \in Suites(tree), m - n < d + 1
               PROVE  Ok(d + 1, n)
    OBVIOUS
  <2> USE DEF Ok
  <2> SUFFICES ASSUME NEW skip \in BOOLEAN, NEW focus \in BOOLEAN, NEW o \in BOOLEAN
               PROVE  Lists(run[d + 1][n][skip][focus][o].results, Below(e, n), T, Reported)
    BY Zenon
  <2>1. d + 1 \in 1..m /\ (d + 1) - 1 = d /\ d \in 0..m /\ n \in DOMAIN tree
    BY <1>1
  <2>2. run[d] \in Runs(e)
    BY <1>2, <2>1
  <2>3. run[d + 1][n][skip][focus][o] = RunSuiteWith(run[d], n, skip, focus, o, e)
    BY <1>2, <2>1
  <2> DEFINE skip2 == skip \/ tree[n].flag = "skip"
             focus2 == focus \/ Focused(n, e)
             part == RunChild(n, skip2, focus2, run[d], e)
  <2>4. ASSUME NEW c \in Children(n, e), NEW q \in BOOLEAN
        PROVE  part[c][q].only \in BOOLEAN /\ Lists(part[c][q].results, Below(e, c), T, Reported)
    <3>0. skip2 \in BOOLEAN /\ focus2 \in BOOLEAN
      BY DEF Focused
    <3>1. c \in DOMAIN tree /\ n < c
      BY BelowChildren
    <3> HIDE DEF skip2, focus2
    <3>2. part \in Parts(e)
          /\ (c \in Suites(tree) => part[c][q] = run[d][c][skip2][focus2][q])
          /\ (c \in Tests(tree) => part[c][q] = IF shouldRun(c, skip2, focus2, q, e)
                                                THEN runTest(n, c, q, e)
                                                ELSE record(c, Skipped(c, e), q))
      BY <2>1, <2>2, <3>0, <3>1, RunChildParts
    <3> HIDE DEF part
    <3>3. part[c][q].only \in BOOLEAN
      BY <3>1, <3>2 DEF Parts, Outcomes
    <3>4. CASE c \in Suites(tree)
      <4>1. m - c < d
        BY <1>1, <2>1, <3>1
      <4>2. Ok(d, c)
        BY <1>7, <2>1, <3>4, <4>1
      <4> QED BY <3>0, <3>2, <3>3, <3>4, <4>2
    <3>5. CASE c \in Tests(tree)
      <4>1. Below(e, c) = {c} /\ c \in Nat
        BY <1>1, <3>5, BelowTest, <3>1
      <4>2. Lists(runTest(n, c, q, e).results, {c}, T, Reported)
        <5> DEFINE st == IF AnyFailing(BodiesOf(n, c, e), e) THEN "fail" ELSE "pass"
        <5>1. [node |-> c, status |-> st] \in Reported
          BY <1>4, <3>1
        <5> QED BY <2>1, <3>5, <5>1, RunTestLists
      <4>3. Lists(record(c, Skipped(c, e), q).results, {c}, T, Reported)
        BY <1>4, <1>5, <3>1, <4>1, RecordLists
      <4> QED BY <3>2, <3>3, <3>5, <4>1, <4>2, <4>3
    <3> QED BY <1>1, <3>1, <3>4, <3>5
  <2>5. Reporting(e, n, run[d], skip, focus, o, BOOLEAN, T, Reported)
    <3>1. T \cap Below(e, n) \subseteq Tests(tree) /\ T \cap (Below(e, n) \ {n}) \subseteq Tests(tree)
      BY DEF T
    <3>2. \A t \in Tests(tree) \cap Below(e, n) :
            [node |-> t, status |-> Skipped(t, e)] \in Reported /\ [node |-> t, status |-> "fail"] \in Reported
      BY <1>1, <1>4, <1>5
    <3>3. n \notin T /\ [node |-> n, status |-> "fail"] \in Reported
      BY <1>1, <1>4, <2>1
    <3> QED BY <2>4, <3>1, <3>2, <3>3 DEF Reporting
  <2> HIDE DEF part
  <2>6. Lists(RunSuiteWith(run[d], n, skip, focus, o, e).results, Below(e, n), T, Reported)
    <3> DEFINE O == BOOLEAN
    <3>1. Keeps(e, O) /\ Reporting(e, n, run[d], skip, focus, o, O, T, Reported) /\ o \in O
      BY <1>3, <2>5
    <3> HIDE DEF O
    <3> QED BY <2>2, <3>1, RunSuiteLists
  <2> QED BY <2>3, <2>6
<1>8. Nat \subseteq D
  <2> HIDE DEF D
  <2> QED BY <1>6, <1>7, NatSetInduction
<1>9. m - s < m /\ m \in 0..m
  BY <1>1
<1>10. Ok(m, s)
  BY <1>1, <1>8, <1>9
<1>11. runSuite(s, skipped, focused, only, e) = run[m][s][skipped][focused][only]
  BY <1>1, <1>2
<1>12. run[m][s][skipped][focused][only] \in Outcomes
  BY <1>1, <1>2, <1>9 DEF Runs
<1> QED BY <1>10, <1>11, <1>12 DEF T

-----------------------------------------------------------------------------
(* The inductive invariant.                                                *)

(* What has been reported are tests, none of a block of pend, of every other *)
(* block once; except that a block of odd may have tests that are not        *)
(* reported, and one of loose tests that are reported twice.                 *)
Accounted(tree, pend, odd, loose, rs) ==
  /\ rs \in Seq(Reported)
  /\ \A i \in 1..Len(rs) : rs[i].node \in DOMAIN tree
  /\ \A i \in 1..Len(rs) : rs[i].node \in Tests(tree) => TopOf(tree, rs[i].node) \notin pend
  /\ \A i, j \in 1..Len(rs) :
       rs[i].node = rs[j].node /\ rs[i].node \in Tests(tree) /\ TopOf(tree, rs[i].node) \notin loose
         => i = j
  /\ \A i, j, k \in 1..Len(rs) :
       rs[i].node = rs[j].node /\ rs[j].node = rs[k].node /\ rs[i].node \in Tests(tree)
         => i = j \/ j = k \/ i = k
  /\ \A t \in Tests(tree) : TopOf(tree, t) \notin pend \cup odd => \E i \in 1..Len(rs) : rs[i].node = t

(* The blocks of the root.                                                 *)
Blocks(tree) == {n \in DOMAIN tree \ {Root} : tree[n].parent = Root}

(* The cut blocks that are no longer being collected. *)
Complete == IF Current = Root THEN cut ELSE cut \ {TopOf(nodes, Current)}

(* The open describe bodies are the path to the current suite, which belongs *)
(* to a block that is pending or cut; what has been reported is what is no   *)
(* longer pending; and the script has ended as soon as a failure is          *)
(* reported, unless a describe body has swallowed it.                        *)
RunnerInv ==
  /\ IsTree(nodes)
  /\ pending \subseteq Blocks(nodes) /\ cut \subseteq Blocks(nodes)
  /\ Current \in Suites(nodes) /\ open = Chain(nodes, Current)
  /\ Current # Root => TopOf(nodes, Current) \in pending \cup cut
  /\ autoRun \in BOOLEAN /\ usedOnly \in BOOLEAN /\ executedTopLevel \in BOOLEAN
  /\ Accounted(nodes, pending, cut, Complete, results)
  /\ exit \in {"none", "raised", "ok", "failed", "pending"}
  /\ exit \in {"none", "ok"} /\ cut = {} => ~Failed(results)
  /\ exit = "raised" => cut # {}
  /\ exit = "ok" => pending = {}

(* A tree that keeps the parents and the kinds of another keeps its paths. *)
Extends(b, a) ==
  /\ Len(a) <= Len(b)
  /\ \A n \in DOMAIN a : b[n].parent = a[n].parent /\ b[n].kind = a[n].kind

LEMMA SameShape ==
  ASSUME NEW a, IsTree(a), NEW b, IsTree(b), Extends(b, a)
  PROVE  /\ DOMAIN a \subseteq DOMAIN b
         /\ \A n \in DOMAIN a : /\ Chain(b, n) = Chain(a, n) /\ TopOf(b, n) = TopOf(a, n)
                                /\ n \in Suites(b) <=> n \in Suites(a)
                                /\ n \in Tests(b) <=> n \in Tests(a)
                                /\ n \in Blocks(b) <=> n \in Blocks(a)
<1> DEFINE T == {n \in DOMAIN a : Chain(b, n) = Chain(a, n)}
<1>1. DOMAIN a \subseteq DOMAIN b
  <2>1. DOMAIN a = 1..Len(a) /\ DOMAIN b = 1..Len(b) /\ Len(a) \in Nat /\ Len(b) \in Nat
    BY TreeFacts
  <2> QED BY <2>1 DEF Extends
<1>2. Root \in T
  <2>1. Chain(a, Root) = <<Root>> /\ Chain(b, Root) = <<Root>>
    BY ChainStep
  <2> QED BY <2>1, TreeFacts
<1>3. ASSUME NEW n \in DOMAIN a \ {Root}, a[n].parent \in T PROVE n \in T
  <2>1. n \in DOMAIN b \ {Root} /\ b[n].parent = a[n].parent
    BY <1>1 DEF Extends
  <2>2. Chain(a, n) = Append(Chain(a, a[n].parent), n) /\ Chain(b, n) = Append(Chain(b, b[n].parent), n)
    BY <2>1, ChainStep
  <2> QED BY <1>3, <2>1, <2>2
<1> HIDE DEF T
<1>4. DOMAIN a \subseteq T
  BY <1>2, <1>3, TreeInduction
<1>5. \A n \in DOMAIN a : Chain(b, n) = Chain(a, n)
  BY <1>4 DEF T
<1> QED BY <1>1, <1>5 DEF TopOf, Suites, Tests, Blocks, Extends

(* A node declared in a suite. *)
LEMMA Declared ==
  ASSUME NEW tree, IsTree(tree), NEW s \in Suites(tree), NEW node \in Nodes, node.parent = s
  PROVE  /\ IsTree(Append(tree, node)) /\ Extends(Append(tree, node), tree)
         /\ DOMAIN Append(tree, node) = DOMAIN tree \cup {Len(tree) + 1}
         /\ Len(tree) + 1 \notin DOMAIN tree /\ Len(tree) + 1 # Root
         /\ Append(tree, node)[Len(tree) + 1] = node
         /\ Chain(Append(tree, node), Len(tree) + 1) = Append(Chain(tree, s), Len(tree) + 1)
         /\ TopOf(Append(tree, node), Len(tree) + 1)
              = IF s = Root THEN Len(tree) + 1 ELSE TopOf(tree, s)
<1> DEFINE n == Len(tree) + 1
           b == Append(tree, node)
<1>1. /\ Len(tree) \in Nat /\ Len(tree) >= 1 /\ DOMAIN tree = 1..Len(tree)
      /\ s \in 1..Len(tree) /\ tree[s].kind = "suite" /\ tree \in Seq(Nodes)
  BY TreeFacts DEF IsTree, Suites
<1>2. /\ b \in Seq(Nodes) /\ Len(b) = Len(tree) + 1 /\ b[n] = node /\ DOMAIN b = 1..n
      /\ \A k \in 1..Len(tree) : b[k] = tree[k]
  BY <1>1, AppendProperties
<1> HIDE DEF b
<1>3. DOMAIN b = DOMAIN tree \cup {n} /\ n \notin DOMAIN tree /\ n # Root /\ Root \in 1..Len(tree)
  BY <1>1, <1>2 DEF Root
<1>4. IsTree(b)
  <2>1. ASSUME NEW k \in 2..Len(b) PROVE b[k].parent \in 1..k - 1 /\ b[b[k].parent].kind = "suite"
    <3>1. CASE k = n
      <4>1. b[k].parent = s /\ s \in 1..k - 1 /\ b[s] = tree[s]
        BY <1>1, <1>2, <3>1
      <4> QED BY <1>1, <4>1
    <3>2. CASE k # n
      <4>1. k \in 2..Len(tree) /\ k \in 1..Len(tree)
        BY <1>1, <1>2, <3>2
      <4>2. tree[k].parent \in 1..k - 1 /\ tree[tree[k].parent].kind = "suite"
        BY <4>1 DEF IsTree
      <4>3. tree[k].parent \in 1..Len(tree)
        BY <1>1, <4>1, <4>2
      <4> QED BY <1>2, <4>1, <4>2, <4>3
    <3> QED BY <3>1, <3>2
  <2>2. b[Root] = tree[Root] /\ Len(b) >= 1
    BY <1>1, <1>2, <1>3
  <2> QED BY <1>2, <2>1, <2>2 DEF IsTree
<1>5. Extends(b, tree)
  BY <1>1, <1>2 DEF Extends
<1>6. Chain(b, n) = Append(Chain(tree, s), n)
  <2>1. n \in DOMAIN b \ {Root} /\ b[n].parent = s /\ s \in DOMAIN tree
    BY <1>1, <1>2, <1>3
  <2>2. Chain(b, n) = Append(Chain(b, s), n)
    BY <1>4, <2>1, ChainStep
  <2> QED BY <1>4, <1>5, <2>1, <2>2, SameShape
<1>7. TopOf(b, n) = IF s = Root THEN n ELSE TopOf(tree, s)
  <2>1. n \in DOMAIN b \ {Root} /\ b[n].parent = s /\ s \in DOMAIN tree
    BY <1>1, <1>2, <1>3
  <2> QED BY <1>4, <1>5, <2>1, SameShape, TopStep
<1> QED BY <1>2, <1>3, <1>4, <1>5, <1>6, <1>7 DEF b

(* A hook is declared, or dropped: the tree keeps its shape. *)
LEMMA HooksChange ==
  ASSUME NEW tree, IsTree(tree), NEW s \in Suites(tree), NEW hooks \in [Kinds -> Nat]
  PROVE  LET b == [tree EXCEPT ![s].hooks = hooks]
         IN IsTree(b) /\ Extends(b, tree) /\ DOMAIN b = DOMAIN tree
<1> DEFINE b == [tree EXCEPT ![s].hooks = hooks]
           new == [tree[s] EXCEPT !.hooks = hooks]
<1>1. /\ Len(tree) \in Nat /\ DOMAIN tree = 1..Len(tree) /\ s \in 1..Len(tree)
      /\ tree \in Seq(Nodes) /\ tree[s] \in Nodes
  BY TreeFacts DEF IsTree, Suites
<1>2. new \in Nodes /\ new.kind = tree[s].kind /\ new.parent = tree[s].parent
  BY <1>1 DEF Nodes
<1>3. \A k \in 1..Len(tree) : b[k] = IF k = s THEN new ELSE tree[k]
  BY <1>1
<1>4. b \in Seq(Nodes) /\ Len(b) = Len(tree) /\ DOMAIN b = DOMAIN tree
  <2>1. b \in [1..Len(tree) -> Nodes]
    <3>1. \A k \in 1..Len(tree) : tree[k] \in Nodes
      BY <1>1
    <3> HIDE DEF new
    <3>2. b = [tree EXCEPT ![s] = new] 
      BY <1>1 DEF new
    <3> QED BY <1>1, <1>2, <3>1, <3>2
  <2> HIDE DEF b
  <2> QED BY <1>1, <2>1
<1> HIDE DEF b, new
<1>5. \A k \in 1..Len(tree) : b[k].kind = tree[k].kind /\ b[k].parent = tree[k].parent
  BY <1>2, <1>3
<1>6. IsTree(b)
  <2>1. Root \in 1..Len(tree) /\ \A k \in 2..Len(tree) : tree[k].parent \in 1..Len(tree) /\ k \in 1..Len(tree)
    BY <1>1 DEF IsTree, Root
  <2> QED BY <1>4, <1>5, <2>1 DEF IsTree
<1>7. Extends(b, tree)
  BY <1>1, <1>4, <1>5 DEF Extends
<1> QED BY <1>4, <1>6, <1>7 DEF b

-----------------------------------------------------------------------------
(* What an execution, and a declaration, do to the account.                *)

LEMMA AccountedGrows ==
  ASSUME NEW a, IsTree(a), NEW b, IsTree(b), Extends(b, a),
         NEW pend, NEW wider, NEW odd, NEW loose, NEW rs, Accounted(a, pend, odd, loose, rs),
         pend \subseteq wider, wider \cap DOMAIN a \subseteq pend,
         \A t \in Tests(b) \ DOMAIN a : TopOf(b, t) \in wider \cup odd
  PROVE  Accounted(b, wider, odd, loose, rs)
<1>1. \A t \in Tests(a) : TopOf(a, t) \in DOMAIN a
  <2>1. Tests(a) \subseteq DOMAIN a \ {Root}
    BY TreeFacts
  <2> QED BY <2>1, TopFacts
<1>2. /\ DOMAIN a \subseteq DOMAIN b
      /\ \A n \in DOMAIN a : TopOf(b, n) = TopOf(a, n) /\ (n \in Tests(b) <=> n \in Tests(a))
  BY SameShape
<1>3. \A t \in Tests(a) : t \in DOMAIN a
  BY TreeFacts
<1> QED BY <1>1, <1>2, <1>3 DEF Accounted

LEMMA AccountedWeaker ==
  ASSUME NEW tree, NEW pend, NEW odd, NEW loose, NEW rs, Accounted(tree, pend, odd, loose, rs),
         NEW odder, odd \subseteq odder, NEW looser, loose \subseteq looser
  PROVE  Accounted(tree, pend, odder, looser, rs)
BY DEF Accounted

(* The tests of the blocks of P are reported: each of them pending, or not    *)
(* yet reported twice.                                                       *)
LEMMA AccountedRuns ==
  ASSUME NEW tree, IsTree(tree), NEW pend, NEW odd, NEW loose, NEW rs,
         Accounted(tree, pend, odd, loose, rs),
         NEW N, N \subseteq DOMAIN tree, NEW new, Lists(new, N, Tests(tree), Reported),
         NEW P, \A t \in Tests(tree) : t \in N <=> TopOf(tree, t) \in P,
         P \cap loose \subseteq pend, NEW after, loose \subseteq after, P \ pend \subseteq after
  PROVE  Accounted(tree, pend \ P, odd, after, rs \o new)
<1> DEFINE all == rs \o new
           T == Tests(tree)
           top(t) == TopOf(tree, t)
<1>1. rs \in Seq(Reported) /\ new \in Seq(Reported) /\ Len(rs) \in Nat /\ Len(new) \in Nat
  BY LenProperties DEF Accounted, Lists
<1>2. /\ all \in Seq(Reported) /\ Len(all) = Len(rs) + Len(new)
      /\ \A i \in 1..Len(rs) + Len(new) : all[i] = IF i <= Len(rs) THEN rs[i] ELSE new[i - Len(rs)]
  BY <1>1, ConcatProperties
<1> HIDE DEF all
<1>3. \A i \in 1..Len(all) : /\ i <= Len(rs) => i \in 1..Len(rs)
                             /\ ~(i <= Len(rs)) => i - Len(rs) \in 1..Len(new)
  BY <1>1, <1>2
<1>4. /\ \A i \in 1..Len(rs) : rs[i].node \in DOMAIN tree
      /\ \A i \in 1..Len(rs) : rs[i].node \in T => top(rs[i].node) \notin pend
      /\ \A i, j \in 1..Len(rs) :
           rs[i].node = rs[j].node /\ rs[i].node \in T /\ top(rs[i].node) \notin loose => i = j
      /\ \A i, j, k \in 1..Len(rs) :
           rs[i].node = rs[j].node /\ rs[j].node = rs[k].node /\ rs[i].node \in T
             => i = j \/ j = k \/ i = k
      /\ \A t \in T : top(t) \notin pend \cup odd => \E i \in 1..Len(rs) : rs[i].node = t
      /\ \A i \in 1..Len(new) : new[i].node \in N
      /\ \A i, j \in 1..Len(new) : new[i].node = new[j].node => i = j
      /\ \A t \in T \cap N : \E i \in 1..Len(new) : new[i].node = t
  BY DEF Accounted, Lists
<1>5. \A t \in T : t \in N <=> top(t) \in P
  OBVIOUS
<1> HIDE DEF top, T
<1>6. \A i \in 1..Len(all) : all[i].node \in DOMAIN tree
  BY <1>2, <1>3, <1>4
<1>7. ASSUME NEW i \in 1..Len(all), all[i].node \in T
      PROVE  IF i <= Len(rs) THEN top(all[i].node) \notin pend ELSE top(all[i].node) \in P
  BY <1>2, <1>3, <1>4, <1>5, <1>7
<1>8. ASSUME NEW i \in 1..Len(all), NEW j \in 1..Len(all), all[i].node = all[j].node, all[i].node \in T,
             i <= Len(rs) <=> j <= Len(rs), i <= Len(rs) => top(all[i].node) \notin loose
      PROVE  i = j
  <2>1. CASE i <= Len(rs)
    <3>1. all[i] = rs[i] /\ all[j] = rs[j] /\ i \in 1..Len(rs) /\ j \in 1..Len(rs)
      BY <1>2, <1>3, <1>8, <2>1
    <3> QED BY <1>4, <1>8, <2>1, <3>1
  <2>2. CASE ~(i <= Len(rs))
    <3>1. /\ all[i] = new[i - Len(rs)] /\ all[j] = new[j - Len(rs)]
          /\ i - Len(rs) \in 1..Len(new) /\ j - Len(rs) \in 1..Len(new)
      BY <1>2, <1>3, <1>8, <2>2
    <3>2. i - Len(rs) = j - Len(rs)
      BY <1>4, <1>8, <3>1
    <3> QED BY <1>1, <3>2
  <2> QED BY <2>1, <2>2
<1>9. ASSUME NEW t \in T, top(t) \notin (pend \ P) \cup odd PROVE \E i \in 1..Len(all) : all[i].node = t
  <2>1. CASE top(t) \in P
    <3>1. PICK i \in 1..Len(new) : new[i].node = t
      BY <1>4, <1>5, <2>1
    <3>2. /\ i + Len(rs) \in 1..Len(rs) + Len(new) /\ ~(i + Len(rs) <= Len(rs))
          /\ (i + Len(rs)) - Len(rs) = i
      BY <1>1
    <3> QED BY <1>2, <3>1, <3>2
  <2>2. CASE top(t) \notin P
    <3>1. PICK i \in 1..Len(rs) : rs[i].node = t
      BY <1>4, <1>9, <2>2
    <3>2. i \in 1..Len(all) /\ all[i] = rs[i]
      BY <1>1, <1>2
    <3> QED BY <3>1, <3>2
  <2> QED BY <2>1, <2>2
<1>10. \A i \in 1..Len(all) : all[i].node \in T => top(all[i].node) \notin pend \ P
  BY <1>7
<1>11. ASSUME NEW i \in 1..Len(all), NEW j \in 1..Len(all), all[i].node = all[j].node, all[i].node \in T,
              top(all[i].node) \notin after
       PROVE  i = j
  <2>1. i <= Len(rs) <=> j <= Len(rs)
    BY <1>7, <1>11
  <2> QED BY <1>8, <1>11, <2>1
<1>12. ASSUME NEW i \in 1..Len(all), NEW j \in 1..Len(all), NEW k \in 1..Len(all),
              all[i].node = all[j].node, all[j].node = all[k].node, all[i].node \in T
       PROVE  i = j \/ j = k \/ i = k
  <2>1. CASE i <= Len(rs) /\ j <= Len(rs) /\ k <= Len(rs)
    <3>1. /\ all[i] = rs[i] /\ all[j] = rs[j] /\ all[k] = rs[k]
          /\ i \in 1..Len(rs) /\ j \in 1..Len(rs) /\ k \in 1..Len(rs)
      BY <1>2, <1>3, <2>1
    <3> QED BY <1>4, <1>12, <3>1
  <2>2. CASE ~(i <= Len(rs) /\ j <= Len(rs) /\ k <= Len(rs))
    <3>1. top(all[i].node) \in P
      BY <1>7, <1>12, <2>2
    <3>2. i <= Len(rs) \/ j <= Len(rs) \/ k <= Len(rs) => top(all[i].node) \notin loose
      BY <1>7, <1>12, <3>1
    <3>3. (i <= Len(rs) <=> j <= Len(rs)) \/ (j <= Len(rs) <=> k <= Len(rs)) \/ (i <= Len(rs) <=> k <= Len(rs))
      OBVIOUS
    <3> QED BY <1>8, <1>12, <3>2, <3>3
  <2> QED BY <2>1, <2>2
<1>13. Accounted(tree, pend \ P, odd, after, all)
  BY <1>2, <1>6, <1>9, <1>10, <1>11, <1>12 DEF Accounted, T, top
<1> QED BY <1>13 DEF all

(* What is below a block, and below the root.                              *)
LEMMA BelowTop ==
  ASSUME NEW e, Env(e)
  PROVE  /\ Below(e, Root) \subseteq DOMAIN e.tree
         /\ \A t \in Tests(e.tree) : t \in Below(e, Root) <=> TopOf(e.tree, t) \in e.top
         /\ \A b \in Blocks(e.tree) :
              /\ Below(e, b) \subseteq DOMAIN e.tree
              /\ \A t \in Tests(e.tree) : t \in Below(e, b) <=> TopOf(e.tree, t) \in {b}
<1>1. \A t \in Tests(e.tree) : t \in DOMAIN e.tree \ {Root}
  BY TreeFacts DEF Env
<1>2. \A t \in Tests(e.tree) : /\ Root \in Path(e.tree, t) /\ TopOf(e.tree, t) \in Path(e.tree, t)
                               /\ \A c \in Path(e.tree, t) \ {Root} :
                                    e.tree[c].parent = Root => c = TopOf(e.tree, t)
  BY <1>1, PathFacts, TopFacts DEF Env
<1> QED BY <1>1, <1>2 DEF Below, Blocks

LEMMA BlockLists ==
  ASSUME NEW tree, IsTree(tree), NEW block \in Blocks(tree), NEW fails, NEW only \in BOOLEAN
  PROVE  LET e == Begin(tree, {block}, FALSE, fails, {})
             o == IF tree[block].kind = "suite" THEN runSuite(block, FALSE, FALSE, only, e)
                  ELSE IF shouldRun(block, FALSE, FALSE, only, e) THEN runTest(Root, block, only, e)
                  ELSE NotRun(block, only, e)
         IN  Env(e) /\ o \in Outcomes /\ Lists(o.results, Below(e, block), Tests(tree), Reported)
<1> DEFINE e == Begin(tree, {block}, FALSE, fails, {})
           T == Tests(tree)
<1>1. e.tree = tree /\ e.top = {block} /\ Env(e)
  BY DEF Env, Begin, Blocks
<1>2. /\ block \in DOMAIN tree /\ block \in Nat /\ Root \in DOMAIN tree
      /\ tree[block].kind # "suite" => block \in T
      /\ tree[block].kind = "suite" => block \in Suites(tree)
  BY TreeFacts DEF Blocks, Tests, Suites
<1> HIDE DEF e, T
<1>3. CASE tree[block].kind = "suite"
  <2> DEFINE o == runSuite(block, FALSE, FALSE, only, e)
  <2>1. o \in Outcomes /\ Lists(o.results, Below(e, block), Tests(e.tree), Reported)
    <3>1. FALSE \in BOOLEAN /\ block \in Suites(e.tree)
      BY <1>1, <1>2, <1>3
    <3> QED BY <1>1, <3>1, RunLists
  <2> QED BY <1>1, <1>3, <2>1 DEF e, T
<1>4. CASE tree[block].kind # "suite"
  <2>1. block \in Tests(e.tree) /\ Below(e, block) = {block}
    BY <1>1, <1>2, <1>4, BelowTest DEF T
  <2>2. \A st \in {"pass", "fail", "skip", "todo"} : [node |-> block, status |-> st] \in Reported
    BY <1>2 DEF Reported
  <2>3. runTest(Root, block, only, e) \in Outcomes
        /\ Lists(runTest(Root, block, only, e).results, {block}, T, Reported)
    <3>1. Root \in DOMAIN e.tree
      BY <1>1, <1>2
    <3> DEFINE st == IF AnyFailing(BodiesOf(Root, block, e), e) THEN "fail" ELSE "pass"
    <3>2. [node |-> block, status |-> st] \in Reported
      BY <2>2
    <3> QED BY <1>1, <2>1, <3>1, <3>2, RunTestLists
  <2>4. NotRun(block, only, e) \in Outcomes
        /\ Lists(NotRun(block, only, e).results, {block}, T, Reported)
    <3> DEFINE st == IF e.tree[block].flag = "todo" THEN "todo" ELSE "skip"
    <3>1. st \in {"pass", "fail", "skip", "todo"} /\ [node |-> block, status |-> st] \in Reported
      BY <2>2
    <3>2. NotRun(block, only, e) = record(block, st, only)
      BY DEF NotRun
    <3> HIDE DEF st
    <3> QED BY <1>2, <3>1, <3>2, RecordLists
  <2> QED BY <1>1, <1>4, <2>1, <2>3, <2>4 DEF e, T
<1> QED BY <1>3, <1>4

(* What an execution adds is what follows in the results.                   *)
LEMMA Added ==
  ASSUME NEW S, NEW rs \in Seq(S), NEW new \in Seq(S)
  PROVE  SubSeq(rs \o new, Len(rs) + 1, Len(rs \o new)) = new
<1>1. Len(rs) \in Nat /\ Len(new) \in Nat
  BY LenProperties
<1>2. /\ rs \o new \in Seq(S) /\ Len(rs \o new) = Len(rs) + Len(new)
      /\ \A i \in 1..Len(rs) + Len(new) :
           (rs \o new)[i] = IF i <= Len(rs) THEN rs[i] ELSE new[i - Len(rs)]
  BY ConcatProperties
<1> DEFINE all == rs \o new
           sub == SubSeq(all, Len(rs) + 1, Len(all))
<1> HIDE DEF all
<1>3. sub = [i \in 1..Len(new) |-> all[i + Len(rs)]]
  <2>1. Len(all) - (Len(rs) + 1) + 1 = Len(new)
    BY <1>1, <1>2 DEF all
  <2> QED BY <1>1, <1>2, <2>1 DEF all
<1>4. \A i \in 1..Len(new) : all[i + Len(rs)] = new[i]
  <2>1. \A i \in 1..Len(new) : /\ i + Len(rs) \in 1..Len(rs) + Len(new) /\ ~(i + Len(rs) <= Len(rs))
                               /\ (i + Len(rs)) - Len(rs) = i
    BY <1>1
  <2> QED BY <1>2, <2>1 DEF all
<1>5. new = [i \in 1..Len(new) |-> new[i]]
  BY <1>1
<1>6. sub = new
  BY <1>3, <1>4, <1>5
<1> QED BY <1>6 DEF all

LEMMA FailedJoin ==
  ASSUME NEW S, NEW rs \in Seq(S), NEW new \in Seq(S), ~Failed(rs), ~Failed(new)
  PROVE  ~Failed(rs \o new)
<1>1. Len(rs) \in Nat /\ Len(new) \in Nat /\ DOMAIN rs = 1..Len(rs) /\ DOMAIN new = 1..Len(new)
  BY LenProperties
<1> DEFINE all == rs \o new
<1>2. /\ DOMAIN all = 1..Len(rs) + Len(new)
      /\ \A i \in 1..Len(rs) + Len(new) : all[i] = IF i <= Len(rs) THEN rs[i] ELSE new[i - Len(rs)]
  BY <1>1, ConcatProperties, LenProperties
<1> HIDE DEF all
<1>3. \A i \in 1..Len(rs) + Len(new) : /\ i <= Len(rs) => i \in 1..Len(rs)
                                       /\ ~(i <= Len(rs)) => i - Len(rs) \in 1..Len(new)
  BY <1>1
<1>4. ~Failed(all)
  BY <1>1, <1>2, <1>3 DEF Failed
<1> QED BY <1>4 DEF all

LEMMA RunBlock ==
  ASSUME NEW tree, IsTree(tree), NEW block \in Blocks(tree), usedOnly \in BOOLEAN,
         NEW pend, NEW loose, Accounted(tree, pend, cut, loose, results), cut = {} => ~Failed(results),
         NEW after, loose \subseteq after, block \in pend \/ (block \notin loose /\ block \in after),
         RunImmediately(block, tree)
  PROVE  /\ Accounted(tree, pend \ {block}, cut, after, results')
         /\ usedOnly' \in BOOLEAN /\ executedTopLevel' = TRUE /\ pending' = pending \ {block}
         /\ exit' \in {"none", "failed"} /\ (exit' = "none" /\ cut = {} => ~Failed(results'))
<1>1. PICK fails \in FailingSets(tree) :
        LET e == Begin(tree, {block}, FALSE, fails, {})
        IN Finish(IF tree[block].kind = "suite" THEN runSuite(block, FALSE, FALSE, usedOnly, e)
                  ELSE IF shouldRun(block, FALSE, FALSE, usedOnly, e) THEN runTest(Root, block, usedOnly, e)
                  ELSE NotRun(block, usedOnly, e), e)
  BY DEF RunImmediately
<1> DEFINE e == Begin(tree, {block}, FALSE, fails, {})
           o == IF tree[block].kind = "suite" THEN runSuite(block, FALSE, FALSE, usedOnly, e)
                ELSE IF shouldRun(block, FALSE, FALSE, usedOnly, e) THEN runTest(Root, block, usedOnly, e)
                ELSE NotRun(block, usedOnly, e)
<1>2. Env(e) /\ o \in Outcomes /\ Lists(o.results, Below(e, block), Tests(tree), Reported)
  BY BlockLists
<1>3. e.tree = tree /\ results' = results \o o.results /\ usedOnly' = o.only
  BY <1>1 DEF Finish, Begin
<1>4. /\ executedTopLevel' = TRUE /\ pending' = pending \ {block}
      /\ exit' = IF Failed(SubSeq(results', Len(results) + 1, Len(results'))) THEN "failed" ELSE "none"
  BY DEF RunImmediately
<1> HIDE DEF e, o
<1>5. o.results \in Seq(Reported) /\ o.only \in BOOLEAN /\ results \in Seq(Reported)
  BY <1>2 DEF Outcomes, Accounted
<1>6. /\ Below(e, block) \subseteq DOMAIN tree
      /\ \A t \in Tests(tree) : t \in Below(e, block) <=> TopOf(tree, t) \in {block}
  BY <1>2, <1>3, BelowTop
<1>7. Accounted(tree, pend \ {block}, cut, after, results')
  <2> DEFINE P == {block}
             N == Below(e, block)
  <2>1. P \cap loose \subseteq pend /\ P \ pend \subseteq after /\ N \subseteq DOMAIN tree /\ (\A t \in Tests(tree) : t \in N <=> TopOf(tree, t) \in P)
        /\ Lists(o.results, N, Tests(tree), Reported)
    BY <1>2, <1>6
  <2> HIDE DEF P, N
  <2>2. Accounted(tree, pend \ P, cut, after, results \o o.results)
    BY <2>1, AccountedRuns
  <2> QED BY <1>3, <2>2 DEF P
<1>8. SubSeq(results', Len(results) + 1, Len(results')) = o.results
  BY <1>3, <1>5, Added
<1>9. ~Failed(results) /\ ~Failed(o.results) => ~Failed(results')
  BY <1>3, <1>5, FailedJoin
<1> QED BY <1>3, <1>4, <1>5, <1>7, <1>8, <1>9

-----------------------------------------------------------------------------
(* One lemma per action.                                                   *)

LEMMA ChainEnds ==
  ASSUME NEW tree, IsTree(tree)
  PROVE  /\ \A n \in DOMAIN tree : Last(Chain(tree, n)) = n
         /\ \A n \in DOMAIN tree \ {Root} : Front(Chain(tree, n)) = Chain(tree, tree[n].parent)
<1>1. Last(Chain(tree, Root)) = Root
  <2>1. Last(<<Root>>) = Root
    BY DEF Last
  <2> QED BY <2>1, ChainStep
<1>2. ASSUME NEW n \in DOMAIN tree \ {Root}
      PROVE  Last(Chain(tree, n)) = n /\ Front(Chain(tree, n)) = Chain(tree, tree[n].parent)
  <2> DEFINE c == Chain(tree, tree[n].parent)
  <2>1. Chain(tree, n) = Append(c, n) /\ c \in Seq(Nat) /\ n \in Nat
    BY ChainStep, TreeFacts, Zenon
  <2> HIDE DEF c
  <2>2. Last(Append(c, n)) = n /\ Front(Append(c, n)) = c
    BY <2>1 DEF Last, Front
  <2> QED BY <2>1, <2>2 DEF c
<1> QED BY <1>1, <1>2

(* A node declared in the current suite: what no execution has changed yet. *)
LEMMA DeclaredInside ==
  ASSUME RunnerInv, NEW node \in Nodes, node.parent = Current
  PROVE  LET b == Append(nodes, node)
             new == Len(nodes) + 1
             wider == IF Current = Root THEN pending \cup {new} ELSE pending
         IN  /\ IsTree(b) /\ b[new] = node /\ new \in DOMAIN b /\ new # Root /\ new \notin pending
             /\ Current = Root => new \in Blocks(b)
             /\ pending \subseteq Blocks(b) /\ wider \subseteq Blocks(b) /\ cut \subseteq Blocks(b)
             /\ Current \in Suites(b) /\ open = Chain(b, Current) /\ new \notin cut
             /\ Current # Root => /\ TopOf(b, Current) \in pending \cup cut
                                  /\ TopOf(b, Current) = TopOf(nodes, Current)
             /\ Chain(b, new) = Append(open, new) /\ TopOf(b, new) \in wider \cup cut
             /\ TopOf(b, new) = IF Current = Root THEN new ELSE TopOf(nodes, Current)
             /\ Accounted(b, wider, cut, Complete, results)
<1> DEFINE b == Append(nodes, node)
           new == Len(nodes) + 1
           wider == IF Current = Root THEN pending \cup {new} ELSE pending
<1>1. IsTree(nodes) /\ Current \in Suites(nodes) /\ Current \in DOMAIN nodes
      /\ pending \subseteq DOMAIN nodes /\ cut \subseteq DOMAIN nodes
  <2>1. /\ IsTree(nodes) /\ Current \in Suites(nodes)
        /\ pending \subseteq Blocks(nodes) /\ cut \subseteq Blocks(nodes)
    BY DEF RunnerInv
  <2> QED BY <2>1, TreeFacts DEF Blocks
<1>2. /\ IsTree(b) /\ Extends(b, nodes) /\ DOMAIN b = DOMAIN nodes \cup {new}
      /\ new \notin DOMAIN nodes /\ new # Root /\ b[new] = node
      /\ Chain(b, new) = Append(Chain(nodes, Current), new)
      /\ TopOf(b, new) = IF Current = Root THEN new ELSE TopOf(nodes, Current)
  BY <1>1, Declared
<1> HIDE DEF b, new
<1>3. \A n \in DOMAIN nodes : /\ Chain(b, n) = Chain(nodes, n) /\ TopOf(b, n) = TopOf(nodes, n)
                              /\ n \in Suites(b) <=> n \in Suites(nodes)
                              /\ n \in Blocks(b) <=> n \in Blocks(nodes)
  BY <1>1, <1>2, SameShape
<1>4. new \notin pending /\ new \notin cut /\ (Current = Root => new \in Blocks(b))
  BY <1>1, <1>2 DEF Blocks
<1>5. open = Chain(nodes, Current) /\ (Current # Root => TopOf(nodes, Current) \in pending \cup cut)
      /\ pending \subseteq Blocks(nodes) /\ cut \subseteq Blocks(nodes)
      /\ Accounted(nodes, pending, cut, Complete, results)
  BY DEF RunnerInv
<1>6. TopOf(b, new) \in wider \cup cut
  BY <1>2, <1>5
<1>7. pending \subseteq Blocks(b) /\ wider \subseteq Blocks(b) /\ cut \subseteq Blocks(b)
  BY <1>1, <1>3, <1>4, <1>5
<1>8. Accounted(b, wider, cut, Complete, results)
  <2>1. pending \subseteq wider /\ wider \cap DOMAIN nodes \subseteq pending
    BY <1>2
  <2>2. \A t \in Tests(b) \ DOMAIN nodes : TopOf(b, t) \in wider \cup cut
    BY <1>2, <1>6 DEF Tests
  <2> HIDE DEF wider
  <2> QED BY <1>1, <1>2, <1>5, <2>1, <2>2, AccountedGrows
<1> QED BY <1>1, <1>2, <1>3, <1>4, <1>5, <1>6, <1>7, <1>8 DEF b, new

LEMMA NoHooksType ==
  /\ \A s \in Nat, flag \in Flags \cup {"todo", "threw"} :
       /\ Test(s, flag) \in Nodes /\ Test(s, flag).parent = s /\ Test(s, flag).kind = "test"
       /\ Suite(s, flag) \in Nodes /\ Suite(s, flag).parent = s /\ Suite(s, flag).kind = "suite"
BY DEF Test, Suite, Nodes, NoHooks

LEMMA DeclareTestKeeps ==
  ASSUME RunnerInv, NEW flag \in Flags \cup {"todo"}, DeclareTest(flag)
  PROVE  RunnerInv'
<1> DEFINE new == Len(nodes) + 1
           node == Test(Current, flag)
           b == Append(nodes, node)
           wider == IF Current = Root THEN pending \cup {new} ELSE pending
<1>1. node \in Nodes /\ node.parent = Current
  <2>1. Current \in Nat
    BY TreeFacts DEF RunnerInv
  <2> QED BY <2>1, NoHooksType
<1>2. /\ nodes' = b /\ open' = open /\ autoRun' = autoRun /\ Current' = Current /\ exit = "none"
      /\ autoRun \in BOOLEAN /\ usedOnly \in BOOLEAN /\ executedTopLevel \in BOOLEAN /\ cut' = cut
      /\ cut = {} => ~Failed(results)
  BY DEF DeclareTest, Current, MayDeclare, Going, RunnerInv
<1>3. /\ IsTree(b) /\ new \notin pending
      /\ Current = Root => new \in Blocks(b)
      /\ pending \subseteq Blocks(b) /\ wider \subseteq Blocks(b) /\ cut \subseteq Blocks(b)
      /\ Current \in Suites(b) /\ open = Chain(b, Current)
      /\ Current # Root => /\ TopOf(b, Current) \in pending \cup cut
                           /\ TopOf(b, Current) = TopOf(nodes, Current)
      /\ Accounted(b, wider, cut, Complete, results)
  BY <1>1, DeclaredInside
<1>4. Complete' = Complete
  BY <1>2, <1>3 DEF Complete
<1>5. CASE Due(Current)
  <2>1. RunImmediately(new, b) /\ Current = Root
    BY <1>2, <1>5 DEF DeclareTest, Due
  <2> HIDE DEF new, b
  <2>2. new \in wider /\ new \in Blocks(b)
    BY <1>3, <2>1
  <2> HIDE DEF wider
  <2>3. /\ Accounted(b, wider \ {new}, cut, Complete, results')
        /\ usedOnly' \in BOOLEAN /\ executedTopLevel' = TRUE /\ pending' = pending \ {new}
        /\ exit' \in {"none", "failed"} /\ (exit' = "none" /\ cut = {} => ~Failed(results'))
    BY <1>2, <1>3, <2>1, <2>2, RunBlock
  <2>4. wider \ {new} = pending /\ pending' = pending
    BY <1>3, <2>1, <2>3 DEF wider
  <2> QED BY <1>2, <1>3, <1>4, <2>1, <2>3, <2>4 DEF RunnerInv
<1>6. CASE ~Due(Current)
  <2>1. /\ usedOnly' \in BOOLEAN /\ pending' = wider
        /\ executedTopLevel' = executedTopLevel /\ results' = results /\ exit' = exit
    BY <1>2, <1>6 DEF DeclareTest
  <2> HIDE DEF b
  <2>2. Current # Root => TopOf(b, Current) \in wider \cup cut
    BY <1>3
  <2> HIDE DEF wider
  <2> QED BY <1>2, <1>3, <1>4, <2>1, <2>2 DEF RunnerInv
<1> QED BY <1>5, <1>6

LEMMA OpenSuiteKeeps ==
  ASSUME RunnerInv, NEW flag \in Flags, OpenSuite(flag)
  PROVE  RunnerInv'
<1> DEFINE new == Len(nodes) + 1
           node == Suite(Current, flag)
           b == Append(nodes, node)
           wider == IF Current = Root THEN pending \cup {new} ELSE pending
<1>1. node \in Nodes /\ node.parent = Current /\ node.kind = "suite"
  <2>1. Current \in Nat
    BY TreeFacts DEF RunnerInv
  <2> QED BY <2>1, NoHooksType
<1>2. /\ nodes' = b /\ open' = Append(open, new) /\ autoRun' = autoRun /\ exit = "none"
      /\ pending' = wider /\ usedOnly' \in BOOLEAN
      /\ executedTopLevel' = executedTopLevel /\ results' = results /\ exit' = exit /\ cut' = cut
      /\ autoRun \in BOOLEAN /\ executedTopLevel \in BOOLEAN /\ (cut = {} => ~Failed(results))
  BY DEF OpenSuite, MayDeclare, Going, RunnerInv
<1>3. /\ IsTree(b) /\ b[new] = node /\ new \in DOMAIN b /\ new # Root
      /\ wider \subseteq Blocks(b) /\ cut \subseteq Blocks(b) /\ new \notin cut
      /\ Chain(b, new) = Append(open, new) /\ TopOf(b, new) \in wider \cup cut
      /\ TopOf(b, new) = IF Current = Root THEN new ELSE TopOf(nodes, Current)
      /\ Accounted(b, wider, cut, Complete, results)
  BY <1>1, DeclaredInside
<1>4. new \in Suites(b)
  BY <1>1, <1>3 DEF Suites
<1> HIDE DEF new, b, wider
<1>5. Current' = new
  <2>1. Last(Chain(b, new)) = new
    BY <1>3, ChainEnds
  <2> QED BY <1>2, <1>3, <2>1 DEF Current
<1>6. Complete' = Complete
  BY <1>2, <1>3, <1>5 DEF Complete
<1> QED BY <1>2, <1>3, <1>4, <1>5, <1>6 DEF RunnerInv

LEMMA CloseSuiteKeeps ==
  ASSUME RunnerInv, NEW threw \in BOOLEAN, CloseSuite(threw)
  PROVE  RunnerInv'
<1> DEFINE c == Current
           p == nodes[c].parent
           node == Test(c, "threw")
           tree == IF threw THEN Append(nodes, node) ELSE nodes
<1>1. /\ IsTree(nodes) /\ c \in DOMAIN nodes \ {Root} /\ open = Chain(nodes, c)
      /\ TopOf(nodes, c) \in pending \cup cut /\ Complete = cut \ {TopOf(nodes, c)}
      /\ pending \subseteq Blocks(nodes) /\ cut \subseteq Blocks(nodes)
      /\ Accounted(nodes, pending, cut, Complete, results) /\ c \in Nat
      /\ autoRun \in BOOLEAN /\ usedOnly \in BOOLEAN /\ executedTopLevel \in BOOLEAN
      /\ cut = {} => ~Failed(results)
  <2>1. IsTree(nodes) /\ c \in Suites(nodes) /\ c # Root
    BY DEF RunnerInv, CloseSuite
  <2>2. c \in DOMAIN nodes /\ c \in Nat
    BY <2>1, TreeFacts
  <2> QED BY <2>1, <2>2 DEF RunnerInv, CloseSuite, Going, Complete
<1>2. p \in DOMAIN nodes /\ p \in Suites(nodes)
  BY <1>1, TreeFacts DEF Suites
<1>3. IsTree(tree) /\ Extends(tree, nodes) /\ Accounted(tree, pending, cut, Complete, results)
  <2>1. CASE threw
    <3>1. node \in Nodes /\ node.parent = Current
      BY <1>1, NoHooksType
    <3>2. IsTree(Append(nodes, node)) /\ Accounted(Append(nodes, node), pending, cut, Complete, results)
      BY <1>1, <3>1, DeclaredInside
    <3>3. Extends(Append(nodes, node), nodes)
      <4>1. c \in Suites(nodes)
        BY DEF RunnerInv
      <4> QED BY <1>1, <3>1, <4>1, Declared
    <3> QED BY <2>1, <3>2, <3>3
  <2>2. CASE ~threw
    <3>1. Extends(nodes, nodes)
      <4>1. Len(nodes) \in Nat
        BY <1>1, TreeFacts
      <4> QED BY <4>1 DEF Extends
    <3> QED BY <1>1, <2>2, <3>1
  <2> QED BY <2>1, <2>2
<1>4. \A n \in DOMAIN nodes : /\ Chain(tree, n) = Chain(nodes, n) /\ TopOf(tree, n) = TopOf(nodes, n)
                              /\ n \in Suites(tree) <=> n \in Suites(nodes)
                              /\ n \in Blocks(tree) <=> n \in Blocks(nodes)
  BY <1>1, <1>3, SameShape
<1>5. /\ nodes' = tree /\ open' = Front(open) /\ autoRun' = autoRun /\ cut' = cut
      /\ IF Due(p) THEN RunImmediately(c, nodes')
         ELSE exit' = "none" /\ UNCHANGED <<pending, usedOnly, executedTopLevel, results, exec>>
  BY DEF CloseSuite
<1> HIDE DEF tree, c, p
<1>6. open' = Chain(tree, p)
  BY <1>1, <1>2, <1>4, <1>5, ChainEnds DEF p
<1>7. Current' = p
  <2>1. Last(Chain(nodes, p)) = p /\ Chain(tree, p) = Chain(nodes, p)
    BY <1>1, <1>2, <1>4, ChainEnds
  <2> QED BY <1>6, <2>1 DEF Current
<1>8. pending \subseteq Blocks(tree) /\ cut \subseteq Blocks(tree) /\ p \in Suites(tree)
  BY <1>1, <1>2, <1>4 DEF Blocks
<1>9. TopOf(nodes, c) = IF p = Root THEN c ELSE TopOf(nodes, p)
  BY <1>1, TopStep DEF p
<1>10. p # Root => TopOf(tree, p) \in pending \cup cut
  BY <1>1, <1>2, <1>4, <1>9
<1>11. Complete' = IF p = Root THEN cut ELSE Complete
  BY <1>1, <1>2, <1>4, <1>5, <1>7, <1>9 DEF Complete
<1>12. CASE Due(p)
  <2>1. /\ RunImmediately(c, tree) /\ p = Root /\ c \in Blocks(tree)
        /\ c \in pending \/ c \in cut \ Complete
        /\ Complete \subseteq cut
    BY <1>1, <1>5, <1>8, <1>9, <1>12 DEF Due
  <2>2. /\ Accounted(tree, pending \ {c}, cut, cut, results')
        /\ usedOnly' \in BOOLEAN /\ executedTopLevel' = TRUE /\ pending' = pending \ {c}
        /\ exit' \in {"none", "failed"} /\ (exit' = "none" /\ cut = {} => ~Failed(results'))
    BY <1>1, <1>3, <2>1, RunBlock
  <2>3. Accounted(tree, pending', cut', Complete', results')
    BY <1>5, <1>11, <2>1, <2>2
  <2> QED BY <1>1, <1>3, <1>5, <1>6, <1>7, <1>8, <2>1, <2>2, <2>3 DEF RunnerInv
<1>13. CASE ~Due(p)
  <2>1. UNCHANGED <<pending, usedOnly, executedTopLevel, results>> /\ exit' = "none"
    BY <1>5, <1>13
  <2>2. Complete \subseteq Complete'
    BY <1>1, <1>11
  <2>3. Accounted(tree, pending, cut, Complete', results)
    BY <1>3, <2>2, AccountedWeaker
  <2> QED BY <1>1, <1>3, <1>5, <1>6, <1>7, <1>8, <1>10, <2>1, <2>3 DEF RunnerInv
<1> QED BY <1>12, <1>13

(* What does not depend on the hooks.                                       *)
LEMMA ShapeKept ==
  ASSUME RunnerInv, NEW b, IsTree(b), Extends(b, nodes), DOMAIN b = DOMAIN nodes
  PROVE  /\ pending \subseteq Blocks(b) /\ cut \subseteq Blocks(b)
         /\ Current \in Suites(b) /\ open = Chain(b, Current) /\ TopOf(b, Current) = TopOf(nodes, Current)
         /\ \A pend, odd, loose, rs :
              Accounted(nodes, pend, odd, loose, rs) => Accounted(b, pend, odd, loose, rs)
<1>1. /\ IsTree(nodes) /\ Current \in Suites(nodes)
      /\ pending \subseteq Blocks(nodes) /\ cut \subseteq Blocks(nodes)
  BY DEF RunnerInv
<1>2. Current \in DOMAIN nodes /\ pending \subseteq DOMAIN nodes /\ cut \subseteq DOMAIN nodes
  BY <1>1, TreeFacts DEF Blocks
<1>3. \A n \in DOMAIN nodes : /\ Chain(b, n) = Chain(nodes, n) /\ TopOf(b, n) = TopOf(nodes, n)
                              /\ n \in Suites(b) <=> n \in Suites(nodes)
                              /\ n \in Blocks(b) <=> n \in Blocks(nodes)
  BY <1>1, SameShape
<1>4. ASSUME NEW pend, NEW odd, NEW loose, NEW rs, Accounted(nodes, pend, odd, loose, rs)
      PROVE  Accounted(b, pend, odd, loose, rs)
  <2>1. Tests(b) \ DOMAIN nodes = {}
    BY DEF Tests
  <2> QED BY <1>1, <1>4, <2>1, AccountedGrows
<1> QED BY <1>1, <1>2, <1>3, <1>4 DEF RunnerInv

LEMMA DeclareHookKeeps ==
  ASSUME RunnerInv, NEW kind \in Kinds, DeclareHook(kind)
  PROVE  RunnerInv'
<1> DEFINE s == Current
           hooks == [nodes[s].hooks EXCEPT ![kind] = @ + 1]
           b == [nodes EXCEPT ![s].hooks = hooks]
<1>1. IsTree(nodes) /\ s \in Suites(nodes) /\ s \in DOMAIN nodes
  <2>1. IsTree(nodes) /\ s \in Suites(nodes)
    BY DEF RunnerInv
  <2> QED BY <2>1, TreeFacts
<1>2. hooks \in [Kinds -> Nat]
  <2>1. nodes[s].hooks \in [Kinds -> Nat]
    BY <1>1, TreeFacts DEF Nodes
  <2> QED BY <2>1
<1>3. /\ nodes' = b
      /\ UNCHANGED <<pending, cut, open, autoRun, usedOnly, executedTopLevel, results, exec, exit>>
  BY DEF DeclareHook
<1>4. IsTree(b) /\ Extends(b, nodes) /\ DOMAIN b = DOMAIN nodes
  BY <1>1, <1>2, HooksChange
<1> HIDE DEF b, s
<1>5. /\ pending \subseteq Blocks(b) /\ cut \subseteq Blocks(b)
      /\ Current \in Suites(b) /\ open = Chain(b, Current)
      /\ TopOf(b, Current) = TopOf(nodes, Current)
      /\ Accounted(b, pending, cut, Complete, results)
  <2>1. Accounted(nodes, pending, cut, Complete, results)
    BY DEF RunnerInv
  <2> QED BY <1>4, <2>1, ShapeKept
<1>6. Current' = Current
  BY <1>3 DEF Current
<1>7. Complete' = Complete
  BY <1>3, <1>5, <1>6 DEF Complete
<1> QED BY <1>3, <1>4, <1>5, <1>6, <1>7 DEF RunnerInv

(* Two hooks of a suite are dropped, one after the other, or together. *)
InTwoSteps(tree, s, j, k) == [tree EXCEPT ![s].hooks[j] = 0, ![s].hooks[k] = 0]
InOneStep(tree, s, j, k) == [tree EXCEPT ![s].hooks = [tree[s].hooks EXCEPT ![j] = 0, ![k] = 0]]

LEMMA TwoHooks ==
  ASSUME NEW tree, IsTree(tree), NEW s \in DOMAIN tree, NEW j \in Kinds, NEW k \in Kinds
  PROVE  InTwoSteps(tree, s, j, k) = InOneStep(tree, s, j, k)
<1> DEFINE node == tree[s]
           h1 == [node.hooks EXCEPT ![j] = 0]
           h2 == [h1 EXCEPT ![k] = 0]
           node1 == [node EXCEPT !.hooks = h1]
           tree1 == [tree EXCEPT ![s] = node1]
<1>1. node \in Nodes /\ tree \in [DOMAIN tree -> Nodes]
  <2>1. tree \in Seq(Nodes) /\ DOMAIN tree = 1..Len(tree)
    BY TreeFacts DEF IsTree
  <2> QED BY <2>1
<1>2. node1.hooks = h1 /\ [node1 EXCEPT !.hooks = h2] = [node EXCEPT !.hooks = h2]
  <2> HIDE DEF h1, h2
  <2> QED BY <1>1 DEF Nodes
<1>3. tree1[s] = node1 /\ \A x : [tree1 EXCEPT ![s] = x] = [tree EXCEPT ![s] = x]
  <2> HIDE DEF node1
  <2> QED BY <1>1
<1> HIDE DEF node, node1, tree1, h1
<1>4. [tree1 EXCEPT ![s] = [tree1[s] EXCEPT !.hooks = [tree1[s].hooks EXCEPT ![k] = 0]]]
        = [tree EXCEPT ![s] = [node EXCEPT !.hooks = h2]]
  BY <1>2, <1>3
<1> QED BY <1>4 DEF node, node1, tree1, h1, InTwoSteps, InOneStep

(* What run() finds half collected is the block of the current suite.       *)
LEMMA HalfCollected ==
  ASSUME RunnerInv
  PROVE  ToSet(open) \cap pending
           = IF Current = Root THEN {} ELSE {TopOf(nodes, Current)} \cap pending
<1>1. /\ IsTree(nodes) /\ pending \subseteq Blocks(nodes) /\ Current \in DOMAIN nodes
      /\ ToSet(open) = Path(nodes, Current)
  <2>1. IsTree(nodes) /\ Current \in Suites(nodes)
    BY DEF RunnerInv
  <2> QED BY <2>1, TreeFacts DEF RunnerInv, Path
<1>2. CASE Current = Root
  <2>1. Path(nodes, Root) = {Root}
    BY <1>1, PathStep
  <2> QED BY <1>1, <1>2, <2>1 DEF Blocks
<1>3. CASE Current # Root
  <2>1. /\ TopOf(nodes, Current) \in Path(nodes, Current)
        /\ \A c \in Path(nodes, Current) \ {Root} :
             nodes[c].parent = Root => c = TopOf(nodes, Current)
    BY <1>1, <1>3, TopFacts
  <2> QED BY <1>1, <1>3, <2>1 DEF Blocks
<1> QED BY <1>2, <1>3

LEMMA RunKeeps ==
  ASSUME RunnerInv, Run
  PROVE  RunnerInv'
<1>1. /\ IsTree(nodes) /\ pending \subseteq Blocks(nodes) /\ cut \subseteq Blocks(nodes)
      /\ Accounted(nodes, pending, cut, Complete, results)
      /\ Root \in Suites(nodes) /\ Root \in DOMAIN nodes /\ usedOnly \in BOOLEAN /\ exit = "none"
      /\ Current # Root => TopOf(nodes, Current) \in pending \cup cut
  <2>1. IsTree(nodes)
    BY DEF RunnerInv
  <2> QED BY <2>1, TreeFacts DEF RunnerInv, Run, Going
<1>2. /\ UNCHANGED <<open, autoRun, executedTopLevel>> /\ Current' = Current
      /\ exit' \in {"none", "raised", "failed"} /\ (exit' = "none" => ~Failed(results'))
      /\ exit' = "raised" => Current # Root
  BY <1>1 DEF Run, Current
<1>3. /\ cut' = IF Current = Root THEN cut ELSE cut \cup ({TopOf(nodes, Current)} \cap pending)
      /\ cut' \subseteq Blocks(nodes) /\ cut \subseteq cut'
      /\ Current # Root => TopOf(nodes, Current) \in cut'
  BY <1>1, HalfCollected DEF Run
<1>4. \A b : TopOf(b, Current) = TopOf(nodes, Current) =>
         (IF Current = Root THEN cut' ELSE cut' \ {TopOf(b, Current)}) = Complete
  BY <1>3 DEF Complete
<1>5. CASE pending # {} \/ nodes[Root].hooks["beforeAll"] > 0
  <2> DEFINE hooks == [nodes[Root].hooks EXCEPT !["beforeAll"] = 0, !["afterAll"] = 0]
             b == [nodes EXCEPT ![Root].hooks = hooks]
  <2>0. PICK fails \in FailingSets(nodes) : \E focusing \in SUBSET fails :
          LET e == Begin(nodes, pending, TRUE, fails \ focusing, focusing)
          IN Finish(runSuite(Root, FALSE, FALSE, usedOnly, e), e)
    BY <1>5 DEF Run
  <2>1. PICK focusing \in SUBSET fails :
          LET e == Begin(nodes, pending, TRUE, fails \ focusing, focusing)
          IN Finish(runSuite(Root, FALSE, FALSE, usedOnly, e), e)
    BY <2>0
  <2> DEFINE e == Begin(nodes, pending, TRUE, fails \ focusing, focusing)
             o == runSuite(Root, FALSE, FALSE, usedOnly, e)
  <2>2. /\ e.tree = nodes /\ e.top = pending /\ Env(e)
        /\ results' = results \o o.results /\ usedOnly' = o.only
    BY <1>1, <2>1 DEF Begin, Env, Blocks, Finish
  <2>3. pending' = {} /\ nodes' = b
    <3>1. "beforeAll" \in Kinds /\ "afterAll" \in Kinds
      BY DEF Kinds
    <3>2. pending' = {} /\ nodes' = InTwoSteps(nodes, Root, "beforeAll", "afterAll")
      BY <1>5 DEF Run, InTwoSteps
    <3>3. InTwoSteps(nodes, Root, "beforeAll", "afterAll") = InOneStep(nodes, Root, "beforeAll", "afterAll")
      BY <1>1, <3>1, TwoHooks
    <3>4. InOneStep(nodes, Root, "beforeAll", "afterAll") = b
      BY DEF InOneStep
    <3> HIDE DEF b
    <3> QED BY <3>2, <3>3, <3>4
  <2> HIDE DEF e, b
  <2>4. o \in Outcomes /\ Lists(o.results, Below(e, Root), Tests(nodes), Reported)
    <3>1. FALSE \in BOOLEAN /\ Root \in Suites(e.tree)
      BY <1>1, <2>2
    <3> QED BY <1>1, <2>2, <3>1, RunLists
  <2> HIDE DEF o
  <2>5. o.only \in BOOLEAN
    BY <2>4 DEF Outcomes
  <2>6. Accounted(nodes, pending \ pending, cut, Complete, results')
    <3> DEFINE N == Below(e, Root)
    <3>1. N \subseteq DOMAIN nodes /\ \A t \in Tests(nodes) : t \in N <=> TopOf(nodes, t) \in pending
      BY <2>2, BelowTop
    <3>2. /\ Lists(o.results, N, Tests(nodes), Reported)
          /\ pending \cap Complete \subseteq pending /\ pending \ pending \subseteq Complete
      BY <2>4
    <3> HIDE DEF N
    <3>3. Accounted(nodes, pending \ pending, cut, Complete, results \o o.results)
      BY <1>1, <3>1, <3>2, AccountedRuns
    <3> QED BY <2>2, <3>3
  <2>7. hooks \in [Kinds -> Nat]
    <3>1. nodes[Root].hooks \in [Kinds -> Nat]
      BY <1>1, TreeFacts DEF Nodes
    <3> QED BY <3>1
  <2>8. IsTree(b) /\ Extends(b, nodes) /\ DOMAIN b = DOMAIN nodes
    BY <1>1, <2>7, HooksChange DEF b
  <2>9. /\ Current \in Suites(b) /\ open = Chain(b, Current) /\ TopOf(b, Current) = TopOf(nodes, Current)
        /\ Accounted(b, {}, cut', Complete, results')
    <3>1. pending \ pending = {}
      OBVIOUS
    <3>2. Accounted(nodes, {}, cut', Complete, results')
      BY <1>3, <2>6, <3>1, AccountedWeaker
    <3> QED BY <2>8, <3>2, ShapeKept
  <2>10. cut' \subseteq Blocks(b)
    <3>1. \A n \in DOMAIN nodes : n \in Blocks(b) <=> n \in Blocks(nodes)
      BY <1>1, <2>8, SameShape
    <3> QED BY <1>3, <3>1 DEF Blocks
  <2>11. Complete' = Complete
    BY <1>2, <1>4, <2>3, <2>9 DEF Complete
  <2> QED BY <1>1, <1>2, <1>3, <2>2, <2>3, <2>5, <2>8, <2>9, <2>10, <2>11 DEF RunnerInv
<1>6. CASE ~(pending # {} \/ nodes[Root].hooks["beforeAll"] > 0)
  <2>1. UNCHANGED <<nodes, pending, usedOnly, results>>
    BY <1>6 DEF Run
  <2>2. Complete' = Complete
    BY <1>2, <1>4, <2>1 DEF Complete
  <2>3. Accounted(nodes, pending, cut', Complete, results)
    BY <1>1, <1>3, AccountedWeaker
  <2> QED BY <1>1, <1>2, <1>3, <2>1, <2>2, <2>3 DEF RunnerInv
<1> QED BY <1>5, <1>6

LEMMA InitRunnerInv == Init => RunnerInv
<1> SUFFICES ASSUME Init PROVE RunnerInv
  OBVIOUS
<1> DEFINE root == Suite(0, "plain")
<1>1. root \in Nodes /\ root.kind = "suite" /\ root.parent = 0
  BY NoHooksType DEF Flags
<1>2. /\ nodes = <<root>> /\ pending = {} /\ cut = {} /\ open = <<Root>> /\ autoRun = TRUE /\ usedOnly = FALSE
      /\ executedTopLevel = FALSE /\ results = <<>> /\ exit = "none"
  BY DEF Init
<1> HIDE DEF root
<1>3. nodes \in Seq(Nodes) /\ Len(nodes) = 1 /\ nodes[1] = root /\ DOMAIN nodes = 1..1
  BY <1>1, <1>2
<1>4. IsTree(nodes)
  <2>1. \A n \in 2..Len(nodes) : FALSE
    BY <1>3
  <2> QED BY <1>1, <1>3, <2>1 DEF IsTree, Root
<1>5. Current = Root
  BY <1>2 DEF Current, Last
<1>6. open = Chain(nodes, Root) /\ Root \in Suites(nodes) /\ DOMAIN nodes = {Root}
  <2>1. DOMAIN nodes = {Root}
    BY <1>3 DEF Root
  <2> QED BY <1>2, <1>4, <2>1, ChainStep, TreeFacts
<1>7. Accounted(nodes, pending, cut, Complete, results)
  <2>1. Tests(nodes) = {}
    BY <1>6 DEF Tests
  <2>2. results \in Seq(Reported) /\ Len(results) = 0
    BY <1>2, EmptySeq
  <2> QED BY <2>1, <2>2 DEF Accounted
<1>8. ~Failed(results)
  BY <1>2 DEF Failed
<1> QED BY <1>2, <1>4, <1>5, <1>6, <1>7, <1>8 DEF RunnerInv

LEMMA RunnerInvStep ==
  ASSUME RunnerInv, [Next]_vars
  PROVE  RunnerInv'
<1>1. CASE UNCHANGED vars
  BY <1>1 DEF vars, RunnerInv, Current, Complete
<1>2. ASSUME NEW flag \in Flags \cup {"todo"}, DeclareTest(flag) PROVE RunnerInv'
  BY <1>2, DeclareTestKeeps
<1>3. ASSUME NEW flag \in Flags, OpenSuite(flag) PROVE RunnerInv'
  BY <1>3, OpenSuiteKeeps
<1>4. ASSUME NEW threw \in BOOLEAN, CloseSuite(threw) PROVE RunnerInv'
  BY <1>4, CloseSuiteKeeps
<1>5. ASSUME NEW kind \in Kinds, DeclareHook(kind) PROVE RunnerInv'
  BY <1>5, DeclareHookKeeps
<1>6. CASE Configure
  BY <1>6 DEF Configure, RunnerInv, Current, Complete
<1>7. CASE Run
  BY <1>7, RunKeeps
<1>8. CASE ScriptEnds
  BY <1>8 DEF ScriptEnds, RunnerInv, Current, Going, hasPending, Complete
<1> QED BY <1>1, <1>2, <1>3, <1>4, <1>5, <1>6, <1>7, <1>8 DEF Next

(* The invariant of the runner: the declared suites and tests are a tree,    *)
(* the open describe bodies its path to the current suite, and the tests     *)
(* reported are, once each, those of the blocks that have been executed; but *)
(* for the blocks whose describe body calls run(), whose tests are reported  *)
(* at most twice, and at most once while they are collected (runner.ts: run, *)
(* runImmediately).                                                          *)
THEOREM SpecRunnerInv == Spec => []RunnerInv
<1>1. RunnerInv /\ [Next]_vars => RunnerInv'
  BY RunnerInvStep
<1> QED BY <1>1, InitRunnerInv, PTL DEF Spec

LEMMA AtMostTwo ==
  ASSUME NEW n \in Nat, NEW S \in SUBSET (1..n),
         \A i, j, k \in S : i = j \/ j = k \/ i = k
  PROVE  Cardinality(S) <= 2
<1>1. PICK i, j : S \subseteq {i, j}
  <2>1. CASE S = {}
    BY <2>1
  <2>2. CASE S # {}
    <3>1. PICK i \in S : TRUE
      BY <2>2
    <3>2. CASE S = {i}
      BY <3>2
    <3>3. CASE S # {i}
      <4>1. PICK j \in S : j # i
        BY <3>1, <3>3
      <4>2. S \subseteq {i, j}
        BY <4>1
      <4> QED BY <4>2
    <3> QED BY <3>2, <3>3
  <2> QED BY <2>1, <2>2
<1>2. /\ IsFiniteSet({}) /\ Cardinality({}) = 0
      /\ IsFiniteSet({i}) /\ Cardinality({i}) <= 1
      /\ IsFiniteSet({i, j}) /\ Cardinality({i, j}) <= 2
  <2>1. IsFiniteSet({}) /\ Cardinality({}) = 0 /\ IsFiniteSet({i}) /\ Cardinality({i}) = 1
    BY FS_EmptySet, FS_Singleton
  <2> DEFINE one == {i}
  <2>2. IsFiniteSet(one) /\ Cardinality(one) = 1
    BY <2>1
  <2> HIDE DEF one
  <2>3. /\ IsFiniteSet(one \cup {j})
        /\ Cardinality(one \cup {j}) = IF j \in one THEN Cardinality(one) ELSE Cardinality(one) + 1
    BY <2>2, FS_AddElement
  <2>4. IsFiniteSet(one \cup {j}) /\ Cardinality(one \cup {j}) <= 2
    BY <2>2, <2>3
  <2>5. one \cup {j} = {i, j}
    BY DEF one
  <2> QED BY <2>1, <2>4, <2>5
<1> DEFINE two == {i, j}
<1>3. IsFiniteSet(two) /\ Cardinality(two) <= 2 /\ S \subseteq two
  BY <1>1, <1>2
<1> HIDE DEF two
<1>4. IsFiniteSet(S) /\ Cardinality(S) <= Cardinality(two)
  BY <1>3, FS_Subset
<1>5. Cardinality(S) \in Nat /\ Cardinality(two) \in Nat
  BY <1>3, <1>4, FS_CardinalityType
<1> QED BY <1>3, <1>4, <1>5

(* A test is reported exactly once, as soon as its top-level block has been  *)
(* executed, whatever the script declares, in either mode and with any       *)
(* bodies failing (runner.ts: "so run() does not execute it again"); but a   *)
(* test of a block whose describe body calls run(), at most twice.           *)
THEOREM SpecReportedOnce == Spec => []ReportedOnce
<1>1. RunnerInv => ReportedOnce
  <2> SUFFICES ASSUME RunnerInv, NEW t \in Tests(nodes)
               PROVE  LET reports == Cardinality({i \in DOMAIN results : results[i].node = t})
                      IN IF TopOf(nodes, t) \in cut THEN reports <= 2
                         ELSE reports = IF TopOf(nodes, t) \in pending THEN 0 ELSE 1
    BY DEF ReportedOnce
  <2>1. /\ Accounted(nodes, pending, cut, Complete, results) /\ Complete \subseteq cut
        /\ DOMAIN results = 1..Len(results) /\ Len(results) \in Nat
    <3>1. results \in Seq(Reported)
      BY DEF RunnerInv, Accounted
    <3> QED BY <3>1, LenProperties DEF RunnerInv, Complete
  <2> DEFINE at == {i \in DOMAIN results : results[i].node = t}
  <2>2. CASE TopOf(nodes, t) \in cut
    <3>1. \A i, j, k \in at : i = j \/ j = k \/ i = k
      BY <2>1 DEF Accounted
    <3>2. at \in SUBSET (1..Len(results))
      BY <2>1
    <3> HIDE DEF at
    <3>3. Cardinality(at) <= 2
      BY <2>1, <3>1, <3>2, AtMostTwo
    <3> QED BY <2>2, <3>3 DEF at
  <2>3. CASE TopOf(nodes, t) \notin cut /\ TopOf(nodes, t) \in pending
    <3>1. at = {}
      BY <2>1, <2>3 DEF Accounted
    <3> QED BY <2>3, <3>1, FS_EmptySet
  <2>4. CASE TopOf(nodes, t) \notin cut /\ TopOf(nodes, t) \notin pending
    <3>1. PICK i \in DOMAIN results : results[i].node = t
      BY <2>1, <2>4 DEF Accounted
    <3>2. at = {i}
      BY <2>1, <2>4, <3>1 DEF Accounted
    <3>3. Cardinality({i}) = 1
      BY FS_Singleton
    <3> QED BY <2>4, <3>2, <3>3
  <2> QED BY <2>2, <2>3, <2>4
<1> QED BY <1>1, SpecRunnerInv, PTL

(* A script that ends with status 0 has reported every test it declared in a *)
(* block whose describe body does not call run(); and no failure, when no    *)
(* describe body does (index.ts: the sentinel).                              *)
THEOREM SpecGreenIsGreen == Spec => []GreenIsGreen
<1>1. RunnerInv => GreenIsGreen
  <2> SUFFICES ASSUME RunnerInv, exit = "ok"
               PROVE  /\ cut = {} => ~Failed(results)
                      /\ \A t \in Tests(nodes) :
                           TopOf(nodes, t) \in cut \/ \E i \in DOMAIN results : results[i].node = t
    BY DEF GreenIsGreen
  <2>1. /\ Accounted(nodes, {}, cut, Complete, results) /\ DOMAIN results = 1..Len(results)
        /\ cut = {} => ~Failed(results)
    <3>1. results \in Seq(Reported)
      BY DEF RunnerInv, Accounted
    <3> QED BY <3>1, LenProperties DEF RunnerInv
  <2> QED BY <2>1 DEF Accounted
<1> QED BY <1>1, SpecRunnerInv, PTL

-----------------------------------------------------------------------------
(* Which suites have a test to run.                                        *)

Has(e) == [DOMAIN e.tree -> [BOOLEAN -> [BOOLEAN -> BOOLEAN]]]

HasInside(inner, n, outerSkip, outerFocus, only, e) ==
  LET skip == outerSkip \/ e.tree[n].flag = "skip"
      focus == outerFocus \/ Focused(n, e)
  IN \E c \in Children(n, e) :
       IF e.tree[c].kind = "test" THEN shouldRun(c, skip, focus, only, e)
       ELSE inner[c][skip][focus]

LEMMA HasLevels ==
  ASSUME NEW e, Env(e), NEW only \in BOOLEAN
  PROVE  \E has \in [0..Len(e.tree) -> Has(e)] :
           /\ \A d \in 1..Len(e.tree) : \A n \in DOMAIN e.tree : \A skip, focus \in BOOLEAN :
                has[d][n][skip][focus] = HasInside(has[d - 1], n, skip, focus, only, e)
           /\ \A n \in DOMAIN e.tree : \A skip, focus \in BOOLEAN :
                hasRunnable(n, skip, focus, only, e) = has[Len(e.tree)][n][skip][focus]
<1> DEFINE m == Len(e.tree)
           V == Has(e)
           v == [n \in DOMAIN e.tree |-> [skip \in BOOLEAN |-> [focus \in BOOLEAN |-> FALSE]]]
           at(inner) == [n \in DOMAIN e.tree |-> [skip \in BOOLEAN |-> [focus \in BOOLEAN |->
                          HasInside(inner, n, skip, focus, only, e)]]]
           step == [d \in 1..m |-> [inner \in V |-> at(inner)]]
           Level(g) == g = [d \in 0..m |->
             [n \in DOMAIN e.tree |-> [skip \in BOOLEAN |-> [focus \in BOOLEAN |->
               d > 0 /\ HasInside(g[d - 1], n, skip, focus, only, e)]]]]
<1>1. m \in Nat
  BY TreeFacts DEF Env
<1>2. v \in V
  BY DEF Has
<1>3. ASSUME NEW inner \in V PROVE at(inner) \in V
  <2>1. ASSUME NEW n \in DOMAIN e.tree, NEW skip \in BOOLEAN, NEW focus \in BOOLEAN
        PROVE  HasInside(inner, n, skip, focus, only, e) \in BOOLEAN
    BY DEF HasInside
  <2> QED BY <2>1 DEF Has
<1>4. step \in [1..m -> [V -> V]] /\ \A d \in 1..m : \A inner \in V : step[d][inner] = at(inner)
  BY <1>3
<1> HIDE DEF step, v, V, at
<1>5. PICK g \in [0..m -> V] : Recursion(m, v, step, g)
  BY <1>1, <1>2, <1>4, RecursionExists
<1>6. \A d \in 1..m : d \in 0..m /\ d - 1 \in 0..m /\ d # 0 /\ d > 0
  BY <1>1, Predecessors
<1>7. g = [d \in 0..m |-> IF d = 0 THEN v ELSE step[d][g[d - 1]]]
  BY <1>5 DEF Recursion
<1>8. ASSUME NEW d \in 0..m PROVE g[d] = IF d = 0 THEN v ELSE at(g[d - 1])
  <2>1. d # 0 => d \in 1..m
    BY <1>1
  <2> QED BY <1>4, <1>6, <1>7, <2>1
<1>9. Level(g)
  <2>1. ASSUME NEW d \in 0..m
        PROVE  g[d] = [n \in DOMAIN e.tree |-> [skip \in BOOLEAN |-> [focus \in BOOLEAN |->
                        d > 0 /\ HasInside(g[d - 1], n, skip, focus, only, e)]]]
    <3>1. CASE d = 0
      <4>1. \A n, skip, focus : (d > 0 /\ HasInside(g[d - 1], n, skip, focus, only, e)) = FALSE
        BY <3>1
      <4>2. g[d] = v
        BY <1>8, <3>1
      <4> QED BY <4>1, <4>2 DEF v
    <3>2. CASE d # 0
      <4>1. d > 0
        BY <1>1, <3>2
      <4>2. \A n, skip, focus : HasInside(g[d - 1], n, skip, focus, only, e) \in BOOLEAN
        BY DEF HasInside
      <4> QED BY <1>8, <3>2, <4>1, <4>2 DEF at
    <3> QED BY <3>1, <3>2
  <2> QED BY <1>5, <2>1
<1> DEFINE r == CHOOSE h : Level(h)
<1>10. Level(r)
  <2> HIDE DEF Level
  <2> QED BY <1>9
<1>11. \A n \in DOMAIN e.tree : \A skip, focus \in BOOLEAN :
         hasRunnable(n, skip, focus, only, e) = r[m][n][skip][focus]
  BY DEF hasRunnable, HasInside
<1> HIDE DEF r
<1>12. r[0] = v /\ \A d \in 1..m : r[d] = at(r[d - 1])
  <2>1. r[0] = v
    <3>1. 0 \in 0..m
      BY <1>1
    <3>2. r[0] = [n \in DOMAIN e.tree |-> [skip \in BOOLEAN |-> [focus \in BOOLEAN |->
                   0 > 0 /\ HasInside(r[0 - 1], n, skip, focus, only, e)]]]
      BY <1>10, <3>1, Zenon
    <3>3. \A n, skip, focus : (0 > 0 /\ HasInside(r[0 - 1], n, skip, focus, only, e)) = FALSE
      OBVIOUS
    <3> QED BY <3>2, <3>3 DEF v
  <2>2. ASSUME NEW d \in 1..m PROVE r[d] = at(r[d - 1])
    <3>1. \A n, skip, focus : HasInside(r[d - 1], n, skip, focus, only, e) \in BOOLEAN
      BY DEF HasInside
    <3>2. d \in 0..m /\ d > 0
      BY <1>6
    <3>3. r[d] = [n \in DOMAIN e.tree |-> [skip \in BOOLEAN |-> [focus \in BOOLEAN |->
                   d > 0 /\ HasInside(r[d - 1], n, skip, focus, only, e)]]]
      BY <1>10, <3>2, Zenon
    <3> QED BY <3>1, <3>2, <3>3 DEF at
  <2> QED BY <2>1, <2>2
<1>13. \A d \in 0..m : r[d] \in V
  <2>1. r[0] \in V
    BY <1>2, <1>12
  <2>2. \A d \in 1..m : r[d - 1] \in V => r[d] = step[d][r[d - 1]]
    BY <1>4, <1>12
  <2> HIDE DEF Level, m
  <2> QED BY <1>1, <1>4, <2>1, <2>2, RecursionStays
<1>14. r \in [0..m -> V]
  BY <1>10, <1>13
<1>15. ASSUME NEW d \in 1..m, NEW n \in DOMAIN e.tree, NEW skip \in BOOLEAN, NEW focus \in BOOLEAN
       PROVE  r[d][n][skip][focus] = HasInside(r[d - 1], n, skip, focus, only, e)
  <2>1. r[d] = at(r[d - 1])
    BY <1>12
  <2> QED BY <2>1 DEF at
<1> QED BY <1>11, <1>14, <1>15 DEF V

-----------------------------------------------------------------------------
(* What an execution does, read off its declarations.                      *)

(* Two nodes on a path are one on the path to the other. *)
LEMMA PathLinear ==
  ASSUME NEW tree, IsTree(tree)
  PROVE  \A n \in DOMAIN tree : \A a, b \in Path(tree, n) : a \in Path(tree, b) \/ b \in Path(tree, a)
<1> DEFINE T == {n \in DOMAIN tree : \A a, b \in Path(tree, n) : a \in Path(tree, b) \/ b \in Path(tree, a)}
<1>1. Root \in T
  BY PathStep, TreeFacts
<1>2. \A n \in DOMAIN tree \ {Root} : tree[n].parent \in T => n \in T
  BY PathStep
<1> HIDE DEF T
<1>3. DOMAIN tree \subseteq T
  BY <1>1, <1>2, TreeInduction
<1> QED BY <1>3 DEF T

(* Everything in a block has that block. *)
LEMMA TopBelow ==
  ASSUME NEW tree, IsTree(tree), NEW n \in DOMAIN tree, NEW s \in Path(tree, n), s # Root
  PROVE  n # Root /\ TopOf(tree, n) = TopOf(tree, s)
<1>1. s \in DOMAIN tree \ {Root} /\ n # Root
  BY PathFacts, PathStep
<1>2. TopOf(tree, s) \in Path(tree, s) /\ TopOf(tree, s) # Root /\ tree[TopOf(tree, s)].parent = Root
  BY <1>1, TopFacts
<1>3. TopOf(tree, s) \in Path(tree, n)
  BY <1>2, PathTransitive
<1> QED BY <1>1, <1>2, <1>3, TopFacts

(* e is executed, x is what is remembered of it, and no body calls test.only. *)
Settled(e, x) ==
  /\ Env(e) /\ e.focusing = {} /\ e.fails \subseteq Bodies(e.tree)
  /\ x.tree = e.tree /\ x.top = e.top /\ x.fails = e.fails /\ x.only \in BOOLEAN
  /\ x.whole = e.whole /\ e.whole \in BOOLEAN
  /\ e.tree[Root].flag = "plain" /\ \A n \in Suites(e.tree) : e.tree[n].flag \in Flags

SkipAbove(e, n) == \E a \in Path(e.tree, n) \ {n} : e.tree[a].flag = "skip"
FocusAbove(e, n) == \E a \in Path(e.tree, n) \ {n} : Focused(a, e)

(* The tests below s that are to be run. *)
Chosen(e, x, s) == {t \in Tests(e.tree) \cap Below(e, s) : Selected(x, t)}

LEMMA AboveChild ==
  ASSUME NEW e, NEW x, Settled(e, x), NEW s \in Suites(e.tree), NEW c \in Children(s, e)
  PROVE  /\ Path(e.tree, c) \ {c} = Path(e.tree, s)
         /\ SkipAbove(e, c) <=> SkipAbove(e, s) \/ e.tree[s].flag = "skip"
         /\ FocusAbove(e, c) <=> FocusAbove(e, s) \/ Focused(s, e)
<1>1. IsTree(e.tree) /\ Env(e)
  BY DEF Settled, Env
<1>2. c \in DOMAIN e.tree \ {Root} /\ e.tree[c].parent = s /\ s < c /\ s \in DOMAIN e.tree
      /\ c \in Nat /\ s \in Nat
  BY <1>1, BelowChildren, TreeFacts
<1>3. Path(e.tree, c) = Path(e.tree, s) \cup {c} /\ s \in Path(e.tree, s)
  BY <1>1, <1>2, PathStep, PathFacts
<1>4. c \notin Path(e.tree, s)
  <2>1. Path(e.tree, s) \subseteq 1..s
    BY <1>1, <1>2, PathFacts
  <2>2. c \notin 1..s
    BY <1>2
  <2> QED BY <2>1, <2>2
<1> QED BY <1>3, <1>4 DEF SkipAbove, FocusAbove

(* shouldRun says of a test what the declarations on its path say. *)
LEMMA ShouldRunSelected ==
  ASSUME NEW e, NEW x, Settled(e, x), NEW t \in Tests(e.tree),
         NEW skip \in BOOLEAN, skip <=> SkipAbove(e, t),
         NEW focus \in BOOLEAN, focus <=> FocusAbove(e, t)
  PROVE  shouldRun(t, skip, focus, x.only, e) <=> Selected(x, t)
<1>1. IsTree(e.tree) /\ x.tree = e.tree /\ x.only \in BOOLEAN
  BY DEF Settled, Env
<1>2. t \in DOMAIN e.tree /\ t \in Path(e.tree, t) /\ Path(e.tree, t) \ {t} \subseteq Suites(e.tree)
  BY <1>1, TreeFacts, PathFacts
<1>3. \A a \in Path(e.tree, t) \ {t} : e.tree[a].flag \in {"plain", "skip", "only"}
  BY <1>2 DEF Settled, Flags
<1> DEFINE P == Path(e.tree, t)
<1>4. Around(x, t) = P
  BY <1>1 DEF Around, Path
<1> HIDE DEF P
<1>5. Selected(x, t) <=> /\ \A n \in P : e.tree[n].flag \notin {"skip", "todo"}
                         /\ x.only => \E n \in P : e.tree[n].flag \in {"only", "threw"}
  BY <1>1, <1>4 DEF Selected
<1>6. (\A n \in P : e.tree[n].flag \notin {"skip", "todo"})
        <=> ~skip /\ e.tree[t].flag \notin {"skip", "todo"}
  BY <1>2, <1>3 DEF SkipAbove, P
<1>7. (\E n \in P : e.tree[n].flag \in {"only", "threw"}) <=> focus \/ Focused(t, e)
  BY <1>2 DEF FocusAbove, Focused, P
<1> QED BY <1>5, <1>6, <1>7 DEF shouldRun

(* A suite has something to run when a test below it is selected. *)
LEMMA HasRunnableChosen ==
  ASSUME NEW e, NEW x, Settled(e, x), NEW s \in Suites(e.tree),
         NEW skip \in BOOLEAN, skip <=> SkipAbove(e, s),
         NEW focus \in BOOLEAN, focus <=> FocusAbove(e, s)
  PROVE  hasRunnable(s, skip, focus, x.only, e) <=> Chosen(e, x, s) # {}
<1> DEFINE m == Len(e.tree)
           tree == e.tree
<1>0. Env(e) /\ x.only \in BOOLEAN
  BY DEF Settled
<1>1. m \in Nat /\ DOMAIN tree = 1..m /\ s \in DOMAIN tree /\ (\A n \in DOMAIN tree : n \in Nat)
      /\ Suites(tree) \cup Tests(tree) = DOMAIN tree
      /\ \A n \in Suites(tree) : n \in DOMAIN tree /\ tree[n].kind = "suite"
  BY <1>0, TreeFacts DEF Env, Suites
<1>2. PICK has \in [0..m -> Has(e)] :
        /\ \A d \in 1..m : \A n \in DOMAIN tree : \A sk, fo \in BOOLEAN :
             has[d][n][sk][fo] = HasInside(has[d - 1], n, sk, fo, x.only, e)
        /\ \A n \in DOMAIN tree : \A sk, fo \in BOOLEAN :
             hasRunnable(n, sk, fo, x.only, e) = has[m][n][sk][fo]
  BY <1>0, HasLevels
<1> HIDE DEF m
<1> DEFINE Ok(d, n) == \A sk, fo \in BOOLEAN :
                         (sk <=> SkipAbove(e, n)) /\ (fo <=> FocusAbove(e, n))
                           => (has[d][n][sk][fo] <=> Chosen(e, x, n) # {})
           D == {d \in Nat : d \in 0..m => \A n \in Suites(tree) : m - n < d => Ok(d, n)}
<1>3. 0 \in D
  <2>1. \A n \in Suites(tree) : ~(m - n < 0)
    BY <1>1
  <2> QED BY <2>1
<1>4. ASSUME NEW d \in Nat, d \in D PROVE d + 1 \in D
  <2> HIDE DEF Ok
  <2> SUFFICES ASSUME d + 1 \in 0..m, NEW n \in Suites(tree), m - n < d + 1
               PROVE  Ok(d + 1, n)
    OBVIOUS
  <2> SUFFICES ASSUME NEW sk \in BOOLEAN, NEW fo \in BOOLEAN,
                      sk <=> SkipAbove(e, n), fo <=> FocusAbove(e, n)
               PROVE  has[d + 1][n][sk][fo] <=> Chosen(e, x, n) # {}
    BY Zenon DEF Ok
  <2>1. d + 1 \in 1..m /\ (d + 1) - 1 = d /\ d \in 0..m /\ n \in DOMAIN tree
    BY <1>1
  <2> DEFINE sk2 == sk \/ tree[n].flag = "skip"
             fo2 == fo \/ Focused(n, e)
             Goes(c) == IF tree[c].kind = "test" THEN shouldRun(c, sk2, fo2, x.only, e)
                        ELSE has[d][c][sk2][fo2]
  <2>2. has[d + 1][n][sk][fo] = HasInside(has[d], n, sk, fo, x.only, e)
    BY <1>2, <2>1
  <2>3. HasInside(has[d], n, sk, fo, x.only, e) <=> \E c \in Children(n, e) : Goes(c)
    BY DEF HasInside
  <2>4. sk2 \in BOOLEAN /\ fo2 \in BOOLEAN
    BY DEF Focused
  <2>5. ASSUME NEW c \in Children(n, e) PROVE Goes(c) <=> Chosen(e, x, c) # {}
    <3>1. c \in DOMAIN tree /\ n < c
      BY <1>0, BelowChildren
    <3>2. (sk2 <=> SkipAbove(e, c)) /\ (fo2 <=> FocusAbove(e, c))
      BY AboveChild
    <3> HIDE DEF sk2, fo2
    <3>3. CASE c \in Suites(tree)
      <4>1. m - c < d
        BY <1>1, <2>1, <3>1
      <4>2. Ok(d, c)
        BY <1>4, <2>1, <3>3, <4>1
      <4>3. has[d][c][sk2][fo2] <=> Chosen(e, x, c) # {}
        BY <2>4, <3>2, <4>2, Zenon DEF Ok
      <4>4. tree[c].kind # "test"
        BY <1>1, <3>3
      <4> QED BY <4>3, <4>4
    <3>4. CASE c \in Tests(tree)
      <4>1. tree[c].kind = "test" /\ Below(e, c) = {c}
        BY <1>0, <3>4, BelowTest, TreeFacts DEF Env
      <4>2. shouldRun(c, sk2, fo2, x.only, e) <=> Selected(x, c)
        BY <2>4, <3>2, <3>4, ShouldRunSelected
      <4> QED BY <3>4, <4>1, <4>2 DEF Chosen
    <3> QED BY <1>1, <3>1, <3>3, <3>4
  <2> HIDE DEF Goes
  <2>6. Chosen(e, x, n) # {} <=> \E c \in Children(n, e) : Chosen(e, x, c) # {}
    <3>1. \A c \in Children(n, e) : Below(e, c) \subseteq Below(e, n)
      BY <1>0, BelowChildren
    <3>2. \A t \in Below(e, n) \ {n} : \E c \in Children(n, e) : t \in Below(e, c)
      BY <1>0, BelowParts
    <3>3. n \notin Tests(tree)
      BY DEF Tests
    <3> QED BY <3>1, <3>2, <3>3 DEF Chosen
  <2> QED BY <2>2, <2>3, <2>5, <2>6
<1>5. Nat \subseteq D
  <2> HIDE DEF D
  <2> QED BY <1>3, <1>4, NatSetInduction
<1>6. m - s < m /\ m \in 0..m
  BY <1>1
<1>7. Ok(m, s)
  BY <1>1, <1>5, <1>6
<1> HIDE DEF Ok
<1>8. has[m][s][skip][focus] <=> Chosen(e, x, s) # {}
  BY <1>7, Zenon DEF Ok
<1>9. hasRunnable(s, skip, focus, x.only, e) = has[m][s][skip][focus]
  BY <1>1, <1>2
<1> QED BY <1>8, <1>9

LEMMA JoinFails ==
  ASSUME NEW S, NEW a \in Seq(S), NEW b \in Seq(S), NEW e
  PROVE  AnyFailing(a \o b, e) <=> AnyFailing(a, e) \/ AnyFailing(b, e)
<1>1. Len(a) \in Nat /\ Len(b) \in Nat /\ DOMAIN a = 1..Len(a) /\ DOMAIN b = 1..Len(b)
  BY LenProperties
<1> DEFINE all == a \o b
<1>2. /\ DOMAIN all = 1..Len(a) + Len(b)
      /\ \A i \in 1..Len(a) + Len(b) : all[i] = IF i <= Len(a) THEN a[i] ELSE b[i - Len(a)]
  BY <1>1, ConcatProperties, LenProperties
<1> HIDE DEF all
<1>3. \A i \in 1..Len(a) + Len(b) : /\ i <= Len(a) => i \in 1..Len(a)
                                    /\ ~(i <= Len(a)) => i - Len(a) \in 1..Len(b)
  BY <1>1
<1>4. /\ \A i \in 1..Len(a) : i \in 1..Len(a) + Len(b) /\ i <= Len(a)
      /\ \A i \in 1..Len(b) : /\ i + Len(a) \in 1..Len(a) + Len(b) /\ ~(i + Len(a) <= Len(a))
                              /\ (i + Len(a)) - Len(a) = i
  BY <1>1
<1>5. AnyFailing(all, e) => AnyFailing(a, e) \/ AnyFailing(b, e)
  BY <1>1, <1>2, <1>3 DEF AnyFailing
<1>6. AnyFailing(a, e) => AnyFailing(all, e)
  BY <1>1, <1>2, <1>4 DEF AnyFailing
<1>7. AnyFailing(b, e) => AnyFailing(all, e)
  <2> SUFFICES ASSUME NEW i \in 1..Len(b), Failing(b[i], e) PROVE AnyFailing(all, e)
    BY <1>1 DEF AnyFailing
  <2>1. i + Len(a) \in DOMAIN all /\ all[i + Len(a)] = b[i]
    BY <1>2, <1>4
  <2> QED BY <2>1 DEF AnyFailing
<1> QED BY <1>5, <1>6, <1>7 DEF all

(* Of lists put together, one fails when one of them does. *)
LEMMA FlattenFails ==
  ASSUME NEW S, NEW seqs \in Seq(Seq(S)), NEW e
  PROVE  AnyFailing(FlattenSeq(seqs), e) <=> \E i \in 1..Len(seqs) : AnyFailing(seqs[i], e)
<1> DEFINE m == Len(seqs)
           V == Seq(S)
<1>1. PICK h \in [1..m -> V] :
        /\ \A i \in 1..m : h[i] = IF i = 1 THEN seqs[i] ELSE h[i - 1] \o seqs[i]
        /\ FlattenSeq(seqs) = IF m = 0 THEN seqs ELSE h[m]
  BY FlattenSteps
<1>2. m \in Nat /\ (m = 0 => seqs = <<>>) /\ \A i \in 1..m : seqs[i] \in V
  BY LenProperties, EmptySeq, ElementOfSeq
<1> HIDE DEF m
<1> DEFINE Ok(k) == AnyFailing(h[k], e) <=> \E i \in 1..k : AnyFailing(seqs[i], e)
           K == {k \in Nat : k + 1 \in 1..m => Ok(k + 1)}
<1>3. 0 \in K
  <2>1. 0 + 1 = 1 /\ 1..1 = {1}
    OBVIOUS
  <2> QED BY <1>1, <2>1
<1>4. ASSUME NEW k \in Nat, k \in K PROVE k + 1 \in K
  <2> SUFFICES ASSUME (k + 1) + 1 \in 1..m PROVE Ok((k + 1) + 1)
    OBVIOUS
  <2> DEFINE j == (k + 1) + 1
  <2>1. k + 1 \in 1..m /\ j - 1 = k + 1 /\ j # 1 /\ 1..j = 1..(k + 1) \cup {j}
    BY <1>2
  <2>2. h[j] = h[k + 1] \o seqs[j]
    BY <1>1, <2>1
  <2>3. h[k + 1] \in V /\ seqs[j] \in V
    BY <1>1, <1>2, <2>1
  <2>4. Ok(k + 1)
    BY <1>4, <2>1
  <2> HIDE DEF j
  <2>5. AnyFailing(h[j], e) <=> AnyFailing(h[k + 1], e) \/ AnyFailing(seqs[j], e)
    BY <2>2, <2>3, JoinFails
  <2> QED BY <2>1, <2>4, <2>5 DEF j
<1>5. Nat \subseteq K
  <2> HIDE DEF K
  <2> QED BY <1>3, <1>4, NatSetInduction
<1>6. CASE m = 0
  <2>1. ~AnyFailing(<<>>, e)
    BY DEF AnyFailing
  <2>2. 1..m = {}
    BY <1>6
  <2> QED BY <1>1, <1>2, <1>6, <2>1, <2>2 DEF m
<1>7. CASE m # 0
  <2>1. m - 1 \in Nat /\ (m - 1) + 1 = m /\ m \in 1..m
    BY <1>2, <1>7
  <2>2. Ok(m)
    BY <1>5, <2>1
  <2> QED BY <1>1, <1>7, <2>2 DEF m
<1> QED BY <1>6, <1>7

(* The hooks of a suite: one of them fails when the environment says so. *)
LEMMA HooksFail ==
  ASSUME NEW e, NEW x, Settled(e, x), NEW s \in Suites(e.tree), NEW kind \in Kinds
  PROVE  AnyFailing(Hooks(e.tree, s, kind), e) <=> Breaks(x, s, kind)
<1> DEFINE h == Hooks(e.tree, s, kind)
           n == e.tree[s].hooks[kind]
<1>1. /\ e.focusing = {} /\ x.fails = e.fails /\ e.fails \subseteq Bodies(e.tree)
      /\ e.tree[s].flag # "threw" /\ IsTree(e.tree)
  BY DEF Settled, Flags, Env
<1>2. DOMAIN h = 1..n /\ \A i \in 1..n : h[i] = [node |-> s, kind |-> kind, nth |-> i]
  BY DEF Hooks
<1> HIDE DEF h, n
<1>3. \A i \in 1..n : h[i].node = s /\ h[i].kind = kind
  <2> SUFFICES ASSUME NEW i \in 1..n PROVE h[i].node = s /\ h[i].kind = kind
    OBVIOUS
  <2>1. h[i] = [node |-> s, kind |-> kind, nth |-> i]
    BY <1>2
  <2> QED BY <2>1
<1>4. AnyFailing(h, e) <=> \E i \in 1..n : h[i] \in e.fails
  BY <1>1, <1>2, <1>3 DEF AnyFailing, Failing
<1>5. ASSUME NEW b \in e.fails, b.node = s, b.kind = kind PROVE \E i \in 1..n : b = h[i]
  <2>1. b \in Bodies(e.tree)
    BY <1>1
  <2>2. CASE \E t \in Tests(e.tree) : b = Body(t)
    <3>1. kind = "body"
      BY <1>5, <2>2 DEF Body
    <3> QED BY <3>1 DEF Kinds
  <2>3. CASE \E q \in Suites(e.tree) : \E k \in Kinds : b \in ToSet(Hooks(e.tree, q, k))
    <3>1. PICK q \in Suites(e.tree), k \in Kinds : b \in ToSet(Hooks(e.tree, q, k))
      BY <2>3
    <3>2. PICK i \in 1..e.tree[q].hooks[k] : b = [node |-> q, kind |-> k, nth |-> i]
      BY <3>1 DEF ToSet, Hooks
    <3>3. q = s /\ k = kind
      BY <1>5, <3>2
    <3> QED BY <1>2, <3>2, <3>3 DEF n
  <2>4. \/ b \in UNION {ToSet(Hooks(e.tree, q, k)) : q \in Suites(e.tree), k \in Kinds}
        \/ \E t \in Tests(e.tree) : b = Body(t)
    BY <2>1 DEF Bodies
  <2> QED BY <2>2, <2>3, <2>4
<1>6. Breaks(x, s, kind) <=> \E b \in e.fails : b.node = s /\ b.kind = kind
  BY <1>1 DEF Breaks
<1> QED BY <1>3, <1>4, <1>5, <1>6 DEF h

(* Of the numbers up to m in a set, one is the first. *)
LEMMA FirstOf ==
  ASSUME NEW m \in Nat, NEW S \in SUBSET (1..m), S # {}
  PROVE  \E i \in S : \A j \in S : ~(j < i)
<1> DEFINE K == {k \in Nat : (\E j \in S : j <= k) => \E i \in S : \A j \in S : ~(j < i)}
<1>1. 0 \in K
  BY DEF K
<1>2. ASSUME NEW k \in Nat, k \in K PROVE k + 1 \in K
  <2>1. CASE \E j \in S : j <= k
    BY <1>2, <2>1
  <2>2. CASE ~ \E j \in S : j <= k
    <3> SUFFICES ASSUME NEW i \in S, i <= k + 1 PROVE \A j \in S : ~(j < i)
      BY DEF K
    <3> QED BY <2>2
  <2> QED BY <2>1, <2>2
<1>3. Nat \subseteq K
  <2> HIDE DEF K
  <2> QED BY <1>1, <1>2, NatSetInduction
<1>4. \A j \in S : j <= m
  OBVIOUS
<1> QED BY <1>3, <1>4

(* A body that fails is a hook of a suite or the body of a test. *)
LEMMA FailsAre ==
  ASSUME NEW tree, NEW b \in Bodies(tree)
  PROVE  \/ b.node \in Suites(tree) /\ b.kind \in Kinds
         \/ b.node \in Tests(tree) /\ b = Body(b.node) /\ b.kind = "body"
<1>1. \/ \E q \in Suites(tree), k \in Kinds : b \in ToSet(Hooks(tree, q, k))
      \/ \E t \in Tests(tree) : b = Body(t)
  BY DEF Bodies
<1>2. ASSUME NEW q \in Suites(tree), NEW k \in Kinds, b \in ToSet(Hooks(tree, q, k))
      PROVE  b.node \in Suites(tree) /\ b.kind \in Kinds
  <2>1. PICK i \in 1..tree[q].hooks[k] : b = [node |-> q, kind |-> k, nth |-> i]
    BY <1>2 DEF ToSet, Hooks
  <2> QED BY <2>1
<1>3. ASSUME NEW t \in Tests(tree), b = Body(t)
      PROVE  b.node \in Tests(tree) /\ b = Body(b.node) /\ b.kind = "body"
  <2>1. b.node = t /\ b.kind = "body"
    BY <1>3 DEF Body
  <2> QED BY <1>3, <2>1
<1> QED BY <1>1, <1>2, <1>3

(* A test that is run fails when its body or a hook around it does. *)
LEMMA VerdictIs ==
  ASSUME NEW e, NEW x, Settled(e, x), NEW s \in Suites(e.tree), NEW t \in Tests(e.tree), t \in Children(s, e)
  PROVE  AnyFailing(BodiesOf(s, t, e), e) <=> Fails(x, t)
<1> DEFINE tree == e.tree
           chain == Chain(e.tree, s)
           m == Len(chain)
           before(i) == Hooks(e.tree, chain[i], "beforeEach")
           broken == {i \in DOMAIN chain : AnyFailing(before(i), e)}
           reached == [i \in DOMAIN chain |-> IF \E j \in broken : j < i THEN <<>> ELSE before(i)]
           own == IF broken = {} THEN <<Body(t)>> ELSE <<>>
           after == [i \in DOMAIN chain |-> Hooks(e.tree, Reverse(chain)[i], "afterEach")]
           SA == Seq(Attempts)
<1>0. Env(e) /\ IsTree(tree) /\ s \in DOMAIN tree /\ x.tree = e.tree /\ x.fails = e.fails
      /\ e.focusing = {} /\ e.fails \subseteq Bodies(e.tree)
  <2>1. Env(e)
    BY DEF Settled
  <2> QED BY <2>1, TreeFacts DEF Settled, Env
<1>1. /\ m \in Nat /\ DOMAIN chain = 1..m /\ chain \in Seq(Nat)
      /\ \A i \in 1..m : chain[i] \in DOMAIN tree /\ Reverse(chain)[i] \in DOMAIN tree
      /\ \A i \in 1..m : chain[i] \in Path(tree, s) /\ Reverse(chain)[i] \in Path(tree, s)
  BY <1>0, ChainNodes
<1>2. /\ Path(tree, t) = Path(tree, s) \cup {t} /\ t \notin Path(tree, s)
      /\ Path(tree, s) \subseteq Suites(tree)
  <2>1. t \in DOMAIN tree \ {Root} /\ tree[t].parent = s /\ s \in DOMAIN tree
    BY <1>0, BelowChildren
  <2>2. Path(tree, t) = Path(tree, s) \cup {t}
    BY <1>0, <2>1, PathStep
  <2>3. Path(tree, s) \subseteq Suites(tree)
    BY <1>0, <2>1, PathFacts
  <2> QED BY <2>2, <2>3 DEF Tests
<1>3. /\ \A a \in Path(tree, s) : \E i \in 1..m : chain[i] = a
      /\ \A a \in Path(tree, s) : \E i \in 1..m : Reverse(chain)[i] = a
  <2>1. \A a \in Path(tree, s) : \E i \in 1..m : chain[i] = a
    BY <1>1 DEF Path, ToSet
  <2>2. \A i \in 1..m : (m - i) + 1 \in 1..m /\ (m - ((m - i) + 1)) + 1 = i
    BY <1>1
  <2>3. \A i \in 1..m : Reverse(chain)[i] = chain[(m - i) + 1]
    BY <1>1 DEF Reverse
  <2>4. \A i \in 1..m : Reverse(chain)[(m - i) + 1] = chain[i]
    BY <2>2, <2>3
  <2> QED BY <2>1, <2>2, <2>4
<1> HIDE DEF m, chain
<1>4. "beforeEach" \in Kinds /\ "afterEach" \in Kinds
  BY DEF Kinds
<1>5. \A i \in 1..m : before(i) \in SA /\ Hooks(tree, Reverse(chain)[i], "afterEach") \in SA
  BY <1>0, <1>1, <1>4, HooksType
<1>6. \A i \in 1..m : AnyFailing(before(i), e) <=> Breaks(x, chain[i], "beforeEach")
  BY <1>1, <1>2, <1>4, HooksFail
<1>7. \A i \in 1..m : AnyFailing(Hooks(tree, Reverse(chain)[i], "afterEach"), e)
                        <=> Breaks(x, Reverse(chain)[i], "afterEach")
  BY <1>1, <1>2, <1>4, HooksFail
<1> HIDE DEF before
<1>8. <<>> \in SA /\ ~AnyFailing(<<>>, e)
  BY EmptySeq DEF AnyFailing
<1>9. reached \in Seq(SA) /\ Len(reached) = m /\ after \in Seq(SA) /\ Len(after) = m
  <2>1. reached \in [1..m -> SA] /\ after \in [1..m -> SA]
    BY <1>1, <1>5, <1>8
  <2> HIDE DEF reached, after, SA
  <2> QED BY <1>1, <2>1
<1>10. AnyFailing(FlattenSeq(reached), e) <=> \E a \in Path(tree, s) : Breaks(x, a, "beforeEach")
  <2>1. AnyFailing(FlattenSeq(reached), e) <=> \E i \in 1..m : AnyFailing(reached[i], e)
    <3> HIDE DEF reached
    <3> QED BY <1>9, FlattenFails
  <2>2. \A i \in 1..m : reached[i] = IF \E j \in broken : j < i THEN <<>> ELSE before(i)
    BY <1>1
  <2>3. broken \in SUBSET (1..m) /\ \A i \in 1..m : i \in broken <=> AnyFailing(before(i), e)
    BY <1>1
  <2> HIDE DEF reached, broken
  <2>4. (\E i \in 1..m : AnyFailing(reached[i], e)) => broken # {}
    BY <1>8, <2>2, <2>3
  <2>5. broken # {} => \E i \in 1..m : AnyFailing(reached[i], e)
    <3> SUFFICES ASSUME broken # {} PROVE \E i \in 1..m : AnyFailing(reached[i], e)
      OBVIOUS
    <3>1. PICK i \in broken : \A j \in broken : ~(j < i)
      BY <1>1, <2>3, FirstOf
    <3>2. i \in 1..m /\ reached[i] = before(i)
      BY <2>2, <2>3, <3>1
    <3> QED BY <2>3, <3>2
  <2>6. broken # {} <=> \E a \in Path(tree, s) : Breaks(x, a, "beforeEach")
    BY <1>1, <1>3, <1>6, <2>3
  <2> QED BY <2>1, <2>4, <2>5, <2>6
<1>11. AnyFailing(FlattenSeq(after), e) <=> \E a \in Path(tree, s) : Breaks(x, a, "afterEach")
  <2>1. AnyFailing(FlattenSeq(after), e) <=> \E i \in 1..m : AnyFailing(after[i], e)
    <3> HIDE DEF after
    <3> QED BY <1>9, FlattenFails
  <2>2. \A i \in 1..m : after[i] = Hooks(tree, Reverse(chain)[i], "afterEach")
    BY <1>1
  <2> HIDE DEF after
  <2>3. \A i \in 1..m : AnyFailing(after[i], e) <=> Breaks(x, Reverse(chain)[i], "afterEach")
    BY <1>7, <2>2
  <2> QED BY <1>1, <1>3, <2>1, <2>3
<1>12. broken = {} <=> ~\E a \in Path(tree, s) : Breaks(x, a, "beforeEach")
  BY <1>1, <1>3, <1>6
<1>13. own \in SA /\ (AnyFailing(own, e) <=> broken = {} /\ Failing(Body(t), e))
  <2>1. Body(t) \in Attempts
    <3>1. t \in Nat
      BY <1>0, TreeFacts
    <3> QED BY <3>1 DEF Body, Attempts
  <2>2. <<Body(t)>> \in SA
    BY <2>1
  <2>3. AnyFailing(<<Body(t)>>, e) <=> Failing(Body(t), e)
    <3> DEFINE b == Body(t)
    <3> HIDE DEF b
    <3>1. DOMAIN <<b>> = {1} /\ <<b>>[1] = b
      OBVIOUS
    <3>2. AnyFailing(<<b>>, e) <=> Failing(b, e)
      BY <3>1 DEF AnyFailing
    <3> QED BY <3>2 DEF b
  <2> QED BY <1>8, <2>2, <2>3
<1>14. BodiesOf(s, t, e) = FlattenSeq(reached) \o own \o FlattenSeq(after)
  BY DEF BodiesOf, AfterEach, before, chain
<1> HIDE DEF reached, own, after, broken
<1>15. FlattenSeq(reached) \in SA /\ FlattenSeq(after) \in SA
  BY <1>9, FlattenSeqType
<1>16. AnyFailing(BodiesOf(s, t, e), e)
         <=> AnyFailing(FlattenSeq(reached), e) \/ AnyFailing(own, e) \/ AnyFailing(FlattenSeq(after), e)
  <2> DEFINE F == FlattenSeq(reached)
             G == FlattenSeq(after)
  <2>1. F \in SA /\ G \in SA /\ own \in SA
    BY <1>13, <1>15
  <2> HIDE DEF F, G, SA
  <2>2. F \o own \in SA
    BY <2>1, ConcatProperties DEF SA
  <2>3. AnyFailing(F \o own, e) <=> AnyFailing(F, e) \/ AnyFailing(own, e)
    BY <2>1, JoinFails DEF SA
  <2>4. AnyFailing((F \o own) \o G, e) <=> AnyFailing(F \o own, e) \/ AnyFailing(G, e)
    BY <2>1, <2>2, JoinFails DEF SA
  <2> QED BY <1>14, <2>3, <2>4 DEF F, G
<1>17. AnyFailing(BodiesOf(s, t, e), e)
         <=> \/ Failing(Body(t), e)
             \/ \E a \in Path(tree, s) : Breaks(x, a, "beforeEach") \/ Breaks(x, a, "afterEach")
  BY <1>10, <1>11, <1>12, <1>13, <1>16
<1>18. Failing(Body(t), e) <=> tree[t].flag = "threw" \/ Body(t) \in e.fails
  BY <1>0 DEF Failing, Body
<1>19. ASSUME NEW b \in e.fails, b.node \in Path(tree, t), b.kind \in {"body", "beforeEach", "afterEach"}
       PROVE  \/ b = Body(t)
              \/ b.node \in Path(tree, s) /\ (b.kind = "beforeEach" \/ b.kind = "afterEach")
  <2>1. \/ b.node \in Suites(tree) /\ b.kind \in Kinds
        \/ b.node \in Tests(tree) /\ b = Body(b.node) /\ b.kind = "body"
    BY <1>0, FailsAre
  <2>2. b.node \in Suites(tree) => b.node # t
    BY DEF Tests
  <2>3. b.node \in Tests(tree) => b.node = t
    BY <1>2, <1>19 DEF Tests
  <2> QED BY <1>2, <1>19, <2>1, <2>2, <2>3 DEF Kinds
<1>20. Body(t).node = t /\ Body(t).kind = "body"
  BY DEF Body
<1>21. Around(x, t) = Path(tree, t)
  BY <1>0 DEF Around, Path
<1>22. ASSUME NEW a \in Path(tree, s), Breaks(x, a, "beforeEach") \/ Breaks(x, a, "afterEach")
       PROVE  \E b \in e.fails : b.node \in Path(tree, t) /\ b.kind \in {"body", "beforeEach", "afterEach"}
  BY <1>0, <1>2, <1>22 DEF Breaks
<1>23. (\E b \in e.fails : b.node \in Path(tree, t) /\ b.kind \in {"body", "beforeEach", "afterEach"})
         <=> \/ Body(t) \in e.fails
             \/ \E a \in Path(tree, s) : Breaks(x, a, "beforeEach") \/ Breaks(x, a, "afterEach")
  BY <1>0, <1>2, <1>19, <1>20, <1>22 DEF Breaks
<1> QED BY <1>0, <1>17, <1>18, <1>21, <1>23 DEF Fails

(* No beforeAll around s fails; and s is a suite that is executed. *)
Reached(x, s) == \A a \in SuitesAround(x, s) \ {s} : ~Breaks(x, a, "beforeAll")
Live(e, s) == (s = Root => e.whole) /\ (s # Root => TopOf(e.tree, s) \in e.top)
Named(x) == {r.node : r \in Expected(x)}

LEMMA AroundIs ==
  ASSUME NEW e, NEW x, Settled(e, x), NEW n \in DOMAIN e.tree
  PROVE  /\ Around(x, n) = Path(e.tree, n)
         /\ \A s : s \in SuitesAround(x, n)
                     <=> s \in Path(e.tree, n) /\ s \in Suites(e.tree) /\ (s = Root => e.whole)
<1>1. x.tree = e.tree /\ x.whole = e.whole /\ IsTree(e.tree)
  BY DEF Settled, Env
<1>2. Around(x, n) = Path(e.tree, n)
  BY <1>1 DEF Around, Path
<1>3. Path(e.tree, n) \subseteq DOMAIN e.tree
  BY <1>1, PathFacts
<1> QED BY <1>1, <1>2, <1>3 DEF SuitesAround, Suites

LEMMA NamedAre ==
  ASSUME NEW e, NEW x, Settled(e, x)
  PROVE  /\ Executing(x) = {t \in Tests(e.tree) : TopOf(e.tree, t) \in e.top}
         /\ \A t \in Executing(x) : [node |-> t, status |-> Status(x, t)] \in Expected(x)
         /\ \A s \in Suites(e.tree) :
              IsSetUp(x, s) /\ Breaks(x, s, "afterAll") => [node |-> s, status |-> "fail"] \in Expected(x)
         /\ \A n \in Named(x) :
              \/ n \in Executing(x)
              \/ n \in Suites(e.tree) /\ IsSetUp(x, n) /\ Breaks(x, n, "afterAll")
         /\ \A r \in Expected(x) :
              \/ r.node \in Executing(x) /\ r = [node |-> r.node, status |-> Status(x, r.node)]
              \/ r.node \in Suites(e.tree) /\ r = [node |-> r.node, status |-> "fail"]
<1>1. x.tree = e.tree /\ x.top = e.top
  BY DEF Settled
<1>2. Executing(x) = {t \in Tests(e.tree) : TopOf(e.tree, t) \in e.top}
  BY <1>1 DEF Executing
<1>3. \A r : r \in Expected(x) <=>
        \/ \E t \in Executing(x) : r = [node |-> t, status |-> Status(x, t)]
        \/ \E s \in Suites(e.tree) : /\ IsSetUp(x, s) /\ Breaks(x, s, "afterAll")
                                     /\ r = [node |-> s, status |-> "fail"]
  BY <1>1 DEF Expected
<1>4. ASSUME NEW r \in Expected(x)
      PROVE  \/ r.node \in Executing(x) /\ r = [node |-> r.node, status |-> Status(x, r.node)]
             \/ /\ r.node \in Suites(e.tree) /\ r = [node |-> r.node, status |-> "fail"]
                /\ IsSetUp(x, r.node) /\ Breaks(x, r.node, "afterAll")
  <2>1. CASE \E t \in Executing(x) : r = [node |-> t, status |-> Status(x, t)]
    <3>1. PICK t \in Executing(x) : r = [node |-> t, status |-> Status(x, t)]
      BY <2>1
    <3>2. r.node = t
      BY <3>1
    <3> QED BY <3>1, <3>2
  <2>2. CASE \E s \in Suites(e.tree) : /\ IsSetUp(x, s) /\ Breaks(x, s, "afterAll")
                                       /\ r = [node |-> s, status |-> "fail"]
    <3>1. PICK s \in Suites(e.tree) : /\ IsSetUp(x, s) /\ Breaks(x, s, "afterAll")
                                      /\ r = [node |-> s, status |-> "fail"]
      BY <2>2
    <3>2. r.node = s
      BY <3>1
    <3> QED BY <3>1, <3>2
  <2> QED BY <1>3, <2>1, <2>2
<1>5. \A n \in Named(x) : \E r \in Expected(x) : n = r.node
  BY DEF Named
<1> QED BY <1>2, <1>3, <1>4, <1>5

(* The tests below a suite that is executed. *)
LEMMA BelowLive ==
  ASSUME NEW e, NEW x, Settled(e, x), NEW s \in Suites(e.tree), Live(e, s)
  PROVE  /\ \A t \in Tests(e.tree) \cap Below(e, s) : t \in Executing(x) /\ s \in SuitesAround(x, t)
         /\ \A q \in Below(e, s), t \in Executing(x) : q \in Path(e.tree, t) => t \in Below(e, s)
<1> DEFINE tree == e.tree
<1>1. IsTree(tree) /\ s \in DOMAIN tree
      /\ Executing(x) = {t \in Tests(tree) : TopOf(tree, t) \in e.top}
  BY NamedAre, TreeFacts DEF Settled, Env
<1>2. ASSUME NEW t \in Tests(tree) \cap Below(e, s) PROVE t \in Executing(x) /\ s \in SuitesAround(x, t)
  <2>1. t \in DOMAIN tree /\ s \in Path(tree, t) /\ t # Root /\ (s = Root => TopOf(tree, t) \in e.top)
    BY <1>1, TreeFacts DEF Below
  <2>2. s # Root => TopOf(tree, t) = TopOf(tree, s)
    BY <1>1, <2>1, TopBelow
  <2>3. t \in Executing(x)
    BY <1>1, <2>1, <2>2 DEF Live
  <2> QED BY <2>1, <2>3, AroundIs DEF Live
<1>3. ASSUME NEW q \in Below(e, s), NEW t \in Executing(x), q \in Path(tree, t)
      PROVE  t \in Below(e, s)
  <2>1. t \in DOMAIN tree /\ TopOf(tree, t) \in e.top /\ s \in Path(tree, q)
    BY <1>1, TreeFacts DEF Below
  <2>2. s \in Path(tree, t)
    BY <1>1, <1>3, <2>1, PathTransitive
  <2> QED BY <2>1, <2>2 DEF Below
<1> QED BY <1>2, <1>3

(* A suite below s is set up only when a test below s is selected; and s     *)
(* itself whenever one is.                                                 *)
LEMMA SetUpChosen ==
  ASSUME NEW e, NEW x, Settled(e, x), NEW s \in Suites(e.tree), Live(e, s), Reached(x, s)
  PROVE  /\ \A q \in Below(e, s) : IsSetUp(x, q) => Chosen(e, x, s) # {}
         /\ Chosen(e, x, s) # {} => IsSetUp(x, s)
<1>1. /\ \A t \in Tests(e.tree) \cap Below(e, s) : t \in Executing(x) /\ s \in SuitesAround(x, t)
      /\ \A q \in Below(e, s), t \in Executing(x) : q \in Path(e.tree, t) => t \in Below(e, s)
  BY BelowLive
<1>2. Executing(x) \subseteq Tests(e.tree) /\ Tests(e.tree) \subseteq DOMAIN e.tree
  BY NamedAre DEF Tests
<1>3. ASSUME NEW q \in Below(e, s), IsSetUp(x, q) PROVE Chosen(e, x, s) # {}
  <2>1. PICK t \in Executing(x) : q \in SuitesAround(x, t) /\ Selected(x, t)
    BY <1>3 DEF IsSetUp
  <2>2. q \in Path(e.tree, t)
    BY <1>2, <2>1, AroundIs
  <2>3. t \in Chosen(e, x, s)
    BY <1>1, <1>2, <2>1, <2>2 DEF Chosen
  <2> QED BY <2>3
<1>4. ASSUME NEW t \in Chosen(e, x, s) PROVE IsSetUp(x, s)
  <2>1. t \in Executing(x) /\ s \in SuitesAround(x, t) /\ Selected(x, t)
    BY <1>1 DEF Chosen
  <2> QED BY <2>1 DEF IsSetUp, Reached
<1> QED BY <1>3, <1>4

(* What a test says that no failed beforeAll keeps from being run. *)
LEMMA StatusIs ==
  ASSUME NEW x, NEW t
  PROVE  /\ Blocked(x, t) => Status(x, t) = "fail"
         /\ ~Blocked(x, t) /\ ~Selected(x, t)
              => Status(x, t) = IF x.tree[t].flag = "todo" THEN "todo" ELSE "skip"
         /\ ~Blocked(x, t) /\ Selected(x, t) => Status(x, t) = IF Fails(x, t) THEN "fail" ELSE "pass"
BY DEF Status

(* A suite below which nothing is selected. *)
LEMMA NothingChosen ==
  ASSUME NEW e, NEW x, Settled(e, x), NEW s \in Suites(e.tree), Live(e, s), Reached(x, s),
         Chosen(e, x, s) = {}
  PROVE  /\ Named(x) \cap Below(e, s) \subseteq Tests(e.tree)
         /\ \A t \in Tests(e.tree) \cap Below(e, s) : [node |-> t, status |-> Skipped(t, e)] \in Expected(x)
<1> DEFINE tree == e.tree
<1>1. IsTree(tree) /\ x.tree = e.tree /\ s \in DOMAIN tree /\ Tests(tree) \subseteq DOMAIN tree
  BY TreeFacts DEF Settled, Env
<1>2. \A q \in Below(e, s) : ~IsSetUp(x, q)
  BY SetUpChosen
<1>3. Named(x) \cap Below(e, s) \subseteq Tests(tree)
  BY <1>2, NamedAre
<1>4. ASSUME NEW t \in Tests(tree) \cap Below(e, s) PROVE [node |-> t, status |-> Skipped(t, e)] \in Expected(x)
  <2>1. t \in Executing(x) /\ t \in DOMAIN tree /\ s \in Path(tree, t)
    BY <1>1, BelowLive DEF Below
  <2>2. ~Selected(x, t)
    BY DEF Chosen
  <2>3. ASSUME NEW q \in SuitesAround(x, t), IsSetUp(x, q) PROVE ~Breaks(x, q, "beforeAll")
    <3>1. q \in Path(tree, t) /\ q \in Suites(tree) /\ (q = Root => e.whole) /\ q \in DOMAIN tree
      BY <2>1, AroundIs DEF Suites
    <3>2. q \in Path(tree, s) \/ s \in Path(tree, q)
      BY <1>1, <2>1, <3>1, PathLinear
    <3>3. CASE q \in Path(tree, s) /\ q # s
      <4>1. q \in SuitesAround(x, s) \ {s}
        BY <1>1, <3>1, <3>3, AroundIs
      <4> QED BY <4>1 DEF Reached
    <3>4. CASE s \in Path(tree, q)
      <4>1. q # Root => TopOf(tree, t) = TopOf(tree, q)
        BY <1>1, <2>1, <3>1, TopBelow
      <4>2. TopOf(tree, t) \in e.top
        BY <2>1, NamedAre
      <4>3. q \in Below(e, s)
        BY <3>1, <3>4, <4>1, <4>2 DEF Below
      <4> QED BY <1>2, <2>3, <4>3
    <3>5. s \in Path(tree, s)
      BY <1>1, PathFacts
    <3> QED BY <3>2, <3>3, <3>4, <3>5
  <2>4. ~Blocked(x, t)
    BY <2>3 DEF Blocked
  <2>5. Status(x, t) = Skipped(t, e)
    BY <1>1, <2>2, <2>4, StatusIs DEF Skipped
  <2>6. [node |-> t, status |-> Status(x, t)] \in Expected(x)
    BY <2>1, NamedAre
  <2> QED BY <2>5, <2>6
<1> QED BY <1>3, <1>4

(* A suite that is set up, as far as its own hooks go. *)
LEMMA OwnHooks ==
  ASSUME NEW e, NEW x, Settled(e, x), NEW s \in Suites(e.tree), Live(e, s), Reached(x, s),
         Chosen(e, x, s) # {}
  PROVE  /\ IF Breaks(x, s, "afterAll") THEN [node |-> s, status |-> "fail"] \in Expected(x)
            ELSE s \notin Named(x)
         /\ Breaks(x, s, "beforeAll") =>
              /\ Named(x) \cap (Below(e, s) \ {s}) \subseteq Tests(e.tree)
              /\ \A t \in Tests(e.tree) \cap Below(e, s) : [node |-> t, status |-> "fail"] \in Expected(x)
<1> DEFINE tree == e.tree
<1>1. IsTree(tree) /\ s \in DOMAIN tree /\ Tests(tree) \subseteq DOMAIN tree
  BY TreeFacts DEF Settled, Env
<1>2. IsSetUp(x, s)
  BY SetUpChosen
<1>3. s \notin Executing(x)
  BY NamedAre DEF Tests
<1>4. IF Breaks(x, s, "afterAll") THEN [node |-> s, status |-> "fail"] \in Expected(x)
      ELSE s \notin Named(x)
  BY <1>2, <1>3, NamedAre
<1>5. ASSUME Breaks(x, s, "beforeAll"), NEW q \in Below(e, s) \ {s}, q \in Suites(tree)
      PROVE  ~IsSetUp(x, q)
  <2>1. q \in DOMAIN tree /\ s \in Path(tree, q)
    BY DEF Below
  <2>2. s \in SuitesAround(x, q) \ {q}
    BY <2>1, AroundIs DEF Live
  <2> QED BY <1>5, <2>2 DEF IsSetUp
<1>6. ASSUME Breaks(x, s, "beforeAll")
      PROVE  Named(x) \cap (Below(e, s) \ {s}) \subseteq Tests(tree)
  BY <1>5, <1>6, NamedAre
<1>7. ASSUME Breaks(x, s, "beforeAll"), NEW t \in Tests(tree) \cap Below(e, s)
      PROVE  [node |-> t, status |-> "fail"] \in Expected(x)
  <2>1. t \in Executing(x) /\ s \in SuitesAround(x, t)
    BY BelowLive
  <2>2. Blocked(x, t)
    BY <1>2, <1>7, <2>1 DEF Blocked
  <2>3. Status(x, t) = "fail"
    BY <2>2, StatusIs
  <2>4. [node |-> t, status |-> Status(x, t)] \in Expected(x)
    BY <2>1, NamedAre
  <2> QED BY <2>3, <2>4
<1> QED BY <1>4, <1>6, <1>7

(* What is inside a suite whose beforeAll does not fail. *)
LEMMA InsideLive ==
  ASSUME NEW e, NEW x, Settled(e, x), NEW s \in Suites(e.tree), Live(e, s), Reached(x, s),
         ~Breaks(x, s, "beforeAll"), NEW c \in Children(s, e)
  PROVE  /\ c \in Suites(e.tree) => Live(e, c) /\ Reached(x, c)
         /\ c \in Tests(e.tree) =>
              [node |-> c, status |-> IF ~Selected(x, c) THEN Skipped(c, e)
                                      ELSE IF Fails(x, c) THEN "fail" ELSE "pass"] \in Expected(x)
<1> DEFINE tree == e.tree
<1>1. IsTree(tree) /\ Env(e) /\ x.tree = e.tree /\ s \in DOMAIN tree
  BY TreeFacts DEF Settled, Env
<1>2. c \in DOMAIN tree \ {Root} /\ tree[c].parent = s
  BY <1>1, BelowChildren
<1>3. TopOf(tree, c) \in e.top
  <2>1. TopOf(tree, c) = IF s = Root THEN c ELSE TopOf(tree, s)
    BY <1>1, <1>2, TopStep
  <2>2. s = Root => c \in e.top
    BY DEF Children
  <2> QED BY <2>1, <2>2 DEF Live
<1>4. \A q \in SuitesAround(x, c) \ {c} : ~Breaks(x, q, "beforeAll")
  <2> SUFFICES ASSUME NEW q \in SuitesAround(x, c) \ {c} PROVE ~Breaks(x, q, "beforeAll")
    OBVIOUS
  <2>1. Path(tree, c) \ {c} = Path(tree, s)
    BY AboveChild
  <2>2. q \in SuitesAround(x, s)
    BY <1>1, <1>2, <2>1, AroundIs
  <2> QED BY <2>2 DEF Reached
<1>5. ASSUME c \in Tests(tree)
      PROVE  [node |-> c, status |-> IF ~Selected(x, c) THEN Skipped(c, e)
                                     ELSE IF Fails(x, c) THEN "fail" ELSE "pass"] \in Expected(x)
  <2>1. c \in Executing(x)
    BY <1>3, <1>5, NamedAre
  <2>2. c \notin SuitesAround(x, c)
    BY <1>2, <1>5, AroundIs DEF Tests
  <2>3. ~Blocked(x, c)
    BY <1>4, <2>2 DEF Blocked
  <2>4. Status(x, c) = IF ~Selected(x, c) THEN Skipped(c, e)
                       ELSE IF Fails(x, c) THEN "fail" ELSE "pass"
    BY <1>1, <2>3, StatusIs DEF Skipped
  <2>5. [node |-> c, status |-> Status(x, c)] \in Expected(x)
    BY <2>1, NamedAre
  <2> QED BY <2>4, <2>5
<1> QED BY <1>2, <1>3, <1>4, <1>5 DEF Live, Reached

(* A suite that is executed reports what is expected of the nodes below it. *)
LEMMA SuiteStatuses ==
  ASSUME NEW e, NEW x, Settled(e, x), NEW s \in Suites(e.tree), Live(e, s), Reached(x, s),
         NEW inner \in Runs(e),
         NEW skip \in BOOLEAN, skip <=> SkipAbove(e, s),
         NEW focus \in BOOLEAN, focus <=> FocusAbove(e, s),
         NEW O, O = {x.only},
         \A c \in Children(s, e) : c \in Suites(e.tree) /\ Live(e, c) /\ Reached(x, c) =>
           \A sk, fo \in BOOLEAN : (sk <=> SkipAbove(e, c)) /\ (fo <=> FocusAbove(e, c)) =>
             /\ inner[c][sk][fo][x.only].only \in O
             /\ Lists(inner[c][sk][fo][x.only].results, Below(e, c), Named(x), Expected(x))
  PROVE  /\ RunSuiteWith(inner, s, skip, focus, x.only, e).only \in O
         /\ Lists(RunSuiteWith(inner, s, skip, focus, x.only, e).results, Below(e, s), Named(x), Expected(x))
<1> DEFINE tree == e.tree
           T == Named(x)
           X == Expected(x)
           skip2 == skip \/ tree[s].flag = "skip"
           focus2 == focus \/ Focused(s, e)
           part == RunChild(s, skip2, focus2, inner, e)
<1>1. Env(e) /\ IsTree(tree) /\ s \in DOMAIN tree /\ x.only \in BOOLEAN /\ e.focusing = {}
      /\ Suites(tree) \cup Tests(tree) = DOMAIN tree
  BY TreeFacts DEF Settled, Env
<1>2. Keeps(e, O) /\ x.only \in O
  BY <1>1 DEF Keeps
<1>3. skip2 \in BOOLEAN /\ focus2 \in BOOLEAN
  BY DEF Focused
<1>4. hasRunnable(s, skip, focus, x.only, e) <=> Chosen(e, x, s) # {}
  BY HasRunnableChosen
<1>5. /\ AnyFailing(Hooks(tree, s, "afterAll"), e) <=> Breaks(x, s, "afterAll")
      /\ AnyFailing(Hooks(tree, s, "beforeAll"), e) <=> Breaks(x, s, "beforeAll")
  <2>1. "afterAll" \in Kinds /\ "beforeAll" \in Kinds
    BY DEF Kinds
  <2> QED BY <2>1, HooksFail
<1>6. ASSUME ~Breaks(x, s, "beforeAll"), NEW c \in Children(s, e)
      PROVE  part[c][x.only].only \in O /\ Lists(part[c][x.only].results, Below(e, c), T, X)
  <2>1. c \in DOMAIN tree /\ c \in Nat
    BY <1>1, BelowChildren, TreeFacts
  <2>2. (skip2 <=> SkipAbove(e, c)) /\ (focus2 <=> FocusAbove(e, c))
    BY AboveChild
  <2>3. /\ c \in Suites(tree) => Live(e, c) /\ Reached(x, c)
        /\ c \in Tests(tree) =>
             [node |-> c, status |-> IF ~Selected(x, c) THEN Skipped(c, e)
                                     ELSE IF Fails(x, c) THEN "fail" ELSE "pass"] \in X
    BY <1>6, InsideLive
  <2> HIDE DEF skip2, focus2
  <2>4. /\ c \in Suites(tree) => part[c][x.only] = inner[c][skip2][focus2][x.only]
        /\ c \in Tests(tree) =>
             part[c][x.only] = IF shouldRun(c, skip2, focus2, x.only, e) THEN runTest(s, c, x.only, e)
                               ELSE record(c, Skipped(c, e), x.only)
    BY <1>1, <1>3, <2>1, RunChildParts
  <2> HIDE DEF part, T, X
  <2>5. CASE c \in Suites(tree)
    <3>1. /\ inner[c][skip2][focus2][x.only].only \in O
          /\ Lists(inner[c][skip2][focus2][x.only].results, Below(e, c), T, X)
      BY <1>3, <2>2, <2>3, <2>5 DEF T, X
    <3> QED BY <2>4, <2>5, <3>1
  <2>6. CASE c \in Tests(tree)
    <3>1. Below(e, c) = {c}
      BY <1>1, <2>6, BelowTest
    <3>2. shouldRun(c, skip2, focus2, x.only, e) <=> Selected(x, c)
      BY <1>3, <2>2, <2>6, ShouldRunSelected
    <3>3. CASE Selected(x, c)
      <4> DEFINE st == IF AnyFailing(BodiesOf(s, c, e), e) THEN "fail" ELSE "pass"
      <4>1. AnyFailing(BodiesOf(s, c, e), e) <=> Fails(x, c)
        BY <2>6, VerdictIs
      <4>2. [node |-> c, status |-> st] \in X
        BY <2>3, <2>6, <3>3, <4>1
      <4>3. runTest(s, c, x.only, e).only = x.only
            /\ Lists(runTest(s, c, x.only, e).results, {c}, T, X)
        BY <1>1, <2>6, <4>2, RunTestLists
      <4> QED BY <1>2, <2>4, <2>6, <3>1, <3>2, <3>3, <4>3
    <3>4. CASE ~Selected(x, c)
      <4>1. [node |-> c, status |-> Skipped(c, e)] \in X
        BY <2>3, <2>6, <3>4
      <4>2. Skipped(c, e) \in {"pass", "fail", "skip", "todo"}
        BY DEF Skipped
      <4>3. record(c, Skipped(c, e), x.only).only = x.only
            /\ Lists(record(c, Skipped(c, e), x.only).results, {c}, T, X)
        BY <1>1, <2>1, <4>1, <4>2, RecordLists
      <4> QED BY <1>2, <2>4, <2>6, <3>1, <3>2, <3>4, <4>3
    <3> QED BY <3>3, <3>4
  <2> QED BY <1>1, <2>1, <2>5, <2>6
<1>7. ~hasRunnable(s, skip, focus, x.only, e) =>
        /\ T \cap Below(e, s) \subseteq Tests(tree)
        /\ \A t \in Tests(tree) \cap Below(e, s) : [node |-> t, status |-> Skipped(t, e)] \in X
  BY <1>4, NothingChosen
<1>8. hasRunnable(s, skip, focus, x.only, e) =>
        /\ IF Breaks(x, s, "afterAll") THEN [node |-> s, status |-> "fail"] \in X ELSE s \notin T
        /\ Breaks(x, s, "beforeAll") =>
             /\ T \cap (Below(e, s) \ {s}) \subseteq Tests(tree)
             /\ \A t \in Tests(tree) \cap Below(e, s) : [node |-> t, status |-> "fail"] \in X
  BY <1>4, OwnHooks
<1>9. ~Breaks(x, s, "beforeAll") =>
        \A c \in Children(s, e) : \A o \in O :
          part[c][o].only \in O /\ Lists(part[c][o].results, Below(e, c), T, X)
  BY <1>6
<1> HIDE DEF T, X
<1>10. Reporting(e, s, inner, skip, focus, x.only, O, T, X)
  BY <1>5, <1>7, <1>8, <1>9, Zenon DEF Reporting, part, skip2, focus2
<1>11. /\ RunSuiteWith(inner, s, skip, focus, x.only, e).only \in O
       /\ Lists(RunSuiteWith(inner, s, skip, focus, x.only, e).results, Below(e, s), T, X)
  BY <1>1, <1>2, <1>10, RunSuiteLists
<1> QED BY <1>11 DEF T, X

LEMMA RunStatuses ==
  ASSUME NEW e, NEW x, Settled(e, x), NEW s \in Suites(e.tree), Live(e, s), Reached(x, s),
         NEW skipped \in BOOLEAN, skipped <=> SkipAbove(e, s),
         NEW focused \in BOOLEAN, focused <=> FocusAbove(e, s)
  PROVE  Lists(runSuite(s, skipped, focused, x.only, e).results, Below(e, s), Named(x), Expected(x))
<1> DEFINE m == Len(e.tree)
           tree == e.tree
           O == {x.only}
<1>0. Env(e) /\ x.only \in BOOLEAN
  BY DEF Settled
<1>1. m \in Nat /\ DOMAIN tree = 1..m /\ s \in DOMAIN tree /\ (\A n \in DOMAIN tree : n \in Nat)
      /\ \A n \in Suites(tree) : n \in DOMAIN tree
  BY <1>0, TreeFacts DEF Env
<1>2. PICK run \in [0..m -> Runs(e)] :
        /\ \A d \in 1..m : \A n \in DOMAIN tree : \A skip, focus, o \in BOOLEAN :
             run[d][n][skip][focus][o] = RunSuiteWith(run[d - 1], n, skip, focus, o, e)
        /\ \A n \in DOMAIN tree : \A skip, focus, o \in BOOLEAN :
             runSuite(n, skip, focus, o, e) = run[m][n][skip][focus][o]
  BY <1>0, RunLevels
<1> HIDE DEF m, O
<1>3. O = {x.only}
  BY DEF O
<1> DEFINE Ok(d, n) == \A skip, focus \in BOOLEAN :
                         (skip <=> SkipAbove(e, n)) /\ (focus <=> FocusAbove(e, n)) =>
                           /\ run[d][n][skip][focus][x.only].only \in O
                           /\ Lists(run[d][n][skip][focus][x.only].results, Below(e, n), Named(x), Expected(x))
           D == {d \in Nat : d \in 0..m =>
                  \A n \in Suites(tree) : m - n < d /\ Live(e, n) /\ Reached(x, n) => Ok(d, n)}
<1>4. 0 \in D
  <2>1. \A n \in Suites(tree) : ~(m - n < 0)
    BY <1>1
  <2> QED BY <2>1
<1>5. ASSUME NEW d \in Nat, d \in D PROVE d + 1 \in D
  <2> HIDE DEF Ok
  <2> SUFFICES ASSUME d + 1 \in 0..m, NEW n \in Suites(tree), m - n < d + 1, Live(e, n), Reached(x, n)
               PROVE  Ok(d + 1, n)
    OBVIOUS
  <2>1. d + 1 \in 1..m /\ (d + 1) - 1 = d /\ d \in 0..m /\ n \in DOMAIN tree
    BY <1>1
  <2>2. run[d] \in Runs(e)
    BY <1>2, <2>1
  <2>3. ASSUME NEW c \in Children(n, e), c \in Suites(tree), Live(e, c), Reached(x, c)
        PROVE  Ok(d, c)
    <3>1. c \in DOMAIN tree /\ n < c
      BY <1>0, BelowChildren
    <3>2. m - c < d
      BY <1>1, <2>1, <3>1
    <3> QED BY <1>5, <2>1, <2>3, <3>2
  <2>4. ASSUME NEW skip \in BOOLEAN, NEW focus \in BOOLEAN,
               skip <=> SkipAbove(e, n), focus <=> FocusAbove(e, n)
        PROVE  /\ run[d + 1][n][skip][focus][x.only].only \in O
               /\ Lists(run[d + 1][n][skip][focus][x.only].results, Below(e, n), Named(x), Expected(x))
    <3>1. run[d + 1][n][skip][focus][x.only] = RunSuiteWith(run[d], n, skip, focus, x.only, e)
      BY <1>0, <1>2, <2>1
    <3> DEFINE inner == run[d]
    <3>2. \A c \in Children(n, e) : c \in Suites(tree) /\ Live(e, c) /\ Reached(x, c) =>
            \A sk, fo \in BOOLEAN : (sk <=> SkipAbove(e, c)) /\ (fo <=> FocusAbove(e, c)) =>
              /\ inner[c][sk][fo][x.only].only \in O
              /\ Lists(inner[c][sk][fo][x.only].results, Below(e, c), Named(x), Expected(x))
      BY <2>3, Zenon DEF Ok
    <3>3. inner \in Runs(e)
      BY <2>2
    <3> HIDE DEF inner
    <3>4. /\ RunSuiteWith(inner, n, skip, focus, x.only, e).only \in O
          /\ Lists(RunSuiteWith(inner, n, skip, focus, x.only, e).results, Below(e, n), Named(x), Expected(x))
      BY <1>3, <2>4, <3>2, <3>3, SuiteStatuses
    <3> QED BY <3>1, <3>4 DEF inner
  <2> QED BY <2>4, Zenon DEF Ok
<1>6. Nat \subseteq D
  <2> HIDE DEF D
  <2> QED BY <1>4, <1>5, NatSetInduction
<1>7. m - s < m /\ m \in 0..m
  BY <1>1
<1>8. Ok(m, s)
  BY <1>1, <1>6, <1>7
<1> HIDE DEF Ok
<1>9. Lists(run[m][s][skipped][focused][x.only].results, Below(e, s), Named(x), Expected(x))
  BY <1>8, Zenon DEF Ok
<1>10. runSuite(s, skipped, focused, x.only, e) = run[m][s][skipped][focused][x.only]
  BY <1>0, <1>1, <1>2
<1> QED BY <1>9, <1>10

(* A list that reports each of the nodes of X once, as X says, is X. *)
LEMMA ListedAll ==
  ASSUME NEW e, NEW x, Settled(e, x), NEW N, Named(x) \subseteq N, NEW new,
         Lists(new, N, Named(x), Expected(x))
  PROVE  ToSet(new) = Expected(x) /\ Len(new) = Cardinality(Expected(x))
<1> DEFINE X == Expected(x)
           m == Len(new)
<1>1. ASSUME NEW r \in X, NEW q \in X, r.node = q.node PROVE r = q
  <2>1. /\ \/ r.node \in Executing(x) /\ r = [node |-> r.node, status |-> Status(x, r.node)]
           \/ r.node \in Suites(e.tree) /\ r = [node |-> r.node, status |-> "fail"]
        /\ \/ q.node \in Executing(x) /\ q = [node |-> q.node, status |-> Status(x, q.node)]
           \/ q.node \in Suites(e.tree) /\ q = [node |-> q.node, status |-> "fail"]
    BY NamedAre
  <2>2. Executing(x) \cap Suites(e.tree) = {}
    BY NamedAre DEF Tests
  <2>3. CASE r.node \in Executing(x)
    <3>1. r = [node |-> r.node, status |-> Status(x, r.node)]
      BY <2>1, <2>2, <2>3
    <3>2. q = [node |-> q.node, status |-> Status(x, q.node)]
      BY <1>1, <2>1, <2>2, <2>3
    <3> QED BY <1>1, <3>1, <3>2
  <2>4. CASE r.node \notin Executing(x)
    <3>1. r = [node |-> r.node, status |-> "fail"] /\ q = [node |-> q.node, status |-> "fail"]
      BY <1>1, <2>1, <2>4
    <3> QED BY <1>1, <3>1
  <2> QED BY <2>3, <2>4
<1>2. /\ new \in Seq(X)
      /\ \A i, j \in 1..m : new[i].node = new[j].node => i = j
      /\ \A n \in Named(x) : \E i \in 1..m : new[i].node = n
  BY DEF Lists
<1>3. m \in Nat /\ DOMAIN new = 1..m /\ new \in [1..m -> X]
  BY <1>2, LenProperties
<1>4. \A r \in X : \E i \in 1..m : new[i] = r
  <2> SUFFICES ASSUME NEW r \in X PROVE \E i \in 1..m : new[i] = r
    OBVIOUS
  <2>1. r.node \in Named(x)
    BY DEF Named
  <2>2. PICK i \in 1..m : new[i].node = r.node
    BY <1>2, <2>1
  <2>3. new[i] \in X
    BY <1>3
  <2> QED BY <1>1, <2>2, <2>3
<1> HIDE DEF X, m
<1>5. ToSet(new) = X
  BY <1>3, <1>4 DEF ToSet
<1>6. new \in Bijection(1..m, X)
  <2>1. new \in Injection(1..m, X)
    BY <1>2, <1>3 DEF Injection, IsInjective
  <2>2. new \in Surjection(1..m, X)
    BY <1>3, <1>4 DEF Surjection
  <2> QED BY <2>1, <2>2 DEF Bijection
<1>7. ExistsBijection(1..m, X)
  BY <1>6 DEF ExistsBijection
<1>8. IsFiniteSet(1..m) /\ Cardinality(1..m) = m
  <2>1. IsFiniteSet(1..m) /\ Cardinality(1..m) = IF 1 > m THEN 0 ELSE m - 1 + 1
    BY <1>3, FS_Interval
  <2> QED BY <1>3, <2>1
<1>9. Cardinality(X) = m
  BY <1>7, <1>8, FS_Bijection
<1> QED BY <1>5, <1>9 DEF X, m

(* Nothing is expected of what is not executed. *)
LEMMA NamedTop ==
  ASSUME NEW e, NEW x, Settled(e, x), NEW n \in Named(x)
  PROVE  /\ n \in DOMAIN e.tree /\ e.top # {}
         /\ IF n = Root THEN e.whole ELSE TopOf(e.tree, n) \in e.top
<1> DEFINE tree == e.tree
<1>1. IsTree(tree)
  BY DEF Settled, Env
<1>2. \A t \in Executing(x) : t \in DOMAIN tree /\ t # Root /\ TopOf(tree, t) \in e.top
  <2>1. \A t \in Tests(tree) : t \in DOMAIN tree /\ t # Root
    BY <1>1, TreeFacts
  <2> QED BY <2>1, NamedAre
<1>3. ASSUME n \notin Executing(x)
      PROVE  \E t \in Executing(x) : n \in SuitesAround(x, t)
  BY <1>3, NamedAre DEF IsSetUp
<1>4. ASSUME NEW t \in Executing(x), n \in SuitesAround(x, t)
      PROVE  n \in DOMAIN tree /\ IF n = Root THEN e.whole ELSE TopOf(tree, n) \in e.top
  <2>1. n \in Path(tree, t) /\ n \in Suites(tree) /\ (n = Root => e.whole)
    BY <1>2, <1>4, AroundIs
  <2>2. n # Root => TopOf(tree, t) = TopOf(tree, n)
    BY <1>1, <1>2, <2>1, TopBelow
  <2> QED BY <1>2, <2>1, <2>2 DEF Suites
<1> QED BY <1>2, <1>3, <1>4

(* Nothing is above the root; above a block is the root, which is plain. *)
LEMMA AboveBlocks ==
  ASSUME NEW e, NEW x, Settled(e, x)
  PROVE  /\ ~SkipAbove(e, Root) /\ ~FocusAbove(e, Root)
         /\ \A b \in Blocks(e.tree) :
              /\ Path(e.tree, b) = {Root, b} /\ TopOf(e.tree, b) = b
              /\ ~SkipAbove(e, b) /\ ~FocusAbove(e, b)
<1> DEFINE tree == e.tree
<1>1. IsTree(tree) /\ tree[Root].flag = "plain"
  BY DEF Settled, Env
<1>2. Path(tree, Root) = {Root}
  BY <1>1, PathStep
<1>3. ASSUME NEW b \in Blocks(tree)
      PROVE  Path(tree, b) = {Root, b} /\ TopOf(tree, b) = b
  <2>1. b \in DOMAIN tree \ {Root} /\ tree[b].parent = Root
    BY DEF Blocks
  <2>2. Path(tree, b) = {Root} \cup {b}
    BY <1>1, <1>2, <2>1, PathStep
  <2>3. TopOf(tree, b) = b
    BY <1>1, <2>1, TopStep
  <2> QED BY <2>2, <2>3
<1> QED BY <1>1, <1>2, <1>3 DEF SkipAbove, FocusAbove, Focused

(* What run() reports. *)
LEMMA RootAgrees ==
  ASSUME NEW e, NEW x, Settled(e, x), e.whole
  PROVE  LET new == runSuite(Root, FALSE, FALSE, x.only, e).results
         IN  ToSet(new) = Expected(x) /\ Len(new) = Cardinality(Expected(x))
<1> DEFINE new == runSuite(Root, FALSE, FALSE, x.only, e).results
           tree == e.tree
<1>1. Env(e) /\ IsTree(tree) /\ x.only \in BOOLEAN /\ Root \in Suites(tree) /\ Root \in DOMAIN tree
  BY TreeFacts DEF Settled, Env
<1>2. FALSE \in BOOLEAN /\ (FALSE <=> SkipAbove(e, Root)) /\ (FALSE <=> FocusAbove(e, Root))
  BY AboveBlocks
<1>3. Live(e, Root) /\ Reached(x, Root)
  <2>1. Path(tree, Root) = {Root}
    BY <1>1, PathStep
  <2>2. SuitesAround(x, Root) \subseteq {Root}
    BY <1>1, <2>1, AroundIs
  <2> QED BY <2>2 DEF Live, Reached
<1>4. Lists(new, Below(e, Root), Named(x), Expected(x))
  BY <1>1, <1>2, <1>3, RunStatuses
<1>5. Named(x) \subseteq Below(e, Root)
  <2> SUFFICES ASSUME NEW n \in Named(x) PROVE n \in Below(e, Root)
    OBVIOUS
  <2>1. n \in DOMAIN tree /\ (n # Root => TopOf(tree, n) \in e.top)
    BY NamedTop
  <2>2. Root \in Path(tree, n)
    BY <1>1, <2>1, PathFacts
  <2> QED BY <2>1, <2>2 DEF Below
<1> HIDE DEF new
<1>6. ToSet(new) = Expected(x) /\ Len(new) = Cardinality(Expected(x))
  BY <1>4, <1>5, ListedAll
<1> QED BY <1>6 DEF new

(* What a block reports that is executed as soon as it is declared. *)
LEMMA BlockAgrees ==
  ASSUME NEW e, NEW x, Settled(e, x), ~e.whole, NEW block \in Blocks(e.tree), e.top = {block}
  PROVE  LET o == IF e.tree[block].kind = "suite" THEN runSuite(block, FALSE, FALSE, x.only, e)
                  ELSE IF shouldRun(block, FALSE, FALSE, x.only, e) THEN runTest(Root, block, x.only, e)
                  ELSE NotRun(block, x.only, e)
         IN  ToSet(o.results) = Expected(x) /\ Len(o.results) = Cardinality(Expected(x))
<1> DEFINE tree == e.tree
           o == IF tree[block].kind = "suite" THEN runSuite(block, FALSE, FALSE, x.only, e)
                ELSE IF shouldRun(block, FALSE, FALSE, x.only, e) THEN runTest(Root, block, x.only, e)
                ELSE NotRun(block, x.only, e)
<1>1. Env(e) /\ IsTree(tree) /\ x.only \in BOOLEAN /\ Root \in Suites(tree) /\ Root \in DOMAIN tree
      /\ block \in DOMAIN tree \ {Root} /\ tree[block].parent = Root /\ block \in Nat /\ x.tree = e.tree
      /\ (tree[block].kind = "suite" <=> block \in Suites(tree))
      /\ (tree[block].kind # "suite" <=> block \in Tests(tree))
  BY TreeFacts DEF Settled, Env, Blocks, Suites, Tests
<1>2. /\ Path(tree, block) = {Root, block} /\ TopOf(tree, block) = block
      /\ FALSE \in BOOLEAN /\ (FALSE <=> SkipAbove(e, block)) /\ (FALSE <=> FocusAbove(e, block))
  BY AboveBlocks
<1>3. SuitesAround(x, block) \subseteq {block} /\ (block \in Tests(tree) => SuitesAround(x, block) = {})
  BY <1>1, <1>2, AroundIs DEF Tests
<1>4. Named(x) \subseteq Below(e, block)
  <2> SUFFICES ASSUME NEW n \in Named(x) PROVE n \in Below(e, block)
    OBVIOUS
  <2>1. n \in DOMAIN tree \ {Root} /\ TopOf(tree, n) = block
    BY NamedTop
  <2>2. block \in Path(tree, n)
    BY <1>1, <2>1, TopFacts
  <2> QED BY <1>1, <2>1, <2>2 DEF Below
<1>5. Lists(o.results, Below(e, block), Named(x), Expected(x))
  <2>1. CASE block \in Suites(tree)
    <3>1. Live(e, block) /\ Reached(x, block)
      BY <1>1, <1>2, <1>3 DEF Live, Reached
    <3>2. Lists(runSuite(block, FALSE, FALSE, x.only, e).results, Below(e, block), Named(x), Expected(x))
      BY <1>2, <2>1, <3>1, RunStatuses
    <3> QED BY <1>1, <2>1, <3>2
  <2>2. CASE block \in Tests(tree)
    <3>1. block \in Executing(x) /\ Below(e, block) = {block}
      BY <1>1, <1>2, <2>2, NamedAre, BelowTest
    <3>2. ~Blocked(x, block)
      BY <1>3, <2>2 DEF Blocked
    <3>3. shouldRun(block, FALSE, FALSE, x.only, e) <=> Selected(x, block)
      BY <1>2, <2>2, ShouldRunSelected
    <3>4. [node |-> block, status |-> Status(x, block)] \in Expected(x)
      BY <3>1, NamedAre
    <3>5. CASE Selected(x, block)
      <4> DEFINE st == IF AnyFailing(BodiesOf(Root, block, e), e) THEN "fail" ELSE "pass"
      <4>1. block \in Children(Root, e)
        BY <1>1 DEF Children
      <4>2. AnyFailing(BodiesOf(Root, block, e), e) <=> Fails(x, block)
        BY <1>1, <2>2, <4>1, VerdictIs
      <4>3. st = Status(x, block)
        BY <3>2, <3>5, <4>2, StatusIs
      <4>4. Lists(runTest(Root, block, x.only, e).results, {block}, Named(x), Expected(x))
        BY <1>1, <2>2, <3>4, <4>3, RunTestLists
      <4> QED BY <1>1, <2>2, <3>1, <3>3, <3>5, <4>4
    <3>6. CASE ~Selected(x, block)
      <4> DEFINE st == IF tree[block].flag = "todo" THEN "todo" ELSE "skip"
      <4>1. st = Status(x, block) /\ st \in {"pass", "fail", "skip", "todo"}
        BY <1>1, <3>2, <3>6, StatusIs
      <4>2. NotRun(block, x.only, e) = record(block, st, x.only)
        BY DEF NotRun
      <4> HIDE DEF st
      <4>3. Lists(record(block, st, x.only).results, {block}, Named(x), Expected(x))
        BY <1>1, <3>4, <4>1, RecordLists
      <4> QED BY <1>1, <2>2, <3>1, <3>3, <3>6, <4>2, <4>3
    <3> QED BY <3>5, <3>6
  <2> QED BY <1>1, <2>1, <2>2
<1> DEFINE new == o.results
<1>6. Lists(new, Below(e, block), Named(x), Expected(x))
  BY <1>5
<1> HIDE DEF new
<1>7. ToSet(new) = Expected(x) /\ Len(new) = Cardinality(Expected(x))
  BY <1>4, <1>6, ListedAll
<1> QED BY <1>7 DEF new

-----------------------------------------------------------------------------
(* The statuses of every execution.                                        *)

FlagsFit(tree) == tree[Root].flag = "plain" /\ \A n \in Suites(tree) : tree[n].flag \in Flags

LEMMA DeclaredFlags ==
  ASSUME NEW tree, IsTree(tree), FlagsFit(tree), NEW node \in Nodes,
         node.kind = "suite" => node.flag \in Flags
  PROVE  FlagsFit(Append(tree, node))
<1> DEFINE b == Append(tree, node)
<1>1. /\ Len(tree) \in Nat /\ DOMAIN tree = 1..Len(tree) /\ Root \in DOMAIN tree /\ tree \in Seq(Nodes)
  BY TreeFacts DEF IsTree
<1>2. /\ DOMAIN b = 1..Len(tree) + 1 /\ b[Len(tree) + 1] = node
      /\ \A n \in 1..Len(tree) : b[n] = tree[n]
  BY <1>1, AppendProperties, LenProperties
<1> HIDE DEF b
<1>3. \A n \in DOMAIN b : n \in DOMAIN tree \/ n = Len(tree) + 1
  BY <1>1, <1>2
<1>4. b[Root] = tree[Root]
  BY <1>1, <1>2
<1>5. \A n \in Suites(b) : b[n].flag \in Flags
  BY <1>1, <1>2, <1>3 DEF FlagsFit, Suites
<1> QED BY <1>4, <1>5 DEF FlagsFit, b

LEMMA HooksFlags ==
  ASSUME NEW tree, IsTree(tree), FlagsFit(tree), NEW s \in DOMAIN tree, NEW hooks
  PROVE  FlagsFit([tree EXCEPT ![s].hooks = hooks])
<1> DEFINE b == [tree EXCEPT ![s].hooks = hooks]
<1>1. DOMAIN b = DOMAIN tree /\ Root \in DOMAIN tree
  BY TreeFacts
<1>2. \A n \in DOMAIN tree : b[n].flag = tree[n].flag /\ b[n].kind = tree[n].kind
  <2>1. \A n \in DOMAIN tree : tree[n] \in Nodes
    BY TreeFacts
  <2>2. tree \in [DOMAIN tree -> Nodes]
    <3>1. tree \in Seq(Nodes) /\ DOMAIN tree = 1..Len(tree)
      BY TreeFacts DEF IsTree
    <3> QED BY <3>1
  <2>3. \A n \in DOMAIN tree : b[n] = IF n = s THEN [tree[s] EXCEPT !.hooks = hooks] ELSE tree[n]
    BY <2>2
  <2>4. [tree[s] EXCEPT !.hooks = hooks].flag = tree[s].flag
        /\ [tree[s] EXCEPT !.hooks = hooks].kind = tree[s].kind
    BY <2>1 DEF Nodes
  <2> HIDE DEF b
  <2> QED BY <2>3, <2>4
<1> HIDE DEF b
<1> QED BY <1>1, <1>2 DEF FlagsFit, Suites, b

(* The flags of the nodes stay those the runner knows.                      *)
LEMMA FlagsStep ==
  ASSUME RunnerInv, FlagsFit(nodes), [Next]_vars
  PROVE  FlagsFit(nodes')
<1>1. IsTree(nodes) /\ Current \in Suites(nodes) /\ Current \in DOMAIN nodes /\ Current \in Nat
      /\ Root \in DOMAIN nodes
  <2>1. IsTree(nodes) /\ Current \in Suites(nodes)
    BY DEF RunnerInv
  <2> QED BY <2>1, TreeFacts
<1>2. ASSUME NEW flag \in Flags \cup {"todo"}, DeclareTest(flag) PROVE FlagsFit(nodes')
  <2> DEFINE node == Test(Current, flag)
  <2>1. node \in Nodes /\ node.kind # "suite" /\ nodes' = Append(nodes, node)
    BY <1>1, <1>2, NoHooksType DEF DeclareTest
  <2> HIDE DEF node
  <2> QED BY <1>1, <2>1, DeclaredFlags
<1>3. ASSUME NEW flag \in Flags, OpenSuite(flag) PROVE FlagsFit(nodes')
  <2> DEFINE node == Suite(Current, flag)
  <2>1. node \in Nodes /\ node.flag \in Flags /\ nodes' = Append(nodes, node)
    BY <1>1, <1>3, NoHooksType DEF OpenSuite, Suite
  <2> HIDE DEF node
  <2> QED BY <1>1, <2>1, DeclaredFlags
<1>4. ASSUME NEW threw \in BOOLEAN, CloseSuite(threw) PROVE FlagsFit(nodes')
  <2> DEFINE node == Test(Current, "threw")
  <2>1. node \in Nodes /\ node.kind # "suite"
        /\ nodes' = IF threw THEN Append(nodes, node) ELSE nodes
    BY <1>1, <1>4, NoHooksType DEF CloseSuite
  <2> HIDE DEF node
  <2>2. FlagsFit(Append(nodes, node))
    BY <1>1, <2>1, DeclaredFlags
  <2> QED BY <2>1, <2>2
<1>5. ASSUME NEW kind \in Kinds, DeclareHook(kind) PROVE FlagsFit(nodes')
  <2> DEFINE hooks == [nodes[Current].hooks EXCEPT ![kind] = @ + 1]
  <2>1. nodes' = [nodes EXCEPT ![Current].hooks = hooks]
    BY <1>5 DEF DeclareHook
  <2> HIDE DEF hooks
  <2> QED BY <1>1, <2>1, HooksFlags
<1>6. CASE Run
  <2> DEFINE hooks == [nodes[Root].hooks EXCEPT !["beforeAll"] = 0, !["afterAll"] = 0]
             b == [nodes EXCEPT ![Root].hooks = hooks]
  <2>1. "beforeAll" \in Kinds /\ "afterAll" \in Kinds
    BY DEF Kinds
  <2>2. nodes' = nodes \/ nodes' = InTwoSteps(nodes, Root, "beforeAll", "afterAll")
    BY <1>6 DEF Run, InTwoSteps
  <2>3. InTwoSteps(nodes, Root, "beforeAll", "afterAll") = InOneStep(nodes, Root, "beforeAll", "afterAll")
    BY <1>1, <2>1, TwoHooks
  <2>4. InOneStep(nodes, Root, "beforeAll", "afterAll") = b
    BY DEF InOneStep
  <2>5. FlagsFit(b)
    <3> HIDE DEF hooks
    <3> QED BY <1>1, HooksFlags
  <2> HIDE DEF b
  <2> QED BY <2>2, <2>3, <2>4, <2>5
<1>7. ASSUME nodes' = nodes PROVE FlagsFit(nodes')
  BY <1>7
<1>8. Configure \/ ScriptEnds \/ UNCHANGED vars => nodes' = nodes
  BY DEF Configure, ScriptEnds, vars
<1> QED BY <1>2, <1>3, <1>4, <1>5, <1>6, <1>7, <1>8 DEF Next

LEMMA InitFlags == Init => FlagsFit(nodes)
<1> SUFFICES ASSUME Init PROVE FlagsFit(nodes)
  OBVIOUS
<1> DEFINE root == Suite(0, "plain")
<1>1. root.flag = "plain"
  BY DEF Suite
<1>2. nodes = <<root>>
  BY DEF Init
<1> HIDE DEF root
<1>3. nodes[Root] = root /\ \A n \in Suites(nodes) : n = Root
  <2>1. DOMAIN nodes = {1} /\ nodes[1] = root
    BY <1>2
  <2> QED BY <2>1 DEF Root, Suites
<1> QED BY <1>1, <1>3 DEF FlagsFit, Flags

(* What is remembered of an execution settles what is expected of it.       *)
LEMMA BeginSettled ==
  ASSUME NEW tree, IsTree(tree), FlagsFit(tree), NEW top, top \subseteq Blocks(tree),
         NEW fails \in FailingSets(tree),
         NEW e, e.tree = tree, e.top = top, e.fails = fails, e.focusing = {}, e.whole \in BOOLEAN,
         NEW x, x.tree = e.tree, x.top = e.top, x.whole = e.whole, x.fails = e.fails, x.only \in BOOLEAN
  PROVE  Settled(e, x)
<1>1. fails \subseteq Bodies(tree)
  BY DEF FailingSets
<1>2. Env(e)
  BY DEF Env, Blocks
<1> QED BY <1>1, <1>2 DEF Settled, FlagsFit

LEMMA BlockReports ==
  ASSUME NEW tree, IsTree(tree), FlagsFit(tree), autoRun, usedOnly \in BOOLEAN,
         results \in Seq(Reported), NEW block \in Blocks(tree), RunImmediately(block, tree)
  PROVE  LET new == SubSeq(results', Len(results) + 1, Len(results'))
         IN  ToSet(new) = Expected(exec') /\ Len(new) = Cardinality(Expected(exec'))
<1>1. PICK fails \in FailingSets(tree) :
        LET e == Begin(tree, {block}, FALSE, fails, {})
        IN Finish(IF tree[block].kind = "suite" THEN runSuite(block, FALSE, FALSE, usedOnly, e)
                  ELSE IF shouldRun(block, FALSE, FALSE, usedOnly, e) THEN runTest(Root, block, usedOnly, e)
                  ELSE NotRun(block, usedOnly, e), e)
  BY DEF RunImmediately
<1> DEFINE top == {block}
           e == Begin(tree, top, FALSE, fails, {})
           o == IF tree[block].kind = "suite" THEN runSuite(block, FALSE, FALSE, usedOnly, e)
                ELSE IF shouldRun(block, FALSE, FALSE, usedOnly, e) THEN runTest(Root, block, usedOnly, e)
                ELSE NotRun(block, usedOnly, e)
<1>2. PICK x : x = exec'
  OBVIOUS
<1>3. o \in Outcomes
  BY BlockLists
<1>4. Finish(o, e) /\ top \subseteq Blocks(tree)
  BY <1>1
<1> HIDE DEF o
<1>5. Settled(e, x) /\ x.only = usedOnly /\ e.tree = tree /\ e.top = top /\ ~e.whole /\ results' = results \o o.results
  <2>1. /\ e.tree = tree /\ e.top = top /\ e.whole = FALSE /\ e.fails = fails /\ e.focusing = {}
        /\ e.whole \in BOOLEAN /\ fails \in FailingSets(tree)
    BY <1>1 DEF Begin
  <2>2. /\ x = [tree |-> e.tree, top |-> e.top, whole |-> e.whole, log |-> o.log, only |-> usedOnly,
                fails |-> e.fails, focusing |-> e.focusing]
        /\ results' = results \o o.results
    <3> HIDE DEF e, o
    <3> QED BY <1>2, <1>4 DEF Finish
  <2> HIDE DEF o, e, top
  <2>3. /\ x.tree = e.tree /\ x.top = e.top /\ x.whole = e.whole /\ x.fails = e.fails
        /\ x.only = usedOnly /\ x.only \in BOOLEAN
    BY <1>1, <2>2
  <2>4. Settled(e, x)
    BY <1>4, <2>1, <2>3, BeginSettled
  <2> QED BY <2>1, <2>2, <2>3, <2>4
<1> HIDE DEF e
<1>6. o.results \in Seq(Reported)
  BY <1>3 DEF Outcomes
<1>7. SubSeq(results', Len(results) + 1, Len(results')) = o.results
  BY <1>5, <1>6, Added
<1>8. ToSet(o.results) = Expected(x) /\ Len(o.results) = Cardinality(Expected(x))
  BY <1>5, BlockAgrees DEF o
<1> QED BY <1>2, <1>7, <1>8

LEMMA RunReports ==
  ASSUME RunnerInv, FlagsFit(nodes), Run, exec' # exec, exec'.focusing = {}
  PROVE  LET new == SubSeq(results', Len(results) + 1, Len(results'))
         IN  ToSet(new) = Expected(exec') /\ Len(new) = Cardinality(Expected(exec'))
<1>1. /\ IsTree(nodes) /\ FlagsFit(nodes) /\ pending \subseteq Blocks(nodes) /\ usedOnly \in BOOLEAN
      /\ results \in Seq(Reported) /\ Root \in Suites(nodes)
  <2>1. IsTree(nodes)
    BY DEF RunnerInv
  <2> QED BY <2>1, TreeFacts DEF RunnerInv, Accounted
<1>3. pending # {} \/ nodes[Root].hooks["beforeAll"] > 0
  BY DEF Run
<1>4. PICK fails \in FailingSets(nodes) : \E focusing \in SUBSET fails :
        LET e == Begin(nodes, pending, TRUE, fails \ focusing, focusing)
        IN Finish(runSuite(Root, FALSE, FALSE, usedOnly, e), e)
  BY <1>3 DEF Run
<1>5. PICK focusing \in SUBSET fails :
        LET e == Begin(nodes, pending, TRUE, fails \ focusing, focusing)
        IN Finish(runSuite(Root, FALSE, FALSE, usedOnly, e), e)
  BY <1>4
<1>6. focusing = {}
  BY <1>5 DEF Finish, Begin
<1>7. PICK x : x = exec'
  OBVIOUS
<1> DEFINE e == Begin(nodes, pending, TRUE, fails, {})
           o == runSuite(Root, FALSE, FALSE, usedOnly, e)
<1>8. Finish(o, e)
  <2>1. fails \ focusing = fails
    BY <1>6
  <2> QED BY <1>5, <1>6, <2>1
<1>9. Settled(e, x) /\ x.only = usedOnly /\ e.tree = nodes /\ e.top = pending /\ e.whole
      /\ results' = results \o o.results
  <2>1. /\ e.tree = nodes /\ e.top = pending /\ e.whole = TRUE /\ e.fails = fails /\ e.focusing = {}
        /\ e.whole \in BOOLEAN /\ fails \in FailingSets(nodes)
    BY <1>4 DEF Begin
  <2>2. /\ x = [tree |-> e.tree, top |-> e.top, whole |-> e.whole, log |-> o.log, only |-> usedOnly,
                fails |-> e.fails, focusing |-> e.focusing]
        /\ results' = results \o o.results
    <3> HIDE DEF e, o
    <3> QED BY <1>7, <1>8 DEF Finish
  <2> HIDE DEF o, e
  <2>3. /\ x.tree = e.tree /\ x.top = e.top /\ x.whole = e.whole /\ x.fails = e.fails
        /\ x.only = usedOnly /\ x.only \in BOOLEAN
    BY <1>1, <2>2
  <2>4. Settled(e, x)
    BY <1>1, <2>1, <2>3, BeginSettled
  <2> QED BY <2>1, <2>2, <2>3, <2>4
<1> HIDE DEF e
<1>10. o \in Outcomes
  <2>1. Env(e) /\ Root \in Suites(e.tree) /\ FALSE \in BOOLEAN
    BY <1>1, <1>9 DEF Settled
  <2> QED BY <1>1, <2>1, RunLists
<1>11. ToSet(o.results) = Expected(x) /\ Len(o.results) = Cardinality(Expected(x))
  BY <1>9, RootAgrees
<1> HIDE DEF o
<1>12. o.results \in Seq(Reported)
  BY <1>10 DEF Outcomes
<1>13. SubSeq(results', Len(results) + 1, Len(results')) = o.results
  BY <1>1, <1>9, <1>12, Added
<1> QED BY <1>7, <1>11, <1>13

(* A step that executes something is run(), or runs a block as soon as it is *)
(* declared.                                                                *)
LEMMA StepExecutes ==
  ASSUME RunnerInv, FlagsFit(nodes), [Next]_vars, exec' # exec
  PROVE  \/ Run
         \/ \E tree : \E block \in Blocks(tree) :
              IsTree(tree) /\ FlagsFit(tree) /\ autoRun /\ RunImmediately(block, tree)
<1>1. IsTree(nodes) /\ usedOnly \in BOOLEAN /\ results \in Seq(Reported) /\ Current \in Suites(nodes)
      /\ Current \in DOMAIN nodes /\ Current \in Nat
  <2>1. IsTree(nodes) /\ Current \in Suites(nodes)
    BY DEF RunnerInv
  <2> QED BY <2>1, TreeFacts DEF RunnerInv, Accounted
<1>2. ASSUME NEW flag \in Flags \cup {"todo"}, DeclareTest(flag)
      PROVE  \E tree : \E block \in Blocks(tree) :
               IsTree(tree) /\ FlagsFit(tree) /\ autoRun /\ RunImmediately(block, tree)
  <2> DEFINE node == Test(Current, flag)
             b == Append(nodes, node)
             new == Len(nodes) + 1
  <2>1. Due(Current) /\ RunImmediately(new, nodes') /\ nodes' = b
    BY <1>2 DEF DeclareTest
  <2>2. node \in Nodes /\ node.parent = Current /\ node.kind # "suite"
    BY <1>1, NoHooksType
  <2>3. IsTree(b) /\ b[new] = node /\ new \in DOMAIN b /\ new # Root
    BY <2>2, DeclaredInside
  <2>4. FlagsFit(b)
    BY <1>1, <2>2, DeclaredFlags
  <2>5. autoRun /\ new \in Blocks(b)
    BY <2>1, <2>2, <2>3 DEF Due, Blocks
  <2> HIDE DEF b, new
  <2> QED BY <2>1, <2>3, <2>4, <2>5
<1>3. ASSUME NEW threw \in BOOLEAN, CloseSuite(threw)
      PROVE  \E tree : \E block \in Blocks(tree) :
               IsTree(tree) /\ FlagsFit(tree) /\ autoRun /\ RunImmediately(block, tree)
  <2> DEFINE c == Current
  <2>1. /\ Due(nodes[c].parent) /\ RunImmediately(c, nodes') /\ c # Root
        /\ nodes' = IF threw THEN Append(nodes, Test(c, "threw")) ELSE nodes
    BY <1>3 DEF CloseSuite
  <2>2. IsTree(nodes') /\ FlagsFit(nodes')
    <3>1. RunnerInv'
      BY <1>3, CloseSuiteKeeps
    <3>2. FlagsFit(nodes')
      BY <1>3, FlagsStep DEF Next
    <3> QED BY <3>1, <3>2 DEF RunnerInv
  <2>3. c \in Blocks(nodes') /\ autoRun
    <3>1. c \in Blocks(nodes) /\ autoRun
      BY <1>1, <2>1 DEF Due, Blocks
    <3>2. CASE threw
      <4>1. Test(c, "threw") \in Nodes /\ Test(c, "threw").parent = c
        BY <1>1, NoHooksType
      <4>2. c = TopOf(nodes, c) /\ TopOf(nodes, c) \in pending \cup cut
        <5>1. c \in DOMAIN nodes \ {Root} /\ nodes[c].parent = Root
          BY <3>1 DEF Blocks
        <5> QED BY <1>1, <2>1, <5>1, TopStep DEF RunnerInv
      <4>3. pending \cup cut \subseteq Blocks(Append(nodes, Test(c, "threw")))
        BY <4>1, DeclaredInside
      <4> QED BY <2>1, <3>1, <3>2, <4>2, <4>3
    <3> QED BY <2>1, <3>1, <3>2
  <2> QED BY <2>1, <2>2, <2>3
<1>4. \/ \E flag \in Flags \cup {"todo"} : DeclareTest(flag)
      \/ \E threw \in BOOLEAN : CloseSuite(threw)
      \/ Run
  BY DEF Next, vars, OpenSuite, DeclareHook, Configure, ScriptEnds
<1> QED BY <1>2, <1>3, <1>4

LEMMA StepAgrees ==
  ASSUME RunnerInv, FlagsFit(nodes), [Next]_vars, exec' # exec, exec'.focusing = {}
  PROVE  LET new == SubSeq(results', Len(results) + 1, Len(results'))
         IN  ToSet(new) = Expected(exec') /\ Len(new) = Cardinality(Expected(exec'))
<1>1. usedOnly \in BOOLEAN /\ results \in Seq(Reported)
  BY DEF RunnerInv, Accounted
<1>2. ASSUME NEW tree, NEW block \in Blocks(tree), IsTree(tree), FlagsFit(tree), autoRun,
             RunImmediately(block, tree)
      PROVE  LET new == SubSeq(results', Len(results) + 1, Len(results'))
             IN  ToSet(new) = Expected(exec') /\ Len(new) = Cardinality(Expected(exec'))
  BY <1>1, <1>2, BlockReports
<1>3. CASE Run
  BY <1>3, RunReports
<1> QED BY <1>2, <1>3, StepExecutes

(* What every execution reports is what the declarations say it should, and  *)
(* nothing else: a test fails when a beforeAll around it failed, or when it   *)
(* is run and its body or a hook around it fails; it is skipped or todo when  *)
(* it is not selected; a failing afterAll is reported for its suite           *)
(* (runner.ts: runSuite, runTest, reportNotRun).                             *)
THEOREM SpecStatusesAgree == Spec => StatusesAgree
<1>1. RunnerInv /\ [Next]_vars => RunnerInv'
  BY RunnerInvStep
<1>2. RunnerInv /\ FlagsFit(nodes) /\ [Next]_vars => FlagsFit(nodes)'
  BY FlagsStep
<1>3. RunnerInv /\ FlagsFit(nodes) /\ [Next]_vars
        => [exec' # exec /\ exec'.focusing = {} =>
              LET new == SubSeq(results', Len(results) + 1, Len(results'))
              IN ToSet(new) = Expected(exec') /\ Len(new) = Cardinality(Expected(exec'))]_vars
  BY StepAgrees
<1> QED BY <1>1, <1>2, <1>3, InitRunnerInv, InitFlags, PTL DEF Spec, StatusesAgree

-----------------------------------------------------------------------------
(* The order in which an execution runs its bodies.                        *)

(* The bodies that are not within s, and those that are neither its          *)
(* beforeAll nor its afterAll hooks.                                        *)
Away(e, s) == {b \in Attempts : s \notin Path(e.tree, b.node)}
Tame(s) == {b \in Attempts : b.node = s => b.kind \notin {"beforeAll", "afterAll"}}

(* All that is within s is between its beforeAll and its afterAll hooks. *)
Enclosed(log, e, s) ==
  \E a \in Seq(Away(e, s)), m \in Seq(Tame(s)), z \in Seq(Away(e, s)) :
    log = (a \o (Hooks(e.tree, s, "beforeAll") \o (m \o Hooks(e.tree, s, "afterAll")))) \o z

(* Of the suites Q, those of I are set up in this part, and the others are    *)
(* not in it at all.                                                        *)
Places(log, e, Q, I) ==
  \A q \in Q : IF q \in I THEN Enclosed(log, e, q) ELSE log \in Seq(Away(e, q))

LEMMA JoinAssociative ==
  \A a, b, c \in Seq(Attempts) : (a \o b) \o c = a \o (b \o c)
BY ConcatAssociative

LEMMA EnclosedJoin ==
  ASSUME NEW e, IsTree(e.tree), NEW s \in DOMAIN e.tree,
         NEW log, Enclosed(log, e, s), NEW c \in Seq(Away(e, s))
  PROVE  Enclosed(c \o log, e, s) /\ Enclosed(log \o c, e, s)
<1> DEFINE h == Hooks(e.tree, s, "beforeAll")
           g == Hooks(e.tree, s, "afterAll")
           A == Seq(Away(e, s))
<1>1. PICK a \in A, m \in Seq(Tame(s)), z \in A : log = (a \o (h \o (m \o g))) \o z
  BY DEF Enclosed
<1>2. h \in Seq(Attempts) /\ g \in Seq(Attempts)
  BY HooksType DEF Kinds
<1>3. Away(e, s) \subseteq Attempts /\ Tame(s) \subseteq Attempts
  BY DEF Away, Tame
<1>4. a \in Seq(Attempts) /\ m \in Seq(Attempts) /\ z \in Seq(Attempts) /\ c \in Seq(Attempts)
  BY <1>1, <1>3, SeqMonotonic
<1> DEFINE core == h \o (m \o g)
<1> HIDE DEF h, g
<1>5. core \in Seq(Attempts)
  BY <1>2, <1>4, ConcatProperties
<1>6. c \o a \in A /\ z \o c \in A
  BY <1>1, ConcatProperties
<1>7. c \o ((a \o core) \o z) = ((c \o a) \o core) \o z
  <2> HIDE DEF core
  <2>1. a \o core \in Seq(Attempts)
    BY <1>4, <1>5, ConcatProperties
  <2>2. c \o ((a \o core) \o z) = (c \o (a \o core)) \o z
    BY Zenon, <1>4, <2>1, JoinAssociative
  <2>3. c \o (a \o core) = (c \o a) \o core
    BY Zenon, <1>4, <1>5, JoinAssociative
  <2> QED BY <2>2, <2>3
<1>8. ((a \o core) \o z) \o c = (a \o core) \o (z \o c)
  <2> HIDE DEF core
  <2>1. a \o core \in Seq(Attempts)
    BY <1>4, <1>5, ConcatProperties
  <2> QED BY Zenon, <1>4, <2>1, JoinAssociative
<1>9. Enclosed(c \o log, e, s)
  <2>1. c \o log = ((c \o a) \o core) \o z
    BY <1>1, <1>7
  <2> DEFINE ca == c \o a
  <2>2. ca \in A /\ c \o log = (ca \o (h \o (m \o g))) \o z
    BY <1>6, <2>1
  <2> HIDE DEF ca
  <2> QED BY <1>1, <2>2 DEF Enclosed, h, g
<1>10. Enclosed(log \o c, e, s)
  <2>1. log \o c = (a \o core) \o (z \o c)
    BY <1>1, <1>8
  <2> DEFINE zc == z \o c
  <2>2. zc \in A /\ log \o c = (a \o (h \o (m \o g))) \o zc
    BY <1>6, <2>1
  <2> HIDE DEF zc
  <2> QED BY <1>1, <2>2 DEF Enclosed, h, g
<1> QED BY <1>9, <1>10

LEMMA PlacesJoin ==
  ASSUME NEW e, IsTree(e.tree), NEW Q, Q \subseteq DOMAIN e.tree, NEW I, NEW J, I \cap J = {},
         NEW a, Places(a, e, Q, I), NEW b, Places(b, e, Q, J)
  PROVE  Places(a \o b, e, Q, I \cup J)
<1> DEFINE c == a \o b
<1> SUFFICES ASSUME NEW q \in Q
             PROVE  IF q \in I \cup J THEN Enclosed(c, e, q) ELSE c \in Seq(Away(e, q))
  BY DEF Places
<1>1. /\ IF q \in I THEN Enclosed(a, e, q) ELSE a \in Seq(Away(e, q))
      /\ IF q \in J THEN Enclosed(b, e, q) ELSE b \in Seq(Away(e, q))
  BY DEF Places
<1>2. q \in DOMAIN e.tree
  OBVIOUS
<1>3. CASE q \in I
  <2>1. Enclosed(c, e, q)
    BY <1>1, <1>2, <1>3, EnclosedJoin
  <2> QED BY <1>3, <2>1
<1>4. CASE q \in J
  <2>1. Enclosed(c, e, q)
    BY <1>1, <1>2, <1>4, EnclosedJoin
  <2> QED BY <1>4, <2>1
<1>5. CASE q \notin I \cup J
  <2>1. c \in Seq(Away(e, q))
    BY <1>1, <1>5, ConcatProperties
  <2> QED BY <1>5, <2>1
<1> QED BY <1>3, <1>4, <1>5

(* Children in turn: each of the suites Q is held by one of them at most. *)
HeldUpTo(S, held, k) == UNION {held[n] : n \in {c \in S : c <= k}}
Holds(e, S, part, O, Y, Q, held, U) ==
  /\ \A n \in S : \A o \in O : /\ part[n][o].only \in O
                               /\ part[n][o].log \in Seq(Y)
                               /\ Places(part[n][o].log, e, Q, held[n])
  /\ \A c, d \in S : c # d => held[c] \cap held[d] = {}
  /\ U = UNION {held[n] : n \in S}

LEMMA InTurnPlaces ==
  ASSUME NEW e, Env(e), NEW S, S \subseteq DOMAIN e.tree,
         NEW part \in Parts(e), NEW O, O \subseteq BOOLEAN, NEW only \in O,
         NEW Y, NEW Q, Q \subseteq DOMAIN e.tree, NEW held,
         NEW U, Holds(e, S, part, O, Y, Q, held, U)
  PROVE  /\ InTurn(S, part, only, e).only \in O
         /\ InTurn(S, part, only, e).log \in Seq(Y)
         /\ Places(InTurn(S, part, only, e).log, e, Q, U)
<1> USE DEF Holds
<1> DEFINE m == Len(e.tree)
           B(k) == HeldUpTo(S, held, k)
<1>1. m \in Nat /\ DOMAIN e.tree = 1..m /\ IsTree(e.tree) /\ only \in BOOLEAN
  BY TreeFacts DEF Env
<1>2. PICK done \in [0..m -> Outcomes] :
        /\ done[0] = Nothing(only)
        /\ \A n \in 1..m : done[n] = IF n \in S THEN Then(done[n - 1], part[n][done[n - 1].only])
                                     ELSE done[n - 1]
        /\ InTurn(S, part, only, e) = done[m]
  BY <1>1, InTurnSteps
<1> DEFINE Ok(k) == /\ done[k].only \in O /\ done[k].log \in Seq(Y)
                    /\ Places(done[k].log, e, Q, B(k))
           K == {k \in Nat : k \in 0..m => Ok(k)}
<1>3. 0 \in K
  <2>1. B(0) = {}
    BY <1>1 DEF HeldUpTo
  <2>2. done[0].only = only /\ done[0].log = <<>>
    BY <1>2 DEF Nothing
  <2>3. \A q : <<>> \in Seq(Away(e, q))
    BY EmptySeq
  <2>4. Places(<<>>, e, Q, {})
    BY <2>3 DEF Places
  <2>5. <<>> \in Seq(Y)
    BY EmptySeq
  <2> HIDE DEF B
  <2> QED BY <2>1, <2>2, <2>4, <2>5
<1>4. ASSUME NEW k \in Nat, k \in K PROVE k + 1 \in K
  <2> DEFINE n == k + 1
             p == part[n][done[k].only]
  <2> SUFFICES ASSUME n \in 0..m PROVE Ok(n)
    OBVIOUS
  <2>1. n \in 1..m /\ n - 1 = k /\ k \in 0..m /\ n \in Nat
    BY <1>1
  <2>2. Ok(k)
    BY <1>4, <2>1
  <2>3. done[n] = IF n \in S THEN Then(done[k], p) ELSE done[k]
    BY <1>2, <2>1
  <2>4. \A c \in S : c <= n <=> (c <= k \/ c = n)
    BY <1>1, <2>1
  <2>5. CASE n \notin S
    <3>1. B(n) = B(k)
      BY <2>4, <2>5 DEF HeldUpTo
    <3> QED BY <2>2, <2>3, <2>5, <3>1
  <2>6. CASE n \in S
    <3>1. done[k].only \in O /\ done[k].only \in BOOLEAN /\ done[k] \in Outcomes
      BY <1>2, <2>1, <2>2
    <3>2. p \in Outcomes
      BY <1>1, <2>1, <3>1 DEF Parts
    <3>3. p.only \in O /\ p.log \in Seq(Y) /\ Places(p.log, e, Q, held[n])
      BY <2>6, <3>1
    <3>4. B(n) = B(k) \cup held[n]
      BY <2>1, <2>4, <2>6 DEF HeldUpTo
    <3>5. B(k) \cap held[n] = {}
      <4>1. \A c \in S : c <= k => c # n
        BY <2>1
      <4> QED BY <2>6, <4>1 DEF HeldUpTo
    <3> HIDE DEF p, n, B
    <3>6. done[n].only = p.only /\ done[n].log = done[k].log \o p.log
      <4>1. Then(done[k], p).only = p.only /\ Then(done[k], p).log = done[k].log \o p.log
        BY <3>1, <3>2, ThenIs
      <4> QED BY <2>3, <2>6, <4>1
    <3>7. Places(done[k].log \o p.log, e, Q, B(k) \cup held[n])
      BY <1>1, <2>2, <3>3, <3>5, PlacesJoin
    <3>8. done[k].log \o p.log \in Seq(Y)
      BY <2>2, <3>3, ConcatProperties
    <3> QED BY <3>3, <3>4, <3>6, <3>7, <3>8
  <2> QED BY <2>5, <2>6
<1>5. Nat \subseteq K
  <2> HIDE DEF K
  <2> QED BY <1>3, <1>4, NatSetInduction
<1>6. Ok(m)
  BY <1>1, <1>5
<1>7. B(m) = U
  BY <1>1 DEF HeldUpTo
<1> HIDE DEF B
<1> QED BY <1>1, <1>2, <1>6, <1>7

(* Nothing runs in the tests that are reported without being run. *)
LEMMA ReportNotRunLog ==
  ASSUME NEW e, Env(e), NEW s \in Suites(e.tree), NEW failed \in BOOLEAN, NEW only \in BOOLEAN
  PROVE  reportNotRun(s, failed, only, e).log = <<>>
<1> DEFINE m == Len(e.tree)
           tree == e.tree
           none == {}
<1>1. m \in Nat /\ DOMAIN tree = 1..m /\ s \in DOMAIN tree
      /\ Suites(tree) \cup Tests(tree) = DOMAIN tree
  BY TreeFacts DEF Env
<1>2. PICK report \in [0..m -> Parts(e)] :
        /\ \A d \in 1..m : \A n \in DOMAIN tree : \A o \in BOOLEAN :
             report[d][n][o] = InTurn(Children(n, e), Unrun(report[d - 1], failed, e), o, e)
        /\ \A n \in DOMAIN tree : \A o \in BOOLEAN :
             reportNotRun(n, failed, o, e) = report[m][n][o]
  BY ReportLevels
<1> DEFINE Ok(d, n) == \A o \in BOOLEAN : report[d][n][o].log \in Seq(none) /\ report[d][n][o].only = o
           D == {d \in Nat : d \in 0..m => \A n \in Suites(tree) : m - n < d => Ok(d, n)}
<1>3. 0 \in D
  <2>1. \A n \in Suites(tree) : ~(m - n < 0)
    BY <1>1, TreeFacts DEF Env
  <2> QED BY <2>1
<1>4. ASSUME NEW d \in Nat, d \in D PROVE d + 1 \in D
  <2> HIDE DEF Ok
  <2> SUFFICES ASSUME d + 1 \in 0..m, NEW n \in Suites(tree), m - n < d + 1
               PROVE  Ok(d + 1, n)
    OBVIOUS
  <2> USE DEF Ok
  <2> SUFFICES ASSUME NEW o \in BOOLEAN
               PROVE  report[d + 1][n][o].log \in Seq(none) /\ report[d + 1][n][o].only = o
    BY Zenon
  <2> DEFINE part == Unrun(report[d], failed, e)
             C == Children(n, e)
  <2>1. d + 1 \in 1..m /\ (d + 1) - 1 = d /\ d \in 0..m /\ n \in DOMAIN tree
    BY <1>1, TreeFacts DEF Env
  <2>2. report[d] \in Parts(e) /\ part \in Parts(e)
    BY <1>2, <2>1, UnrunParts
  <2>3. report[d + 1][n][o] = InTurn(C, part, o, e)
    BY <1>2, <2>1
  <2>4. ASSUME NEW c \in C
        PROVE  part[c][o].log \in Seq(none) /\ part[c][o].only = o
    <3>1. c \in DOMAIN tree /\ n < c
      BY BelowChildren
    <3>2. CASE c \in Suites(tree)
      <4>1. m - c < d
        BY <1>1, <2>1, <3>1
      <4>2. Ok(d, c)
        BY <1>4, <2>1, <3>2, <4>1
      <4>3. part[c][o] = report[d][c][o]
        BY <2>2, <3>1, <3>2, UnrunParts
      <4> QED BY <4>2, <4>3
    <3>3. CASE c \in Tests(tree)
      <4> DEFINE st == IF failed THEN "fail" ELSE Skipped(c, e)
      <4>1. part[c][o] = record(c, st, o)
        BY <2>2, <3>1, <3>3, UnrunParts
      <4> HIDE DEF st, part
      <4>2. record(c, st, o).log = <<>> /\ record(c, st, o).only = o
        BY DEF record
      <4> QED BY <4>1, <4>2, EmptySeq
    <3> QED BY <1>1, <3>1, <3>2, <3>3
  <2> HIDE DEF part
  <2> DEFINE O == {o}
             held == [c \in DOMAIN tree |-> none]
             U == UNION {held[c] : c \in C}
  <2>5. \A c \in C : \A q \in O : /\ part[c][q].only \in O /\ part[c][q].log \in Seq(none)
                                  /\ Places(part[c][q].log, e, none, held[c])
    BY <2>4 DEF Places
  <2>6. C \subseteq DOMAIN tree /\ O \subseteq BOOLEAN /\ o \in O /\ none \subseteq DOMAIN tree
        /\ \A c, b \in C : c # b => held[c] \cap held[b] = {}
    BY DEF Children
  <2> HIDE DEF O, held, C, none, U
  <2>h. Holds(e, C, part, O, none, none, held, U)
    BY <2>5, <2>6 DEF Holds, U
  <2>7. InTurn(C, part, o, e).only \in O /\ InTurn(C, part, o, e).log \in Seq(none)
    BY <2>2, <2>6, <2>h, InTurnPlaces
  <2> QED BY <2>3, <2>7 DEF O
<1>5. Nat \subseteq D
  <2> HIDE DEF D
  <2> QED BY <1>3, <1>4, NatSetInduction
<1>6. m - s < m /\ m \in 0..m
  BY <1>1
<1>7. Ok(m, s)
  BY <1>1, <1>5, <1>6
<1>8. reportNotRun(s, failed, only, e) = report[m][s][only]
  BY <1>1, <1>2
<1>9. \A log \in Seq(none) : log = <<>>
  <2> SUFFICES ASSUME NEW log \in Seq(none) PROVE log = <<>>
    OBVIOUS
  <2>1. Len(log) \in Nat /\ (Len(log) # 0 => 1 \in 1..Len(log))
    BY LenProperties
  <2>2. Len(log) # 0 => log[1] \in none
    BY <2>1, ElementOfSeq
  <2> QED BY <2>1, <2>2, EmptySeq
<1> HIDE DEF none
<1> QED BY <1>7, <1>8, <1>9

LEMMA HooksWithin ==
  ASSUME NEW tree, IsTree(tree), NEW s \in DOMAIN tree, NEW kind \in Kinds,
         NEW Y, \A i \in Nat : [node |-> s, kind |-> kind, nth |-> i] \in Y
  PROVE  Hooks(tree, s, kind) \in Seq(Y)
<1>1. tree[s] \in Nodes
  BY TreeFacts
<1>2. tree[s].hooks[kind] \in Nat
  BY <1>1 DEF Nodes
<1> DEFINE h == [i \in 1..tree[s].hooks[kind] |-> [node |-> s, kind |-> kind, nth |-> i]]
<1>3. h \in [1..tree[s].hooks[kind] -> Y]
  BY <1>2
<1>4. h \in Seq(Y)
  BY <1>2, <1>3
<1> QED BY <1>4 DEF Hooks

(* The bodies of a test: its own, and beforeEach and afterEach hooks. *)
LEMMA BodiesWithin ==
  ASSUME NEW e, Env(e), NEW s \in DOMAIN e.tree, NEW t \in Tests(e.tree), NEW Y, Body(t) \in Y,
         \A a \in Path(e.tree, s) : /\ Hooks(e.tree, a, "beforeEach") \in Seq(Y)
                                    /\ Hooks(e.tree, a, "afterEach") \in Seq(Y)
  PROVE  BodiesOf(s, t, e) \in Seq(Y)
<1> DEFINE chain == Chain(e.tree, s)
           before(i) == Hooks(e.tree, chain[i], "beforeEach")
           broken == {i \in DOMAIN chain : AnyFailing(before(i), e)}
           reached == [i \in DOMAIN chain |-> IF \E j \in broken : j < i THEN <<>> ELSE before(i)]
           own == IF broken = {} THEN <<Body(t)>> ELSE <<>>
           after == [i \in DOMAIN chain |-> Hooks(e.tree, Reverse(chain)[i], "afterEach")]
           SY == Seq(Y)
<1>1. /\ Len(chain) \in Nat /\ DOMAIN chain = 1..Len(chain)
      /\ \A i \in 1..Len(chain) : chain[i] \in Path(e.tree, s) /\ Reverse(chain)[i] \in Path(e.tree, s)
  BY ChainNodes DEF Env
<1>2. \A i \in 1..Len(chain) : before(i) \in SY /\ Hooks(e.tree, Reverse(chain)[i], "afterEach") \in SY
  BY <1>1
<1>3. <<>> \in SY
  BY EmptySeq
<1>4. own \in SY
  <2> DEFINE b == Body(t)
  <2>1. b \in Y
    OBVIOUS
  <2> HIDE DEF b
  <2>2. <<b>> \in Seq(Y)
    BY <2>1
  <2> QED BY <1>3, <2>2 DEF b
<1>5. FlattenSeq(reached) \in SY
  <2>1. reached \in [1..Len(chain) -> SY]
    BY <1>1, <1>2, <1>3
  <2> HIDE DEF reached
  <2>2. reached \in Seq(SY)
    BY <1>1, <2>1
  <2> QED BY <2>2, FlattenSeqType
<1>6. FlattenSeq(after) \in SY
  <2>1. after \in [1..Len(chain) -> SY]
    BY <1>1, <1>2
  <2> HIDE DEF after
  <2>2. after \in Seq(SY)
    BY <1>1, <2>1
  <2> QED BY <2>2, FlattenSeqType
<1>7. BodiesOf(s, t, e) = FlattenSeq(reached) \o own \o FlattenSeq(after)
  BY DEF BodiesOf, AfterEach
<1> HIDE DEF reached, own, after
<1> QED BY <1>4, <1>5, <1>6, <1>7, ConcatProperties

LEMMA RunTestLog ==
  ASSUME NEW e, Env(e), NEW s \in DOMAIN e.tree, NEW t \in Tests(e.tree), NEW only \in BOOLEAN
  PROVE  runTest(s, t, only, e).log = BodiesOf(s, t, e)
<1> DEFINE ran == attempt(BodiesOf(s, t, e), only, e)
           rec == record(t, IF AnyFailing(ran.log, e) THEN "fail" ELSE "pass", ran.only)
<1>1. ran \in Outcomes /\ ran.log = BodiesOf(s, t, e)
  BY BodiesType, AttemptIs
<1>2. rec.log = <<>>
  BY DEF record
<1>3. runTest(s, t, only, e) = Then(ran, rec)
  BY DEF runTest
<1> HIDE DEF ran, rec
<1>4. Then(ran, rec).log = ran.log \o <<>>
  BY <1>2 DEF Then
<1>5. ran.log \o <<>> = ran.log
  BY <1>1, ConcatEmptySeq DEF Outcomes
<1> QED BY <1>1, <1>3, <1>4, <1>5

(* What runs in a part of the execution that is a node n: bodies below n, and *)
(* beforeEach and afterEach hooks around it; and the suites below n.         *)
Entries(e, n) ==
  {b \in Attempts : \/ b.node \in Below(e, n)
                    \/ b.node \in Path(e.tree, n) \ {n} /\ b.kind \in {"beforeEach", "afterEach"}}
SetUps(e, x) == {s \in Suites(e.tree) : IsSetUp(x, s)}
LogFits(log, e, x, n) ==
  /\ log \in Seq(Entries(e, n))
  /\ Places(log, e, Suites(e.tree) \cap Below(e, n), SetUps(e, x))

(* What runs in a child of s, seen from s. *)
InnerEntries(e, s) ==
  {b \in Attempts : \/ b.node \in Below(e, s) \ {s}
                    \/ b.node \in Path(e.tree, s) /\ b.kind \in {"beforeEach", "afterEach"}}

LEMMA EntriesOfChild ==
  ASSUME NEW e, NEW x, Settled(e, x), NEW s \in Suites(e.tree), NEW c \in Children(s, e)
  PROVE  /\ Entries(e, c) \subseteq InnerEntries(e, s)
         /\ \A q \in Suites(e.tree) \cap (Below(e, s) \ {s}) :
              q \notin Below(e, c) => Entries(e, c) \subseteq Away(e, q)
<1> DEFINE tree == e.tree
<1>1. IsTree(tree) /\ Env(e) /\ s \in DOMAIN tree
  BY TreeFacts DEF Settled, Env
<1>2. c \in DOMAIN tree \ {Root} /\ Below(e, c) \subseteq Below(e, s) /\ s \notin Below(e, c) /\ s < c
  BY <1>1, BelowChildren
<1>3. Path(tree, c) \ {c} = Path(tree, s)
  BY AboveChild
<1>4. Entries(e, c) \subseteq InnerEntries(e, s)
  BY <1>2, <1>3 DEF Entries, InnerEntries
<1>5. ASSUME NEW q \in Suites(tree) \cap (Below(e, s) \ {s}), q \notin Below(e, c),
             NEW b \in Entries(e, c)
      PROVE  q \notin Path(tree, b.node)
  <2>1. q \in DOMAIN tree /\ s \in Path(tree, q) /\ q # s
    BY DEF Below
  <2>2. q \notin Path(tree, s)
    <3>1. Path(tree, s) \subseteq 1..s /\ Path(tree, q) \subseteq 1..q /\ s \in Nat /\ q \in Nat
      BY <1>1, <2>1, PathFacts, TreeFacts
    <3>2. s <= q
      BY <2>1, <3>1
    <3> QED BY <2>1, <3>1, <3>2
  <2>3. q # c /\ q \notin Path(tree, c)
    <3>1. c \in Below(e, c)
      <4>1. c \in Path(tree, c)
        BY <1>1, <1>2, PathFacts
      <4> QED BY <1>2, <4>1 DEF Below
    <3> QED BY <1>3, <1>5, <2>2, <3>1
  <2>4. CASE b.node \in Below(e, c)
    <3>1. b.node \in DOMAIN tree /\ c \in Path(tree, b.node)
      BY <2>4 DEF Below
    <3>2. ASSUME q \in Path(tree, b.node) PROVE FALSE
      <4>1. q \in Path(tree, c) \/ c \in Path(tree, q)
        BY <1>1, <3>1, <3>2, PathLinear
      <4>2. c \in Path(tree, q) => q \in Below(e, c)
        BY <1>2, <2>1 DEF Below
      <4> QED BY <1>5, <2>3, <4>1, <4>2
    <3> QED BY <3>2
  <2>5. CASE b.node \in Path(tree, c)
    <3>1. Path(tree, b.node) \subseteq Path(tree, c)
      BY <1>1, <1>2, <2>5, PathTransitive
    <3> QED BY <2>3, <3>1
  <2> QED BY <2>4, <2>5 DEF Entries
<1>6. \A q \in Suites(tree) \cap (Below(e, s) \ {s}) :
        q \notin Below(e, c) => Entries(e, c) \subseteq Away(e, q)
  <2>1. Entries(e, c) \subseteq Attempts
    BY DEF Entries
  <2> QED BY <1>5, <2>1 DEF Away
<1> QED BY <1>4, <1>6

(* A test that runs. *)
LEMMA TestFits ==
  ASSUME NEW e, NEW x, Settled(e, x), NEW s \in Suites(e.tree), NEW c \in Children(s, e),
         c \in Tests(e.tree)
  PROVE  LogFits(BodiesOf(s, c, e), e, x, c) /\ LogFits(<<>>, e, x, c)
<1> DEFINE tree == e.tree
           Y == Entries(e, c)
<1>0. IsTree(tree) /\ Env(e)
  BY DEF Settled, Env
<1>1. IsTree(tree) /\ Env(e) /\ s \in DOMAIN tree /\ c \in DOMAIN tree /\ c \in Nat
      /\ Below(e, c) = {c}
  <2>1. s \in DOMAIN tree /\ c \in DOMAIN tree /\ c \in Nat
    BY <1>0, TreeFacts DEF Suites, Children
  <2> QED BY <1>0, <2>1, BelowTest
<1>2. Path(tree, c) \ {c} = Path(tree, s)
  BY AboveChild
<1>3. Body(c) \in Y
  BY <1>1 DEF Entries, Body, Attempts
<1>4. ASSUME NEW a \in Path(tree, s), NEW kind \in {"beforeEach", "afterEach"}
      PROVE  Hooks(tree, a, kind) \in Seq(Y)
  <2>1. a \in DOMAIN tree /\ a \in Nat /\ kind \in Kinds
    BY <1>1, PathFacts, TreeFacts DEF Kinds
  <2>2. \A i \in Nat : [node |-> a, kind |-> kind, nth |-> i] \in Y
    BY <1>2, <2>1 DEF Entries, Attempts
  <2> HIDE DEF Y
  <2> QED BY <1>1, <2>1, <2>2, HooksWithin
<1> HIDE DEF Y
<1>5. BodiesOf(s, c, e) \in Seq(Y)
  <2>1. \A a \in Path(tree, s) : /\ Hooks(tree, a, "beforeEach") \in Seq(Y)
                                 /\ Hooks(tree, a, "afterEach") \in Seq(Y)
    BY <1>4
  <2> QED BY <1>1, <1>3, <2>1, BodiesWithin
<1>6. Suites(tree) \cap Below(e, c) = {}
  BY <1>1 DEF Tests
<1>7. <<>> \in Seq(Y)
  BY EmptySeq
<1>8. \A log : Places(log, e, {}, SetUps(e, x))
  BY DEF Places
<1> QED BY <1>5, <1>6, <1>7, <1>8 DEF LogFits, Y

(* A suite below one whose beforeAll fails is not set up. *)
LEMMA NotBelowBroken ==
  ASSUME NEW e, NEW x, Settled(e, x), NEW s \in Suites(e.tree), Live(e, s),
         Breaks(x, s, "beforeAll"), NEW q \in Below(e, s) \ {s}
  PROVE  ~IsSetUp(x, q)
<1>1. q \in DOMAIN e.tree /\ s \in Path(e.tree, q)
  BY DEF Below
<1>2. s \in SuitesAround(x, q) \ {q}
  BY <1>1, AroundIs DEF Live
<1> QED BY <1>2 DEF IsSetUp

(* The log of a suite that runs is what is inside it, between its hooks. *)
LEMMA SuiteEncloses ==
  ASSUME NEW e, NEW x, Settled(e, x), NEW s \in Suites(e.tree), IsSetUp(x, s),
         NEW m \in Seq(InnerEntries(e, s)),
         Places(m, e, Suites(e.tree) \cap (Below(e, s) \ {s}), SetUps(e, x)),
         NEW log, log = Hooks(e.tree, s, "beforeAll") \o (m \o Hooks(e.tree, s, "afterAll"))
  PROVE  LogFits(log, e, x, s)
<1> DEFINE tree == e.tree
           Q == Suites(tree) \cap (Below(e, s) \ {s})
           I == SetUps(e, x)
           h == Hooks(tree, s, "beforeAll")
           g == Hooks(tree, s, "afterAll")
<1>1. IsTree(tree) /\ Env(e) /\ s \in DOMAIN tree /\ s \in Nat /\ s \in Below(e, s)
  BY TreeFacts, BelowParts DEF Settled, Env
<1>2. "beforeAll" \in Kinds /\ "afterAll" \in Kinds
  BY DEF Kinds
<1>3. ASSUME NEW q \in Q PROVE q \in DOMAIN tree /\ q \notin Path(tree, s)
  <2>1. q \in DOMAIN tree /\ s \in Path(tree, q) /\ q # s
    BY DEF Below
  <2>2. Path(tree, s) \subseteq 1..s /\ Path(tree, q) \subseteq 1..q /\ q \in Nat
    BY <1>1, <2>1, PathFacts, TreeFacts
  <2>3. s <= q
    BY <2>1, <2>2
  <2> QED BY <1>1, <2>1, <2>2, <2>3
<1>4. ASSUME NEW kind \in {"beforeAll", "afterAll"}
      PROVE  /\ Hooks(tree, s, kind) \in Seq(Entries(e, s))
             /\ \A q \in Q : Hooks(tree, s, kind) \in Seq(Away(e, q))
  <2>1. \A i \in Nat : [node |-> s, kind |-> kind, nth |-> i] \in Entries(e, s)
    BY <1>1, <1>2 DEF Entries, Attempts
  <2>2. \A q \in Q : \A i \in Nat : [node |-> s, kind |-> kind, nth |-> i] \in Away(e, q)
    BY <1>1, <1>2, <1>3 DEF Away, Attempts
  <2> HIDE DEF Q
  <2> QED BY <1>1, <1>2, <2>1, <2>2, HooksWithin
<1>5. h \in Seq(Entries(e, s)) /\ g \in Seq(Entries(e, s))
      /\ \A q \in Q : h \in Seq(Away(e, q)) /\ g \in Seq(Away(e, q))
  BY <1>4
<1>6. m \in Seq(Entries(e, s)) /\ m \in Seq(Tame(s))
  <2>1. InnerEntries(e, s) \subseteq Entries(e, s) /\ InnerEntries(e, s) \subseteq Tame(s)
    BY <1>1 DEF InnerEntries, Entries, Tame
  <2> QED BY <2>1, SeqMonotonic
<1> HIDE DEF h, g
<1>7. log = h \o (m \o g)
  BY DEF h, g
<1>8. log \in Seq(Entries(e, s))
  BY <1>5, <1>6, <1>7, ConcatProperties
<1>9. Enclosed(log, e, s)
  <2> DEFINE n == <<>>
  <2>1. n \in Seq(Away(e, s)) /\ n \in Seq(Entries(e, s))
    BY EmptySeq
  <2>2. (n \o log) \o n = log
    BY <1>8, ConcatEmptySeq
  <2> HIDE DEF n
  <2>3. log = (n \o (h \o (m \o g))) \o n
    BY <1>7, <2>2
  <2> QED BY <1>6, <2>1, <2>3 DEF Enclosed, h, g
<1>10. Places(log, e, Q, I)
  <2> DEFINE none == {}
             mg == m \o g
  <2>1. Places(g, e, Q, none) /\ Places(h, e, Q, none)
    BY <1>5 DEF Places
  <2>2. Q \subseteq DOMAIN tree /\ I \cap none = {} /\ none \cap I = {} /\ I \cup none = I /\ none \cup I = I
    BY <1>3
  <2>3. Places(m, e, Q, I)
    OBVIOUS
  <2> HIDE DEF Q, I, none
  <2>4. Places(mg, e, Q, I)
    <3>1. Places(m \o g, e, Q, I \cup none)
      BY <1>1, <2>1, <2>2, <2>3, PlacesJoin
    <3> QED BY <2>2, <3>1
  <2> HIDE DEF mg
  <2>5. Places(h \o mg, e, Q, none \cup I)
    BY <1>1, <2>1, <2>2, <2>4, PlacesJoin
  <2> QED BY <1>7, <2>2, <2>5 DEF mg
<1>11. Places(log, e, Suites(tree) \cap Below(e, s), I)
  <2>1. s \in I
    BY DEF SetUps
  <2>2. \A q \in Suites(tree) \cap Below(e, s) : q = s \/ q \in Q
    OBVIOUS
  <2> HIDE DEF Q, I
  <2> QED BY <1>9, <1>10, <2>1, <2>2 DEF Places
<1> QED BY <1>8, <1>11 DEF LogFits

(* What is inside a suite whose beforeAll does not fail. *)
LEMMA InsidePlaces ==
  ASSUME NEW e, NEW x, Settled(e, x), NEW s \in Suites(e.tree), NEW part \in Parts(e),
         NEW O, O \subseteq BOOLEAN, NEW only \in O,
         \A c \in Children(s, e) : \A o \in O :
           part[c][o].only \in O /\ LogFits(part[c][o].log, e, x, c)
  PROVE  /\ InTurn(Children(s, e), part, only, e).only \in O
         /\ InTurn(Children(s, e), part, only, e).log \in Seq(InnerEntries(e, s))
         /\ Places(InTurn(Children(s, e), part, only, e).log, e,
                   Suites(e.tree) \cap (Below(e, s) \ {s}), SetUps(e, x))
<1> DEFINE S == Children(s, e)
           Q == Suites(e.tree) \cap (Below(e, s) \ {s})
           I == SetUps(e, x)
           Y == InnerEntries(e, s)
           held == [c \in DOMAIN e.tree |-> Below(e, c) \cap I]
           U == UNION {held[c] : c \in S}
<1>1. Env(e) /\ S \subseteq DOMAIN e.tree /\ Q \subseteq DOMAIN e.tree
  BY DEF Settled, Children, Below
<1>2. \A c \in S : held[c] = Below(e, c) \cap I
  BY <1>1
<1>3. ASSUME NEW c \in S, NEW o \in O
      PROVE  part[c][o].log \in Seq(Y) /\ Places(part[c][o].log, e, Q, held[c])
  <2> DEFINE log == part[c][o].log
  <2>1. log \in Seq(Entries(e, c)) /\ Places(log, e, Suites(e.tree) \cap Below(e, c), I)
    BY DEF LogFits
  <2>2. Entries(e, c) \subseteq Y /\ \A q \in Q : q \notin Below(e, c) => Entries(e, c) \subseteq Away(e, q)
    BY EntriesOfChild
  <2> HIDE DEF log
  <2>3. log \in Seq(Y)
    BY <2>1, <2>2, SeqMonotonic
  <2>4. ASSUME NEW q \in Q
        PROVE  IF q \in held[c] THEN Enclosed(log, e, q) ELSE log \in Seq(Away(e, q))
    <3>1. CASE q \in Below(e, c)
      <4>1. q \in Suites(e.tree) \cap Below(e, c) /\ (q \in held[c] <=> q \in I)
        BY <1>2, <3>1
      <4> HIDE DEF held, I, Q
      <4> QED BY <2>1, <4>1 DEF Places
    <3>2. CASE q \notin Below(e, c)
      <4>1. log \in Seq(Away(e, q))
        BY <2>1, <2>2, <3>2, SeqMonotonic
      <4>2. q \notin held[c]
        BY <1>2, <3>2
      <4> QED BY <4>1, <4>2
    <3> QED BY <3>1, <3>2
  <2>5. Places(log, e, Q, held[c])
    <3> HIDE DEF Q, held
    <3> QED BY <2>4 DEF Places
  <2> QED BY <2>3, <2>5 DEF log
<1>4. \A c, d \in S : c # d => held[c] \cap held[d] = {}
  <2>1. \A c, d \in S : c # d => Below(e, c) \cap Below(e, d) = {}
    BY <1>1, BelowChildren
  <2> QED BY <1>2, <2>1
<1>5. \A q \in Q : (q \in U) <=> (q \in I)
  <2>1. \A q \in Q : \E c \in S : q \in Below(e, c)
    BY <1>1, BelowParts
  <2> HIDE DEF S, Q, I, held
  <2> QED BY <1>2, <2>1
<1>6. \A c \in S : \A o \in O : /\ part[c][o].only \in O /\ part[c][o].log \in Seq(Y)
                                /\ Places(part[c][o].log, e, Q, held[c])
  BY <1>3
<1> HIDE DEF S, Q, I, Y, held, U
<1>h. Holds(e, S, part, O, Y, Q, held, U)
  BY <1>4, <1>6 DEF Holds, U
<1>7. /\ InTurn(S, part, only, e).only \in O
      /\ InTurn(S, part, only, e).log \in Seq(Y)
      /\ Places(InTurn(S, part, only, e).log, e, Q, U)
  BY <1>1, <1>h, InTurnPlaces
<1>8. Places(InTurn(S, part, only, e).log, e, Q, I)
  BY <1>5, <1>7 DEF Places
<1> QED BY <1>7, <1>8 DEF S, Q, I, Y

LEMMA HooksRun ==
  ASSUME NEW e, Env(e), e.focusing = {}, NEW s \in DOMAIN e.tree, NEW kind \in Kinds, NEW o \in BOOLEAN
  PROVE  runHooks(s, kind, o, e).only = o /\ runHooks(s, kind, o, e).log = Hooks(e.tree, s, kind)
<1> DEFINE b == Hooks(e.tree, s, kind)
<1>1. b \in Seq(Attempts)
  BY HooksType DEF Env
<1> HIDE DEF b
<1>2. attempt(b, o, e).only = o /\ attempt(b, o, e).log = b
  BY <1>1, AttemptIs
<1> QED BY <1>2 DEF runHooks, b

LEMMA SuiteLogs ==
  ASSUME NEW e, NEW x, Settled(e, x), NEW s \in Suites(e.tree), Live(e, s), Reached(x, s),
         NEW inner \in Runs(e),
         NEW skip \in BOOLEAN, skip <=> SkipAbove(e, s),
         NEW focus \in BOOLEAN, focus <=> FocusAbove(e, s),
         NEW O, O = {x.only},
         \A c \in Children(s, e) : c \in Suites(e.tree) /\ Live(e, c) /\ Reached(x, c) =>
           \A sk, fo \in BOOLEAN : (sk <=> SkipAbove(e, c)) /\ (fo <=> FocusAbove(e, c)) =>
             /\ inner[c][sk][fo][x.only].only \in O
             /\ LogFits(inner[c][sk][fo][x.only].log, e, x, c)
  PROVE  /\ RunSuiteWith(inner, s, skip, focus, x.only, e).only \in O
         /\ LogFits(RunSuiteWith(inner, s, skip, focus, x.only, e).log, e, x, s)
<1> DEFINE tree == e.tree
           only == x.only
           skip2 == skip \/ tree[s].flag = "skip"
           focus2 == focus \/ Focused(s, e)
           setUp == runHooks(s, "beforeAll", only, e)
           broken == AnyFailing(Hooks(tree, s, "beforeAll"), e)
           failing == AnyFailing(Hooks(tree, s, "afterAll"), e)
           part == RunChild(s, skip2, focus2, inner, e)
           children == InTurn(Children(s, e), part, setUp.only, e)
           inside == IF broken THEN reportNotRun(s, TRUE, setUp.only, e) ELSE children
           tearDown == runHooks(s, "afterAll", inside.only, e)
           verdict == IF failing THEN record(s, "fail", tearDown.only) ELSE Nothing(tearDown.only)
           run == RunSuiteWith(inner, s, skip, focus, only, e)
           runnable == hasRunnable(s, skip, focus, only, e)
           unrun == reportNotRun(s, FALSE, only, e)
           Q == Suites(tree) \cap (Below(e, s) \ {s})
           I == SetUps(e, x)
           h == Hooks(tree, s, "beforeAll")
           g == Hooks(tree, s, "afterAll")
<1>1. Env(e) /\ IsTree(tree) /\ s \in DOMAIN tree /\ only \in BOOLEAN /\ e.focusing = {}
      /\ Suites(tree) \cup Tests(tree) = DOMAIN tree /\ O \subseteq BOOLEAN /\ only \in O
  BY TreeFacts DEF Settled, Env
<1>2. /\ skip2 \in BOOLEAN /\ focus2 \in BOOLEAN
      /\ setUp \in Outcomes
      /\ inside \in Outcomes /\ inside.only \in BOOLEAN
      /\ tearDown \in Outcomes
      /\ verdict \in Outcomes /\ verdict.only = tearDown.only
      /\ run = IF runnable THEN Then(Then(setUp, inside), Then(tearDown, verdict)) ELSE unrun
  <2>1. SuiteParts(e, inner, s, skip, focus, only)
    BY <1>1, RunSuiteParts
  <2> QED BY <2>1 DEF SuiteParts
<1>3. ASSUME NEW kind \in Kinds, NEW o \in BOOLEAN
      PROVE  runHooks(s, kind, o, e).only = o /\ runHooks(s, kind, o, e).log = Hooks(tree, s, kind)
  BY <1>1, HooksRun
<1>4. "beforeAll" \in Kinds /\ "afterAll" \in Kinds
  BY DEF Kinds
<1>5. runnable <=> Chosen(e, x, s) # {}
  BY HasRunnableChosen
<1>6. <<>> \in Seq(Entries(e, s)) /\ <<>> \in Seq(InnerEntries(e, s)) /\ \A q : <<>> \in Seq(Away(e, q))
  BY EmptySeq
<1>7. CASE ~runnable
  <2>1. \A q \in Below(e, s) : ~IsSetUp(x, q)
    BY <1>5, <1>7, SetUpChosen
  <2> DEFINE no == FALSE
             N == {}
  <2>2. unrun.log = <<>> /\ unrun.only = only
    <3>1. reportNotRun(s, no, only, e).log = <<>>
      <4>1. no \in BOOLEAN
        OBVIOUS
      <4> HIDE DEF no
      <4> QED BY <1>1, <4>1, ReportNotRunLog
    <3>2. reportNotRun(s, no, only, e).only = only
      <4>1. no \in BOOLEAN /\ N \cap (Below(e, s) \ {s}) \subseteq Tests(tree)
        OBVIOUS
      <4> DEFINE X == {[node |-> t, status |-> IF no THEN "fail" ELSE Skipped(t, e)] : t \in Tests(tree)}
      <4>2. \A t \in Tests(tree) \cap Below(e, s) : [node |-> t, status |-> IF no THEN "fail" ELSE Skipped(t, e)] \in X
        OBVIOUS
      <4> HIDE DEF no, X, N
      <4> QED BY <1>1, <4>1, <4>2, ReportNotRunLists
    <3> QED BY <3>1, <3>2
  <2>3. LogFits(<<>>, e, x, s)
    <3>1. \A q \in Suites(tree) \cap Below(e, s) : q \notin I
      BY <2>1 DEF SetUps
    <3> QED BY <1>6, <3>1 DEF LogFits, Places
  <2> HIDE DEF unrun
  <2>4. run = unrun
    BY <1>2, <1>7
  <2> HIDE DEF run
  <2>5. run.only \in O /\ LogFits(run.log, e, x, s)
    BY <1>1, <2>2, <2>3, <2>4
  <2> QED BY <2>5 DEF run
<1>8. CASE runnable
  <2>1. IsSetUp(x, s) /\ (broken <=> Breaks(x, s, "beforeAll"))
    BY <1>4, <1>5, <1>8, SetUpChosen, HooksFail
  <2>2. setUp.only = only /\ setUp.log = h
    BY <1>1, <1>3, <1>4
  <2>3. /\ inside.only \in O /\ inside.log \in Seq(InnerEntries(e, s))
        /\ Places(inside.log, e, Q, I)
    <3>1. CASE broken
      <4> DEFINE yes == TRUE
                 N == {}
      <4>1. inside = reportNotRun(s, yes, only, e)
        BY <2>2, <3>1
      <4>2. reportNotRun(s, yes, only, e).log = <<>>
        <5>1. yes \in BOOLEAN
          OBVIOUS
        <5> HIDE DEF yes
        <5> QED BY <1>1, <5>1, ReportNotRunLog
      <4>3. reportNotRun(s, yes, only, e).only = only
        <5>1. yes \in BOOLEAN /\ N \cap (Below(e, s) \ {s}) \subseteq Tests(tree)
          OBVIOUS
        <5> DEFINE X == {[node |-> t, status |-> IF yes THEN "fail" ELSE Skipped(t, e)] : t \in Tests(tree)}
        <5>2. \A t \in Tests(tree) \cap Below(e, s) : [node |-> t, status |-> IF yes THEN "fail" ELSE Skipped(t, e)] \in X
          OBVIOUS
        <5> HIDE DEF yes, X, N
        <5> QED BY <1>1, <5>1, <5>2, ReportNotRunLists
      <4>4. Places(<<>>, e, Q, I)
        <5>1. \A q \in Q : q \notin I
          BY <2>1, <3>1, NotBelowBroken DEF SetUps
        <5> HIDE DEF Q, I
        <5> QED BY <1>6, <5>1 DEF Places
      <4> HIDE DEF inside, Q, I, yes
      <4> QED BY <1>1, <1>6, <4>1, <4>2, <4>3, <4>4
    <3>2. CASE ~broken
      <4>1. part \in Parts(e)
        BY <1>1, <1>2, RunChildParts
      <4>2. ASSUME NEW c \in Children(s, e)
            PROVE  part[c][only].only \in O /\ LogFits(part[c][only].log, e, x, c)
        <5>1. c \in DOMAIN tree /\ c \in Nat
          BY <1>1, BelowChildren, TreeFacts
        <5>2. (skip2 <=> SkipAbove(e, c)) /\ (focus2 <=> FocusAbove(e, c))
          BY AboveChild
        <5>3. c \in Suites(tree) => Live(e, c) /\ Reached(x, c)
          BY <2>1, <3>2, InsideLive
        <5> HIDE DEF skip2, focus2
        <5>4. /\ c \in Suites(tree) => part[c][only] = inner[c][skip2][focus2][only]
              /\ c \in Tests(tree) =>
                   part[c][only] = IF shouldRun(c, skip2, focus2, only, e) THEN runTest(s, c, only, e)
                                   ELSE record(c, Skipped(c, e), only)
          BY <1>1, <1>2, <5>1, RunChildParts
        <5> HIDE DEF part
        <5>5. CASE c \in Suites(tree)
          <6>1. /\ inner[c][skip2][focus2][only].only \in O
                /\ LogFits(inner[c][skip2][focus2][only].log, e, x, c)
            BY <1>2, <5>2, <5>3, <5>5
          <6> QED BY <5>4, <5>5, <6>1
        <5>6. CASE c \in Tests(tree)
          <6>1. LogFits(BodiesOf(s, c, e), e, x, c) /\ LogFits(<<>>, e, x, c)
            BY <5>6, TestFits
          <6>2. runTest(s, c, only, e).log = BodiesOf(s, c, e) /\ runTest(s, c, only, e).only = only
            <7> HIDE DEF only
            <7>1. runTest(s, c, only, e).log = BodiesOf(s, c, e)
              BY <1>1, <5>6, RunTestLog
            <7>2. runTest(s, c, only, e).only = only
              BY <1>1, <5>6, RunTestLists
            <7> QED BY <7>1, <7>2
          <6>3. record(c, Skipped(c, e), only).log = <<>> /\ record(c, Skipped(c, e), only).only = only
            BY DEF record
          <6> QED BY <1>1, <5>4, <5>6, <6>1, <6>2, <6>3
        <5> QED BY <1>1, <5>1, <5>5, <5>6
      <4>3. \A c \in Children(s, e) : \A o \in O : part[c][o].only \in O /\ LogFits(part[c][o].log, e, x, c)
        BY <4>2
      <4> HIDE DEF part, only
      <4>4. /\ InTurn(Children(s, e), part, only, e).only \in O
            /\ InTurn(Children(s, e), part, only, e).log \in Seq(InnerEntries(e, s))
            /\ Places(InTurn(Children(s, e), part, only, e).log, e, Q, I)
        BY <1>1, <4>1, <4>3, InsidePlaces
      <4>5. inside = InTurn(Children(s, e), part, only, e)
        BY <2>2, <3>2
      <4> HIDE DEF inside, Q, I
      <4> QED BY <4>4, <4>5
    <3> QED BY <3>1, <3>2
  <2> HIDE DEF inside
  <2>4. tearDown.only = inside.only /\ tearDown.log = g
    BY <1>2, <1>3, <1>4
  <2>5. verdict.log = <<>>
    BY DEF record, Nothing
  <2> HIDE DEF setUp, tearDown, verdict, Q, I
  <2> DEFINE first == Then(setUp, inside)
             last == Then(tearDown, verdict)
             log == h \o (inside.log \o g)
  <2>6. h \in Seq(Attempts) /\ g \in Seq(Attempts) /\ inside.log \in Seq(Attempts)
    BY <1>1, <1>2, <1>4, HooksType DEF Outcomes
  <2> HIDE DEF h, g
  <2>7. first.log = h \o inside.log /\ last.log = g \o <<>> /\ last.only = inside.only
    BY <1>2, <2>2, <2>4, <2>5 DEF Then
  <2>8. g \o <<>> = g
    BY <2>6, ConcatEmptySeq
  <2> HIDE DEF first, last
  <2>9. (h \o inside.log) \o g = log
    BY Zenon, <2>6, JoinAssociative DEF log
  <2>10. Then(first, last).log = log /\ Then(first, last).only = inside.only
    BY <2>7, <2>8, <2>9 DEF Then
  <2> HIDE DEF log
  <2>11. LogFits(log, e, x, s)
    <3>1. log = Hooks(tree, s, "beforeAll") \o (inside.log \o Hooks(tree, s, "afterAll"))
      BY DEF log, h, g
    <3>2. Places(inside.log, e, Suites(tree) \cap (Below(e, s) \ {s}), SetUps(e, x))
      BY <2>3 DEF Q, I
    <3> QED BY <2>1, <2>3, <3>1, <3>2, SuiteEncloses
  <2>12. run = Then(first, last)
    BY <1>2, <1>8 DEF first, last
  <2> HIDE DEF run
  <2>13. run.only \in O /\ LogFits(run.log, e, x, s)
    BY <2>3, <2>10, <2>11, <2>12
  <2> QED BY <2>13 DEF run
<1> QED BY <1>7, <1>8

LEMMA RunLogs ==
  ASSUME NEW e, NEW x, Settled(e, x), NEW s \in Suites(e.tree), Live(e, s), Reached(x, s),
         NEW skipped \in BOOLEAN, skipped <=> SkipAbove(e, s),
         NEW focused \in BOOLEAN, focused <=> FocusAbove(e, s)
  PROVE  LogFits(runSuite(s, skipped, focused, x.only, e).log, e, x, s)
<1> DEFINE m == Len(e.tree)
           tree == e.tree
           O == {x.only}
<1>0. Env(e) /\ x.only \in BOOLEAN
  BY DEF Settled
<1>1. m \in Nat /\ DOMAIN tree = 1..m /\ s \in DOMAIN tree /\ (\A n \in DOMAIN tree : n \in Nat)
      /\ \A n \in Suites(tree) : n \in DOMAIN tree
  BY <1>0, TreeFacts DEF Env
<1>2. PICK run \in [0..m -> Runs(e)] :
        /\ \A d \in 1..m : \A n \in DOMAIN tree : \A skip, focus, o \in BOOLEAN :
             run[d][n][skip][focus][o] = RunSuiteWith(run[d - 1], n, skip, focus, o, e)
        /\ \A n \in DOMAIN tree : \A skip, focus, o \in BOOLEAN :
             runSuite(n, skip, focus, o, e) = run[m][n][skip][focus][o]
  BY <1>0, RunLevels
<1> HIDE DEF m, O
<1>3. O = {x.only}
  BY DEF O
<1> DEFINE Ok(d, n) == \A skip, focus \in BOOLEAN :
                         (skip <=> SkipAbove(e, n)) /\ (focus <=> FocusAbove(e, n)) =>
                           /\ run[d][n][skip][focus][x.only].only \in O
                           /\ LogFits(run[d][n][skip][focus][x.only].log, e, x, n)
           D == {d \in Nat : d \in 0..m =>
                  \A n \in Suites(tree) : m - n < d /\ Live(e, n) /\ Reached(x, n) => Ok(d, n)}
<1>4. 0 \in D
  <2>1. \A n \in Suites(tree) : ~(m - n < 0)
    BY <1>1
  <2> QED BY <2>1
<1>5. ASSUME NEW d \in Nat, d \in D PROVE d + 1 \in D
  <2> HIDE DEF Ok
  <2> SUFFICES ASSUME d + 1 \in 0..m, NEW n \in Suites(tree), m - n < d + 1, Live(e, n), Reached(x, n)
               PROVE  Ok(d + 1, n)
    OBVIOUS
  <2>1. d + 1 \in 1..m /\ (d + 1) - 1 = d /\ d \in 0..m /\ n \in DOMAIN tree
    BY <1>1
  <2>2. run[d] \in Runs(e)
    BY <1>2, <2>1
  <2>3. ASSUME NEW c \in Children(n, e), c \in Suites(tree), Live(e, c), Reached(x, c)
        PROVE  Ok(d, c)
    <3>1. c \in DOMAIN tree /\ n < c
      BY <1>0, BelowChildren
    <3>2. m - c < d
      BY <1>1, <2>1, <3>1
    <3> QED BY <1>5, <2>1, <2>3, <3>2
  <2>4. ASSUME NEW skip \in BOOLEAN, NEW focus \in BOOLEAN,
               skip <=> SkipAbove(e, n), focus <=> FocusAbove(e, n)
        PROVE  /\ run[d + 1][n][skip][focus][x.only].only \in O
               /\ LogFits(run[d + 1][n][skip][focus][x.only].log, e, x, n)
    <3>1. run[d + 1][n][skip][focus][x.only] = RunSuiteWith(run[d], n, skip, focus, x.only, e)
      BY <1>0, <1>2, <2>1
    <3> DEFINE inner == run[d]
    <3>2. \A c \in Children(n, e) : c \in Suites(tree) /\ Live(e, c) /\ Reached(x, c) =>
            \A sk, fo \in BOOLEAN : (sk <=> SkipAbove(e, c)) /\ (fo <=> FocusAbove(e, c)) =>
              /\ inner[c][sk][fo][x.only].only \in O
              /\ LogFits(inner[c][sk][fo][x.only].log, e, x, c)
      BY <2>3, Zenon DEF Ok
    <3>3. inner \in Runs(e)
      BY <2>2
    <3> HIDE DEF inner
    <3>4. /\ RunSuiteWith(inner, n, skip, focus, x.only, e).only \in O
          /\ LogFits(RunSuiteWith(inner, n, skip, focus, x.only, e).log, e, x, n)
      BY <1>3, <2>4, <3>2, <3>3, SuiteLogs
    <3> QED BY <3>1, <3>4 DEF inner
  <2> QED BY <2>4, Zenon DEF Ok
<1>6. Nat \subseteq D
  <2> HIDE DEF D
  <2> QED BY <1>4, <1>5, NatSetInduction
<1>7. m - s < m /\ m \in 0..m
  BY <1>1
<1>8. Ok(m, s)
  BY <1>1, <1>6, <1>7
<1> HIDE DEF Ok
<1>9. LogFits(run[m][s][skipped][focused][x.only].log, e, x, s)
  BY <1>8, Zenon DEF Ok
<1>10. runSuite(s, skipped, focused, x.only, e) = run[m][s][skipped][focused][x.only]
  BY <1>0, <1>1, <1>2
<1> QED BY <1>9, <1>10

(* The whole log of an execution: every suite that is set up encloses what    *)
(* is within it, and no other has a beforeAll or an afterAll hook in it.     *)
Rounded(log, e, x) ==
  \A s \in Suites(e.tree) : IF s \in SetUps(e, x) THEN Enclosed(log, e, s) ELSE log \in Seq(Tame(s))

LEMMA SetUpTop ==
  ASSUME NEW e, NEW x, Settled(e, x), NEW s \in SetUps(e, x)
  PROVE  /\ s \in DOMAIN e.tree /\ e.top # {}
         /\ IF s = Root THEN e.whole ELSE TopOf(e.tree, s) \in e.top
<1> DEFINE tree == e.tree
<1>1. IsTree(tree)
  BY DEF Settled, Env
<1>2. PICK t \in Executing(x) : s \in SuitesAround(x, t)
  BY DEF SetUps, IsSetUp
<1>3. t \in DOMAIN tree /\ t # Root /\ TopOf(tree, t) \in e.top
  <2>1. \A n \in Tests(tree) : n \in DOMAIN tree /\ n # Root
    BY <1>1, TreeFacts
  <2> QED BY <2>1, NamedAre
<1>4. s \in Path(tree, t) /\ s \in Suites(tree) /\ (s = Root => e.whole)
  BY <1>2, <1>3, AroundIs
<1>5. s # Root => TopOf(tree, t) = TopOf(tree, s)
  BY <1>1, <1>3, <1>4, TopBelow
<1> QED BY <1>3, <1>4, <1>5 DEF Suites

LEMMA FitsRounded ==
  ASSUME NEW e, NEW x, Settled(e, x), NEW n \in DOMAIN e.tree, NEW log, LogFits(log, e, x, n),
         SetUps(e, x) \subseteq Below(e, n)
  PROVE  Rounded(log, e, x)
<1> DEFINE I == SetUps(e, x)
<1>1. IsTree(e.tree) /\ log \in Seq(Entries(e, n))
      /\ Places(log, e, Suites(e.tree) \cap Below(e, n), I)
  BY DEF Settled, Env, LogFits
<1> SUFFICES ASSUME NEW s \in Suites(e.tree)
             PROVE  IF s \in I THEN Enclosed(log, e, s) ELSE log \in Seq(Tame(s))
  BY DEF Rounded
<1>2. CASE s \in Below(e, n)
  <2>1. IF s \in I THEN Enclosed(log, e, s) ELSE log \in Seq(Away(e, s))
    <3> HIDE DEF I
    <3> QED BY <1>1, <1>2 DEF Places
  <2>2. Away(e, s) \subseteq Tame(s)
    <3>1. s \in Path(e.tree, s)
      BY <1>1, PathFacts DEF Suites
    <3> QED BY <3>1 DEF Away, Tame
  <2> QED BY <2>1, <2>2, SeqMonotonic
<1>3. CASE s \notin Below(e, n)
  <2>1. s \notin I
    BY <1>3
  <2>2. Entries(e, n) \subseteq Tame(s)
    BY <1>3 DEF Entries, Tame
  <2> QED BY <1>1, <2>1, <2>2, SeqMonotonic
<1> QED BY <1>2, <1>3

(* What run() runs. *)
LEMMA RootRounded ==
  ASSUME NEW e, NEW x, Settled(e, x), e.whole
  PROVE  Rounded(runSuite(Root, FALSE, FALSE, x.only, e).log, e, x)
<1> DEFINE no == FALSE
           log == runSuite(Root, no, no, x.only, e).log
           tree == e.tree
<1>1. Env(e) /\ IsTree(tree) /\ x.only \in BOOLEAN /\ Root \in Suites(tree) /\ Root \in DOMAIN tree
  BY TreeFacts DEF Settled, Env
<1>2. no \in BOOLEAN /\ (no <=> SkipAbove(e, Root)) /\ (no <=> FocusAbove(e, Root))
  BY AboveBlocks
<1> HIDE DEF no
<1>3. Live(e, Root) /\ Reached(x, Root)
  <2>1. Path(tree, Root) = {Root}
    BY <1>1, PathStep
  <2>2. SuitesAround(x, Root) \subseteq {Root}
    BY <1>1, <2>1, AroundIs
  <2> QED BY <2>2 DEF Live, Reached
<1>4. LogFits(log, e, x, Root)
  BY <1>1, <1>2, <1>3, RunLogs
<1>5. SetUps(e, x) \subseteq Below(e, Root)
  <2> SUFFICES ASSUME NEW n \in SetUps(e, x) PROVE n \in Below(e, Root)
    OBVIOUS
  <2>1. n \in DOMAIN tree /\ (n # Root => TopOf(tree, n) \in e.top)
    BY SetUpTop
  <2>2. Root \in Path(tree, n)
    BY <1>1, <2>1, PathFacts
  <2> QED BY <2>1, <2>2 DEF Below
<1> HIDE DEF log
<1>6. Rounded(log, e, x)
  BY <1>1, <1>4, <1>5, FitsRounded
<1> QED BY <1>6 DEF log, no

(* What a block runs that is executed as soon as it is declared. *)
LEMMA BlockRounded ==
  ASSUME NEW e, NEW x, Settled(e, x), ~e.whole, NEW block \in Blocks(e.tree), e.top = {block}
  PROVE  LET o == IF e.tree[block].kind = "suite" THEN runSuite(block, FALSE, FALSE, x.only, e)
                  ELSE IF shouldRun(block, FALSE, FALSE, x.only, e) THEN runTest(Root, block, x.only, e)
                  ELSE NotRun(block, x.only, e)
         IN  Rounded(o.log, e, x)
<1> DEFINE tree == e.tree
           no == FALSE
           suite == runSuite(block, no, no, x.only, e)
           test == runTest(Root, block, x.only, e)
           unrun == NotRun(block, x.only, e)
           o == IF tree[block].kind = "suite" THEN suite
                ELSE IF shouldRun(block, no, no, x.only, e) THEN test
                ELSE unrun
<1>1. Env(e) /\ IsTree(tree) /\ x.only \in BOOLEAN /\ Root \in Suites(tree) /\ Root \in DOMAIN tree
      /\ block \in DOMAIN tree \ {Root} /\ tree[block].parent = Root /\ x.tree = e.tree
      /\ (tree[block].kind = "suite" <=> block \in Suites(tree))
      /\ (tree[block].kind # "suite" <=> block \in Tests(tree))
  BY TreeFacts DEF Settled, Env, Blocks, Suites, Tests
<1>2. /\ Path(tree, block) = {Root, block} /\ TopOf(tree, block) = block
      /\ no \in BOOLEAN /\ (no <=> SkipAbove(e, block)) /\ (no <=> FocusAbove(e, block))
  BY AboveBlocks
<1> HIDE DEF no
<1>3. SuitesAround(x, block) \subseteq {block}
  BY <1>1, <1>2, AroundIs
<1>4. SetUps(e, x) \subseteq Below(e, block)
  <2> SUFFICES ASSUME NEW n \in SetUps(e, x) PROVE n \in Below(e, block)
    OBVIOUS
  <2>1. n \in DOMAIN tree \ {Root} /\ TopOf(tree, n) = block
    BY SetUpTop
  <2>2. block \in Path(tree, n)
    BY <1>1, <2>1, TopFacts
  <2> QED BY <1>1, <2>1, <2>2 DEF Below
<1>5. LogFits(o.log, e, x, block)
  <2>1. CASE block \in Suites(tree)
    <3>1. Live(e, block) /\ Reached(x, block)
      BY <1>1, <1>2, <1>3 DEF Live, Reached
    <3>2. LogFits(suite.log, e, x, block)
      BY <1>2, <2>1, <3>1, RunLogs
    <3> HIDE DEF suite, test, unrun
    <3> QED BY <1>1, <2>1, <3>2
  <2>2. CASE block \in Tests(tree)
    <3>1. block \in Children(Root, e)
      BY <1>1 DEF Children
    <3>2. LogFits(BodiesOf(Root, block, e), e, x, block) /\ LogFits(<<>>, e, x, block)
      BY <1>1, <2>2, <3>1, TestFits
    <3>3. test.log = BodiesOf(Root, block, e)
      BY <1>1, <2>2, RunTestLog
    <3>4. unrun.log = <<>>
      BY DEF NotRun, record
    <3> HIDE DEF suite, test, unrun
    <3> QED BY <1>1, <2>2, <3>2, <3>3, <3>4
  <2> QED BY <1>1, <2>1, <2>2
<1> DEFINE log == o.log
<1>6. LogFits(log, e, x, block) /\ block \in DOMAIN tree
  BY <1>1, <1>5
<1> HIDE DEF log
<1>7. Rounded(log, e, x)
  BY <1>4, <1>6, FitsRounded
<1> QED BY <1>7 DEF log, no

-----------------------------------------------------------------------------
(* Where the bodies of a sequence a \o (h \o (m \o g)) \o z are.           *)

Joined(c, p, q, P, Q, N) ==
  /\ c \in Seq(Attempts) /\ P \in Nat /\ Q \in Nat /\ N = P + Q
  /\ Len(c) = N /\ DOMAIN c = 1..N
  /\ \A i \in 1..P : c[i] = p[i]
  /\ \A i \in 1..Q : c[P + i] = q[i]

LEMMA JoinPositions ==
  ASSUME NEW p \in Seq(Attempts), NEW q \in Seq(Attempts), NEW c, c = p \o q,
         NEW P, P = Len(p), NEW Q, Q = Len(q), NEW N, N = P + Q
  PROVE  Joined(c, p, q, P, Q, N)
<1>1. /\ P \in Nat /\ Q \in Nat /\ c \in Seq(Attempts) /\ Len(c) = P + Q
      /\ \A i \in 1..P + Q : c[i] = IF i <= P THEN p[i] ELSE q[i - P]
  BY ConcatProperties, LenProperties
<1>2. DOMAIN c = 1..P + Q
  BY <1>1, LenProperties
<1>3. \A i \in 1..Q : P + i \in 1..P + Q /\ ~(P + i <= P) /\ (P + i) - P = i
  BY <1>1
<1>4. \A i \in 1..P : i \in 1..P + Q /\ i <= P
  BY <1>1
<1> QED BY <1>1, <1>2, <1>3, <1>4 DEF Joined

Positions(log, a, h, m, g, z, A, H, M, G, Z) ==
  /\ A \in Nat /\ H \in Nat /\ M \in Nat /\ G \in Nat /\ Z \in Nat
  /\ DOMAIN log = 1..(A + H + M + G + Z)
  /\ \A i \in 1..A : log[i] = a[i]
  /\ \A i \in 1..H : log[A + i] = h[i]
  /\ \A i \in 1..M : log[A + H + i] = m[i]
  /\ \A i \in 1..G : log[A + H + M + i] = g[i]
  /\ \A i \in 1..Z : log[A + H + M + G + i] = z[i]

LEMMA PositionsOf ==
  ASSUME NEW a \in Seq(Attempts), NEW h \in Seq(Attempts), NEW m \in Seq(Attempts),
         NEW g \in Seq(Attempts), NEW z \in Seq(Attempts),
         NEW log, log = (a \o (h \o (m \o g))) \o z,
         NEW A, A = Len(a), NEW H, H = Len(h), NEW M, M = Len(m), NEW G, G = Len(g), NEW Z, Z = Len(z)
  PROVE  Positions(log, a, h, m, g, z, A, H, M, G, Z)
<1>1. A \in Nat /\ H \in Nat /\ M \in Nat /\ G \in Nat /\ Z \in Nat
  BY LenProperties
<1>2. PICK mg, MG : mg = m \o g /\ MG = M + G
  OBVIOUS
<1>3. PICK hmg, HMG : hmg = h \o mg /\ HMG = H + MG
  OBVIOUS
<1>4. PICK ahmg, AHMG : ahmg = a \o hmg /\ AHMG = A + HMG
  OBVIOUS
<1>5. PICK N : N = AHMG + Z
  OBVIOUS
<1>6. Joined(mg, m, g, M, G, MG)
  BY <1>2, JoinPositions
<1>13. Joined(hmg, h, mg, H, MG, HMG)
  <2>1. mg \in Seq(Attempts) /\ MG = Len(mg)
    BY <1>6 DEF Joined
  <2> QED BY <1>3, <2>1, JoinPositions
<1>14. Joined(ahmg, a, hmg, A, HMG, AHMG)
  <2>1. hmg \in Seq(Attempts) /\ HMG = Len(hmg)
    BY <1>13 DEF Joined
  <2> QED BY <1>4, <2>1, JoinPositions
<1>15. Joined(log, ahmg, z, AHMG, Z, N)
  <2>1. ahmg \in Seq(Attempts) /\ AHMG = Len(ahmg) /\ log = ahmg \o z
    BY <1>2, <1>3, <1>4, <1>14 DEF Joined
  <2> QED BY <1>5, <2>1, JoinPositions
<1>16. AHMG \in Nat /\ HMG \in Nat /\ MG \in Nat
  BY <1>1, <1>2, <1>3, <1>4
<1> USE DEF Joined
<1>7. ASSUME NEW i \in 1..H PROVE log[A + i] = h[i]
  <2>1. A + i \in 1..AHMG /\ i \in 1..HMG
    BY <1>1, <1>3, <1>4, <1>16
  <2> QED BY <1>13, <1>14, <1>15, <2>1
<1>8. ASSUME NEW i \in 1..M PROVE log[A + H + i] = m[i]
  <2>1. PICK j : j = H + i
    OBVIOUS
  <2>2. A + j \in 1..AHMG /\ j \in 1..HMG /\ i \in 1..MG /\ A + H + i = A + j
    BY <1>1, <1>2, <1>3, <1>4, <2>1
  <2>3. hmg[j] = mg[i] /\ mg[i] = m[i]
    BY <1>6, <1>13, <2>1, <2>2
  <2> QED BY <1>14, <1>15, <2>2, <2>3
<1>9. ASSUME NEW i \in 1..G PROVE log[A + H + M + i] = g[i]
  <2>1. PICK k, j : k = M + i /\ j = H + k
    OBVIOUS
  <2>2. A + j \in 1..AHMG /\ j \in 1..HMG /\ k \in 1..MG /\ A + H + M + i = A + j
    BY <1>1, <1>2, <1>3, <1>4, <2>1
  <2>3. hmg[j] = mg[k] /\ mg[k] = g[i]
    BY <1>6, <1>13, <2>1, <2>2
  <2> QED BY <1>14, <1>15, <2>2, <2>3
<1>10. \A i \in 1..A : log[i] = a[i]
  <2>1. \A i \in 1..A : i \in 1..AHMG
    BY <1>1, <1>4, <1>16
  <2> QED BY <1>14, <1>15, <2>1
<1>11. AHMG = A + H + M + G /\ N = A + H + M + G + Z
  BY <1>1, <1>2, <1>3, <1>4, <1>5
<1>12. DOMAIN log = 1..(A + H + M + G + Z) /\ \A i \in 1..Z : log[A + H + M + G + i] = z[i]
  BY <1>11, <1>15
<1> QED BY <1>1, <1>12, <1>7, <1>8, <1>9, <1>10 DEF Positions

(* A suite that encloses what is within it is set up and torn down once. *)
IndicesIn(log, tree, s) == {i \in DOMAIN log : log[i].node \in DOMAIN tree /\ s \in Path(tree, log[i].node)}
IndicesOf(log, tree, s, kind) == {i \in IndicesIn(log, tree, s) : log[i].node = s /\ log[i].kind = kind}

LEMMA EnclosedOnce ==
  ASSUME NEW e, IsTree(e.tree), NEW s \in DOMAIN e.tree, NEW log, Enclosed(log, e, s),
         NEW own, own = IndicesIn(log, e.tree, s),
         NEW first, first = IndicesOf(log, e.tree, s, "beforeAll"),
         NEW last, last = IndicesOf(log, e.tree, s, "afterAll")
  PROVE  /\ Cardinality(first) = e.tree[s].hooks["beforeAll"]
         /\ Cardinality(last) = e.tree[s].hooks["afterAll"]
         /\ \A i \in first, j \in own \ first : i < j
         /\ \A i \in last, j \in own \ last : i > j
<1> DEFINE tree == e.tree
           h == Hooks(tree, s, "beforeAll")
           g == Hooks(tree, s, "afterAll")
<1>1. PICK a \in Seq(Away(e, s)), m \in Seq(Tame(s)), z \in Seq(Away(e, s)) :
        log = (a \o (h \o (m \o g))) \o z
  BY DEF Enclosed
<1>2. /\ a \in Seq(Attempts) /\ m \in Seq(Attempts) /\ z \in Seq(Attempts)
      /\ h \in Seq(Attempts) /\ g \in Seq(Attempts)
  <2>1. Away(e, s) \subseteq Attempts /\ Tame(s) \subseteq Attempts
    BY DEF Away, Tame
  <2> QED BY <1>1, <2>1, SeqMonotonic, HooksType DEF Kinds
<1>3. /\ s \in Path(tree, s)
      /\ tree[s].hooks["beforeAll"] \in Nat /\ tree[s].hooks["afterAll"] \in Nat
  <2>1. tree[s] \in Nodes
    BY TreeFacts
  <2> QED BY <2>1, PathFacts DEF Nodes, Kinds
<1>4. /\ Len(h) = tree[s].hooks["beforeAll"] /\ Len(g) = tree[s].hooks["afterAll"]
      /\ \A i \in 1..Len(h) : h[i].node = s /\ h[i].kind = "beforeAll"
      /\ \A i \in 1..Len(g) : g[i].node = s /\ g[i].kind = "afterAll"
  BY <1>3 DEF Hooks
<1> HIDE DEF h, g
<1> DEFINE A == Len(a)
           H == Len(h)
           M == Len(m)
           G == Len(g)
           Z == Len(z)
<1>5. /\ \A i \in 1..A : s \notin Path(tree, a[i].node)
      /\ \A i \in 1..M : m[i].node = s => m[i].kind \notin {"beforeAll", "afterAll"}
      /\ \A i \in 1..Z : s \notin Path(tree, z[i].node)
  <2>1. \A i \in 1..A : a[i] \in Away(e, s)
    BY <1>1, ElementOfSeq
  <2>2. \A i \in 1..M : m[i] \in Tame(s)
    BY <1>1, ElementOfSeq
  <2>3. \A i \in 1..Z : z[i] \in Away(e, s)
    BY <1>1, ElementOfSeq
  <2> QED BY <2>1, <2>2, <2>3 DEF Away, Tame
<1>14. A = Len(a) /\ H = Len(h) /\ M = Len(m) /\ G = Len(g) /\ Z = Len(z)
  OBVIOUS
<1> HIDE DEF A, H, M, G, Z
<1>6. /\ A \in Nat /\ H \in Nat /\ M \in Nat /\ G \in Nat /\ Z \in Nat
      /\ DOMAIN log = 1..(A + H + M + G + Z)
      /\ \A i \in 1..A : log[i] = a[i]
      /\ \A i \in 1..H : log[A + i] = h[i]
      /\ \A i \in 1..M : log[A + H + i] = m[i]
      /\ \A i \in 1..G : log[A + H + M + i] = g[i]
      /\ \A i \in 1..Z : log[A + H + M + G + i] = z[i]
  <2>1. Positions(log, a, h, m, g, z, A, H, M, G, Z)
    BY <1>1, <1>2, <1>14, PositionsOf
  <2> QED BY <2>1 DEF Positions
<1> DEFINE F == A + 1 .. A + H
           L == A + H + M + 1 .. A + H + M + G
<1>7. ASSUME NEW i \in DOMAIN log
      PROVE  \/ i \in 1..A /\ s \notin Path(tree, log[i].node)
             \/ i \in F /\ log[i].node = s /\ log[i].kind = "beforeAll"
             \/ i \in A + H + 1 .. A + H + M
                /\ (log[i].node = s => log[i].kind \notin {"beforeAll", "afterAll"})
             \/ i \in L /\ log[i].node = s /\ log[i].kind = "afterAll"
             \/ i > A + H + M + G /\ s \notin Path(tree, log[i].node)
  <2>1. CASE i \in 1..A
    BY <1>5, <1>6, <2>1
  <2>2. CASE i \in F
    <3> DEFINE k == i - A
    <3>1. k \in 1..H /\ A + k = i
      BY <1>6, <2>2
    <3> HIDE DEF k
    <3>2. h[k].node = s /\ h[k].kind = "beforeAll" /\ log[A + k] = h[k]
      BY <1>4, <1>6, <1>14, <3>1
    <3> QED BY <2>2, <3>1, <3>2
  <2>3. CASE i \in A + H + 1 .. A + H + M
    <3> DEFINE k == i - (A + H)
    <3>1. k \in 1..M /\ A + H + k = i
      BY <1>6, <2>3
    <3> HIDE DEF k
    <3> QED BY <1>5, <1>6, <2>3, <3>1
  <2>4. CASE i \in L
    <3> DEFINE k == i - (A + H + M)
    <3>1. k \in 1..G /\ A + H + M + k = i
      BY <1>6, <2>4
    <3> HIDE DEF k
    <3>2. g[k].node = s /\ g[k].kind = "afterAll" /\ log[A + H + M + k] = g[k]
      BY <1>4, <1>6, <1>14, <3>1
    <3> QED BY <2>4, <3>1, <3>2
  <2>5. CASE i > A + H + M + G
    <3> DEFINE k == i - (A + H + M + G)
    <3>1. k \in 1..Z /\ A + H + M + G + k = i
      BY <1>6, <2>5
    <3> HIDE DEF k
    <3> QED BY <1>5, <1>6, <2>5, <3>1
  <2>6. i \in 1..A \/ i \in F \/ i \in A + H + 1 .. A + H + M \/ i \in L \/ i > A + H + M + G
    BY <1>6
  <2> QED BY <2>1, <2>2, <2>3, <2>4, <2>5, <2>6
<1>8. F \subseteq DOMAIN log /\ L \subseteq DOMAIN log
      /\ (\A i \in F : i \notin 1..A /\ i \notin A + H + 1 .. A + H + M /\ i \notin L /\ ~(i > A + H + M + G))
      /\ (\A i \in L : i \notin 1..A /\ i \notin A + H + 1 .. A + H + M /\ i \notin F /\ ~(i > A + H + M + G))
  BY <1>6
<1>9. first = F /\ last = L
  <2> HIDE DEF F, L
  <2>1. \A i \in F : log[i].node = s /\ log[i].kind = "beforeAll"
    BY <1>7, <1>8
  <2>2. \A i \in L : log[i].node = s /\ log[i].kind = "afterAll"
    BY <1>7, <1>8
  <2>3. F \subseteq first /\ L \subseteq last
    BY <1>3, <1>8, <2>1, <2>2 DEF IndicesOf, IndicesIn
  <2>4. ASSUME NEW i \in first PROVE i \in F
    <3>1. i \in DOMAIN log /\ log[i].node = s /\ log[i].kind = "beforeAll"
      BY DEF IndicesOf, IndicesIn
    <3> QED BY <1>3, <1>7, <3>1
  <2>5. ASSUME NEW i \in last PROVE i \in L
    <3>1. i \in DOMAIN log /\ log[i].node = s /\ log[i].kind = "afterAll"
      BY DEF IndicesOf, IndicesIn
    <3> QED BY <1>3, <1>7, <3>1
  <2> QED BY <2>3, <2>4, <2>5
<1>10. own \subseteq A + 1 .. A + H + M + G
  <2>1. \A i \in own : i \in DOMAIN log /\ s \in Path(tree, log[i].node)
    BY DEF IndicesIn
  <2> QED BY <1>6, <1>7, <2>1
<1>11. Cardinality(F) = H /\ Cardinality(L) = G
  <2>1. A + 1 \in Int /\ A + H \in Int /\ A + H + M + 1 \in Int /\ A + H + M + G \in Int
    BY <1>6
  <2>2. /\ Cardinality(F) = IF A + 1 > A + H THEN 0 ELSE (A + H) - (A + 1) + 1
        /\ Cardinality(L) = IF A + H + M + 1 > A + H + M + G THEN 0
                            ELSE (A + H + M + G) - (A + H + M + 1) + 1
    BY <2>1, FS_Interval
  <2> QED BY <1>6, <2>2
<1>12. \A i \in first, j \in own \ first : i < j
  BY <1>6, <1>9, <1>10
<1>13. \A i \in last, j \in own \ last : i > j
  BY <1>6, <1>9, <1>10
<1> QED BY <1>4, <1>9, <1>11, <1>12, <1>13 DEF H, G

LEMMA RoundedOnce ==
  ASSUME NEW e, NEW x, Settled(e, x), Rounded(x.log, e, x)
  PROVE  OnceAround(x)
<1> DEFINE tree == e.tree
           log == x.log
<1>1. x.tree = tree /\ IsTree(tree)
  BY DEF Settled, Env
<1> SUFFICES ASSUME NEW s \in Suites(x.tree)
             PROVE  LET own == {i \in DOMAIN x.log : x.log[i].node \in Within(x, s)}
                        of(kind) == {i \in own : x.log[i].node = s /\ x.log[i].kind = kind}
                    IN /\ \A kind \in {"beforeAll", "afterAll"} :
                            Cardinality(of(kind)) = IF IsSetUp(x, s) THEN x.tree[s].hooks[kind] ELSE 0
                       /\ \A i \in of("beforeAll"), j \in own \ of("beforeAll") : i < j
                       /\ \A i \in of("afterAll"), j \in own \ of("afterAll") : i > j
  BY DEF OnceAround
<1>2. Within(x, s) = {n \in DOMAIN tree : s \in Path(tree, n)}
  BY <1>1 DEF Within, Around, Path
<1>3. {i \in DOMAIN log : log[i].node \in Within(x, s)} = IndicesIn(log, tree, s)
  BY <1>2 DEF IndicesIn
<1> DEFINE own == IndicesIn(log, tree, s)
           of(kind) == IndicesOf(log, tree, s, kind)
           f == of("beforeAll")
           l == of("afterAll")
<1>4. s \in DOMAIN tree /\ s \in Suites(tree)
  BY <1>1 DEF Suites
<1>5. /\ Cardinality(f) = IF IsSetUp(x, s) THEN tree[s].hooks["beforeAll"] ELSE 0
      /\ Cardinality(l) = IF IsSetUp(x, s) THEN tree[s].hooks["afterAll"] ELSE 0
      /\ \A i \in f, j \in own \ f : i < j
      /\ \A i \in l, j \in own \ l : i > j
  <2>1. CASE IsSetUp(x, s)
    <3>1. Enclosed(log, e, s)
      BY <1>4, <2>1 DEF Rounded, SetUps
    <3>2. /\ Cardinality(f) = tree[s].hooks["beforeAll"]
          /\ Cardinality(l) = tree[s].hooks["afterAll"]
          /\ \A i \in f, j \in own \ f : i < j
          /\ \A i \in l, j \in own \ l : i > j
      <4> DEFINE w == own
                 ff == f
                 ll == l
                 lg == log
      <4>1. w = IndicesIn(lg, tree, s) /\ ff = IndicesOf(lg, tree, s, "beforeAll") /\ ll = IndicesOf(lg, tree, s, "afterAll")
            /\ Enclosed(lg, e, s)
        BY <3>1
      <4> HIDE DEF w, ff, ll, lg
      <4>2. /\ Cardinality(ff) = tree[s].hooks["beforeAll"]
            /\ Cardinality(ll) = tree[s].hooks["afterAll"]
            /\ \A i \in ff, j \in w \ ff : i < j
            /\ \A i \in ll, j \in w \ ll : i > j
        BY <1>1, <1>4, <4>1, EnclosedOnce
      <4> QED BY <4>2 DEF w, ff, ll
    <3> HIDE DEF f, l, own
    <3> QED BY <2>1, <3>2
  <2>2. CASE ~IsSetUp(x, s)
    <3>1. log \in Seq(Tame(s))
      BY <1>4, <2>2 DEF Rounded, SetUps
    <3>2. \A i \in DOMAIN log : log[i] \in Tame(s)
      BY <3>1, LenProperties, ElementOfSeq
    <3>3. f = {} /\ l = {}
      BY <3>2 DEF IndicesOf, IndicesIn, Tame
    <3> HIDE DEF f, l, own
    <3> QED BY <2>2, <3>3, FS_EmptySet
  <2> QED BY <2>1, <2>2
<1> QED BY <1>1, <1>3, <1>5 DEF IndicesOf

-----------------------------------------------------------------------------
(* The order of the bodies of every execution.                             *)

LEMMA BlockOnce ==
  ASSUME NEW tree, IsTree(tree), FlagsFit(tree), autoRun, usedOnly \in BOOLEAN,
         NEW block \in Blocks(tree), RunImmediately(block, tree)
  PROVE  OnceAround(exec')
<1>1. PICK fails \in FailingSets(tree) :
        LET e == Begin(tree, {block}, FALSE, fails, {})
        IN Finish(IF tree[block].kind = "suite" THEN runSuite(block, FALSE, FALSE, usedOnly, e)
                  ELSE IF shouldRun(block, FALSE, FALSE, usedOnly, e) THEN runTest(Root, block, usedOnly, e)
                  ELSE NotRun(block, usedOnly, e), e)
  BY DEF RunImmediately
<1> DEFINE top == {block}
           e == Begin(tree, top, FALSE, fails, {})
           o == IF tree[block].kind = "suite" THEN runSuite(block, FALSE, FALSE, usedOnly, e)
                ELSE IF shouldRun(block, FALSE, FALSE, usedOnly, e) THEN runTest(Root, block, usedOnly, e)
                ELSE NotRun(block, usedOnly, e)
<1>2. PICK x : x = exec'
  OBVIOUS
<1>3. Finish(o, e) /\ top \subseteq Blocks(tree)
  BY <1>1
<1> HIDE DEF o
<1>4. Settled(e, x) /\ x.only = usedOnly /\ e.tree = tree /\ e.top = top /\ ~e.whole /\ x.log = o.log
  <2>1. /\ e.tree = tree /\ e.top = top /\ e.whole = FALSE /\ e.fails = fails /\ e.focusing = {}
        /\ e.whole \in BOOLEAN /\ fails \in FailingSets(tree)
    BY <1>1 DEF Begin
  <2>2. x = [tree |-> e.tree, top |-> e.top, whole |-> e.whole, log |-> o.log, only |-> usedOnly,
             fails |-> e.fails, focusing |-> e.focusing]
    <3> HIDE DEF e, o
    <3> QED BY <1>2, <1>3 DEF Finish
  <2> HIDE DEF o, e, top
  <2>3. /\ x.tree = e.tree /\ x.top = e.top /\ x.whole = e.whole /\ x.fails = e.fails /\ x.log = o.log
        /\ x.only = usedOnly /\ x.only \in BOOLEAN
    BY <1>1, <2>2
  <2>4. Settled(e, x)
    BY <1>3, <2>1, <2>3, BeginSettled
  <2> QED BY <2>1, <2>3, <2>4
<1> HIDE DEF e
<1>5. Rounded(o.log, e, x)
  BY <1>4, BlockRounded DEF o
<1>6. OnceAround(x)
  BY <1>4, <1>5, RoundedOnce
<1> QED BY <1>2, <1>6

LEMMA RunOnce ==
  ASSUME RunnerInv, FlagsFit(nodes), Run, exec' # exec, exec'.focusing = {}
  PROVE  OnceAround(exec')
<1>1. /\ IsTree(nodes) /\ FlagsFit(nodes) /\ pending \subseteq Blocks(nodes) /\ usedOnly \in BOOLEAN
  <2>1. IsTree(nodes)
    BY DEF RunnerInv
  <2> QED BY <2>1 DEF RunnerInv, Accounted
<1>3. pending # {} \/ nodes[Root].hooks["beforeAll"] > 0
  BY DEF Run
<1>4. PICK fails \in FailingSets(nodes) : \E focusing \in SUBSET fails :
        LET e == Begin(nodes, pending, TRUE, fails \ focusing, focusing)
        IN Finish(runSuite(Root, FALSE, FALSE, usedOnly, e), e)
  BY <1>3 DEF Run
<1>5. PICK focusing \in SUBSET fails :
        LET e == Begin(nodes, pending, TRUE, fails \ focusing, focusing)
        IN Finish(runSuite(Root, FALSE, FALSE, usedOnly, e), e)
  BY <1>4
<1>6. focusing = {}
  BY <1>5 DEF Finish, Begin
<1>7. PICK x : x = exec'
  OBVIOUS
<1> DEFINE e == Begin(nodes, pending, TRUE, fails, {})
           o == runSuite(Root, FALSE, FALSE, usedOnly, e)
<1>8. Finish(o, e)
  <2>1. fails \ focusing = fails
    BY <1>6
  <2> QED BY <1>5, <1>6, <2>1
<1>9. Settled(e, x) /\ x.only = usedOnly /\ e.tree = nodes /\ e.top = pending /\ e.whole /\ x.log = o.log
  <2>1. /\ e.tree = nodes /\ e.top = pending /\ e.whole = TRUE /\ e.fails = fails /\ e.focusing = {}
        /\ e.whole \in BOOLEAN /\ fails \in FailingSets(nodes)
    BY <1>4 DEF Begin
  <2>2. x = [tree |-> e.tree, top |-> e.top, whole |-> e.whole, log |-> o.log, only |-> usedOnly,
             fails |-> e.fails, focusing |-> e.focusing]
    <3> HIDE DEF e, o
    <3> QED BY <1>7, <1>8 DEF Finish
  <2> HIDE DEF o, e
  <2>3. /\ x.tree = e.tree /\ x.top = e.top /\ x.whole = e.whole /\ x.fails = e.fails /\ x.log = o.log
        /\ x.only = usedOnly /\ x.only \in BOOLEAN
    BY <1>1, <2>2
  <2>4. Settled(e, x)
    BY <1>1, <2>1, <2>3, BeginSettled
  <2> QED BY <2>1, <2>3, <2>4
<1> HIDE DEF e
<1>10. Rounded(o.log, e, x)
  BY <1>9, RootRounded
<1> HIDE DEF o
<1>11. OnceAround(x)
  BY <1>9, <1>10, RoundedOnce
<1> QED BY <1>7, <1>11

LEMMA StepOnce ==
  ASSUME RunnerInv, FlagsFit(nodes), [Next]_vars, exec' # exec, exec'.focusing = {}
  PROVE  OnceAround(exec')
<1>1. usedOnly \in BOOLEAN
  BY DEF RunnerInv
<1>2. ASSUME NEW tree, NEW block \in Blocks(tree), IsTree(tree), FlagsFit(tree), autoRun,
             RunImmediately(block, tree)
      PROVE  OnceAround(exec')
  BY <1>1, <1>2, BlockOnce
<1>3. CASE Run
  BY <1>3, RunOnce
<1> QED BY <1>2, <1>3, StepExecutes

(* In every execution the beforeAll hooks of a suite run once, before         *)
(* everything else in it, and its afterAll hooks once, after everything,      *)
(* whenever one of its tests is selected and no outer beforeAll has failed,   *)
(* and never otherwise (runner.ts: runSuite).                                *)
THEOREM SpecSetUpAndTearDown == Spec => SetUpAndTearDown
<1>1. RunnerInv /\ [Next]_vars => RunnerInv'
  BY RunnerInvStep
<1>2. RunnerInv /\ FlagsFit(nodes) /\ [Next]_vars => FlagsFit(nodes)'
  BY FlagsStep
<1>3. RunnerInv /\ FlagsFit(nodes) /\ [Next]_vars
        => [exec' # exec /\ exec'.focusing = {} => OnceAround(exec')]_vars
  BY StepOnce
<1> QED BY <1>1, <1>2, <1>3, InitRunnerInv, InitFlags, PTL DEF Spec, SetUpAndTearDown

=============================================================================
