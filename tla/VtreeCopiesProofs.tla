-------------------------- MODULE VtreeCopiesProofs --------------------------
(***************************************************************************)
(* Theorems about vtrees and their copies, for any vtrees in which nodes   *)
(* have one parent at most, any maps and any number of calls.  First what  *)
(* the functions of vtree_util return: the search, the variables, and the  *)
(* leaves from left to right.  Then what stays when nodes are added.  Then *)
(* the invariant of the loops: a node that was visited and whose parent    *)
(* was not has the pointer to what was made of it, which is the            *)
(* restriction of what is under it, and no two have the same.              *)
(***************************************************************************)
EXTENDS VtreeCopies, FiniteSetTheorems, SequenceTheorems, WellFoundedInduction, TLAPS

\* The least-number principle for a set.
Less == {ss \in Nat \X Nat : ss[1] < ss[2]}

LEMMA LeastOf ==
  ASSUME NEW T \in SUBSET Nat, T # {}
  PROVE  \E x \in T : \A y \in T : x <= y
<1>1. IsWellFoundedOn(Less, Nat)
  BY NatLessThanWellFounded DEF OpToRel, Less
<1>2. \E x \in T : \A y \in T : ~ (<<y, x>> \in Less)
  BY <1>1, WFMin
<1>3. \A x, y \in T : <<y, x>> \notin Less => x <= y
  BY DEF Less
<1>4. QED
  BY <1>2, <1>3

\* What the search keeps when the nodes at the places up to i were visited:
\* each node but the first is there for its parent, and children are later.
IsVisited(t, root, list, i) ==
  /\ list \in Seq(DOMAIN t) /\ Len(list) >= 1 /\ list[1] = root
  /\ \A j, k \in 1..Len(list) : list[j] = list[k] => j = k
  /\ \A k \in 1..Len(list) : k > 1 =>
       \E j \in 1..Len(list) : j < k /\ j <= i /\ list[k] \in ChildrenOf(t, list[j])
  /\ \A j \in 1..Len(list) : j <= i =>
       \A c \in ChildrenOf(t, list[j]) : \E k \in 1..Len(list) : k > j /\ list[k] = c

VisitAt(t, list, i) == IF i > Len(list) \/ IsLeaf(t, list[i]) THEN list
                       ELSE list \o <<t[list[i]].left, t[list[i]].right>>

\* The root of the search is no child of a node found.
LEMMA RootIsNoChild ==
  ASSUME NEW t, IsForest(t), NEW root, NEW list, NEW i \in Nat, IsVisited(t, root, list, i),
         NEW j \in 1..Len(list)
  PROVE  root \notin ChildrenOf(t, list[j])
<1> DEFINE S == {list[k] : k \in 1..Len(list)}
<1>1. list \in Seq(DOMAIN t) /\ Len(list) \in Nat /\ Len(list) >= 1 /\ list[1] = root /\ \A k \in 1..Len(list) : list[k] \in DOMAIN t
  BY DEF IsVisited
<1>2. S \in (SUBSET DOMAIN t) \ {{}}
  <2>1. list[1] \in S
    BY <1>1
  <2>2. S \subseteq DOMAIN t
    BY <1>1
  <2>3. QED
    BY <2>1, <2>2
<1>3. PICK v \in S : \A w \in S : v \notin ChildrenOf(t, w)
  BY <1>2, Zenon DEF IsForest, IsAcyclic
<1>4. PICK k \in 1..Len(list) : v = list[k]
  BY <1>3
<1>5. ~ (k > 1)
  BY <1>3, <1>4 DEF IsVisited
<1>6. v = root
  BY <1>1, <1>4, <1>5
<1>7. list[j] \in S
  OBVIOUS
<1>8. QED
  BY <1>3, <1>6, <1>7

\* A visit adds the children, which are new: their only parent is visited once.
LEMMA VisitStep ==
  ASSUME NEW t, IsForest(t), NEW root \in DOMAIN t, NEW list, NEW i \in Nat \ {0}, IsVisited(t, root, list, i - 1)
  PROVE  IsVisited(t, root, VisitAt(t, list, i), i)
<1>1. /\ list \in Seq(DOMAIN t) /\ Len(list) \in Nat /\ Len(list) >= 1 /\ list[1] = root
      /\ \A k \in 1..Len(list) : list[k] \in DOMAIN t
      /\ \A j, k \in 1..Len(list) : list[j] = list[k] => j = k
      /\ \A k \in 1..Len(list) : k > 1 =>
           \E j \in 1..Len(list) : j < k /\ j <= i - 1 /\ list[k] \in ChildrenOf(t, list[j])
      /\ \A j \in 1..Len(list) : j <= i - 1 =>
           \A c \in ChildrenOf(t, list[j]) : \E k \in 1..Len(list) : k > j /\ list[k] = c
  BY DEF IsVisited
<1>2. CASE i > Len(list) \/ IsLeaf(t, list[i])
  <2>1. VisitAt(t, list, i) = list
    BY <1>2 DEF VisitAt
  <2>2. \A k \in 1..Len(list) : k > 1 =>
           \E j \in 1..Len(list) : j < k /\ j <= i /\ list[k] \in ChildrenOf(t, list[j])
    BY <1>1
  <2>3. \A j \in 1..Len(list) : j <= i =>
           \A c \in ChildrenOf(t, list[j]) : \E k \in 1..Len(list) : k > j /\ list[k] = c
    <3>1. ASSUME NEW j \in 1..Len(list), j <= i
          PROVE  j <= i - 1 \/ ChildrenOf(t, list[j]) = {}
      BY <1>2, <3>1 DEF ChildrenOf
    <3>2. QED
      BY <1>1, <3>1
  <2>4. QED
    BY <1>1, <2>1, <2>2, <2>3 DEF IsVisited
<1>3. CASE ~ (i > Len(list) \/ IsLeaf(t, list[i]))
  <2> DEFINE n == Len(list)
             p == list[i]
             l == t[p].left
             r == t[p].right
             new == list \o <<l, r>>
  <2>1. VisitAt(t, list, i) = new
    BY <1>3 DEF VisitAt
  <2>2. i \in 1..n /\ p \in DOMAIN t /\ ~IsLeaf(t, p)
    BY <1>1, <1>3
  <2>3. ChildrenOf(t, p) = {l, r} /\ l # r /\ l \in DOMAIN t /\ r \in DOMAIN t
    BY <2>2 DEF ChildrenOf, IsForest
  <2>4. /\ new \in Seq(DOMAIN t) /\ Len(new) = n + 2
        /\ \A k \in 1..n : new[k] = list[k]
        /\ new[n + 1] = l /\ new[n + 2] = r
    BY <1>1, <2>3
  <2>5. \A k \in 1..n : list[k] \notin {l, r}
    <3> SUFFICES ASSUME NEW k \in 1..n, list[k] \in {l, r}
                 PROVE  FALSE
      OBVIOUS
    <3>1. list[k] \in ChildrenOf(t, p)
      BY <2>3
    <3>2. k > 1
      BY <1>1, <2>2, <3>1, RootIsNoChild
    <3>3. PICK j \in 1..n : j < k /\ j <= i - 1 /\ list[k] \in ChildrenOf(t, list[j])
      BY <1>1, <3>2
    <3>4. list[j] # p
      BY <1>1, <2>2, <3>3
    <3>5. QED
      BY <1>1, <2>2, <3>1, <3>3, <3>4 DEF IsForest
  <2>6. \A j, k \in 1..Len(new) : new[j] = new[k] => j = k
    <3>1. \A k \in 1..n + 2 : k \in 1..n \/ k = n + 1 \/ k = n + 2
      BY <1>1
    <3>2. ASSUME NEW j \in 1..n + 2, NEW k \in 1..n + 2, new[j] = new[k]
          PROVE  j = k
      <4>1. CASE j \in 1..n /\ k \in 1..n
        BY <1>1, <2>4, <3>2, <4>1
      <4>2. CASE j \in 1..n /\ k \notin 1..n
        BY <2>4, <2>5, <3>1, <3>2, <4>2
      <4>3. CASE j \notin 1..n /\ k \in 1..n
        BY <2>4, <2>5, <3>1, <3>2, <4>3
      <4>4. CASE j \notin 1..n /\ k \notin 1..n
        BY <2>3, <2>4, <3>1, <3>2, <4>4
      <4>5. QED
        BY <4>1, <4>2, <4>3, <4>4
    <3>3. QED
      BY <2>4, <3>2
  <2>7. \A k \in 1..Len(new) : k > 1 =>
           \E j \in 1..Len(new) : j < k /\ j <= i /\ new[k] \in ChildrenOf(t, new[j])
    <3> SUFFICES ASSUME NEW k \in 1..n + 2, k > 1
                 PROVE  \E j \in 1..n + 2 : j < k /\ j <= i /\ new[k] \in ChildrenOf(t, new[j])
      BY <2>4
    <3>1. CASE k \in 1..n
      <4>1. PICK j \in 1..n : j < k /\ j <= i - 1 /\ list[k] \in ChildrenOf(t, list[j])
        BY <1>1, <3>1
      <4>2. j \in 1..n + 2 /\ j < k /\ j <= i /\ new[k] \in ChildrenOf(t, new[j])
        BY <1>1, <2>4, <3>1, <4>1
      <4>3. QED
        BY <4>2
    <3>2. CASE k \notin 1..n
      <4>1. new[k] \in {l, r}
        BY <1>1, <2>4, <3>2
      <4>2. i \in 1..n + 2 /\ i < k /\ i <= i /\ new[k] \in ChildrenOf(t, new[i])
        BY <1>1, <2>2, <2>3, <2>4, <3>2, <4>1
      <4>3. QED
        BY <4>2
    <3>3. QED
      BY <3>1, <3>2
  <2>8. \A j \in 1..Len(new) : j <= i =>
           \A c \in ChildrenOf(t, new[j]) : \E k \in 1..Len(new) : k > j /\ new[k] = c
    <3> SUFFICES ASSUME NEW j \in 1..n + 2, j <= i, NEW c \in ChildrenOf(t, new[j])
                 PROVE  \E k \in 1..n + 2 : k > j /\ new[k] = c
      BY <2>4
    <3>1. j \in 1..n /\ new[j] = list[j]
      BY <1>1, <2>2, <2>4
    <3>2. CASE j = i
      <4>1. c \in {l, r}
        BY <2>3, <3>1, <3>2
      <4>2. n + 1 \in 1..n + 2 /\ n + 2 \in 1..n + 2 /\ n + 1 > j /\ n + 2 > j
        BY <1>1, <3>1
      <4>3. QED
        BY <2>4, <4>1, <4>2
    <3>3. CASE j # i
      <4>0. c \in ChildrenOf(t, list[j]) /\ j <= i - 1
        BY <1>1, <3>1, <3>3
      <4>1. PICK k \in 1..n : k > j /\ list[k] = c
        BY <1>1, <3>1, <4>0
      <4>2. k \in 1..n + 2 /\ new[k] = c
        BY <1>1, <2>4, <4>1
      <4>3. QED
        BY <4>1, <4>2
    <3>4. QED
      BY <3>2, <3>3
  <2>9. Len(new) >= 1 /\ new[1] = root
    BY <1>1, <2>4
  <2> HIDE DEF n, p, l, r, new
  <2>10. QED
    BY <2>1, <2>4, <2>6, <2>7, <2>8, <2>9 DEF IsVisited
<1>4. QED
  BY <1>2, <1>3

\* A recursive function on 0..n whose steps are those of the function h.
IsRun(f, h, X, base, n, k) ==
  f \in [0..n -> X] /\ f[0] = base /\ \A i \in 1..k : f[i] = h[<<i, f[i - 1]>>]

LEMMA RunExists ==
  ASSUME NEW n \in Nat, NEW X, NEW base \in X, NEW h \in [(1..n) \X X -> X]
  PROVE  \E f : IsRun(f, h, X, base, n, n)
<1> DEFINE T == {k \in 0..n : ~ \E f : IsRun(f, h, X, base, n, k)}
<1>1. SUFFICES ASSUME T # {} PROVE FALSE
  BY DEF T
<1>2. PICK x \in T : \A y \in T : x <= y
  <2>1. T \in SUBSET Nat
    OBVIOUS
  <2> HIDE DEF T
  <2>2. QED
    BY <1>1, <2>1, LeastOf
<1>3. x \in 0..n /\ ~ \E f : IsRun(f, h, X, base, n, x)
  BY DEF T
<1>4. x # 0
  <2> DEFINE f == [i \in 0..n |-> base]
  <2>1. f \in [0..n -> X] /\ f[0] = base
    OBVIOUS
  <2> HIDE DEF f
  <2>2. IsRun(f, h, X, base, n, 0)
    BY <2>1 DEF IsRun
  <2>3. QED
    BY <1>3, <2>2
<1>5. x - 1 \in 0..n /\ x \in 1..n
  BY <1>3, <1>4
<1>6. x - 1 \notin T
  BY <1>2, <1>3
<1>7. PICK f : IsRun(f, h, X, base, n, x - 1)
  BY <1>5, <1>6
<1>8. f \in [0..n -> X] /\ f[0] = base /\ \A i \in 1..x - 1 : f[i] = h[<<i, f[i - 1]>>]
  BY <1>7 DEF IsRun
<1> DEFINE g == [f EXCEPT ![x] = h[<<x, f[x - 1]>>]]
<1>9. f[x - 1] \in X /\ <<x, f[x - 1]>> \in (1..n) \X X
  BY <1>5, <1>8
<1>10. g \in [0..n -> X] /\ g[0] = base /\ g[x] = h[<<x, f[x - 1]>>] /\ \A i \in 0..x - 1 : g[i] = f[i]
  BY <1>5, <1>8, <1>9
<1> HIDE DEF g
<1>11. \A i \in 1..x : g[i] = h[<<i, g[i - 1]>>]
  <2> SUFFICES ASSUME NEW i \in 1..x PROVE g[i] = h[<<i, g[i - 1]>>]
    OBVIOUS
  <2>1. i - 1 \in 0..x - 1 /\ g[i - 1] = f[i - 1]
    BY <1>5, <1>10
  <2>2. CASE i = x
    BY <1>10, <2>1, <2>2
  <2>3. CASE i # x
    <3>1. i \in 1..x - 1 /\ i \in 0..x - 1
      BY <1>5, <2>3
    <3>2. QED
      BY <1>8, <1>10, <2>1, <3>1
  <2>4. QED
    BY <2>2, <2>3
<1>12. IsRun(g, h, X, base, n, x)
  BY <1>10, <1>11 DEF IsRun
<1>13. QED
  BY <1>3, <1>12

\* What holds of the first value and is kept by each step holds of each value.
LEMMA AllSteps ==
  ASSUME NEW n \in Nat, NEW S, S \subseteq 0..n, 0 \in S, \A i \in 1..n : i - 1 \in S => i \in S
  PROVE  0..n \subseteq S
<1> DEFINE T == (0..n) \ S
<1>1. SUFFICES ASSUME T # {} PROVE FALSE
  OBVIOUS
<1>2. PICK x \in T : \A y \in T : x <= y
  <2>1. T \in SUBSET Nat
    OBVIOUS
  <2> HIDE DEF T
  <2>2. QED
    BY <1>1, <2>1, LeastOf
<1>3. x \in 1..n /\ x - 1 \in 0..n
  BY <1>2
<1>4. x - 1 \notin T
  BY <1>2, <1>3
<1>5. QED
  BY <1>2, <1>3, <1>4

-----------------------------------------------------------------------------
\* A list of all nodes under the root, each once, parents first.
IsSerialization(t, root, list) ==
  /\ list \in Seq(DOMAIN t) /\ Len(list) >= 1 /\ list[1] = root
  /\ \A j, k \in 1..Len(list) : list[j] = list[k] => j = k
  /\ \A k \in 1..Len(list) : k > 1 => \E j \in 1..Len(list) : j < k /\ list[k] \in ChildrenOf(t, list[j])
  /\ \A j \in 1..Len(list) :
       \A c \in ChildrenOf(t, list[j]) : \E k \in 1..Len(list) : k > j /\ list[k] = c

LEMMA VisitsUnfold ==
  ASSUME NEW t, IsForest(t), NEW root \in DOMAIN t, NEW n \in Nat, n = Cardinality(DOMAIN t)
  PROVE  \E f : /\ \A i \in 0..n : f[i] = IF i = 0 THEN <<root>> ELSE VisitAt(t, f[i - 1], i)
                /\ SerializeVtree(t, root) = f[n]
<1> DEFINE X == Seq(DOMAIN t)
           h == [p \in (1..n) \X X |-> VisitAt(t, p[2], p[1])]
<1>1. \A i \in 1..n, list \in X : VisitAt(t, list, i) \in X
  <2> SUFFICES ASSUME NEW i \in 1..n, NEW list \in X PROVE VisitAt(t, list, i) \in X
    OBVIOUS
  <2>1. CASE i > Len(list) \/ IsLeaf(t, list[i])
    BY <2>1 DEF VisitAt
  <2>2. CASE ~ (i > Len(list) \/ IsLeaf(t, list[i]))
    <3>1. list[i] \in DOMAIN t /\ ChildrenOf(t, list[i]) = {t[list[i]].left, t[list[i]].right}
      BY <2>2 DEF ChildrenOf
    <3>2. t[list[i]].left \in DOMAIN t /\ t[list[i]].right \in DOMAIN t
      BY <3>1 DEF IsForest
    <3>3. QED
      BY <2>2, <3>2 DEF VisitAt
  <2>3. QED
    BY <2>1, <2>2
<1>2. h \in [(1..n) \X X -> X]
  BY <1>1
<1>3. <<root>> \in X
  OBVIOUS
<1>4. PICK f : IsRun(f, h, X, <<root>>, n, n)
  <2> HIDE DEF X, h
  <2>1. QED
    BY <1>2, <1>3, RunExists
<1>5. f \in [0..n -> X] /\ f[0] = <<root>> /\ \A i \in 1..n : f[i] = h[<<i, f[i - 1]>>]
  BY <1>4 DEF IsRun
<1>6. \A i \in 1..n : f[i] = VisitAt(t, f[i - 1], i)
  <2> SUFFICES ASSUME NEW i \in 1..n PROVE f[i] = VisitAt(t, f[i - 1], i)
    OBVIOUS
  <2>1. i - 1 \in 0..n
    OBVIOUS
  <2>2. <<i, f[i - 1]>> \in (1..n) \X X
    BY <1>5, <2>1
  <2>3. QED
    BY <1>5, <2>2
<1>7. \A i \in 0..n : f[i] = IF i = 0 THEN <<root>> ELSE VisitAt(t, f[i - 1], i)
  <2>1. \A i \in 0..n : i = 0 \/ i \in 1..n
    OBVIOUS
  <2> HIDE DEF h, X
  <2>2. QED
    BY <1>5, <1>6, <2>1
<1>8. f = [i \in 0..n |-> IF i = 0 THEN <<root>> ELSE VisitAt(t, f[i - 1], i)]
  <2>1. f = [i \in 0..n |-> f[i]]
    BY <1>5
  <2>2. QED
    BY <1>7, <2>1
<1> DEFINE F(g) == [i \in 0..n |-> IF i = 0 THEN <<root>> ELSE VisitAt(t, g[i - 1], i)]
<1>9. \E g : g = F(g)
  BY <1>8
<1> DEFINE v == CHOOSE g : g = F(g)
<1>10. v = F(v)
  BY <1>9, Zenon
<1>11. SerializeVtree(t, root) = v[n]
  BY Zenon DEF SerializeVtree, VisitAt
<1> HIDE DEF v
<1>12. \A i \in 0..n : v[i] = IF i = 0 THEN <<root>> ELSE VisitAt(t, v[i - 1], i)
  BY <1>10
<1>13. QED
  BY <1>11, <1>12

\* SerializeVtree lists each node under the root once, parents first.
THEOREM SerializeVtreeIs ==
  ASSUME NEW t, IsForest(t), NEW root \in DOMAIN t
  PROVE  IsSerialization(t, root, SerializeVtree(t, root))
<1>1. PICK n \in Nat : n = Cardinality(DOMAIN t)
  BY FS_CardinalityType DEF IsForest
<1>2. PICK f : /\ \A i \in 0..n : f[i] = IF i = 0 THEN <<root>> ELSE VisitAt(t, f[i - 1], i)
               /\ SerializeVtree(t, root) = f[n]
  BY <1>1, VisitsUnfold
<1> DEFINE S == {i \in 0..n : IsVisited(t, root, f[i], i)}
<1>3. 0 \in S
  <2>1. f[0] = <<root>>
    BY <1>2
  <2>2. <<root>> \in Seq(DOMAIN t) /\ Len(<<root>>) = 1 /\ <<root>>[1] = root
    OBVIOUS
  <2> DEFINE one == <<root>>
  <2>3. one \in Seq(DOMAIN t) /\ Len(one) = 1 /\ one[1] = root
    BY <2>2
  <2> HIDE DEF one
  <2>4. IsVisited(t, root, one, 0)
    BY <2>3 DEF IsVisited
  <2>5. QED
    BY <2>1, <2>4 DEF one
<1>4. \A i \in 1..n : i - 1 \in S => i \in S
  <2> SUFFICES ASSUME NEW i \in 1..n, i - 1 \in S PROVE i \in S
    OBVIOUS
  <2>1. i \in Nat \ {0} /\ i \in 0..n /\ i # 0
    OBVIOUS
  <2>2. f[i] = VisitAt(t, f[i - 1], i)
    BY <1>2, <2>1
  <2>3. IsVisited(t, root, f[i - 1], i - 1)
    OBVIOUS
  <2>4. IsVisited(t, root, f[i], i)
    BY <2>1, <2>2, <2>3, VisitStep
  <2>5. QED
    BY <2>1, <2>4
<1>5. n \in S
  <2>1. S \subseteq 0..n
    OBVIOUS
  <2> HIDE DEF S
  <2>2. QED
    <3>1. 0..n \subseteq S
      BY <1>3, <1>4, <2>1, AllSteps
    <3>2. QED
      BY <3>1
<1>6. IsVisited(t, root, f[n], n)
  BY <1>5
<1> DEFINE list == f[n]
<1>7. /\ list \in Seq(DOMAIN t) /\ Len(list) >= 1 /\ list[1] = root
      /\ \A j, k \in 1..Len(list) : list[j] = list[k] => j = k
      /\ \A k \in 1..Len(list) : k > 1 =>
           \E j \in 1..Len(list) : j < k /\ j <= n /\ list[k] \in ChildrenOf(t, list[j])
      /\ \A j \in 1..Len(list) : j <= n =>
           \A c \in ChildrenOf(t, list[j]) : \E k \in 1..Len(list) : k > j /\ list[k] = c
  BY <1>6 DEF IsVisited
<1> HIDE DEF list
<1>8. Len(list) <= n
  <2>1. Len(list) \in Nat /\ list \in [1..Len(list) -> DOMAIN t]
    BY <1>7
  <2>2. list \in Injection(1..Len(list), DOMAIN t)
    BY <1>7, <2>1 DEF Injection, IsInjective
  <2>3. IsFiniteSet(DOMAIN t)
    BY DEF IsForest
  <2>4. Cardinality(1..Len(list)) <= Cardinality(DOMAIN t)
    BY <2>2, <2>3, FS_Injection
  <2>5. Cardinality(1..Len(list)) = Len(list)
    BY <1>7, <2>1, FS_Interval
  <2>6. QED
    BY <1>1, <2>4, <2>5
<1>9. \A j \in 1..Len(list) : j <= n
  BY <1>1, <1>7, <1>8
<1>10. IsSerialization(t, root, list)
  BY <1>7, <1>9 DEF IsSerialization
<1>11. QED
  BY <1>2, <1>10 DEF list

IsClosed(t, S) == S \subseteq DOMAIN t /\ \A v \in S : ChildrenOf(t, v) \subseteq S

\* What holds of all nodes whose children it holds of holds of all nodes.
LEMMA AllNodes ==
  ASSUME NEW t, IsForest(t), NEW S, \A v \in DOMAIN t : ChildrenOf(t, v) \subseteq S => v \in S
  PROVE  DOMAIN t \subseteq S
<1> DEFINE some == (DOMAIN t) \ S
<1>1. SUFFICES ASSUME some # {} PROVE FALSE
  OBVIOUS
<1>2. some \in (SUBSET DOMAIN t) \ {{}}
  BY <1>1
<1>3. PICK v \in some : ChildrenOf(t, v) \cap some = {}
  <2> HIDE DEF some
  <2>1. QED
    BY <1>2, Zenon DEF IsForest, IsAcyclic
<1>4. v \in DOMAIN t /\ ChildrenOf(t, v) \subseteq DOMAIN t
  BY <1>3 DEF IsForest
<1>5. QED
  BY <1>3, <1>4

LEMMA ListRange ==
  ASSUME NEW t, NEW list \in Seq(DOMAIN t)
  PROVE  /\ Len(list) \in Nat /\ DOMAIN list = 1..Len(list)
         /\ \A v : v \in Range(list) <=> \E k \in 1..Len(list) : v = list[k]
         /\ Range(list) \subseteq DOMAIN t
<1>1. Len(list) \in Nat /\ DOMAIN list = 1..Len(list) /\ \A k \in 1..Len(list) : list[k] \in DOMAIN t
  OBVIOUS
<1>2. QED
  BY <1>1, Zenon DEF Range

\* The nodes of a serialization are the least set with the root and all children.
LEMMA SerializationIsLeast ==
  ASSUME NEW t, NEW root, NEW list, IsSerialization(t, root, list)
  PROVE  /\ root \in Range(list) /\ IsClosed(t, Range(list))
         /\ \A C : root \in C /\ (\A v \in C : ChildrenOf(t, v) \subseteq C) => Range(list) \subseteq C
         /\ \A v \in Range(list) : v = root \/ \E w \in Range(list) : v \in ChildrenOf(t, w)
<1>1. /\ list \in Seq(DOMAIN t) /\ Len(list) >= 1 /\ list[1] = root
      /\ \A k \in 1..Len(list) : k > 1 => \E j \in 1..Len(list) : j < k /\ list[k] \in ChildrenOf(t, list[j])
      /\ \A j \in 1..Len(list) :
           \A c \in ChildrenOf(t, list[j]) : \E k \in 1..Len(list) : k > j /\ list[k] = c
  BY DEF IsSerialization
<1>2. /\ Len(list) \in Nat
      /\ \A v : v \in Range(list) <=> \E k \in 1..Len(list) : v = list[k]
      /\ Range(list) \subseteq DOMAIN t
  BY <1>1, ListRange
<1>3. root \in Range(list)
  BY <1>1, <1>2
<1>4. IsClosed(t, Range(list))
  <2>1. ASSUME NEW v \in Range(list), NEW c \in ChildrenOf(t, v)
        PROVE  c \in Range(list)
    <3>1. PICK j \in 1..Len(list) : v = list[j]
      BY <1>2
    <3>2. \E k \in 1..Len(list) : list[k] = c
      BY <1>1, <2>1, <3>1
    <3>3. QED
      BY <1>2, <3>2
  <2>2. QED
    BY <1>2, <2>1 DEF IsClosed
<1>5. ASSUME NEW C, root \in C, \A v \in C : ChildrenOf(t, v) \subseteq C
      PROVE  Range(list) \subseteq C
  <2> DEFINE T == {k \in 1..Len(list) : list[k] \notin C}
  <2>1. T = {}
    <3>1. SUFFICES ASSUME T # {} PROVE FALSE
      OBVIOUS
    <3>2. PICK x \in T : \A y \in T : x <= y
      <4>1. T \in SUBSET Nat
        BY <1>2
      <4> HIDE DEF T
      <4>2. QED
        BY <3>1, <4>1, LeastOf
    <3>3. x > 1
      BY <1>1, <1>2, <1>5, <3>2
    <3>4. PICK j \in 1..Len(list) : j < x /\ list[x] \in ChildrenOf(t, list[j])
      BY <1>1, <3>2, <3>3
    <3>5. j \notin T
      BY <1>2, <3>2, <3>4
    <3>6. list[j] \in C
      BY <3>4, <3>5
    <3>7. QED
      BY <1>5, <3>2, <3>4, <3>6
  <2>2. QED
    BY <1>2, <2>1
<1>6. ASSUME NEW v \in Range(list), v # root
      PROVE  \E w \in Range(list) : v \in ChildrenOf(t, w)
  <2>1. PICK k \in 1..Len(list) : v = list[k]
    BY <1>2
  <2>2. k > 1
    BY <1>1, <1>2, <1>6, <2>1
  <2>3. PICK j \in 1..Len(list) : v \in ChildrenOf(t, list[j])
    BY <1>1, <2>1, <2>2
  <2>4. QED
    BY <1>2, <2>3
<1>7. QED
  BY <1>3, <1>4, <1>5, <1>6

\* So are the nodes under a node.
LEMMA UnderIsLeast ==
  ASSUME NEW t, IsForest(t), NEW v \in DOMAIN t
  PROVE  /\ v \in Under(t, v) /\ IsClosed(t, Under(t, v)) /\ Under(t, v) \subseteq DOMAIN t
         /\ \A C : v \in C /\ (\A w \in C : ChildrenOf(t, w) \subseteq C) => Under(t, v) \subseteq C
         /\ \A w \in Under(t, v) : w = v \/ \E u \in Under(t, v) : w \in ChildrenOf(t, u)
<1>1. IsSerialization(t, v, SerializeVtree(t, v))
  BY SerializeVtreeIs
<1>2. QED
  BY <1>1, SerializationIsLeast DEF Under, IsClosed

LEMMA UnderIsFinite ==
  ASSUME NEW t, IsForest(t), NEW v \in DOMAIN t
  PROVE  IsFiniteSet(Under(t, v)) /\ Cardinality(Under(t, v)) \in Nat
<1>1. Under(t, v) \in SUBSET DOMAIN t
  BY UnderIsLeast
<1>2. IsFiniteSet(DOMAIN t)
  BY DEF IsForest
<1>3. QED
  BY <1>1, <1>2, FS_Subset, FS_CardinalityType

\* A node under another has under it a part of what is under the other.
LEMMA UnderUnder ==
  ASSUME NEW t, IsForest(t), NEW v \in DOMAIN t, NEW w \in Under(t, v)
  PROVE  w \in DOMAIN t /\ Under(t, w) \subseteq Under(t, v)
<1>1. w \in DOMAIN t /\ \A u \in Under(t, v) : ChildrenOf(t, u) \subseteq Under(t, v)
  BY UnderIsLeast DEF IsClosed
<1>2. QED
  BY <1>1, UnderIsLeast

LEMMA ChildFacts ==
  ASSUME NEW t, IsForest(t), NEW v \in DOMAIN t, ~IsLeaf(t, v)
  PROVE  /\ t[v].left \in DOMAIN t /\ t[v].right \in DOMAIN t /\ t[v].left # t[v].right
         /\ ChildrenOf(t, v) = {t[v].left, t[v].right}
BY DEF IsForest, ChildrenOf

\* No node is under a child of it.
LEMMA NotUnderChild ==
  ASSUME NEW t, IsForest(t), NEW v \in DOMAIN t, NEW c \in ChildrenOf(t, v)
  PROVE  c \in DOMAIN t /\ v \notin Under(t, c)
<1>1. c \in DOMAIN t
  BY DEF IsForest
<1>2. SUFFICES ASSUME v \in Under(t, c) PROVE FALSE
  BY <1>1
<1>3. Under(t, c) \in (SUBSET DOMAIN t) \ {{}}
  BY <1>1, UnderIsLeast
<1>4. PICK w \in Under(t, c) : \A u \in Under(t, c) : w \notin ChildrenOf(t, u)
  BY <1>3, Zenon DEF IsForest, IsAcyclic
<1>5. w = c \/ \E u \in Under(t, c) : w \in ChildrenOf(t, u)
  BY <1>1, UnderIsLeast
<1>6. QED
  BY <1>2, <1>4, <1>5

\* Two nodes of which none is under the other have nothing in common under them.
LEMMA UnderApart ==
  ASSUME NEW t, IsForest(t), NEW v \in DOMAIN t, NEW w \in DOMAIN t, v \notin Under(t, w), w \notin Under(t, v)
  PROVE  Under(t, v) \cap Under(t, w) = {}
<1> DEFINE C == Under(t, v) \ Under(t, w)
<1>1. v \in C
  BY UnderIsLeast
<1>2. ASSUME NEW x \in C, NEW c \in ChildrenOf(t, x)
      PROVE  c \in C
  <2>1. c \in Under(t, v) /\ x \in DOMAIN t /\ x \notin Under(t, w)
    BY <1>2, UnderIsLeast DEF IsClosed
  <2>2. ASSUME c \in Under(t, w) PROVE FALSE
    <3>1. c # w
      BY <2>1
    <3>2. PICK u \in Under(t, w) : c \in ChildrenOf(t, u)
      BY <2>2, <3>1, UnderIsLeast
    <3>3. u \in DOMAIN t /\ u # x
      BY <2>1, <3>2, UnderIsLeast
    <3>4. QED
      BY <1>2, <2>1, <3>2, <3>3 DEF IsForest
  <2>3. QED
    BY <2>1, <2>2
<1>3. Under(t, v) \subseteq C
  <2>1. \A x \in C : ChildrenOf(t, x) \subseteq C
    BY <1>2
  <2> HIDE DEF C
  <2>2. QED
    BY <1>1, <2>1, UnderIsLeast
<1>4. QED
  BY <1>3

\* What is under a node.
LEMMA UnderLeaf ==
  ASSUME NEW t, IsForest(t), NEW v \in DOMAIN t, IsLeaf(t, v)
  PROVE  Under(t, v) = {v}
<1>1. ChildrenOf(t, v) = {}
  BY DEF ChildrenOf
<1>2. v \in {v} /\ \A w \in {v} : ChildrenOf(t, w) \subseteq {v}
  BY <1>1
<1>3. Under(t, v) \subseteq {v} /\ v \in Under(t, v)
  BY <1>2, UnderIsLeast
<1>4. QED
  BY <1>3

LEMMA UnderInner ==
  ASSUME NEW t, IsForest(t), NEW v \in DOMAIN t, ~IsLeaf(t, v)
  PROVE  LET l == t[v].left
             r == t[v].right
         IN  /\ Under(t, v) = {v} \cup Under(t, l) \cup Under(t, r)
             /\ Under(t, l) \cap Under(t, r) = {}
             /\ v \notin Under(t, l) /\ v \notin Under(t, r)
<1> DEFINE l == t[v].left
           r == t[v].right
<1>1. l \in DOMAIN t /\ r \in DOMAIN t /\ l # r /\ ChildrenOf(t, v) = {l, r}
  BY ChildFacts
<1> HIDE DEF l, r
<1>2. v \notin Under(t, l) /\ v \notin Under(t, r)
  BY <1>1, NotUnderChild
<1>3. Under(t, v) \subseteq {v} \cup Under(t, l) \cup Under(t, r)
  <2> DEFINE C == {v} \cup Under(t, l) \cup Under(t, r)
  <2>1. v \in C
    OBVIOUS
  <2>2. l \in Under(t, l) /\ r \in Under(t, r) /\ IsClosed(t, Under(t, l)) /\ IsClosed(t, Under(t, r))
    BY <1>1, UnderIsLeast
  <2>3. \A w \in C : ChildrenOf(t, w) \subseteq C
    BY <1>1, <2>2 DEF IsClosed
  <2> HIDE DEF C
  <2>4. Under(t, v) \subseteq C
    BY <2>1, <2>3, UnderIsLeast
  <2>5. QED
    BY <2>4 DEF C
<1>4. {v} \cup Under(t, l) \cup Under(t, r) \subseteq Under(t, v)
  <2>1. v \in Under(t, v) /\ l \in Under(t, v) /\ r \in Under(t, v)
    BY <1>1, UnderIsLeast DEF IsClosed
  <2>2. QED
    BY <2>1, UnderUnder
<1>5. ASSUME NEW a \in {l, r}, NEW b \in {l, r}, a # b, a \in Under(t, b)
      PROVE  FALSE
  <2>1. a \in DOMAIN t /\ b \in DOMAIN t
    BY <1>1
  <2>2. PICK u \in Under(t, b) : a \in ChildrenOf(t, u)
    BY <1>5, <2>1, UnderIsLeast
  <2>3. u \in DOMAIN t
    BY <2>1, UnderIsLeast
  <2>4. u = v
    BY <1>1, <2>2, <2>3 DEF IsForest
  <2>5. QED
    BY <1>2, <2>2, <2>4
<1>6. l \notin Under(t, r) /\ r \notin Under(t, l)
  BY <1>1, <1>5
<1>7. Under(t, l) \cap Under(t, r) = {}
  BY <1>1, <1>6, UnderApart
<1>8. QED
  BY <1>2, <1>3, <1>4, <1>7 DEF l, r

-----------------------------------------------------------------------------
\* The variables under a node are those of the leaves under it.
VariablesTo(t, list, f, n) ==
  \A i \in 0..n : f[i] = IF i = 0 THEN <<>>
                         ELSE IF IsLeaf(t, list[i]) THEN Append(f[i - 1], t[list[i]].variable) ELSE f[i - 1]

LEMMA VariablesUnfold ==
  ASSUME NEW t, IsForest(t), NEW root \in DOMAIN t, NEW list, list = SerializeVtree(t, root),
         NEW n \in Nat, n = Len(list)
  PROVE  \E f : f \in [0..n -> Seq(Nat)] /\ VariablesTo(t, list, f, n) /\ VariablesUnderVtree(t, root) = f[n]
<1> DEFINE X == Seq(Nat)
           Step(i, s) == IF IsLeaf(t, list[i]) THEN Append(s, t[list[i]].variable) ELSE s
           h == [p \in (1..n) \X X |-> Step(p[1], p[2])]
<1>1. list \in Seq(DOMAIN t)
  BY SerializeVtreeIs DEF IsSerialization
<1>2. \A i \in 1..n : t[list[i]].variable \in Nat
  <2>1. \A i \in 1..n : list[i] \in DOMAIN t
    BY <1>1
  <2>2. QED
    BY <2>1 DEF IsForest
<1>3. h \in [(1..n) \X X -> X] /\ <<>> \in X
  BY <1>2
<1>4. PICK f : IsRun(f, h, X, <<>>, n, n)
  <2> HIDE DEF X, h
  <2>1. QED
    BY <1>3, RunExists
<1>5. f \in [0..n -> X] /\ f[0] = <<>> /\ \A i \in 1..n : f[i] = h[<<i, f[i - 1]>>]
  BY <1>4 DEF IsRun
<1>6. \A i \in 1..n : f[i] = Step(i, f[i - 1])
  <2> SUFFICES ASSUME NEW i \in 1..n PROVE f[i] = Step(i, f[i - 1])
    OBVIOUS
  <2>1. i - 1 \in 0..n
    OBVIOUS
  <2>2. <<i, f[i - 1]>> \in (1..n) \X X
    BY <1>5, <2>1
  <2>3. QED
    BY <1>5, <2>2
<1>7. f = [i \in 0..n |-> IF i = 0 THEN <<>> ELSE Step(i, f[i - 1])]
  <2>1. f = [i \in 0..n |-> f[i]]
    BY <1>5
  <2>2. \A i \in 0..n : i = 0 \/ i \in 1..n
    OBVIOUS
  <2>3. \A i \in 0..n : f[i] = IF i = 0 THEN <<>> ELSE Step(i, f[i - 1])
    <3> HIDE DEF Step
    <3>1. QED
      BY <1>5, <1>6, <2>2
  <2> HIDE DEF Step
  <2>4. QED
    BY <2>1, <2>3
<1> DEFINE F(g) == [i \in 0..n |-> IF i = 0 THEN <<>> ELSE Step(i, g[i - 1])]
<1>8. \E g : g = F(g)
  BY <1>7
<1> DEFINE v == CHOOSE g : g = F(g)
<1>9. v = F(v)
  BY <1>8, Zenon
<1>10. VariablesUnderVtree(t, root) = v[n]
  BY Zenon DEF VariablesUnderVtree
<1> HIDE DEF v
<1>11. VariablesTo(t, list, v, n)
  BY <1>9 DEF VariablesTo
<1> DEFINE S == {i \in 0..n : v[i] \in X}
<1>12. 0 \in S /\ S \subseteq 0..n /\ \A i \in 1..n : i - 1 \in S => i \in S
  <2>1. 0 \in S
    <3>1. 0 \in 0..n
      OBVIOUS
    <3>2. v[0] = <<>>
      BY <1>11, <3>1 DEF VariablesTo
    <3>3. v[0] \in X
      BY <3>2
    <3>4. QED
      BY <3>1, <3>3
  <2>2. ASSUME NEW i \in 1..n, i - 1 \in S
        PROVE  i \in S
    <3>1. i \in 0..n /\ i # 0 /\ v[i - 1] \in X
      BY <2>2
    <3>2. v[i] = Step(i, v[i - 1])
      BY <1>11, <3>1 DEF VariablesTo
    <3>3. v[i] \in X
      <4>1. CASE IsLeaf(t, list[i])
        <5>1. v[i] = Append(v[i - 1], t[list[i]].variable)
          BY <3>2, <4>1
        <5>2. QED
          BY <1>2, <3>1, <5>1, AppendProperties
      <4>2. CASE ~IsLeaf(t, list[i])
        BY <3>1, <3>2, <4>2
      <4>3. QED
        BY <4>1, <4>2
    <3>4. QED
      BY <3>1, <3>3
  <2>3. QED
    BY <2>1, <2>2
<1>13. \A i \in 0..n : v[i] \in X
  <2>1. 0..n \subseteq S
    <3> HIDE DEF S
    <3>1. QED
      BY <1>12, AllSteps
  <2>2. QED
    BY <2>1
<1>14. v \in [0..n -> X]
  BY <1>9, <1>13
<1>15. QED
  BY <1>10, <1>11, <1>14

LEMMA RangeOfAppend ==
  ASSUME NEW S, NEW s \in Seq(S), NEW x \in S
  PROVE  Range(Append(s, x)) = Range(s) \cup {x}
<1>1. /\ DOMAIN s = 1..Len(s) /\ DOMAIN Append(s, x) = 1..Len(s) + 1 /\ Len(s) \in Nat
      /\ \A i \in 1..Len(s) : Append(s, x)[i] = s[i]
      /\ Append(s, x)[Len(s) + 1] = x
  BY AppendProperties, LenProperties
<1>2. 1..Len(s) + 1 = 1..Len(s) \cup {Len(s) + 1}
  BY <1>1
<1>3. QED
  BY <1>1, <1>2 DEF Range

\* VariablesUnderVtree returns the variables of the leaves under the root.
THEOREM VariablesAre ==
  ASSUME NEW t, IsForest(t), NEW root \in DOMAIN t
  PROVE  Variables(t, root) = {t[w].variable : w \in {u \in Under(t, root) : IsLeaf(t, u)}}
<1> DEFINE list == SerializeVtree(t, root)
<1>1. list \in Seq(DOMAIN t) /\ Len(list) \in Nat
  BY SerializeVtreeIs DEF IsSerialization
<1> DEFINE n == Len(list)
           Found(i) == {x \in Nat : \E k \in 1..i : IsLeaf(t, list[k]) /\ x = t[list[k]].variable}
<1>2. PICK f : f \in [0..n -> Seq(Nat)] /\ VariablesTo(t, list, f, n) /\ VariablesUnderVtree(t, root) = f[n]
  BY <1>1, VariablesUnfold
<1>3. \A i \in 1..n : list[i] \in DOMAIN t /\ t[list[i]].variable \in Nat
  <2>1. \A i \in 1..n : list[i] \in DOMAIN t
    BY <1>1
  <2>2. QED
    BY <2>1 DEF IsForest
<1> HIDE DEF list
<1> DEFINE S == {i \in 0..n : Range(f[i]) = Found(i)}
<1>4. 0 \in S
  <2>1. f[0] = <<>>
    BY <1>1, <1>2 DEF VariablesTo
  <2>2. Range(f[0]) = {} /\ Found(0) = {}
    BY <2>1 DEF Range
  <2>3. QED
    BY <1>1, <2>2
<1>5. ASSUME NEW i \in 1..n, i - 1 \in S
      PROVE  i \in S
  <2>0. i \in 0..n /\ i # 0 /\ i - 1 \in 0..n
    BY <1>1
  <2>1. Range(f[i - 1]) = Found(i - 1) /\ f[i - 1] \in Seq(Nat)
    <3> HIDE DEF Found
    <3>1. QED
      BY <1>2, <1>5, <2>0
  <2>2. f[i] = IF IsLeaf(t, list[i]) THEN Append(f[i - 1], t[list[i]].variable) ELSE f[i - 1]
    BY <1>2, <2>0 DEF VariablesTo
  <2>3. 1..i = 1..i - 1 \cup {i}
    BY <1>1
  <2>4. CASE IsLeaf(t, list[i])
    <3>1. f[i] = Append(f[i - 1], t[list[i]].variable)
      BY <2>2, <2>4
    <3>2. Range(f[i]) = Found(i - 1) \cup {t[list[i]].variable}
      <4> HIDE DEF Found
      <4>1. QED
        BY <1>3, <2>1, <3>1, RangeOfAppend
    <3>3. Found(i) = Found(i - 1) \cup {t[list[i]].variable}
      BY <1>3, <2>3, <2>4
    <3>4. QED
      BY <2>0, <3>2, <3>3
  <2>5. CASE ~IsLeaf(t, list[i])
    <3>1. f[i] = f[i - 1]
      BY <2>2, <2>5
    <3>2. Found(i) = Found(i - 1)
      BY <2>3, <2>5
    <3>3. QED
      BY <2>0, <2>1, <3>1, <3>2
  <2>6. QED
    BY <2>4, <2>5
<1>6. n \in S
  <2>1. S \subseteq 0..n
    OBVIOUS
  <2> HIDE DEF S
  <2>2. 0..n \subseteq S
    BY <1>1, <1>4, <1>5, <2>1, AllSteps
  <2>3. QED
    BY <1>1, <2>2
<1>7. Variables(t, root) = Found(n)
  BY <1>2, <1>6 DEF Variables
<1>8. \A v : v \in Under(t, root) <=> \E k \in 1..n : v = list[k]
  BY <1>1, ListRange DEF Under, list
<1>9. ASSUME NEW x \in Found(n)
      PROVE  x \in {t[w].variable : w \in {u \in Under(t, root) : IsLeaf(t, u)}}
  <2>1. PICK k \in 1..n : IsLeaf(t, list[k]) /\ x = t[list[k]].variable
    OBVIOUS
  <2>2. list[k] \in {u \in Under(t, root) : IsLeaf(t, u)}
    BY <1>8, <2>1
  <2>3. QED
    BY <2>1, <2>2
<1>10. ASSUME NEW w \in Under(t, root), IsLeaf(t, w)
       PROVE  t[w].variable \in Found(n)
  <2>1. PICK k \in 1..n : w = list[k]
    BY <1>8
  <2>2. QED
    BY <1>3, <1>10, <2>1
<1> HIDE DEF Found
<1>11. QED
  BY <1>7, <1>9, <1>10

LEMMA VariablesOfLeaf ==
  ASSUME NEW t, IsForest(t), NEW v \in DOMAIN t, IsLeaf(t, v)
  PROVE  Variables(t, v) = {t[v].variable}
BY VariablesAre, UnderLeaf

LEMMA VariablesOfInner ==
  ASSUME NEW t, IsForest(t), NEW v \in DOMAIN t, ~IsLeaf(t, v)
  PROVE  Variables(t, v) = Variables(t, t[v].left) \cup Variables(t, t[v].right)
<1> DEFINE l == t[v].left
           r == t[v].right
<1>1. l \in DOMAIN t /\ r \in DOMAIN t
  BY ChildFacts
<1>2. Under(t, v) = {v} \cup Under(t, l) \cup Under(t, r)
  BY UnderInner
<1> HIDE DEF l, r
<1>3. /\ Variables(t, v) = {t[w].variable : w \in {u \in Under(t, v) : IsLeaf(t, u)}}
      /\ Variables(t, l) = {t[w].variable : w \in {u \in Under(t, l) : IsLeaf(t, u)}}
      /\ Variables(t, r) = {t[w].variable : w \in {u \in Under(t, r) : IsLeaf(t, u)}}
  BY <1>1, VariablesAre
<1>4. QED
  BY <1>2, <1>3 DEF l, r

LEMMA VariablesUnder ==
  ASSUME NEW t, IsForest(t), NEW v \in DOMAIN t, NEW w \in Under(t, v)
  PROVE  Variables(t, w) \subseteq Variables(t, v)
<1>1. w \in DOMAIN t /\ Under(t, w) \subseteq Under(t, v)
  BY UnderUnder
<1>2. QED
  BY <1>1, VariablesAre

LEMMA SomeVariable ==
  ASSUME NEW t, IsForest(t), NEW v \in DOMAIN t
  PROVE  Variables(t, v) # {}
<1> DEFINE S == {w \in DOMAIN t : Variables(t, w) # {}}
<1>1. ASSUME NEW w \in DOMAIN t, ChildrenOf(t, w) \subseteq S
      PROVE  w \in S
  <2>1. CASE IsLeaf(t, w)
    BY <2>1, VariablesOfLeaf
  <2>2. CASE ~IsLeaf(t, w)
    <3>1. t[w].left \in S
      BY <1>1, <2>2 DEF ChildrenOf
    <3>2. QED
      BY <2>2, <3>1, VariablesOfInner
  <2>3. QED
    BY <2>1, <2>2
<1> HIDE DEF S
<1>2. DOMAIN t \subseteq S
  BY <1>1, AllNodes
<1>3. QED
  BY <1>2 DEF S

-----------------------------------------------------------------------------
\* The leaves from left to right are defined by recursion over the nodes.
LeavesFrom(t, f, v) == IF IsLeaf(t, v) THEN <<t[v].variable>> ELSE f[t[v].left] \o f[t[v].right]
AreLeaves(t, f, S) == IsClosed(t, S) /\ \A v \in S : f[v] = LeavesFrom(t, f, v) /\ f[v] \in Seq(Nat)

LEMMA LeavesAreUnique ==
  ASSUME NEW t, IsForest(t), NEW f, NEW S, AreLeaves(t, f, S), NEW g, NEW T, AreLeaves(t, g, T),
         NEW v \in S \cap T
  PROVE  f[v] = g[v]
<1> DEFINE Same1 == {w \in DOMAIN t : w \in S \cap T => f[w] = g[w]}
<1>1. ASSUME NEW w \in DOMAIN t, ChildrenOf(t, w) \subseteq Same1
      PROVE  w \in Same1
  <2>1. SUFFICES ASSUME w \in S \cap T PROVE f[w] = g[w]
    OBVIOUS
  <2>2. f[w] = LeavesFrom(t, f, w) /\ g[w] = LeavesFrom(t, g, w)
    BY <2>1 DEF AreLeaves
  <2>3. CASE IsLeaf(t, w)
    BY <2>2, <2>3 DEF LeavesFrom
  <2>4. CASE ~IsLeaf(t, w)
    <3>1. t[w].left \in S \cap T /\ t[w].right \in S \cap T /\ t[w].left \in Same1 /\ t[w].right \in Same1
      BY <1>1, <2>1, <2>4 DEF AreLeaves, IsClosed, ChildrenOf
    <3>2. QED
      BY <2>2, <2>4, <3>1 DEF LeavesFrom
  <2>5. QED
    BY <2>3, <2>4
<1> HIDE DEF Same1
<1>2. DOMAIN t \subseteq Same1
  BY <1>1, AllNodes
<1>3. v \in DOMAIN t
  BY DEF AreLeaves, IsClosed
<1>4. QED
  BY <1>2, <1>3 DEF Same1

LEMMA LeavesExist ==
  ASSUME NEW t, IsForest(t)
  PROVE  \A v \in DOMAIN t : \E f, S : v \in S /\ AreLeaves(t, f, S)
<1> DEFINE Has == {v \in DOMAIN t : \E f, S : v \in S /\ AreLeaves(t, f, S)}
<1>1. ASSUME NEW v \in DOMAIN t, ChildrenOf(t, v) \subseteq Has
      PROVE  v \in Has
  <2>0. t[v].variable \in Nat
    BY DEF IsForest
  <2>1. CASE IsLeaf(t, v)
    <3> DEFINE f == [w \in {v} |-> <<t[v].variable>>]
    <3>1. f[v] = <<t[v].variable>> /\ f[v] \in Seq(Nat)
      BY <2>0
    <3> HIDE DEF f
    <3>2. IsClosed(t, {v})
      BY <2>1 DEF IsClosed, ChildrenOf
    <3>3. AreLeaves(t, f, {v})
      BY <2>1, <3>1, <3>2 DEF AreLeaves, LeavesFrom
    <3>4. QED
      BY <3>3
  <2>2. CASE ~IsLeaf(t, v)
    <3> DEFINE l == t[v].left
               r == t[v].right
    <3>1. l \in DOMAIN t /\ r \in DOMAIN t /\ ChildrenOf(t, v) = {l, r}
      BY <2>2, ChildFacts
    <3>2. l \in Has /\ r \in Has
      BY <1>1, <3>1
    <3>3. PICK fl, Sl : l \in Sl /\ AreLeaves(t, fl, Sl)
      BY <3>2
    <3>4. PICK fr, Sr : r \in Sr /\ AreLeaves(t, fr, Sr)
      BY <3>2
    <3> HIDE DEF l, r, Has
    <3>5. CASE v \in Sl \cup Sr
      <4>1. CASE v \in Sl
        BY <3>3, <4>1 DEF Has
      <4>2. CASE v \in Sr
        BY <3>4, <4>2 DEF Has
      <4>3. QED
        BY <3>5, <4>1, <4>2
    <3>6. CASE v \notin Sl \cup Sr
      <4> DEFINE C == {v} \cup Sl \cup Sr
                 f == [w \in C |-> IF w = v THEN fl[l] \o fr[r] ELSE IF w \in Sl THEN fl[w] ELSE fr[w]]
      <4>1. IsClosed(t, Sl) /\ IsClosed(t, Sr)
        BY <3>3, <3>4 DEF AreLeaves
      <4>2. IsClosed(t, C)
        BY <3>1, <3>3, <3>4, <4>1 DEF IsClosed
      <4>3. \A w \in Sl \cap Sr : fl[w] = fr[w]
        BY <3>3, <3>4, LeavesAreUnique
      <4>4. f[v] = fl[l] \o fr[r] /\ (\A w \in Sl : f[w] = fl[w]) /\ (\A w \in Sr : f[w] = fr[w])
        BY <3>6, <4>3
      <4>5. fl[l] \in Seq(Nat) /\ fr[r] \in Seq(Nat)
        BY <3>3, <3>4 DEF AreLeaves
      <4> HIDE DEF f
      <4>6. f[v] = LeavesFrom(t, f, v) /\ f[v] \in Seq(Nat)
        <5>1. f[l] = fl[l] /\ f[r] = fr[r]
          BY <3>3, <3>4, <4>4
        <5>2. QED
          <6>1. f[v] \in Seq(Nat)
            BY <4>4, <4>5, ConcatProperties
          <6>2. LeavesFrom(t, f, v) = f[l] \o f[r]
            BY <2>2 DEF LeavesFrom, l, r
          <6>3. QED
            BY <4>4, <5>1, <6>1, <6>2
      <4>7. ASSUME NEW w \in Sl
            PROVE  f[w] = LeavesFrom(t, f, w) /\ f[w] \in Seq(Nat)
        <5>1. f[w] = fl[w] /\ fl[w] = LeavesFrom(t, fl, w) /\ fl[w] \in Seq(Nat)
          BY <3>3, <4>4 DEF AreLeaves
        <5>2. ~IsLeaf(t, w) => t[w].left \in Sl /\ t[w].right \in Sl
          BY <4>1 DEF IsClosed, ChildrenOf
        <5>3. LeavesFrom(t, fl, w) = LeavesFrom(t, f, w)
          BY <4>4, <5>2 DEF LeavesFrom
        <5>4. QED
          BY <5>1, <5>3
      <4>8. ASSUME NEW w \in Sr
            PROVE  f[w] = LeavesFrom(t, f, w) /\ f[w] \in Seq(Nat)
        <5>1. f[w] = fr[w] /\ fr[w] = LeavesFrom(t, fr, w) /\ fr[w] \in Seq(Nat)
          BY <3>4, <4>4 DEF AreLeaves
        <5>2. ~IsLeaf(t, w) => t[w].left \in Sr /\ t[w].right \in Sr
          BY <4>1 DEF IsClosed, ChildrenOf
        <5>3. LeavesFrom(t, fr, w) = LeavesFrom(t, f, w)
          BY <4>4, <5>2 DEF LeavesFrom
        <5>4. QED
          BY <5>1, <5>3
      <4>9. AreLeaves(t, f, C)
        BY <4>2, <4>6, <4>7, <4>8 DEF AreLeaves
      <4>10. v \in C
        OBVIOUS
      <4> HIDE DEF C
      <4>11. QED
        BY <4>9, <4>10 DEF Has
    <3>7. QED
      BY <3>5, <3>6
  <2>3. QED
    BY <2>1, <2>2
<1> HIDE DEF Has
<1>2. DOMAIN t \subseteq Has
  BY <1>1, AllNodes
<1>3. QED
  BY <1>2 DEF Has

LEMMA TraverseUnfolds ==
  ASSUME NEW t, IsForest(t), NEW v \in DOMAIN t
  PROVE  /\ LeftToRightLeafTraverse(t, v) \in Seq(Nat)
         /\ LeftToRightLeafTraverse(t, v) =
              IF IsLeaf(t, v) THEN <<t[v].variable>>
              ELSE LeftToRightLeafTraverse(t, t[v].left) \o LeftToRightLeafTraverse(t, t[v].right)
<1> DEFINE D == DOMAIN t
           One(w) == CHOOSE f : \E S : w \in S /\ AreLeaves(t, f, S)
           g == [w \in D |-> One(w)[w]]
           F(f) == [w \in D |-> IF IsLeaf(t, w) THEN <<t[w].variable>> ELSE f[t[w].left] \o f[t[w].right]]
<1>1. \A w \in D : \E S : w \in S /\ AreLeaves(t, One(w), S)
  BY LeavesExist, Zenon
<1> HIDE DEF One
<1>2. ASSUME NEW w \in D
      PROVE  g[w] = LeavesFrom(t, g, w) /\ g[w] \in Seq(Nat)
  <2>1. PICK S : w \in S /\ AreLeaves(t, One(w), S)
    BY <1>1
  <2>2. One(w)[w] = LeavesFrom(t, One(w), w) /\ One(w)[w] \in Seq(Nat) /\ IsClosed(t, S)
    BY <2>1 DEF AreLeaves
  <2>3. ASSUME ~IsLeaf(t, w), NEW c \in ChildrenOf(t, w)
        PROVE  g[c] = One(w)[c]
    <3>1. c \in S /\ c \in D
      BY <2>1, <2>2 DEF IsClosed
    <3>2. PICK T : c \in T /\ AreLeaves(t, One(c), T)
      BY <1>1, <3>1
    <3>3. One(c)[c] = One(w)[c]
      BY <2>1, <3>1, <3>2, LeavesAreUnique
    <3>4. QED
      BY <3>1, <3>3
  <2>4. LeavesFrom(t, One(w), w) = LeavesFrom(t, g, w)
    BY <2>3 DEF LeavesFrom, ChildrenOf
  <2>5. QED
    BY <2>2, <2>4
<1>3. g = F(g)
  <2>1. \A w \in D : g[w] = IF IsLeaf(t, w) THEN <<t[w].variable>> ELSE g[t[w].left] \o g[t[w].right]
    BY <1>2 DEF LeavesFrom
  <2>2. g = [w \in D |-> g[w]]
    OBVIOUS
  <2> HIDE DEF g
  <2>3. QED
    BY <2>1, <2>2, Zenon
<1> DEFINE L == CHOOSE f : f = F(f)
<1>4. L = F(L)
  BY <1>3, Zenon
<1>5. \A w : LeftToRightLeafTraverse(t, w) = L[w]
  BY Zenon DEF LeftToRightLeafTraverse
<1> HIDE DEF L
<1>6. \A w \in D : L[w] = LeavesFrom(t, L, w)
  BY <1>4 DEF LeavesFrom
<1> DEFINE S == {w \in D : L[w] \in Seq(Nat)}
<1>7. ASSUME NEW w \in D, ChildrenOf(t, w) \subseteq S
      PROVE  w \in S
  <2>1. t[w].variable \in Nat
    BY DEF IsForest
  <2>2. CASE IsLeaf(t, w)
    <3>1. L[w] = <<t[w].variable>>
      BY <1>6, <2>2 DEF LeavesFrom
    <3>2. L[w] \in Seq(Nat)
      BY <2>1, <3>1
    <3>3. QED
      BY <3>2
  <2>3. CASE ~IsLeaf(t, w)
    <3>1. t[w].left \in S /\ t[w].right \in S
      BY <1>7, <2>3 DEF ChildrenOf
    <3>2. L[w] = L[t[w].left] \o L[t[w].right]
      BY <1>6, <2>3 DEF LeavesFrom
    <3>3. L[w] \in Seq(Nat)
      BY <3>1, <3>2, ConcatProperties
    <3>4. QED
      BY <3>3
  <2>4. QED
    BY <2>2, <2>3
<1>8. D \subseteq S
  <2> HIDE DEF S
  <2>1. QED
    BY <1>7, AllNodes
<1>9. QED
  BY <1>5, <1>6, <1>8 DEF LeavesFrom

-----------------------------------------------------------------------------
\* The variables kept of a list.
IsMap(map) == \A x \in DOMAIN map : map[x] \in Nat \ {0}

KeptFrom(s, map, f, i) ==
  IF i = 0 THEN <<>> ELSE IF s[i] \in DOMAIN map THEN Append(f[i - 1], map[s[i]]) ELSE f[i - 1]

KeptTo(s, map, f, n) == \A i \in 0..n : f[i] = KeptFrom(s, map, f, i) /\ f[i] \in Seq(Nat)

LEMMA KeptUnfolds ==
  ASSUME NEW s \in Seq(Nat), NEW map, IsMap(map), NEW n \in Nat, n = Len(s)
  PROVE  \E f : KeptTo(s, map, f, n) /\ KeptOf(s, map) = f[n]
<1> DEFINE X == Seq(Nat)
           Step(i, u) == IF s[i] \in DOMAIN map THEN Append(u, map[s[i]]) ELSE u
           h == [p \in (1..n) \X X |-> Step(p[1], p[2])]
           F(g) == [i \in 0..n |-> IF i = 0 THEN <<>>
                                   ELSE IF s[i] \in DOMAIN map THEN Append(g[i - 1], map[s[i]]) ELSE g[i - 1]]
<1>1. \A i \in 1..n, u \in X : Step(i, u) \in X
  <2> SUFFICES ASSUME NEW i \in 1..n, NEW u \in X PROVE Step(i, u) \in X
    OBVIOUS
  <2>1. CASE s[i] \in DOMAIN map
    <3>1. map[s[i]] \in Nat
      BY <2>1 DEF IsMap
    <3>2. QED
      BY <2>1, <3>1, AppendProperties
  <2>2. CASE s[i] \notin DOMAIN map
    BY <2>2
  <2>3. QED
    BY <2>1, <2>2
<1>2. h \in [(1..n) \X X -> X] /\ <<>> \in X
  <2> HIDE DEF Step
  <2>1. QED
    BY <1>1
<1>3. PICK f : IsRun(f, h, X, <<>>, n, n)
  <2> HIDE DEF X, h
  <2>1. QED
    BY <1>2, RunExists
<1>4. f \in [0..n -> X] /\ f[0] = <<>> /\ \A i \in 1..n : f[i] = h[<<i, f[i - 1]>>]
  BY <1>3 DEF IsRun
<1>5. \A i \in 1..n : f[i] = Step(i, f[i - 1])
  <2> SUFFICES ASSUME NEW i \in 1..n PROVE f[i] = Step(i, f[i - 1])
    OBVIOUS
  <2>1. i - 1 \in 0..n
    OBVIOUS
  <2>2. <<i, f[i - 1]>> \in (1..n) \X X
    BY <1>4, <2>1
  <2> HIDE DEF Step
  <2>3. QED
    BY <1>4, <2>2
<1>6. f = F(f)
  <2>1. \A i \in 0..n : i = 0 \/ i \in 1..n
    OBVIOUS
  <2>2. f = [i \in 0..n |-> f[i]]
    BY <1>4
  <2>3. \A i \in 0..n : f[i] = IF i = 0 THEN <<>>
                               ELSE IF s[i] \in DOMAIN map THEN Append(f[i - 1], map[s[i]]) ELSE f[i - 1]
    <3> HIDE DEF h
    <3>1. QED
      BY <1>4, <1>5, <2>1
  <2>4. QED
    BY <2>2, <2>3
<1>7. \E g : g = F(g)
  BY <1>6
<1> DEFINE v == CHOOSE g : g = F(g)
<1>8. v = F(v)
  BY <1>7, Zenon
<1>9. KeptOf(s, map) = v[n]
  BY Zenon DEF KeptOf
<1> HIDE DEF v
<1>10. \A i \in 0..n : v[i] = KeptFrom(s, map, v, i)
  BY <1>8 DEF KeptFrom
<1> DEFINE S == {i \in 0..n : v[i] \in X}
<1>11. 0 \in S
  <2>1. 0 \in 0..n
    OBVIOUS
  <2>2. v[0] = <<>>
    BY <1>10, <2>1 DEF KeptFrom
  <2>3. v[0] \in X
    BY <2>2
  <2>4. QED
    BY <2>1, <2>3
<1>12. ASSUME NEW i \in 1..n, i - 1 \in S
       PROVE  i \in S
  <2>1. i \in 0..n /\ i # 0 /\ v[i - 1] \in X
    BY <1>12
  <2>2. v[i] = Step(i, v[i - 1])
    BY <1>10, <2>1 DEF KeptFrom
  <2>3. v[i] \in X
    <3> HIDE DEF Step
    <3>1. QED
      BY <1>1, <2>1, <2>2
  <2>4. QED
    BY <2>1, <2>3
<1>13. 0..n \subseteq S
  <2>1. S \subseteq 0..n
    OBVIOUS
  <2> HIDE DEF S
  <2>2. QED
    BY <1>11, <1>12, <2>1, AllSteps
<1>14. KeptTo(s, map, v, n)
  BY <1>10, <1>13 DEF KeptTo
<1>15. QED
  BY <1>9, <1>14

LEMMA ConcatAppend ==
  ASSUME NEW u \in Seq(Nat), NEW v \in Seq(Nat), NEW x \in Nat
  PROVE  Append(u \o v, x) = u \o Append(v, x)
<1> DEFINE a == Append(u \o v, x)
           b == u \o Append(v, x)
<1>1. /\ a \in Seq(Nat) /\ Len(a) = Len(u) + Len(v) + 1 /\ Len(u) \in Nat /\ Len(v) \in Nat
      /\ \A i \in 1..Len(a) : a[i] = IF i <= Len(u) THEN u[i] ELSE IF i <= Len(u) + Len(v) THEN v[i - Len(u)] ELSE x
  OBVIOUS
<1>2. /\ b \in Seq(Nat) /\ Len(b) = Len(u) + Len(v) + 1
      /\ \A i \in 1..Len(b) : b[i] = IF i <= Len(u) THEN u[i] ELSE IF i <= Len(u) + Len(v) THEN v[i - Len(u)] ELSE x
  OBVIOUS
<1> HIDE DEF a, b
<1>3. a = b
  BY <1>1, <1>2, SeqEqual
<1>4. QED
  BY <1>3 DEF a, b

\* What is kept of two lists, one after the other.
LEMMA KeptOfBoth ==
  ASSUME NEW a \in Seq(Nat), NEW b \in Seq(Nat), NEW map, IsMap(map)
  PROVE  KeptOf(a \o b, map) = KeptOf(a, map) \o KeptOf(b, map)
<1>1. PICK m \in Nat : m = Len(a)
  OBVIOUS
<1>2. PICK n \in Nat : n = Len(b)
  OBVIOUS
<1> DEFINE c == a \o b
<1>3. /\ c \in Seq(Nat) /\ Len(c) = m + n
      /\ \A i \in 1..m : c[i] = a[i]
      /\ \A i \in 1..n : c[m + i] = b[i]
  BY <1>1, <1>2
<1> HIDE DEF c
<1>4. PICK f : KeptTo(a, map, f, m) /\ KeptOf(a, map) = f[m]
  BY <1>1, KeptUnfolds
<1>5. PICK g : KeptTo(b, map, g, n) /\ KeptOf(b, map) = g[n]
  BY <1>2, KeptUnfolds
<1>6. PICK h : KeptTo(c, map, h, m + n) /\ KeptOf(c, map) = h[m + n]
  <2>1. m + n \in Nat
    OBVIOUS
  <2>2. QED
    BY <1>3, <2>1, KeptUnfolds
<1> DEFINE S == {i \in 0..m : h[i] = f[i]}
           T == {i \in 0..n : h[m + i] = f[m] \o g[i]}
<1>7. 0 \in S
  BY <1>4, <1>6 DEF KeptTo, KeptFrom
<1>8. ASSUME NEW i \in 1..m, i - 1 \in S
      PROVE  i \in S
  <2>1. i \in 0..m /\ i \in 0..m + n /\ i # 0 /\ h[i - 1] = f[i - 1]
    BY <1>8
  <2>2. h[i] = KeptFrom(c, map, h, i) /\ f[i] = KeptFrom(a, map, f, i)
    BY <1>4, <1>6, <2>1 DEF KeptTo
  <2>3. c[i] = a[i]
    BY <1>3
  <2>4. QED
    BY <2>1, <2>2, <2>3 DEF KeptFrom
<1>9. 0..m \subseteq S
  <2>1. S \subseteq 0..m
    OBVIOUS
  <2> HIDE DEF S
  <2>2. QED
    BY <1>7, <1>8, <2>1, AllSteps
<1>10. h[m] = f[m]
  BY <1>9
<1>11. f[m] \in Seq(Nat)
  BY <1>4 DEF KeptTo
<1>12. 0 \in T
  <2>1. g[0] = <<>>
    BY <1>5 DEF KeptTo, KeptFrom
  <2>2. f[m] \o <<>> = f[m]
    BY <1>11, ConcatEmptySeq
  <2>3. m + 0 = m /\ 0 \in 0..n
    OBVIOUS
  <2>4. QED
    BY <1>10, <2>1, <2>2, <2>3
<1>13. ASSUME NEW i \in 1..n, i - 1 \in T
       PROVE  i \in T
  <2>1. i \in 0..n /\ i - 1 \in 0..n /\ i # 0 /\ m + i \in 0..m + n /\ m + i # 0 /\ m + i - 1 = m + (i - 1)
        /\ h[m + (i - 1)] = f[m] \o g[i - 1]
    <3>1. i \in 0..n /\ i - 1 \in 0..n /\ i # 0 /\ m + i \in 0..m + n /\ m + i # 0 /\ m + i - 1 = m + (i - 1)
      OBVIOUS
    <3>2. h[m + (i - 1)] = f[m] \o g[i - 1]
      BY <1>13
    <3>3. QED
      BY <3>1, <3>2
  <2>2. h[m + i] = KeptFrom(c, map, h, m + i) /\ g[i] = KeptFrom(b, map, g, i) /\ g[i - 1] \in Seq(Nat)
    BY <1>5, <1>6, <2>1 DEF KeptTo
  <2>3. c[m + i] = b[i]
    BY <1>3
  <2>7. /\ KeptFrom(c, map, h, m + i) = IF b[i] \in DOMAIN map THEN Append(h[m + (i - 1)], map[b[i]]) ELSE h[m + (i - 1)]
        /\ KeptFrom(b, map, g, i) = IF b[i] \in DOMAIN map THEN Append(g[i - 1], map[b[i]]) ELSE g[i - 1]
    <3>1. PICK k \in 0..m + n : k = m + i /\ k # 0 /\ k - 1 = m + (i - 1)
      BY <2>1
    <3>2. KeptFrom(c, map, h, k) = IF c[k] \in DOMAIN map THEN Append(h[k - 1], map[c[k]]) ELSE h[k - 1]
      BY <3>1, Zenon DEF KeptFrom
    <3>3. KeptFrom(b, map, g, i) = IF b[i] \in DOMAIN map THEN Append(g[i - 1], map[b[i]]) ELSE g[i - 1]
      BY <2>1, Zenon DEF KeptFrom
    <3>4. QED
      BY <2>3, <3>1, <3>2, <3>3, Zenon
  <2>4. CASE b[i] \in DOMAIN map
    <3>1. h[m + i] = Append(f[m] \o g[i - 1], map[b[i]]) /\ g[i] = Append(g[i - 1], map[b[i]])
      BY <2>1, <2>2, <2>4, <2>7, Zenon
    <3>2. map[b[i]] \in Nat
      BY <2>4 DEF IsMap
    <3>4. h[m + i] = f[m] \o g[i]
      <4>1. Append(f[m] \o g[i - 1], map[b[i]]) = f[m] \o Append(g[i - 1], map[b[i]])
        BY <1>11, <2>2, <3>2, ConcatAppend
      <4>2. QED
        BY <3>1, <4>1, Zenon
    <3>5. QED
      BY <2>1, <3>4
  <2>5. CASE b[i] \notin DOMAIN map
    <3>1. h[m + i] = f[m] \o g[i - 1] /\ g[i] = g[i - 1]
      BY <2>1, <2>2, <2>5, <2>7, Zenon
    <3>2. QED
      BY <2>1, <3>1
  <2>6. QED
    BY <2>4, <2>5
<1>14. 0..n \subseteq T
  <2>1. T \subseteq 0..n
    OBVIOUS
  <2> HIDE DEF T
  <2>2. QED
    BY <1>12, <1>13, <2>1, AllSteps
<1>15. h[m + n] = f[m] \o g[n]
  <2>1. n \in 0..n
    OBVIOUS
  <2>2. n \in T
    <3> HIDE DEF T
    <3>1. QED
      BY <1>14, <2>1
  <2>3. QED
    BY <2>2
<1>16. QED
  BY <1>4, <1>5, <1>6, <1>15 DEF c

LEMMA KeptOfOne ==
  ASSUME NEW x \in Nat, NEW map, IsMap(map)
  PROVE  KeptOf(<<x>>, map) = IF x \in DOMAIN map THEN <<map[x]>> ELSE <<>>
<1> DEFINE s == <<x>>
<1>1. s \in Seq(Nat) /\ Len(s) = 1 /\ s[1] = x
  OBVIOUS
<1> HIDE DEF s
<1>2. PICK f : KeptTo(s, map, f, 1) /\ KeptOf(s, map) = f[1]
  BY <1>1, KeptUnfolds
<1>3. f[0] = <<>> /\ f[1] = IF x \in DOMAIN map THEN Append(<<>>, map[x]) ELSE <<>>
  <2>1. 0 \in 0..1 /\ 1 \in 0..1 /\ 1 - 1 = 0
    OBVIOUS
  <2>2. f[0] = <<>> /\ f[1] = KeptFrom(s, map, f, 1)
    BY <1>2, <2>1 DEF KeptTo, KeptFrom
  <2>3. QED
    <3>1. KeptFrom(s, map, f, 1) = IF s[1] \in DOMAIN map THEN Append(f[1 - 1], map[s[1]]) ELSE f[1 - 1]
      BY SMT DEF KeptFrom
    <3>2. QED
      BY <1>1, <2>1, <2>2, <3>1, Zenon
<1>4. x \in DOMAIN map => map[x] \in Nat
  BY DEF IsMap
<1>5. \A y \in Nat : Append(<<>>, y) = <<y>>
  OBVIOUS
<1>6. QED
  BY <1>2, <1>3, <1>4, <1>5 DEF s

LEMMA KeptIsASequence ==
  ASSUME NEW s \in Seq(Nat), NEW map, IsMap(map)
  PROVE  KeptOf(s, map) \in Seq(Nat)
<1>1. PICK n \in Nat : n = Len(s)
  OBVIOUS
<1>2. PICK f : KeptTo(s, map, f, n) /\ KeptOf(s, map) = f[n]
  BY <1>1, KeptUnfolds
<1>3. QED
  BY <1>2 DEF KeptTo

-----------------------------------------------------------------------------
\* Nodes are added, and those there were stay as they are.
Grows(t, u) ==
  /\ IsForest(t) /\ IsForest(u)
  /\ DOMAIN t \subseteq DOMAIN u /\ \A v \in DOMAIN t : u[v] = t[v]

LEMMA GrowthKeepsNodes ==
  ASSUME NEW t, NEW u, Grows(t, u), NEW v \in DOMAIN t
  PROVE  /\ v \in DOMAIN u /\ (IsLeaf(u, v) <=> IsLeaf(t, v)) /\ ChildrenOf(u, v) = ChildrenOf(t, v)
BY DEF Grows, IsLeaf, ChildrenOf

LEMMA GrowthKeepsUnder ==
  ASSUME NEW t, NEW u, Grows(t, u), NEW v \in DOMAIN t
  PROVE  Under(u, v) = Under(t, v)
<1>1. IsForest(t) /\ IsForest(u) /\ v \in DOMAIN u /\ \A w \in DOMAIN t : ChildrenOf(u, w) = ChildrenOf(t, w)
  BY GrowthKeepsNodes DEF Grows
<1>2. Under(u, v) \subseteq Under(t, v)
  <2>1. v \in Under(t, v) /\ \A w \in Under(t, v) : ChildrenOf(u, w) \subseteq Under(t, v)
    BY <1>1, UnderIsLeast DEF IsClosed
  <2>2. QED
    BY <1>1, <2>1, UnderIsLeast
<1>3. Under(t, v) \subseteq Under(u, v)
  <2>1. v \in Under(u, v) /\ \A w \in Under(u, v) : ChildrenOf(t, w) \subseteq Under(u, v)
    <3>1. Under(u, v) \subseteq DOMAIN t
      BY <1>1, <1>2, UnderIsLeast
    <3>2. QED
      BY <1>1, <3>1, UnderIsLeast DEF IsClosed
  <2>2. QED
    BY <1>1, <2>1, UnderIsLeast
<1>4. QED
  BY <1>2, <1>3

LEMMA GrowthKeepsVariables ==
  ASSUME NEW t, NEW u, Grows(t, u), NEW v \in DOMAIN t
  PROVE  Variables(u, v) = Variables(t, v)
<1>1. IsForest(t) /\ IsForest(u) /\ v \in DOMAIN u
  BY GrowthKeepsNodes DEF Grows
<1>2. Under(u, v) = Under(t, v) /\ Under(t, v) \subseteq DOMAIN t
  BY <1>1, GrowthKeepsUnder, UnderIsLeast
<1>3. \A w \in Under(t, v) : u[w] = t[w] /\ (IsLeaf(u, w) <=> IsLeaf(t, w))
  BY <1>2, GrowthKeepsNodes DEF Grows
<1>4. QED
  BY <1>1, <1>2, <1>3, VariablesAre

LEMMA GrowthKeepsLeaves ==
  ASSUME NEW t, NEW u, Grows(t, u), NEW v \in DOMAIN t
  PROVE  LeftToRightLeafTraverse(u, v) = LeftToRightLeafTraverse(t, v)
<1>1. IsForest(t) /\ IsForest(u) /\ \A w \in DOMAIN t : w \in DOMAIN u /\ u[w] = t[w] /\ (IsLeaf(u, w) <=> IsLeaf(t, w))
  BY GrowthKeepsNodes DEF Grows
<1> DEFINE S == {w \in DOMAIN t : LeftToRightLeafTraverse(u, w) = LeftToRightLeafTraverse(t, w)}
<1>2. ASSUME NEW w \in DOMAIN t, ChildrenOf(t, w) \subseteq S
      PROVE  w \in S
  <2>1. CASE IsLeaf(t, w)
    BY <1>1, <2>1, TraverseUnfolds
  <2>2. CASE ~IsLeaf(t, w)
    <3>1. t[w].left \in S /\ t[w].right \in S
      BY <1>2, <2>2 DEF ChildrenOf
    <3>2. /\ LeftToRightLeafTraverse(t, w) =
               LeftToRightLeafTraverse(t, t[w].left) \o LeftToRightLeafTraverse(t, t[w].right)
          /\ LeftToRightLeafTraverse(u, w) =
               LeftToRightLeafTraverse(u, u[w].left) \o LeftToRightLeafTraverse(u, u[w].right)
      BY <1>1, <2>2, TraverseUnfolds
    <3>3. QED
      BY <1>1, <3>1, <3>2
  <2>3. QED
    BY <2>1, <2>2
<1> HIDE DEF S
<1>3. DOMAIN t \subseteq S
  BY <1>1, <1>2, AllNodes
<1>4. QED
  BY <1>3 DEF S

LEMMA GrowthKeepsSerialization ==
  ASSUME NEW t, NEW u, Grows(t, u), NEW root, NEW list, IsSerialization(t, root, list)
  PROVE  IsSerialization(u, root, list)
<1>1. list \in Seq(DOMAIN t)
  BY DEF IsSerialization
<1>2. DOMAIN t \subseteq DOMAIN u
  BY DEF Grows
<1>3. list \in Seq(DOMAIN u)
  BY <1>1, <1>2
<1>4. \A k \in 1..Len(list) : ChildrenOf(u, list[k]) = ChildrenOf(t, list[k])
  <2>1. \A k \in 1..Len(list) : list[k] \in DOMAIN t
    BY <1>1
  <2>2. QED
    BY <2>1, GrowthKeepsNodes
<1>5. QED
  BY <1>3, <1>4 DEF IsSerialization

-----------------------------------------------------------------------------
\* A node that is no child.
IsTop(t, d) == \A w \in DOMAIN t : d \notin ChildrenOf(t, w)

\* What the loop made of a node: nothing, if no variable under it is kept.
IsMadeOf(t, c, v, d) ==
  \/ /\ d = NoVtree
     /\ New(c.map, Variables(t, v)) = {}
     /\ KeptOf(LeftToRightLeafTraverse(t, v), c.map) = <<>>
  \/ /\ d # NoVtree
     /\ IsRestrictedTo(t, c, v, d)
     /\ Variables(t, d) = New(c.map, Variables(t, v))
     /\ IsTop(t, d)

\* The nodes behind a position, and those of them whose parent is not yet visited.
VisitedAfter(list, p) == {list[k] : k \in {i \in 1..Len(list) : i > p}}
WaitingAfter(t, list, p) ==
  {v \in VisitedAfter(list, p) : \A w \in VisitedAfter(list, p) : v \notin ChildrenOf(t, w)}

\* The inductive invariant: the nodes there are are a forest, at addresses from 0 on; the call that runs
\* keeps some variable, and all of them if nothing may be left out; each node that waits for its parent
\* has the pointer to what was made of it, no two the same, and no node has another pointer.
HeapInv == IsForest(heap) /\ \E n \in Nat : DOMAIN heap = 0..n - 1

CallInv ==
  /\ IsSerialization(heap, call.root, serialized_vtrees)
  /\ position \in 0..Len(serialized_vtrees)
  /\ IsMap(call.map) /\ call.size \in Nat /\ call.size <= NewAddress
  /\ Variables(heap, call.root) \cap DOMAIN call.map # {}
  /\ call.op # "ProjectVtree" => Variables(heap, call.root) \subseteq DOMAIN call.map

DataInv ==
  LET waiting == WaitingAfter(heap, serialized_vtrees, position) IN
  /\ \A v \in waiting : IsMadeOf(heap, call, v, Data(v))
  /\ \A v, w \in waiting : v # w /\ Data(v) = Data(w) => Data(v) = NoVtree
  /\ DOMAIN data \subseteq IF KeepsPointers THEN VisitedAfter(serialized_vtrees, position) ELSE waiting

\* What was returned stays as it was returned.
ResultsInv ==
  /\ \E S : results \in Seq(S)
  /\ \A i \in DOMAIN results :
       LET r == results[i] IN r.call.root \in DOMAIN heap /\ IsRestrictedTo(heap, r.call, r.call.root, r.new_vtree)

CInv ==
  /\ HeapInv /\ ResultsInv
  /\ IF running THEN CallInv /\ DataInv ELSE data = <<>>

\* A new node whose children, if any, are no children yet.
VtreeNode == [variable : Nat, left : Int, right : Int]
Adds(t, u, n, node) ==
  /\ n \in Nat /\ n \notin DOMAIN t /\ node \in VtreeNode
  /\ DOMAIN u = DOMAIN t \cup {n} /\ u[n] = node /\ \A v \in DOMAIN t : u[v] = t[v]
  /\ node.variable = 0 => /\ node.left # node.right
                          /\ node.left \in DOMAIN t /\ IsTop(t, node.left)
                          /\ node.right \in DOMAIN t /\ IsTop(t, node.right)

LEMMA AddsKeepsForest ==
  ASSUME NEW t, IsForest(t), NEW u, NEW n, NEW node, Adds(t, u, n, node)
  PROVE  IsForest(u) /\ Grows(t, u) /\ IsTop(u, n)
<1>1. /\ n \notin DOMAIN t /\ DOMAIN u = DOMAIN t \cup {n} /\ \A v \in DOMAIN t : u[v] = t[v]
      /\ \A v \in DOMAIN t : ChildrenOf(u, v) = ChildrenOf(t, v)
  BY DEF Adds, ChildrenOf, IsLeaf
<1>2. \A v \in DOMAIN t : ChildrenOf(t, v) \subseteq DOMAIN t
  BY DEF IsForest
<1>3. /\ u[n] \in VtreeNode /\ ChildrenOf(u, n) \subseteq DOMAIN t
      /\ ~IsLeaf(u, n) => u[n].left # u[n].right
      /\ \A c \in ChildrenOf(u, n) : IsTop(t, c)
  BY DEF Adds, ChildrenOf, IsLeaf
<1>4. IsFiniteSet(DOMAIN u)
  BY <1>1, FS_AddElement DEF IsForest
<1>5. \A v \in DOMAIN u : u[v] \in VtreeNode
  BY <1>1, <1>3 DEF IsForest, VtreeNode
<1>6. \A v \in DOMAIN u : ChildrenOf(u, v) \subseteq DOMAIN t
  BY <1>1, <1>2, <1>3
<1>7. \A v \in DOMAIN u : ~IsLeaf(u, v) => u[v].left # u[v].right
  BY <1>1, <1>3 DEF IsForest, IsLeaf
<1>8. \A v, w \in DOMAIN u : v # w => ChildrenOf(u, v) \cap ChildrenOf(u, w) = {}
  BY <1>1, <1>3 DEF IsForest, IsTop
<1>9. ASSUME NEW some \in (SUBSET DOMAIN u) \ {{}}
      PROVE  /\ \E v \in some : ChildrenOf(u, v) \cap some = {}
             /\ \E v \in some : \A w \in some : v \notin ChildrenOf(u, w)
  <2> DEFINE old == some \ {n}
  <2>1. CASE old = {}
    <3>1. some = {n}
      BY <2>1
    <3>2. ChildrenOf(u, n) \cap some = {}
      BY <1>1, <1>3, <3>1
    <3>3. QED
      BY <3>1, <3>2
  <2>2. CASE old # {}
    <3>1. old \in (SUBSET DOMAIN t) \ {{}}
      BY <1>1, <2>2
    <3> HIDE DEF old
    <3>2. PICK v \in old : ChildrenOf(t, v) \cap old = {}
      BY <3>1, Zenon DEF IsForest, IsAcyclic
    <3>3. PICK w \in old : \A x \in old : w \notin ChildrenOf(t, x)
      BY <3>1, Zenon DEF IsForest, IsAcyclic
    <3>4. \A x \in old : x \in DOMAIN t /\ x \in some
      BY <3>1 DEF old
    <3>5. ChildrenOf(u, v) \cap some = {}
      BY <1>1, <1>2, <3>2, <3>4 DEF old
    <3>6. CASE n \in some
      <4>1. \A x \in some : n \notin ChildrenOf(u, x)
        BY <1>1, <1>6
      <4>2. QED
        BY <3>2, <3>4, <3>5, <3>6, <4>1
    <3>7. CASE n \notin some
      <4>1. some = old
        BY <3>7 DEF old
      <4>2. \A x \in some : w \notin ChildrenOf(u, x)
        BY <1>1, <3>3, <3>4, <4>1
      <4>3. QED
        BY <3>2, <3>3, <3>4, <3>5, <4>2
    <3>8. QED
      BY <3>6, <3>7
  <2>3. QED
    BY <2>1, <2>2
<1>10. IsForest(u)
  <2>1. IsAcyclic(u)
    BY <1>9, Zenon DEF IsAcyclic
  <2>2. \A v \in DOMAIN u : ChildrenOf(u, v) \subseteq DOMAIN u
    BY <1>1, <1>6
  <2>3. QED
    BY <1>4, <1>5, <1>7, <1>8, <2>1, <2>2 DEF IsForest, VtreeNode
<1>11. IsTop(u, n)
  BY <1>1, <1>6 DEF IsTop
<1>12. QED
  BY <1>1, <1>10, <1>11 DEF Grows

LEMMA AddsKeepsTop ==
  ASSUME NEW t, IsForest(t), NEW u, NEW n, NEW node, Adds(t, u, n, node), NEW d \in DOMAIN t, IsTop(t, d),
         node.variable = 0 => d \notin {node.left, node.right}
  PROVE  IsTop(u, d)
<1>1. /\ DOMAIN u = DOMAIN t \cup {n}
      /\ \A v \in DOMAIN t : ChildrenOf(u, v) = ChildrenOf(t, v)
  BY DEF Adds, ChildrenOf, IsLeaf
<1>2. d \notin ChildrenOf(u, n)
  BY DEF Adds, ChildrenOf, IsLeaf
<1>3. QED
  BY <1>1, <1>2 DEF IsTop

-----------------------------------------------------------------------------
\* What a copy has in common with what it is a copy of stays so.
LEMMA GrowthKeepsRestrictions ==
  ASSUME NEW t, NEW u, Grows(t, u), NEW c, NEW v \in DOMAIN t, NEW d, IsRestrictedTo(t, c, v, d)
  PROVE  IsRestrictedTo(u, c, v, d)
<1>1. IsForest(t) /\ d \in DOMAIN t /\ d \in DOMAIN u
  BY DEF Grows, IsRestrictedTo
<1>2. /\ Under(u, v) = Under(t, v) /\ Under(u, d) = Under(t, d)
      /\ Under(t, v) \subseteq DOMAIN t /\ Under(t, d) \subseteq DOMAIN t
  BY <1>1, GrowthKeepsUnder, UnderIsLeast
<1>3. /\ \A w \in Under(t, v) : Variables(u, w) = Variables(t, w)
      /\ \A w \in Under(t, d) : Variables(u, w) = Variables(t, w)
  BY <1>2, GrowthKeepsVariables
<1>4. /\ LeftToRightLeafTraverse(u, v) = LeftToRightLeafTraverse(t, v)
      /\ LeftToRightLeafTraverse(u, d) = LeftToRightLeafTraverse(t, d)
  BY <1>1, GrowthKeepsLeaves
<1>5. {Variables(u, w) : w \in Under(u, d)} = {Variables(t, w) : w \in Under(t, d)}
  BY <1>2, <1>3
<1>6. {New(c.map, Variables(u, w)) : w \in Under(u, v)} = {New(c.map, Variables(t, w)) : w \in Under(t, v)}
  BY <1>2, <1>3
<1>7. QED
  BY <1>1, <1>2, <1>4, <1>5, <1>6 DEF IsRestrictedTo

LEMMA AddsKeepsMade ==
  ASSUME NEW t, IsForest(t), NEW u, NEW n, NEW node, Adds(t, u, n, node),
         NEW c, NEW v \in DOMAIN t, NEW d, IsMadeOf(t, c, v, d),
         d # NoVtree /\ node.variable = 0 => d \notin {node.left, node.right}
  PROVE  IsMadeOf(u, c, v, d)
<1>1. Grows(t, u)
  BY AddsKeepsForest
<1>2. Variables(u, v) = Variables(t, v) /\ LeftToRightLeafTraverse(u, v) = LeftToRightLeafTraverse(t, v)
  BY <1>1, GrowthKeepsVariables, GrowthKeepsLeaves
<1>3. CASE d = NoVtree
  <2>1. \/ /\ New(c.map, Variables(t, v)) = {} /\ KeptOf(LeftToRightLeafTraverse(t, v), c.map) = <<>>
        \/ d # NoVtree
    BY DEF IsMadeOf
  <2>2. QED
    BY <1>2, <1>3, <2>1 DEF IsMadeOf
<1>4. CASE d # NoVtree
  <2>1. IsRestrictedTo(t, c, v, d) /\ Variables(t, d) = New(c.map, Variables(t, v)) /\ IsTop(t, d)
    BY <1>4 DEF IsMadeOf
  <2>2. d \in DOMAIN t
    BY <2>1 DEF IsRestrictedTo
  <2>3. IsRestrictedTo(u, c, v, d) /\ Variables(u, d) = Variables(t, d) /\ IsTop(u, d)
    BY <1>1, <1>4, <2>1, <2>2, GrowthKeepsRestrictions, GrowthKeepsVariables, AddsKeepsTop
  <2>4. QED
    BY <1>2, <1>4, <2>1, <2>3 DEF IsMadeOf
<1>5. QED
  BY <1>3, <1>4

-----------------------------------------------------------------------------
\* What the loop makes of a leaf.
LEMMA LeafIsKept ==
  ASSUME NEW t, IsForest(t), NEW n, NEW u, NEW c, IsMap(c.map), c.size \in Nat, c.size <= n,
         DOMAIN t \subseteq Nat,
         NEW v \in DOMAIN t, IsLeaf(t, v), t[v].variable \in DOMAIN c.map,
         Adds(t, u, n, [t[v] EXCEPT !.variable = c.map[t[v].variable]])
  PROVE  IsMadeOf(u, c, v, n)
<1> DEFINE x == t[v].variable
           y == c.map[x]
<1>0. t[v] \in VtreeNode
  BY DEF IsForest, VtreeNode
<1>1. x \in Nat /\ y \in Nat \ {0}
  BY <1>0 DEF IsMap, VtreeNode
<1>2. /\ n \in Nat /\ n \in DOMAIN u /\ v \in DOMAIN u /\ u[v] = t[v]
      /\ u[n] = [t[v] EXCEPT !.variable = y]
  BY DEF Adds
<1>3. u[n].variable = y
  BY <1>0, <1>2 DEF VtreeNode
<1> HIDE DEF x, y
<1>4. IsForest(u) /\ IsTop(u, n)
  BY AddsKeepsForest
<1>5. IsLeaf(u, v) /\ IsLeaf(u, n) /\ u[v].variable = x
  BY <1>1, <1>2, <1>3 DEF IsLeaf, x
<1>6. Under(u, v) = {v} /\ Under(u, n) = {n} /\ Variables(u, v) = {x} /\ Variables(u, n) = {y}
  BY <1>2, <1>3, <1>4, <1>5, UnderLeaf, VariablesOfLeaf
<1>7. LeftToRightLeafTraverse(u, v) = <<x>> /\ LeftToRightLeafTraverse(u, n) = <<y>>
  BY <1>2, <1>3, <1>4, <1>5, TraverseUnfolds
<1>8. x \in DOMAIN c.map /\ y = c.map[x]
  BY DEF x, y
<1>9. KeptOf(<<x>>, c.map) = <<y>>
  BY <1>1, <1>8, KeptOfOne
<1>10. New(c.map, {x}) = {y}
  BY <1>8 DEF New
<1>11. Cardinality(Under(u, n)) = 2 * Len(<<y>>) - 1
  <2>1. Cardinality({n}) = 1
    BY FS_Singleton
  <2>2. Len(<<y>>) = 1
    OBVIOUS
  <2>3. QED
    BY <1>6, <2>1, <2>2
<1>12. {Variables(u, w) : w \in Under(u, n)} = {New(c.map, Variables(u, w)) : w \in Under(u, v)} \ {{}}
  <2>1. {Variables(u, w) : w \in Under(u, n)} = {{y}}
    BY <1>6
  <2>2. {New(c.map, Variables(u, w)) : w \in Under(u, v)} = {{y}}
    BY <1>6, <1>10
  <2>3. QED
    BY <2>1, <2>2
<1>13. IsRestrictedTo(u, c, v, n)
  BY <1>2, <1>6, <1>7, <1>9, <1>11, <1>12 DEF IsRestrictedTo
<1>14. n # NoVtree
  BY <1>2 DEF NoVtree
<1>15. QED
  BY <1>4, <1>6, <1>10, <1>13, <1>14 DEF IsMadeOf

LEMMA LeafIsLeft ==
  ASSUME NEW t, IsForest(t), NEW c, IsMap(c.map), NEW v \in DOMAIN t, IsLeaf(t, v), t[v].variable \notin DOMAIN c.map
  PROVE  IsMadeOf(t, c, v, NoVtree)
<1> DEFINE x == t[v].variable
<1>1. x \in Nat /\ x \notin DOMAIN c.map
  BY DEF IsForest
<1>2. Variables(t, v) = {x} /\ LeftToRightLeafTraverse(t, v) = <<x>>
  BY VariablesOfLeaf, TraverseUnfolds
<1> HIDE DEF x
<1>3. KeptOf(<<x>>, c.map) = <<>> /\ New(c.map, {x}) = {}
  BY <1>1, KeptOfOne DEF New
<1>4. QED
  BY <1>2, <1>3 DEF IsMadeOf

LEMMA NewOfBoth ==
  ASSUME NEW map, NEW xs, NEW ys
  PROVE  New(map, xs \cup ys) = New(map, xs) \cup New(map, ys)
BY DEF New

\* What is kept of an inner node.
KeptOfInner(t, c, v, l, r) ==
  /\ l \in DOMAIN t /\ r \in DOMAIN t
  /\ New(c.map, Variables(t, v)) = New(c.map, Variables(t, l)) \cup New(c.map, Variables(t, r))
  /\ KeptOf(LeftToRightLeafTraverse(t, v), c.map) =
       KeptOf(LeftToRightLeafTraverse(t, l), c.map) \o KeptOf(LeftToRightLeafTraverse(t, r), c.map)
  /\ {New(c.map, Variables(t, w)) : w \in Under(t, v)} =
       {New(c.map, Variables(t, v))} \cup {New(c.map, Variables(t, w)) : w \in Under(t, l)}
         \cup {New(c.map, Variables(t, w)) : w \in Under(t, r)}

LEMMA InnerOf ==
  ASSUME NEW t, IsForest(t), NEW c, IsMap(c.map), NEW v \in DOMAIN t, ~IsLeaf(t, v),
         NEW l, l = t[v].left, NEW r, r = t[v].right
  PROVE  KeptOfInner(t, c, v, l, r)
<1>1. l \in DOMAIN t /\ r \in DOMAIN t
  BY ChildFacts
<1>2. Under(t, v) = {v} \cup Under(t, l) \cup Under(t, r)
  BY UnderInner
<1>3. Variables(t, v) = Variables(t, l) \cup Variables(t, r)
  BY VariablesOfInner
<1>4. /\ LeftToRightLeafTraverse(t, v) = LeftToRightLeafTraverse(t, l) \o LeftToRightLeafTraverse(t, r)
      /\ LeftToRightLeafTraverse(t, l) \in Seq(Nat) /\ LeftToRightLeafTraverse(t, r) \in Seq(Nat)
  BY <1>1, TraverseUnfolds
<1>5. KeptOf(LeftToRightLeafTraverse(t, v), c.map) =
        KeptOf(LeftToRightLeafTraverse(t, l), c.map) \o KeptOf(LeftToRightLeafTraverse(t, r), c.map)
  BY <1>4, KeptOfBoth
<1>6. New(c.map, Variables(t, v)) = New(c.map, Variables(t, l)) \cup New(c.map, Variables(t, r))
  BY <1>3, NewOfBoth
<1>7. {New(c.map, Variables(t, w)) : w \in Under(t, v)} =
        {New(c.map, Variables(t, v))} \cup {New(c.map, Variables(t, w)) : w \in Under(t, l)}
          \cup {New(c.map, Variables(t, w)) : w \in Under(t, r)}
  BY <1>2
<1>8. QED
  BY <1>1, <1>5, <1>6, <1>7, Zenon DEF KeptOfInner

\* A node with what was made of both children is the copy of a node.
LEMMA InnerIsKept ==
  ASSUME NEW t, IsForest(t), NEW n, NEW u, NEW c, IsMap(c.map), c.size \in Nat, c.size <= n,
         DOMAIN t \subseteq Nat,
         NEW v \in DOMAIN t, ~IsLeaf(t, v),
         NEW l, l = t[v].left, NEW r, r = t[v].right,
         NEW dl, dl # NoVtree, IsMadeOf(t, c, l, dl),
         NEW dr, dr # NoVtree, IsMadeOf(t, c, r, dr), dl # dr,
         NEW node \in VtreeNode, node.variable = 0, node.left = dl, node.right = dr,
         DOMAIN u = DOMAIN t \cup {n}, n \in Nat \ DOMAIN t, u[n] = node, \A w \in DOMAIN t : u[w] = t[w]
  PROVE  IsMadeOf(u, c, v, n) /\ Adds(t, u, n, node)
<1>1. l \in DOMAIN t /\ r \in DOMAIN t
  BY ChildFacts
<1>2. /\ IsRestrictedTo(t, c, l, dl) /\ Variables(t, dl) = New(c.map, Variables(t, l)) /\ IsTop(t, dl)
      /\ IsRestrictedTo(t, c, r, dr) /\ Variables(t, dr) = New(c.map, Variables(t, r)) /\ IsTop(t, dr)
  BY DEF IsMadeOf
<1>3. dl \in DOMAIN t /\ dr \in DOMAIN t
  BY <1>2 DEF IsRestrictedTo
<1>4. Adds(t, u, n, node)
  BY <1>2, <1>3 DEF Adds
<1>5. IsForest(u) /\ Grows(t, u) /\ IsTop(u, n)
  BY <1>4, AddsKeepsForest
<1>6. /\ IsRestrictedTo(u, c, l, dl) /\ IsRestrictedTo(u, c, r, dr)
      /\ Variables(u, dl) = Variables(t, dl) /\ Variables(u, dr) = Variables(t, dr)
      /\ Variables(u, l) = Variables(t, l) /\ Variables(u, r) = Variables(t, r)
  BY <1>1, <1>2, <1>3, <1>5, GrowthKeepsRestrictions, GrowthKeepsVariables
<1>7. /\ n \in DOMAIN u /\ ~IsLeaf(u, n) /\ u[n].left = dl /\ u[n].right = dr
      /\ v \in DOMAIN u /\ ~IsLeaf(u, v) /\ u[v].left = l /\ u[v].right = r
  BY DEF IsLeaf
<1>8. /\ l \in DOMAIN u /\ r \in DOMAIN u
      /\ New(c.map, Variables(u, v)) = New(c.map, Variables(u, l)) \cup New(c.map, Variables(u, r))
      /\ KeptOf(LeftToRightLeafTraverse(u, v), c.map) =
           KeptOf(LeftToRightLeafTraverse(u, l), c.map) \o KeptOf(LeftToRightLeafTraverse(u, r), c.map)
      /\ {New(c.map, Variables(u, w)) : w \in Under(u, v)} =
           {New(c.map, Variables(u, v))} \cup {New(c.map, Variables(u, w)) : w \in Under(u, l)}
             \cup {New(c.map, Variables(u, w)) : w \in Under(u, r)}
  <2>1. l = u[v].left /\ r = u[v].right /\ IsForest(u) /\ v \in DOMAIN u /\ ~IsLeaf(u, v)
    BY <1>5, <1>7
  <2>2. QED
    <3>1. KeptOfInner(u, c, v, l, r)
      BY <2>1, InnerOf
    <3>2. QED
      BY <3>1, Zenon DEF KeptOfInner
<1> DEFINE order == KeptOf(LeftToRightLeafTraverse(u, v), c.map)
           orderl == KeptOf(LeftToRightLeafTraverse(u, l), c.map)
           orderr == KeptOf(LeftToRightLeafTraverse(u, r), c.map)
<1>9. orderl \in Seq(Nat) /\ orderr \in Seq(Nat)
  <2>1. LeftToRightLeafTraverse(u, l) \in Seq(Nat) /\ LeftToRightLeafTraverse(u, r) \in Seq(Nat)
    BY <1>5, <1>8, TraverseUnfolds
  <2>2. QED
    BY <2>1, KeptIsASequence
<1>10. order = orderl \o orderr
  BY <1>8
<1>11. Len(order) = Len(orderl) + Len(orderr) /\ Len(orderl) \in Nat /\ Len(orderr) \in Nat
  <2> HIDE DEF order, orderl, orderr
  <2>1. QED
    BY <1>9, <1>10
<1>12. LeftToRightLeafTraverse(u, n) = order
  <2>1. LeftToRightLeafTraverse(u, n) = LeftToRightLeafTraverse(u, dl) \o LeftToRightLeafTraverse(u, dr)
    BY <1>5, <1>7, TraverseUnfolds
  <2>2. LeftToRightLeafTraverse(u, dl) = orderl /\ LeftToRightLeafTraverse(u, dr) = orderr
    BY <1>6 DEF IsRestrictedTo
  <2>3. QED
    BY <1>10, <2>1, <2>2, Zenon
<1>13. /\ Under(u, n) = {n} \cup Under(u, dl) \cup Under(u, dr)
       /\ Under(u, dl) \cap Under(u, dr) = {} /\ n \notin Under(u, dl) /\ n \notin Under(u, dr)
  BY <1>5, <1>7, UnderInner
<1>14. Variables(u, n) = New(c.map, Variables(u, v))
  <2>1. Variables(u, n) = Variables(u, dl) \cup Variables(u, dr)
    BY <1>5, <1>7, VariablesOfInner
  <2>2. QED
    BY <1>2, <1>6, <1>8, <2>1
<1>15. Cardinality(Under(u, n)) = 2 * Len(order) - 1
  <2>0. dl \in DOMAIN u /\ dr \in DOMAIN u
    BY <1>3
  <2>1. /\ IsFiniteSet(Under(u, dl)) /\ IsFiniteSet(Under(u, dr))
        /\ Cardinality(Under(u, dl)) = 2 * Len(orderl) - 1 /\ Cardinality(Under(u, dr)) = 2 * Len(orderr) - 1
    BY <1>5, <1>6, <2>0, UnderIsFinite DEF IsRestrictedTo
  <2> DEFINE both == Under(u, dl) \cup Under(u, dr)
  <2>2. IsFiniteSet(both) /\ Cardinality(both) = Cardinality(Under(u, dl)) + Cardinality(Under(u, dr)) - Cardinality({})
    BY <1>13, <2>1, FS_Union
  <2>3. Cardinality({}) = 0
    BY FS_EmptySet
  <2>4. n \notin both /\ Under(u, n) = both \cup {n}
    BY <1>13
  <2> HIDE DEF both, order, orderl, orderr
  <2>5. Cardinality(both \cup {n}) = Cardinality(both) + 1
    BY <2>2, <2>4, FS_AddElement
  <2>6. Cardinality(both) = (2 * Len(orderl) - 1) + (2 * Len(orderr) - 1)
    BY <1>11, <2>1, <2>2, <2>3
  <2>7. QED
    BY <1>11, <2>4, <2>5, <2>6
<1>16. {Variables(u, w) : w \in Under(u, n)} = {New(c.map, Variables(u, w)) : w \in Under(u, v)} \ {{}}
  <2>1. {Variables(u, w) : w \in Under(u, n)} =
          {Variables(u, n)} \cup {Variables(u, w) : w \in Under(u, dl)} \cup {Variables(u, w) : w \in Under(u, dr)}
    BY <1>13
  <2>2. /\ {Variables(u, w) : w \in Under(u, dl)} = {New(c.map, Variables(u, w)) : w \in Under(u, l)} \ {{}}
        /\ {Variables(u, w) : w \in Under(u, dr)} = {New(c.map, Variables(u, w)) : w \in Under(u, r)} \ {{}}
    BY <1>6 DEF IsRestrictedTo
  <2>3. New(c.map, Variables(u, v)) # {}
    BY <1>5, <1>7, <1>14, SomeVariable
  <2> DEFINE A == {New(c.map, Variables(u, w)) : w \in Under(u, l)}
             B == {New(c.map, Variables(u, w)) : w \in Under(u, r)}
             N == New(c.map, Variables(u, v))
  <2>4. {Variables(u, w) : w \in Under(u, n)} = {N} \cup (A \ {{}}) \cup (B \ {{}})
    BY <1>14, <2>1, <2>2, Zenon
  <2>5. {New(c.map, Variables(u, w)) : w \in Under(u, v)} = {N} \cup A \cup B
    BY <1>8
  <2>6. N # {}
    BY <2>3
  <2> HIDE DEF A, B, N
  <2>7. QED
    BY <2>4, <2>5, <2>6
<1>17. \A w \in Under(u, n) : w >= c.size
  BY <1>6, <1>13 DEF IsRestrictedTo
<1>18. IsRestrictedTo(u, c, v, n)
  BY <1>7, <1>12, <1>15, <1>16, <1>17 DEF IsRestrictedTo
<1>19. n # NoVtree
  BY DEF NoVtree
<1>20. QED
  BY <1>4, <1>5, <1>14, <1>18, <1>19 DEF IsMadeOf

\* Where one side has nothing kept the node is what was made of the other.
LEMMA InnerIsPassed ==
  ASSUME NEW t, IsForest(t), NEW c, IsMap(c.map), NEW v \in DOMAIN t, ~IsLeaf(t, v),
         NEW l, l = t[v].left, NEW r, r = t[v].right,
         NEW dl, IsMadeOf(t, c, l, dl), NEW dr, IsMadeOf(t, c, r, dr), dl = NoVtree \/ dr = NoVtree
  PROVE  IsMadeOf(t, c, v, EitherOne(dl, dr))
<1> DEFINE A == {New(c.map, Variables(t, w)) : w \in Under(t, l)}
           B == {New(c.map, Variables(t, w)) : w \in Under(t, r)}
           Nl == New(c.map, Variables(t, l))
           Nr == New(c.map, Variables(t, r))
           orderl == KeptOf(LeftToRightLeafTraverse(t, l), c.map)
           orderr == KeptOf(LeftToRightLeafTraverse(t, r), c.map)
<1>1. /\ l \in DOMAIN t /\ r \in DOMAIN t
      /\ New(c.map, Variables(t, v)) = Nl \cup Nr
      /\ KeptOf(LeftToRightLeafTraverse(t, v), c.map) = orderl \o orderr
      /\ {New(c.map, Variables(t, w)) : w \in Under(t, v)} = {New(c.map, Variables(t, v))} \cup A \cup B
  <2>1. KeptOfInner(t, c, v, l, r)
    BY InnerOf
  <2>2. QED
    BY <2>1, Zenon DEF KeptOfInner
<1>2. orderl \in Seq(Nat) /\ orderr \in Seq(Nat)
  <2>1. LeftToRightLeafTraverse(t, l) \in Seq(Nat) /\ LeftToRightLeafTraverse(t, r) \in Seq(Nat)
    BY <1>1, TraverseUnfolds
  <2>2. QED
    BY <2>1, KeptIsASequence
<1>3. Nl \in A /\ Nr \in B
  <2>1. l \in Under(t, l) /\ r \in Under(t, r)
    BY <1>1, UnderIsLeast
  <2>2. QED
    BY <2>1
<1>4. (\A x \in A : x \subseteq Nl) /\ (\A x \in B : x \subseteq Nr)
  <2>1. \A w \in Under(t, l) : Variables(t, w) \subseteq Variables(t, l)
    BY <1>1, VariablesUnder
  <2>2. \A w \in Under(t, r) : Variables(t, w) \subseteq Variables(t, r)
    BY <1>1, VariablesUnder
  <2>3. QED
    BY <2>1, <2>2 DEF New
<1>5. /\ \/ dl = NoVtree /\ Nl = {} /\ orderl = <<>>
         \/ dl # NoVtree /\ IsRestrictedTo(t, c, l, dl) /\ Variables(t, dl) = Nl /\ IsTop(t, dl)
      /\ \/ dr = NoVtree /\ Nr = {} /\ orderr = <<>>
         \/ dr # NoVtree /\ IsRestrictedTo(t, c, r, dr) /\ Variables(t, dr) = Nr /\ IsTop(t, dr)
  BY DEF IsMadeOf
<1>6. /\ IsRestrictedTo(t, c, l, dl) => /\ dl \in DOMAIN t /\ LeftToRightLeafTraverse(t, dl) = orderl
                                        /\ {Variables(t, w) : w \in Under(t, dl)} = A \ {{}}
                                        /\ Cardinality(Under(t, dl)) = 2 * Len(orderl) - 1
                                        /\ \A w \in Under(t, dl) : w >= c.size
      /\ IsRestrictedTo(t, c, r, dr) => /\ dr \in DOMAIN t /\ LeftToRightLeafTraverse(t, dr) = orderr
                                        /\ {Variables(t, w) : w \in Under(t, dr)} = B \ {{}}
                                        /\ Cardinality(Under(t, dr)) = 2 * Len(orderr) - 1
                                        /\ \A w \in Under(t, dr) : w >= c.size
  BY Zenon DEF IsRestrictedTo
<1> HIDE DEF A, B, Nl, Nr, orderl, orderr
<1>7. orderl \o <<>> = orderl /\ <<>> \o orderr = orderr /\ <<>> \o <<>> = <<>>
  <2>1. <<>> \in Seq(Nat)
    OBVIOUS
  <2>2. QED
    BY <1>2, <2>1, ConcatEmptySeq
<1>8. CASE dl = NoVtree /\ dr = NoVtree
  <2>1. EitherOne(dl, dr) = NoVtree
    BY <1>8 DEF EitherOne
  <2>2. New(c.map, Variables(t, v)) = {} /\ KeptOf(LeftToRightLeafTraverse(t, v), c.map) = <<>>
    BY <1>1, <1>5, <1>7, <1>8
  <2>3. QED
    BY <2>1, <2>2 DEF IsMadeOf
<1>9. CASE dl = NoVtree /\ dr # NoVtree
  <2>1. EitherOne(dl, dr) = dr
    BY <1>9 DEF EitherOne
  <2>2. New(c.map, Variables(t, v)) = Nr /\ KeptOf(LeftToRightLeafTraverse(t, v), c.map) = orderr
    BY <1>1, <1>5, <1>7, <1>9
  <2>3. {New(c.map, Variables(t, w)) : w \in Under(t, v)} \ {{}} = B \ {{}}
    BY <1>1, <1>3, <1>4, <1>5, <1>9, <2>2
  <2>4. IsRestrictedTo(t, c, v, dr)
    BY <1>5, <1>6, <1>9, <2>2, <2>3 DEF IsRestrictedTo
  <2>5. QED
    BY <1>5, <1>9, <2>1, <2>2, <2>4 DEF IsMadeOf
<1>10. CASE dl # NoVtree /\ dr = NoVtree
  <2>1. EitherOne(dl, dr) = dl
    BY <1>10 DEF EitherOne
  <2>2. New(c.map, Variables(t, v)) = Nl /\ KeptOf(LeftToRightLeafTraverse(t, v), c.map) = orderl
    BY <1>1, <1>5, <1>7, <1>10
  <2>3. {New(c.map, Variables(t, w)) : w \in Under(t, v)} \ {{}} = A \ {{}}
    BY <1>1, <1>3, <1>4, <1>5, <1>10, <2>2
  <2>4. IsRestrictedTo(t, c, v, dl)
    BY <1>5, <1>6, <1>10, <2>2, <2>3 DEF IsRestrictedTo
  <2>5. QED
    BY <1>5, <1>10, <2>1, <2>2, <2>4 DEF IsMadeOf
<1>11. QED
  BY <1>8, <1>9, <1>10

-----------------------------------------------------------------------------
\* The nodes that wait for their parents.
LEMMA WaitingStep ==
  ASSUME NEW t, IsForest(t), NEW root, NEW list, IsSerialization(t, root, list), NEW p \in 1..Len(list),
         NEW v, v = list[p]
  PROVE  /\ v \in DOMAIN t
         /\ VisitedAfter(list, p - 1) = VisitedAfter(list, p) \cup {v} /\ v \notin VisitedAfter(list, p)
         /\ ChildrenOf(t, v) \subseteq WaitingAfter(t, list, p)
         /\ WaitingAfter(t, list, p - 1) = (WaitingAfter(t, list, p) \ ChildrenOf(t, v)) \cup {v}
<1>1. /\ list \in Seq(DOMAIN t) /\ Len(list) \in Nat
      /\ \A j, k \in 1..Len(list) : list[j] = list[k] => j = k
      /\ \A j \in 1..Len(list) :
           \A c \in ChildrenOf(t, list[j]) : \E k \in 1..Len(list) : k > j /\ list[k] = c
      /\ \A k \in 1..Len(list) : list[k] \in DOMAIN t
  <2>1. list \in Seq(DOMAIN t)
    BY DEF IsSerialization
  <2>2. Len(list) \in Nat /\ \A k \in 1..Len(list) : list[k] \in DOMAIN t
    BY <2>1
  <2>3. QED
    BY <2>1, <2>2 DEF IsSerialization
<1> DEFINE After == VisitedAfter(list, p)
<1>2. \A x : x \in After <=> \E k \in 1..Len(list) : k > p /\ list[k] = x
  BY DEF VisitedAfter
<1>3. VisitedAfter(list, p - 1) = After \cup {v}
  <2>1. \A x : x \in VisitedAfter(list, p - 1) <=> \E k \in 1..Len(list) : k > p - 1 /\ list[k] = x
    BY DEF VisitedAfter
  <2>2. \A k \in 1..Len(list) : k > p - 1 <=> k > p \/ k = p
    BY <1>1
  <2>3. QED
    BY <1>2, <2>1, <2>2
<1>4. v \in DOMAIN t /\ v \notin After
  BY <1>1, <1>2
<1>5. After \subseteq DOMAIN t
  BY <1>1, <1>2
<1>6. ChildrenOf(t, v) \subseteq After
  BY <1>1, <1>2
<1>7. ASSUME NEW w \in After \cup {v}, v \in ChildrenOf(t, w)
      PROVE  FALSE
  <2>1. PICK j \in 1..Len(list) : j >= p /\ list[j] = w
    BY <1>1, <1>2, <1>7
  <2>2. PICK k \in 1..Len(list) : k > j /\ list[k] = v
    BY <1>1, <1>7, <2>1
  <2>3. QED
    BY <1>1, <2>1, <2>2
<1>8. \A c \in ChildrenOf(t, v) : \A w \in After : c \notin ChildrenOf(t, w)
  BY <1>4, <1>5 DEF IsForest
<1> HIDE DEF After
<1>9. ChildrenOf(t, v) \subseteq WaitingAfter(t, list, p)
  BY <1>6, <1>8 DEF WaitingAfter, After
<1>10. WaitingAfter(t, list, p - 1) = (WaitingAfter(t, list, p) \ ChildrenOf(t, v)) \cup {v}
  BY <1>3, <1>7 DEF WaitingAfter, After
<1>11. QED
  BY <1>3, <1>4, <1>9, <1>10 DEF After

LEMMA WaitingEnds ==
  ASSUME NEW t, IsForest(t), NEW root, NEW list, IsSerialization(t, root, list)
  PROVE  /\ WaitingAfter(t, list, Len(list)) = {} /\ VisitedAfter(list, Len(list)) = {}
         /\ WaitingAfter(t, list, 0) = {root} /\ VisitedAfter(list, 0) = Range(list) /\ root \in DOMAIN t
<1>1. list \in Seq(DOMAIN t) /\ Len(list) \in Nat
  BY DEF IsSerialization
<1>2. VisitedAfter(list, Len(list)) = {}
  BY <1>1 DEF VisitedAfter
<1>3. VisitedAfter(list, 0) = Range(list) /\ Range(list) \subseteq DOMAIN t
  <2>1. \A x : x \in Range(list) <=> \E k \in 1..Len(list) : x = list[k]
    BY <1>1, ListRange
  <2>2. \A x : x \in VisitedAfter(list, 0) <=> \E k \in 1..Len(list) : k > 0 /\ x = list[k]
    BY DEF VisitedAfter
  <2>3. \A k \in 1..Len(list) : k > 0
    BY <1>1
  <2>4. QED
    BY <1>1, <2>1, <2>2, <2>3, ListRange
<1>4. root \in Range(list) /\ \A v \in Range(list) : v = root \/ \E w \in Range(list) : v \in ChildrenOf(t, w)
  BY SerializationIsLeast
<1>5. PICK v \in Range(list) : \A w \in Range(list) : v \notin ChildrenOf(t, w)
  <2>1. Range(list) \in (SUBSET DOMAIN t) \ {{}}
    BY <1>3, <1>4
  <2>2. QED
    BY <2>1, Zenon DEF IsForest, IsAcyclic
<1>6. v = root
  BY <1>4, <1>5
<1>7. QED
  BY <1>2, <1>3, <1>4, <1>5, <1>6 DEF WaitingAfter

-----------------------------------------------------------------------------
\* The next free address.
LEMMA NewAddressIs ==
  ASSUME NEW n \in Nat, DOMAIN heap = 0..n - 1
  PROVE  NewAddress = n
<1>1. Cardinality(0..n - 1) = n
  BY FS_Interval
<1>2. QED
  BY <1>1 DEF NewAddress

\* The pointers after a call of SetData.
LEMMA DataAfter ==
  ASSUME NEW pointers, SetData(pointers)
  PROVE  /\ \A v : Data(v)' = IF v \in DOMAIN pointers THEN pointers[v] ELSE Data(v)
         /\ \A v \in DOMAIN data' : IF v \in DOMAIN pointers THEN pointers[v] # NoVtree ELSE v \in DOMAIN data
         /\ data' = [v \in DOMAIN data' |-> data'[v]]
<1> DEFINE N(v) == IF v \in DOMAIN pointers THEN pointers[v] ELSE Data(v)
           D == {w \in DOMAIN pointers \cup DOMAIN data : N(w) # NoVtree}
<1>1. data' = [v \in D |-> N(v)]
  BY DEF SetData
<1>2. DOMAIN data' = D /\ \A v \in D : data'[v] = N(v)
  BY <1>1
<1>3. \A v : v \notin D => N(v) = NoVtree
  BY DEF Data
<1>4. \A v : Data(v)' = N(v)
  BY <1>2, <1>3 DEF Data
<1>5. \A v \in DOMAIN data' : IF v \in DOMAIN pointers THEN pointers[v] # NoVtree ELSE v \in DOMAIN data
  BY <1>2
<1>6. data' = [v \in DOMAIN data' |-> data'[v]]
  BY <1>1, <1>2
<1>7. QED
  BY <1>4, <1>5, <1>6

-----------------------------------------------------------------------------
\* What an allocation makes of the nodes.
LEMMA AllocateAdds ==
  ASSUME HeapInv, NEW node \in VtreeNode, heap' = Allocate(node),
         node.variable = 0 => /\ node.left # node.right
                              /\ node.left \in DOMAIN heap /\ IsTop(heap, node.left)
                              /\ node.right \in DOMAIN heap /\ IsTop(heap, node.right)
  PROVE  /\ Adds(heap, heap', NewAddress, node) /\ HeapInv' /\ NewAddress' = NewAddress + 1
         /\ NewAddress \in Nat /\ DOMAIN heap \subseteq Nat /\ NoVtree \notin DOMAIN heap /\ NewAddress # NoVtree
<1>1. PICK n \in Nat : DOMAIN heap = 0..n - 1
  BY DEF HeapInv
<1>2. NewAddress = n
  BY <1>1, NewAddressIs
<1>3. /\ DOMAIN heap' = 0..n /\ heap'[n] = node /\ \A v \in DOMAIN heap : heap'[v] = heap[v]
      /\ n \notin DOMAIN heap /\ DOMAIN heap' = DOMAIN heap \cup {n}
  <2>1. 0..n = 0..n - 1 \cup {n} /\ n \notin 0..n - 1
    BY <1>1
  <2>2. heap' = [v \in DOMAIN heap \cup {n} |-> IF v = n THEN node ELSE heap[v]]
    BY <1>2 DEF Allocate
  <2>3. QED
    BY <1>1, <2>1, <2>2
<1>4. Adds(heap, heap', n, node)
  BY <1>3 DEF Adds
<1>5. IsForest(heap')
  BY <1>4, AddsKeepsForest DEF HeapInv
<1>6. DOMAIN heap' = 0..(n + 1) - 1 /\ n + 1 \in Nat
  BY <1>3
<1>7. HeapInv'
  BY <1>5, <1>6 DEF HeapInv
<1>8. NewAddress' = n + 1
  <2>1. Cardinality(0..(n + 1) - 1) = n + 1
    BY <1>6, FS_Interval
  <2>2. QED
    BY <1>6, <2>1 DEF NewAddress
<1>9. DOMAIN heap \subseteq Nat /\ NoVtree \notin DOMAIN heap /\ n # NoVtree
  BY <1>1 DEF NoVtree
<1>10. QED
  BY <1>2, <1>4, <1>7, <1>8, <1>9

LEMMA ResultsStay ==
  ASSUME HeapInv, ResultsInv, Grows(heap, heap'), results' = results
  PROVE  ResultsInv'
<1>1. \A i \in DOMAIN results :
        LET r == results[i] IN r.call.root \in DOMAIN heap' /\ IsRestrictedTo(heap', r.call, r.call.root, r.new_vtree)
  <2> SUFFICES ASSUME NEW i \in DOMAIN results
               PROVE  LET r == results[i]
                      IN  r.call.root \in DOMAIN heap' /\ IsRestrictedTo(heap', r.call, r.call.root, r.new_vtree)
    OBVIOUS
  <2>1. results[i].call.root \in DOMAIN heap
        /\ IsRestrictedTo(heap, results[i].call, results[i].call.root, results[i].new_vtree)
    BY DEF ResultsInv
  <2>2. QED
    BY <2>1, GrowthKeepsRestrictions, GrowthKeepsNodes
<1>2. QED
  BY <1>1 DEF ResultsInv

LEMMA StaysGrows ==
  ASSUME HeapInv, heap' = heap
  PROVE  HeapInv' /\ Grows(heap, heap') /\ NewAddress' = NewAddress
BY DEF HeapInv, Grows, NewAddress

\* The pointers that a visit sets: that of the node, and those of its children.
IsMove(pointers, new) ==
  /\ DOMAIN pointers = {Node} \cup IF KeepsPointers THEN {} ELSE ChildrenOf(heap, Node)
  /\ \A v \in DOMAIN pointers : pointers[v] = IF v = Node THEN new ELSE NoVtree

\* What a visit of a node has to keep.
LEMMA VisitKeepsCInv ==
  ASSUME CInv, InLoop, NextNode, HeapInv', Grows(heap, heap'), NewAddress <= NewAddress',
         NewAddress \in Nat, NewAddress' \in Nat,
         NEW pointers, NEW new, IsMove(pointers, new), SetData(pointers),
         IsMadeOf(heap', call, Node, new),
         \A v \in WaitingAfter(heap, serialized_vtrees, position) \ ChildrenOf(heap, Node) :
           IsMadeOf(heap', call, v, Data(v)) /\ (new = Data(v) => new = NoVtree)
  PROVE  CInv'
<1> DEFINE list == serialized_vtrees
           waiting == WaitingAfter(heap, list, position)
<1>1. /\ HeapInv /\ ResultsInv /\ CallInv /\ DataInv /\ running /\ position > 0 /\ running'
      /\ position' = position - 1 /\ call' = call /\ list' = list /\ results' = results
  BY DEF CInv, InLoop, NextNode
<1>2. /\ IsForest(heap) /\ IsSerialization(heap, call.root, list) /\ position \in 1..Len(list)
      /\ position' \in 0..Len(list)
  BY <1>1 DEF HeapInv, CallInv
<1>3. ResultsInv'
  BY <1>1, ResultsStay
<1>4. call.root \in DOMAIN heap
  BY <1>2, WaitingEnds
<1>5. CallInv'
  <2>1. IsSerialization(heap', call.root, list)
    BY <1>2, GrowthKeepsSerialization
  <2>2. Variables(heap', call.root) = Variables(heap, call.root)
    BY <1>4, GrowthKeepsVariables
  <2>3. call.size \in Nat /\ call.size <= NewAddress'
    BY <1>1 DEF CallInv
  <2>4. QED
    BY <1>1, <1>2, <2>1, <2>2, <2>3 DEF CallInv
<1> DEFINE v0 == Node
           children == ChildrenOf(heap, Node)
           left == (waiting \ children) \cup {Node}
<1>6. /\ Node \in DOMAIN heap /\ children \subseteq waiting
      /\ VisitedAfter(list, position - 1) = VisitedAfter(list, position) \cup {Node}
      /\ Node \notin VisitedAfter(list, position)
      /\ WaitingAfter(heap, list, position - 1) = left
  BY <1>2, WaitingStep DEF Node
<1>7. waiting \subseteq VisitedAfter(list, position) /\ VisitedAfter(list, position) \subseteq DOMAIN heap
  <2>1. list \in Seq(DOMAIN heap)
    BY <1>2 DEF IsSerialization
  <2>2. \A k \in 1..Len(list) : list[k] \in DOMAIN heap
    BY <2>1
  <2>3. QED
    BY <2>2 DEF WaitingAfter, VisitedAfter
<1>8. WaitingAfter(heap', list', position') = left
  <2>1. VisitedAfter(list, position - 1) \subseteq DOMAIN heap
    BY <1>6, <1>7
  <2>2. \A w \in VisitedAfter(list, position - 1) : ChildrenOf(heap', w) = ChildrenOf(heap, w)
    BY <2>1, GrowthKeepsNodes
  <2>3. WaitingAfter(heap', list, position - 1) = WaitingAfter(heap, list, position - 1)
    BY <2>2 DEF WaitingAfter
  <2>4. QED
    BY <1>1, <1>6, <2>3
<1>9. Node \notin waiting /\ Node \notin children
  BY <1>6, <1>7
<1>10. /\ \A v : Data(v)' = IF v \in DOMAIN pointers THEN pointers[v] ELSE Data(v)
       /\ \A v \in DOMAIN data' : IF v \in DOMAIN pointers THEN pointers[v] # NoVtree ELSE v \in DOMAIN data
  BY DataAfter
<1>11. /\ DOMAIN pointers = {Node} \cup IF KeepsPointers THEN {} ELSE children
       /\ \A v \in DOMAIN pointers : pointers[v] = IF v = Node THEN new ELSE NoVtree
  BY DEF IsMove
<1> HIDE DEF list, waiting, children
<1>12. \A v \in left : Data(v)' = IF v = Node THEN new ELSE Data(v)
  BY <1>9, <1>10, <1>11
<1>13. KeepsPointers' <=> KeepsPointers
  BY <1>1 DEF KeepsPointers
<1>14. \A v \in left : IsMadeOf(heap', call, v, Data(v)')
  <2> SUFFICES ASSUME NEW v \in left PROVE IsMadeOf(heap', call, v, Data(v)')
    OBVIOUS
  <2>1. CASE v = Node
    BY <2>1, <1>12
  <2>2. CASE v # Node
    <3>1. v \in waiting \ children /\ Data(v)' = Data(v)
      BY <2>2, <1>12
    <3>2. QED
      BY <3>1 DEF waiting, list, children
  <2>3. QED
    BY <2>1, <2>2
<1>15. \A v, w \in waiting : v # w /\ Data(v) = Data(w) => Data(v) = NoVtree
  BY <1>1 DEF DataInv, waiting, list
<1>16. \A v \in waiting \ children : new = Data(v) => new = NoVtree
  BY DEF waiting, list, children
<1>17. \A v, w \in left : v # w /\ Data(v)' = Data(w)' => Data(v)' = NoVtree
  <2> SUFFICES ASSUME NEW v \in left, NEW w \in left, v # w, Data(v)' = Data(w)' PROVE Data(v)' = NoVtree
    OBVIOUS
  <2>1. CASE v = Node
    <3>1. w \in waiting \ children /\ Data(v)' = new /\ Data(w)' = Data(w)
      BY <2>1, <1>12
    <3>2. QED
      BY <3>1, <1>16
  <2>2. CASE w = Node
    <3>1. v \in waiting \ children /\ Data(w)' = new /\ Data(v)' = Data(v)
      BY <2>2, <1>12
    <3>2. QED
      BY <3>1, <1>16
  <2>3. CASE v # Node /\ w # Node
    <3>1. v \in waiting /\ w \in waiting /\ Data(w)' = Data(w) /\ Data(v)' = Data(v)
      BY <2>3, <1>12
    <3>2. QED
      BY <3>1, <1>15
  <2>4. QED
    BY <2>1, <2>2, <2>3
<1>18. DOMAIN data' \subseteq IF KeepsPointers THEN VisitedAfter(list, position - 1) ELSE left
  <2> SUFFICES ASSUME NEW v \in DOMAIN data'
               PROVE  v \in IF KeepsPointers THEN VisitedAfter(list, position - 1) ELSE left
    OBVIOUS
  <2>1. DOMAIN data \subseteq IF KeepsPointers THEN VisitedAfter(list, position) ELSE waiting
    BY <1>1 DEF DataInv, waiting, list
  <2>2. CASE v \in DOMAIN pointers
    <3>1. v = Node
      BY <2>2, <1>10, <1>11
    <3>2. QED
      BY <3>1, <1>6
  <2>3. CASE v \notin DOMAIN pointers
    <3>1. v \in DOMAIN data
      BY <2>3, <1>10
    <3>2. CASE KeepsPointers
      BY <3>1, <3>2, <2>1, <1>6
    <3>3. CASE ~KeepsPointers
      BY <3>1, <3>3, <2>1, <2>3, <1>11
    <3>4. QED
      BY <3>2, <3>3
  <2>4. QED
    BY <2>2, <2>3
<1>19. DataInv'
  <2>1. WaitingAfter(heap', serialized_vtrees', position') = left
    BY <1>8 DEF list
  <2>2. VisitedAfter(serialized_vtrees', position') = VisitedAfter(list, position - 1)
    BY <1>1 DEF list
  <2>3. \A v \in left : IsMadeOf(heap', call', v, Data(v)')
    BY <1>14, <1>1
  <2>4. DOMAIN data' \subseteq IF KeepsPointers' THEN VisitedAfter(serialized_vtrees', position') ELSE left
    BY <1>18, <1>13, <2>2
  <2> HIDE DEF left
  <2>5. QED
    BY <2>1, <2>3, <1>17, <2>4 DEF DataInv
<1>20. QED
  BY <1>1, <1>3, <1>5, <1>19 DEF CInv

-----------------------------------------------------------------------------
LEMMA InLoopHas ==
  ASSUME CInv, InLoop
  PROVE  LET waiting == WaitingAfter(heap, serialized_vtrees, position) IN
         /\ HeapInv /\ CallInv /\ DataInv /\ IsForest(heap) /\ Node \in DOMAIN heap /\ NewAddress \in Nat
         /\ DOMAIN heap \subseteq Nat /\ NewAddress \notin DOMAIN heap /\ NewAddress # NoVtree
         /\ waiting \subseteq DOMAIN heap /\ ChildrenOf(heap, Node) \subseteq waiting
         /\ IsMap(call.map) /\ call.size \in Nat /\ call.size <= NewAddress
         /\ \A v \in waiting : /\ IsMadeOf(heap, call, v, Data(v))
                               /\ Data(v) = NoVtree \/ (Data(v) \in DOMAIN heap /\ IsTop(heap, Data(v)))
<1> DEFINE waiting == WaitingAfter(heap, serialized_vtrees, position)
<1>1. HeapInv /\ CallInv /\ DataInv /\ position > 0
  BY DEF CInv, InLoop
<1>2. IsForest(heap) /\ IsSerialization(heap, call.root, serialized_vtrees) /\ position \in 1..Len(serialized_vtrees)
      /\ IsMap(call.map) /\ call.size \in Nat /\ call.size <= NewAddress
  BY <1>1 DEF HeapInv, CallInv
<1>3. Node \in DOMAIN heap /\ ChildrenOf(heap, Node) \subseteq waiting
  BY <1>2, WaitingStep DEF Node
<1>4. PICK n \in Nat : DOMAIN heap = 0..n - 1
  BY <1>1 DEF HeapInv
<1>5. NewAddress = n
  BY <1>4, NewAddressIs
<1>6. NewAddress \in Nat /\ DOMAIN heap \subseteq Nat /\ NewAddress \notin DOMAIN heap /\ NewAddress # NoVtree
  BY <1>4, <1>5 DEF NoVtree
<1>7. waiting \subseteq DOMAIN heap
  <2>1. serialized_vtrees \in Seq(DOMAIN heap)
    BY <1>2 DEF IsSerialization
  <2>2. \A k \in 1..Len(serialized_vtrees) : serialized_vtrees[k] \in DOMAIN heap
    BY <2>1
  <2>3. QED
    BY <2>2 DEF WaitingAfter, VisitedAfter
<1>8. \A v \in waiting : /\ IsMadeOf(heap, call, v, Data(v))
                         /\ Data(v) = NoVtree \/ (Data(v) \in DOMAIN heap /\ IsTop(heap, Data(v)))
  <2> SUFFICES ASSUME NEW v \in waiting
               PROVE  /\ IsMadeOf(heap, call, v, Data(v))
                      /\ Data(v) = NoVtree \/ (Data(v) \in DOMAIN heap /\ IsTop(heap, Data(v)))
    OBVIOUS
  <2>1. IsMadeOf(heap, call, v, Data(v))
    BY <1>1 DEF DataInv
  <2>2. QED
    BY <2>1 DEF IsMadeOf, IsRestrictedTo
<1>9. QED
  BY <1>1, <1>2, <1>3, <1>6, <1>7, <1>8

\* A leaf is copied with its new variable, or left out.
LEMMA VisitLeafStep ==
  ASSUME CInv, VisitLeaf
  PROVE  CInv'
<1> DEFINE waiting == WaitingAfter(heap, serialized_vtrees, position)
           x == heap[Node].variable
<1>1. InLoop /\ IsLeaf(heap, Node) /\ NextNode
  BY DEF VisitLeaf
<1>2. /\ HeapInv /\ CallInv /\ DataInv /\ IsForest(heap) /\ Node \in DOMAIN heap /\ NewAddress \in Nat
      /\ DOMAIN heap \subseteq Nat /\ NewAddress \notin DOMAIN heap /\ NewAddress # NoVtree
      /\ waiting \subseteq DOMAIN heap /\ ChildrenOf(heap, Node) \subseteq waiting
      /\ IsMap(call.map) /\ call.size \in Nat /\ call.size <= NewAddress
  BY <1>1, InLoopHas
<1>3. \A v \in waiting : /\ IsMadeOf(heap, call, v, Data(v))
                         /\ Data(v) = NoVtree \/ (Data(v) \in DOMAIN heap /\ IsTop(heap, Data(v)))
  BY <1>1, InLoopHas
<1>4. ChildrenOf(heap, Node) = {}
  BY <1>1 DEF ChildrenOf
<1>5. CASE x \in DOMAIN call.map /\ heap' = Allocate([heap[Node] EXCEPT !.variable = call.map[x]])
           /\ SetData([v \in {Node} |-> NewAddress])
  <2> DEFINE node == [heap[Node] EXCEPT !.variable = call.map[x]]
             pointers == [v \in {Node} |-> NewAddress]
  <2>1. heap[Node] \in VtreeNode
    BY <1>2 DEF IsForest, VtreeNode
  <2>2. node \in VtreeNode /\ node.variable # 0
    BY <1>2, <1>5, <2>1 DEF IsMap, VtreeNode
  <2>3. Adds(heap, heap', NewAddress, node) /\ HeapInv' /\ NewAddress' = NewAddress + 1
    BY <1>2, <1>5, <2>2, AllocateAdds
  <2>4. Grows(heap, heap')
    BY <1>2, <2>3, AddsKeepsForest
  <2>5. IsMadeOf(heap', call, Node, NewAddress)
    BY <1>1, <1>2, <1>5, <2>3, LeafIsKept
  <2>6. IsMove(pointers, NewAddress)
    BY <1>4 DEF IsMove
  <2>7. \A v \in waiting : IsMadeOf(heap', call, v, Data(v)) /\ (NewAddress = Data(v) => NewAddress = NoVtree)
    <3> SUFFICES ASSUME NEW v \in waiting
                 PROVE  IsMadeOf(heap', call, v, Data(v)) /\ (NewAddress = Data(v) => NewAddress = NoVtree)
      OBVIOUS
    <3>1. v \in DOMAIN heap /\ IsMadeOf(heap, call, v, Data(v)) /\ (Data(v) = NoVtree \/ Data(v) \in DOMAIN heap)
      BY <1>2, <1>3
    <3> HIDE DEF node
    <3>2. Data(v) # NoVtree /\ node.variable = 0 => Data(v) \notin {node.left, node.right}
      BY <2>2
    <3>4. IsMadeOf(heap', call, v, Data(v))
      BY <1>2, <2>3, <3>1, <3>2, AddsKeepsMade
    <3>5. QED
      BY <1>2, <3>1, <3>4
  <2>8. NewAddress <= NewAddress' /\ NewAddress' \in Nat
    BY <1>2, <2>3
  <2>9. SetData(pointers)
    BY <1>5
  <2> HIDE DEF node, pointers
  <2>10. QED
    BY <1>1, <1>2, <2>3, <2>4, <2>5, <2>6, <2>7, <2>8, <2>9, VisitKeepsCInv
<1>6. CASE x \notin DOMAIN call.map /\ SetData([v \in {Node} |-> NoVtree]) /\ heap' = heap
  <2> DEFINE pointers == [v \in {Node} |-> NoVtree]
  <2>1. HeapInv' /\ Grows(heap, heap') /\ NewAddress' = NewAddress
    BY <1>2, <1>6, StaysGrows
  <2>2. IsMadeOf(heap', call, Node, NoVtree)
    BY <1>1, <1>2, <1>6, LeafIsLeft
  <2>3. IsMove(pointers, NoVtree)
    BY <1>4 DEF IsMove
  <2>4. \A v \in waiting : IsMadeOf(heap', call, v, Data(v))
    BY <1>3, <1>6
  <2>5. NewAddress <= NewAddress' /\ NewAddress' \in Nat
    BY <1>2, <2>1
  <2>6. SetData(pointers)
    BY <1>6
  <2> HIDE DEF pointers
  <2>7. QED
    BY <1>1, <1>2, <2>1, <2>2, <2>3, <2>4, <2>5, <2>6, VisitKeepsCInv
<1>7. QED
  BY <1>5, <1>6 DEF VisitLeaf

-----------------------------------------------------------------------------
\* If all variables are kept, something is made of each node.
LEMMA NothingIsLost ==
  ASSUME CInv, InLoop, call.op # "ProjectVtree", NEW v \in WaitingAfter(heap, serialized_vtrees, position)
  PROVE  Data(v) # NoVtree
<1> DEFINE list == serialized_vtrees
<1>1. /\ CallInv /\ IsForest(heap) /\ IsSerialization(heap, call.root, list) /\ v \in DOMAIN heap
      /\ IsMadeOf(heap, call, v, Data(v))
  BY InLoopHas DEF CallInv
<1>2. call.root \in DOMAIN heap
  BY <1>1, WaitingEnds
<1>3. list \in Seq(DOMAIN heap)
  BY <1>1 DEF IsSerialization
<1>4. PICK k \in 1..Len(list) : v = list[k]
  BY DEF WaitingAfter, VisitedAfter
<1>5. v \in Range(list)
  BY <1>3, <1>4, ListRange
<1>6. /\ call.root \in Under(heap, call.root)
      /\ \A w \in Under(heap, call.root) : ChildrenOf(heap, w) \subseteq Under(heap, call.root)
  BY <1>1, <1>2, UnderIsLeast DEF IsClosed
<1>7. Range(list) \subseteq Under(heap, call.root)
  BY <1>1, <1>6, SerializationIsLeast
<1>8. Variables(heap, v) \subseteq Variables(heap, call.root) /\ Variables(heap, v) # {}
  BY <1>1, <1>2, <1>5, <1>7, VariablesUnder, SomeVariable
<1>9. Variables(heap, call.root) \subseteq DOMAIN call.map
  BY <1>1 DEF CallInv
<1>10. PICK x \in Variables(heap, v) : x \in DOMAIN call.map
  BY <1>8, <1>9
<1>11. call.map[x] \in New(call.map, Variables(heap, v))
  BY <1>10 DEF New
<1>12. QED
  BY <1>1, <1>11 DEF IsMadeOf

\* An inner node is copied, with what was made of its children, or is not there between the two.
LEMMA VisitInnerStep ==
  ASSUME CInv, VisitInner
  PROVE  CInv'
<1> DEFINE waiting == WaitingAfter(heap, serialized_vtrees, position)
<1>0. PICK l, r : l = heap[Node].left /\ r = heap[Node].right
  OBVIOUS
<1>01. PICK dl, dr : dl = Data(l) /\ dr = Data(r)
  OBVIOUS
<1>02. PICK n : n = NewAddress
  OBVIOUS
<1> DEFINE Moved(new) == [v \in {Node} \cup IF KeepsPointers THEN {} ELSE {l, r} |->
                            IF v = Node THEN new ELSE NoVtree]
<1>1. /\ InLoop /\ ~IsLeaf(heap, Node) /\ NextNode
      /\ \/ /\ call.op # "ProjectVtree" \/ (dl # NoVtree /\ dr # NoVtree)
            /\ heap' = Allocate([heap[Node] EXCEPT !.left = dl, !.right = dr])
            /\ SetData(Moved(n))
         \/ /\ call.op = "ProjectVtree" /\ ~(dl # NoVtree /\ dr # NoVtree)
            /\ SetData(Moved(EitherOne(dl, dr)))
            /\ heap' = heap
  BY <1>0, <1>01, <1>02 DEF VisitInner
<1>2. /\ HeapInv /\ CallInv /\ DataInv /\ IsForest(heap) /\ Node \in DOMAIN heap /\ n \in Nat
      /\ DOMAIN heap \subseteq Nat /\ n \notin DOMAIN heap /\ n # NoVtree
      /\ waiting \subseteq DOMAIN heap /\ ChildrenOf(heap, Node) \subseteq waiting
      /\ IsMap(call.map) /\ call.size \in Nat /\ call.size <= n
  BY <1>1, <1>02, InLoopHas
<1>3. \A v \in waiting : /\ IsMadeOf(heap, call, v, Data(v))
                         /\ Data(v) = NoVtree \/ (Data(v) \in DOMAIN heap /\ IsTop(heap, Data(v)))
  BY <1>1, InLoopHas
<1>4. ChildrenOf(heap, Node) = {l, r} /\ l # r /\ l \in waiting /\ r \in waiting
  BY <1>0, <1>1, <1>2, ChildFacts
<1>5. \A v, w \in waiting : v # w /\ Data(v) = Data(w) => Data(v) = NoVtree
  BY <1>2 DEF DataInv
<1>6. /\ IsMadeOf(heap, call, l, dl) /\ (dl = NoVtree \/ (dl \in DOMAIN heap /\ IsTop(heap, dl)))
      /\ IsMadeOf(heap, call, r, dr) /\ (dr = NoVtree \/ (dr \in DOMAIN heap /\ IsTop(heap, dr)))
      /\ dl = dr => dl = NoVtree
  BY <1>01, <1>3, <1>4, <1>5
<1>7. \A v \in waiting \ ChildrenOf(heap, Node) :
        (dl = Data(v) => dl = NoVtree) /\ (dr = Data(v) => dr = NoVtree)
  BY <1>01, <1>4, <1>5
<1>8. \A new : IsMove(Moved(new), new)
  BY <1>4 DEF IsMove
<1>9. CASE /\ call.op # "ProjectVtree" \/ (dl # NoVtree /\ dr # NoVtree)
           /\ heap' = Allocate([heap[Node] EXCEPT !.left = dl, !.right = dr])
           /\ SetData(Moved(n))
  <2>1. dl # NoVtree /\ dr # NoVtree
    BY <1>01, <1>1, <1>4, <1>9, NothingIsLost
  <2>2. dl \in DOMAIN heap /\ dr \in DOMAIN heap /\ IsTop(heap, dl) /\ IsTop(heap, dr) /\ dl # dr
        /\ dl \in Int /\ dr \in Int
    BY <1>2, <1>6, <2>1
  <2>3. PICK node : node = [heap[Node] EXCEPT !.left = dl, !.right = dr]
    OBVIOUS
  <2>4. heap[Node] \in VtreeNode /\ heap[Node].variable = 0
    BY <1>1, <1>2 DEF IsForest, VtreeNode, IsLeaf
  <2>5. node \in VtreeNode /\ node.variable = 0 /\ node.left = dl /\ node.right = dr
    BY <2>2, <2>3, <2>4 DEF VtreeNode
  <2>6. Adds(heap, heap', n, node) /\ HeapInv' /\ NewAddress' = NewAddress + 1
    <3>1. heap' = Allocate(node)
      BY <1>9, <2>3
    <3>2. QED
      BY <1>02, <1>2, <2>2, <2>5, <3>1, AllocateAdds
  <2>7. Grows(heap, heap')
    BY <1>2, <2>6, AddsKeepsForest
  <2>8. /\ DOMAIN heap' = DOMAIN heap \cup {n} /\ n \in Nat \ DOMAIN heap /\ heap'[n] = node
        /\ \A w \in DOMAIN heap : heap'[w] = heap[w]
    BY <2>6 DEF Adds
  <2>9. IsMadeOf(heap', call, Node, n)
    BY <1>0, <1>1, <1>2, <1>6, <2>1, <2>2, <2>5, <2>8, InnerIsKept
  <2>10. \A v \in waiting \ ChildrenOf(heap, Node) : IsMadeOf(heap', call, v, Data(v)) /\ (n = Data(v) => n = NoVtree)
    <3> SUFFICES ASSUME NEW v \in waiting \ ChildrenOf(heap, Node)
                 PROVE  IsMadeOf(heap', call, v, Data(v)) /\ (n = Data(v) => n = NoVtree)
      OBVIOUS
    <3>1. v \in DOMAIN heap /\ IsMadeOf(heap, call, v, Data(v)) /\ (Data(v) = NoVtree \/ Data(v) \in DOMAIN heap)
      BY <1>2, <1>3
    <3>2. Data(v) # NoVtree /\ node.variable = 0 => Data(v) \notin {node.left, node.right}
      BY <1>7, <2>1, <2>5
    <3>3. IsMadeOf(heap', call, v, Data(v))
      BY <1>2, <2>6, <3>1, <3>2, AddsKeepsMade
    <3>4. QED
      BY <1>2, <3>1, <3>3
  <2>11. NewAddress \in Nat /\ NewAddress <= NewAddress' /\ NewAddress' \in Nat
    BY <1>02, <1>2, <2>6
  <2>12. IsMove(Moved(n), n) /\ SetData(Moved(n))
    BY <1>8, <1>9
  <2> HIDE DEF Moved
  <2>13. QED
    BY <1>1, <2>6, <2>7, <2>9, <2>10, <2>11, <2>12, VisitKeepsCInv
<1>10. CASE /\ call.op = "ProjectVtree" /\ ~(dl # NoVtree /\ dr # NoVtree)
            /\ SetData(Moved(EitherOne(dl, dr)))
            /\ heap' = heap
  <2>1. PICK new : new = EitherOne(dl, dr)
    OBVIOUS
  <2>2. HeapInv' /\ Grows(heap, heap') /\ NewAddress' = NewAddress
    BY <1>2, <1>10, StaysGrows
  <2>3. IsMadeOf(heap', call, Node, new)
    BY <1>0, <1>1, <1>2, <1>6, <1>10, <2>1, InnerIsPassed
  <2>4. \A v \in waiting \ ChildrenOf(heap, Node) : IsMadeOf(heap', call, v, Data(v)) /\ (new = Data(v) => new = NoVtree)
    BY <1>3, <1>7, <1>10, <2>1 DEF EitherOne
  <2>5. NewAddress \in Nat /\ NewAddress <= NewAddress' /\ NewAddress' \in Nat
    BY <1>02, <1>2, <2>2
  <2>6. IsMove(Moved(new), new) /\ SetData(Moved(new))
    BY <1>8, <1>10, <2>1
  <2> HIDE DEF Moved
  <2>7. QED
    BY <1>1, <2>2, <2>3, <2>4, <2>5, <2>6, VisitKeepsCInv
<1>11. QED
  BY <1>1, <1>9, <1>10

-----------------------------------------------------------------------------
\* A call finds no pointer set, and no node visited.
LEMMA BeginStep ==
  ASSUME CInv, NEW op, NEW root \in DOMAIN heap, NEW map, IsMap(map), Begin(op, root, map),
         Variables(heap, root) \cap DOMAIN map # {},
         op # "ProjectVtree" => Variables(heap, root) \subseteq DOMAIN map
  PROVE  CInv'
<1>1. /\ HeapInv /\ ResultsInv /\ data = <<>> /\ heap' = heap /\ data' = data /\ results' = results /\ running'
      /\ call' = [op |-> op, root |-> root, map |-> map, size |-> NewAddress]
      /\ serialized_vtrees' = SerializeVtree(heap, root) /\ position' = Len(serialized_vtrees')
  BY DEF CInv, Begin, NewAddress
<1>2. IsForest(heap) /\ HeapInv' /\ Grows(heap, heap') /\ NewAddress' = NewAddress
  BY <1>1, StaysGrows DEF HeapInv
<1>3. ResultsInv'
  BY <1>1, <1>2, ResultsStay
<1>4. IsSerialization(heap, root, serialized_vtrees')
  BY <1>1, <1>2, SerializeVtreeIs
<1>5. position' \in 0..Len(serialized_vtrees')
  <2>1. serialized_vtrees' \in Seq(DOMAIN heap)
    BY <1>4 DEF IsSerialization
  <2>2. QED
    BY <1>1, <2>1
<1>6. NewAddress \in Nat
  <2>1. PICK n \in Nat : DOMAIN heap = 0..n - 1
    BY <1>1 DEF HeapInv
  <2>2. QED
    BY <2>1, NewAddressIs
<1>7. CallInv'
  <2>1. call'.op = op /\ call'.root = root /\ call'.map = map /\ call'.size = NewAddress
    BY <1>1
  <2>2. call'.size \in Nat /\ call'.size <= NewAddress'
    BY <1>2, <1>6, <2>1
  <2>3. Variables(heap', call'.root) \cap DOMAIN call'.map # {}
    BY <1>1, <2>1
  <2>4. call'.op # "ProjectVtree" => Variables(heap', call'.root) \subseteq DOMAIN call'.map
    BY <1>1, <2>1
  <2>5. IsSerialization(heap', call'.root, serialized_vtrees') /\ IsMap(call'.map)
    BY <1>1, <1>4, <2>1
  <2>6. QED
    BY <1>5, <2>2, <2>3, <2>4, <2>5 DEF CallInv
<1>8. DataInv'
  <2>1. WaitingAfter(heap', serialized_vtrees', position') = {}
    BY <1>1, <1>2, <1>4, WaitingEnds
  <2>2. DOMAIN data' = {}
    BY <1>1
  <2>3. QED
    BY <2>1, <2>2 DEF DataInv
<1>9. QED
  BY <1>1, <1>2, <1>3, <1>7, <1>8 DEF CInv

\* The variables of a vtree are positive.
LEMMA SameIsMap ==
  ASSUME NEW t, IsForest(t), NEW root \in DOMAIN t, NEW xs, xs \subseteq Variables(t, root)
  PROVE  IsMap(Same(xs)) /\ DOMAIN Same(xs) = xs
<1>1. \A x \in Variables(t, root) : x \in Nat \ {0}
  <2> SUFFICES ASSUME NEW x \in Variables(t, root) PROVE x \in Nat \ {0}
    OBVIOUS
  <2>1. PICK w \in Under(t, root) : IsLeaf(t, w) /\ x = t[w].variable
    BY VariablesAre
  <2>2. w \in DOMAIN t
    BY UnderIsLeast
  <2>3. QED
    BY <2>1, <2>2 DEF IsForest, IsLeaf
<1>2. QED
  BY <1>1 DEF IsMap, Same

LEMMA BeginsStep ==
  ASSUME CInv, CopyVtreeAsIs \/ CopyVtreeWithMap \/ ProjectVtree \/ GetPsddManagerFromSddVtree
  PROVE  CInv'
<1>1. IsForest(heap)
  BY DEF CInv, HeapInv
<1>2. CASE CopyVtreeAsIs
  <2>1. PICK root \in DOMAIN heap : Begin("CopyVtree", root, Same(Variables(heap, root)))
    BY <1>2 DEF CopyVtreeAsIs
  <2>2. PICK map : map = Same(Variables(heap, root))
    OBVIOUS
  <2>3. IsMap(map) /\ DOMAIN map = Variables(heap, root) /\ Variables(heap, root) # {}
    BY <1>1, <2>2, SameIsMap, SomeVariable
  <2>4. QED
    BY <2>1, <2>2, <2>3, BeginStep
<1>3. CASE ProjectVtree
  <2>1. PICK root \in DOMAIN heap : \E variables \in (SUBSET Variables(heap, root)) \ {{}} :
                                      Begin("ProjectVtree", root, Same(variables))
    BY <1>3 DEF ProjectVtree
  <2>2. PICK variables \in (SUBSET Variables(heap, root)) \ {{}} : Begin("ProjectVtree", root, Same(variables))
    BY <2>1
  <2>3. PICK map : map = Same(variables)
    OBVIOUS
  <2>4. IsMap(map) /\ DOMAIN map = variables /\ Variables(heap, root) \cap variables # {}
    BY <1>1, <2>2, <2>3, SameIsMap
  <2>5. QED
    BY <2>2, <2>3, <2>4, BeginStep
<1>4. ASSUME NEW op, BeginWithMap(op)
      PROVE  CInv'
  <2>1. PICK root \in DOMAIN heap, map \in Maps : Variables(heap, root) \subseteq DOMAIN map /\ Begin(op, root, map)
    BY <1>4 DEF BeginWithMap
  <2>2. IsMap(map)
    <3>1. \A x \in DOMAIN map : map[x] \in Range(map)
      BY DEF Range
    <3>2. Range(map) \subseteq Nat \ {0}
      BY VtreeCopiesAssumption
    <3>3. QED
      BY <3>1, <3>2 DEF IsMap
  <2>3. Variables(heap, root) # {}
    BY <1>1, SomeVariable
  <2>4. Variables(heap, root) \cap DOMAIN map # {}
    BY <2>1, <2>3
  <2>5. QED
    BY <2>1, <2>2, <2>4, BeginStep
<1>5. QED
  BY <1>2, <1>3, <1>4 DEF CopyVtreeWithMap, GetPsddManagerFromSddVtree

\* At the end the root is what waits, and it is the last with a pointer or all nodes are cleared.
LEMMA ReturnStep ==
  ASSUME CInv, Return
  PROVE  CInv'
<1> DEFINE list == serialized_vtrees
           new == Data(call.root)
           r == [call |-> call, new_vtree |-> new]
           pointers == [v \in IF KeepsPointers THEN Range(list) ELSE {call.root} |-> NoVtree]
<1>1. /\ HeapInv /\ ResultsInv /\ CallInv /\ DataInv /\ position = 0 /\ ~running' /\ heap' = heap
      /\ results' = Append(results, r) /\ SetData(pointers)
  BY DEF CInv, Return
<1>2. IsForest(heap) /\ IsSerialization(heap, call.root, list) /\ HeapInv'
  BY <1>1, StaysGrows DEF HeapInv, CallInv
<1>3. /\ WaitingAfter(heap, list, 0) = {call.root} /\ VisitedAfter(list, 0) = Range(list) /\ call.root \in DOMAIN heap
  BY <1>2, WaitingEnds
<1>4. IsRestrictedTo(heap, call, call.root, new)
  <2>1. IsMadeOf(heap, call, call.root, new)
    BY <1>1, <1>3 DEF DataInv
  <2>2. PICK x \in Variables(heap, call.root) : x \in DOMAIN call.map
    BY <1>1 DEF CallInv
  <2>3. call.map[x] \in New(call.map, Variables(heap, call.root))
    BY <2>2 DEF New
  <2>4. QED
    BY <2>1, <2>3 DEF IsMadeOf
<1>5. ResultsInv'
  <2>1. PICK S : results \in Seq(S)
    BY <1>1 DEF ResultsInv
  <2>2. PICK rr : rr = r
    OBVIOUS
  <2>3. rr.call.root \in DOMAIN heap' /\ IsRestrictedTo(heap', rr.call, rr.call.root, rr.new_vtree)
    BY <1>1, <1>3, <1>4, <2>2
  <2>4. results \in Seq(S \cup {rr})
    BY <2>1
  <2>5. results' = Append(results, rr) /\ results' \in Seq(S \cup {rr})
    BY <1>1, <2>2, <2>4
  <2>6. DOMAIN results' = 1..Len(results) + 1 /\ DOMAIN results = 1..Len(results) /\ Len(results) \in Nat
        /\ \A i \in DOMAIN results' : results'[i] = IF i = Len(results) + 1 THEN rr ELSE results[i]
    BY <2>4, <2>5
  <2>7. \A i \in DOMAIN results :
           results[i].call.root \in DOMAIN heap' /\ IsRestrictedTo(heap', results[i].call, results[i].call.root, results[i].new_vtree)
    BY <1>1 DEF ResultsInv
  <2>8. ASSUME NEW i \in DOMAIN results'
        PROVE  /\ results'[i].call.root \in DOMAIN heap'
               /\ IsRestrictedTo(heap', results'[i].call, results'[i].call.root, results'[i].new_vtree)
    <3>1. CASE i = Len(results) + 1
      <4>1. results'[i] = rr
        BY <2>6, <3>1
      <4>2. QED
        BY <4>1, <2>3
    <3>2. CASE i # Len(results) + 1
      <4>1. i \in DOMAIN results /\ results'[i] = results[i]
        BY <2>6, <3>2
      <4>2. QED
        BY <4>1, <2>7
    <3>3. QED
      BY <3>1, <3>2
  <2>9. QED
    BY <2>5, <2>8 DEF ResultsInv
<1>6. data' = <<>>
  <2>1. DOMAIN data \subseteq DOMAIN pointers
    <3>1. DOMAIN data \subseteq IF KeepsPointers THEN VisitedAfter(list, position) ELSE WaitingAfter(heap, list, position)
      BY <1>1 DEF DataInv
    <3>2. QED
      BY <1>1, <1>3, <3>1
  <2>2. \A v \in DOMAIN pointers : pointers[v] = NoVtree
    OBVIOUS
  <2> HIDE DEF pointers
  <2>3. DOMAIN data' = {} /\ data' = [v \in DOMAIN data' |-> data'[v]]
    BY <1>1, <2>1, <2>2, DataAfter
  <2>4. QED
    BY <2>3
<1>7. QED
  BY <1>1, <1>2, <1>5, <1>6 DEF CInv

-----------------------------------------------------------------------------
\* What holds between calls and during each of them, for all vtrees, maps and any number of calls.
THEOREM CopiesInvariant == Spec => []CInv
<1>1. ASSUME Init
      PROVE  CInv
  <2>1. heap \in Originals /\ data = <<>> /\ ~running /\ results = <<>>
    BY <1>1 DEF Init
  <2>2. IsFilled(heap) /\ IsForest(heap)
    BY <2>1, VtreeCopiesAssumption
  <2>3. HeapInv
    <3>1. PICK n : n = Cardinality(DOMAIN heap)
      OBVIOUS
    <3>2. n \in Nat
      BY <2>2, <3>1, FS_CardinalityType DEF IsForest
    <3>3. DOMAIN heap = 0..n - 1
      BY <2>2, <3>1 DEF IsFilled
    <3>4. QED
      BY <2>2, <3>2, <3>3 DEF HeapInv
  <2>4. ResultsInv
    <3>1. results \in Seq({}) /\ DOMAIN results = {}
      BY <2>1
    <3>2. QED
      BY <3>1 DEF ResultsInv
  <2>5. QED
    BY <2>1, <2>3, <2>4 DEF CInv
<1>2. ASSUME CInv, [Next]_vars
      PROVE  CInv'
  <2>1. CASE CopyVtreeAsIs \/ CopyVtreeWithMap \/ ProjectVtree \/ GetPsddManagerFromSddVtree
    BY <1>2, <2>1, BeginsStep
  <2>2. CASE VisitLeaf
    BY <1>2, <2>2, VisitLeafStep
  <2>3. CASE VisitInner
    BY <1>2, <2>3, VisitInnerStep
  <2>4. CASE Return
    BY <1>2, <2>4, ReturnStep
  <2>5. CASE UNCHANGED vars
    BY <1>2, <2>5 DEF vars, CInv, HeapInv, CallInv, DataInv, ResultsInv, NewAddress, Data, KeepsPointers
  <2>6. QED
    BY <1>2, <2>1, <2>2, <2>3, <2>4, <2>5 DEF Next, Ended
<1>3. QED
  BY <1>1, <1>2, PTL DEF Spec

\* Each vtree that CopyVtree, ProjectVtree and GetPsddManagerFromSddVtree returned is the restriction
\* of the given one to the variables kept, with new nodes only, and no pointer is left in any node.
THEOREM CopiesRestrict == Spec => []CopiesAreRestrictions
<1>1. CInv => CopiesAreRestrictions
  BY DEF CInv, ResultsInv, CopiesAreRestrictions
<1>2. QED
  BY <1>1, CopiesInvariant, PTL

=============================================================================
