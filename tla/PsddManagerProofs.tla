-------------------------- MODULE PsddManagerProofs --------------------------
(***************************************************************************)
(* What the operations of PsddManager keep, for any vtrees and any program *)
(* of a client, as long as the assertions of the code hold: all nodes      *)
(* under a result have the flag of the call, and no scratch word is left.  *)
(*                                                                         *)
(* A node "is of a flag" if it is in a set of nodes that has the children  *)
(* of all its nodes, and the flag on each.  The manager only adds nodes,   *)
(* so that a node of a flag stays one; GetUniqueNode compares flags, so    *)
(* that what it finds for a node whose children are of the flag is of the  *)
(* flag as well.  From there on up: the true nodes, the nodes that         *)
(* NormalizePsddNode adds above a node, the elements that are conformed    *)
(* for a decision node, and the maps, words, stacks and caches in which a  *)
(* call keeps what it has made.  FlagInvariant says this of every local of *)
(* every loop; one lemma for each action shows that it is kept.            *)
(***************************************************************************)
EXTENDS PsddManager, FiniteSetTheorems, SequenceTheorems, WellFoundedInduction, TLAPS

\* The least-number principle for a set.
Less == {ss \in Nat \X Nat : ss[1] < ss[2]}

LEMMA LeastOf ==
  ASSUME NEW T \in SUBSET Nat, T # {}
  PROVE  \E x \in T : \A y \in T : x <= y
<1>1. IsWellFoundedOn(Less, Nat)
  BY NatLessThanWellFounded DEF OpToRel, Less
<1>2. \E x \in T : \A y \in T : ~ (<<y, x>> \in Less)
  BY <1>1, WFMin
<1>3. \A x, y \in T : <<y, x>> \notin Less => x <= y
  BY DEF Less
<1>4. QED
  BY <1>2, <1>3

\* What the search keeps when the nodes at the places up to i were visited:
\* each node but the first is there for its parent, and children are later.
IsVisited(t, root, list, i) ==
  /\ list \in Seq(DOMAIN t) /\ Len(list) >= 1 /\ list[1] = root
  /\ \A j, k \in 1..Len(list) : list[j] = list[k] => j = k
  /\ \A k \in 1..Len(list) : k > 1 =>
       \E j \in 1..Len(list) : j < k /\ j <= i /\ list[k] \in ChildrenOf(t, list[j])
  /\ \A j \in 1..Len(list) : j <= i =>
       \A c \in ChildrenOf(t, list[j]) : \E k \in 1..Len(list) : k > j /\ list[k] = c

VisitAt(t, list, i) == IF i > Len(list) \/ IsLeaf(t, list[i]) THEN list
                       ELSE list \o <<t[list[i]].left, t[list[i]].right>>

\* The root of the search is no child of a node found.
LEMMA RootIsNoChild ==
  ASSUME NEW t, IsForest(t), NEW root, NEW list, NEW i \in Nat, IsVisited(t, root, list, i),
         NEW j \in 1..Len(list)
  PROVE  root \notin ChildrenOf(t, list[j])
<1> DEFINE S == {list[k] : k \in 1..Len(list)}
<1>1. list \in Seq(DOMAIN t) /\ Len(list) \in Nat /\ Len(list) >= 1 /\ list[1] = root /\ \A k \in 1..Len(list) : list[k] \in DOMAIN t
  BY DEF IsVisited
<1>2. S \in (SUBSET DOMAIN t) \ {{}}
  <2>1. list[1] \in S
    BY <1>1
  <2>2. S \subseteq DOMAIN t
    BY <1>1
  <2>3. QED
    BY <2>1, <2>2
<1>3. PICK v \in S : \A w \in S : v \notin ChildrenOf(t, w)
  BY <1>2, Zenon DEF IsForest, IsAcyclic
<1>4. PICK k \in 1..Len(list) : v = list[k]
  BY <1>3
<1>5. ~ (k > 1)
  BY <1>3, <1>4 DEF IsVisited
<1>6. v = root
  BY <1>1, <1>4, <1>5
<1>7. list[j] \in S
  OBVIOUS
<1>8. QED
  BY <1>3, <1>6, <1>7

\* A visit adds the children, which are new: their only parent is visited once.
LEMMA VisitStep ==
  ASSUME NEW t, IsForest(t), NEW root \in DOMAIN t, NEW list, NEW i \in Nat \ {0}, IsVisited(t, root, list, i - 1)
  PROVE  IsVisited(t, root, VisitAt(t, list, i), i)
<1>1. /\ list \in Seq(DOMAIN t) /\ Len(list) \in Nat /\ Len(list) >= 1 /\ list[1] = root
      /\ \A k \in 1..Len(list) : list[k] \in DOMAIN t
      /\ \A j, k \in 1..Len(list) : list[j] = list[k] => j = k
      /\ \A k \in 1..Len(list) : k > 1 =>
           \E j \in 1..Len(list) : j < k /\ j <= i - 1 /\ list[k] \in ChildrenOf(t, list[j])
      /\ \A j \in 1..Len(list) : j <= i - 1 =>
           \A c \in ChildrenOf(t, list[j]) : \E k \in 1..Len(list) : k > j /\ list[k] = c
  BY DEF IsVisited
<1>2. CASE i > Len(list) \/ IsLeaf(t, list[i])
  <2>1. VisitAt(t, list, i) = list
    BY <1>2 DEF VisitAt
  <2>2. \A k \in 1..Len(list) : k > 1 =>
           \E j \in 1..Len(list) : j < k /\ j <= i /\ list[k] \in ChildrenOf(t, list[j])
    BY <1>1
  <2>3. \A j \in 1..Len(list) : j <= i =>
           \A c \in ChildrenOf(t, list[j]) : \E k \in 1..Len(list) : k > j /\ list[k] = c
    <3>1. ASSUME NEW j \in 1..Len(list), j <= i
          PROVE  j <= i - 1 \/ ChildrenOf(t, list[j]) = {}
      BY <1>2, <3>1 DEF ChildrenOf
    <3>2. QED
      BY <1>1, <3>1
  <2>4. QED
    BY <1>1, <2>1, <2>2, <2>3 DEF IsVisited
<1>3. CASE ~ (i > Len(list) \/ IsLeaf(t, list[i]))
  <2> DEFINE n == Len(list)
             p == list[i]
             l == t[p].left
             r == t[p].right
             new == list \o <<l, r>>
  <2>1. VisitAt(t, list, i) = new
    BY <1>3 DEF VisitAt
  <2>2. i \in 1..n /\ p \in DOMAIN t /\ ~IsLeaf(t, p)
    BY <1>1, <1>3
  <2>3. ChildrenOf(t, p) = {l, r} /\ l # r /\ l \in DOMAIN t /\ r \in DOMAIN t
    BY <2>2 DEF ChildrenOf, IsForest
  <2>4. /\ new \in Seq(DOMAIN t) /\ Len(new) = n + 2
        /\ \A k \in 1..n : new[k] = list[k]
        /\ new[n + 1] = l /\ new[n + 2] = r
    BY <1>1, <2>3
  <2>5. \A k \in 1..n : list[k] \notin {l, r}
    <3> SUFFICES ASSUME NEW k \in 1..n, list[k] \in {l, r}
                 PROVE  FALSE
      OBVIOUS
    <3>1. list[k] \in ChildrenOf(t, p)
      BY <2>3
    <3>2. k > 1
      BY <1>1, <2>2, <3>1, RootIsNoChild
    <3>3. PICK j \in 1..n : j < k /\ j <= i - 1 /\ list[k] \in ChildrenOf(t, list[j])
      BY <1>1, <3>2
    <3>4. list[j] # p
      BY <1>1, <2>2, <3>3
    <3>5. QED
      BY <1>1, <2>2, <3>1, <3>3, <3>4 DEF IsForest
  <2>6. \A j, k \in 1..Len(new) : new[j] = new[k] => j = k
    <3>1. \A k \in 1..n + 2 : k \in 1..n \/ k = n + 1 \/ k = n + 2
      BY <1>1
    <3>2. ASSUME NEW j \in 1..n + 2, NEW k \in 1..n + 2, new[j] = new[k]
          PROVE  j = k
      <4>1. CASE j \in 1..n /\ k \in 1..n
        BY <1>1, <2>4, <3>2, <4>1
      <4>2. CASE j \in 1..n /\ k \notin 1..n
        BY <2>4, <2>5, <3>1, <3>2, <4>2
      <4>3. CASE j \notin 1..n /\ k \in 1..n
        BY <2>4, <2>5, <3>1, <3>2, <4>3
      <4>4. CASE j \notin 1..n /\ k \notin 1..n
        BY <2>3, <2>4, <3>1, <3>2, <4>4
      <4>5. QED
        BY <4>1, <4>2, <4>3, <4>4
    <3>3. QED
      BY <2>4, <3>2
  <2>7. \A k \in 1..Len(new) : k > 1 =>
           \E j \in 1..Len(new) : j < k /\ j <= i /\ new[k] \in ChildrenOf(t, new[j])
    <3> SUFFICES ASSUME NEW k \in 1..n + 2, k > 1
                 PROVE  \E j \in 1..n + 2 : j < k /\ j <= i /\ new[k] \in ChildrenOf(t, new[j])
      BY <2>4
    <3>1. CASE k \in 1..n
      <4>1. PICK j \in 1..n : j < k /\ j <= i - 1 /\ list[k] \in ChildrenOf(t, list[j])
        BY <1>1, <3>1
      <4>2. j \in 1..n + 2 /\ j < k /\ j <= i /\ new[k] \in ChildrenOf(t, new[j])
        BY <1>1, <2>4, <3>1, <4>1
      <4>3. QED
        BY <4>2
    <3>2. CASE k \notin 1..n
      <4>1. new[k] \in {l, r}
        BY <1>1, <2>4, <3>2
      <4>2. i \in 1..n + 2 /\ i < k /\ i <= i /\ new[k] \in ChildrenOf(t, new[i])
        BY <1>1, <2>2, <2>3, <2>4, <3>2, <4>1
      <4>3. QED
        BY <4>2
    <3>3. QED
      BY <3>1, <3>2
  <2>8. \A j \in 1..Len(new) : j <= i =>
           \A c \in ChildrenOf(t, new[j]) : \E k \in 1..Len(new) : k > j /\ new[k] = c
    <3> SUFFICES ASSUME NEW j \in 1..n + 2, j <= i, NEW c \in ChildrenOf(t, new[j])
                 PROVE  \E k \in 1..n + 2 : k > j /\ new[k] = c
      BY <2>4
    <3>1. j \in 1..n /\ new[j] = list[j]
      BY <1>1, <2>2, <2>4
    <3>2. CASE j = i
      <4>1. c \in {l, r}
        BY <2>3, <3>1, <3>2
      <4>2. n + 1 \in 1..n + 2 /\ n + 2 \in 1..n + 2 /\ n + 1 > j /\ n + 2 > j
        BY <1>1, <3>1
      <4>3. QED
        BY <2>4, <4>1, <4>2
    <3>3. CASE j # i
      <4>1. c \in ChildrenOf(t, list[j]) /\ j <= i - 1
        BY <1>1, <3>1, <3>3
      <4>2. PICK k \in 1..n : k > j /\ list[k] = c
        BY <1>1, <3>1, <4>1
      <4>3. k \in 1..n + 2 /\ new[k] = c
        BY <1>1, <2>4, <4>2
      <4>4. QED
        BY <4>2, <4>3
    <3>4. QED
      BY <3>2, <3>3
  <2>9. Len(new) >= 1 /\ new[1] = root
    BY <1>1, <2>4
  <2> HIDE DEF n, p, l, r, new
  <2>10. QED
    BY <2>1, <2>4, <2>6, <2>7, <2>8, <2>9 DEF IsVisited
<1>4. QED
  BY <1>2, <1>3

\* What holds of the first value and is kept by each step holds of each value.
LEMMA AllSteps ==
  ASSUME NEW n \in Nat, NEW S, S \subseteq 0..n, 0 \in S, \A i \in 1..n : i - 1 \in S => i \in S
  PROVE  0..n \subseteq S
<1> DEFINE T == (0..n) \ S
<1>1. SUFFICES ASSUME T # {} PROVE FALSE
  OBVIOUS
<1>2. PICK x \in T : \A y \in T : x <= y
  <2>1. T \in SUBSET Nat
    OBVIOUS
  <2> HIDE DEF T
  <2>2. QED
    BY <1>1, <2>1, LeastOf
<1>3. x \in 1..n /\ x - 1 \in 0..n
  BY <1>2
<1>4. x - 1 \notin T
  BY <1>2, <1>3
<1>5. QED
  BY <1>2, <1>3, <1>4

-----------------------------------------------------------------------------
\* A list of all nodes under the root, each once, parents first.
IsSerialization(t, root, list) ==
  /\ list \in Seq(DOMAIN t) /\ Len(list) >= 1 /\ list[1] = root
  /\ \A j, k \in 1..Len(list) : list[j] = list[k] => j = k
  /\ \A k \in 1..Len(list) : k > 1 => \E j \in 1..Len(list) : j < k /\ list[k] \in ChildrenOf(t, list[j])
  /\ \A j \in 1..Len(list) :
       \A c \in ChildrenOf(t, list[j]) : \E k \in 1..Len(list) : k > j /\ list[k] = c

VisitsRun(t, root, g, n) ==
  /\ \A i \in 0..n : g[i] = IF i = 0 THEN <<root>> ELSE VisitAt(t, g[i - 1], i)
  /\ SerializeVtree(t, root) = g[n]

\* The loop of SerializeVtree, one visit at a time.
LEMMA VisitsUnfold ==
  ASSUME NEW t, NEW root, NEW n \in Nat, n = Cardinality(DOMAIN t)
  PROVE  \E g : VisitsRun(t, root, g, n)
<1> DEFINE Step(x, i) == VisitAt(t, x, i)
           RunsTo(g, k) == /\ g = [i \in 0..n |-> g[i]] /\ g[0] = <<root>>
                           /\ \A i \in 1..k : g[i] = Step(g[i - 1], i)
           S == {k \in 0..n : \E g : RunsTo(g, k)}
<1> HIDE DEF Step
<1>1. 0 \in S
  <2> DEFINE g == [i \in 0..n |-> <<root>>]
  <2>1. RunsTo(g, 0)
    OBVIOUS
  <2> HIDE DEF g, RunsTo
  <2>2. QED
    BY <2>1
<1>2. ASSUME NEW k \in 1..n, k - 1 \in S
      PROVE  k \in S
  <2>1. PICK g : RunsTo(g, k - 1)
    BY <1>2
  <2> DEFINE more == [i \in 0..n |-> IF i = k THEN Step(g[k - 1], k) ELSE g[i]]
  <2>2. more = [i \in 0..n |-> more[i]] /\ more[0] = <<root>>
    BY <2>1
  <2>3. ASSUME NEW i \in 1..k
        PROVE  more[i] = Step(more[i - 1], i)
    <3>1. i \in 0..n /\ i - 1 \in 0..n /\ i - 1 # k /\ (i = k \/ i \in 1..k - 1)
      BY <1>2
    <3>2. more[i - 1] = g[i - 1] /\ more[i] = IF i = k THEN Step(g[k - 1], k) ELSE g[i]
      BY <3>1
    <3> HIDE DEF more
    <3>3. QED
      BY <2>1, <3>1, <3>2
  <2> HIDE DEF more
  <2>4. RunsTo(more, k)
    BY <2>2, <2>3
  <2> HIDE DEF RunsTo
  <2>5. QED
    BY <1>2, <2>4
<1>3. PICK g : RunsTo(g, n)
  <2>1. S \subseteq 0..n /\ \A k \in 1..n : k - 1 \in S => k \in S
    BY <1>2
  <2> HIDE DEF S
  <2>2. 0..n \subseteq S
    BY <1>1, <2>1, AllSteps
  <2>3. n \in S
    BY <2>2
  <2> HIDE DEF RunsTo
  <2>4. QED
    BY <2>3 DEF S
<1> DEFINE F(h) == [i \in 0..n |-> IF i = 0 THEN <<root>> ELSE Step(h[i - 1], i)]
<1>4. g = F(g)
  <2>1. \A i \in 0..n : i = 0 \/ i \in 1..n
    OBVIOUS
  <2>2. \A i \in 0..n : g[i] = IF i = 0 THEN <<root>> ELSE Step(g[i - 1], i)
    BY <1>3, <2>1
  <2>3. QED
    BY <1>3, <2>2
<1>5. \E h : h = F(h)
  BY <1>4
<1> DEFINE run == CHOOSE h : h = F(h)
<1>6. run = F(run)
  BY <1>5, Zenon
<1>7. SerializeVtree(t, root) = run[n]
  BY Zenon DEF SerializeVtree, VisitAt, Step
<1> HIDE DEF run
<1>8. \A i \in 0..n : run[i] = IF i = 0 THEN <<root>> ELSE Step(run[i - 1], i)
  BY <1>6
<1>9. VisitsRun(t, root, run, n)
  BY <1>7, <1>8 DEF VisitsRun, Step
<1>10. QED
  BY <1>9

\* SerializeVtree lists each node under the root once, parents first.
THEOREM SerializeVtreeIs ==
  ASSUME NEW t, IsForest(t), NEW root \in DOMAIN t
  PROVE  IsSerialization(t, root, SerializeVtree(t, root))
<1>1. PICK n \in Nat : n = Cardinality(DOMAIN t)
  BY FS_CardinalityType DEF IsForest
<1>2. PICK f : VisitsRun(t, root, f, n)
  BY <1>1, VisitsUnfold
<1>3. /\ \A i \in 0..n : f[i] = IF i = 0 THEN <<root>> ELSE VisitAt(t, f[i - 1], i)
      /\ SerializeVtree(t, root) = f[n]
  BY <1>2 DEF VisitsRun
<1> DEFINE S == {i \in 0..n : IsVisited(t, root, f[i], i)}
<1>4. 0 \in S
  <2>1. f[0] = <<root>>
    BY <1>3
  <2>2. <<root>> \in Seq(DOMAIN t) /\ Len(<<root>>) = 1 /\ <<root>>[1] = root
    OBVIOUS
  <2> DEFINE one == <<root>>
  <2>3. one \in Seq(DOMAIN t) /\ Len(one) = 1 /\ one[1] = root
    BY <2>2
  <2> HIDE DEF one
  <2>4. IsVisited(t, root, one, 0)
    BY <2>3 DEF IsVisited
  <2>5. QED
    BY <2>1, <2>4 DEF one
<1>5. \A i \in 1..n : i - 1 \in S => i \in S
  <2> SUFFICES ASSUME NEW i \in 1..n, i - 1 \in S PROVE i \in S
    OBVIOUS
  <2>1. i \in Nat \ {0} /\ i \in 0..n /\ i # 0
    OBVIOUS
  <2>2. f[i] = VisitAt(t, f[i - 1], i)
    BY <1>3, <2>1
  <2>3. IsVisited(t, root, f[i - 1], i - 1)
    OBVIOUS
  <2>4. IsVisited(t, root, f[i], i)
    BY <2>1, <2>2, <2>3, VisitStep
  <2>5. QED
    BY <2>1, <2>4
<1>6. n \in S
  <2>1. S \subseteq 0..n
    OBVIOUS
  <2> HIDE DEF S
  <2>2. QED
    <3>1. 0..n \subseteq S
      BY <1>4, <1>5, <2>1, AllSteps
    <3>2. QED
      BY <3>1
<1>7. IsVisited(t, root, f[n], n)
  BY <1>6
<1> DEFINE list == f[n]
<1>8. /\ list \in Seq(DOMAIN t) /\ Len(list) >= 1 /\ list[1] = root
      /\ \A j, k \in 1..Len(list) : list[j] = list[k] => j = k
      /\ \A k \in 1..Len(list) : k > 1 =>
           \E j \in 1..Len(list) : j < k /\ j <= n /\ list[k] \in ChildrenOf(t, list[j])
      /\ \A j \in 1..Len(list) : j <= n =>
           \A c \in ChildrenOf(t, list[j]) : \E k \in 1..Len(list) : k > j /\ list[k] = c
  BY <1>7 DEF IsVisited
<1> HIDE DEF list
<1>9. Len(list) <= n
  <2>1. Len(list) \in Nat /\ list \in [1..Len(list) -> DOMAIN t]
    BY <1>8
  <2>2. list \in Injection(1..Len(list), DOMAIN t)
    BY <1>8, <2>1 DEF Injection, IsInjective
  <2>3. IsFiniteSet(DOMAIN t)
    BY DEF IsForest
  <2>4. Cardinality(1..Len(list)) <= Cardinality(DOMAIN t)
    BY <2>2, <2>3, FS_Injection
  <2>5. Cardinality(1..Len(list)) = Len(list)
    BY <1>8, <2>1, FS_Interval
  <2>6. QED
    BY <1>1, <2>4, <2>5
<1>10. \A j \in 1..Len(list) : j <= n
  BY <1>1, <1>8, <1>9
<1>11. IsSerialization(t, root, list)
  BY <1>8, <1>10 DEF IsSerialization
<1>12. QED
  BY <1>3, <1>11 DEF list
LEMMA ListRange ==
  ASSUME NEW t, NEW list \in Seq(DOMAIN t)
  PROVE  /\ Len(list) \in Nat /\ DOMAIN list = 1..Len(list)
         /\ \A v : v \in Range(list) <=> \E k \in 1..Len(list) : v = list[k]
         /\ Range(list) \subseteq DOMAIN t
<1>1. Len(list) \in Nat /\ DOMAIN list = 1..Len(list) /\ \A k \in 1..Len(list) : list[k] \in DOMAIN t
  OBVIOUS
<1>2. QED
  BY <1>1, Zenon DEF Range

-----------------------------------------------------------------------------
\* A list, of whatever it is.
IsList(s) == \E S : s \in Seq(S)

LEMMA ListIs ==
  ASSUME NEW s, IsList(s)
  PROVE  /\ Len(s) \in Nat /\ DOMAIN s = 1..Len(s) /\ s = [i \in 1..Len(s) |-> s[i]]
         /\ \A x : x \in Range(s) <=> \E i \in 1..Len(s) : x = s[i]
<1>1. PICK S : s \in Seq(S)
  BY DEF IsList
<1>2. Len(s) \in Nat /\ DOMAIN s = 1..Len(s) /\ s = [i \in 1..Len(s) |-> s[i]]
  BY <1>1
<1>3. \A x : x \in Range(s) <=> \E i \in 1..Len(s) : x = s[i]
  BY <1>2, Zenon DEF Range
<1>4. QED
  BY <1>2, <1>3

LEMMA FunctionIsList ==
  ASSUME NEW n \in Nat, NEW s, DOMAIN s = 1..n, s = [i \in 1..n |-> s[i]]
  PROVE  IsList(s) /\ Len(s) = n
<1> DEFINE S == {s[i] : i \in 1..n}
<1>1. s \in [1..n -> S]
  <2>1. \A i \in 1..n : s[i] \in S
    OBVIOUS
  <2> HIDE DEF S
  <2>2. [i \in 1..n |-> s[i]] \in [1..n -> S]
    BY <2>1
  <2>3. QED
    BY <2>2
<1> HIDE DEF S
<1>2. s \in Seq(S)
  BY <1>1, SeqDef
<1>3. Len(s) = n
  BY <1>1, <1>2
<1>4. QED
  BY <1>2, <1>3 DEF IsList

LEMMA AppendIsList ==
  ASSUME NEW s, IsList(s), NEW x
  PROVE  /\ IsList(Append(s, x)) /\ Len(Append(s, x)) = Len(s) + 1 /\ Append(s, x)[Len(s) + 1] = x
         /\ DOMAIN Append(s, x) = 1..Len(s) + 1
         /\ \A i \in DOMAIN s : Append(s, x)[i] = s[i]
<1>1. PICK S : s \in Seq(S)
  BY DEF IsList
<1>2. s \in Seq(S \cup {x}) /\ x \in S \cup {x}
  BY <1>1
<1>3. Append(s, x) \in Seq(S \cup {x})
  BY <1>2
<1>4. QED
  BY <1>2, <1>3 DEF IsList

IsLonger(s, x, n, more) ==
  IsList(more) /\ Len(more) = n + 1 /\ more[n + 1] = x /\ DOMAIN more = 1..n + 1 /\ \A i \in 1..n : more[i] = s[i]
LEMMA AppendedIs ==
  ASSUME NEW s, IsList(s), NEW x, NEW n, n = Len(s), NEW more, more = Append(s, x)
  PROVE  IsLonger(s, x, n, more)
<1>1. \A i \in 1..n : i \in DOMAIN s
  BY ListIs
<1>2. QED
  BY <1>1, AppendIsList DEF IsLonger

-----------------------------------------------------------------------------
\* Nodes are only added.
GrowsTo(ns, more) == DOMAIN ns \subseteq DOMAIN more /\ \A a \in DOMAIN ns : more[a] = ns[a]

\* The children of a node are all in a set, and so are those of all nodes of a set that is whole.
HasChildrenIn(c, S) ==
  c.type = "decision" =>
    IsList(c.elements) /\ \A i \in DOMAIN c.elements : c.elements[i].prime \in S /\ c.elements[i].sub \in S
IsWhole(ns, S) == S \subseteq DOMAIN ns /\ \A a \in S : HasChildrenIn(ns[a], S)

\* A node has a flag, and so have all nodes under it.
IsOfFlag(ns, f, a) == \E S : a \in S /\ IsWhole(ns, S) /\ \A b \in S : ns[b].flag_index = f

AreNodes(ns) ==
  /\ IsList(ns) /\ IsWhole(ns, DOMAIN ns)
  /\ \A a \in DOMAIN ns : ns[a].type \in {"literal", "top", "decision"}

LEMMA GrowthIsTransitive ==
  ASSUME NEW ns, NEW more, NEW most, GrowsTo(ns, more), GrowsTo(more, most)
  PROVE  GrowsTo(ns, most)
BY DEF GrowsTo

LEMMA ChildrenInMore ==
  ASSUME NEW c, NEW S, NEW R, S \subseteq R, HasChildrenIn(c, S)
  PROVE  HasChildrenIn(c, R)
BY DEF HasChildrenIn

\* A node that has the flag with all under it has it still when there are more nodes.
LEMMA FlagStays ==
  ASSUME NEW ns, NEW more, GrowsTo(ns, more), NEW f, NEW a, IsOfFlag(ns, f, a)
  PROVE  IsOfFlag(more, f, a)
<1>1. PICK S : a \in S /\ IsWhole(ns, S) /\ \A b \in S : ns[b].flag_index = f
  BY DEF IsOfFlag
<1>2. S \subseteq DOMAIN ns /\ \A b \in S : HasChildrenIn(ns[b], S)
  BY <1>1 DEF IsWhole
<1>3. S \subseteq DOMAIN more /\ \A b \in S : more[b] = ns[b]
  BY <1>2 DEF GrowsTo
<1>4. IsWhole(more, S)
  BY <1>2, <1>3 DEF IsWhole
<1>5. \A b \in S : more[b].flag_index = f
  BY <1>1, <1>3
<1>6. QED
  BY <1>1, <1>4, <1>5 DEF IsOfFlag

\* Such a node has children that are such nodes.
LEMMA FlagHas ==
  ASSUME NEW ns, NEW f, NEW a, IsOfFlag(ns, f, a)
  PROVE  a \in DOMAIN ns /\ ns[a].flag_index = f /\ HasChildrenIn(ns[a], {b \in DOMAIN ns : IsOfFlag(ns, f, b)})
<1>1. PICK S : a \in S /\ IsWhole(ns, S) /\ \A b \in S : ns[b].flag_index = f
  BY DEF IsOfFlag
<1>2. S \subseteq DOMAIN ns /\ HasChildrenIn(ns[a], S)
  BY <1>1 DEF IsWhole
<1>3. S \subseteq {b \in DOMAIN ns : IsOfFlag(ns, f, b)}
  BY <1>1, <1>2 DEF IsOfFlag
<1>4. HasChildrenIn(ns[a], {b \in DOMAIN ns : IsOfFlag(ns, f, b)})
  BY <1>2, <1>3, ChildrenInMore
<1>5. QED
  BY <1>1, <1>2, <1>4

\* A node that has the flag, and whose children have it with all under them.
LEMMA FlagOf ==
  ASSUME NEW ns, NEW f, NEW a \in DOMAIN ns, ns[a].flag_index = f,
         HasChildrenIn(ns[a], {b \in DOMAIN ns : IsOfFlag(ns, f, b)})
  PROVE  IsOfFlag(ns, f, a)
<1> DEFINE F == {b \in DOMAIN ns : IsOfFlag(ns, f, b)}
           S == F \cup {a}
<1>1. \A b \in F : ns[b].flag_index = f /\ HasChildrenIn(ns[b], F)
  BY FlagHas
<1>2. HasChildrenIn(ns[a], F)
  OBVIOUS
<1>3. F \subseteq DOMAIN ns
  OBVIOUS
<1> HIDE DEF F
<1>4. \A b \in S : ns[b].flag_index = f /\ HasChildrenIn(ns[b], F)
  BY <1>1, <1>2
<1>5. F \subseteq S /\ a \in S /\ S \subseteq DOMAIN ns
  BY <1>3
<1> HIDE DEF S
<1>6. \A b \in S : HasChildrenIn(ns[b], S)
  BY <1>4, <1>5, ChildrenInMore
<1>7. IsWhole(ns, S)
  BY <1>5, <1>6 DEF IsWhole
<1>8. QED
  BY <1>4, <1>5, <1>7 DEF IsOfFlag

-----------------------------------------------------------------------------
\* SortedByPrime permutes the elements: the places of any two differ.
IsBeforeIn(es, j, i) == es[j].prime < es[i].prime \/ (es[j].prime = es[i].prime /\ j < i)
PlaceIn(es, i) == 1 + Cardinality({j \in DOMAIN es : IsBeforeIn(es, j, i)})

LEMMA PlacesDiffer ==
  ASSUME NEW es, NEW n \in Nat, DOMAIN es = 1..n, \A i \in 1..n : es[i].prime \in Int,
         NEW i \in 1..n, NEW j \in 1..n, i # j
  PROVE  PlaceIn(es, i) # PlaceIn(es, j) /\ PlaceIn(es, i) \in 1..n
<1> DEFINE B(k) == {m \in DOMAIN es : IsBeforeIn(es, m, k)}
<1>1. ASSUME NEW k \in 1..n
      PROVE  B(k) \subseteq 1..n /\ k \notin B(k) /\ IsFiniteSet(B(k)) /\ Cardinality(B(k)) \in 0..n - 1
  <2>1. B(k) \in SUBSET ((1..n) \ {k}) /\ k \notin B(k)
    BY DEF IsBeforeIn
  <2>2. IsFiniteSet(1..n) /\ Cardinality(1..n) = n
    BY FS_Interval
  <2>3. IsFiniteSet((1..n) \ {k}) /\ Cardinality((1..n) \ {k}) = n - 1
    BY <2>2, FS_RemoveElement
  <2> HIDE DEF B
  <2>4. IsFiniteSet(B(k)) /\ Cardinality(B(k)) <= n - 1
    BY <2>1, <2>3, FS_Subset
  <2>5. Cardinality(B(k)) \in Nat
    BY <2>4, FS_CardinalityType
  <2>6. QED
    BY <2>1, <2>4, <2>5
<1>2. ASSUME NEW k \in 1..n, NEW m \in 1..n, IsBeforeIn(es, m, k)
      PROVE  Cardinality(B(m)) < Cardinality(B(k))
  <2>1. B(m) \subseteq B(k)
    BY <1>2 DEF IsBeforeIn
  <2>2. m \in B(k)
    BY <1>2
  <2>3. m \notin B(m) /\ IsFiniteSet(B(k)) /\ IsFiniteSet(B(m))
    BY <1>1
  <2> HIDE DEF B
  <2>4. B(m) \in SUBSET B(k) /\ B(m) # B(k)
    BY <2>1, <2>2, <2>3
  <2>5. QED
    BY <2>3, <2>4, FS_Subset, FS_CardinalityType
<1>3. IsBeforeIn(es, i, j) \/ IsBeforeIn(es, j, i)
  BY DEF IsBeforeIn
<1>4. PlaceIn(es, i) = 1 + Cardinality(B(i)) /\ PlaceIn(es, j) = 1 + Cardinality(B(j))
  BY DEF PlaceIn
<1>5. Cardinality(B(i)) \in 0..n - 1 /\ Cardinality(B(j)) \in 0..n - 1
  BY <1>1
<1>6. Cardinality(B(i)) # Cardinality(B(j))
  <2> HIDE DEF B
  <2>1. CASE IsBeforeIn(es, i, j)
    BY <1>2, <1>5, <2>1
  <2>2. CASE IsBeforeIn(es, j, i)
    BY <1>2, <1>5, <2>2
  <2>3. QED
    BY <1>3, <2>1, <2>2
<1> HIDE DEF B
<1>7. QED
  BY <1>4, <1>5, <1>6

LEMMA PlacesAreAll ==
  ASSUME NEW es, NEW n \in Nat, DOMAIN es = 1..n, \A i \in 1..n : es[i].prime \in Int, NEW k \in 1..n
  PROVE  \E i \in 1..n : PlaceIn(es, i) = k
<1> DEFINE f == [i \in 1..n |-> PlaceIn(es, i)]
<1>1. \A i \in 1..n : PlaceIn(es, i) \in 1..n
  <2> SUFFICES ASSUME NEW i \in 1..n PROVE PlaceIn(es, i) \in 1..n
    OBVIOUS
  <2>1. CASE \E j \in 1..n : i # j
    BY <2>1, PlacesDiffer
  <2>2. CASE ~ \E j \in 1..n : i # j
    <3>1. {j \in DOMAIN es : IsBeforeIn(es, j, i)} = {}
      BY <2>2 DEF IsBeforeIn
    <3>2. Cardinality({j \in DOMAIN es : IsBeforeIn(es, j, i)}) = 0
      BY <3>1, FS_EmptySet
    <3>3. QED
      BY <3>2 DEF PlaceIn
  <2>3. QED
    BY <2>1, <2>2
<1>2. f \in Injection(1..n, 1..n)
  <2>1. f \in [1..n -> 1..n]
    BY <1>1
  <2>2. \A i, j \in 1..n : f[i] = f[j] => i = j
    BY PlacesDiffer
  <2> HIDE DEF f
  <2>3. QED
    BY <2>1, <2>2 DEF Injection, IsInjective
<1>3. IsFiniteSet(1..n) /\ Cardinality(1..n) = n
  BY FS_Interval
<1>4. f \in Surjection(1..n, 1..n)
  <2> HIDE DEF f
  <2>1. QED
    BY <1>2, <1>3, FS_Injection
<1>5. \E i \in 1..n : f[i] = k
  <2> HIDE DEF f
  <2>1. QED
    BY <1>4 DEF Surjection
<1>6. QED
  BY <1>5

\* What SortedByPrime returns is as long, and has elements of the list only.
LEMMA SortedIs ==
  ASSUME NEW es, IsList(es), \A i \in DOMAIN es : es[i].prime \in Int
  PROVE  /\ IsList(SortedByPrime(es)) /\ DOMAIN SortedByPrime(es) = DOMAIN es
         /\ \A k \in DOMAIN es : \E i \in DOMAIN es : SortedByPrime(es)[k] = es[i]
<1>1. PICK n \in Nat : n = Len(es) /\ DOMAIN es = 1..n
  BY ListIs
<1> DEFINE place == [i \in DOMAIN es |-> PlaceIn(es, i)]
           At(k) == CHOOSE i \in DOMAIN es : place[i] = k
           sorted == [k \in DOMAIN es |-> es[At(k)]]
<1>2. SortedByPrime(es) = sorted
  BY Zenon DEF SortedByPrime, PlaceIn, IsBeforeIn
<1>3. \A k \in DOMAIN es : At(k) \in DOMAIN es
  <2> SUFFICES ASSUME NEW k \in DOMAIN es PROVE At(k) \in DOMAIN es
    OBVIOUS
  <2>1. \E i \in DOMAIN es : place[i] = k
    BY <1>1, PlacesAreAll
  <2> HIDE DEF place
  <2>2. QED
    BY <2>1, Zenon
<1> HIDE DEF At
<1>4. DOMAIN sorted = 1..n /\ sorted = [i \in 1..n |-> sorted[i]] /\ \A k \in DOMAIN es : sorted[k] = es[At(k)]
  BY <1>1
<1> HIDE DEF sorted
<1>5. IsList(sorted)
  BY <1>4, FunctionIsList
<1>6. QED
  BY <1>1, <1>2, <1>3, <1>4, <1>5

\* Elements whose nodes have the flag, with all under them, and states with such nodes.
AreElements(ns, f, es) ==
  IsList(es) /\ \A i \in DOMAIN es : /\ es[i] = Element(es[i].prime, es[i].sub, es[i].parameter)
                                    /\ IsOfFlag(ns, f, es[i].prime) /\ IsOfFlag(ns, f, es[i].sub)
AreTrueNodes(ns, f, map) == \A k \in DOMAIN map : IsOfFlag(ns, f, map[k])
IsState(st, f) ==
  /\ st = [nodes |-> st.nodes, node |-> st.node, true_node_map |-> st.true_node_map, elements |-> st.elements]
  /\ AreNodes(st.nodes) /\ AreTrueNodes(st.nodes, f, st.true_node_map) /\ AreElements(st.nodes, f, st.elements)

\* A later state of a call.
Follows(st, after, f) ==
  /\ IsState(after, f) /\ GrowsTo(st.nodes, after.nodes)
  /\ DOMAIN st.true_node_map \subseteq DOMAIN after.true_node_map

LEMMA ElementsStay ==
  ASSUME NEW ns, NEW more, GrowsTo(ns, more), NEW f, NEW es, AreElements(ns, f, es)
  PROVE  AreElements(more, f, es)
BY FlagStays DEF AreElements

LEMMA TrueNodesStay ==
  ASSUME NEW ns, NEW more, GrowsTo(ns, more), NEW f, NEW map, AreTrueNodes(ns, f, map)
  PROVE  AreTrueNodes(more, f, map)
BY FlagStays DEF AreTrueNodes

LEMMA FollowsIsTransitive ==
  ASSUME NEW st, NEW after, NEW f, Follows(st, after, f), NEW last, Follows(after, last, f)
  PROVE  Follows(st, last, f)
<1>1. GrowsTo(st.nodes, last.nodes)
  BY GrowthIsTransitive DEF Follows
<1>2. QED
  BY <1>1 DEF Follows

LEMMA EqualToItself ==
  ASSUME NEW c
  PROVE  Equal(c, c)
BY DEF Equal

\* A new node, whose children are there, is put at the end.
LEMMA AddNode ==
  ASSUME NEW ns, AreNodes(ns), NEW c, c.type \in {"literal", "top", "decision"}, HasChildrenIn(c, DOMAIN ns)
  PROVE  /\ AreNodes(Append(ns, c)) /\ GrowsTo(ns, Append(ns, c))
         /\ Len(ns) + 1 \in DOMAIN Append(ns, c) /\ Append(ns, c)[Len(ns) + 1] = c
<1> DEFINE more == Append(ns, c)
           n == Len(ns)
<1>1. IsList(ns) /\ IsWhole(ns, DOMAIN ns) /\ \A a \in DOMAIN ns : ns[a].type \in {"literal", "top", "decision"}
  BY DEF AreNodes
<1>2. n \in Nat /\ DOMAIN ns = 1..n
  BY <1>1, ListIs
<1>3. IsList(more) /\ more[n + 1] = c /\ DOMAIN more = 1..n + 1 /\ \A i \in DOMAIN ns : more[i] = ns[i]
  BY <1>1, AppendIsList
<1> HIDE DEF more
<1>4. DOMAIN ns \subseteq DOMAIN more /\ n + 1 \in DOMAIN more /\ \A a \in DOMAIN more : a \in DOMAIN ns \/ a = n + 1
  BY <1>2, <1>3
<1> HIDE DEF n
<1>5. \A a \in DOMAIN more : HasChildrenIn(more[a], DOMAIN more)
  <2> SUFFICES ASSUME NEW a \in DOMAIN more PROVE HasChildrenIn(more[a], DOMAIN more)
    OBVIOUS
  <2>1. HasChildrenIn(more[a], DOMAIN ns)
    BY <1>1, <1>3, <1>4 DEF IsWhole
  <2>2. QED
    BY <1>4, <2>1, ChildrenInMore
<1>6. \A a \in DOMAIN more : more[a].type \in {"literal", "top", "decision"}
  BY <1>1, <1>3, <1>4
<1>7. IsWhole(more, DOMAIN more)
  BY <1>5 DEF IsWhole
<1>8. GrowsTo(ns, more)
  BY <1>3, <1>4 DEF GrowsTo
<1>9. QED
  BY <1>3, <1>4, <1>6, <1>7, <1>8 DEF more, n, AreNodes

\* GetUniqueNode returns a node that is equal to the one given, and adds that one at most.
LEMMA GetUniqueNodeIs ==
  ASSUME NEW st, NEW f, IsState(st, f), NEW c, c.type \in {"literal", "top", "decision"},
         HasChildrenIn(c, DOMAIN st.nodes), NEW made, made = GetUniqueNode(st, c)
  PROVE  /\ Follows(st, made, f) /\ made.node \in DOMAIN made.nodes /\ Equal(made.nodes[made.node], c)
         /\ made.true_node_map = st.true_node_map /\ made.elements = st.elements
<1> DEFINE found == {a \in DOMAIN st.nodes : Equal(st.nodes[a], c)}
<1>1. /\ st = [nodes |-> st.nodes, node |-> st.node, true_node_map |-> st.true_node_map, elements |-> st.elements]
      /\ AreNodes(st.nodes) /\ AreTrueNodes(st.nodes, f, st.true_node_map) /\ AreElements(st.nodes, f, st.elements)
  BY DEF IsState
<1>2. CASE found = {}
  <2>1. made = [st EXCEPT !.nodes = Append(st.nodes, c), !.node = Len(st.nodes) + 1]
    BY <1>2 DEF GetUniqueNode
  <2>2. made = [nodes |-> Append(st.nodes, c), node |-> Len(st.nodes) + 1,
                true_node_map |-> st.true_node_map, elements |-> st.elements]
    BY <1>1, <2>1
  <2>3. /\ made = [nodes |-> made.nodes, node |-> made.node, true_node_map |-> made.true_node_map, elements |-> made.elements]
        /\ made.nodes = Append(st.nodes, c) /\ made.node = Len(st.nodes) + 1
        /\ made.true_node_map = st.true_node_map /\ made.elements = st.elements
    BY <2>2
  <2>4. /\ AreNodes(made.nodes) /\ GrowsTo(st.nodes, made.nodes)
        /\ made.node \in DOMAIN made.nodes /\ made.nodes[made.node] = c
    BY <1>1, <2>3, AddNode
  <2>5. AreTrueNodes(made.nodes, f, made.true_node_map) /\ AreElements(made.nodes, f, made.elements)
    BY <1>1, <2>3, <2>4, TrueNodesStay, ElementsStay
  <2>6. Equal(made.nodes[made.node], c)
    BY <2>4, EqualToItself
  <2>7. QED
    BY <2>3, <2>4, <2>5, <2>6 DEF Follows, IsState
<1>3. CASE found # {}
  <2>1. made = [st EXCEPT !.node = CHOOSE a \in found : TRUE]
    BY <1>3 DEF GetUniqueNode
  <2>2. PICK a : a = CHOOSE b \in found : TRUE
    OBVIOUS
  <2>3. a \in found
    <3> HIDE DEF found
    <3>1. (CHOOSE b \in found : TRUE) \in found
      BY <1>3, Zenon
    <3>2. QED
      BY <2>2, <3>1
  <2>4. made = [nodes |-> st.nodes, node |-> a, true_node_map |-> st.true_node_map, elements |-> st.elements]
    BY <1>1, <2>1, <2>2
  <2>5. /\ made = [nodes |-> made.nodes, node |-> made.node, true_node_map |-> made.true_node_map, elements |-> made.elements]
        /\ made.nodes = st.nodes /\ made.node = a
        /\ made.true_node_map = st.true_node_map /\ made.elements = st.elements
    BY <2>4
  <2>6. a \in DOMAIN st.nodes /\ Equal(st.nodes[a], c)
    BY <2>3
  <2>7. GrowsTo(st.nodes, made.nodes)
    BY <2>5 DEF GrowsTo
  <2>8. QED
    BY <1>1, <2>5, <2>6, <2>7 DEF Follows, IsState
<1>4. QED
  BY <1>2, <1>3

\* What GetUniqueNode returns for a literal and for a true node has the flag.
LEMMA UniqueLiteral ==
  ASSUME NEW st, NEW f, IsState(st, f), NEW v, NEW sign, NEW made,
         made = GetUniqueNode(st, LiteralNode(v, sign, f))
  PROVE  Follows(st, made, f) /\ IsOfFlag(made.nodes, f, made.node)
<1> DEFINE c == LiteralNode(v, sign, f)
<1>1. c.type = "literal" /\ c.flag_index = f /\ HasChildrenIn(c, DOMAIN st.nodes)
  BY DEF LiteralNode, HasChildrenIn
<1> HIDE DEF c
<1>2. Follows(st, made, f) /\ made.node \in DOMAIN made.nodes /\ Equal(made.nodes[made.node], c)
  BY <1>1, GetUniqueNodeIs DEF c
<1>3. made.nodes[made.node] = c
  BY <1>1, <1>2 DEF Equal
<1>4. made.node \in DOMAIN made.nodes
  BY <1>2
<1>5. HasChildrenIn(c, {b \in DOMAIN made.nodes : IsOfFlag(made.nodes, f, b)})
  BY <1>1 DEF HasChildrenIn
<1>6. QED
  BY <1>1, <1>2, <1>3, <1>4, <1>5, FlagOf

LEMMA UniqueTop ==
  ASSUME NEW st, NEW f, IsState(st, f), NEW v, NEW positive, NEW negative, NEW made,
         made = GetUniqueNode(st, TopNode(v, positive, negative, f))
  PROVE  Follows(st, made, f) /\ IsOfFlag(made.nodes, f, made.node)
<1> DEFINE c == TopNode(v, positive, negative, f)
<1>1. c.type = "top" /\ c.flag_index = f /\ HasChildrenIn(c, DOMAIN st.nodes)
  BY DEF TopNode, HasChildrenIn
<1> HIDE DEF c
<1>2. Follows(st, made, f) /\ made.node \in DOMAIN made.nodes /\ Equal(made.nodes[made.node], c)
  BY <1>1, GetUniqueNodeIs DEF c
<1>3. made.nodes[made.node].type = "top" /\ made.nodes[made.node].flag_index = f
  BY <1>1, <1>2 DEF Equal
<1>4. made.node \in DOMAIN made.nodes
  BY <1>2
<1>5. HasChildrenIn(made.nodes[made.node], {b \in DOMAIN made.nodes : IsOfFlag(made.nodes, f, b)})
  BY <1>3 DEF HasChildrenIn
<1>6. QED
  BY <1>2, <1>3, <1>4, <1>5, FlagOf

\* A decision node has the flag with all under it if its elements have.
LEMMA UniqueDecision ==
  ASSUME NEW st, NEW f, IsState(st, f), NEW v, NEW es, IsList(es),
         \A i \in DOMAIN es : es[i].prime \in DOMAIN st.nodes /\ es[i].sub \in DOMAIN st.nodes,
         NEW made, made = GetUniqueNode(st, DecisionNode(v, es, f))
  PROVE  /\ Follows(st, made, f) /\ made.node \in DOMAIN made.nodes /\ made.nodes[made.node].vtree = v
         /\ made.true_node_map = st.true_node_map /\ made.elements = st.elements
         /\ (\A i \in DOMAIN es : IsOfFlag(st.nodes, f, es[i].prime) /\ IsOfFlag(st.nodes, f, es[i].sub)) =>
              IsOfFlag(made.nodes, f, made.node)
<1> DEFINE c == DecisionNode(v, es, f)
<1>1. DOMAIN st.nodes \subseteq Int
  <2>1. IsList(st.nodes)
    BY DEF IsState, AreNodes
  <2>2. QED
    BY <2>1, ListIs
<1>2. /\ IsList(SortedByPrime(es)) /\ DOMAIN SortedByPrime(es) = DOMAIN es
      /\ \A k \in DOMAIN es : \E i \in DOMAIN es : SortedByPrime(es)[k] = es[i]
  BY <1>1, SortedIs
<1>3. c.type = "decision" /\ c.vtree = v /\ c.flag_index = f /\ c.elements = SortedByPrime(es)
  BY DEF DecisionNode
<1> HIDE DEF c
<1>4. HasChildrenIn(c, DOMAIN st.nodes)
  BY <1>2, <1>3 DEF HasChildrenIn
<1>5. /\ Follows(st, made, f) /\ made.node \in DOMAIN made.nodes /\ Equal(made.nodes[made.node], c)
      /\ made.true_node_map = st.true_node_map /\ made.elements = st.elements
  BY <1>3, <1>4, GetUniqueNodeIs DEF c
<1>6. made.nodes[made.node] = c /\ made.node \in DOMAIN made.nodes
  BY <1>3, <1>5 DEF Equal
<1>7. ASSUME \A i \in DOMAIN es : IsOfFlag(st.nodes, f, es[i].prime) /\ IsOfFlag(st.nodes, f, es[i].sub)
      PROVE  IsOfFlag(made.nodes, f, made.node)
  <2> DEFINE F == {b \in DOMAIN made.nodes : IsOfFlag(made.nodes, f, b)}
  <2>1. GrowsTo(st.nodes, made.nodes)
    BY <1>5 DEF Follows
  <2>2. \A a : IsOfFlag(st.nodes, f, a) => a \in F
    <3> SUFFICES ASSUME NEW a, IsOfFlag(st.nodes, f, a) PROVE a \in F
      OBVIOUS
    <3>1. IsOfFlag(made.nodes, f, a)
      BY <2>1, FlagStays
    <3>2. QED
      BY <3>1, FlagHas
  <2> HIDE DEF F
  <2>3. HasChildrenIn(c, F)
    BY <1>2, <1>3, <1>7, <2>2 DEF HasChildrenIn
  <2>4. QED
    BY <1>3, <1>6, <2>3, FlagOf DEF F
<1>8. QED
  BY <1>3, <1>5, <1>6, <1>7

\* The nodes under a node: closed under children, and each but the first is a child of one of them.
LEMMA UnderIs ==
  ASSUME NEW t, IsForest(t), NEW v \in DOMAIN t
  PROVE  /\ v \in Under(t, v) /\ Under(t, v) \subseteq DOMAIN t
         /\ \A w \in Under(t, v) : w = v \/ \E u \in Under(t, v) : w \in ChildrenOf(t, u)
<1> DEFINE list == SerializeVtree(t, v)
<1>1. IsSerialization(t, v, list)
  BY SerializeVtreeIs
<1> HIDE DEF list
<1>2. list \in Seq(DOMAIN t) /\ Len(list) >= 1 /\ list[1] = v
      /\ \A k \in 1..Len(list) : k > 1 => \E j \in 1..Len(list) : j < k /\ list[k] \in ChildrenOf(t, list[j])
  BY <1>1 DEF IsSerialization
<1>3. /\ Len(list) \in Nat
      /\ \A w : w \in Range(list) <=> \E k \in 1..Len(list) : w = list[k]
      /\ Range(list) \subseteq DOMAIN t
  BY <1>2, ListRange
<1>4. v \in Range(list)
  BY <1>2, <1>3
<1>5. ASSUME NEW w \in Range(list), w # v
      PROVE  \E u \in Range(list) : w \in ChildrenOf(t, u)
  <2>1. PICK k \in 1..Len(list) : w = list[k]
    BY <1>3
  <2>2. k > 1
    BY <1>2, <1>3, <1>5, <2>1
  <2>3. PICK j \in 1..Len(list) : w \in ChildrenOf(t, list[j])
    BY <1>2, <2>1, <2>2
  <2>4. QED
    BY <1>3, <2>3
<1>6. Under(t, v) = Range(list)
  BY DEF Under, list
<1>7. QED
  BY <1>3, <1>4, <1>5, <1>6

\* A node that is not the root has a parent, which is under the root too.
LEMMA ParentIs ==
  ASSUME NEW t, IsForest(t), NEW root \in DOMAIN t, NEW v \in Under(t, root), v # root
  PROVE  /\ ParentOf(t, v) \in Under(t, root) /\ ParentOf(t, v) \in DOMAIN t
         /\ ChildrenOf(t, ParentOf(t, v)) = {t[ParentOf(t, v)].left, t[ParentOf(t, v)].right}
         /\ t[ParentOf(t, v)].left \in DOMAIN t /\ t[ParentOf(t, v)].right \in DOMAIN t
<1>1. PICK u \in Under(t, root) : v \in ChildrenOf(t, u)
  BY UnderIs
<1>2. u \in DOMAIN t
  BY UnderIs
<1>3. \E w \in DOMAIN t : v \in ChildrenOf(t, w)
  BY <1>1, <1>2
<1>4. PICK p : p = CHOOSE w \in DOMAIN t : v \in ChildrenOf(t, w)
  OBVIOUS
<1>5. p = ParentOf(t, v)
  BY <1>4, Zenon DEF ParentOf
<1>6. p \in DOMAIN t /\ v \in ChildrenOf(t, p)
  <2>1. (CHOOSE w \in DOMAIN t : v \in ChildrenOf(t, w)) \in DOMAIN t
        /\ v \in ChildrenOf(t, CHOOSE w \in DOMAIN t : v \in ChildrenOf(t, w))
    BY <1>3, Zenon
  <2>2. QED
    BY <1>4, <2>1, Zenon
<1>7. p = u
  BY <1>1, <1>2, <1>6 DEF IsForest
<1>8. ~IsLeaf(t, p)
  BY <1>6 DEF ChildrenOf
<1>9. ChildrenOf(t, p) = {t[p].left, t[p].right} /\ ChildrenOf(t, p) \subseteq DOMAIN t
  BY <1>6, <1>8 DEF ChildrenOf, IsForest
<1>10. QED
  BY <1>1, <1>5, <1>6, <1>7, <1>9

-----------------------------------------------------------------------------
\* GetTrueNode: when it comes to a node, the true nodes of the children are there.
LEMMA InsertedIs ==
  ASSUME NEW map, NEW key, NEW value
  PROVE  /\ DOMAIN Inserted(map, key, value) = DOMAIN map \cup {key}
         /\ \A k \in DOMAIN Inserted(map, key, value) :
              (k \in DOMAIN map /\ Inserted(map, key, value)[k] = map[k]) \/ Inserted(map, key, value)[k] = value
<1>1. CASE key \in DOMAIN map
  BY <1>1 DEF Inserted
<1>2. CASE key \notin DOMAIN map
  <2>1. Inserted(map, key, value) = [k \in DOMAIN map \cup {key} |-> IF k = key THEN value ELSE map[k]]
    BY <1>2 DEF Inserted, Assigned
  <2>2. QED
    BY <2>1
<1>3. QED
  BY <1>1, <1>2

LEMMA PairIsElements ==
  ASSUME NEW ns, NEW p \in DOMAIN ns, NEW s \in DOMAIN ns, NEW es, es = <<Element(p, s, One)>>
  PROVE  /\ IsList(es) /\ \A i \in DOMAIN es : es[i].prime = p /\ es[i].sub = s
<1>1. PICK e : e = Element(p, s, One)
  OBVIOUS
<1>2. e.prime = p /\ e.sub = s
  BY <1>1 DEF Element
<1>3. es = <<e>>
  BY <1>1
<1>4. es \in Seq({e}) /\ DOMAIN es = 1..1 /\ es[1] = e
  BY <1>3
<1>5. IsList(es)
  BY <1>4 DEF IsList
<1>6. QED
  BY <1>2, <1>4, <1>5

LEMMA TrueNodeStep ==
  ASSUME NEW t, NEW st, NEW f, IsState(st, f), NEW v \in DOMAIN t,
         ChildrenOf(t, v) \subseteq DOMAIN st.true_node_map, NEW after, after = MakeTrueNode(t, st, v, f)
  PROVE  /\ Follows(st, after, f) /\ DOMAIN after.true_node_map = DOMAIN st.true_node_map \cup {v}
         /\ after.elements = st.elements
<1> DEFINE l == st.true_node_map[t[v].left]
           r == st.true_node_map[t[v].right]
           es == <<Element(l, r, One)>>
           c == IF IsLeaf(t, v) THEN TopNode(v, One, One, f) ELSE DecisionNode(v, es, f)
<1>1. PICK made : made = GetUniqueNode(st, c)
  OBVIOUS
<1>2. after = [made EXCEPT !.true_node_map = Inserted(made.true_node_map, v, made.node)]
  BY <1>1 DEF MakeTrueNode
<1>3. /\ Follows(st, made, f) /\ IsOfFlag(made.nodes, f, made.node)
      /\ made.true_node_map = st.true_node_map /\ made.elements = st.elements
  <2>1. CASE IsLeaf(t, v)
    <3>1. made = GetUniqueNode(st, TopNode(v, One, One, f))
      BY <1>1, <2>1
    <3>2. Follows(st, made, f) /\ IsOfFlag(made.nodes, f, made.node)
      BY <3>1, UniqueTop
    <3>3. TopNode(v, One, One, f).type = "top" /\ HasChildrenIn(TopNode(v, One, One, f), DOMAIN st.nodes)
      BY DEF TopNode, HasChildrenIn
    <3>4. made.true_node_map = st.true_node_map /\ made.elements = st.elements
      BY <3>1, <3>3, GetUniqueNodeIs
    <3>5. QED
      BY <3>2, <3>4
  <2>2. CASE ~IsLeaf(t, v)
    <3>1. made = GetUniqueNode(st, DecisionNode(v, es, f))
      BY <1>1, <2>2
    <3>2. t[v].left \in DOMAIN st.true_node_map /\ t[v].right \in DOMAIN st.true_node_map
      BY <2>2 DEF ChildrenOf
    <3>3. IsOfFlag(st.nodes, f, l) /\ IsOfFlag(st.nodes, f, r)
      BY <3>2 DEF IsState, AreTrueNodes
    <3>4. l \in DOMAIN st.nodes /\ r \in DOMAIN st.nodes
      BY <3>3, FlagHas
    <3> HIDE DEF l, r
    <3>5. IsList(es) /\ \A i \in DOMAIN es : es[i].prime = l /\ es[i].sub = r
      BY <3>4, PairIsElements
    <3> HIDE DEF es, c
    <3>6. QED
      BY <3>1, <3>3, <3>4, <3>5, UniqueDecision
  <2>3. QED
    BY <2>1, <2>2
<1>4. IsState(made, f)
  BY <1>3 DEF Follows
<1>5. made = [nodes |-> made.nodes, node |-> made.node, true_node_map |-> made.true_node_map, elements |-> made.elements]
  BY <1>4 DEF IsState
<1> DEFINE map == Inserted(made.true_node_map, v, made.node)
<1>6. after = [nodes |-> made.nodes, node |-> made.node, true_node_map |-> map, elements |-> made.elements]
  BY <1>2, <1>5
<1>7. /\ DOMAIN map = DOMAIN made.true_node_map \cup {v}
      /\ \A k \in DOMAIN map : (k \in DOMAIN made.true_node_map /\ map[k] = made.true_node_map[k]) \/ map[k] = made.node
  BY InsertedIs
<1> HIDE DEF map
<1>8. /\ after = [nodes |-> after.nodes, node |-> after.node, true_node_map |-> after.true_node_map, elements |-> after.elements]
      /\ after.nodes = made.nodes /\ after.node = made.node /\ after.true_node_map = map /\ after.elements = made.elements
  BY <1>6
<1>9. AreTrueNodes(made.nodes, f, map)
  BY <1>3, <1>4, <1>7 DEF AreTrueNodes, IsState
<1>10. IsState(after, f)
  BY <1>4, <1>8, <1>9 DEF IsState
<1>11. QED
  BY <1>3, <1>7, <1>8, <1>10 DEF Follows

TrueNodesRun(t, st, list, f, g, n) ==
  /\ \A i \in 0..n : g[i] = IF i = 0 THEN st ELSE MakeTrueNode(t, g[i - 1], list[Len(list) + 1 - i], f)
  /\ MakeTrueNodes(t, st, list, f) = g[n]

LEMMA TrueNodesUnfold ==
  ASSUME NEW t, NEW st, NEW list, NEW f, NEW n \in Nat, n = Len(list)
  PROVE  \E g : TrueNodesRun(t, st, list, f, g, n)
<1> DEFINE Step(x, i) == MakeTrueNode(t, x, list[Len(list) + 1 - i], f)
           RunsTo(g, k) == /\ g = [i \in 0..n |-> g[i]] /\ g[0] = st
                           /\ \A i \in 1..k : g[i] = Step(g[i - 1], i)
           S == {k \in 0..n : \E g : RunsTo(g, k)}
<1> HIDE DEF Step
<1>1. 0 \in S
  <2> DEFINE g == [i \in 0..n |-> st]
  <2>1. RunsTo(g, 0)
    OBVIOUS
  <2> HIDE DEF g, RunsTo
  <2>2. QED
    BY <2>1
<1>2. ASSUME NEW k \in 1..n, k - 1 \in S
      PROVE  k \in S
  <2>1. PICK g : RunsTo(g, k - 1)
    BY <1>2
  <2> DEFINE more == [i \in 0..n |-> IF i = k THEN Step(g[k - 1], k) ELSE g[i]]
  <2>2. more = [i \in 0..n |-> more[i]] /\ more[0] = st
    BY <2>1
  <2>3. ASSUME NEW i \in 1..k
        PROVE  more[i] = Step(more[i - 1], i)
    <3>1. i \in 0..n /\ i - 1 \in 0..n /\ i - 1 # k /\ (i = k \/ i \in 1..k - 1)
      BY <1>2
    <3>2. more[i - 1] = g[i - 1] /\ more[i] = IF i = k THEN Step(g[k - 1], k) ELSE g[i]
      BY <3>1
    <3> HIDE DEF more
    <3>3. QED
      BY <2>1, <3>1, <3>2
  <2> HIDE DEF more
  <2>4. RunsTo(more, k)
    BY <2>2, <2>3
  <2> HIDE DEF RunsTo
  <2>5. QED
    BY <1>2, <2>4
<1>3. PICK g : RunsTo(g, n)
  <2>1. S \subseteq 0..n /\ \A k \in 1..n : k - 1 \in S => k \in S
    BY <1>2
  <2> HIDE DEF S
  <2>2. 0..n \subseteq S
    BY <1>1, <2>1, AllSteps
  <2>3. n \in S
    BY <2>2
  <2> HIDE DEF RunsTo
  <2>4. QED
    BY <2>3 DEF S
<1> DEFINE F(h) == [i \in 0..n |-> IF i = 0 THEN st ELSE Step(h[i - 1], i)]
<1>4. g = F(g)
  <2>1. \A i \in 0..n : i = 0 \/ i \in 1..n
    OBVIOUS
  <2>2. \A i \in 0..n : g[i] = IF i = 0 THEN st ELSE Step(g[i - 1], i)
    BY <1>3, <2>1
  <2>3. QED
    BY <1>3, <2>2
<1>5. \E h : h = F(h)
  BY <1>4
<1> DEFINE run == CHOOSE h : h = F(h)
<1>6. run = F(run)
  BY <1>5, Zenon
<1>7. MakeTrueNodes(t, st, list, f) = run[n]
  BY Zenon DEF MakeTrueNodes, Step
<1> HIDE DEF run
<1>8. \A i \in 0..n : run[i] = IF i = 0 THEN st ELSE Step(run[i - 1], i)
  BY <1>6
<1>9. TrueNodesRun(t, st, list, f, run, n)
  BY <1>7, <1>8 DEF TrueNodesRun, Step
<1>10. QED
  BY <1>9

NormalizeRun(t, st, goal, node, f, g, n) ==
  /\ \A i \in 0..n : g[i] = IF i = 0 THEN [st EXCEPT !.node = node] ELSE LiftTo(t, g[i - 1], goal, f)
  /\ NormalizePsddNode(t, st, goal, node, f) = g[n]

LEMMA NormalizeUnfolds ==
  ASSUME NEW t, NEW st, NEW goal, NEW node, NEW f, NEW n \in Nat, n = Cardinality(DOMAIN t)
  PROVE  \E g : NormalizeRun(t, st, goal, node, f, g, n)
<1> DEFINE Step(x, i) == LiftTo(t, x, goal, f)
           RunsTo(g, k) == /\ g = [i \in 0..n |-> g[i]] /\ g[0] = [st EXCEPT !.node = node]
                           /\ \A i \in 1..k : g[i] = Step(g[i - 1], i)
           S == {k \in 0..n : \E g : RunsTo(g, k)}
<1> HIDE DEF Step
<1>1. 0 \in S
  <2> DEFINE g == [i \in 0..n |-> [st EXCEPT !.node = node]]
  <2>1. RunsTo(g, 0)
    OBVIOUS
  <2> HIDE DEF g, RunsTo
  <2>2. QED
    BY <2>1
<1>2. ASSUME NEW k \in 1..n, k - 1 \in S
      PROVE  k \in S
  <2>1. PICK g : RunsTo(g, k - 1)
    BY <1>2
  <2> DEFINE more == [i \in 0..n |-> IF i = k THEN Step(g[k - 1], k) ELSE g[i]]
  <2>2. more = [i \in 0..n |-> more[i]] /\ more[0] = [st EXCEPT !.node = node]
    BY <2>1
  <2>3. ASSUME NEW i \in 1..k
        PROVE  more[i] = Step(more[i - 1], i)
    <3>1. i \in 0..n /\ i - 1 \in 0..n /\ i - 1 # k /\ (i = k \/ i \in 1..k - 1)
      BY <1>2
    <3>2. more[i - 1] = g[i - 1] /\ more[i] = IF i = k THEN Step(g[k - 1], k) ELSE g[i]
      BY <3>1
    <3> HIDE DEF more
    <3>3. QED
      BY <2>1, <3>1, <3>2
  <2> HIDE DEF more
  <2>4. RunsTo(more, k)
    BY <2>2, <2>3
  <2> HIDE DEF RunsTo
  <2>5. QED
    BY <1>2, <2>4
<1>3. PICK g : RunsTo(g, n)
  <2>1. S \subseteq 0..n /\ \A k \in 1..n : k - 1 \in S => k \in S
    BY <1>2
  <2> HIDE DEF S
  <2>2. 0..n \subseteq S
    BY <1>1, <2>1, AllSteps
  <2>3. n \in S
    BY <2>2
  <2> HIDE DEF RunsTo
  <2>4. QED
    BY <2>3 DEF S
<1> DEFINE F(h) == [i \in 0..n |-> IF i = 0 THEN [st EXCEPT !.node = node] ELSE Step(h[i - 1], i)]
<1>4. g = F(g)
  <2>1. \A i \in 0..n : i = 0 \/ i \in 1..n
    OBVIOUS
  <2>2. \A i \in 0..n : g[i] = IF i = 0 THEN [st EXCEPT !.node = node] ELSE Step(g[i - 1], i)
    BY <1>3, <2>1
  <2>3. QED
    BY <1>3, <2>2
<1>5. \E h : h = F(h)
  BY <1>4
<1> DEFINE run == CHOOSE h : h = F(h)
<1>6. run = F(run)
  BY <1>5, Zenon
<1>7. NormalizePsddNode(t, st, goal, node, f) = run[n]
  BY Zenon DEF NormalizePsddNode, Step
<1> HIDE DEF run
<1>8. \A i \in 0..n : run[i] = IF i = 0 THEN [st EXCEPT !.node = node] ELSE Step(run[i - 1], i)
  BY <1>6
<1>9. NormalizeRun(t, st, goal, node, f, run, n)
  BY <1>7, <1>8 DEF NormalizeRun, Step
<1>10. QED
  BY <1>9

ConformRun(t, ns, v, es, f, g, n) ==
  /\ \A i \in 0..n : g[i] = IF i = 0 THEN Begun(ns) ELSE Conform(t, g[i - 1], v, es[i], f)
  /\ ConformAll(t, ns, v, es, f) = g[n]

LEMMA ConformUnfolds ==
  ASSUME NEW t, NEW ns, NEW v, NEW es, NEW f, NEW n \in Nat, n = Len(es)
  PROVE  \E g : ConformRun(t, ns, v, es, f, g, n)
<1> DEFINE Step(x, i) == Conform(t, x, v, es[i], f)
           RunsTo(g, k) == /\ g = [i \in 0..n |-> g[i]] /\ g[0] = Begun(ns)
                           /\ \A i \in 1..k : g[i] = Step(g[i - 1], i)
           S == {k \in 0..n : \E g : RunsTo(g, k)}
<1> HIDE DEF Step
<1>1. 0 \in S
  <2> DEFINE g == [i \in 0..n |-> Begun(ns)]
  <2>1. RunsTo(g, 0)
    OBVIOUS
  <2> HIDE DEF g, RunsTo
  <2>2. QED
    BY <2>1
<1>2. ASSUME NEW k \in 1..n, k - 1 \in S
      PROVE  k \in S
  <2>1. PICK g : RunsTo(g, k - 1)
    BY <1>2
  <2> DEFINE more == [i \in 0..n |-> IF i = k THEN Step(g[k - 1], k) ELSE g[i]]
  <2>2. more = [i \in 0..n |-> more[i]] /\ more[0] = Begun(ns)
    BY <2>1
  <2>3. ASSUME NEW i \in 1..k
        PROVE  more[i] = Step(more[i - 1], i)
    <3>1. i \in 0..n /\ i - 1 \in 0..n /\ i - 1 # k /\ (i = k \/ i \in 1..k - 1)
      BY <1>2
    <3>2. more[i - 1] = g[i - 1] /\ more[i] = IF i = k THEN Step(g[k - 1], k) ELSE g[i]
      BY <3>1
    <3> HIDE DEF more
    <3>3. QED
      BY <2>1, <3>1, <3>2
  <2> HIDE DEF more
  <2>4. RunsTo(more, k)
    BY <2>2, <2>3
  <2> HIDE DEF RunsTo
  <2>5. QED
    BY <1>2, <2>4
<1>3. PICK g : RunsTo(g, n)
  <2>1. S \subseteq 0..n /\ \A k \in 1..n : k - 1 \in S => k \in S
    BY <1>2
  <2> HIDE DEF S
  <2>2. 0..n \subseteq S
    BY <1>1, <2>1, AllSteps
  <2>3. n \in S
    BY <2>2
  <2> HIDE DEF RunsTo
  <2>4. QED
    BY <2>3 DEF S
<1> DEFINE F(h) == [i \in 0..n |-> IF i = 0 THEN Begun(ns) ELSE Step(h[i - 1], i)]
<1>4. g = F(g)
  <2>1. \A i \in 0..n : i = 0 \/ i \in 1..n
    OBVIOUS
  <2>2. \A i \in 0..n : g[i] = IF i = 0 THEN Begun(ns) ELSE Step(g[i - 1], i)
    BY <1>3, <2>1
  <2>3. QED
    BY <1>3, <2>2
<1>5. \E h : h = F(h)
  BY <1>4
<1> DEFINE run == CHOOSE h : h = F(h)
<1>6. run = F(run)
  BY <1>5, Zenon
<1>7. ConformAll(t, ns, v, es, f) = run[n]
  BY Zenon DEF ConformAll, Step
<1> HIDE DEF run
<1>8. \A i \in 0..n : run[i] = IF i = 0 THEN Begun(ns) ELSE Step(run[i - 1], i)
  BY <1>6
<1>9. ConformRun(t, ns, v, es, f, run, n)
  BY <1>7, <1>8 DEF ConformRun, Step
<1>10. QED
  BY <1>9

LEMMA FollowsItself ==
  ASSUME NEW st, NEW f, IsState(st, f)
  PROVE  Follows(st, st, f)
BY DEF Follows, GrowsTo

\* The places of a list from the i-th on backwards.
LEMMA MakeTrueNodesIs ==
  ASSUME NEW t, IsForest(t), NEW root \in DOMAIN t, NEW st, NEW f, IsState(st, f), NEW after,
         after = MakeTrueNodes(t, st, SerializeVtree(t, root), f)
  PROVE  Follows(st, after, f) /\ root \in DOMAIN after.true_node_map /\ after.elements = st.elements
<1>1. PICK list : list = SerializeVtree(t, root)
  OBVIOUS
<1>2. IsSerialization(t, root, list)
  BY <1>1, SerializeVtreeIs
<1>3. /\ list \in Seq(DOMAIN t) /\ Len(list) >= 1 /\ list[1] = root
      /\ \A j \in 1..Len(list) : \A c \in ChildrenOf(t, list[j]) : \E k \in 1..Len(list) : k > j /\ list[k] = c
  BY <1>2 DEF IsSerialization
<1>4. PICK n \in Nat : n = Len(list)
  BY <1>3
<1>5. PICK g : TrueNodesRun(t, st, list, f, g, n)
  BY <1>4, TrueNodesUnfold
<1>6. /\ \A i \in 0..n : g[i] = IF i = 0 THEN st ELSE MakeTrueNode(t, g[i - 1], list[Len(list) + 1 - i], f)
      /\ MakeTrueNodes(t, st, list, f) = g[n]
  BY <1>5 DEF TrueNodesRun
<1> DEFINE Has(x, i) == /\ Follows(st, x, f) /\ x.elements = st.elements
                        /\ \A j \in 1..n : j > n - i => list[j] \in DOMAIN x.true_node_map
           S == {i \in 0..n : Has(g[i], i)}
<1>7. 0 \in S
  <2>1. g[0] = st
    BY <1>6
  <2>2. Has(st, 0)
    BY FollowsItself
  <2> HIDE DEF Has
  <2>3. QED
    BY <2>1, <2>2
<1>8. ASSUME NEW i \in 1..n, i - 1 \in S
      PROVE  i \in S
  <2>1. PICK x : x = g[i - 1]
    OBVIOUS
  <2>2. PICK y : y = g[i]
    OBVIOUS
  <2>3. i \in 0..n /\ i - 1 \in 0..n /\ n + 1 - i \in 1..n /\ n + 1 - i \in Int
    OBVIOUS
  <2>4. Follows(st, x, f) /\ x.elements = st.elements
        /\ \A j \in 1..n : j > n - (i - 1) => list[j] \in DOMAIN x.true_node_map
    BY <1>8, <2>1
  <2>5. PICK v : v = list[n + 1 - i]
    OBVIOUS
  <2>6. v \in DOMAIN t
    BY <1>3, <1>4, <2>3, <2>5
  <2>7. ChildrenOf(t, v) \subseteq DOMAIN x.true_node_map
    <3> SUFFICES ASSUME NEW c \in ChildrenOf(t, v) PROVE c \in DOMAIN x.true_node_map
      OBVIOUS
    <3>1. PICK k \in 1..n : k > n + 1 - i /\ list[k] = c
      BY <1>3, <1>4, <2>3, <2>5
    <3>2. QED
      BY <2>4, <3>1
  <2>8. y = MakeTrueNode(t, x, v, f)
    BY <1>4, <1>6, <2>1, <2>2, <2>3, <2>5
  <2>9. IsState(x, f)
    BY <2>4 DEF Follows
  <2>10. Follows(x, y, f) /\ DOMAIN y.true_node_map = DOMAIN x.true_node_map \cup {v} /\ y.elements = x.elements
    BY <2>6, <2>7, <2>8, <2>9, TrueNodeStep
  <2>11. Follows(st, y, f)
    BY <2>4, <2>10, FollowsIsTransitive
  <2>12. \A j \in 1..n : j > n - i => list[j] \in DOMAIN y.true_node_map
    <3> SUFFICES ASSUME NEW j \in 1..n, j > n - i PROVE list[j] \in DOMAIN y.true_node_map
      OBVIOUS
    <3>1. j = n + 1 - i \/ j > n - (i - 1)
      OBVIOUS
    <3>2. QED
      BY <2>4, <2>5, <2>10, <3>1
  <2>13. Has(y, i)
    BY <2>4, <2>10, <2>11, <2>12
  <2> HIDE DEF Has
  <2>14. QED
    BY <2>2, <2>3, <2>13
<1>9. Has(g[n], n)
  <2>1. S \subseteq 0..n /\ \A i \in 1..n : i - 1 \in S => i \in S
    BY <1>8
  <2>2. \A i \in S : Has(g[i], i)
    OBVIOUS
  <2> HIDE DEF S, Has
  <2>3. 0..n \subseteq S
    BY <1>7, <2>1, AllSteps
  <2>4. n \in S
    BY <2>3
  <2>5. QED
    BY <2>2, <2>4
<1>10. 1 \in 1..n /\ 1 > n - n
  BY <1>3, <1>4
<1>11. Follows(st, g[n], f) /\ g[n].elements = st.elements /\ list[1] \in DOMAIN g[n].true_node_map
  BY <1>9, <1>10
<1>12. after = g[n]
  BY <1>1, <1>6
<1>13. QED
  BY <1>3, <1>11, <1>12

\* GetTrueNode returns a node that has the flag, and only adds nodes.
LEMMA GetTrueNodeIs ==
  ASSUME NEW t, IsForest(t), NEW v \in DOMAIN t, NEW st, NEW f, IsState(st, f), NEW after,
         after = GetTrueNode(t, st, v, f)
  PROVE  Follows(st, after, f) /\ IsOfFlag(after.nodes, f, after.node) /\ after.elements = st.elements
<1>1. PICK made : made = IF v \in DOMAIN st.true_node_map THEN st ELSE MakeTrueNodes(t, st, SerializeVtree(t, v), f)
  OBVIOUS
<1>2. after = [made EXCEPT !.node = made.true_node_map[v]]
  BY <1>1 DEF GetTrueNode, TrueNodeOf
<1>3. Follows(st, made, f) /\ v \in DOMAIN made.true_node_map /\ made.elements = st.elements
  BY <1>1, FollowsItself, MakeTrueNodesIs
<1>4. IsState(made, f)
  BY <1>3 DEF Follows
<1>5. made = [nodes |-> made.nodes, node |-> made.node, true_node_map |-> made.true_node_map, elements |-> made.elements]
  BY <1>4 DEF IsState
<1>6. PICK a : a = made.true_node_map[v]
  OBVIOUS
<1>7. after = [nodes |-> made.nodes, node |-> a, true_node_map |-> made.true_node_map, elements |-> made.elements]
  BY <1>2, <1>5, <1>6
<1>8. /\ after = [nodes |-> after.nodes, node |-> after.node, true_node_map |-> after.true_node_map, elements |-> after.elements]
      /\ after.nodes = made.nodes /\ after.node = a /\ after.true_node_map = made.true_node_map
      /\ after.elements = made.elements
  BY <1>7
<1>9. IsOfFlag(made.nodes, f, a)
  BY <1>3, <1>4, <1>6 DEF IsState, AreTrueNodes
<1>10. IsState(after, f)
  BY <1>4, <1>8 DEF IsState
<1>11. QED
  BY <1>3, <1>8, <1>9, <1>10 DEF Follows

-----------------------------------------------------------------------------
\* NormalizePsddNode: the node stays under the target, and has the flag if the given one had it.
IsUnderWay(t, st, goal) == st.node \in DOMAIN st.nodes /\ st.nodes[st.node].vtree \in Under(t, goal)
LiftsTo(t, st, after, goal, f) ==
  /\ Follows(st, after, f) /\ after.elements = st.elements /\ IsUnderWay(t, after, goal)
  /\ IsOfFlag(st.nodes, f, st.node) => IsOfFlag(after.nodes, f, after.node)

LEMMA LiftIs ==
  ASSUME NEW t, IsForest(t), NEW goal \in DOMAIN t, NEW st, NEW f, IsState(st, f), IsUnderWay(t, st, goal),
         NEW after, after = LiftTo(t, st, goal, f)
  PROVE  LiftsTo(t, st, after, goal, f)
<1>1. PICK v : v = st.nodes[st.node].vtree
  OBVIOUS
<1>2. st.node \in DOMAIN st.nodes /\ v \in Under(t, goal)
  BY <1>1 DEF IsUnderWay
<1>3. CASE v = goal
  <2>1. after = st
    BY <1>1, <1>3 DEF LiftTo
  <2>2. QED
    BY <2>1, FollowsItself DEF LiftsTo
<1>4. CASE v # goal
  <2>1. PICK p : p = ParentOf(t, v)
    OBVIOUS
  <2>2. /\ p \in Under(t, goal) /\ t[p].left \in DOMAIN t /\ t[p].right \in DOMAIN t
    BY <1>2, <1>4, <2>1, ParentIs
  <2>3. PICK isLeft : isLeft = (t[p].left = v)
    OBVIOUS
  <2>4. PICK w : w = IF isLeft THEN t[p].right ELSE t[p].left
    OBVIOUS
  <2>5. w \in DOMAIN t
    BY <2>2, <2>4
  <2>6. PICK other : other = GetTrueNode(t, st, w, f)
    OBVIOUS
  <2>7. Follows(st, other, f) /\ IsOfFlag(other.nodes, f, other.node) /\ other.elements = st.elements
    BY <2>5, <2>6, GetTrueNodeIs
  <2>8. IsState(other, f) /\ GrowsTo(st.nodes, other.nodes)
    BY <2>7 DEF Follows
  <2>9. other.node \in DOMAIN other.nodes /\ st.node \in DOMAIN other.nodes
    BY <1>2, <2>7, <2>8, FlagHas DEF GrowsTo
  <2>10. PICK es : es = IF isLeft THEN <<Element(st.node, other.node, One)>> ELSE <<Element(other.node, st.node, One)>>
    OBVIOUS
  <2>11. /\ IsList(es)
         /\ \/ \A i \in DOMAIN es : es[i].prime = st.node /\ es[i].sub = other.node
            \/ \A i \in DOMAIN es : es[i].prime = other.node /\ es[i].sub = st.node
    BY <2>9, <2>10, PairIsElements
  <2>12. after = GetUniqueNode(other, DecisionNode(p, es, f))
    <3>1. after = Lift(t, st, f)
      BY <1>1, <1>4 DEF LiftTo
    <3>2. es = <<IF isLeft THEN Element(st.node, other.node, One) ELSE Element(other.node, st.node, One)>>
      BY <2>10
    <3>3. w = Sibling(t, v)
      BY <2>1, <2>3, <2>4 DEF Sibling
    <3>4. after = WithSibling(t, st, other, f)
      BY <1>1, <2>6, <3>1, <3>3 DEF Lift
    <3>5. QED
      BY <1>1, <2>1, <2>3, <3>2, <3>4 DEF WithSibling
  <2>13. /\ Follows(other, after, f) /\ after.node \in DOMAIN after.nodes /\ after.nodes[after.node].vtree = p
         /\ after.elements = other.elements
         /\ (\A i \in DOMAIN es : IsOfFlag(other.nodes, f, es[i].prime) /\ IsOfFlag(other.nodes, f, es[i].sub)) =>
              IsOfFlag(after.nodes, f, after.node)
    BY <2>8, <2>9, <2>11, <2>12, UniqueDecision
  <2>14. ASSUME IsOfFlag(st.nodes, f, st.node)
         PROVE  IsOfFlag(after.nodes, f, after.node)
    <3>1. IsOfFlag(other.nodes, f, st.node)
      BY <2>8, <2>14, FlagStays
    <3>2. QED
      BY <2>7, <2>11, <2>13, <3>1
  <2>15. Follows(st, after, f)
    BY <2>7, <2>13, FollowsIsTransitive
  <2>16. QED
    BY <2>2, <2>7, <2>13, <2>14, <2>15 DEF LiftsTo, IsUnderWay
<1>5. QED
  BY <1>3, <1>4

LEMMA WithNode ==
  ASSUME NEW st, NEW f, IsState(st, f), NEW node, NEW x, x = [st EXCEPT !.node = node]
  PROVE  IsState(x, f) /\ Follows(st, x, f) /\ x.nodes = st.nodes /\ x.node = node /\ x.elements = st.elements
<1>1. st = [nodes |-> st.nodes, node |-> st.node, true_node_map |-> st.true_node_map, elements |-> st.elements]
  BY DEF IsState
<1>2. x = [nodes |-> st.nodes, node |-> node, true_node_map |-> st.true_node_map, elements |-> st.elements]
  BY <1>1
<1>3. /\ x = [nodes |-> x.nodes, node |-> x.node, true_node_map |-> x.true_node_map, elements |-> x.elements]
      /\ x.nodes = st.nodes /\ x.node = node /\ x.true_node_map = st.true_node_map /\ x.elements = st.elements
  BY <1>2
<1>4. IsState(x, f)
  BY <1>3 DEF IsState
<1>5. QED
  BY <1>3, <1>4 DEF Follows, GrowsTo

\* A node that is under the vtree node asked for is brought up to it.
LEMMA NormalizeIs ==
  ASSUME NEW t, IsForest(t), NEW goal \in DOMAIN t, NEW st, NEW f, IsState(st, f),
         NEW node \in DOMAIN st.nodes, st.nodes[node].vtree \in Under(t, goal),
         NEW after, after = NormalizePsddNode(t, st, goal, node, f)
  PROVE  /\ Follows(st, after, f) /\ after.elements = st.elements /\ after.node \in DOMAIN after.nodes
         /\ IsOfFlag(st.nodes, f, node) => IsOfFlag(after.nodes, f, after.node)
<1>1. PICK n \in Nat : n = Cardinality(DOMAIN t)
  BY FS_CardinalityType DEF IsForest
<1>2. PICK x : x = [st EXCEPT !.node = node]
  OBVIOUS
<1>3. IsState(x, f) /\ Follows(st, x, f) /\ x.nodes = st.nodes /\ x.node = node /\ x.elements = st.elements
  BY <1>2, WithNode
<1>4. PICK g : NormalizeRun(t, st, goal, node, f, g, n)
  BY <1>1, NormalizeUnfolds
<1>5. /\ \A i \in 0..n : g[i] = IF i = 0 THEN [st EXCEPT !.node = node] ELSE LiftTo(t, g[i - 1], goal, f)
      /\ NormalizePsddNode(t, st, goal, node, f) = g[n]
  BY <1>4 DEF NormalizeRun
<1> DEFINE S == {i \in 0..n : LiftsTo(t, x, g[i], goal, f)}
<1>6. 0 \in S
  <2>1. g[0] = x
    BY <1>2, <1>5
  <2>2. LiftsTo(t, x, x, goal, f)
    BY <1>3, FollowsItself DEF LiftsTo, IsUnderWay
  <2>3. QED
    BY <2>1, <2>2
<1>7. ASSUME NEW i \in 1..n, i - 1 \in S
      PROVE  i \in S
  <2>1. PICK y : y = g[i - 1]
    OBVIOUS
  <2>2. PICK z : z = g[i]
    OBVIOUS
  <2>3. LiftsTo(t, x, y, goal, f)
    BY <1>7, <2>1
  <2>4. z = LiftTo(t, y, goal, f)
    BY <1>5, <2>1, <2>2
  <2>5. Follows(x, y, f) /\ IsState(y, f) /\ IsUnderWay(t, y, goal)
    BY <2>3 DEF LiftsTo, Follows
  <2>6. LiftsTo(t, y, z, goal, f)
    BY <2>4, <2>5, LiftIs
  <2>7. Follows(x, z, f)
    BY <2>5, <2>6, FollowsIsTransitive DEF LiftsTo
  <2>8. LiftsTo(t, x, z, goal, f)
    BY <2>3, <2>6, <2>7 DEF LiftsTo
  <2>9. QED
    BY <2>2, <2>8
<1>8. LiftsTo(t, x, g[n], goal, f)
  <2>1. S \subseteq 0..n /\ \A i \in 1..n : i - 1 \in S => i \in S
    BY <1>7
  <2>2. \A i \in S : LiftsTo(t, x, g[i], goal, f)
    OBVIOUS
  <2> HIDE DEF S
  <2>3. 0..n \subseteq S
    BY <1>6, <2>1, AllSteps
  <2>4. n \in S
    BY <2>3
  <2>5. QED
    BY <2>2, <2>4
<1>9. LiftsTo(t, x, after, goal, f)
  BY <1>5, <1>8
<1>10. Follows(st, after, f)
  BY <1>3, <1>9, FollowsIsTransitive DEF LiftsTo
<1>11. QED
  BY <1>3, <1>9, <1>10 DEF LiftsTo, IsUnderWay

LEMMA AppendElement ==
  ASSUME NEW ns, NEW f, NEW es, AreElements(ns, f, es), NEW p, IsOfFlag(ns, f, p), NEW s, IsOfFlag(ns, f, s), NEW w
  PROVE  AreElements(ns, f, Append(es, Element(p, s, w)))
<1>1. PICK e : e = Element(p, s, w)
  OBVIOUS
<1>2. e.prime = p /\ e.sub = s /\ e = Element(e.prime, e.sub, e.parameter)
  BY <1>1 DEF Element
<1>3. /\ IsList(Append(es, e)) /\ DOMAIN Append(es, e) = 1..Len(es) + 1 /\ Append(es, e)[Len(es) + 1] = e
      /\ \A i \in DOMAIN es : Append(es, e)[i] = es[i]
      /\ DOMAIN es = 1..Len(es) /\ Len(es) \in Nat
  BY AppendIsList, ListIs DEF AreElements
<1>4. PICK more : more = Append(es, e)
  OBVIOUS
<1>5. ASSUME NEW i \in DOMAIN more
      PROVE  /\ more[i] = Element(more[i].prime, more[i].sub, more[i].parameter)
             /\ IsOfFlag(ns, f, more[i].prime) /\ IsOfFlag(ns, f, more[i].sub)
  <2>1. CASE i \in DOMAIN es
    <3>1. more[i] = es[i]
      BY <1>3, <1>4, <2>1
    <3>2. QED
      BY <2>1, <3>1 DEF AreElements
  <2>2. CASE i \notin DOMAIN es
    <3>1. more[i] = e
      BY <1>3, <1>4, <2>2
    <3>2. QED
      BY <1>2, <3>1
  <2>3. QED
    BY <2>1, <2>2
<1>6. AreElements(ns, f, more)
  BY <1>3, <1>4, <1>5 DEF AreElements
<1>7. QED
  BY <1>1, <1>4, <1>6

\* The elements a state has, with one more.
LEMMA WithElement ==
  ASSUME NEW st, NEW f, IsState(st, f), NEW p, IsOfFlag(st.nodes, f, p), NEW s, IsOfFlag(st.nodes, f, s), NEW w,
         NEW x, x = [st EXCEPT !.elements = Append(@, Element(p, s, w))]
  PROVE  Follows(st, x, f) /\ Len(x.elements) = Len(st.elements) + 1
<1>1. /\ st = [nodes |-> st.nodes, node |-> st.node, true_node_map |-> st.true_node_map, elements |-> st.elements]
      /\ AreElements(st.nodes, f, st.elements)
  BY DEF IsState
<1>2. PICK es : es = Append(st.elements, Element(p, s, w))
  OBVIOUS
<1>3. x = [nodes |-> st.nodes, node |-> st.node, true_node_map |-> st.true_node_map, elements |-> es]
  BY <1>1, <1>2
<1>4. x.nodes = st.nodes /\ x.node = st.node /\ x.true_node_map = st.true_node_map /\ x.elements = es
  BY <1>3
<1>5. /\ x = [nodes |-> x.nodes, node |-> x.node, true_node_map |-> x.true_node_map, elements |-> x.elements]
      /\ x.nodes = st.nodes /\ x.true_node_map = st.true_node_map /\ x.elements = es
  BY <1>3, <1>4
<1>6. AreElements(st.nodes, f, es)
  BY <1>1, <1>2, AppendElement
<1>7. Len(es) = Len(st.elements) + 1
  BY <1>1, <1>2, AppendIsList DEF AreElements
<1>8. IsState(x, f)
  BY <1>5, <1>6 DEF IsState
<1>9. QED
  BY <1>5, <1>7, <1>8 DEF Follows, GrowsTo

\* What Conform does with an element.
LEMMA ConformIs ==
  ASSUME NEW t, IsForest(t), NEW v \in DOMAIN t, ~IsLeaf(t, v), NEW st, NEW f, IsState(st, f), NEW e,
         IsOfFlag(st.nodes, f, e.prime), IsOfFlag(st.nodes, f, e.sub),
         st.nodes[e.prime].vtree \in Under(t, t[v].left), st.nodes[e.sub].vtree \in Under(t, t[v].right),
         NEW after, after = Conform(t, st, v, e, f)
  PROVE  Follows(st, after, f) /\ Len(after.elements) = Len(st.elements) + 1
<1>1. t[v].left \in DOMAIN t /\ t[v].right \in DOMAIN t
  BY DEF IsForest, ChildrenOf
<1>2. PICK prime : prime = NormalizePsddNode(t, st, t[v].left, e.prime, f)
  OBVIOUS
<1>3. PICK sub : sub = NormalizePsddNode(t, prime, t[v].right, e.sub, f)
  OBVIOUS
<1>4. e.prime \in DOMAIN st.nodes /\ e.sub \in DOMAIN st.nodes
  BY FlagHas
<1>5. Follows(st, prime, f) /\ prime.elements = st.elements /\ IsOfFlag(prime.nodes, f, prime.node)
  BY <1>1, <1>2, <1>4, NormalizeIs
<1>6. IsState(prime, f) /\ GrowsTo(st.nodes, prime.nodes)
  BY <1>5 DEF Follows
<1>7. e.sub \in DOMAIN prime.nodes /\ prime.nodes[e.sub] = st.nodes[e.sub] /\ IsOfFlag(prime.nodes, f, e.sub)
  BY <1>4, <1>6, FlagStays DEF GrowsTo
<1>8. Follows(prime, sub, f) /\ sub.elements = prime.elements /\ IsOfFlag(sub.nodes, f, sub.node)
  BY <1>1, <1>3, <1>6, <1>7, NormalizeIs
<1>9. IsState(sub, f) /\ GrowsTo(prime.nodes, sub.nodes)
  BY <1>8 DEF Follows
<1>10. IsOfFlag(sub.nodes, f, prime.node)
  BY <1>5, <1>9, FlagStays
<1>11. after = [sub EXCEPT !.elements = Append(@, Element(prime.node, sub.node, e.parameter))]
  BY <1>2, <1>3 DEF Conform
<1>12. Follows(sub, after, f) /\ Len(after.elements) = Len(sub.elements) + 1
  BY <1>8, <1>9, <1>10, <1>11, WithElement
<1>13. Follows(st, sub, f)
  BY <1>5, <1>8, FollowsIsTransitive
<1>14. Follows(st, after, f)
  BY <1>12, <1>13, FollowsIsTransitive
<1>15. QED
  BY <1>5, <1>8, <1>12, <1>14

LEMMA BegunIs ==
  ASSUME NEW ns, AreNodes(ns), NEW f
  PROVE  IsState(Begun(ns), f) /\ Begun(ns).nodes = ns /\ Begun(ns).elements = <<>>
<1>1. PICK st : st = Begun(ns)
  OBVIOUS
<1>2. /\ st = [nodes |-> st.nodes, node |-> st.node, true_node_map |-> st.true_node_map, elements |-> st.elements]
      /\ st.nodes = ns /\ st.true_node_map = <<>> /\ st.elements = <<>>
  BY <1>1 DEF Begun
<1>3. IsList(<<>>) /\ DOMAIN <<>> = {}
  BY DEF IsList
<1>4. AreTrueNodes(ns, f, st.true_node_map) /\ AreElements(ns, f, st.elements)
  BY <1>2, <1>3 DEF AreTrueNodes, AreElements
<1>5. IsState(st, f)
  BY <1>2, <1>4 DEF IsState
<1>6. QED
  BY <1>1, <1>2, <1>5

\* GetConformedPsddDecisionNode returns a node that has the flag if its elements can be normalised and have it.
LEMMA GetConformedIs ==
  ASSUME NEW t, IsForest(t), NEW ns, AreNodes(ns), NEW f, NEW es, AreElements(ns, f, es), CanConform(t, ns, es),
         NEW after, after = GetConformedPsddDecisionNode(t, ns, es, f)
  PROVE  IsState(after, f) /\ GrowsTo(ns, after.nodes) /\ IsOfFlag(after.nodes, f, after.node)
<1>1. PICK v : v = VtreeOf(t, ns, es)
  OBVIOUS
<1>2. /\ v \in DOMAIN t /\ ~IsLeaf(t, v)
      /\ \A i \in DOMAIN es : /\ ns[es[i].prime].vtree \in Under(t, t[v].left)
                              /\ ns[es[i].sub].vtree \in Under(t, t[v].right)
  BY <1>1 DEF CanConform
<1>3. PICK n \in Nat : n = Len(es) /\ DOMAIN es = 1..n
  BY ListIs DEF AreElements
<1>4. PICK begun : begun = Begun(ns)
  OBVIOUS
<1>5. IsState(begun, f) /\ begun.nodes = ns
  BY <1>4, BegunIs
<1>6. PICK g : ConformRun(t, ns, v, es, f, g, n)
  BY <1>3, ConformUnfolds
<1>7. /\ \A i \in 0..n : g[i] = IF i = 0 THEN Begun(ns) ELSE Conform(t, g[i - 1], v, es[i], f)
      /\ ConformAll(t, ns, v, es, f) = g[n]
  BY <1>6 DEF ConformRun
<1> DEFINE S == {i \in 0..n : Follows(begun, g[i], f)}
<1>8. 0 \in S
  <2>1. g[0] = begun
    BY <1>4, <1>7
  <2>2. QED
    BY <1>5, <2>1, FollowsItself
<1>9. ASSUME NEW i \in 1..n, i - 1 \in S
      PROVE  i \in S
  <2>1. PICK x : x = g[i - 1]
    OBVIOUS
  <2>2. PICK y : y = g[i]
    OBVIOUS
  <2>3. PICK e : e = es[i]
    OBVIOUS
  <2>4. Follows(begun, x, f)
    BY <1>9, <2>1
  <2>5. IsState(x, f) /\ GrowsTo(ns, x.nodes)
    BY <1>5, <2>4 DEF Follows
  <2>6. IsOfFlag(ns, f, e.prime) /\ IsOfFlag(ns, f, e.sub)
    BY <1>3, <2>3 DEF AreElements
  <2>7. IsOfFlag(x.nodes, f, e.prime) /\ IsOfFlag(x.nodes, f, e.sub)
    BY <2>5, <2>6, FlagStays
  <2>8. x.nodes[e.prime] = ns[e.prime] /\ x.nodes[e.sub] = ns[e.sub]
    BY <2>5, <2>6, FlagHas DEF GrowsTo
  <2>9. y = Conform(t, x, v, e, f)
    BY <1>7, <2>1, <2>2, <2>3
  <2>10. Follows(x, y, f)
    BY <1>2, <1>3, <2>3, <2>5, <2>7, <2>8, <2>9, ConformIs
  <2>11. Follows(begun, y, f)
    BY <2>4, <2>10, FollowsIsTransitive
  <2>12. QED
    BY <2>2, <2>11
<1>10. Follows(begun, g[n], f)
  <2>1. S \subseteq 0..n /\ \A i \in 1..n : i - 1 \in S => i \in S
    BY <1>9
  <2>2. \A i \in S : Follows(begun, g[i], f)
    OBVIOUS
  <2> HIDE DEF S
  <2>3. 0..n \subseteq S
    BY <1>8, <2>1, AllSteps
  <2>4. n \in S
    BY <2>3
  <2>5. QED
    BY <2>2, <2>4
<1>11. PICK st : st = ConformAll(t, ns, v, es, f)
  OBVIOUS
<1>12. Follows(begun, st, f) /\ IsState(st, f) /\ GrowsTo(ns, st.nodes)
  BY <1>5, <1>7, <1>10, <1>11 DEF Follows
<1>13. AreElements(st.nodes, f, st.elements)
  BY <1>12 DEF IsState
<1>14. after = GetUniqueNode(st, DecisionNode(v, st.elements, f))
  BY <1>1, <1>11 DEF GetConformedPsddDecisionNode, WithElements
<1>15. Follows(st, after, f) /\ IsOfFlag(after.nodes, f, after.node)
  <2>1. IsList(st.elements) /\ \A i \in DOMAIN st.elements :
          /\ IsOfFlag(st.nodes, f, st.elements[i].prime) /\ IsOfFlag(st.nodes, f, st.elements[i].sub)
          /\ st.elements[i].prime \in DOMAIN st.nodes /\ st.elements[i].sub \in DOMAIN st.nodes
    BY <1>13, FlagHas DEF AreElements
  <2>2. QED
    BY <1>12, <1>14, <2>1, UniqueDecision
<1>16. QED
  BY <1>12, <1>15, GrowthIsTransitive DEF Follows

PushLeaf(t, variables, v) == IF IsLeaf(t, v) THEN Append(variables, t[v].variable) ELSE variables

VariablesRun(t, root, g, n) ==
  /\ \A i \in 0..n : g[i] = IF i = 0 THEN <<>> ELSE PushLeaf(t, g[i - 1], SerializeVtree(t, root)[i])
  /\ VariablesUnderVtree(t, root) = g[n]

\* Of the variables under a vtree node, the elements of an SDD node and the two loops of the
\* Serializer, one step at a time.
LEMMA VariablesUnfold ==
  ASSUME NEW t, NEW root, NEW n \in Nat, n = Len(SerializeVtree(t, root))
  PROVE  \E g : VariablesRun(t, root, g, n)
<1> DEFINE Step(x, i) == PushLeaf(t, x, SerializeVtree(t, root)[i])
           RunsTo(g, k) == /\ g = [i \in 0..n |-> g[i]] /\ g[0] = <<>>
                           /\ \A i \in 1..k : g[i] = Step(g[i - 1], i)
           S == {k \in 0..n : \E g : RunsTo(g, k)}
<1> HIDE DEF Step
<1>1. 0 \in S
  <2> DEFINE g == [i \in 0..n |-> <<>>]
  <2>1. RunsTo(g, 0)
    OBVIOUS
  <2> HIDE DEF g, RunsTo
  <2>2. QED
    BY <2>1
<1>2. ASSUME NEW k \in 1..n, k - 1 \in S
      PROVE  k \in S
  <2>1. PICK g : RunsTo(g, k - 1)
    BY <1>2
  <2> DEFINE more == [i \in 0..n |-> IF i = k THEN Step(g[k - 1], k) ELSE g[i]]
  <2>2. more = [i \in 0..n |-> more[i]] /\ more[0] = <<>>
    BY <2>1
  <2>3. ASSUME NEW i \in 1..k
        PROVE  more[i] = Step(more[i - 1], i)
    <3>1. i \in 0..n /\ i - 1 \in 0..n /\ i - 1 # k /\ (i = k \/ i \in 1..k - 1)
      BY <1>2
    <3>2. more[i - 1] = g[i - 1] /\ more[i] = IF i = k THEN Step(g[k - 1], k) ELSE g[i]
      BY <3>1
    <3> HIDE DEF more
    <3>3. QED
      BY <2>1, <3>1, <3>2
  <2> HIDE DEF more
  <2>4. RunsTo(more, k)
    BY <2>2, <2>3
  <2> HIDE DEF RunsTo
  <2>5. QED
    BY <1>2, <2>4
<1>3. PICK g : RunsTo(g, n)
  <2>1. S \subseteq 0..n /\ \A k \in 1..n : k - 1 \in S => k \in S
    BY <1>2
  <2> HIDE DEF S
  <2>2. 0..n \subseteq S
    BY <1>1, <2>1, AllSteps
  <2>3. n \in S
    BY <2>2
  <2> HIDE DEF RunsTo
  <2>4. QED
    BY <2>3 DEF S
<1> DEFINE F(h) == [i \in 0..n |-> IF i = 0 THEN <<>> ELSE Step(h[i - 1], i)]
<1>4. g = F(g)
  <2>1. \A i \in 0..n : i = 0 \/ i \in 1..n
    OBVIOUS
  <2>2. \A i \in 0..n : g[i] = IF i = 0 THEN <<>> ELSE Step(g[i - 1], i)
    BY <1>3, <2>1
  <2>3. QED
    BY <1>3, <2>2
<1>5. \E h : h = F(h)
  BY <1>4
<1> DEFINE run == CHOOSE h : h = F(h)
<1>6. run = F(run)
  BY <1>5, Zenon
<1>7. VariablesUnderVtree(t, root) = run[n]
  BY Zenon DEF VariablesUnderVtree, PushLeaf, Step
<1> HIDE DEF run
<1>8. \A i \in 0..n : run[i] = IF i = 0 THEN <<>> ELSE Step(run[i - 1], i)
  BY <1>6
<1>9. VariablesRun(t, root, run, n)
  BY <1>7, <1>8 DEF VariablesRun, Step
<1>10. QED
  BY <1>9

ElementsRun(v, es, g, n) ==
  /\ \A i \in 0..n : g[i] = IF i = 0 THEN [Begun(nodes[here]) EXCEPT !.true_node_map = true_nodes_map] ELSE ConvertElement(g[i - 1], v, es[i])
  /\ ConvertElements(v, es) = g[n]

LEMMA ElementsUnfold ==
  ASSUME NEW v, NEW es, NEW n \in Nat, n = Len(es)
  PROVE  \E g : ElementsRun(v, es, g, n)
<1> DEFINE Step(x, i) == ConvertElement(x, v, es[i])
           RunsTo(g, k) == /\ g = [i \in 0..n |-> g[i]] /\ g[0] = [Begun(nodes[here]) EXCEPT !.true_node_map = true_nodes_map]
                           /\ \A i \in 1..k : g[i] = Step(g[i - 1], i)
           S == {k \in 0..n : \E g : RunsTo(g, k)}
<1> HIDE DEF Step
<1>1. 0 \in S
  <2> DEFINE g == [i \in 0..n |-> [Begun(nodes[here]) EXCEPT !.true_node_map = true_nodes_map]]
  <2>1. RunsTo(g, 0)
    OBVIOUS
  <2> HIDE DEF g, RunsTo
  <2>2. QED
    BY <2>1
<1>2. ASSUME NEW k \in 1..n, k - 1 \in S
      PROVE  k \in S
  <2>1. PICK g : RunsTo(g, k - 1)
    BY <1>2
  <2> DEFINE more == [i \in 0..n |-> IF i = k THEN Step(g[k - 1], k) ELSE g[i]]
  <2>2. more = [i \in 0..n |-> more[i]] /\ more[0] = [Begun(nodes[here]) EXCEPT !.true_node_map = true_nodes_map]
    BY <2>1
  <2>3. ASSUME NEW i \in 1..k
        PROVE  more[i] = Step(more[i - 1], i)
    <3>1. i \in 0..n /\ i - 1 \in 0..n /\ i - 1 # k /\ (i = k \/ i \in 1..k - 1)
      BY <1>2
    <3>2. more[i - 1] = g[i - 1] /\ more[i] = IF i = k THEN Step(g[k - 1], k) ELSE g[i]
      BY <3>1
    <3> HIDE DEF more
    <3>3. QED
      BY <2>1, <3>1, <3>2
  <2> HIDE DEF more
  <2>4. RunsTo(more, k)
    BY <2>2, <2>3
  <2> HIDE DEF RunsTo
  <2>5. QED
    BY <1>2, <2>4
<1>3. PICK g : RunsTo(g, n)
  <2>1. S \subseteq 0..n /\ \A k \in 1..n : k - 1 \in S => k \in S
    BY <1>2
  <2> HIDE DEF S
  <2>2. 0..n \subseteq S
    BY <1>1, <2>1, AllSteps
  <2>3. n \in S
    BY <2>2
  <2> HIDE DEF RunsTo
  <2>4. QED
    BY <2>3 DEF S
<1> DEFINE F(h) == [i \in 0..n |-> IF i = 0 THEN [Begun(nodes[here]) EXCEPT !.true_node_map = true_nodes_map] ELSE Step(h[i - 1], i)]
<1>4. g = F(g)
  <2>1. \A i \in 0..n : i = 0 \/ i \in 1..n
    OBVIOUS
  <2>2. \A i \in 0..n : g[i] = IF i = 0 THEN [Begun(nodes[here]) EXCEPT !.true_node_map = true_nodes_map] ELSE Step(g[i - 1], i)
    BY <1>3, <2>1
  <2>3. QED
    BY <1>3, <2>2
<1>5. \E h : h = F(h)
  BY <1>4
<1> DEFINE run == CHOOSE h : h = F(h)
<1>6. run = F(run)
  BY <1>5, Zenon
<1>7. ConvertElements(v, es) = run[n]
  BY Zenon DEF ConvertElements, Step
<1> HIDE DEF run
<1>8. \A i \in 0..n : run[i] = IF i = 0 THEN [Begun(nodes[here]) EXCEPT !.true_node_map = true_nodes_map] ELSE Step(run[i - 1], i)
  BY <1>6
<1>9. ElementsRun(v, es, run, n)
  BY <1>7, <1>8 DEF ElementsRun, Step
<1>10. QED
  BY <1>9

PushOne(some, c) == IF c \in Range(some) THEN some ELSE Append(some, c)
VisitNode(g, list, i) == IF i > Len(list) THEN list ELSE PushAll(list, ChildList(g, list[i]))

PushesRun(list, children, g, n) ==
  /\ \A i \in 0..n : g[i] = IF i = 0 THEN list ELSE PushOne(g[i - 1], children[i])
  /\ PushAll(list, children) = g[n]

LEMMA PushesUnfold ==
  ASSUME NEW list, NEW children, NEW n \in Nat, n = Len(children)
  PROVE  \E g : PushesRun(list, children, g, n)
<1> DEFINE Step(x, i) == PushOne(x, children[i])
           RunsTo(g, k) == /\ g = [i \in 0..n |-> g[i]] /\ g[0] = list
                           /\ \A i \in 1..k : g[i] = Step(g[i - 1], i)
           S == {k \in 0..n : \E g : RunsTo(g, k)}
<1> HIDE DEF Step
<1>1. 0 \in S
  <2> DEFINE g == [i \in 0..n |-> list]
  <2>1. RunsTo(g, 0)
    OBVIOUS
  <2> HIDE DEF g, RunsTo
  <2>2. QED
    BY <2>1
<1>2. ASSUME NEW k \in 1..n, k - 1 \in S
      PROVE  k \in S
  <2>1. PICK g : RunsTo(g, k - 1)
    BY <1>2
  <2> DEFINE more == [i \in 0..n |-> IF i = k THEN Step(g[k - 1], k) ELSE g[i]]
  <2>2. more = [i \in 0..n |-> more[i]] /\ more[0] = list
    BY <2>1
  <2>3. ASSUME NEW i \in 1..k
        PROVE  more[i] = Step(more[i - 1], i)
    <3>1. i \in 0..n /\ i - 1 \in 0..n /\ i - 1 # k /\ (i = k \/ i \in 1..k - 1)
      BY <1>2
    <3>2. more[i - 1] = g[i - 1] /\ more[i] = IF i = k THEN Step(g[k - 1], k) ELSE g[i]
      BY <3>1
    <3> HIDE DEF more
    <3>3. QED
      BY <2>1, <3>1, <3>2
  <2> HIDE DEF more
  <2>4. RunsTo(more, k)
    BY <2>2, <2>3
  <2> HIDE DEF RunsTo
  <2>5. QED
    BY <1>2, <2>4
<1>3. PICK g : RunsTo(g, n)
  <2>1. S \subseteq 0..n /\ \A k \in 1..n : k - 1 \in S => k \in S
    BY <1>2
  <2> HIDE DEF S
  <2>2. 0..n \subseteq S
    BY <1>1, <2>1, AllSteps
  <2>3. n \in S
    BY <2>2
  <2> HIDE DEF RunsTo
  <2>4. QED
    BY <2>3 DEF S
<1> DEFINE F(h) == [i \in 0..n |-> IF i = 0 THEN list ELSE Step(h[i - 1], i)]
<1>4. g = F(g)
  <2>1. \A i \in 0..n : i = 0 \/ i \in 1..n
    OBVIOUS
  <2>2. \A i \in 0..n : g[i] = IF i = 0 THEN list ELSE Step(g[i - 1], i)
    BY <1>3, <2>1
  <2>3. QED
    BY <1>3, <2>2
<1>5. \E h : h = F(h)
  BY <1>4
<1> DEFINE run == CHOOSE h : h = F(h)
<1>6. run = F(run)
  BY <1>5, Zenon
<1>7. PushAll(list, children) = run[n]
  BY Zenon DEF PushAll, PushOne, Step
<1> HIDE DEF run
<1>8. \A i \in 0..n : run[i] = IF i = 0 THEN list ELSE Step(run[i - 1], i)
  BY <1>6
<1>9. PushesRun(list, children, run, n)
  BY <1>7, <1>8 DEF PushesRun, Step
<1>10. QED
  BY <1>9

NodesRun(manager, root, g, n) ==
  /\ \A i \in 0..n : g[i] = IF i = 0 THEN <<root>> ELSE VisitNode(manager, g[i - 1], i)
  /\ SerializePsddNodes(manager, root) = g[n]

LEMMA NodesUnfold ==
  ASSUME NEW manager, NEW root, NEW n \in Nat, n = root
  PROVE  \E g : NodesRun(manager, root, g, n)
<1> DEFINE Step(x, i) == VisitNode(manager, x, i)
           RunsTo(g, k) == /\ g = [i \in 0..n |-> g[i]] /\ g[0] = <<root>>
                           /\ \A i \in 1..k : g[i] = Step(g[i - 1], i)
           S == {k \in 0..n : \E g : RunsTo(g, k)}
<1> HIDE DEF Step
<1>1. 0 \in S
  <2> DEFINE g == [i \in 0..n |-> <<root>>]
  <2>1. RunsTo(g, 0)
    OBVIOUS
  <2> HIDE DEF g, RunsTo
  <2>2. QED
    BY <2>1
<1>2. ASSUME NEW k \in 1..n, k - 1 \in S
      PROVE  k \in S
  <2>1. PICK g : RunsTo(g, k - 1)
    BY <1>2
  <2> DEFINE more == [i \in 0..n |-> IF i = k THEN Step(g[k - 1], k) ELSE g[i]]
  <2>2. more = [i \in 0..n |-> more[i]] /\ more[0] = <<root>>
    BY <2>1
  <2>3. ASSUME NEW i \in 1..k
        PROVE  more[i] = Step(more[i - 1], i)
    <3>1. i \in 0..n /\ i - 1 \in 0..n /\ i - 1 # k /\ (i = k \/ i \in 1..k - 1)
      BY <1>2
    <3>2. more[i - 1] = g[i - 1] /\ more[i] = IF i = k THEN Step(g[k - 1], k) ELSE g[i]
      BY <3>1
    <3> HIDE DEF more
    <3>3. QED
      BY <2>1, <3>1, <3>2
  <2> HIDE DEF more
  <2>4. RunsTo(more, k)
    BY <2>2, <2>3
  <2> HIDE DEF RunsTo
  <2>5. QED
    BY <1>2, <2>4
<1>3. PICK g : RunsTo(g, n)
  <2>1. S \subseteq 0..n /\ \A k \in 1..n : k - 1 \in S => k \in S
    BY <1>2
  <2> HIDE DEF S
  <2>2. 0..n \subseteq S
    BY <1>1, <2>1, AllSteps
  <2>3. n \in S
    BY <2>2
  <2> HIDE DEF RunsTo
  <2>4. QED
    BY <2>3 DEF S
<1> DEFINE F(h) == [i \in 0..n |-> IF i = 0 THEN <<root>> ELSE Step(h[i - 1], i)]
<1>4. g = F(g)
  <2>1. \A i \in 0..n : i = 0 \/ i \in 1..n
    OBVIOUS
  <2>2. \A i \in 0..n : g[i] = IF i = 0 THEN <<root>> ELSE Step(g[i - 1], i)
    BY <1>3, <2>1
  <2>3. QED
    BY <1>3, <2>2
<1>5. \E h : h = F(h)
  BY <1>4
<1> DEFINE run == CHOOSE h : h = F(h)
<1>6. run = F(run)
  BY <1>5, Zenon
<1>7. SerializePsddNodes(manager, root) = run[n]
  BY Zenon DEF SerializePsddNodes, VisitNode, Step
<1> HIDE DEF run
<1>8. \A i \in 0..n : run[i] = IF i = 0 THEN <<root>> ELSE Step(run[i - 1], i)
  BY <1>6
<1>9. NodesRun(manager, root, run, n)
  BY <1>7, <1>8 DEF NodesRun, Step
<1>10. QED
  BY <1>9

\* The search makes a list, of whatever vtree with finitely many nodes.
LEMMA SearchIsList ==
  ASSUME NEW t, IsFiniteSet(DOMAIN t), NEW root
  PROVE  IsList(SerializeVtree(t, root))
<1>1. PICK n \in Nat : n = Cardinality(DOMAIN t)
  BY FS_CardinalityType
<1>2. PICK g : VisitsRun(t, root, g, n)
  BY <1>1, VisitsUnfold
<1>3. /\ \A i \in 0..n : g[i] = IF i = 0 THEN <<root>> ELSE VisitAt(t, g[i - 1], i)
      /\ SerializeVtree(t, root) = g[n]
  BY <1>2 DEF VisitsRun
<1> DEFINE S == {i \in 0..n : IsList(g[i])}
<1>4. 0 \in S
  <2>1. <<root>> \in Seq({root}) /\ g[0] = <<root>>
    BY <1>3
  <2>2. IsList(g[0])
    BY <2>1 DEF IsList
  <2>3. QED
    BY <2>2
<1>5. ASSUME NEW i \in 1..n, i - 1 \in S
      PROVE  i \in S
  <2>1. PICK x : x = g[i - 1]
    OBVIOUS
  <2>2. PICK y : y = g[i]
    OBVIOUS
  <2>3. IsList(x) /\ y = VisitAt(t, x, i)
    BY <1>3, <1>5, <2>1, <2>2
  <2>4. PICK R : x \in Seq(R)
    BY <2>3 DEF IsList
  <2>5. PICK l, r : l = t[x[i]].left /\ r = t[x[i]].right
    OBVIOUS
  <2>6. y = x \/ y = x \o <<l, r>>
    BY <2>3, <2>5 DEF VisitAt
  <2>7. x \in Seq(R \cup {l, r}) /\ <<l, r>> \in Seq(R \cup {l, r})
    BY <2>4
  <2>8. y \in Seq(R \cup {l, r})
    <3>1. CASE y = x
      BY <2>7, <3>1
    <3>2. CASE y = x \o <<l, r>>
      <4>1. PICK pair : pair = <<l, r>>
        OBVIOUS
      <4>2. pair \in Seq(R \cup {l, r})
        BY <2>7, <4>1
      <4>3. x \o pair \in Seq(R \cup {l, r})
        BY <2>7, <4>2
      <4>4. QED
        BY <3>2, <4>1, <4>3
    <3>3. QED
      BY <2>6, <3>1, <3>2
  <2>9. IsList(y)
    BY <2>8 DEF IsList
  <2>10. QED
    BY <2>2, <2>9
<1>6. S \subseteq 0..n /\ \A i \in 1..n : i - 1 \in S => i \in S
  BY <1>5
<1>7. \A i \in S : IsList(g[i])
  OBVIOUS
<1> HIDE DEF S
<1>8. 0..n \subseteq S
  BY <1>4, <1>6, AllSteps
<1>9. n \in S
  BY <1>8
<1>10. QED
  BY <1>3, <1>7, <1>9

LEMMA VariablesAreList ==
  ASSUME NEW t, IsFiniteSet(DOMAIN t), NEW root
  PROVE  IsList(VariablesUnderVtree(t, root))
<1>1. PICK list : list = SerializeVtree(t, root)
  OBVIOUS
<1>2. IsList(list)
  BY <1>1, SearchIsList
<1>3. PICK n \in Nat : n = Len(list)
  BY <1>2, ListIs
<1>4. PICK g : VariablesRun(t, root, g, n)
  BY <1>1, <1>3, VariablesUnfold
<1>5. /\ \A i \in 0..n : g[i] = IF i = 0 THEN <<>> ELSE PushLeaf(t, g[i - 1], list[i])
      /\ VariablesUnderVtree(t, root) = g[n]
  BY <1>1, <1>4 DEF VariablesRun
<1> DEFINE S == {i \in 0..n : IsList(g[i])}
<1>6. 0 \in S
  <2>1. <<>> \in Seq({}) /\ g[0] = <<>>
    BY <1>5
  <2>2. IsList(g[0])
    BY <2>1 DEF IsList
  <2>3. QED
    BY <2>2
<1>7. ASSUME NEW i \in 1..n, i - 1 \in S
      PROVE  i \in S
  <2>1. PICK x : x = g[i - 1]
    OBVIOUS
  <2>2. PICK y : y = g[i]
    OBVIOUS
  <2>3. IsList(x) /\ y = PushLeaf(t, x, list[i])
    BY <1>5, <1>7, <2>1, <2>2
  <2>4. PICK variable : variable = t[list[i]].variable
    OBVIOUS
  <2>5. y = x \/ y = Append(x, variable)
    BY <2>3, <2>4 DEF PushLeaf
  <2>6. IsList(y)
    <3>1. IsList(Append(x, variable))
      BY <2>3, AppendIsList
    <3>2. QED
      BY <2>3, <2>5, <3>1
  <2>7. QED
    BY <2>2, <2>6
<1>8. S \subseteq 0..n /\ \A i \in 1..n : i - 1 \in S => i \in S
  BY <1>7
<1>9. \A i \in S : IsList(g[i])
  OBVIOUS
<1> HIDE DEF S
<1>10. 0..n \subseteq S
  BY <1>6, <1>8, AllSteps
<1>11. n \in S
  BY <1>10
<1>12. QED
  BY <1>5, <1>9, <1>11

LEMMA RangeIsFinite ==
  ASSUME NEW s, IsList(s)
  PROVE  IsFiniteSet(Range(s))
<1>1. PICK n \in Nat : n = Len(s)
  BY ListIs
<1>2. DOMAIN s = 1..n /\ s = [i \in 1..n |-> s[i]] /\ \A x : x \in Range(s) <=> \E i \in 1..n : x = s[i]
  BY <1>1, ListIs
<1>3. PICK R : R = Range(s)
  OBVIOUS
<1>4. s \in [1..n -> R] /\ \A x \in R : \E i \in 1..n : s[i] = x
  <2>1. \A i \in 1..n : s[i] \in R
    BY <1>2, <1>3
  <2>2. \A x \in R : \E i \in 1..n : s[i] = x
    BY <1>2, <1>3
  <2>3. QED
    BY <1>2, <2>1, <2>2
<1>5. s \in Surjection(1..n, R)
  BY <1>4 DEF Surjection
<1>6. IsFiniteSet(1..n)
  BY FS_Interval
<1>7. QED
  BY <1>3, <1>5, <1>6, FS_Surjection

LEMMA InstantiationsAreFinite ==
  ASSUME NEW t, IsFiniteSet(DOMAIN t), NEW v
  PROVE  IsFiniteSet(Instantiations(t, v))
<1>1. IsFiniteSet(Variables(t, v))
  BY VariablesAreList, RangeIsFinite DEF Variables
<1>2. QED
  BY <1>1, FS_SUBSET DEF Instantiations

\* The values of a function on a finite set.
LEMMA ImageIsFinite ==
  ASSUME NEW S, IsFiniteSet(S), NEW f, f = [x \in S |-> f[x]], NEW T,
         \A x \in S : f[x] \in T, \A y \in T : \E x \in S : f[x] = y
  PROVE  IsFiniteSet(T)
<1>1. f \in Surjection(S, T)
  BY DEF Surjection
<1>2. QED
  BY <1>1, FS_Surjection

LEMMA ElementsAreFinite ==
  ASSUME NEW t, IsFiniteSet(DOMAIN t), NEW n
  PROVE  IsFiniteSet(SddElements(t, n))
<1> DEFINE I == Instantiations(t, t[n.vtree].left)
           rest == [x \in I |-> Rest(t, n.vtree, n.models, x)]
           R == Rests(t, n.vtree, n.models)
           element == [r \in R |-> [prime |-> Sdd(t, t[n.vtree].left, Having(t, n.vtree, n.models, r)),
                                    sub |-> Sdd(t, t[n.vtree].right, r)]]
           E == SddElements(t, n)
<1>1. IsFiniteSet(I)
  BY InstantiationsAreFinite
<1>2. IsFiniteSet(R)
  <2>1. rest = [x \in I |-> rest[x]] /\ \A x \in I : rest[x] \in R
    BY DEF Rests
  <2>2. \A y \in R : \E x \in I : rest[x] = y
    BY DEF Rests
  <2> HIDE DEF I, rest, R
  <2>3. QED
    BY <1>1, <2>1, <2>2, ImageIsFinite
<1>3. IsFiniteSet(E)
  <2>1. element = [r \in R |-> element[r]] /\ \A r \in R : element[r] \in E
    BY DEF SddElements
  <2>2. \A y \in E : \E r \in R : element[r] = y
    BY DEF SddElements
  <2> HIDE DEF R, element, E
  <2>3. QED
    BY <1>2, <2>1, <2>2, ImageIsFinite
<1>4. QED
  BY <1>3

LEMMA SetToSeqIs ==
  ASSUME NEW S, IsFiniteSet(S)
  PROVE  IsList(SetToSeq(S)) /\ \A i \in DOMAIN SetToSeq(S) : SetToSeq(S)[i] \in S
<1>1. PICK n \in Nat : n = Cardinality(S)
  BY FS_CardinalityType
<1>2. ExistsBijection(1..n, S)
  BY <1>1, FS_CardinalityType
<1>3. \E f \in [1..n -> S] : IsInjective(f)
  BY <1>2 DEF ExistsBijection, Bijection, Injection
<1>4. (CHOOSE f \in [1..n -> S] : IsInjective(f)) \in [1..n -> S]
  BY <1>3, Zenon
<1>5. SetToSeq(S) \in [1..n -> S]
  BY <1>1, <1>4, Zenon DEF SetToSeq
<1>6. PICK s : s = SetToSeq(S)
  OBVIOUS
<1>7. DOMAIN s = 1..n /\ s = [i \in 1..n |-> s[i]] /\ \A i \in 1..n : s[i] \in S
  BY <1>5, <1>6
<1>8. IsList(s)
  BY <1>7, FunctionIsList
<1>9. QED
  BY <1>6, <1>7, <1>8

\* What a list of PSDD nodes is: of a set of nodes, and with the root in front.
StartsWith(x, S, root) == x \in Seq(S) /\ Len(x) >= 1 /\ x[1] = root

LEMMA ChildListIs ==
  ASSUME NEW g, NEW S, IsWhole(nodes[g], S), NEW n \in S
  PROVE  ChildList(g, n) \in Seq(S)
<1>1. PICK c : c = nodes[g][n]
  OBVIOUS
<1>2. HasChildrenIn(c, S)
  BY <1>1 DEF IsWhole
<1>3. CASE c.type # "decision"
  BY <1>1, <1>3 DEF ChildList
<1>4. CASE c.type = "decision"
  <2>1. PICK es : es = c.elements
    OBVIOUS
  <2>2. IsList(es) /\ \A i \in DOMAIN es : es[i].prime \in S /\ es[i].sub \in S
    BY <1>2, <1>4, <2>1 DEF HasChildrenIn
  <2>3. PICK m \in Nat : m = Len(es)
    BY <2>2, ListIs
  <2>4. DOMAIN es = 1..m
    BY <2>2, <2>3, ListIs
  <2>5. PICK primes : primes = [i \in DOMAIN es |-> es[i].prime]
    OBVIOUS
  <2>6. PICK subs : subs = [i \in DOMAIN es |-> es[i].sub]
    OBVIOUS
  <2>7. primes \in [1..m -> S] /\ subs \in [1..m -> S]
    BY <2>2, <2>4, <2>5, <2>6
  <2>8. primes \in Seq(S) /\ subs \in Seq(S)
    BY <2>7, SeqDef
  <2>9. primes \o subs \in Seq(S)
    BY <2>8
  <2>10. ChildList(g, n) = primes \o subs
    BY <1>1, <1>4, <2>1, <2>5, <2>6 DEF ChildList
  <2>11. QED
    BY <2>9, <2>10
<1>5. QED
  BY <1>3, <1>4

LEMMA PushAllIs ==
  ASSUME NEW S, NEW root, NEW list, StartsWith(list, S, root), NEW children \in Seq(S)
  PROVE  StartsWith(PushAll(list, children), S, root)
<1>1. PICK n \in Nat : n = Len(children)
  OBVIOUS
<1>2. PICK g : PushesRun(list, children, g, n)
  BY <1>1, PushesUnfold
<1>3. /\ \A i \in 0..n : g[i] = IF i = 0 THEN list ELSE PushOne(g[i - 1], children[i])
      /\ PushAll(list, children) = g[n]
  BY <1>2 DEF PushesRun
<1> DEFINE D == {i \in 0..n : StartsWith(g[i], S, root)}
<1>4. 0 \in D
  BY <1>3
<1>5. ASSUME NEW i \in 1..n, i - 1 \in D
      PROVE  i \in D
  <2>1. PICK x : x = g[i - 1]
    OBVIOUS
  <2>2. PICK y : y = g[i]
    OBVIOUS
  <2>3. PICK c : c = children[i]
    OBVIOUS
  <2>4. StartsWith(x, S, root) /\ y = PushOne(x, c) /\ c \in S
    BY <1>1, <1>3, <1>5, <2>1, <2>2, <2>3
  <2>5. CASE y = x
    <3>1. StartsWith(y, S, root)
      BY <2>4, <2>5
    <3>2. QED
      BY <1>5, <2>2, <3>1
  <2>6. CASE y = Append(x, c)
    <3>1. y \in Seq(S) /\ Len(y) >= 1 /\ y[1] = root
      BY <2>4, <2>6 DEF StartsWith
    <3>2. StartsWith(y, S, root)
      BY <3>1 DEF StartsWith
    <3>3. QED
      BY <1>5, <2>2, <3>2
  <2>7. QED
    BY <2>4, <2>5, <2>6 DEF PushOne
<1>6. D \subseteq 0..n /\ \A i \in 1..n : i - 1 \in D => i \in D
  BY <1>5
<1>7. \A i \in D : StartsWith(g[i], S, root)
  OBVIOUS
<1> HIDE DEF D
<1>8. 0..n \subseteq D
  BY <1>4, <1>6, AllSteps
<1>9. n \in D
  BY <1>8
<1>10. QED
  BY <1>3, <1>7, <1>9

\* A serialization has only nodes of any whole set that the root is in.
LEMMA SerializationIsIn ==
  ASSUME NEW manager, NEW S, IsWhole(nodes[manager], S), NEW root \in S, root \in Nat
  PROVE  StartsWith(SerializePsddNodes(manager, root), S, root)
<1>1. PICK g : NodesRun(manager, root, g, root)
  BY NodesUnfold
<1>2. /\ \A i \in 0..root : g[i] = IF i = 0 THEN <<root>> ELSE VisitNode(manager, g[i - 1], i)
      /\ SerializePsddNodes(manager, root) = g[root]
  BY <1>1 DEF NodesRun
<1> DEFINE D == {i \in 0..root : StartsWith(g[i], S, root)}
<1>3. 0 \in D
  <2>1. g[0] = <<root>>
    BY <1>2
  <2>2. StartsWith(<<root>>, S, root)
    BY DEF StartsWith
  <2>3. QED
    BY <2>1, <2>2
<1>4. ASSUME NEW i \in 1..root, i - 1 \in D
      PROVE  i \in D
  <2>1. PICK x : x = g[i - 1]
    OBVIOUS
  <2>2. PICK y : y = g[i]
    OBVIOUS
  <2>3. StartsWith(x, S, root) /\ y = VisitNode(manager, x, i)
    BY <1>2, <1>4, <2>1, <2>2
  <2>4. CASE i > Len(x)
    <3>1. y = x
      BY <2>3, <2>4 DEF VisitNode
    <3>2. StartsWith(y, S, root)
      BY <2>3, <3>1
    <3>3. QED
      BY <1>4, <2>2, <3>2
  <2>5. CASE ~(i > Len(x))
    <3>1. PICK children : children = ChildList(manager, x[i])
      OBVIOUS
    <3>2. x[i] \in S
      BY <2>3, <2>5 DEF StartsWith
    <3>3. children \in Seq(S)
      BY <3>1, <3>2, ChildListIs
    <3>4. y = PushAll(x, children)
      BY <2>3, <2>5, <3>1 DEF VisitNode
    <3>5. StartsWith(y, S, root)
      BY <2>3, <3>3, <3>4, PushAllIs
    <3>6. QED
      BY <1>4, <2>2, <3>5
  <2>6. QED
    BY <2>4, <2>5
<1>5. D \subseteq 0..root /\ \A i \in 1..root : i - 1 \in D => i \in D
  BY <1>4
<1>6. \A i \in D : StartsWith(g[i], S, root)
  OBVIOUS
<1> HIDE DEF D
<1>7. 0..root \subseteq D
  BY <1>3, <1>5, AllSteps
<1>8. root \in D
  BY <1>7
<1>9. QED
  BY <1>2, <1>6, <1>8

\* What the nodes below a node have if it has it and passes it on.
LEMMA FlagOfBelow ==
  ASSUME NEW g, AreNodes(nodes[g]), NEW f, NEW root, IsOfFlag(nodes[g], f, root)
  PROVE  \A n \in Below(g, root) : nodes[g][n].flag_index = f
<1>1. PICK S : root \in S /\ IsWhole(nodes[g], S) /\ \A b \in S : nodes[g][b].flag_index = f
  BY DEF IsOfFlag
<1>2. root \in Nat
  <2>1. IsList(nodes[g]) /\ root \in DOMAIN nodes[g]
    BY <1>1 DEF AreNodes, IsWhole
  <2>2. QED
    BY <2>1, ListIs
<1>3. PICK list : list = SerializePsddNodes(g, root)
  OBVIOUS
<1>4. list \in Seq(S)
  BY <1>1, <1>2, <1>3, SerializationIsIn DEF StartsWith
<1>5. Range(list) \subseteq S
  <2>1. IsList(list) /\ \A i \in 1..Len(list) : list[i] \in S
    BY <1>4 DEF IsList
  <2>2. QED
    BY <2>1, ListIs
<1>6. QED
  BY <1>1, <1>3, <1>5 DEF Below

-----------------------------------------------------------------------------
\* An element of an SDD node whose children are known, for the vtree node they are for.
IsKnownElement(v, e) ==
  /\ IsOfFlag(nodes[here], flag, node_map[e.prime])
  /\ nodes[here][node_map[e.prime]].vtree \in Under(tree, tree[v].left)
  /\ ~IsConstant(e.sub) => /\ IsOfFlag(nodes[here], flag, node_map[e.sub])
                           /\ nodes[here][node_map[e.sub]].vtree \in Under(tree, tree[v].right)

LEMMA ConvertElementIs ==
  ASSUME IsForest(tree), NEW v \in DOMAIN tree, ~IsLeaf(tree, v),
         NEW st, IsState(st, flag), GrowsTo(nodes[here], st.nodes), NEW e, IsKnownElement(v, e),
         NEW after, after = ConvertElement(st, v, e)
  PROVE  Follows(st, after, flag)
<1>1. CASE e.sub = SddFalse
  BY <1>1, FollowsItself DEF ConvertElement
<1>2. CASE e.sub # SddFalse
  <2>1. PICK t : t = tree
    OBVIOUS
  <2>2. PICK f : f = flag
    OBVIOUS
  <2>3. PICK p, s : p = node_map[e.prime] /\ s = node_map[e.sub]
    OBVIOUS
  <2>4. PICK ns : ns = nodes[here]
    OBVIOUS
  <2>5. IsForest(t) /\ v \in DOMAIN t /\ t[v].left \in DOMAIN t /\ t[v].right \in DOMAIN t
    BY <2>1 DEF IsForest, ChildrenOf
  <2>6. IsOfFlag(ns, f, p) /\ ns[p].vtree \in Under(t, t[v].left) /\ GrowsTo(ns, st.nodes) /\ IsState(st, f)
    BY <2>1, <2>2, <2>3, <2>4 DEF IsKnownElement
  <2>7. p \in DOMAIN st.nodes /\ st.nodes[p].vtree \in Under(t, t[v].left) /\ IsOfFlag(st.nodes, f, p)
    BY <2>6, FlagHas, FlagStays DEF GrowsTo
  <2>8. PICK prime : prime = NormalizePsddNode(t, st, t[v].left, p, f)
    OBVIOUS
  <2>9. Follows(st, prime, f) /\ prime.elements = st.elements /\ IsOfFlag(prime.nodes, f, prime.node)
    BY <2>5, <2>6, <2>7, <2>8, NormalizeIs
  <2>10. IsState(prime, f) /\ GrowsTo(ns, prime.nodes)
    BY <2>6, <2>9, GrowthIsTransitive DEF Follows
  <2>11. PICK sub : sub = IF e.sub = SddTrue THEN GetTrueNode(t, prime, t[v].right, f)
                          ELSE NormalizePsddNode(t, prime, t[v].right, s, f)
    OBVIOUS
  <2>12. Follows(prime, sub, f) /\ IsOfFlag(sub.nodes, f, sub.node)
    <3>1. CASE e.sub = SddTrue
      <4>1. sub = GetTrueNode(t, prime, t[v].right, f)
        BY <2>11, <3>1
      <4>2. QED
        BY <2>5, <2>10, <4>1, GetTrueNodeIs
    <3>2. CASE e.sub # SddTrue
      <4>1. sub = NormalizePsddNode(t, prime, t[v].right, s, f)
        BY <2>11, <3>2
      <4>2. IsOfFlag(ns, f, s) /\ ns[s].vtree \in Under(t, t[v].right)
        BY <1>2, <2>1, <2>2, <2>3, <2>4, <3>2 DEF IsKnownElement, IsConstant
      <4>3. s \in DOMAIN prime.nodes /\ prime.nodes[s].vtree \in Under(t, t[v].right) /\ IsOfFlag(prime.nodes, f, s)
        BY <2>10, <4>2, FlagHas, FlagStays DEF GrowsTo
      <4>4. QED
        BY <2>5, <2>10, <4>1, <4>3, NormalizeIs
    <3>3. QED
      BY <3>1, <3>2
  <2>13. IsState(sub, f) /\ IsOfFlag(sub.nodes, f, prime.node)
    BY <2>9, <2>12, FlagStays DEF Follows
  <2>14. after = [sub EXCEPT !.elements = Append(@, Element(prime.node, sub.node, One))]
    BY <1>2, <2>1, <2>2, <2>3, <2>8, <2>11 DEF ConvertElement
  <2>15. Follows(sub, after, f)
    BY <2>12, <2>13, <2>14, WithElement
  <2>16. Follows(prime, after, f)
    BY <2>12, <2>15, FollowsIsTransitive
  <2>17. QED
    BY <2>2, <2>9, <2>16, FollowsIsTransitive
<1>3. QED
  BY <1>1, <1>2

\* A pass that keeps its true nodes goes on with them.
LEMMA BegunWithTrueNodes ==
  ASSUME NEW ns, AreNodes(ns), NEW f, NEW map, AreTrueNodes(ns, f, map),
         NEW x, x = [Begun(ns) EXCEPT !.true_node_map = map]
  PROVE  IsState(x, f) /\ x.nodes = ns
<1>1. PICK y : y = Begun(ns)
  OBVIOUS
<1>2. y = [nodes |-> ns, node |-> 0, true_node_map |-> <<>>, elements |-> <<>>]
  BY <1>1 DEF Begun
<1>3. x = [y EXCEPT !.true_node_map = map]
  BY <1>1
<1>4. x = [nodes |-> ns, node |-> 0, true_node_map |-> map, elements |-> <<>>]
  BY <1>2, <1>3
<1>5. x.nodes = ns /\ x.node = 0 /\ x.true_node_map = map /\ x.elements = <<>>
  BY <1>4
<1>6. /\ x = [nodes |-> x.nodes, node |-> x.node, true_node_map |-> x.true_node_map, elements |-> x.elements]
      /\ x.nodes = ns /\ x.true_node_map = map /\ x.elements = <<>>
  BY <1>4, <1>5
<1>7. IsList(<<>>) /\ DOMAIN <<>> = {}
  BY DEF IsList
<1>8. AreElements(ns, f, x.elements)
  BY <1>6, <1>7 DEF AreElements
<1>9. QED
  BY <1>6, <1>8 DEF IsState

LEMMA ConvertElementsIs ==
  ASSUME IsForest(tree), NEW v \in DOMAIN tree, ~IsLeaf(tree, v), AreNodes(nodes[here]),
         AreTrueNodes(nodes[here], flag, true_nodes_map), NEW es, IsList(es),
         \A i \in DOMAIN es : IsKnownElement(v, es[i]), NEW after, after = ConvertElements(v, es)
  PROVE  IsState(after, flag) /\ GrowsTo(nodes[here], after.nodes)
<1>1. PICK n \in Nat : n = Len(es)
  BY ListIs
<1>2. DOMAIN es = 1..n
  BY <1>1, ListIs
<1>3. PICK g : ElementsRun(v, es, g, n)
  BY <1>1, ElementsUnfold
<1>4. /\ \A i \in 0..n : g[i] = IF i = 0 THEN [Begun(nodes[here]) EXCEPT !.true_node_map = true_nodes_map]
                                ELSE ConvertElement(g[i - 1], v, es[i])
      /\ ConvertElements(v, es) = g[n]
  BY <1>3 DEF ElementsRun
<1>5. PICK ns, f, map : ns = nodes[here] /\ f = flag /\ map = true_nodes_map
  OBVIOUS
<1> DEFINE D == {i \in 0..n : IsState(g[i], f) /\ GrowsTo(ns, g[i].nodes)}
<1>6. 0 \in D
  <2>1. PICK x : x = g[0]
    OBVIOUS
  <2>2. x = [Begun(ns) EXCEPT !.true_node_map = map]
    BY <1>4, <1>5, <2>1
  <2>3. AreNodes(ns) /\ AreTrueNodes(ns, f, map)
    BY <1>5
  <2>4. IsState(x, f) /\ x.nodes = ns
    BY <2>2, <2>3, BegunWithTrueNodes
  <2>5. GrowsTo(ns, ns)
    BY DEF GrowsTo
  <2>6. QED
    BY <2>1, <2>4, <2>5
<1>7. ASSUME NEW i \in 1..n, i - 1 \in D
      PROVE  i \in D
  <2>1. PICK x : x = g[i - 1]
    OBVIOUS
  <2>2. PICK y : y = g[i]
    OBVIOUS
  <2>3. PICK e : e = es[i]
    OBVIOUS
  <2>4. IsState(x, flag) /\ GrowsTo(nodes[here], x.nodes)
    BY <1>5, <1>7, <2>1
  <2>5. y = ConvertElement(x, v, e) /\ IsKnownElement(v, e)
    BY <1>2, <1>4, <2>1, <2>2, <2>3
  <2>6. Follows(x, y, flag)
    BY <2>4, <2>5, ConvertElementIs
  <2>7. IsState(y, f) /\ GrowsTo(ns, y.nodes)
    BY <1>5, <2>4, <2>6, GrowthIsTransitive DEF Follows
  <2>8. QED
    BY <2>2, <2>7
<1>8. D \subseteq 0..n /\ \A i \in 1..n : i - 1 \in D => i \in D
  BY <1>7
<1>9. \A i \in D : IsState(g[i], f) /\ GrowsTo(ns, g[i].nodes)
  OBVIOUS
<1> HIDE DEF D
<1>10. 0..n \subseteq D
  BY <1>6, <1>8, AllSteps
<1>11. n \in D
  BY <1>10
<1>12. QED
  BY <1>4, <1>5, <1>9, <1>11

\* What the calls returned, of the nodes ns: a node of its manager, which has the flag of the
\* call with all under it unless it was normalised only.
IsResult(p, i, r, ns) ==
  /\ r.manager = p[i].manager
  /\ r.node # NullNode => r.node \in DOMAIN ns[r.manager]
  /\ r.node # NullNode /\ p[i].op # "NormalizePsddNode" =>
       IsOfFlag(ns[r.manager], p[i].flag_index, r.node)
ResultOf(p, rs, ns, i) == IsResult(p, i, rs[i], ns)
ResultsOf(p, rs, ns) == IsList(rs) /\ \A i \in DOMAIN rs : ResultOf(p, rs, ns, i)

AreNodesOf(ns) == DOMAIN ns = DOMAIN Vtree /\ ns = [g \in DOMAIN Vtree |-> ns[g]] /\ \A g \in DOMAIN Vtree : AreNodes(ns[g])
AllGrow(ns, more) == \A g \in DOMAIN Vtree : GrowsTo(ns[g], more[g])

\* What a product is.
IsProductIn(ns, f, result) == result.node = NullNode \/ IsOfFlag(ns, f, result.node)
AreProducts(ns, f, map) == \A k \in DOMAIN map : IsProductIn(ns, f, map[k])

\* A call of MultiplyWithCache, and one that is at a pair of elements.
IsFrame(ns, f, fr) ==
  /\ fr = [first |-> fr.first, second |-> fr.second, pair |-> fr.pair, prime_result |-> fr.prime_result,
           elements |-> fr.elements, partition |-> fr.partition]
  /\ fr.first \in DOMAIN ns /\ fr.second \in DOMAIN ns /\ fr.pair \in Nat
  /\ fr.pair > 0 => ns[fr.first].type = "decision" /\ ns[fr.second].type = "decision"
  /\ AreElements(ns, f, fr.elements)
  /\ fr.prime_result = <<>> \/ IsOfFlag(ns, f, fr.prime_result[1].node)
IsAtPair(ns, fr) == fr.pair \in 1..Len(ns[fr.first].elements) * Len(ns[fr.second].elements)

\* The stack of the calls, what the last to end returned, and the cache.
AreCalls(ns, f, calls, last, map) ==
  /\ IsList(calls) /\ \A i \in DOMAIN calls : IsFrame(ns, f, calls[i])
  /\ \A i \in DOMAIN calls : i < Len(calls) \/ last # <<>> => IsAtPair(ns, calls[i])
  /\ calls = <<>> => last # <<>>
  /\ last # <<>> => IsProductIn(ns, f, last[1])
  /\ AreProducts(ns, f, map)

\* The invariant.
CallIs(ops) ==
  /\ Len(results) < Len(program) /\ call.op \in ops
  /\ \A i \in call.arguments : IsNodeOf(Result(i))

ProgramIs == program \in Programs /\ Len(results) <= Len(program)
NodesAre == AreNodesOf(nodes)
ResultsAre == ResultsOf(program, results, nodes)

BetweenCalls ==
  pass = "none" => /\ user_data = <<>> /\ construct_cache = <<>> /\ node_map = <<>> /\ true_nodes_map = <<>>
                   /\ returned = <<>> /\ cache = <<>>
ReadIs ==
  pass = "read" => /\ CallIs({"ReadPsddFile"}) /\ user_data = <<>>
                   /\ position \in 1..Len(call.file) + 1
                   /\ AreTrueNodes(nodes[here], flag, construct_cache)
                   /\ position > 1 => call.file[position - 1].number \in DOMAIN construct_cache
ConvertIs ==
  pass = "convert" => /\ CallIs({"ConvertSddToPsdd", "FromSdd", "Compile"}) /\ user_data = <<>>
                      /\ target \in DOMAIN tree /\ IsFiniteSet(DOMAIN sdd_vtree)
                      /\ AreTrueNodes(nodes[here], flag, node_map)
                      /\ AreTrueNodes(nodes[here], flag, true_nodes_map)
WordsAreOfTheList == \A w \in DOMAIN user_data : \E n \in Range(serialized_nodes) : w = <<Source.manager, n>>
LoadIs ==
  pass = "load" => /\ CallIs({"LoadPsddNode"}) /\ WordsAreOfTheList
                   /\ StartsWith(serialized_nodes, DOMAIN nodes[Source.manager], Source.node)
                   /\ position \in 0..Len(serialized_nodes)
                   /\ AreTrueNodes(nodes[here], flag, user_data)
                   /\ \A i \in 1..Len(serialized_nodes) :
                        i > position => <<Source.manager, serialized_nodes[i]>> \in DOMAIN user_data
LogicIs ==
  pass = "logic" => /\ CallIs({"ConvertPsddNodeToSddNode"}) /\ WordsAreOfTheList
                    /\ StartsWith(serialized_nodes, DOMAIN nodes[Source.manager], Source.node)
                    /\ position \in 0..Len(serialized_nodes)
MultiplyIs ==
  pass = "multiply" => /\ CallIs({"Multiply"}) /\ user_data = <<>>
                       /\ AreCalls(nodes[here], flag, stack, returned, cache)

LocalsAre ==
  /\ pass \in {"none", "read", "convert", "load", "logic", "multiply"}
  /\ BetweenCalls /\ ReadIs /\ ConvertIs /\ LoadIs /\ LogicIs /\ MultiplyIs
FlagInvariant == ProgramIs /\ NodesAre /\ ResultsAre /\ LocalsAre

-----------------------------------------------------------------------------
\* The vtree of a manager, and what a call is given.
LEMMA VtreeIs ==
  ASSUME NEW g \in DOMAIN Vtree
  PROVE  /\ IsForest(Vtree[g]) /\ IsFiniteSet(DOMAIN Vtree[g]) /\ RootOf(Vtree[g]) \in DOMAIN Vtree[g]
<1>1. PICK t : t = Vtree[g]
  OBVIOUS
<1>2. IsForest(t) /\ \E root \in DOMAIN t : Under(t, root) = DOMAIN t
  BY <1>1, PsddManagerAssumption DEF IsVtree
<1>3. (CHOOSE v \in DOMAIN t : Under(t, v) = DOMAIN t) \in DOMAIN t
  BY <1>2, Zenon
<1>4. RootOf(t) \in DOMAIN t
  BY <1>3, Zenon DEF RootOf
<1>5. QED
  BY <1>1, <1>2, <1>4 DEF IsForest

LEMMA CallIsOf ==
  ASSUME ProgramIs, ResultsAre, Len(results) < Len(program)
  PROVE  /\ Len(results) \in Nat /\ Len(program) \in Nat /\ DOMAIN results = 1..Len(results)
         /\ here \in DOMAIN Vtree /\ tree = Vtree[here] /\ IsForest(tree) /\ RootOf(tree) \in DOMAIN tree
         /\ IsFiniteSet(DOMAIN tree)
         /\ IsCallOf(program, Len(results) + 1) /\ call.arguments \subseteq 1..Len(results)
<1>1. program \in Seq(Range(program)) /\ \A i \in DOMAIN program : IsCallOf(program, i)
  BY PsddManagerAssumption DEF ProgramIs
<1>2. Len(results) \in Nat /\ DOMAIN results = 1..Len(results)
  BY ListIs DEF ResultsAre, ResultsOf
<1>3. Len(program) \in Nat /\ Len(results) + 1 \in DOMAIN program
  BY <1>1, <1>2
<1>4. IsCallOf(program, Len(results) + 1)
  BY <1>1, <1>3
<1>5. call.manager \in DOMAIN Vtree /\ call.arguments \subseteq 1..Len(results) + 1 - 1
  BY <1>4 DEF IsCallOf, call
<1>6. here \in DOMAIN Vtree /\ tree = Vtree[here]
  BY <1>5 DEF here, tree
<1>7. QED
  BY <1>2, <1>3, <1>4, <1>5, <1>6, VtreeIs

\* An argument is a node of its manager.
LEMMA ArgumentIs ==
  ASSUME ProgramIs, NodesAre, ResultsAre, Len(results) < Len(program), NEW i \in call.arguments, IsNodeOf(Result(i))
  PROVE  /\ results[i].manager \in DOMAIN Vtree /\ results[i].node \in DOMAIN nodes[results[i].manager]
         /\ results[i].node \in Nat
         /\ call.op # "LoadPsddNode" => results[i].manager = here
<1>1. i \in DOMAIN results /\ i \in DOMAIN program /\ i \in 1..Len(results)
  <2>1. program \in Seq(Range(program))
    BY PsddManagerAssumption DEF ProgramIs
  <2>2. QED
    BY <2>1, CallIsOf
<1>2. ResultOf(program, results, nodes, i)
  BY <1>1 DEF ResultsAre, ResultsOf
<1>3. results[i].manager = program[i].manager /\ results[i].node \in DOMAIN nodes[results[i].manager]
  BY <1>2 DEF ResultOf, IsResult, IsNodeOf, Result
<1>4. IsCallOf(program, i)
  BY <1>1, PsddManagerAssumption DEF ProgramIs
<1>5. program[i].manager \in DOMAIN Vtree
  BY <1>4 DEF IsCallOf
<1>6. IsList(nodes[results[i].manager])
  BY <1>3, <1>5 DEF NodesAre, AreNodesOf, AreNodes
<1>7. call.op # "LoadPsddNode" => program[i].manager = here
  <2>1. IsCallOf(program, Len(results) + 1)
    BY CallIsOf
  <2>2. QED
    BY <2>1 DEF IsCallOf, call, here
<1>8. QED
  BY <1>3, <1>5, <1>6, <1>7, ListIs

-----------------------------------------------------------------------------
\* What the nodes of a call keep when it makes more.
MakesAt(ns, g, own, more) == more = [ns EXCEPT ![g] = own]

LEMMA MadeGrows ==
  ASSUME NEW ns, AreNodesOf(ns), NEW g \in DOMAIN Vtree, NEW own, AreNodes(own), GrowsTo(ns[g], own),
         NEW more, MakesAt(ns, g, own, more)
  PROVE  AreNodesOf(more) /\ AllGrow(ns, more) /\ more[g] = own
<1>1. \A h \in DOMAIN Vtree : more[h] = IF h = g THEN own ELSE ns[h]
  BY DEF AreNodesOf, MakesAt
<1>2. more = [h \in DOMAIN Vtree |-> more[h]] /\ DOMAIN more = DOMAIN Vtree
  BY DEF AreNodesOf, MakesAt
<1>3. \A h \in DOMAIN Vtree : AreNodes(more[h])
  BY <1>1 DEF AreNodesOf
<1>4. \A h \in DOMAIN Vtree : GrowsTo(ns[h], more[h])
  BY <1>1 DEF GrowsTo
<1>5. QED
  BY <1>1, <1>2, <1>3, <1>4 DEF AreNodesOf, AllGrow

LEMMA AllStay ==
  ASSUME NEW ns
  PROVE  AllGrow(ns, ns)
BY DEF AllGrow, GrowsTo

LEMMA ResultsStay ==
  ASSUME NEW p, NEW rs, NEW ns, NEW more, ResultsOf(p, rs, ns), AllGrow(ns, more),
         \A i \in DOMAIN rs : p[i].manager \in DOMAIN Vtree
  PROVE  ResultsOf(p, rs, more)
<1>1. ASSUME NEW i \in DOMAIN rs
      PROVE  ResultOf(p, rs, more, i)
  <2>1. ResultOf(p, rs, ns, i) /\ IsList(rs)
    BY DEF ResultsOf
  <2>2. GrowsTo(ns[rs[i].manager], more[rs[i].manager])
    BY <2>1 DEF AllGrow, ResultOf, IsResult
  <2>3. rs[i].node # NullNode => rs[i].node \in DOMAIN more[rs[i].manager]
    BY <2>1, <2>2 DEF ResultOf, IsResult, GrowsTo
  <2>4. rs[i].node # NullNode /\ p[i].op # "NormalizePsddNode" =>
           IsOfFlag(more[rs[i].manager], p[i].flag_index, rs[i].node)
    BY <2>1, <2>2, FlagStays DEF ResultOf, IsResult
  <2>5. QED
    BY <2>1, <2>3, <2>4 DEF ResultOf, IsResult
<1>2. QED
  BY <1>1 DEF ResultsOf

LEMMA OneMoreResult ==
  ASSUME NEW p, NEW rs, NEW ns, ResultsOf(p, rs, ns), NEW r, IsResult(p, Len(rs) + 1, r, ns),
         NEW more, more = Append(rs, r)
  PROVE  ResultsOf(p, more, ns) /\ Len(more) = Len(rs) + 1
<1>1. IsList(rs) /\ \A i \in DOMAIN rs : ResultOf(p, rs, ns, i)
  BY DEF ResultsOf
<1>2. /\ IsList(more) /\ Len(more) = Len(rs) + 1 /\ more[Len(rs) + 1] = r /\ DOMAIN more = 1..Len(rs) + 1
      /\ \A i \in DOMAIN rs : more[i] = rs[i]
      /\ DOMAIN rs = 1..Len(rs) /\ Len(rs) \in Nat
  BY <1>1, AppendIsList, ListIs
<1>3. ASSUME NEW i \in DOMAIN more
      PROVE  ResultOf(p, more, ns, i)
  <2>1. CASE i \in DOMAIN rs
    <3>1. ResultOf(p, rs, ns, i) /\ more[i] = rs[i]
      BY <1>1, <1>2, <2>1
    <3>2. QED
      BY <3>1 DEF ResultOf, IsResult
  <2>2. CASE i \notin DOMAIN rs
    <3>1. i = Len(rs) + 1 /\ more[i] = r
      BY <1>2, <2>2
    <3>2. QED
      BY <3>1 DEF ResultOf, IsResult
  <2>3. QED
    BY <2>1, <2>2
<1>4. QED
  BY <1>2, <1>3 DEF ResultsOf

\* What a map of a call keeps.
LEMMA AssignedHas ==
  ASSUME NEW ns, NEW f, NEW map, AreTrueNodes(ns, f, map), NEW k, NEW a, IsOfFlag(ns, f, a)
  PROVE  AreTrueNodes(ns, f, Assigned(map, k, a)) /\ DOMAIN Assigned(map, k, a) = DOMAIN map \cup {k}
<1>1. PICK more : more = Assigned(map, k, a)
  OBVIOUS
<1>2. DOMAIN more = DOMAIN map \cup {k} /\ \A j \in DOMAIN more : more[j] = IF j = k THEN a ELSE map[j]
  BY <1>1 DEF Assigned
<1>3. \A j \in DOMAIN map : IsOfFlag(ns, f, map[j])
  BY DEF AreTrueNodes
<1>4. \A j \in DOMAIN more : IsOfFlag(ns, f, more[j])
  BY <1>2, <1>3
<1>5. QED
  BY <1>1, <1>2, <1>4 DEF AreTrueNodes

-----------------------------------------------------------------------------
\* A call that returns, and one that goes on, keep the invariant of the client's results.
LEMMA ReturnKeeps ==
  ASSUME ProgramIs, ResultsAre, Len(results) < Len(program), NodesAre', AllGrow(nodes, nodes'),
         NEW node, NEW value, Returns(node, value), user_data' = <<>>,
         node # NullNode => node \in DOMAIN nodes'[here],
         node # NullNode /\ call.op # "NormalizePsddNode" => IsOfFlag(nodes'[here], flag, node)
  PROVE  FlagInvariant'
<1>1. PICK p, rs, ns, more, rs2 : p = program /\ rs = results /\ ns = nodes /\ more = nodes' /\ rs2 = results'
  OBVIOUS
<1>2. \A i \in DOMAIN rs : p[i].manager \in DOMAIN Vtree
  <2>1. program \in Seq(Range(program)) /\ \A i \in DOMAIN program : IsCallOf(program, i)
    BY PsddManagerAssumption DEF ProgramIs
  <2>2. \A i \in DOMAIN results : i \in DOMAIN program
    BY <2>1, CallIsOf
  <2>3. QED
    BY <1>1, <2>1, <2>2 DEF IsCallOf
<1>3. ResultsOf(p, rs, more)
  BY <1>1, <1>2, ResultsStay DEF ResultsAre
<1>4. PICK r : r = [manager |-> here, node |-> node, value |-> value]
  OBVIOUS
<1>5. PICK n : n = Len(rs) + 1
  OBVIOUS
<1>6. r.manager = here /\ r.node = node
  BY <1>4
<1>7. here = p[n].manager /\ call.op = p[n].op /\ flag = p[n].flag_index
  BY <1>1, <1>5 DEF here, call, flag
<1>8. rs2 = Append(rs, r)
  BY <1>1, <1>4 DEF Returns
<1>9. ResultsOf(p, rs2, more) /\ Len(rs2) = Len(rs) + 1
  <2>1. r.manager = p[n].manager
    BY <1>6, <1>7
  <2>2. r.node # NullNode => r.node \in DOMAIN more[r.manager]
    BY <1>1, <1>6
  <2>3. r.node # NullNode /\ p[n].op # "NormalizePsddNode" => IsOfFlag(more[r.manager], p[n].flag_index, r.node)
    BY <1>1, <1>6, <1>7
  <2>4. QED
    <3>1. IsResult(p, Len(rs) + 1, r, more)
      BY <1>5, <2>1, <2>2, <2>3 DEF IsResult
    <3>2. QED
      BY <1>3, <1>8, <3>1, OneMoreResult
<1>10. program' = program /\ pass' = "none" /\ ForgetLocals
  BY DEF Returns
<1>11. ProgramIs'
  BY <1>1, <1>9, <1>10, CallIsOf DEF ProgramIs
<1>12. ResultsAre'
  BY <1>1, <1>9, <1>10 DEF ResultsAre
<1>13. LocalsAre'
  BY <1>10 DEF ForgetLocals, LocalsAre, BetweenCalls, ReadIs, ConvertIs, LoadIs, LogicIs, MultiplyIs
<1>14. QED
  BY <1>11, <1>12, <1>13 DEF FlagInvariant

LEMMA OngoingKeeps ==
  ASSUME ProgramIs, ResultsAre, Len(results) < Len(program), AllGrow(nodes, nodes'), UNCHANGED clientVars
  PROVE  /\ ProgramIs' /\ ResultsAre' /\ call' = call /\ here' = here /\ tree' = tree /\ flag' = flag
         /\ \A ops : CallIs(ops) => CallIs(ops)'
<1>1. program' = program /\ results' = results
  BY DEF clientVars
<1>2. call' = call /\ here' = here /\ tree' = tree /\ flag' = flag
  BY <1>1 DEF call, here, tree, flag
<1>3. PICK p, rs, ns, more : p = program /\ rs = results /\ ns = nodes /\ more = nodes'
  OBVIOUS
<1>4. \A i \in DOMAIN rs : p[i].manager \in DOMAIN Vtree
  <2>1. program \in Seq(Range(program)) /\ \A i \in DOMAIN program : IsCallOf(program, i)
    BY PsddManagerAssumption DEF ProgramIs
  <2>2. \A i \in DOMAIN results : i \in DOMAIN program
    BY <2>1, CallIsOf
  <2>3. QED
    BY <1>3, <2>1, <2>2 DEF IsCallOf
<1>5. ResultsOf(p, rs, more)
  BY <1>3, <1>4, ResultsStay DEF ResultsAre
<1>6. ResultsAre'
  BY <1>1, <1>3, <1>5 DEF ResultsAre
<1>7. \A ops : CallIs(ops) => CallIs(ops)'
  BY <1>1, <1>2 DEF CallIs, IsNodeOf, Result
<1>8. QED
  BY <1>1, <1>2, <1>6, <1>7 DEF ProgramIs

-----------------------------------------------------------------------------
\* The invariant holds before the first call.
LEMMA InitHas ==
  ASSUME ManagerInit
  PROVE  FlagInvariant
<1>1. \A p \in Programs : Len(p) \in Nat
  BY PsddManagerAssumption
<1>2. IsList(<<>>) /\ DOMAIN <<>> = {} /\ Len(<<>>) = 0
  BY DEF IsList
<1>3. ProgramIs
  BY <1>1, <1>2 DEF ManagerInit, ProgramIs
<1>4. AreNodes(<<>>)
  BY <1>2 DEF AreNodes, IsWhole
<1>5. NodesAre
  BY <1>4 DEF ManagerInit, NodesAre, AreNodesOf
<1>6. ResultsAre
  BY <1>2 DEF ManagerInit, ResultsAre, ResultsOf
<1>7. LocalsAre
  BY DEF ManagerInit, LocalsAre, BetweenCalls, ReadIs, ConvertIs, LoadIs, LogicIs, MultiplyIs
<1>8. QED
  BY <1>3, <1>5, <1>6, <1>7 DEF FlagInvariant

\* A step that makes nodes of the manager of the call.
LEMMA MadeIs ==
  ASSUME FlagInvariant, Len(results) < Len(program), NEW st, IsState(st, flag), GrowsTo(nodes[here], st.nodes), Made(st)
  PROVE  NodesAre' /\ AllGrow(nodes, nodes') /\ nodes'[here] = st.nodes /\ AreNodes(st.nodes)
<1>1. here \in DOMAIN Vtree
  BY CallIsOf DEF FlagInvariant
<1>2. PICK ns, g, own, more : ns = nodes /\ g = here /\ own = st.nodes /\ more = nodes'
  OBVIOUS
<1>3. AreNodesOf(ns) /\ g \in DOMAIN Vtree /\ AreNodes(own) /\ GrowsTo(ns[g], own)
  BY <1>1, <1>2 DEF FlagInvariant, NodesAre, IsState
<1>4. MakesAt(ns, g, own, more)
  BY <1>2 DEF Made, MakesAt
<1>5. AreNodesOf(more) /\ AllGrow(ns, more) /\ more[g] = own
  BY <1>3, <1>4, MadeGrows
<1>6. QED
  BY <1>2, <1>3, <1>5 DEF NodesAre

\* A state a call begins with.
LEMMA BegunHere ==
  ASSUME FlagInvariant, Len(results) < Len(program), NEW st, st = Begun(nodes[here])
  PROVE  /\ IsState(st, flag) /\ st.nodes = nodes[here] /\ GrowsTo(nodes[here], st.nodes)
         /\ AreNodes(nodes[here])
<1>1. AreNodes(nodes[here])
  BY CallIsOf DEF FlagInvariant, NodesAre, AreNodesOf
<1>2. PICK ns, f : ns = nodes[here] /\ f = flag
  OBVIOUS
<1>3. IsState(st, f) /\ st.nodes = ns
  BY <1>1, <1>2, BegunIs
<1>4. QED
  BY <1>1, <1>2, <1>3 DEF GrowsTo

-----------------------------------------------------------------------------
\* The calls of one step.
LEMMA TrueNodeKeeps ==
  ASSUME FlagInvariant, TrueNode
  PROVE  FlagInvariant'
<1>1. CanCall("GetTrueNode") /\ Len(results) < Len(program) /\ pass = "none" /\ call.op = "GetTrueNode"
  BY DEF TrueNode, CanCall
<1>2. PICK t, f, v, begun : t = tree /\ f = flag /\ v = call.target /\ begun = Begun(nodes[here])
  OBVIOUS
<1>3. IsForest(t) /\ IsCallOf(program, Len(results) + 1)
  BY <1>1, <1>2, CallIsOf DEF FlagInvariant
<1>4. v \in DOMAIN t
  BY <1>1, <1>2, <1>3 DEF IsCallOf, call, tree, here
<1>5. IsState(begun, f) /\ GrowsTo(nodes[here], begun.nodes)
  BY <1>1, <1>2, BegunHere
<1>6. PICK st : st = GetTrueNode(t, begun, v, f)
  OBVIOUS
<1>7. Made(st) /\ Returns(st.node, One) /\ user_data' = user_data
  BY <1>2, <1>6 DEF TrueNode
<1>8. Follows(begun, st, f) /\ IsOfFlag(st.nodes, f, st.node)
  BY <1>3, <1>4, <1>5, <1>6, GetTrueNodeIs
<1>9. IsState(st, flag) /\ GrowsTo(nodes[here], st.nodes)
  BY <1>2, <1>5, <1>8, GrowthIsTransitive DEF Follows
<1>10. NodesAre' /\ AllGrow(nodes, nodes') /\ nodes'[here] = st.nodes
  BY <1>1, <1>7, <1>9, MadeIs
<1>11. user_data' = <<>>
  BY <1>1, <1>7 DEF FlagInvariant, LocalsAre, BetweenCalls
<1>12. st.node \in DOMAIN nodes'[here] /\ IsOfFlag(nodes'[here], flag, st.node)
  BY <1>2, <1>8, <1>10, FlagHas
<1>13. QED
  BY <1>1, <1>7, <1>10, <1>11, <1>12, ReturnKeeps DEF FlagInvariant

LEMMA NormalizeKeeps ==
  ASSUME FlagInvariant, AssertionsHold, Normalize
  PROVE  FlagInvariant'
<1>1. /\ CanCall("NormalizePsddNode") /\ Len(results) < Len(program) /\ pass = "none" /\ call.op = "NormalizePsddNode"
      /\ \A i \in call.arguments : IsNodeOf(Result(i))
  BY DEF Normalize, CanCall
<1>2. PICK t, f, v, begun, a : t = tree /\ f = flag /\ v = call.target /\ begun = Begun(nodes[here]) /\ a = Result(call.first).node
  OBVIOUS
<1>3. IsForest(t) /\ IsCallOf(program, Len(results) + 1)
  BY <1>1, <1>2, CallIsOf DEF FlagInvariant
<1>4. v \in DOMAIN t /\ call.first \in call.arguments
  BY <1>1, <1>2, <1>3 DEF IsCallOf, call, tree, here
<1>5. IsState(begun, f) /\ GrowsTo(nodes[here], begun.nodes) /\ begun.nodes = nodes[here]
  BY <1>1, <1>2, BegunHere
<1>6. a \in DOMAIN nodes[here]
  BY <1>1, <1>2, <1>4, ArgumentIs DEF FlagInvariant, Result
<1>7. nodes[here][a].vtree \in Under(t, v)
  BY <1>1, <1>2, <1>4 DEF AssertionsHold, NormalizeAsserts, VtreeIn
<1>8. PICK st : st = NormalizePsddNode(t, begun, v, a, f)
  OBVIOUS
<1>9. Made(st) /\ Returns(st.node, One) /\ user_data' = user_data
  BY <1>2, <1>8 DEF Normalize
<1>10. Follows(begun, st, f) /\ st.node \in DOMAIN st.nodes
  BY <1>3, <1>4, <1>5, <1>6, <1>7, <1>8, NormalizeIs
<1>11. IsState(st, flag) /\ GrowsTo(nodes[here], st.nodes)
  BY <1>2, <1>5, <1>10, GrowthIsTransitive DEF Follows
<1>12. NodesAre' /\ AllGrow(nodes, nodes') /\ nodes'[here] = st.nodes
  BY <1>1, <1>9, <1>11, MadeIs
<1>13. user_data' = <<>>
  BY <1>1, <1>9 DEF FlagInvariant, LocalsAre, BetweenCalls
<1>14. QED
  BY <1>1, <1>9, <1>10, <1>12, <1>13, ReturnKeeps DEF FlagInvariant

-----------------------------------------------------------------------------
\* The steps of ReadPsddFile.
LEMMA BeginReadKeeps ==
  ASSUME FlagInvariant, BeginRead
  PROVE  FlagInvariant'
<1>1. CallIs({"ReadPsddFile"}) /\ pass = "none" /\ Len(results) < Len(program) /\ call.op = "ReadPsddFile"
  BY DEF BeginRead, CanCall, CallIs
<1>2. /\ pass' = "read" /\ position' = 1 /\ nodes' = nodes /\ user_data' = user_data
      /\ construct_cache' = construct_cache /\ UNCHANGED clientVars
  BY DEF BeginRead
<1>3. user_data = <<>> /\ construct_cache = <<>>
  BY <1>1 DEF FlagInvariant, LocalsAre, BetweenCalls
<1>4. AllGrow(nodes, nodes')
  BY <1>2, AllStay
<1>5. /\ ProgramIs' /\ ResultsAre' /\ call' = call /\ here' = here /\ flag' = flag
      /\ CallIs({"ReadPsddFile"})'
  BY <1>1, <1>2, <1>4, OngoingKeeps DEF FlagInvariant
<1>6. Len(call.file) \in Nat
  <2>1. IsCallOf(program, Len(results) + 1)
    BY <1>1, CallIsOf DEF FlagInvariant
  <2>2. IsFile(call.file)
    BY <1>1, <2>1 DEF IsCallOf, call
  <2>3. QED
    BY <2>2 DEF IsFile
<1>7. AreTrueNodes(nodes[here], flag, construct_cache)
  BY <1>3 DEF AreTrueNodes
<1>8. ReadIs'
  BY <1>2, <1>3, <1>5, <1>6, <1>7 DEF ReadIs
<1>9. LocalsAre'
  BY <1>2, <1>8 DEF LocalsAre, BetweenCalls, ConvertIs, LoadIs, LogicIs, MultiplyIs
<1>10. QED
  BY <1>2, <1>5, <1>9 DEF FlagInvariant, NodesAre

LEMMA EndReadKeeps ==
  ASSUME FlagInvariant, EndRead
  PROVE  FlagInvariant'
<1>1. pass = "read" /\ ReadIs
  BY DEF EndRead, FlagInvariant, LocalsAre
<1>2. /\ CallIs({"ReadPsddFile"}) /\ Len(results) < Len(program) /\ call.op = "ReadPsddFile" /\ user_data = <<>>
      /\ position \in 1..Len(call.file) + 1 /\ AreTrueNodes(nodes[here], flag, construct_cache)
      /\ position > 1 => call.file[position - 1].number \in DOMAIN construct_cache
  BY <1>1 DEF ReadIs, CallIs
<1>3. Len(call.file) \in Nat \ {0}
  <2>1. IsCallOf(program, Len(results) + 1)
    BY <1>2, CallIsOf DEF FlagInvariant
  <2>2. IsFile(call.file)
    BY <1>2, <2>1 DEF IsCallOf, call
  <2>3. QED
    BY <2>2 DEF IsFile
<1>4. position = Len(call.file) + 1
  BY <1>2, <1>3 DEF EndRead
<1>5. PICK a : a = construct_cache[call.file[Len(call.file)].number]
  OBVIOUS
<1>6. IsOfFlag(nodes[here], flag, a)
  BY <1>2, <1>3, <1>4, <1>5 DEF AreTrueNodes
<1>7. Returns(a, One) /\ nodes' = nodes /\ user_data' = <<>>
  BY <1>2, <1>5 DEF EndRead
<1>8. a \in DOMAIN nodes'[here] /\ IsOfFlag(nodes'[here], flag, a)
  BY <1>6, <1>7, FlagHas
<1>9. AllGrow(nodes, nodes') /\ NodesAre'
  BY <1>7, AllStay DEF FlagInvariant, NodesAre
<1>10. QED
  BY <1>2, <1>7, <1>8, <1>9, ReturnKeeps DEF FlagInvariant

\* A step that makes nodes and does not return.
LEMMA MakingKeeps ==
  ASSUME FlagInvariant, Len(results) < Len(program), NEW st, IsState(st, flag), GrowsTo(nodes[here], st.nodes), Made(st),
         UNCHANGED clientVars
  PROVE  /\ ProgramIs' /\ NodesAre' /\ ResultsAre' /\ AllGrow(nodes, nodes')
         /\ call' = call /\ here' = here /\ tree' = tree /\ flag' = flag /\ nodes'[here'] = st.nodes
         /\ \A ops : CallIs(ops) => CallIs(ops)'
<1>1. NodesAre' /\ AllGrow(nodes, nodes') /\ nodes'[here] = st.nodes
  BY MadeIs
<1>2. /\ ProgramIs' /\ ResultsAre' /\ call' = call /\ here' = here /\ tree' = tree /\ flag' = flag
      /\ \A ops : CallIs(ops) => CallIs(ops)'
  BY <1>1, OngoingKeeps DEF FlagInvariant
<1>3. nodes'[here'] = st.nodes
  BY <1>1, <1>2
<1>4. QED
  BY <1>1, <1>2, <1>3

\* Elements made of the values of a map.
LEMMA ElementsOfMap ==
  ASSUME NEW ns, NEW f, NEW es, IsList(es), NEW more, DOMAIN more = DOMAIN es, more = [i \in DOMAIN es |-> more[i]],
         \A i \in DOMAIN es : \E p, s, w : /\ more[i] = Element(p, s, w) /\ IsOfFlag(ns, f, p) /\ IsOfFlag(ns, f, s)
  PROVE  AreElements(ns, f, more)
<1>1. PICK n \in Nat : n = Len(es)
  BY ListIs
<1>2. DOMAIN es = 1..n
  BY <1>1, ListIs
<1>3. IsList(more)
  BY <1>2, FunctionIsList
<1>4. ASSUME NEW i \in DOMAIN more
      PROVE  /\ more[i] = Element(more[i].prime, more[i].sub, more[i].parameter)
             /\ IsOfFlag(ns, f, more[i].prime) /\ IsOfFlag(ns, f, more[i].sub)
  <2>1. PICK p, s, w : more[i] = Element(p, s, w) /\ IsOfFlag(ns, f, p) /\ IsOfFlag(ns, f, s)
    BY <1>4
  <2>2. PICK e : e = more[i]
    OBVIOUS
  <2>3. e.prime = p /\ e.sub = s /\ e = Element(e.prime, e.sub, e.parameter)
    BY <2>1, <2>2 DEF Element
  <2>4. QED
    BY <2>1, <2>2, <2>3
<1>5. QED
  BY <1>3, <1>4 DEF AreElements

\* The elements that a line gives, once its children are known.
LEMMA ElementsOfLine ==
  ASSUME FlagInvariant, AssertionsHold, pass = "read", position <= Len(call.file), Line.kind = "D"
  PROVE  AreElements(nodes[here], flag, LineElements(Line)) /\ CanConform(tree, nodes[here], LineElements(Line))
<1>1. /\ Len(results) < Len(program) /\ call.op = "ReadPsddFile"
      /\ position \in 1..Len(call.file) + 1 /\ AreTrueNodes(nodes[here], flag, construct_cache)
  BY DEF FlagInvariant, LocalsAre, ReadIs, CallIs
<1>2. IsCallOf(program, Len(results) + 1)
  BY <1>1, CallIsOf DEF FlagInvariant
<1>3. IsFile(call.file)
  BY <1>1, <1>2 DEF IsCallOf, call
<1>4. Line.elements \in Seq(Range(Line.elements))
  BY <1>1, <1>3 DEF IsFile, Line
<1>5. PICK t, f, ns, map, lines, es : /\ t = tree /\ f = flag /\ ns = nodes[here] /\ map = construct_cache
                                      /\ lines = Line.elements /\ es = LineElements(Line)
  OBVIOUS
<1>6. /\ \A i \in DOMAIN lines : {lines[i].prime, lines[i].sub} \subseteq DOMAIN map
      /\ CanConform(t, ns, es)
  BY <1>5 DEF AssertionsHold, ReadAsserts
<1>7. IsList(lines)
  BY <1>4, <1>5 DEF IsList
<1>8. es = [i \in DOMAIN lines |-> Element(map[lines[i].prime], map[lines[i].sub], lines[i].weight)]
  BY <1>5 DEF LineElements
<1>9. ASSUME NEW i \in DOMAIN lines
      PROVE  \E p, s, w : es[i] = Element(p, s, w) /\ IsOfFlag(ns, f, p) /\ IsOfFlag(ns, f, s)
  <2>1. es[i] = Element(map[lines[i].prime], map[lines[i].sub], lines[i].weight)
    BY <1>8
  <2>2. IsOfFlag(ns, f, map[lines[i].prime]) /\ IsOfFlag(ns, f, map[lines[i].sub])
    BY <1>1, <1>5, <1>6 DEF AreTrueNodes
  <2>3. QED
    BY <2>1, <2>2, Zenon
<1>10. DOMAIN es = DOMAIN lines /\ es = [i \in DOMAIN lines |-> es[i]]
  BY <1>8
<1>11. AreElements(ns, f, es)
  BY <1>7, <1>9, <1>10, ElementsOfMap
<1>12. QED
  BY <1>5, <1>6, <1>11

LEMMA NodeOfLineIs ==
  ASSUME FlagInvariant, AssertionsHold, pass = "read", position <= Len(call.file), NEW st, st = NodeOfLine
  PROVE  IsState(st, flag) /\ GrowsTo(nodes[here], st.nodes) /\ IsOfFlag(st.nodes, flag, st.node)
<1>1. /\ CallIs({"ReadPsddFile"}) /\ Len(results) < Len(program) /\ call.op = "ReadPsddFile"
      /\ position \in 1..Len(call.file) + 1 /\ AreTrueNodes(nodes[here], flag, construct_cache)
  BY DEF FlagInvariant, LocalsAre, ReadIs, CallIs
<1>2. PICK t, f, ns, begun : t = tree /\ f = flag /\ ns = nodes[here] /\ begun = Begun(nodes[here])
  OBVIOUS
<1>3. IsForest(t) /\ IsCallOf(program, Len(results) + 1)
  BY <1>1, <1>2, CallIsOf DEF FlagInvariant
<1>4. IsFile(call.file)
  BY <1>1, <1>3 DEF IsCallOf, call
<1>5. Line.kind \in {"L", "T", "D"} /\ (Line.kind = "D" => Line.elements \in Seq(Range(Line.elements)))
  BY <1>1, <1>4 DEF IsFile, Line
<1>6. IsState(begun, f) /\ begun.nodes = ns /\ AreNodes(ns)
  BY <1>1, <1>2, BegunHere
<1>7. CASE Line.kind = "L"
  <2>1. PICK v, sign : v = LeafOf(tree, Line.variable) /\ sign = Line.sign
    OBVIOUS
  <2>2. st = GetUniqueNode(begun, LiteralNode(v, sign, f))
    BY <1>2, <1>7, <2>1 DEF NodeOfLine
  <2>3. Follows(begun, st, f) /\ IsOfFlag(st.nodes, f, st.node)
    BY <1>6, <2>2, UniqueLiteral
  <2>4. QED
    BY <1>2, <1>6, <2>3 DEF Follows
<1>8. CASE Line.kind = "T"
  <2>1. PICK v, positive, negative : v = LeafOf(tree, Line.variable) /\ positive = Line.weights[2] /\ negative = Line.weights[1]
    OBVIOUS
  <2>2. st = GetUniqueNode(begun, TopNode(v, positive, negative, f))
    BY <1>2, <1>8, <2>1 DEF NodeOfLine
  <2>3. Follows(begun, st, f) /\ IsOfFlag(st.nodes, f, st.node)
    BY <1>6, <2>2, UniqueTop
  <2>4. QED
    BY <1>2, <1>6, <2>3 DEF Follows
<1>9. CASE Line.kind = "D"
  <2>1. PICK es : es = LineElements(Line)
    OBVIOUS
  <2>2. AreElements(ns, f, es) /\ CanConform(t, ns, es)
    BY <1>2, <1>9, <2>1, ElementsOfLine
  <2>3. st = GetConformedPsddDecisionNode(t, ns, es, f)
    BY <1>2, <1>9, <2>1 DEF NodeOfLine
  <2>4. IsState(st, f) /\ GrowsTo(ns, st.nodes) /\ IsOfFlag(st.nodes, f, st.node)
    BY <1>3, <1>6, <2>2, <2>3, GetConformedIs
  <2>5. QED
    BY <1>2, <2>4
<1>10. QED
  BY <1>5, <1>7, <1>8, <1>9

LEMMA ReadLineKeeps ==
  ASSUME FlagInvariant, AssertionsHold, ReadLine
  PROVE  FlagInvariant'
<1>1. pass = "read" /\ position <= Len(call.file)
  BY DEF ReadLine
<1>2. /\ CallIs({"ReadPsddFile"}) /\ Len(results) < Len(program) /\ user_data = <<>>
      /\ position \in 1..Len(call.file) + 1 /\ AreTrueNodes(nodes[here], flag, construct_cache)
  BY <1>1 DEF FlagInvariant, LocalsAre, ReadIs, CallIs
<1>3. PICK st : st = NodeOfLine
  OBVIOUS
<1>4. IsState(st, flag) /\ GrowsTo(nodes[here], st.nodes) /\ IsOfFlag(st.nodes, flag, st.node)
  BY <1>1, <1>3, NodeOfLineIs
<1>5. /\ Made(st) /\ construct_cache' = Assigned(construct_cache, Line.number, st.node) /\ position' = position + 1
      /\ user_data' = user_data /\ pass' = pass /\ UNCHANGED clientVars
  BY <1>3 DEF ReadLine
<1>6. /\ ProgramIs' /\ NodesAre' /\ ResultsAre' /\ call' = call /\ here' = here /\ flag' = flag /\ nodes'[here'] = st.nodes
      /\ CallIs({"ReadPsddFile"})'
  BY <1>2, <1>4, <1>5, MakingKeeps
<1>7. PICK ns, f, map, k, a, more : ns = nodes[here] /\ f = flag /\ map = construct_cache /\ k = Line.number
                                    /\ a = st.node /\ more = construct_cache'
  OBVIOUS
<1>8. AreTrueNodes(st.nodes, f, map)
  BY <1>2, <1>4, <1>7, TrueNodesStay
<1>9. AreTrueNodes(st.nodes, f, more) /\ DOMAIN more = DOMAIN map \cup {k}
  <2>1. more = Assigned(map, k, a) /\ IsOfFlag(st.nodes, f, a)
    BY <1>4, <1>5, <1>7
  <2>2. AreTrueNodes(st.nodes, f, Assigned(map, k, a)) /\ DOMAIN Assigned(map, k, a) = DOMAIN map \cup {k}
    <3>1. PICK after : after = st.nodes
      OBVIOUS
    <3>2. AreTrueNodes(after, f, map) /\ IsOfFlag(after, f, a)
      BY <1>8, <2>1, <3>1
    <3>3. AreTrueNodes(after, f, Assigned(map, k, a))
      BY <3>2, AssignedHas
    <3>4. DOMAIN Assigned(map, k, a) = DOMAIN map \cup {k}
      BY <3>2, AssignedHas
    <3>5. QED
      BY <3>1, <3>3, <3>4
  <2>3. QED
    BY <2>1, <2>2
<1>10. call.file[position' - 1].number \in DOMAIN construct_cache'
  <2>1. position' - 1 = position
    BY <1>2, <1>5
  <2>2. call.file[position].number = k
    BY <1>7 DEF Line
  <2>3. QED
    BY <1>7, <1>9, <2>1, <2>2
<1>11. position' \in 1..Len(call.file) + 1
  BY <1>1, <1>2, <1>5, CallIsOf DEF FlagInvariant
<1>12. AreTrueNodes(nodes'[here'], flag', construct_cache')
  BY <1>6, <1>7, <1>9
<1>13. ReadIs'
  BY <1>2, <1>5, <1>6, <1>10, <1>11, <1>12 DEF ReadIs
<1>14. LocalsAre'
  BY <1>1, <1>5, <1>13 DEF LocalsAre, BetweenCalls, ConvertIs, LoadIs, LogicIs, MultiplyIs
<1>15. QED
  BY <1>6, <1>14 DEF FlagInvariant

SddCalls == {"ConvertSddToPsdd", "FromSdd", "Compile"}

\* The steps of ConvertSddToPsdd, FromSdd and Compile.
LEMMA BeginSddKeeps ==
  ASSUME FlagInvariant, pass = "none", CallIs(SddCalls), NEW sdd, NEW copy, NEW v, v \in DOMAIN tree,
         IsFiniteSet(DOMAIN copy), BeginSdd(sdd, copy, v), user_data' = user_data
  PROVE  FlagInvariant'
<1>1. Len(results) < Len(program) /\ call.op # "NormalizePsddNode"
  BY DEF CallIs, SddCalls
<1>2. user_data = <<>> /\ node_map = <<>> /\ true_nodes_map = <<>>
  BY DEF FlagInvariant, LocalsAre, BetweenCalls
<1>3. CASE sdd = SddFalse /\ Returns(NullNode, One) /\ UNCHANGED nodes
  <2>1. AllGrow(nodes, nodes') /\ NodesAre'
    BY <1>3, AllStay DEF FlagInvariant, NodesAre
  <2>2. user_data' = <<>> /\ Returns(NullNode, One)
    BY <1>2, <1>3
  <2>3. PICK node, value : node = NullNode /\ value = One
    OBVIOUS
  <2>4. Returns(node, value)
    BY <2>2, <2>3
  <2>5. QED
    BY <1>1, <2>1, <2>2, <2>3, <2>4, ReturnKeeps DEF FlagInvariant
<1>4. CASE /\ sdd = SddTrue
           /\ LET st == GetTrueNode(tree, Begun(nodes[here]), v, flag) IN Made(st) /\ Returns(st.node, One)
  <2>1. PICK t, f, begun : t = tree /\ f = flag /\ begun = Begun(nodes[here])
    OBVIOUS
  <2>2. IsForest(t) /\ v \in DOMAIN t
    BY <1>1, <2>1, CallIsOf DEF FlagInvariant
  <2>3. IsState(begun, f) /\ GrowsTo(nodes[here], begun.nodes)
    BY <1>1, <2>1, BegunHere
  <2>4. PICK st : st = GetTrueNode(t, begun, v, f)
    OBVIOUS
  <2>5. Made(st) /\ Returns(st.node, One)
    BY <1>4, <2>1, <2>4
  <2>6. Follows(begun, st, f) /\ IsOfFlag(st.nodes, f, st.node)
    BY <2>2, <2>3, <2>4, GetTrueNodeIs
  <2>7. IsState(st, flag) /\ GrowsTo(nodes[here], st.nodes)
    BY <2>1, <2>3, <2>6, GrowthIsTransitive DEF Follows
  <2>8. NodesAre' /\ AllGrow(nodes, nodes') /\ nodes'[here] = st.nodes
    BY <1>1, <2>5, <2>7, MadeIs
  <2>9. user_data' = <<>>
    BY <1>2
  <2>10. st.node \in DOMAIN nodes'[here] /\ IsOfFlag(nodes'[here], flag, st.node)
    BY <2>1, <2>6, <2>8, FlagHas
  <2>11. QED
    BY <1>1, <2>5, <2>8, <2>9, <2>10, ReturnKeeps DEF FlagInvariant
<1>5. CASE /\ pass' = "convert" /\ sdd_vtree' = copy /\ target' = v
           /\ UNCHANGED <<clientVars, nodes, node_map, true_nodes_map, loadVars, construct_cache, multiplyVars>>
  <2>1. nodes' = nodes /\ node_map' = <<>> /\ true_nodes_map' = <<>> /\ user_data' = <<>> /\ UNCHANGED clientVars
    BY <1>2, <1>5
  <2>2. AllGrow(nodes, nodes')
    BY <2>1, AllStay
  <2>3. /\ ProgramIs' /\ ResultsAre' /\ call' = call /\ here' = here /\ flag' = flag /\ tree' = tree
        /\ CallIs(SddCalls)'
    BY <1>1, <2>1, <2>2, OngoingKeeps DEF FlagInvariant
  <2>4. ConvertIs'
    BY <1>5, <2>1, <2>3 DEF ConvertIs, AreTrueNodes, SddCalls
  <2>5. LocalsAre'
    BY <1>5, <2>4 DEF LocalsAre, BetweenCalls, ReadIs, LoadIs, LogicIs, MultiplyIs
  <2>6. QED
    BY <2>1, <2>3, <2>5 DEF FlagInvariant, NodesAre
<1>6. QED
  BY <1>3, <1>4, <1>5 DEF BeginSdd

LEMMA CopyIsFinite ==
  ASSUME NEW t, IsForest(t), NEW v, v \in DOMAIN t, NEW map, NEW copy, copy = CopyVtree(t, v, map)
  PROVE  IsFiniteSet(DOMAIN copy)
<1>1. IsFiniteSet(DOMAIN t)
  BY DEF IsForest
<1>2. Under(t, v) \subseteq DOMAIN t
  BY UnderIs
<1>3. IsFiniteSet(Under(t, v))
  BY <1>1, <1>2, FS_Subset
<1>4. DOMAIN copy = Under(t, v)
  BY DEF CopyVtree
<1>5. QED
  BY <1>3, <1>4

LEMMA ConvertSddKeeps ==
  ASSUME FlagInvariant, ConvertSddToPsdd
  PROVE  FlagInvariant'
<1>1. CallIs(SddCalls) /\ pass = "none" /\ Len(results) < Len(program) /\ user_data' = user_data
  BY DEF ConvertSddToPsdd, CanCall, CallIs, SddCalls
<1>2. IsForest(tree) /\ RootOf(tree) \in DOMAIN tree
  BY <1>1, CallIsOf DEF FlagInvariant
<1>3. PICK t, v, map, copy, sdd : /\ t = tree /\ v = RootOf(tree) /\ map = call.variable_mapping
                                  /\ copy = CopyVtree(tree, RootOf(tree), call.variable_mapping)
                                  /\ sdd = SddOf(copy, RootOf(tree), call.models)
  OBVIOUS
<1>4. IsForest(t) /\ v \in DOMAIN t /\ copy = CopyVtree(t, v, map)
  BY <1>2, <1>3
<1>5. IsFiniteSet(DOMAIN copy)
  BY <1>4, CopyIsFinite
<1>6. BeginSdd(sdd, copy, v)
  BY <1>3 DEF ConvertSddToPsdd
<1>7. v \in DOMAIN tree
  BY <1>2, <1>3
<1>8. QED
  BY <1>1, <1>5, <1>6, <1>7, BeginSddKeeps

LEMMA FromSddKeeps ==
  ASSUME FlagInvariant, FromSdd
  PROVE  FlagInvariant'
<1>1. CallIs(SddCalls) /\ pass = "none" /\ Len(results) < Len(program) /\ user_data' = user_data /\ call.op = "FromSdd"
  BY DEF FromSdd, CanCall, CallIs, SddCalls
<1>2. IsForest(tree) /\ IsCallOf(program, Len(results) + 1)
  BY <1>1, CallIsOf DEF FlagInvariant
<1>3. PICK t, v, map, copy, sdd : /\ t = tree /\ v = SubVtreeByVariables(tree, RootOf(tree), call.used_variables)
                                  /\ map = call.variable_mapping
                                  /\ copy = CopyVtree(tree, v, call.variable_mapping)
                                  /\ sdd = SddOf(copy, v, call.models)
  OBVIOUS
<1>4. v \in DOMAIN tree
  BY <1>1, <1>2, <1>3 DEF IsCallOf, call, tree, here
<1>5. IsForest(t) /\ v \in DOMAIN t /\ copy = CopyVtree(t, v, map)
  BY <1>2, <1>3, <1>4
<1>6. IsFiniteSet(DOMAIN copy)
  BY <1>5, CopyIsFinite
<1>7. BeginSdd(sdd, copy, v)
  BY <1>3 DEF FromSdd
<1>8. QED
  BY <1>1, <1>4, <1>6, <1>7, BeginSddKeeps

LEMMA CompileKeeps ==
  ASSUME FlagInvariant, Compile
  PROVE  FlagInvariant'
<1>1. CallIs(SddCalls) /\ pass = "none" /\ Len(results) < Len(program) /\ user_data' = user_data
  BY DEF Compile, CanCall, CallIs, SddCalls
<1>2. IsForest(tree) /\ RootOf(tree) \in DOMAIN tree
  BY <1>1, CallIsOf DEF FlagInvariant
<1>3. PICK t, v, map, copy, sdd :
        /\ t = tree /\ v = RootOf(tree) /\ map = VariableMapping /\ copy = CopyVtree(tree, RootOf(tree), VariableMapping)
        /\ sdd = Sdd(copy, RootOf(copy), ConstructSddFromCnf(ClausesOf(call.lines), VariableMapping, copy))
  OBVIOUS
<1>4. IsForest(t) /\ v \in DOMAIN t /\ copy = CopyVtree(t, v, map)
  BY <1>2, <1>3
<1>5. IsFiniteSet(DOMAIN copy)
  BY <1>4, CopyIsFinite
<1>6. BeginSdd(sdd, copy, v)
  BY <1>3 DEF Compile
<1>7. v \in DOMAIN tree
  BY <1>2, <1>3
<1>8. QED
  BY <1>1, <1>5, <1>6, <1>7, BeginSddKeeps

-----------------------------------------------------------------------------
\* What a step that converts one node leaves.
LEMMA ConvertingKeeps ==
  ASSUME FlagInvariant, pass = "convert", NEW st, IsState(st, flag), GrowsTo(nodes[here], st.nodes), Made(st),
         UNCHANGED <<clientVars, user_data, pass, sdd_vtree, target>>,
         AreTrueNodes(st.nodes, flag, node_map'), AreTrueNodes(st.nodes, flag, true_nodes_map')
  PROVE  FlagInvariant'
<1>1. /\ CallIs(SddCalls) /\ Len(results) < Len(program) /\ user_data = <<>> /\ target \in DOMAIN tree
      /\ IsFiniteSet(DOMAIN sdd_vtree)
  BY DEF FlagInvariant, LocalsAre, ConvertIs, CallIs, SddCalls
<1>2. UNCHANGED clientVars
  OBVIOUS
<1>3. /\ ProgramIs' /\ NodesAre' /\ ResultsAre' /\ call' = call /\ here' = here /\ tree' = tree /\ flag' = flag
      /\ nodes'[here'] = st.nodes /\ CallIs(SddCalls)'
  BY <1>1, <1>2, MakingKeeps
<1>4. ConvertIs'
  BY <1>1, <1>3 DEF ConvertIs, SddCalls
<1>5. LocalsAre'
  BY <1>4 DEF LocalsAre, BetweenCalls, ReadIs, LoadIs, LogicIs, MultiplyIs
<1>6. QED
  BY <1>3, <1>5 DEF FlagInvariant

LEMMA ConvertLiteralKeeps ==
  ASSUME FlagInvariant, ConvertLiteral
  PROVE  FlagInvariant'
<1>1. pass = "convert"
  BY DEF ConvertLiteral
<1>2. /\ Len(results) < Len(program) /\ AreTrueNodes(nodes[here], flag, node_map)
      /\ AreTrueNodes(nodes[here], flag, true_nodes_map)
  BY <1>1 DEF FlagInvariant, LocalsAre, ConvertIs, CallIs
<1>3. PICK f, begun, v, sign, k, map, trues :
        /\ f = flag /\ begun = Begun(nodes[here]) /\ v = Tag(NextSdd.vtree) /\ sign = (NextSdd.models # {{}})
        /\ k = NextSdd /\ map = node_map /\ trues = true_nodes_map
  OBVIOUS
<1>4. IsState(begun, f) /\ GrowsTo(nodes[here], begun.nodes)
  BY <1>2, <1>3, BegunHere
<1>5. PICK st : st = GetUniqueNode(begun, LiteralNode(v, sign, f))
  OBVIOUS
<1>6. Follows(begun, st, f) /\ IsOfFlag(st.nodes, f, st.node)
  BY <1>4, <1>5, UniqueLiteral
<1>7. /\ Made(st) /\ node_map' = Assigned(map, k, st.node) /\ true_nodes_map' = trues
      /\ UNCHANGED <<clientVars, user_data, pass, sdd_vtree, target>>
  BY <1>3, <1>5 DEF ConvertLiteral
<1>8. PICK after, a : after = st.nodes /\ a = st.node
  OBVIOUS
<1>9. IsState(st, flag) /\ GrowsTo(nodes[here], after)
  BY <1>3, <1>4, <1>6, <1>8, GrowthIsTransitive DEF Follows
<1>10. AreTrueNodes(after, f, map) /\ AreTrueNodes(after, f, trues)
  BY <1>2, <1>3, <1>9, TrueNodesStay
<1>11. IsOfFlag(after, f, a)
  BY <1>6, <1>8
<1>12. AreTrueNodes(after, f, Assigned(map, k, a))
  BY <1>10, <1>11, AssignedHas
<1>13. QED
  BY <1>1, <1>3, <1>7, <1>8, <1>9, <1>10, <1>12, ConvertingKeeps

LEMMA ConvertDecisionKeeps ==
  ASSUME FlagInvariant, AssertionsHold, ConvertDecision
  PROVE  FlagInvariant'
<1>1. pass = "convert" /\ serialized_sdd_nodes # <<>> /\ ~IsSddLiteral(NextSdd)
  BY DEF ConvertDecision
<1>2. /\ Len(results) < Len(program) /\ AreTrueNodes(nodes[here], flag, node_map)
      /\ AreTrueNodes(nodes[here], flag, true_nodes_map) /\ IsFiniteSet(DOMAIN sdd_vtree)
  BY <1>1 DEF FlagInvariant, LocalsAre, ConvertIs, CallIs
<1>3. PICK f, v, k, map, elements, copy :
        /\ f = flag /\ v = Tag(NextSdd.vtree) /\ k = NextSdd /\ map = node_map /\ copy = sdd_vtree
        /\ elements = SddElements(sdd_vtree, NextSdd)
  OBVIOUS
<1>4. /\ v \in DOMAIN tree /\ ~IsLeaf(tree, v)
      /\ \A e \in elements :
           /\ e.prime \in DOMAIN node_map
           /\ nodes[here][node_map[e.prime]].vtree \in Under(tree, tree[v].left)
           /\ ~IsConstant(e.sub) => /\ e.sub \in DOMAIN node_map
                                    /\ nodes[here][node_map[e.sub]].vtree \in Under(tree, tree[v].right)
  BY <1>1, <1>3 DEF AssertionsHold, ConvertAsserts, VtreeIn
<1>5. \A e \in elements : IsKnownElement(v, e)
  BY <1>2, <1>4 DEF IsKnownElement, AreTrueNodes
<1>6. IsFiniteSet(elements)
  <2>1. elements = SddElements(copy, k) /\ IsFiniteSet(DOMAIN copy)
    BY <1>2, <1>3
  <2>2. QED
    BY <2>1, ElementsAreFinite
<1>7. PICK es : es = SetToSeq(elements)
  OBVIOUS
<1>8. IsList(es) /\ \A i \in DOMAIN es : es[i] \in elements
  BY <1>6, <1>7, SetToSeqIs
<1>9. IsForest(tree) /\ AreNodes(nodes[here])
  BY <1>2, CallIsOf DEF FlagInvariant, NodesAre, AreNodesOf
<1>10. PICK st : st = ConvertElements(v, es)
  OBVIOUS
<1>11. IsState(st, f) /\ GrowsTo(nodes[here], st.nodes)
  <2>1. \A i \in DOMAIN es : IsKnownElement(v, es[i])
    BY <1>5, <1>8
  <2>2. QED
    BY <1>2, <1>3, <1>4, <1>8, <1>9, <1>10, <2>1, ConvertElementsIs
<1>12. PICK made : made = GetUniqueNode(st, DecisionNode(v, st.elements, f))
  OBVIOUS
<1>13. Follows(st, made, f) /\ IsOfFlag(made.nodes, f, made.node)
  <2>1. AreElements(st.nodes, f, st.elements)
    BY <1>11 DEF IsState
  <2>2. IsList(st.elements) /\ \A i \in DOMAIN st.elements :
          /\ IsOfFlag(st.nodes, f, st.elements[i].prime) /\ IsOfFlag(st.nodes, f, st.elements[i].sub)
          /\ st.elements[i].prime \in DOMAIN st.nodes /\ st.elements[i].sub \in DOMAIN st.nodes
    BY <2>1, FlagHas DEF AreElements
  <2>3. QED
    BY <1>11, <1>12, <2>2, UniqueDecision
<1>14. PICK after, a : after = made.nodes /\ a = made.node
  OBVIOUS
<1>15. /\ Made(made) /\ node_map' = Assigned(map, k, a) /\ true_nodes_map' = made.true_node_map
       /\ UNCHANGED <<clientVars, user_data, pass, sdd_vtree, target>>
  BY <1>3, <1>7, <1>10, <1>12, <1>14 DEF ConvertDecision, WithElements
<1>16. IsState(made, f) /\ GrowsTo(nodes[here], after)
  BY <1>11, <1>13, <1>14, GrowthIsTransitive DEF Follows
<1>17. AreTrueNodes(after, f, map) /\ AreTrueNodes(after, f, made.true_node_map) /\ IsOfFlag(after, f, a)
  BY <1>2, <1>3, <1>13, <1>14, <1>16, TrueNodesStay DEF IsState
<1>18. AreTrueNodes(after, f, Assigned(map, k, a))
  BY <1>17, AssignedHas
<1>19. QED
  BY <1>1, <1>3, <1>14, <1>15, <1>16, <1>17, <1>18, ConvertingKeeps

LEMMA EndConvertKeeps ==
  ASSUME FlagInvariant, AssertionsHold, EndConvert
  PROVE  FlagInvariant'
<1>1. pass = "convert" /\ serialized_sdd_nodes = <<>>
  BY DEF EndConvert
<1>2. /\ Len(results) < Len(program) /\ AreTrueNodes(nodes[here], flag, node_map)
      /\ AreTrueNodes(nodes[here], flag, true_nodes_map) /\ target \in DOMAIN tree /\ user_data = <<>>
  BY <1>1 DEF FlagInvariant, LocalsAre, ConvertIs, CallIs
<1>3. PICK t, f, v, ns, a, trues, begun :
        /\ t = tree /\ f = flag /\ v = target /\ ns = nodes[here] /\ a = node_map[root_node] /\ trues = true_nodes_map
        /\ begun = [Begun(nodes[here]) EXCEPT !.true_node_map = true_nodes_map]
  OBVIOUS
<1>4. root_node \in DOMAIN node_map /\ ns[a].vtree \in Under(t, v)
  BY <1>1, <1>3 DEF AssertionsHold, ConvertAsserts, VtreeIn
<1>5. IsOfFlag(ns, f, a) /\ AreTrueNodes(ns, f, trues) /\ v \in DOMAIN t
  BY <1>2, <1>3, <1>4 DEF AreTrueNodes
<1>6. IsForest(t) /\ AreNodes(ns)
  BY <1>2, <1>3, CallIsOf DEF FlagInvariant, NodesAre, AreNodesOf
<1>7. IsState(begun, f) /\ begun.nodes = ns
  BY <1>3, <1>5, <1>6, BegunWithTrueNodes
<1>8. a \in DOMAIN ns
  BY <1>5, FlagHas
<1>9. PICK st : st = NormalizePsddNode(t, begun, v, a, f)
  OBVIOUS
<1>10. Follows(begun, st, f) /\ st.node \in DOMAIN st.nodes /\ IsOfFlag(st.nodes, f, st.node)
  BY <1>4, <1>5, <1>6, <1>7, <1>8, <1>9, NormalizeIs
<1>11. Made(st) /\ Returns(st.node, One) /\ user_data' = <<>>
  BY <1>2, <1>3, <1>9 DEF EndConvert
<1>12. IsState(st, flag) /\ GrowsTo(nodes[here], st.nodes)
  BY <1>3, <1>7, <1>10 DEF Follows
<1>13. NodesAre' /\ AllGrow(nodes, nodes') /\ nodes'[here] = st.nodes
  BY <1>2, <1>11, <1>12, MadeIs
<1>14. st.node \in DOMAIN nodes'[here] /\ IsOfFlag(nodes'[here], flag, st.node)
  BY <1>3, <1>10, <1>13
<1>15. QED
  BY <1>2, <1>11, <1>13, <1>14, ReturnKeeps DEF FlagInvariant

\* The children of a node in the list of them.
LEMMA ChildListHas ==
  ASSUME NEW g, NEW n, nodes[g][n].type = "decision", IsList(nodes[g][n].elements), NEW i, i \in DOMAIN nodes[g][n].elements
  PROVE  nodes[g][n].elements[i].prime \in Range(ChildList(g, n)) /\ nodes[g][n].elements[i].sub \in Range(ChildList(g, n))
<1>1. PICK es : es = nodes[g][n].elements
  OBVIOUS
<1>2. PICK m \in Nat : m = Len(es)
  BY <1>1, ListIs
<1>3. DOMAIN es = 1..m /\ i \in 1..m
  BY <1>1, <1>2, ListIs
<1>4. PICK primes, subs : primes = [j \in DOMAIN es |-> es[j].prime] /\ subs = [j \in DOMAIN es |-> es[j].sub]
  OBVIOUS
<1>5. PICK S : S = {es[j].prime : j \in 1..m} \cup {es[j].sub : j \in 1..m}
  OBVIOUS
<1>6. primes \in [1..m -> S] /\ subs \in [1..m -> S]
  BY <1>3, <1>4, <1>5
<1>7. primes \in Seq(S) /\ subs \in Seq(S) /\ Len(primes) = m /\ Len(subs) = m
  BY <1>6, SeqDef
<1>8. PICK list : list = primes \o subs
  OBVIOUS
<1>9. list \in Seq(S) /\ list[i] = primes[i] /\ list[m + i] = subs[i] /\ i \in 1..Len(list) /\ m + i \in 1..Len(list)
  <2>1. list \in Seq(S) /\ Len(list) = m + m
    <3>1. primes \o subs \in Seq(S)
      BY <1>7
    <3>2. Len(primes \o subs) = Len(primes) + Len(subs)
      BY <1>7
    <3>3. QED
      BY <1>7, <1>8, <3>1, <3>2
  <2>2. list[i] = primes[i]
    BY <1>3, <1>7, <1>8
  <2>3. list[m + i] = subs[i]
    <3>1. PICK k : k = m + i
      OBVIOUS
    <3>2. k \in 1..Len(primes) + Len(subs) /\ ~ (k <= Len(primes)) /\ k - Len(primes) = i
      BY <1>3, <1>7, <3>1
    <3>3. (primes \o subs)[k] = IF k <= Len(primes) THEN primes[k] ELSE subs[k - Len(primes)]
      BY <1>7, <3>2, ConcatProperties, Zenon
    <3>4. (primes \o subs)[k] = subs[i]
      BY <3>2, <3>3, Zenon
    <3>5. QED
      BY <1>8, <3>1, <3>4, Zenon
  <2>4. QED
    BY <1>3, <2>1, <2>2, <2>3
<1>10. IsList(list)
  BY <1>9 DEF IsList
<1>11. primes[i] \in Range(list) /\ subs[i] \in Range(list)
  BY <1>9, <1>10, ListIs
<1>12. list = ChildList(g, n)
  BY <1>1, <1>4, <1>8 DEF ChildList
<1>13. QED
  BY <1>1, <1>3, <1>4, <1>11, <1>12

\* The source of a call that has one.
LEMMA SourceIs ==
  ASSUME FlagInvariant, CallIs({"LoadPsddNode", "ConvertPsddNodeToSddNode"})
  PROVE  /\ Len(results) < Len(program)
         /\ Source.manager \in DOMAIN Vtree /\ Source.node \in DOMAIN nodes[Source.manager] /\ Source.node \in Nat
         /\ AreNodes(nodes[Source.manager])
         /\ call.op = "ConvertPsddNodeToSddNode" => Source.manager = here
<1>1. Len(results) < Len(program) /\ IsCallOf(program, Len(results) + 1)
  BY CallIsOf DEF CallIs, FlagInvariant
<1>2. call.first \in call.arguments
  BY <1>1 DEF IsCallOf, CallIs, call
<1>3. IsNodeOf(Result(call.first))
  BY <1>2 DEF CallIs
<1>4. PICK i : i = call.first
  OBVIOUS
<1>5. /\ results[i].manager \in DOMAIN Vtree /\ results[i].node \in DOMAIN nodes[results[i].manager]
      /\ results[i].node \in Nat /\ (call.op # "LoadPsddNode" => results[i].manager = here)
  BY <1>1, <1>2, <1>3, <1>4, ArgumentIs DEF FlagInvariant
<1>6. Source = results[i]
  BY <1>4 DEF Source, Result
<1>7. AreNodes(nodes[Source.manager])
  BY <1>5, <1>6 DEF FlagInvariant, NodesAre, AreNodesOf
<1>8. QED
  BY <1>1, <1>5, <1>6, <1>7

LEMMA ListBegins ==
  ASSUME FlagInvariant, CallIs({"LoadPsddNode", "ConvertPsddNodeToSddNode"}), NEW list, list = SerializePsddNodes(Source.manager, Source.node)
  PROVE  StartsWith(list, DOMAIN nodes[Source.manager], Source.node)
<1>1. PICK m, a, S : m = Source.manager /\ a = Source.node /\ S = DOMAIN nodes[Source.manager]
  OBVIOUS
<1>2. IsWhole(nodes[m], S) /\ a \in S /\ a \in Nat
  BY <1>1, SourceIs DEF AreNodes
<1>3. StartsWith(SerializePsddNodes(m, a), S, a)
  BY <1>2, SerializationIsIn
<1>4. QED
  BY <1>1, <1>3

\* The steps of LoadPsddNode and of the way back to an SDD.
LEMMA BeginLoadKeeps ==
  ASSUME FlagInvariant, BeginLoad
  PROVE  FlagInvariant'
<1>1. CallIs({"LoadPsddNode"}) /\ CallIs({"LoadPsddNode", "ConvertPsddNodeToSddNode"}) /\ pass = "none" /\ Len(results) < Len(program)
  BY DEF BeginLoad, CanCall, CallIs
<1>2. PICK list : list = serialized_nodes'
  OBVIOUS
<1>3. /\ pass' = "load" /\ list = SerializePsddNodes(Source.manager, Source.node) /\ position' = Len(list) /\ nodes' = nodes
      /\ user_data' = user_data /\ UNCHANGED clientVars
  BY <1>2 DEF BeginLoad
<1>4. user_data = <<>>
  BY <1>1 DEF FlagInvariant, LocalsAre, BetweenCalls
<1>5. StartsWith(list, DOMAIN nodes[Source.manager], Source.node)
  BY <1>1, <1>3, ListBegins
<1>6. AllGrow(nodes, nodes')
  BY <1>3, AllStay
<1>7. /\ ProgramIs' /\ ResultsAre' /\ call' = call /\ here' = here /\ flag' = flag /\ CallIs({"LoadPsddNode"})'
  BY <1>1, <1>3, <1>6, OngoingKeeps DEF FlagInvariant
<1>8. Source' = Source
  BY <1>3, <1>7 DEF Source, Result, clientVars
<1>9. Len(list) \in Nat
  BY <1>5 DEF StartsWith
<1>10. AreTrueNodes(nodes'[here'], flag', user_data')
  BY <1>3, <1>4 DEF AreTrueNodes
<1>11. WordsAreOfTheList'
  BY <1>3, <1>4 DEF WordsAreOfTheList
<1>12. LoadIs'
  BY <1>2, <1>3, <1>5, <1>7, <1>8, <1>9, <1>10, <1>11 DEF LoadIs
<1>13. LocalsAre'
  BY <1>3, <1>12 DEF LocalsAre, BetweenCalls, ConvertIs, ReadIs, LogicIs, MultiplyIs
<1>14. QED
  BY <1>3, <1>7, <1>13 DEF FlagInvariant, NodesAre

LEMMA BeginLogicKeeps ==
  ASSUME FlagInvariant, BeginLogic
  PROVE  FlagInvariant'
<1>1. CallIs({"ConvertPsddNodeToSddNode"}) /\ CallIs({"LoadPsddNode", "ConvertPsddNodeToSddNode"}) /\ pass = "none" /\ Len(results) < Len(program)
  BY DEF BeginLogic, CanCall, CallIs
<1>2. PICK list : list = serialized_nodes'
  OBVIOUS
<1>3. /\ pass' = "logic" /\ list = SerializePsddNodes(Source.manager, Source.node) /\ position' = Len(list) /\ nodes' = nodes
      /\ user_data' = user_data /\ UNCHANGED clientVars
  BY <1>2 DEF BeginLogic
<1>4. user_data = <<>>
  BY <1>1 DEF FlagInvariant, LocalsAre, BetweenCalls
<1>5. StartsWith(list, DOMAIN nodes[Source.manager], Source.node)
  BY <1>1, <1>3, ListBegins
<1>6. AllGrow(nodes, nodes')
  BY <1>3, AllStay
<1>7. /\ ProgramIs' /\ ResultsAre' /\ call' = call /\ CallIs({"ConvertPsddNodeToSddNode"})'
  BY <1>1, <1>3, <1>6, OngoingKeeps DEF FlagInvariant
<1>8. Source' = Source
  BY <1>3, <1>7 DEF Source, Result, clientVars
<1>9. Len(list) \in Nat
  BY <1>5 DEF StartsWith
<1>10. WordsAreOfTheList'
  BY <1>3, <1>4 DEF WordsAreOfTheList
<1>11. LogicIs'
  BY <1>2, <1>3, <1>5, <1>7, <1>8, <1>9, <1>10 DEF LogicIs
<1>12. LocalsAre'
  BY <1>3, <1>11 DEF LocalsAre, BetweenCalls, ConvertIs, ReadIs, LoadIs, MultiplyIs
<1>13. QED
  BY <1>3, <1>7, <1>12 DEF FlagInvariant, NodesAre

LEMMA NodeLogicKeeps ==
  ASSUME FlagInvariant, NodeLogic
  PROVE  FlagInvariant'
<1>1. pass = "logic" /\ position > 0
  BY DEF NodeLogic
<1>2. /\ CallIs({"ConvertPsddNodeToSddNode"}) /\ WordsAreOfTheList /\ Len(results) < Len(program)
      /\ CallIs({"LoadPsddNode", "ConvertPsddNodeToSddNode"}) /\ call.op = "ConvertPsddNodeToSddNode"
      /\ StartsWith(serialized_nodes, DOMAIN nodes[Source.manager], Source.node)
      /\ position \in 0..Len(serialized_nodes)
  BY <1>1 DEF FlagInvariant, LocalsAre, LogicIs, CallIs
<1>3. PICK list, n, m, map, value, more :
        /\ list = serialized_nodes /\ n = serialized_nodes[position] /\ m = Source.manager /\ map = user_data
        /\ value = LogicOf(serialized_nodes[position]) /\ more = user_data'
  OBVIOUS
<1>4. m = here
  BY <1>2, <1>3, SourceIs
<1>5. /\ more = Assigned(map, <<m, n>>, value) /\ position' = position - 1 /\ nodes' = nodes /\ pass' = "logic"
      /\ serialized_nodes' = serialized_nodes /\ UNCHANGED clientVars
  BY <1>3, <1>4 DEF NodeLogic
<1>6. n \in Range(list)
  <2>1. IsList(list) /\ position \in 1..Len(list)
    BY <1>1, <1>2, <1>3 DEF StartsWith, IsList
  <2>2. QED
    BY <1>3, <2>1, ListIs
<1>7. \A w \in DOMAIN map : \E o \in Range(list) : w = <<m, o>>
  BY <1>2, <1>3 DEF WordsAreOfTheList
<1>8. \A w \in DOMAIN more : \E o \in Range(list) : w = <<m, o>>
  BY <1>5, <1>6, <1>7 DEF Assigned
<1>9. AllGrow(nodes, nodes')
  BY <1>5, AllStay
<1>10. /\ ProgramIs' /\ ResultsAre' /\ call' = call /\ CallIs({"ConvertPsddNodeToSddNode"})'
  BY <1>2, <1>5, <1>9, OngoingKeeps DEF FlagInvariant
<1>11. Source' = Source
  BY <1>5, <1>10 DEF Source, Result, clientVars
<1>12. WordsAreOfTheList'
  BY <1>3, <1>5, <1>8, <1>11 DEF WordsAreOfTheList
<1>13. position' \in 0..Len(serialized_nodes')
  <2>1. Len(serialized_nodes) \in Nat
    BY <1>2 DEF StartsWith
  <2>2. QED
    BY <1>1, <1>2, <1>5, <2>1
<1>14. LogicIs'
  BY <1>2, <1>5, <1>10, <1>11, <1>12, <1>13 DEF LogicIs
<1>15. LocalsAre'
  BY <1>5, <1>14 DEF LocalsAre, BetweenCalls, ConvertIs, ReadIs, LoadIs, MultiplyIs
<1>16. QED
  BY <1>5, <1>10, <1>15 DEF FlagInvariant, NodesAre

\* The reset takes all words.
LEMMA WordsAreReset ==
  ASSUME WordsAreOfTheList
  PROVE  ScratchReset(serialized_nodes) = <<>>
<1>1. DOMAIN user_data \ {<<Source.manager, n>> : n \in Range(serialized_nodes)} = {}
  BY DEF WordsAreOfTheList
<1>2. ScratchReset(serialized_nodes) = [w \in {} |-> user_data[w]]
  BY <1>1 DEF ScratchReset
<1>3. [w \in {} |-> user_data[w]] = <<>>
  OBVIOUS
<1>4. QED
  BY <1>2, <1>3

LEMMA EndLogicKeeps ==
  ASSUME FlagInvariant, EndLogic
  PROVE  FlagInvariant'
<1>1. pass = "logic"
  BY DEF EndLogic
<1>2. WordsAreOfTheList /\ Len(results) < Len(program)
  BY <1>1 DEF FlagInvariant, LocalsAre, LogicIs, CallIs
<1>3. PICK node, value : node = NullNode /\ value = Sdd(sdd_vtree, RootOf(sdd_vtree), Loaded(serialized_nodes[1]))
  OBVIOUS
<1>4. Returns(node, value) /\ nodes' = nodes /\ user_data' = <<>>
  BY <1>2, <1>3, WordsAreReset DEF EndLogic
<1>5. AllGrow(nodes, nodes') /\ NodesAre'
  BY <1>4, AllStay DEF FlagInvariant, NodesAre
<1>6. QED
  BY <1>2, <1>3, <1>4, <1>5, ReturnKeeps DEF FlagInvariant

\* The node made for one of the source.
NodeOfSource(n) ==
  LET c == nodes[Source.manager][n]
      v == LeafOf(tree, VariableIn(Source.manager, n))
  IN  CASE c.type = "literal" -> GetUniqueNode(Begun(nodes[here]), LiteralNode(v, c.sign, flag))
        [] c.type = "top" -> GetUniqueNode(Begun(nodes[here]), TopNode(v, c.true_parameter, c.false_parameter, flag))
        [] c.type = "decision" -> GetConformedPsddDecisionNode(tree, nodes[here], LoadedElements(c), flag)

LEMMA LoadingIs ==
  ASSUME FlagInvariant, pass = "load"
  PROVE  /\ CallIs({"LoadPsddNode"}) /\ WordsAreOfTheList /\ Len(results) < Len(program) /\ call.op = "LoadPsddNode"
         /\ StartsWith(serialized_nodes, DOMAIN nodes[Source.manager], Source.node)
         /\ position \in 0..Len(serialized_nodes) /\ Len(serialized_nodes) \in Nat
         /\ AreTrueNodes(nodes[here], flag, user_data)
         /\ \A i \in 1..Len(serialized_nodes) :
              i > position => <<Source.manager, serialized_nodes[i]>> \in DOMAIN user_data
         /\ AreNodes(nodes[Source.manager]) /\ Source.manager \in DOMAIN Vtree
<1>1. /\ CallIs({"LoadPsddNode"}) /\ WordsAreOfTheList /\ Len(results) < Len(program) /\ call.op = "LoadPsddNode"
      /\ StartsWith(serialized_nodes, DOMAIN nodes[Source.manager], Source.node)
      /\ position \in 0..Len(serialized_nodes)
      /\ AreTrueNodes(nodes[here], flag, user_data)
      /\ \A i \in 1..Len(serialized_nodes) :
           i > position => <<Source.manager, serialized_nodes[i]>> \in DOMAIN user_data
  BY DEF FlagInvariant, LocalsAre, LoadIs, CallIs
<1>2. CallIs({"LoadPsddNode", "ConvertPsddNodeToSddNode"})
  BY <1>1 DEF CallIs
<1>3. QED
  BY <1>1, <1>2, SourceIs DEF StartsWith

\* The elements of a node to load, once its children are loaded.
LEMMA ElementsToLoad ==
  ASSUME FlagInvariant, AssertionsHold, pass = "load", position > 0, NEW c,
         c = nodes[Source.manager][serialized_nodes[position]], c.type = "decision"
  PROVE  AreElements(nodes[here], flag, LoadedElements(c)) /\ CanConform(tree, nodes[here], LoadedElements(c))
<1>1. PICK t, f, ns, m, n, map, es, more :
        /\ t = tree /\ f = flag /\ ns = nodes[here] /\ m = Source.manager /\ n = serialized_nodes[position]
        /\ map = user_data /\ es = c.elements /\ more = LoadedElements(c)
  OBVIOUS
<1>2. n \in DOMAIN nodes[m]
  BY <1>1, LoadingIs DEF StartsWith
<1>3. IsList(es) /\ c = nodes[m][n]
  BY <1>1, <1>2, LoadingIs DEF AreNodes, IsWhole, HasChildrenIn
<1>4. /\ \A a \in Range(ChildList(m, n)) : <<m, a>> \in DOMAIN map
      /\ CanConform(t, ns, more)
  BY <1>1 DEF AssertionsHold, LoadAsserts
<1>5. \A i \in DOMAIN es : <<m, es[i].prime>> \in DOMAIN map /\ <<m, es[i].sub>> \in DOMAIN map
  BY <1>1, <1>3, <1>4, ChildListHas
<1>6. more = [i \in DOMAIN es |-> Element(map[<<m, es[i].prime>>], map[<<m, es[i].sub>>], es[i].parameter)]
  BY <1>1 DEF LoadedElements, Loaded
<1>7. AreTrueNodes(ns, f, map)
  BY <1>1, LoadingIs
<1>8. ASSUME NEW i \in DOMAIN es
      PROVE  \E p, s, w : more[i] = Element(p, s, w) /\ IsOfFlag(ns, f, p) /\ IsOfFlag(ns, f, s)
  <2>1. PICK p, s : p = map[<<m, es[i].prime>>] /\ s = map[<<m, es[i].sub>>]
    OBVIOUS
  <2>2. more[i] = Element(p, s, es[i].parameter)
    BY <1>6, <2>1
  <2>3. IsOfFlag(ns, f, p) /\ IsOfFlag(ns, f, s)
    BY <1>5, <1>7, <2>1 DEF AreTrueNodes
  <2>4. QED
    BY <2>2, <2>3, Zenon
<1>9. DOMAIN more = DOMAIN es /\ more = [i \in DOMAIN es |-> more[i]]
  BY <1>6
<1>10. AreElements(ns, f, more)
  BY <1>3, <1>8, <1>9, ElementsOfMap
<1>11. QED
  BY <1>1, <1>4, <1>10

LEMMA NodeOfSourceIs ==
  ASSUME FlagInvariant, AssertionsHold, pass = "load", position > 0, NEW st, st = NodeOfSource(serialized_nodes[position])
  PROVE  IsState(st, flag) /\ GrowsTo(nodes[here], st.nodes) /\ IsOfFlag(st.nodes, flag, st.node)
<1>1. PICK t, f, ns, begun, m, n, c, map :
        /\ t = tree /\ f = flag /\ ns = nodes[here] /\ begun = Begun(nodes[here])
        /\ m = Source.manager /\ n = serialized_nodes[position] /\ c = nodes[Source.manager][serialized_nodes[position]]
        /\ map = user_data
  OBVIOUS
<1>2. n \in DOMAIN nodes[m]
  BY <1>1, LoadingIs DEF StartsWith
<1>3. c.type \in {"literal", "top", "decision"} /\ (c.type = "decision" => IsList(c.elements))
  BY <1>1, <1>2, LoadingIs DEF AreNodes, IsWhole, HasChildrenIn
<1>4. IsForest(t)
  BY <1>1, LoadingIs, CallIsOf DEF FlagInvariant
<1>5. IsState(begun, f) /\ begun.nodes = ns /\ AreNodes(ns)
  BY <1>1, LoadingIs, BegunHere
<1>6. CASE c.type = "literal"
  <2>1. PICK v, sign : v = LeafOf(tree, VariableIn(Source.manager, n)) /\ sign = c.sign
    OBVIOUS
  <2>2. st = GetUniqueNode(begun, LiteralNode(v, sign, f))
    BY <1>1, <1>6, <2>1 DEF NodeOfSource
  <2>3. Follows(begun, st, f) /\ IsOfFlag(st.nodes, f, st.node)
    BY <1>5, <2>2, UniqueLiteral
  <2>4. QED
    BY <1>1, <1>5, <2>3 DEF Follows
<1>7. CASE c.type = "top"
  <2>1. PICK v, positive, negative : v = LeafOf(tree, VariableIn(Source.manager, n)) /\ positive = c.true_parameter /\ negative = c.false_parameter
    OBVIOUS
  <2>2. st = GetUniqueNode(begun, TopNode(v, positive, negative, f))
    BY <1>1, <1>7, <2>1 DEF NodeOfSource
  <2>3. Follows(begun, st, f) /\ IsOfFlag(st.nodes, f, st.node)
    BY <1>5, <2>2, UniqueTop
  <2>4. QED
    BY <1>1, <1>5, <2>3 DEF Follows
<1>8. CASE c.type = "decision"
  <2>1. PICK more : more = LoadedElements(c)
    OBVIOUS
  <2>2. AreElements(ns, f, more) /\ CanConform(t, ns, more)
    BY <1>1, <1>8, <2>1, ElementsToLoad
  <2>3. st = GetConformedPsddDecisionNode(t, ns, more, f)
    BY <1>1, <1>8, <2>1 DEF NodeOfSource
  <2>4. IsState(st, f) /\ GrowsTo(ns, st.nodes) /\ IsOfFlag(st.nodes, f, st.node)
    BY <1>4, <1>5, <2>2, <2>3, GetConformedIs
  <2>5. QED
    BY <1>1, <2>4
<1>9. QED
  BY <1>3, <1>6, <1>7, <1>8

LEMMA LoadNodeKeeps ==
  ASSUME FlagInvariant, AssertionsHold, LoadNode
  PROVE  FlagInvariant'
<1>1. pass = "load" /\ position > 0
  BY DEF LoadNode
<1>2. PICK list, m, n, st, f, map, more :
        /\ list = serialized_nodes /\ m = Source.manager /\ n = serialized_nodes[position]
        /\ st = NodeOfSource(serialized_nodes[position]) /\ f = flag /\ map = user_data /\ more = user_data'
  OBVIOUS
<1>3. IsState(st, flag) /\ GrowsTo(nodes[here], st.nodes) /\ IsOfFlag(st.nodes, flag, st.node)
  BY <1>1, <1>2, NodeOfSourceIs
<1>4. PICK after, a : after = st.nodes /\ a = st.node
  OBVIOUS
<1>5. /\ Made(st) /\ more = Assigned(map, <<m, n>>, a) /\ position' = position - 1
      /\ pass' = "load" /\ serialized_nodes' = list /\ UNCHANGED clientVars
  BY <1>2, <1>4 DEF LoadNode, NodeOfSource
<1>6. Len(results) < Len(program)
  BY <1>1, LoadingIs
<1>7. /\ ProgramIs' /\ NodesAre' /\ ResultsAre' /\ AllGrow(nodes, nodes') /\ call' = call /\ here' = here /\ flag' = flag
      /\ nodes'[here'] = after /\ (CallIs({"LoadPsddNode"}) => CallIs({"LoadPsddNode"})')
  BY <1>3, <1>4, <1>5, <1>6, MakingKeeps
<1>8. Source' = Source
  BY <1>5, <1>7 DEF Source, Result, clientVars
<1>9. AreTrueNodes(after, f, map)
  <2>1. PICK ns : ns = nodes[here]
    OBVIOUS
  <2>2. AreTrueNodes(ns, f, map) /\ GrowsTo(ns, after)
    BY <1>1, <1>2, <1>3, <1>4, <2>1, LoadingIs
  <2>3. QED
    BY <2>2, TrueNodesStay
<1>10. IsOfFlag(after, f, a)
  BY <1>2, <1>3, <1>4
<1>11. AreTrueNodes(after, f, more)
  <2>1. PICK k : k = <<m, n>>
    OBVIOUS
  <2>2. AreTrueNodes(after, f, Assigned(map, k, a))
    BY <1>9, <1>10, AssignedHas
  <2>3. QED
    BY <1>5, <2>1, <2>2
<1>12. DOMAIN more = DOMAIN map \cup {<<m, n>>}
  BY <1>5 DEF Assigned
<1>13. StartsWith(list, DOMAIN nodes[m], Source.node) /\ position \in 1..Len(list) /\ n = list[position] /\ Len(list) \in Nat
  BY <1>1, <1>2, LoadingIs
<1>14. WordsAreOfTheList'
  <2>1. n \in Range(list)
    <3>1. IsList(list)
      BY <1>13 DEF StartsWith, IsList
    <3>2. QED
      BY <1>13, <3>1, ListIs
  <2>2. \A w \in DOMAIN map : \E o \in Range(list) : w = <<m, o>>
    BY <1>1, <1>2, LoadingIs DEF WordsAreOfTheList
  <2>3. \A w \in DOMAIN more : \E o \in Range(list) : w = <<m, o>>
    BY <1>12, <2>1, <2>2
  <2>4. QED
    BY <1>2, <1>5, <1>8, <2>3 DEF WordsAreOfTheList
<1>15. \A i \in 1..Len(list) : i > position - 1 => <<m, list[i]>> \in DOMAIN more
  <2> SUFFICES ASSUME NEW i \in 1..Len(list), i > position - 1
               PROVE  <<m, list[i]>> \in DOMAIN more
    OBVIOUS
  <2>1. CASE i = position
    BY <1>12, <1>13, <2>1
  <2>2. CASE i > position
    <3>1. <<m, list[i]>> \in DOMAIN map
      BY <1>1, <1>2, <2>2, LoadingIs
    <3>2. QED
      BY <1>12, <3>1
  <2>3. QED
    BY <1>13, <2>1, <2>2
<1>16. StartsWith(list, DOMAIN nodes'[m], Source.node)
  <2>1. DOMAIN nodes[m] \subseteq DOMAIN nodes'[m]
    BY <1>1, <1>2, <1>7, LoadingIs DEF AllGrow, GrowsTo
  <2>2. PICK S, R : S = DOMAIN nodes[m] /\ R = DOMAIN nodes'[m]
    OBVIOUS
  <2>3. list \in Seq(S) /\ S \subseteq R
    BY <1>13, <2>1, <2>2 DEF StartsWith
  <2>4. list \in Seq(R)
    BY <2>3
  <2>5. QED
    BY <1>13, <2>2, <2>4 DEF StartsWith
<1>17. position' \in 0..Len(list)
  BY <1>5, <1>13
<1>18. AreTrueNodes(nodes'[here'], flag', user_data')
  BY <1>2, <1>7, <1>11
<1>19. CallIs({"LoadPsddNode"})'
  BY <1>1, <1>7, LoadingIs
<1>20. LoadIs'
  BY <1>2, <1>5, <1>8, <1>14, <1>15, <1>16, <1>17, <1>18, <1>19 DEF LoadIs
<1>21. LocalsAre'
  BY <1>5, <1>20 DEF LocalsAre, BetweenCalls, ConvertIs, ReadIs, LogicIs, MultiplyIs
<1>22. QED
  BY <1>7, <1>21 DEF FlagInvariant

LEMMA EndLoadKeeps ==
  ASSUME FlagInvariant, AssertionsHold, EndLoad
  PROVE  FlagInvariant'
<1>1. pass = "load" /\ position = 0
  BY DEF EndLoad
<1>2. PICK t, f, v, ns, a, begun :
        /\ t = tree /\ f = flag /\ v = call.target /\ ns = nodes[here] /\ a = Loaded(Source.node) /\ begun = Begun(nodes[here])
  OBVIOUS
<1>3. Len(results) < Len(program) /\ call.op = "LoadPsddNode"
  BY <1>1, LoadingIs
<1>4. IsForest(t) /\ v \in DOMAIN t
  <2>1. IsForest(tree) /\ IsCallOf(program, Len(results) + 1)
    BY <1>3, CallIsOf DEF FlagInvariant
  <2>2. QED
    BY <1>2, <1>3, <2>1 DEF IsCallOf, call, tree, here
<1>5. ns[a].vtree \in Under(t, v)
  BY <1>1, <1>2 DEF AssertionsHold, LoadAsserts, VtreeIn
<1>6. IsOfFlag(ns, f, a)
  <2>1. 1 \in 1..Len(serialized_nodes) /\ 1 > position /\ serialized_nodes[1] = Source.node
    BY <1>1, LoadingIs DEF StartsWith
  <2>2. <<Source.manager, Source.node>> \in DOMAIN user_data
    BY <1>1, <2>1, LoadingIs
  <2>3. AreTrueNodes(ns, f, user_data)
    BY <1>1, <1>2, LoadingIs
  <2>4. QED
    BY <1>2, <2>2, <2>3 DEF AreTrueNodes, Loaded
<1>7. a \in DOMAIN ns
  BY <1>6, FlagHas
<1>8. IsState(begun, f) /\ begun.nodes = ns
  BY <1>2, <1>3, BegunHere
<1>9. PICK st : st = NormalizePsddNode(t, begun, v, a, f)
  OBVIOUS
<1>10. Follows(begun, st, f) /\ st.node \in DOMAIN st.nodes /\ IsOfFlag(st.nodes, f, st.node)
  BY <1>4, <1>5, <1>6, <1>7, <1>8, <1>9, NormalizeIs
<1>11. Made(st) /\ Returns(st.node, One) /\ user_data' = <<>>
  <2>1. WordsAreOfTheList
    BY <1>1, LoadingIs
  <2>2. QED
    BY <1>2, <1>9, <2>1, WordsAreReset DEF EndLoad
<1>12. IsState(st, flag) /\ GrowsTo(nodes[here], st.nodes)
  BY <1>2, <1>8, <1>10 DEF Follows
<1>13. NodesAre' /\ AllGrow(nodes, nodes') /\ nodes'[here] = st.nodes
  BY <1>3, <1>11, <1>12, MadeIs
<1>14. st.node \in DOMAIN nodes'[here] /\ IsOfFlag(nodes'[here], flag, st.node)
  BY <1>2, <1>10, <1>13
<1>15. QED
  BY <1>3, <1>11, <1>13, <1>14, ReturnKeeps DEF FlagInvariant

-----------------------------------------------------------------------------
(***************************************************************************)
(* MultiplyWithCache: the calls that have begun, each at a pair of         *)
(* elements but for the last.                                              *)
(***************************************************************************)
\* The pair that a number stands for.
LEMMA PairIs ==
  ASSUME NEW n \in Nat, NEW s \in Nat, NEW p, p \in 1..n * s
  PROVE  (p - 1) \div s + 1 \in 1..n /\ ((p - 1) % s) + 1 \in 1..s
<1>1. n * s \in Nat /\ p \in Int /\ p >= 1 /\ p <= n * s
  OBVIOUS
<1>2. s > 0
  <2>1. CASE s = 0
    BY <1>1, <2>1
  <2>2. QED
    BY <2>1
<1>3. PICK q \in Int : q = (p - 1) \div s
  BY <1>2
<1>4. q >= 0 /\ q * s <= p - 1
  BY <1>1, <1>2, <1>3
<1>5. q < n
  <2> SUFFICES ASSUME q >= n PROVE FALSE
    OBVIOUS
  <2>1. n * s <= q * s
    BY <1>2
  <2>2. QED
    BY <1>1, <1>4, <2>1
<1>6. (p - 1) % s \in 0..s - 1
  BY <1>1, <1>2
<1>7. QED
  BY <1>3, <1>4, <1>5, <1>6

LEMMA LastOf ==
  ASSUME NEW calls, IsList(calls), calls # <<>>
  PROVE  Len(calls) \in Nat /\ Len(calls) >= 1 /\ Len(calls) \in DOMAIN calls /\ DOMAIN calls = 1..Len(calls)
<1>1. Len(calls) \in Nat /\ DOMAIN calls = 1..Len(calls) /\ calls = [i \in 1..Len(calls) |-> calls[i]]
  BY ListIs
<1>2. Len(calls) # 0
  <2>1. PICK S : calls \in Seq(S)
    BY DEF IsList
  <2>2. QED
    BY <2>1
<1>3. QED
  BY <1>1, <1>2

\* What there is stays when the manager has more nodes.
LEMMA FrameStays ==
  ASSUME NEW ns, NEW f, NEW fr, IsFrame(ns, f, fr), NEW more, GrowsTo(ns, more)
  PROVE  IsFrame(more, f, fr) /\ (IsAtPair(ns, fr) => IsAtPair(more, fr))
<1>1. fr.first \in DOMAIN ns /\ fr.second \in DOMAIN ns
  BY DEF IsFrame
<1>2. /\ fr.first \in DOMAIN more /\ fr.second \in DOMAIN more
      /\ more[fr.first] = ns[fr.first] /\ more[fr.second] = ns[fr.second]
  BY <1>1 DEF GrowsTo
<1>3. IsAtPair(ns, fr) => IsAtPair(more, fr)
  BY <1>2 DEF IsAtPair
<1>4. PICK es : es = fr.elements
  OBVIOUS
<1>5. AreElements(more, f, es)
  <2>1. AreElements(ns, f, es)
    BY <1>4 DEF IsFrame
  <2>2. QED
    BY <2>1, ElementsStay
<1>6. fr.prime_result = <<>> \/ IsOfFlag(more, f, fr.prime_result[1].node)
  <2>1. PICK a : a = fr.prime_result[1].node
    OBVIOUS
  <2>2. fr.prime_result = <<>> \/ IsOfFlag(ns, f, a)
    BY <2>1 DEF IsFrame
  <2>3. IsOfFlag(ns, f, a) => IsOfFlag(more, f, a)
    BY FlagStays
  <2>4. QED
    BY <2>1, <2>2, <2>3
<1>7. IsFrame(more, f, fr)
  BY <1>2, <1>4, <1>5, <1>6 DEF IsFrame
<1>8. QED
  BY <1>3, <1>7

LEMMA ProductStays ==
  ASSUME NEW ns, NEW f, NEW result, IsProductIn(ns, f, result), NEW more, GrowsTo(ns, more)
  PROVE  IsProductIn(more, f, result)
<1>1. PICK a : a = result.node
  OBVIOUS
<1>2. IsOfFlag(ns, f, a) => IsOfFlag(more, f, a)
  BY FlagStays
<1>3. QED
  BY <1>1, <1>2 DEF IsProductIn

LEMMA CallsStay ==
  ASSUME NEW ns, NEW f, NEW calls, NEW last, NEW map, AreCalls(ns, f, calls, last, map), NEW more, GrowsTo(ns, more)
  PROVE  AreCalls(more, f, calls, last, map)
<1>1. /\ IsList(calls) /\ \A i \in DOMAIN calls : IsFrame(ns, f, calls[i])
      /\ \A i \in DOMAIN calls : i < Len(calls) \/ last # <<>> => IsAtPair(ns, calls[i])
      /\ (calls = <<>> => last # <<>>) /\ (last # <<>> => IsProductIn(ns, f, last[1]))
      /\ AreProducts(ns, f, map)
  BY DEF AreCalls
<1>2. ASSUME NEW i \in DOMAIN calls
      PROVE  IsFrame(more, f, calls[i]) /\ (i < Len(calls) \/ last # <<>> => IsAtPair(more, calls[i]))
  <2>1. PICK fr : fr = calls[i]
    OBVIOUS
  <2>2. IsFrame(ns, f, fr) /\ (i < Len(calls) \/ last # <<>> => IsAtPair(ns, fr))
    BY <1>1, <2>1
  <2>3. IsFrame(more, f, fr) /\ (IsAtPair(ns, fr) => IsAtPair(more, fr))
    BY <2>2, FrameStays
  <2>4. QED
    BY <2>1, <2>2, <2>3
<1>3. AreProducts(more, f, map)
  BY <1>1, ProductStays DEF AreProducts
<1>4. last # <<>> => IsProductIn(more, f, last[1])
  BY <1>1, ProductStays
<1>5. QED
  BY <1>1, <1>2, <1>3, <1>4 DEF AreCalls

-----------------------------------------------------------------------------
\* The last call ends, goes on, or calls itself.
LEMMA Leaves ==
  ASSUME NEW ns, NEW f, NEW calls, NEW last, NEW map, AreCalls(ns, f, calls, last, map), calls # <<>>,
         NEW result, IsProductIn(ns, f, result), NEW known, AreProducts(ns, f, known)
  PROVE  AreCalls(ns, f, Front(calls), <<result>>, known)
<1>1. IsList(calls) /\ \A i \in DOMAIN calls : IsFrame(ns, f, calls[i]) /\ (i < Len(calls) => IsAtPair(ns, calls[i]))
  BY DEF AreCalls
<1>2. Len(calls) \in Nat /\ Len(calls) >= 1 /\ DOMAIN calls = 1..Len(calls)
  BY <1>1, LastOf
<1>3. PICK front : front = Front(calls)
  OBVIOUS
<1>4. IsList(front) /\ DOMAIN front = 1..Len(calls) - 1 /\ \A i \in DOMAIN front : front[i] = calls[i]
  <2>1. PICK S : calls \in Seq(S)
    BY <1>1 DEF IsList
  <2>2. front = SubSeq(calls, 1, Len(calls) - 1)
    BY <1>3 DEF Front
  <2>3. front \in Seq(S) /\ Len(front) = Len(calls) - 1 /\ \A i \in 1..Len(calls) - 1 : front[i] = calls[i]
    BY <1>2, <2>1, <2>2
  <2>4. IsList(front)
    BY <2>3, Zenon DEF IsList
  <2>5. DOMAIN front = 1..Len(front)
    BY <2>4, ListIs, Zenon
  <2>6. QED
    BY <2>3, <2>4, <2>5, Zenon
<1>5. \A i \in DOMAIN front : IsFrame(ns, f, front[i]) /\ IsAtPair(ns, front[i])
  BY <1>1, <1>2, <1>4
<1>6. PICK one : one = <<result>>
  OBVIOUS
<1>7. one # <<>> /\ one[1] = result
  BY <1>6
<1>8. AreCalls(ns, f, front, one, known)
  BY <1>4, <1>5, <1>7 DEF AreCalls
<1>9. QED
  BY <1>3, <1>6, <1>8

\* The last call goes on with another frame.
LastAs(calls, fr) == [calls EXCEPT ![Len(calls)] = fr]
LEMMA GoesOn ==
  ASSUME NEW ns, NEW f, NEW calls, NEW last, NEW map, AreCalls(ns, f, calls, last, map), calls # <<>>,
         NEW fr, IsFrame(ns, f, fr)
  PROVE  AreCalls(ns, f, LastAs(calls, fr), <<>>, map) /\ Len(LastAs(calls, fr)) = Len(calls)
<1>1. /\ IsList(calls) /\ AreProducts(ns, f, map)
      /\ \A i \in DOMAIN calls : IsFrame(ns, f, calls[i]) /\ (i < Len(calls) => IsAtPair(ns, calls[i]))
  BY DEF AreCalls
<1>2. Len(calls) \in Nat /\ Len(calls) >= 1 /\ DOMAIN calls = 1..Len(calls)
  BY <1>1, LastOf
<1>3. PICK n \in Nat : n = Len(calls)
  BY <1>2
<1>4. PICK after : after = [calls EXCEPT ![n] = fr]
  OBVIOUS
<1>5. DOMAIN after = 1..n /\ \A i \in 1..n : after[i] = IF i = n THEN fr ELSE calls[i]
  BY <1>2, <1>3, <1>4
<1>6. after = [i \in 1..n |-> after[i]]
  BY <1>2, <1>3, <1>4
<1>7. IsList(after) /\ Len(after) = n
  BY <1>5, <1>6, FunctionIsList
<1>8. after # <<>>
  BY <1>2, <1>3, <1>7
<1>9. ASSUME NEW i \in DOMAIN after
      PROVE  IsFrame(ns, f, after[i]) /\ (i < Len(after) => IsAtPair(ns, after[i]))
  <2>1. i \in 1..n /\ i \in DOMAIN calls
    BY <1>2, <1>3, <1>5
  <2>2. CASE i = n
    <3>1. ~ (i < n)
      BY <2>1, <2>2
    <3>2. after[i] = fr
      BY <1>5, <2>1, <2>2, Zenon
    <3>3. QED
      BY <1>7, <3>1, <3>2, Zenon
  <2>3. CASE i # n
    <3>1. i < n
      BY <2>1, <2>3
    <3>2. after[i] = calls[i]
      BY <1>5, <2>1, <2>3, Zenon
    <3>3. i < Len(calls)
      BY <1>3, <3>1, Zenon
    <3>4. QED
      BY <1>1, <2>1, <3>2, <3>3, Zenon
  <2>4. QED
    BY <2>2, <2>3
<1>10. AreCalls(ns, f, after, <<>>, map)
  BY <1>1, <1>7, <1>8, <1>9 DEF AreCalls
<1>11. after = LastAs(calls, fr)
  BY <1>3, <1>4 DEF LastAs
<1>12. QED
  BY <1>3, <1>7, <1>10, <1>11, Zenon

LEMMA FrameIs ==
  ASSUME NEW ns, NEW f, NEW first, first \in DOMAIN ns, NEW second, second \in DOMAIN ns
  PROVE  IsFrame(ns, f, Frame(first, second))
<1>1. PICK fr : fr = Frame(first, second)
  OBVIOUS
<1>2. /\ fr = [first |-> fr.first, second |-> fr.second, pair |-> fr.pair, prime_result |-> fr.prime_result,
               elements |-> fr.elements, partition |-> fr.partition]
      /\ fr.first = first /\ fr.second = second /\ fr.pair = 0 /\ fr.prime_result = <<>> /\ fr.elements = <<>>
  BY <1>1 DEF Frame
<1>3. IsList(<<>>) /\ DOMAIN <<>> = {}
  BY DEF IsList
<1>4. AreElements(ns, f, fr.elements)
  BY <1>2, <1>3 DEF AreElements
<1>5. IsFrame(ns, f, fr)
  BY <1>2, <1>4 DEF IsFrame
<1>6. QED
  BY <1>1, <1>5

LEMMA CallsItself ==
  ASSUME NEW ns, NEW f, NEW calls, NEW last, NEW map, AreCalls(ns, f, calls, last, map), calls # <<>>,
         NEW fr, IsFrame(ns, f, fr), IsAtPair(ns, fr), NEW first, first \in DOMAIN ns, NEW second, second \in DOMAIN ns
  PROVE  AreCalls(ns, f, Append([calls EXCEPT ![Len(calls)] = fr], Frame(first, second)), <<>>, map)
<1>1. PICK on : on = LastAs(calls, fr)
  OBVIOUS
<1>2. AreCalls(ns, f, on, <<>>, map) /\ Len(on) = Len(calls)
  BY <1>1, GoesOn, ZenonT(60)
<1>3. IsList(calls) /\ Len(calls) \in Nat /\ Len(calls) \in DOMAIN calls
  BY LastOf DEF AreCalls
<1>4. /\ IsList(on) /\ AreProducts(ns, f, map)
      /\ \A i \in DOMAIN on : IsFrame(ns, f, on[i]) /\ (i < Len(on) => IsAtPair(ns, on[i]))
  BY <1>2 DEF AreCalls
<1>5. DOMAIN on = DOMAIN calls /\ on[Len(calls)] = fr
  BY <1>1, <1>3 DEF LastAs
<1>6. Len(on) = Len(calls)
  BY <1>2
<1>7. \A i \in DOMAIN on : IsAtPair(ns, on[i])
  <2> SUFFICES ASSUME NEW i \in DOMAIN on PROVE IsAtPair(ns, on[i])
    OBVIOUS
  <2>1. PICK n : n = Len(on)
    OBVIOUS
  <2>2. i \in 1..n /\ n \in Nat
    BY <1>4, <2>1, ListIs
  <2>3. i < n \/ i = n
    BY <2>2
  <2>4. CASE i < n
    BY <1>4, <2>1, <2>4, Zenon
  <2>5. CASE i = n
    BY <1>5, <1>6, <2>1, <2>5, Zenon
  <2>6. QED
    BY <2>3, <2>4, <2>5, Zenon
<1>8. PICK new : new = Frame(first, second)
  OBVIOUS
<1>9. IsFrame(ns, f, new)
  BY <1>8, FrameIs
<1>10. PICK more : more = Append(on, new)
  OBVIOUS
<1>11. /\ IsList(more) /\ Len(more) = Len(on) + 1 /\ more[Len(on) + 1] = new /\ DOMAIN more = 1..Len(on) + 1
       /\ (\A i \in DOMAIN on : more[i] = on[i]) /\ DOMAIN on = 1..Len(on) /\ Len(on) \in Nat
  BY <1>4, <1>10, AppendIsList, ListIs
<1>12. more # <<>>
  BY <1>11
<1>13. ASSUME NEW i \in DOMAIN more
       PROVE  IsFrame(ns, f, more[i]) /\ (i < Len(more) => IsAtPair(ns, more[i]))
  <2>1. CASE i \in DOMAIN on
    BY <1>4, <1>7, <1>11, <2>1
  <2>2. CASE i \notin DOMAIN on
    <3>1. i = Len(on) + 1
      BY <1>11, <2>2
    <3>2. QED
      BY <1>9, <1>11, <3>1
  <2>3. QED
    BY <2>1, <2>2
<1>14. AreCalls(ns, f, more, <<>>, map)
  BY <1>4, <1>11, <1>12, <1>13 DEF AreCalls
<1>15. QED
  BY <1>1, <1>8, <1>10, <1>14 DEF LastAs

\* The cache of a product, with one more.
LEMMA ProductsWith ==
  ASSUME NEW ns, NEW f, NEW map, AreProducts(ns, f, map), NEW k, NEW result, IsProductIn(ns, f, result)
  PROVE  AreProducts(ns, f, Assigned(map, k, result))
<1>1. PICK more : more = Assigned(map, k, result)
  OBVIOUS
<1>2. DOMAIN more = DOMAIN map \cup {k} /\ \A j \in DOMAIN more : more[j] = IF j = k THEN result ELSE map[j]
  BY <1>1 DEF Assigned
<1>3. \A j \in DOMAIN more : IsProductIn(ns, f, more[j])
  BY <1>2 DEF AreProducts
<1>4. QED
  BY <1>1, <1>3 DEF AreProducts

\* The call that begins a multiplication.
LEMMA FirstCall ==
  ASSUME NEW ns, NEW f, NEW fr, IsFrame(ns, f, fr)
  PROVE  AreCalls(ns, f, <<fr>>, <<>>, <<>>)
<1>1. PICK calls : calls = <<fr>>
  OBVIOUS
<1>2. IsList(calls) /\ Len(calls) = 1 /\ DOMAIN calls = 1..1 /\ calls[1] = fr /\ calls # <<>>
  <2>1. calls \in Seq({fr})
    BY <1>1
  <2>2. IsList(calls)
    BY <2>1 DEF IsList
  <2>3. Len(calls) = 1 /\ calls[1] = fr
    BY <1>1
  <2>4. DOMAIN calls = 1..1
    BY <2>2, <2>3, ListIs
  <2>5. calls # <<>>
    BY <1>1
  <2>6. QED
    BY <2>2, <2>3, <2>4, <2>5
<1>3. \A i \in DOMAIN calls : i = 1
  BY <1>2
<1>4. \A i \in DOMAIN calls : IsFrame(ns, f, calls[i]) /\ ~ (i < Len(calls))
  BY <1>2, <1>3
<1>5. AreProducts(ns, f, <<>>)
  BY DEF AreProducts
<1>6. AreCalls(ns, f, calls, <<>>, <<>>)
  BY <1>2, <1>4, <1>5 DEF AreCalls
<1>7. QED
  BY <1>1, <1>6

LEMMA BeginMultiplyKeeps ==
  ASSUME FlagInvariant, BeginMultiply
  PROVE  FlagInvariant'
<1>1. CallIs({"Multiply"}) /\ pass = "none" /\ Len(results) < Len(program) /\ call.op = "Multiply"
      /\ \A i \in call.arguments : IsNodeOf(Result(i))
  BY DEF BeginMultiply, CanCall, CallIs
<1>2. /\ pass' = "multiply" /\ nodes' = nodes /\ user_data' = user_data /\ returned' = returned /\ cache' = cache
      /\ stack' = <<Frame(Result(call.first).node, Result(call.second).node)>> /\ UNCHANGED clientVars
  BY DEF BeginMultiply
<1>3. user_data = <<>> /\ returned = <<>> /\ cache = <<>>
  BY <1>1 DEF FlagInvariant, LocalsAre, BetweenCalls
<1>4. AllGrow(nodes, nodes')
  BY <1>2, AllStay
<1>5. /\ ProgramIs' /\ ResultsAre' /\ call' = call /\ here' = here /\ flag' = flag
      /\ CallIs({"Multiply"})'
  BY <1>1, <1>2, <1>4, OngoingKeeps DEF FlagInvariant
<1>6. call.first \in call.arguments /\ call.second \in call.arguments
  <2>1. IsCallOf(program, Len(results) + 1)
    BY <1>1, CallIsOf DEF FlagInvariant
  <2>2. QED
    BY <1>1, <2>1 DEF IsCallOf, call
<1>7. PICK ns, f, first, second : /\ ns = nodes[here] /\ f = flag
                                  /\ first = Result(call.first).node /\ second = Result(call.second).node
  OBVIOUS
<1>8. first \in DOMAIN ns
  BY <1>1, <1>6, <1>7, ArgumentIs DEF FlagInvariant, Result
<1>9. second \in DOMAIN ns
  BY <1>1, <1>6, <1>7, ArgumentIs DEF FlagInvariant, Result
<1>10. PICK fr : fr = Frame(first, second)
  OBVIOUS
<1>11. IsFrame(ns, f, fr)
  BY <1>8, <1>9, <1>10, FrameIs
<1>12. AreCalls(ns, f, <<fr>>, <<>>, <<>>)
  BY <1>11, FirstCall
<1>13. AreCalls(nodes'[here], flag, stack', returned', cache')
  BY <1>2, <1>3, <1>7, <1>10, <1>12
<1>14. MultiplyIs'
  BY <1>2, <1>3, <1>5, <1>13 DEF MultiplyIs
<1>15. LocalsAre'
  BY <1>2, <1>14 DEF LocalsAre, BetweenCalls, ReadIs, ConvertIs, LoadIs, LogicIs
<1>16. QED
  BY <1>2, <1>5, <1>15 DEF FlagInvariant, NodesAre

-----------------------------------------------------------------------------
\* What a step of a multiplication begins with, and what it has to keep.
LEMMA MultiplyHas ==
  ASSUME FlagInvariant, InMultiply
  PROVE  /\ CallIs({"Multiply"}) /\ Len(results) < Len(program) /\ user_data = <<>> /\ pass = "multiply"
         /\ here \in DOMAIN Vtree /\ IsForest(tree) /\ AreNodes(nodes[here])
         /\ AreCalls(nodes[here], flag, stack, returned, cache) /\ stack # <<>> /\ IsFrame(nodes[here], flag, Top)
         /\ returned # <<>> => IsAtPair(nodes[here], Top) /\ IsProductIn(nodes[here], flag, returned[1])
         /\ AreProducts(nodes[here], flag, cache)
<1>1. pass = "multiply" /\ stack # <<>>
  BY DEF InMultiply
<1>2. CallIs({"Multiply"}) /\ user_data = <<>> /\ AreCalls(nodes[here], flag, stack, returned, cache)
  BY <1>1 DEF FlagInvariant, LocalsAre, MultiplyIs
<1>3. Len(results) < Len(program)
  BY <1>2 DEF CallIs
<1>4. here \in DOMAIN Vtree /\ IsForest(tree)
  BY <1>3, CallIsOf DEF FlagInvariant
<1>5. AreNodes(nodes[here])
  BY <1>4 DEF FlagInvariant, NodesAre, AreNodesOf
<1>6. IsList(stack) /\ Len(stack) \in DOMAIN stack
  BY <1>1, <1>2, LastOf DEF AreCalls
<1>7. IsFrame(nodes[here], flag, Top)
  BY <1>2, <1>6 DEF AreCalls, Top
<1>8. returned # <<>> => IsAtPair(nodes[here], Top) /\ IsProductIn(nodes[here], flag, returned[1])
  BY <1>2, <1>6 DEF AreCalls, Top
<1>9. AreProducts(nodes[here], flag, cache)
  BY <1>2 DEF AreCalls
<1>10. QED
  BY <1>1, <1>2, <1>3, <1>4, <1>5, <1>7, <1>8, <1>9

LEMMA MultiplyingKeeps ==
  ASSUME FlagInvariant, InMultiply, NodesAre', AllGrow(nodes, nodes'),
         AreCalls(nodes'[here], flag, stack', returned', cache')
  PROVE  FlagInvariant'
<1>1. CallIs({"Multiply"}) /\ Len(results) < Len(program) /\ user_data = <<>> /\ pass = "multiply"
  BY MultiplyHas
<1>2. UNCHANGED clientVars /\ user_data' = <<>> /\ pass' = "multiply"
  BY <1>1 DEF InMultiply
<1>3. ProgramIs' /\ ResultsAre' /\ here' = here /\ flag' = flag /\ CallIs({"Multiply"})'
  BY <1>1, <1>2, OngoingKeeps DEF FlagInvariant
<1>4. MultiplyIs'
  BY <1>2, <1>3 DEF MultiplyIs
<1>5. LocalsAre'
  BY <1>2, <1>4 DEF LocalsAre, BetweenCalls, ReadIs, ConvertIs, LoadIs, LogicIs
<1>6. QED
  BY <1>3, <1>5 DEF FlagInvariant

LEMMA SameNodesKeep ==
  ASSUME FlagInvariant, InMultiply, UNCHANGED nodes, AreCalls(nodes[here], flag, stack', returned', cache')
  PROVE  FlagInvariant'
<1>1. NodesAre' /\ AllGrow(nodes, nodes')
  BY AllStay DEF FlagInvariant, NodesAre
<1>2. AreCalls(nodes'[here], flag, stack', returned', cache')
  OBVIOUS
<1>3. QED
  BY <1>1, <1>2, MultiplyingKeeps

-----------------------------------------------------------------------------
LEMMA LookupKeeps ==
  ASSUME FlagInvariant, Lookup
  PROVE  FlagInvariant'
<1>1. InMultiply /\ Key(Top) \in DOMAIN cache /\ nodes' = nodes /\ cache' = cache
  BY DEF Lookup
<1>2. PICK ns, f, calls, last, map, result : /\ ns = nodes[here] /\ f = flag /\ calls = stack /\ last = returned
                                             /\ map = cache /\ result = cache[Key(Top)]
  OBVIOUS
<1>3. AreCalls(ns, f, calls, last, map) /\ calls # <<>> /\ AreProducts(ns, f, map)
  BY <1>1, <1>2, MultiplyHas
<1>4. IsProductIn(ns, f, result)
  BY <1>1, <1>2, <1>3 DEF AreProducts
<1>5. AreCalls(ns, f, Front(calls), <<result>>, map)
  BY <1>3, <1>4, Leaves
<1>6. stack' = Front(calls) /\ returned' = <<result>>
  BY <1>2 DEF Lookup, Leave
<1>7. AreCalls(nodes[here], flag, stack', returned', cache')
  BY <1>1, <1>2, <1>5, <1>6
<1>8. QED
  BY <1>1, <1>7, SameNodesKeep

\* A node for a leaf, if there is one, has the flag.
LEMMA LeafNode ==
  ASSUME NEW ns, AreNodes(ns), NEW f, NEW st, NEW c, st = GetUniqueNode(Begun(ns), c),
         \/ \E v, sign : c = LiteralNode(v, sign, f)
         \/ \E v, positive, negative : c = TopNode(v, positive, negative, f)
  PROVE  IsState(st, f) /\ GrowsTo(ns, st.nodes) /\ IsOfFlag(st.nodes, f, st.node)
<1>1. PICK begun : begun = Begun(ns)
  OBVIOUS
<1>2. IsState(begun, f) /\ begun.nodes = ns
  BY <1>1, BegunIs
<1>3. Follows(begun, st, f) /\ IsOfFlag(st.nodes, f, st.node)
  <2>1. CASE \E v, sign : c = LiteralNode(v, sign, f)
    <3>1. PICK v, sign : c = LiteralNode(v, sign, f)
      BY <2>1
    <3>2. st = GetUniqueNode(begun, LiteralNode(v, sign, f))
      BY <1>1, <3>1
    <3>3. QED
      BY <1>2, <3>2, UniqueLiteral
  <2>2. CASE \E v, positive, negative : c = TopNode(v, positive, negative, f)
    <3>1. PICK v, positive, negative : c = TopNode(v, positive, negative, f)
      BY <2>2
    <3>2. st = GetUniqueNode(begun, TopNode(v, positive, negative, f))
      BY <1>1, <3>1
    <3>3. QED
      BY <1>2, <3>2, UniqueTop
  <2>3. QED
    BY <2>1, <2>2
<1>4. QED
  BY <1>2, <1>3 DEF Follows

\* What a product of leaves is.
LeafResultIs(lr) ==
  /\ IsState(lr.st, flag) /\ GrowsTo(nodes[here], lr.st.nodes)
  /\ IsProductIn(lr.st.nodes, flag, lr.result)
LEMMA LiteralResultIs ==
  ASSUME AreNodes(nodes[here]), NEW sign, NEW value, NEW lr, lr = LiteralResult(sign, value)
  PROVE  LeafResultIs(lr)
<1>1. PICK ns, f, v : ns = nodes[here] /\ f = flag /\ v = First.vtree
  OBVIOUS
<1>2. PICK st : st = GetUniqueNode(Begun(ns), LiteralNode(v, sign, f))
  OBVIOUS
<1>3. IsState(st, f) /\ GrowsTo(ns, st.nodes) /\ IsOfFlag(st.nodes, f, st.node)
  BY <1>1, <1>2, LeafNode
<1>4. lr = [st |-> st, result |-> [node |-> st.node, value |-> value]]
  BY <1>1, <1>2 DEF LiteralResult
<1>5. lr.st = st /\ lr.result.node = st.node
  BY <1>4
<1>6. QED
  BY <1>1, <1>3, <1>5 DEF LeafResultIs, IsProductIn

LEMMA TopResultIs ==
  ASSUME AreNodes(nodes[here]), NEW lr, lr = TopResult
  PROVE  LeafResultIs(lr)
<1>1. PICK ns, f, v : ns = nodes[here] /\ f = flag /\ v = First.vtree
  OBVIOUS
<1>2. PICK positive : positive = Times(First.true_parameter, Second.true_parameter)
  OBVIOUS
<1>3. PICK negative : negative = Times(First.false_parameter, Second.false_parameter)
  OBVIOUS
<1>4. PICK partition : partition = Plus(positive, negative)
  OBVIOUS
<1>5. PICK yes, no : yes = Over(positive, partition) /\ no = Over(negative, partition)
  OBVIOUS
<1>6. PICK st : st = GetUniqueNode(Begun(ns), TopNode(v, yes, no, f))
  OBVIOUS
<1>7. IsState(st, f) /\ GrowsTo(ns, st.nodes) /\ IsOfFlag(st.nodes, f, st.node)
  BY <1>1, <1>6, LeafNode
<1>8. lr = [st |-> st, result |-> [node |-> st.node, value |-> partition]]
  BY <1>1, <1>2, <1>3, <1>4, <1>5, <1>6 DEF TopResult
<1>9. lr.st = st /\ lr.result.node = st.node
  BY <1>8
<1>10. QED
  BY <1>1, <1>7, <1>9 DEF LeafResultIs, IsProductIn

LEMMA NoLeafResult ==
  ASSUME AreNodes(nodes[here]), NEW lr, lr = [st |-> Begun(nodes[here]), result |-> NullResult]
  PROVE  LeafResultIs(lr)
<1>1. PICK ns, f, st : ns = nodes[here] /\ f = flag /\ st = Begun(ns)
  OBVIOUS
<1>2. IsState(st, f) /\ st.nodes = ns
  BY <1>1, BegunIs
<1>3. lr.st = st /\ lr.result.node = NullNode
  BY <1>1 DEF NullResult
<1>4. QED
  BY <1>1, <1>2, <1>3 DEF LeafResultIs, IsProductIn, GrowsTo

\* The leaves that are multiplied, and what their product is.
LeafCases(lr) ==
  \/ /\ First.type = "literal" /\ Second.type = "literal" /\ First.sign = Second.sign
     /\ lr = LiteralResult(First.sign, One)
  \/ /\ First.type = "literal" /\ Second.type = "literal" /\ First.sign # Second.sign
     /\ lr = [st |-> Begun(nodes[here]), result |-> NullResult]
  \/ First.type = "literal" /\ Second.type = "top" /\ lr = LiteralResult(First.sign, ParameterFor(Second, First.sign))
  \/ First.type = "top" /\ Second.type = "literal" /\ lr = LiteralResult(Second.sign, ParameterFor(First, Second.sign))
  \/ First.type = "top" /\ Second.type = "top" /\ lr = TopResult

LEMMA LeavesAre ==
  ASSUME FlagInvariant, AssertionsHold, InMultiply, ~AreDecisions, NEW lr, lr = LeafResult
  PROVE  LeafCases(lr) /\ LeafResultIs(lr) /\ First.vtree = Second.vtree
<1>1. /\ AreNodes(nodes[here]) /\ IsFrame(nodes[here], flag, Top) /\ pass = "multiply"
      /\ AreCalls(nodes[here], flag, stack, returned, cache) /\ stack # <<>>
  BY MultiplyHas
<1>2. First.type \in {"literal", "top", "decision"} /\ Second.type \in {"literal", "top", "decision"}
  BY <1>1 DEF AreNodes, IsFrame, First, Second, Content
<1>3. Len(stack) \in DOMAIN stack
  BY <1>1, LastOf DEF AreCalls
<1>4. First.vtree = Second.vtree /\ (First.type = "decision" <=> Second.type = "decision")
  BY <1>1, <1>3 DEF AssertionsHold, MultiplyAsserts, First, Second, Top
<1>5. First.type \in {"literal", "top"} /\ Second.type \in {"literal", "top"}
  BY <1>2, <1>4 DEF AreDecisions
<1>6. First.type = "literal" /\ Second.type = "literal" => LeafCases(lr)
  BY DEF LeafCases, LeafResult
<1>7. First.type = "literal" /\ Second.type = "top" => LeafCases(lr)
  BY DEF LeafCases, LeafResult
<1>8. First.type = "top" /\ Second.type = "literal" => LeafCases(lr)
  BY DEF LeafCases, LeafResult
<1>9. First.type = "top" /\ Second.type = "top" => LeafCases(lr)
  BY DEF LeafCases, LeafResult
<1>10. LeafCases(lr)
  BY <1>5, <1>6, <1>7, <1>8, <1>9
<1>11. QED
  BY <1>1, <1>4, <1>10, LiteralResultIs, NoLeafResult, TopResultIs DEF LeafCases

\* The last call ends with a result that is put into the cache.
LEMMA ResultKeeps ==
  ASSUME FlagInvariant, InMultiply, NEW st, IsState(st, flag), GrowsTo(nodes[here], st.nodes), Made(st),
         NEW result, IsProductIn(st.nodes, flag, result), Update(result), Leave(result)
  PROVE  FlagInvariant'
<1>1. /\ Len(results) < Len(program) /\ AreCalls(nodes[here], flag, stack, returned, cache) /\ stack # <<>>
      /\ AreProducts(nodes[here], flag, cache)
  BY MultiplyHas
<1>2. NodesAre' /\ AllGrow(nodes, nodes') /\ nodes'[here] = st.nodes
  BY <1>1, MadeIs
<1>3. PICK ns, more, f, calls, last, map, k : /\ ns = nodes[here] /\ more = st.nodes /\ f = flag /\ calls = stack
                                              /\ last = returned /\ map = cache /\ k = Key(Top)
  OBVIOUS
<1>4. AreCalls(ns, f, calls, last, map) /\ GrowsTo(ns, more) /\ calls # <<>>
  BY <1>1, <1>3
<1>5. AreCalls(more, f, calls, last, map)
  BY <1>4, CallsStay
<1>6. AreProducts(more, f, map) /\ IsProductIn(more, f, result)
  BY <1>3, <1>5 DEF AreCalls
<1>7. PICK known : known = Assigned(map, k, result)
  OBVIOUS
<1>8. AreProducts(more, f, known)
  BY <1>6, <1>7, ProductsWith
<1>9. AreCalls(more, f, Front(calls), <<result>>, known)
  BY <1>4, <1>5, <1>6, <1>8, Leaves
<1>10. stack' = Front(calls) /\ returned' = <<result>> /\ cache' = known
  BY <1>3, <1>7 DEF Leave, Update
<1>11. AreCalls(nodes'[here], flag, stack', returned', cache')
  BY <1>2, <1>3, <1>9, <1>10
<1>12. QED
  BY <1>2, <1>11, MultiplyingKeeps

LEMMA MultiplyLeavesKeeps ==
  ASSUME FlagInvariant, AssertionsHold, MultiplyLeaves
  PROVE  FlagInvariant'
<1>1. PICK lr, st, result : lr = LeafResult /\ st = LeafResult.st /\ result = LeafResult.result
  OBVIOUS
<1>2. InMultiply /\ ~AreDecisions /\ Made(st) /\ Update(result) /\ Leave(result)
  BY <1>1 DEF MultiplyLeaves
<1>3. LeafResultIs(lr)
  BY <1>1, <1>2, LeavesAre
<1>4. IsState(st, flag) /\ GrowsTo(nodes[here], st.nodes) /\ IsProductIn(st.nodes, flag, result)
  BY <1>1, <1>3 DEF LeafResultIs
<1>5. QED
  BY <1>2, <1>4, ResultKeeps

\* A call by its parts.
IsWholeFrame(fr) ==
  fr = [first |-> fr.first, second |-> fr.second, pair |-> fr.pair, prime_result |-> fr.prime_result,
        elements |-> fr.elements, partition |-> fr.partition]
FrameOf(a, b, p, r, es, w) ==
  [first |-> a, second |-> b, pair |-> p, prime_result |-> r, elements |-> es, partition |-> w]

\* What two changes of a call make of it.
LEMMA AtNextPair ==
  ASSUME NEW fr, IsWholeFrame(fr), NEW p, NEW r, NEW on, on = [fr EXCEPT !.pair = p, !.prime_result = r]
  PROVE  on = FrameOf(fr.first, fr.second, p, r, fr.elements, fr.partition)
<1>1. PICK a, b, q, s, es, w : fr = FrameOf(a, b, q, s, es, w)
  BY DEF IsWholeFrame, FrameOf
<1>2. PICK mid : mid = [fr EXCEPT !.pair = p]
  OBVIOUS
<1>3. mid = FrameOf(a, b, p, s, es, w)
  BY <1>1, <1>2 DEF FrameOf
<1>4. on = [mid EXCEPT !.prime_result = r]
  BY <1>2
<1>5. on = FrameOf(a, b, p, r, es, w)
  BY <1>3, <1>4 DEF FrameOf
<1>6. fr.first = a /\ fr.second = b /\ fr.elements = es /\ fr.partition = w
  BY <1>1 DEF FrameOf
<1>7. QED
  BY <1>5, <1>6

LEMMA WithOneMore ==
  ASSUME NEW fr, IsWholeFrame(fr), NEW es, NEW w, NEW on, on = [fr EXCEPT !.elements = es, !.partition = w]
  PROVE  on = FrameOf(fr.first, fr.second, fr.pair, fr.prime_result, es, w)
<1>1. PICK a, b, q, s, ds, v : fr = FrameOf(a, b, q, s, ds, v)
  BY DEF IsWholeFrame, FrameOf
<1>2. PICK mid : mid = [fr EXCEPT !.elements = es]
  OBVIOUS
<1>3. mid = FrameOf(a, b, q, s, es, v)
  BY <1>1, <1>2 DEF FrameOf
<1>4. on = [mid EXCEPT !.partition = w]
  BY <1>2
<1>5. on = FrameOf(a, b, q, s, es, w)
  BY <1>3, <1>4 DEF FrameOf
<1>6. fr.first = a /\ fr.second = b /\ fr.pair = q /\ fr.prime_result = s
  BY <1>1 DEF FrameOf
<1>7. QED
  BY <1>5, <1>6

\* What the end of a pair makes of the current call.
DoneWith(fr, es, w) == FrameOf(fr.first, fr.second, fr.pair + 1, <<>>, es, w)
LEMMA NextPairIs ==
  ASSUME IsWholeFrame(Top)
  PROVE  NextPair = DoneWith(Top, Top.elements, Top.partition)
<1>1. PICK fr, p, r : fr = Top /\ p = fr.pair + 1 /\ r = <<>>
  OBVIOUS
<1>2. PICK next : next = [fr EXCEPT !.pair = p, !.prime_result = r]
  OBVIOUS
<1>3. next = FrameOf(fr.first, fr.second, p, r, fr.elements, fr.partition)
  BY <1>1, <1>2, AtNextPair
<1>4. next = NextPair
  BY <1>1, <1>2 DEF NextPair
<1>5. QED
  BY <1>1, <1>3, <1>4 DEF DoneWith

LEMMA PushedIs ==
  ASSUME IsWholeFrame(Top), NEW e, NEW weight
  PROVE  [NextPair EXCEPT !.elements = Append(@, e), !.partition = Plus(@, weight)] =
         DoneWith(Top, Append(Top.elements, e), Plus(Top.partition, weight))
<1>1. PICK fr, next : fr = Top /\ next = NextPair /\ next = DoneWith(fr, fr.elements, fr.partition)
  BY NextPairIs
<1>2. /\ next.first = fr.first /\ next.second = fr.second /\ next.pair = fr.pair + 1 /\ next.prime_result = <<>>
      /\ next.elements = fr.elements /\ next.partition = fr.partition /\ IsWholeFrame(next)
  BY <1>1 DEF DoneWith, FrameOf, IsWholeFrame
<1>3. PICK more, w : more = Append(fr.elements, e) /\ w = Plus(fr.partition, weight)
  OBVIOUS
<1>4. PICK last : last = [next EXCEPT !.elements = more, !.partition = w]
  OBVIOUS
<1>5. last = FrameOf(next.first, next.second, next.pair, next.prime_result, more, w)
  BY <1>2, <1>4, WithOneMore
<1>6. last = DoneWith(fr, more, w)
  BY <1>2, <1>5 DEF DoneWith
<1>7. QED
  BY <1>1, <1>2, <1>3, <1>4, <1>6

\* A call that is at another pair, or knows more of its node.
LEMMA FrameOn ==
  ASSUME NEW ns, NEW f, NEW fr, IsFrame(ns, f, fr), NEW p \in Nat,
         p > 0 => ns[fr.first].type = "decision" /\ ns[fr.second].type = "decision",
         NEW r, r = <<>> \/ IsOfFlag(ns, f, r[1].node), NEW es, AreElements(ns, f, es), NEW w,
         NEW on, on = [first |-> fr.first, second |-> fr.second, pair |-> p, prime_result |-> r, elements |-> es, partition |-> w]
  PROVE  IsFrame(ns, f, on) /\ on.first = fr.first /\ on.second = fr.second /\ on.pair = p
<1>1. /\ on.first = fr.first /\ on.second = fr.second /\ on.pair = p /\ on.prime_result = r /\ on.elements = es
      /\ on.partition = w
  OBVIOUS
<1>2. on = [first |-> on.first, second |-> on.second, pair |-> on.pair, prime_result |-> on.prime_result,
            elements |-> on.elements, partition |-> on.partition]
  BY <1>1
<1>3. fr.first \in DOMAIN ns /\ fr.second \in DOMAIN ns
  BY DEF IsFrame
<1>4. QED
  BY <1>1, <1>2, <1>3 DEF IsFrame

\* The nodes of the elements of a pair.
LEMMA PairOf ==
  ASSUME NEW ns, AreNodes(ns), NEW f, NEW fr, IsFrame(ns, f, fr), IsAtPair(ns, fr), NEW one, NEW two,
         one = ns[fr.first].elements[(fr.pair - 1) \div Len(ns[fr.second].elements) + 1],
         two = ns[fr.second].elements[((fr.pair - 1) % Len(ns[fr.second].elements)) + 1]
  PROVE  /\ one.prime \in DOMAIN ns /\ one.sub \in DOMAIN ns /\ two.prime \in DOMAIN ns /\ two.sub \in DOMAIN ns
         /\ fr.pair > 0
<1>1. PICK c, d, p : c = ns[fr.first] /\ d = ns[fr.second] /\ p = fr.pair
  OBVIOUS
<1>2. PICK es, ds : es = c.elements /\ ds = d.elements
  OBVIOUS
<1>3. p \in 1..Len(es) * Len(ds) /\ p \in Nat
  BY <1>1, <1>2 DEF IsAtPair, IsFrame
<1>4. p > 0
  BY <1>3
<1>5. c.type = "decision" /\ d.type = "decision" /\ HasChildrenIn(c, DOMAIN ns) /\ HasChildrenIn(d, DOMAIN ns)
  BY <1>1, <1>4 DEF IsFrame, AreNodes, IsWhole
<1>6. /\ IsList(es) /\ \A i \in DOMAIN es : es[i].prime \in DOMAIN ns /\ es[i].sub \in DOMAIN ns
      /\ IsList(ds) /\ \A i \in DOMAIN ds : ds[i].prime \in DOMAIN ns /\ ds[i].sub \in DOMAIN ns
  BY <1>2, <1>5 DEF HasChildrenIn
<1>7. Len(es) \in Nat /\ Len(ds) \in Nat /\ DOMAIN es = 1..Len(es) /\ DOMAIN ds = 1..Len(ds)
  BY <1>6, ListIs
<1>8. PICK n \in Nat, s \in Nat : n = Len(es) /\ s = Len(ds)
  BY <1>7
<1>9. (p - 1) \div s + 1 \in 1..n /\ ((p - 1) % s) + 1 \in 1..s
  BY <1>3, <1>8, PairIs
<1>10. PICK i, j : i = (p - 1) \div s + 1 /\ j = ((p - 1) % s) + 1
  OBVIOUS
<1>11. i \in DOMAIN es /\ j \in DOMAIN ds
  BY <1>7, <1>8, <1>9, <1>10
<1>12. one = es[i] /\ two = ds[j]
  BY <1>1, <1>2, <1>8, <1>10
<1>13. QED
  BY <1>1, <1>4, <1>6, <1>11, <1>12

\* The last call goes on.
LEMMA OnKeeps ==
  ASSUME FlagInvariant, InMultiply, NEW on, IsFrame(nodes[here], flag, on), ReplaceTop(on), returned' = <<>>,
         UNCHANGED <<nodes, cache>>
  PROVE  FlagInvariant'
<1>1. AreCalls(nodes[here], flag, stack, returned, cache) /\ stack # <<>>
  BY MultiplyHas
<1>2. PICK ns, f, calls, last, map : ns = nodes[here] /\ f = flag /\ calls = stack /\ last = returned /\ map = cache
  OBVIOUS
<1>3. AreCalls(ns, f, calls, last, map) /\ calls # <<>> /\ IsFrame(ns, f, on)
  BY <1>1, <1>2
<1>4. AreCalls(ns, f, [calls EXCEPT ![Len(calls)] = on], <<>>, map)
  <2>1. AreCalls(ns, f, LastAs(calls, on), <<>>, map)
    BY <1>3, GoesOn, Zenon
  <2>2. QED
    BY <2>1 DEF LastAs
<1>5. stack' = [calls EXCEPT ![Len(calls)] = on]
  BY <1>2 DEF ReplaceTop
<1>6. AreCalls(nodes[here], flag, stack', returned', cache')
  BY <1>2, <1>4, <1>5
<1>7. QED
  BY <1>6, SameNodesKeep

\* The last call calls itself for a pair.
LEMMA CallKeeps ==
  ASSUME FlagInvariant, InMultiply, NEW on, IsFrame(nodes[here], flag, on), IsAtPair(nodes[here], on),
         NEW first, first \in DOMAIN nodes[here], NEW second, second \in DOMAIN nodes[here], Call(on, first, second),
         UNCHANGED <<nodes, cache>>
  PROVE  FlagInvariant'
<1>1. AreCalls(nodes[here], flag, stack, returned, cache) /\ stack # <<>>
  BY MultiplyHas
<1>2. PICK ns, f, calls, last, map : ns = nodes[here] /\ f = flag /\ calls = stack /\ last = returned /\ map = cache
  OBVIOUS
<1>3. /\ AreCalls(ns, f, calls, last, map) /\ calls # <<>> /\ IsFrame(ns, f, on) /\ IsAtPair(ns, on)
      /\ first \in DOMAIN ns /\ second \in DOMAIN ns
  BY <1>1, <1>2
<1>4. AreCalls(ns, f, Append([calls EXCEPT ![Len(calls)] = on], Frame(first, second)), <<>>, map)
  BY <1>3, CallsItself
<1>5. stack' = Append([calls EXCEPT ![Len(calls)] = on], Frame(first, second)) /\ returned' = <<>>
  BY <1>2 DEF Call
<1>6. AreCalls(nodes[here], flag, stack', returned', cache')
  BY <1>2, <1>4, <1>5
<1>7. QED
  BY <1>6, SameNodesKeep

-----------------------------------------------------------------------------
\* The steps of the loop over the pairs.
LEMMA BeginPairsKeeps ==
  ASSUME FlagInvariant, AssertionsHold, BeginPairs
  PROVE  FlagInvariant'
<1>1. /\ InMultiply /\ Top.pair = 0 /\ AreDecisions /\ ReplaceTop([Top EXCEPT !.pair = 1])
      /\ nodes' = nodes /\ returned' = returned /\ cache' = cache
  BY DEF BeginPairs
<1>2. /\ AreNodes(nodes[here]) /\ IsFrame(nodes[here], flag, Top) /\ pass = "multiply" /\ stack # <<>>
      /\ AreCalls(nodes[here], flag, stack, returned, cache)
      /\ returned # <<>> => IsAtPair(nodes[here], Top)
  BY <1>1, MultiplyHas
<1>3. PICK ns, f, fr : ns = nodes[here] /\ f = flag /\ fr = Top
  OBVIOUS
<1>4. returned = <<>>
  <2> SUFFICES ASSUME returned # <<>> PROVE FALSE
    OBVIOUS
  <2>1. IsAtPair(ns, fr)
    BY <1>2, <1>3
  <2>2. PICK one, two : /\ one = ns[fr.first].elements[(fr.pair - 1) \div Len(ns[fr.second].elements) + 1]
                        /\ two = ns[fr.second].elements[((fr.pair - 1) % Len(ns[fr.second].elements)) + 1]
    OBVIOUS
  <2>3. fr.pair > 0
    BY <1>2, <1>3, <2>1, <2>2, PairOf
  <2>4. QED
    BY <1>1, <1>3, <2>3
<1>5. Len(stack) \in DOMAIN stack
  BY <1>2, LastOf DEF AreCalls
<1>6. First.type = "decision" /\ Second.type = "decision"
  BY <1>1, <1>2, <1>5 DEF AssertionsHold, MultiplyAsserts, AreDecisions, First, Second, Top
<1>7. ns[fr.first].type = "decision" /\ ns[fr.second].type = "decision"
  BY <1>3, <1>6 DEF First, Second, Content
<1>8. PICK r, es, w : r = fr.prime_result /\ es = fr.elements /\ w = fr.partition
  OBVIOUS
<1>9. PICK on : on = [first |-> fr.first, second |-> fr.second, pair |-> 1, prime_result |-> r, elements |-> es, partition |-> w]
  OBVIOUS
<1>10. IsFrame(ns, f, fr) /\ (r = <<>> \/ IsOfFlag(ns, f, r[1].node)) /\ AreElements(ns, f, es)
  BY <1>2, <1>3, <1>8 DEF IsFrame
<1>11. IsFrame(ns, f, on)
  BY <1>7, <1>9, <1>10, FrameOn
<1>12. fr = [first |-> fr.first, second |-> fr.second, pair |-> fr.pair, prime_result |-> r, elements |-> es, partition |-> w]
  BY <1>8, <1>10 DEF IsFrame
<1>13. on = [fr EXCEPT !.pair = 1]
  BY <1>9, <1>12
<1>14. QED
  BY <1>1, <1>3, <1>4, <1>11, <1>13, OnKeeps

LEMMA AtPair ==
  ASSUME FlagInvariant, InMultiply, InPairs, MorePairs
  PROVE  IsAtPair(nodes[here], Top)
<1>1. AreNodes(nodes[here]) /\ IsFrame(nodes[here], flag, Top)
  BY MultiplyHas
<1>2. PICK ns, f, fr : ns = nodes[here] /\ f = flag /\ fr = Top
  OBVIOUS
<1>3. fr.pair \in Nat /\ fr.pair > 0 /\ fr.pair <= Len(ns[fr.first].elements) * Len(ns[fr.second].elements)
  BY <1>1, <1>2 DEF IsFrame, InPairs, MorePairs, SecondSize, First, Second, Content
<1>4. ns[fr.first].type = "decision" /\ ns[fr.second].type = "decision" /\ fr.first \in DOMAIN ns /\ fr.second \in DOMAIN ns
  BY <1>1, <1>2, <1>3 DEF IsFrame
<1>5. IsList(ns[fr.first].elements) /\ IsList(ns[fr.second].elements)
  BY <1>1, <1>2, <1>4 DEF AreNodes, IsWhole, HasChildrenIn
<1>6. PICK n \in Nat, s \in Nat : n = Len(ns[fr.first].elements) /\ s = Len(ns[fr.second].elements)
  BY <1>5, ListIs
<1>7. n * s \in Nat
  OBVIOUS
<1>8. PICK m \in Nat, p \in Nat : m = n * s /\ p = fr.pair
  BY <1>3, <1>7
<1>9. p > 0 /\ p <= m
  BY <1>3, <1>6, <1>8
<1>10. fr.pair \in 1..n * s
  BY <1>8, <1>9
<1>11. QED
  BY <1>2, <1>6, <1>10 DEF IsAtPair

LEMMA ElementsOfPair ==
  ASSUME FlagInvariant, InMultiply, IsAtPair(nodes[here], Top)
  PROVE  /\ FirstElement.prime \in DOMAIN nodes[here] /\ SecondElement.prime \in DOMAIN nodes[here]
         /\ FirstElement.sub \in DOMAIN nodes[here] /\ SecondElement.sub \in DOMAIN nodes[here]
         /\ Top.pair > 0
<1>1. AreNodes(nodes[here]) /\ IsFrame(nodes[here], flag, Top)
  BY MultiplyHas
<1>2. PICK ns, f, fr : ns = nodes[here] /\ f = flag /\ fr = Top
  OBVIOUS
<1>3. PICK one, two : one = FirstElement /\ two = SecondElement
  OBVIOUS
<1>4. one = ns[fr.first].elements[(fr.pair - 1) \div Len(ns[fr.second].elements) + 1]
  BY <1>2, <1>3 DEF FirstElement, First, Second, SecondSize, Content
<1>5. two = ns[fr.second].elements[((fr.pair - 1) % Len(ns[fr.second].elements)) + 1]
  BY <1>2, <1>3 DEF SecondElement, Second, SecondSize, Content
<1>6. AreNodes(ns) /\ IsFrame(ns, f, fr) /\ IsAtPair(ns, fr)
  BY <1>1, <1>2
<1>7. one.prime \in DOMAIN ns /\ one.sub \in DOMAIN ns /\ two.prime \in DOMAIN ns /\ two.sub \in DOMAIN ns /\ fr.pair > 0
  BY <1>4, <1>5, <1>6, PairOf
<1>8. QED
  BY <1>2, <1>3, <1>7

LEMMA MultiplyPrimesKeeps ==
  ASSUME FlagInvariant, MultiplyPrimes
  PROVE  FlagInvariant'
<1>1. InMultiply /\ InPairs /\ MorePairs /\ nodes' = nodes /\ cache' = cache
  BY DEF MultiplyPrimes
<1>2. PICK on, first, second : on = Top /\ first = FirstElement.prime /\ second = SecondElement.prime
  OBVIOUS
<1>3. Call(on, first, second)
  BY <1>2 DEF MultiplyPrimes
<1>4. IsFrame(nodes[here], flag, on)
  BY <1>1, <1>2, MultiplyHas
<1>5. IsAtPair(nodes[here], on)
  BY <1>1, <1>2, AtPair
<1>6. first \in DOMAIN nodes[here] /\ second \in DOMAIN nodes[here]
  BY <1>1, <1>2, AtPair, ElementsOfPair
<1>7. QED
  BY <1>1, <1>3, <1>4, <1>5, <1>6, CallKeeps

\* A call that what it called has returned to.
LEMMA ReturnedTo ==
  ASSUME FlagInvariant, InMultiply, returned # <<>>
  PROVE  /\ IsFrame(nodes[here], flag, Top) /\ IsAtPair(nodes[here], Top)
         /\ returned[1].node # NullNode => IsOfFlag(nodes[here], flag, returned[1].node)
         /\ Top.pair \in Nat
         /\ Content(Top.first).type = "decision" /\ Content(Top.second).type = "decision"
<1>1. /\ IsFrame(nodes[here], flag, Top) /\ IsAtPair(nodes[here], Top)
      /\ IsProductIn(nodes[here], flag, returned[1])
  BY MultiplyHas
<1>2. Top.pair > 0
  BY <1>1, ElementsOfPair
<1>3. QED
  BY <1>1, <1>2 DEF IsFrame, IsProductIn, Content

LEMMA PairIsEmptyKeeps ==
  ASSUME FlagInvariant, PairIsEmpty
  PROVE  FlagInvariant'
<1>1. InMultiply /\ returned # <<>> /\ ReplaceTop(NextPair) /\ returned' = <<>> /\ nodes' = nodes /\ cache' = cache
  BY DEF PairIsEmpty
<1>2. /\ IsFrame(nodes[here], flag, Top) /\ Top.pair \in Nat
      /\ Content(Top.first).type = "decision" /\ Content(Top.second).type = "decision"
  BY <1>1, ReturnedTo
<1>3. PICK ns, f, fr, p, r, es, w, on :
        /\ ns = nodes[here] /\ f = flag /\ fr = Top /\ p = fr.pair + 1 /\ r = <<>> /\ es = fr.elements /\ w = fr.partition
        /\ on = DoneWith(fr, es, w)
  OBVIOUS
<1>4. IsFrame(ns, f, fr) /\ p \in Nat /\ AreElements(ns, f, es) /\ IsWholeFrame(fr)
  BY <1>2, <1>3 DEF IsFrame, IsWholeFrame
<1>5. ns[fr.first].type = "decision" /\ ns[fr.second].type = "decision"
  BY <1>2, <1>3 DEF Content
<1>6. IsFrame(ns, f, on)
  <2>1. on = [first |-> fr.first, second |-> fr.second, pair |-> p, prime_result |-> r, elements |-> es, partition |-> w]
    BY <1>3 DEF DoneWith, FrameOf
  <2>2. r = <<>> \/ IsOfFlag(ns, f, r[1].node)
    BY <1>3
  <2>3. QED
    BY <1>4, <1>5, <2>1, <2>2, FrameOn
<1>7. on = NextPair
  BY <1>3, <1>4, NextPairIs
<1>8. QED
  BY <1>1, <1>3, <1>6, <1>7, OnKeeps

LEMMA MultiplySubsKeeps ==
  ASSUME FlagInvariant, MultiplySubs
  PROVE  FlagInvariant'
<1>1. InMultiply /\ returned # <<>> /\ returned[1].node # NullNode /\ nodes' = nodes /\ cache' = cache
  BY DEF MultiplySubs
<1>2. /\ IsFrame(nodes[here], flag, Top) /\ Top.pair \in Nat /\ IsAtPair(nodes[here], Top)
      /\ Content(Top.first).type = "decision" /\ Content(Top.second).type = "decision"
      /\ IsOfFlag(nodes[here], flag, returned[1].node)
  BY <1>1, ReturnedTo
<1>3. PICK ns, f, fr : ns = nodes[here] /\ f = flag /\ fr = Top
  OBVIOUS
<1>4. PICK p, r, es, w : p = fr.pair /\ r = returned /\ es = fr.elements /\ w = fr.partition
  OBVIOUS
<1>5. PICK on : on = [first |-> fr.first, second |-> fr.second, pair |-> p, prime_result |-> r, elements |-> es, partition |-> w]
  OBVIOUS
<1>6. IsFrame(ns, f, fr) /\ p \in Nat /\ AreElements(ns, f, es) /\ IsOfFlag(ns, f, r[1].node)
  BY <1>2, <1>3, <1>4 DEF IsFrame
<1>7. ns[fr.first].type = "decision" /\ ns[fr.second].type = "decision"
  BY <1>2, <1>3 DEF Content
<1>8. IsFrame(ns, f, on) /\ on.first = fr.first /\ on.second = fr.second /\ on.pair = p
  BY <1>5, <1>6, <1>7, FrameOn
<1>9. fr = [first |-> fr.first, second |-> fr.second, pair |-> p, prime_result |-> fr.prime_result,
            elements |-> es, partition |-> w]
  BY <1>4, <1>6 DEF IsFrame
<1>10. on = [fr EXCEPT !.prime_result = r]
  BY <1>5, <1>9
<1>11. PICK first, second : first = FirstElement.sub /\ second = SecondElement.sub
  OBVIOUS
<1>12. Call(on, first, second)
  BY <1>3, <1>4, <1>10, <1>11 DEF MultiplySubs
<1>13. IsAtPair(nodes[here], on)
  BY <1>2, <1>3, <1>4, <1>8 DEF IsAtPair
<1>14. first \in DOMAIN nodes[here] /\ second \in DOMAIN nodes[here]
  BY <1>1, <1>2, <1>11, ElementsOfPair
<1>15. QED
  BY <1>1, <1>3, <1>8, <1>12, <1>13, <1>14, CallKeeps

LEMMA PushElementKeeps ==
  ASSUME FlagInvariant, PushElement
  PROVE  FlagInvariant'
<1>1. PICK prime, weight : prime = Top.prime_result[1] /\ weight = WeightOf(Top.prime_result[1], returned[1])
  OBVIOUS
<1>2. /\ InMultiply /\ returned # <<>> /\ returned[1].node # NullNode /\ Top.prime_result # <<>>
      /\ returned' = <<>> /\ nodes' = nodes /\ cache' = cache
      /\ ReplaceTop([NextPair EXCEPT !.elements = Append(@, Element(prime.node, returned[1].node, weight)),
                                     !.partition = Plus(@, weight)])
  BY <1>1 DEF PushElement
<1>3. /\ IsFrame(nodes[here], flag, Top) /\ Top.pair \in Nat
      /\ Content(Top.first).type = "decision" /\ Content(Top.second).type = "decision"
      /\ IsOfFlag(nodes[here], flag, returned[1].node)
  BY <1>2, ReturnedTo
<1>4. PICK ns, f, fr, a, b : ns = nodes[here] /\ f = flag /\ fr = Top /\ a = prime.node /\ b = returned[1].node
  OBVIOUS
<1>5. PICK es : es = fr.elements
  OBVIOUS
<1>6. PICK p, r, more, w : p = fr.pair + 1 /\ r = <<>> /\ more = Append(es, Element(a, b, weight)) /\ w = Plus(fr.partition, weight)
  OBVIOUS
<1>7. PICK on : on = DoneWith(fr, more, w)
  OBVIOUS
<1>8. IsFrame(ns, f, fr) /\ p \in Nat /\ AreElements(ns, f, es) /\ IsOfFlag(ns, f, a) /\ IsOfFlag(ns, f, b)
  BY <1>1, <1>2, <1>3, <1>4, <1>5, <1>6 DEF IsFrame
<1>9. AreElements(ns, f, more)
  BY <1>6, <1>8, AppendElement
<1>10. ns[fr.first].type = "decision" /\ ns[fr.second].type = "decision"
  BY <1>3, <1>4 DEF Content
<1>11. IsFrame(ns, f, on)
  <2>1. on = [first |-> fr.first, second |-> fr.second, pair |-> p, prime_result |-> r, elements |-> more, partition |-> w]
    BY <1>6, <1>7 DEF DoneWith, FrameOf
  <2>2. QED
    BY <1>6, <1>8, <1>9, <1>10, <2>1, FrameOn
<1>12. IsWholeFrame(Top)
  BY <1>3 DEF IsFrame, IsWholeFrame
<1>13. ReplaceTop(on)
  BY <1>2, <1>4, <1>5, <1>6, <1>7, <1>12, PushedIs
<1>14. QED
  BY <1>2, <1>4, <1>11, <1>13, OnKeeps

-----------------------------------------------------------------------------
\* The elements of a product, with their parameters divided.
Divided(es, w) == [i \in DOMAIN es |-> [es[i] EXCEPT !.parameter = Over(@, w)]]

LEMMA DividedAre ==
  ASSUME NEW ns, NEW f, NEW es, AreElements(ns, f, es), NEW w, NEW t, CanConform(t, ns, es), NEW more, more = Divided(es, w)
  PROVE  AreElements(ns, f, more) /\ CanConform(t, ns, more)
<1>1. IsList(es) /\ es # <<>>
  BY DEF AreElements, CanConform
<1>2. 1 \in DOMAIN es
  BY <1>1, LastOf
<1>3. DOMAIN more = DOMAIN es /\ more = [i \in DOMAIN es |-> more[i]]
  BY DEF Divided
<1>4. ASSUME NEW i \in DOMAIN es
      PROVE  /\ more[i] = Element(es[i].prime, es[i].sub, Over(es[i].parameter, w))
             /\ IsOfFlag(ns, f, es[i].prime) /\ IsOfFlag(ns, f, es[i].sub)
             /\ more[i].prime = es[i].prime /\ more[i].sub = es[i].sub
  <2>1. PICK e : e = es[i]
    OBVIOUS
  <2>2. e = Element(e.prime, e.sub, e.parameter) /\ IsOfFlag(ns, f, e.prime) /\ IsOfFlag(ns, f, e.sub)
    BY <2>1 DEF AreElements
  <2>3. more[i] = [e EXCEPT !.parameter = Over(@, w)]
    BY <2>1 DEF Divided
  <2>4. more[i] = Element(e.prime, e.sub, Over(e.parameter, w))
    BY <2>2, <2>3 DEF Element
  <2>5. more[i].prime = e.prime /\ more[i].sub = e.sub
    BY <2>4 DEF Element
  <2>6. QED
    BY <2>1, <2>2, <2>4, <2>5
<1>5. \A i \in DOMAIN es : \E p, s, x : more[i] = Element(p, s, x) /\ IsOfFlag(ns, f, p) /\ IsOfFlag(ns, f, s)
  BY <1>4, Zenon
<1>6. AreElements(ns, f, more)
  BY <1>1, <1>3, <1>5, ElementsOfMap
<1>7. VtreeOf(t, ns, more) = VtreeOf(t, ns, es)
  BY <1>2, <1>4 DEF VtreeOf
<1>8. more # <<>>
  BY <1>2, <1>3
<1>9. PICK v : v = VtreeOf(t, ns, es)
  OBVIOUS
<1>10. /\ v \in DOMAIN t /\ ~IsLeaf(t, v)
       /\ \A i \in DOMAIN es : ns[es[i].prime].vtree \in Under(t, t[v].left) /\ ns[es[i].sub].vtree \in Under(t, t[v].right)
  BY <1>9 DEF CanConform
<1>11. \A i \in DOMAIN more : ns[more[i].prime].vtree \in Under(t, t[v].left) /\ ns[more[i].sub].vtree \in Under(t, t[v].right)
  BY <1>3, <1>4, <1>10
<1>12. CanConform(t, ns, more)
  BY <1>7, <1>8, <1>9, <1>10, <1>11 DEF CanConform
<1>13. QED
  BY <1>6, <1>12

LEMMA EndPairsKeeps ==
  ASSUME FlagInvariant, AssertionsHold, EndPairs
  PROVE  FlagInvariant'
<1>1. InMultiply /\ InPairs /\ ~MorePairs
  BY DEF EndPairs
<1>2. /\ AreNodes(nodes[here]) /\ IsFrame(nodes[here], flag, Top) /\ pass = "multiply" /\ stack # <<>>
      /\ Len(results) < Len(program) /\ IsForest(tree)
      /\ AreCalls(nodes[here], flag, stack, returned, cache) /\ AreProducts(nodes[here], flag, cache)
  BY <1>1, MultiplyHas
<1>3. CASE Top.elements = <<>> /\ Update(NullResult) /\ Leave(NullResult) /\ nodes' = nodes
  <2>1. PICK ns, f, calls, last, map, k, result : /\ ns = nodes[here] /\ f = flag /\ calls = stack /\ last = returned
                                                  /\ map = cache /\ k = Key(Top) /\ result = NullResult
    OBVIOUS
  <2>2. IsProductIn(ns, f, result)
    BY <2>1 DEF IsProductIn, NullResult
  <2>3. PICK known : known = Assigned(map, k, result)
    OBVIOUS
  <2>4. AreCalls(ns, f, calls, last, map) /\ calls # <<>> /\ AreProducts(ns, f, map)
    BY <1>2, <2>1
  <2>5. AreProducts(ns, f, known)
    BY <2>2, <2>3, <2>4, ProductsWith
  <2>6. AreCalls(ns, f, Front(calls), <<result>>, known)
    BY <2>2, <2>4, <2>5, Leaves
  <2>7. stack' = Front(calls) /\ returned' = <<result>> /\ cache' = known
    BY <1>3, <2>1, <2>3 DEF Leave, Update
  <2>8. AreCalls(nodes[here], flag, stack', returned', cache')
    BY <2>1, <2>6, <2>7
  <2>9. QED
    BY <1>1, <1>3, <2>8, SameNodesKeep
<1>4. CASE ~ (Top.elements = <<>> /\ Update(NullResult) /\ Leave(NullResult) /\ nodes' = nodes)
  <2>1. PICK ns, f, t, fr : ns = nodes[here] /\ f = flag /\ t = tree /\ fr = Top
    OBVIOUS
  <2>2. PICK es, w : es = fr.elements /\ w = fr.partition
    OBVIOUS
  <2>3. PICK more : more = Divided(es, w)
    OBVIOUS
  <2>4. PICK st : st = GetConformedPsddDecisionNode(t, ns, more, f)
    OBVIOUS
  <2>5. PICK result : result = [node |-> st.node, value |-> w]
    OBVIOUS
  <2>6. more = [i \in DOMAIN Top.elements |-> [Top.elements[i] EXCEPT !.parameter = Over(@, Top.partition)]]
    BY <2>1, <2>2, <2>3 DEF Divided
  <2>7. Top.elements # <<>> /\ Made(st) /\ Update(result) /\ Leave(result)
    BY <1>4, <2>1, <2>2, <2>4, <2>5, <2>6 DEF EndPairs
  <2>8. CanConform(t, ns, es)
    BY <1>1, <1>2, <2>1, <2>2, <2>7 DEF AssertionsHold, MultiplyAsserts
  <2>9. AreElements(ns, f, es)
    BY <1>2, <2>1, <2>2 DEF IsFrame
  <2>10. AreElements(ns, f, more) /\ CanConform(t, ns, more)
    BY <2>3, <2>8, <2>9, DividedAre
  <2>11. IsForest(t) /\ AreNodes(ns)
    BY <1>2, <2>1
  <2>12. IsState(st, f) /\ GrowsTo(ns, st.nodes) /\ IsOfFlag(st.nodes, f, st.node)
    BY <2>4, <2>10, <2>11, GetConformedIs
  <2>13. result.node = st.node
    BY <2>5
  <2>14. IsState(st, flag) /\ GrowsTo(nodes[here], st.nodes) /\ IsProductIn(st.nodes, flag, result)
    BY <2>1, <2>12, <2>13 DEF IsProductIn
  <2>15. QED
    BY <1>1, <2>7, <2>14, ResultKeeps
<1>5. QED
  BY <1>3, <1>4

LEMMA EndMultiplyKeeps ==
  ASSUME FlagInvariant, EndMultiply
  PROVE  FlagInvariant'
<1>1. pass = "multiply" /\ stack = <<>> /\ Returns(returned[1].node, returned[1].value) /\ nodes' = nodes /\ user_data' = user_data
  BY DEF EndMultiply
<1>2. CallIs({"Multiply"}) /\ user_data = <<>> /\ AreCalls(nodes[here], flag, stack, returned, cache)
  BY <1>1 DEF FlagInvariant, LocalsAre, MultiplyIs
<1>3. Len(results) < Len(program)
  BY <1>2 DEF CallIs
<1>4. PICK node, value : node = returned[1].node /\ value = returned[1].value
  OBVIOUS
<1>5. node # NullNode => IsOfFlag(nodes[here], flag, node)
  BY <1>1, <1>2, <1>4 DEF AreCalls, IsProductIn
<1>6. node # NullNode => node \in DOMAIN nodes'[here] /\ IsOfFlag(nodes'[here], flag, node)
  BY <1>1, <1>5, FlagHas
<1>7. NodesAre' /\ AllGrow(nodes, nodes')
  BY <1>1, AllStay DEF FlagInvariant, NodesAre
<1>8. Returns(node, value) /\ user_data' = <<>>
  BY <1>1, <1>2, <1>4
<1>9. QED
  BY <1>3, <1>6, <1>7, <1>8, ReturnKeeps DEF FlagInvariant

-----------------------------------------------------------------------------
LEMMA StutterKeeps ==
  ASSUME FlagInvariant, UNCHANGED vars
  PROVE  FlagInvariant'
<1>1. /\ program' = program /\ results' = results /\ nodes' = nodes /\ user_data' = user_data /\ pass' = pass
      /\ sdd_vtree' = sdd_vtree /\ target' = target /\ node_map' = node_map /\ true_nodes_map' = true_nodes_map
      /\ serialized_nodes' = serialized_nodes /\ position' = position /\ construct_cache' = construct_cache
      /\ stack' = stack /\ returned' = returned /\ cache' = cache
  BY DEF vars, clientVars, localVars, sddVars, loadVars, multiplyVars
<1>2. ProgramIs' /\ NodesAre' /\ ResultsAre'
  BY <1>1 DEF FlagInvariant, ProgramIs, NodesAre, ResultsAre
<1>3. /\ call' = call /\ here' = here /\ tree' = tree /\ flag' = flag /\ Source' = Source
      /\ \A ops : CallIs(ops) => CallIs(ops)'
  BY <1>1 DEF call, here, tree, flag, Source, Result, CallIs, IsNodeOf
<1>4. BetweenCalls' /\ ReadIs' /\ ConvertIs' /\ MultiplyIs'
  <2>1. BetweenCalls'
    BY <1>1 DEF FlagInvariant, LocalsAre, BetweenCalls
  <2>2. ReadIs'
    BY <1>1, <1>3 DEF FlagInvariant, LocalsAre, ReadIs
  <2>3. ConvertIs'
    BY <1>1, <1>3 DEF FlagInvariant, LocalsAre, ConvertIs
  <2>4. MultiplyIs'
    BY <1>1, <1>3 DEF FlagInvariant, LocalsAre, MultiplyIs
  <2>5. QED
    BY <2>1, <2>2, <2>3, <2>4
<1>5. WordsAreOfTheList => WordsAreOfTheList'
  BY <1>1, <1>3 DEF WordsAreOfTheList
<1>6. LoadIs' /\ LogicIs'
  <2>1. LoadIs'
    BY <1>1, <1>3, <1>5 DEF FlagInvariant, LocalsAre, LoadIs
  <2>2. LogicIs'
    BY <1>1, <1>3, <1>5 DEF FlagInvariant, LocalsAre, LogicIs
  <2>3. QED
    BY <2>1, <2>2
<1>7. LocalsAre'
  BY <1>1, <1>4, <1>6 DEF FlagInvariant, LocalsAre
<1>8. QED
  BY <1>2, <1>7 DEF FlagInvariant

\* Each step keeps the invariant, where the assertions of the code hold.
LEMMA StepKeeps ==
  ASSUME FlagInvariant, AssertionsHold, [Next]_vars
  PROVE  FlagInvariant'
<1>1. CASE TrueNode
  BY <1>1, TrueNodeKeeps
<1>2. CASE Normalize
  BY <1>2, NormalizeKeeps
<1>3. CASE BeginRead
  BY <1>3, BeginReadKeeps
<1>4. CASE ReadLine
  BY <1>4, ReadLineKeeps
<1>5. CASE EndRead
  BY <1>5, EndReadKeeps
<1>6. CASE ConvertSddToPsdd
  BY <1>6, ConvertSddKeeps
<1>7. CASE FromSdd
  BY <1>7, FromSddKeeps
<1>8. CASE Compile
  BY <1>8, CompileKeeps
<1>9. CASE ConvertLiteral
  BY <1>9, ConvertLiteralKeeps
<1>10. CASE ConvertDecision
  BY <1>10, ConvertDecisionKeeps
<1>11. CASE EndConvert
  BY <1>11, EndConvertKeeps
<1>12. CASE BeginLoad
  BY <1>12, BeginLoadKeeps
<1>13. CASE LoadNode
  BY <1>13, LoadNodeKeeps
<1>14. CASE EndLoad
  BY <1>14, EndLoadKeeps
<1>15. CASE BeginLogic
  BY <1>15, BeginLogicKeeps
<1>16. CASE NodeLogic
  BY <1>16, NodeLogicKeeps
<1>17. CASE EndLogic
  BY <1>17, EndLogicKeeps
<1>18. CASE BeginMultiply
  BY <1>18, BeginMultiplyKeeps
<1>19. CASE Lookup
  BY <1>19, LookupKeeps
<1>20. CASE MultiplyLeaves
  BY <1>20, MultiplyLeavesKeeps
<1>21. CASE BeginPairs
  BY <1>21, BeginPairsKeeps
<1>22. CASE MultiplyPrimes
  BY <1>22, MultiplyPrimesKeeps
<1>23. CASE PairIsEmpty
  BY <1>23, PairIsEmptyKeeps
<1>24. CASE MultiplySubs
  BY <1>24, MultiplySubsKeeps
<1>25. CASE PushElement
  BY <1>25, PushElementKeeps
<1>26. CASE EndPairs
  BY <1>26, EndPairsKeeps
<1>27. CASE EndMultiply
  BY <1>27, EndMultiplyKeeps
<1>28. CASE Ended \/ UNCHANGED vars
  BY <1>28, StutterKeeps DEF Ended
<1>29. QED
  BY <1>1, <1>2, <1>3, <1>4, <1>5, <1>6, <1>7, <1>8, <1>9, <1>10, <1>11, <1>12, <1>13, <1>14, <1>15, <1>16, <1>17,
     <1>18, <1>19, <1>20, <1>21, <1>22, <1>23, <1>24, <1>25, <1>26, <1>27, <1>28 DEF Next

\* All nodes under a result have the flag of the call.
LEMMA FlagsFollow ==
  ASSUME FlagInvariant
  PROVE  FlagsAreOfTheCall
<1> SUFFICES ASSUME NEW i \in DOMAIN results, program[i].op # "NormalizePsddNode", IsNodeOf(results[i])
             PROVE  \A n \in Below(results[i].manager, results[i].node) :
                      nodes[results[i].manager][n].flag_index = program[i].flag_index
  BY DEF FlagsAreOfTheCall
<1>1. PICK g, f, root : g = results[i].manager /\ f = program[i].flag_index /\ root = results[i].node
  OBVIOUS
<1>2. ResultOf(program, results, nodes, i) /\ IsList(results)
  BY DEF FlagInvariant, ResultsAre, ResultsOf
<1>3. g = program[i].manager /\ IsOfFlag(nodes[g], f, root)
  BY <1>1, <1>2 DEF ResultOf, IsResult, IsNodeOf
<1>4. i \in DOMAIN program
  <2>1. program \in Seq(Range(program)) /\ Len(results) <= Len(program)
    BY PsddManagerAssumption DEF FlagInvariant, ProgramIs
  <2>2. Len(results) \in Nat /\ DOMAIN results = 1..Len(results)
    BY <1>2, ListIs
  <2>3. QED
    BY <2>1, <2>2
<1>5. g \in DOMAIN Vtree
  BY <1>3, <1>4, PsddManagerAssumption DEF FlagInvariant, ProgramIs, IsCallOf
<1>6. AreNodes(nodes[g])
  BY <1>5 DEF FlagInvariant, NodesAre, AreNodesOf
<1>7. \A n \in Below(g, root) : nodes[g][n].flag_index = f
  BY <1>3, <1>6, FlagOfBelow
<1>8. QED
  BY <1>1, <1>7

LEMMA NoWordFollows ==
  ASSUME FlagInvariant
  PROVE  NoWordIsLeft
BY DEF FlagInvariant, LocalsAre, BetweenCalls, ReadIs, ConvertIs, MultiplyIs, NoWordIsLeft

-----------------------------------------------------------------------------
\* In a run in which the assertions of the code hold, a state after any calls has the invariant:
\* nodes are made after their children and never change, what a call knows has its flag, and it
\* leaves nothing behind that the next call would find.
THEOREM FlagInvariantHolds == Spec /\ []AssertionsHold => []FlagInvariant
<1>1. ManagerInit => FlagInvariant
  BY InitHas
<1>2. FlagInvariant /\ AssertionsHold /\ [Next]_vars => FlagInvariant'
  BY StepKeeps
<1>3. QED
  BY <1>1, <1>2, PTL DEF Spec

\* In a run in which the assertions of the code hold, all nodes under a result have the flag index
\* of the call, those that were there before it included (GetUniquePsddNode compares the flags;
\* NormalizePsddNode and GetConformedPsddDecisionNode add nodes of the call's flag).
THEOREM FlagsAreKept == Spec /\ []AssertionsHold => []FlagsAreOfTheCall
<1>1. FlagInvariant => FlagsAreOfTheCall
  BY FlagsFollow
<1>2. QED
  BY <1>1, FlagInvariantHolds, PTL

\* In a run in which the assertions of the code hold, no scratch word of a node is left when a call
\* ends, so that the next traversal starts from zeros (the resets that end LoadPsddNode and
\* ConvertPsddNodeToSddNode).
THEOREM NoWordIsKept == Spec /\ []AssertionsHold => []NoWordIsLeft
<1>1. FlagInvariant => NoWordIsLeft
  BY NoWordFollows
<1>2. QED
  BY <1>1, FlagInvariantHolds, PTL

-----------------------------------------------------------------------------
\* A node is for its vtree node: a leaf, or one whose children the primes and subs are for.
IsFor(ns, a, v) == a \in DOMAIN ns /\ ns[a].vtree = v
AreFor(t, ns, v, es) ==
  \A i \in DOMAIN es : IsFor(ns, es[i].prime, t[v].left) /\ IsFor(ns, es[i].sub, t[v].right)
Fits(t, ns, c) ==
  /\ c.vtree \in DOMAIN t
  /\ c.type # "decision" => IsLeaf(t, c.vtree)
  /\ c.type = "decision" => ~IsLeaf(t, c.vtree) /\ DOMAIN c.elements # {} /\ AreFor(t, ns, c.vtree, c.elements)
IsAfterChildren(ns, a) ==
  ns[a].type = "decision" =>
    \A i \in DOMAIN ns[a].elements : ns[a].elements[i].prime \in 1..a - 1 /\ ns[a].elements[i].sub \in 1..a - 1
AreFitted(t, ns) == \A a \in DOMAIN ns : Fits(t, ns, ns[a]) /\ IsAfterChildren(ns, a)

AtPlace(ns, map) == \A v \in DOMAIN map : IsFor(ns, map[v], v)

LEMMA ForStays ==
  ASSUME NEW ns, NEW more, GrowsTo(ns, more), NEW a, NEW v, IsFor(ns, a, v)
  PROVE  IsFor(more, a, v)
BY DEF GrowsTo, IsFor

LEMMA AllForStay ==
  ASSUME NEW t, NEW ns, NEW more, GrowsTo(ns, more), NEW v, NEW es, AreFor(t, ns, v, es)
  PROVE  AreFor(t, more, v, es)
BY ForStays DEF AreFor

LEMMA AtPlaceStays ==
  ASSUME NEW ns, NEW more, GrowsTo(ns, more), NEW map, AtPlace(ns, map)
  PROVE  AtPlace(more, map)
BY ForStays DEF AtPlace

LEMMA FitsStays ==
  ASSUME NEW t, NEW ns, NEW more, GrowsTo(ns, more), NEW c, Fits(t, ns, c)
  PROVE  Fits(t, more, c)
BY AllForStay DEF Fits

\* A node that fits is put at the end.
LEMMA AddFitting ==
  ASSUME NEW t, NEW ns, AreNodes(ns), AreFitted(t, ns), NEW c, c.type \in {"literal", "top", "decision"},
         HasChildrenIn(c, DOMAIN ns), Fits(t, ns, c)
  PROVE  AreFitted(t, Append(ns, c))
<1>1. PICK more : more = Append(ns, c)
  OBVIOUS
<1>2. PICK n \in Nat : n = Len(ns) /\ DOMAIN ns = 1..n /\ IsList(ns)
  BY ListIs DEF AreNodes
<1>3. GrowsTo(ns, more) /\ more[n + 1] = c
  BY <1>1, <1>2, AddNode
<1>4. DOMAIN more = 1..n + 1
  BY <1>1, <1>2, AppendIsList
<1>5. ASSUME NEW a \in DOMAIN more
      PROVE  Fits(t, more, more[a]) /\ IsAfterChildren(more, a)
  <2>1. CASE a = n + 1
    <3>1. more[a] = c
      BY <1>3, <2>1
    <3>2. Fits(t, more, c)
      BY <1>3, FitsStays
    <3>3. c.type = "decision" => \A i \in DOMAIN c.elements : c.elements[i].prime \in 1..n /\ c.elements[i].sub \in 1..n
      BY <1>2 DEF HasChildrenIn
    <3>4. a - 1 = n
      BY <2>1
    <3>5. QED
      BY <3>1, <3>2, <3>3, <3>4 DEF IsAfterChildren
  <2>2. CASE a # n + 1
    <3>1. a \in DOMAIN ns
      BY <1>2, <1>4, <2>2
    <3>2. more[a] = ns[a]
      BY <1>3, <3>1 DEF GrowsTo
    <3>3. Fits(t, ns, ns[a]) /\ IsAfterChildren(ns, a)
      BY <3>1 DEF AreFitted
    <3>4. Fits(t, more, ns[a])
      BY <1>3, <3>3, FitsStays
    <3>5. QED
      BY <3>2, <3>3, <3>4 DEF IsAfterChildren
  <2>3. QED
    BY <2>1, <2>2
<1>6. AreFitted(t, more)
  BY <1>5 DEF AreFitted
<1>7. QED
  BY <1>1, <1>6

\* GetUniqueNode keeps what fits, and returns a node for the vtree node of the one given.
LEMMA UniqueFits ==
  ASSUME NEW t, NEW st, NEW f, IsState(st, f), AreFitted(t, st.nodes),
         NEW c, c.type \in {"literal", "top", "decision"}, HasChildrenIn(c, DOMAIN st.nodes), Fits(t, st.nodes, c),
         NEW made, made = GetUniqueNode(st, c)
  PROVE  AreFitted(t, made.nodes) /\ IsFor(made.nodes, made.node, c.vtree)
<1> DEFINE found == {a \in DOMAIN st.nodes : Equal(st.nodes[a], c)}
<1>1. /\ st = [nodes |-> st.nodes, node |-> st.node, true_node_map |-> st.true_node_map, elements |-> st.elements]
      /\ AreNodes(st.nodes)
  BY DEF IsState
<1>2. AreFitted(t, made.nodes)
  <2>1. CASE found = {}
    <3>1. made = [st EXCEPT !.nodes = Append(st.nodes, c), !.node = Len(st.nodes) + 1]
      BY <2>1 DEF GetUniqueNode
    <3>2. made.nodes = Append(st.nodes, c)
      BY <1>1, <3>1
    <3>3. AreFitted(t, Append(st.nodes, c))
      BY <1>1, AddFitting
    <3>4. QED
      BY <3>2, <3>3
  <2>2. CASE found # {}
    <3>1. made = [st EXCEPT !.node = CHOOSE a \in found : TRUE]
      BY <2>2 DEF GetUniqueNode
    <3>2. PICK a : a = CHOOSE b \in found : TRUE
      OBVIOUS
    <3>3. made = [nodes |-> st.nodes, node |-> a, true_node_map |-> st.true_node_map, elements |-> st.elements]
      BY <1>1, <3>1, <3>2
    <3>4. made.nodes = st.nodes
      BY <3>3
    <3>5. QED
      BY <3>4
  <2>3. QED
    BY <2>1, <2>2
<1>3. made.node \in DOMAIN made.nodes /\ Equal(made.nodes[made.node], c)
  BY GetUniqueNodeIs
<1>4. PICK d : d = made.nodes[made.node]
  OBVIOUS
<1>5. d.vtree = c.vtree
  <2>1. Equal(d, c)
    BY <1>3, <1>4
  <2>2. QED
    BY <2>1 DEF Equal
<1>6. QED
  BY <1>2, <1>3, <1>4, <1>5 DEF IsFor

LEMMA UniqueLiteralFits ==
  ASSUME NEW t, NEW st, NEW f, IsState(st, f), AreFitted(t, st.nodes), NEW v \in DOMAIN t, IsLeaf(t, v), NEW sign,
         NEW made, made = GetUniqueNode(st, LiteralNode(v, sign, f))
  PROVE  AreFitted(t, made.nodes) /\ IsFor(made.nodes, made.node, v)
<1>1. PICK c : c = LiteralNode(v, sign, f)
  OBVIOUS
<1>2. c.type = "literal" /\ c.vtree = v /\ HasChildrenIn(c, DOMAIN st.nodes)
  BY <1>1 DEF LiteralNode, HasChildrenIn
<1>3. Fits(t, st.nodes, c) /\ made = GetUniqueNode(st, c)
  BY <1>1, <1>2 DEF Fits
<1>4. c.type \in {"literal", "top", "decision"}
  BY <1>2
<1>5. AreFitted(t, made.nodes) /\ IsFor(made.nodes, made.node, c.vtree)
  BY <1>2, <1>3, <1>4, UniqueFits, Z3
<1>6. QED
  BY <1>2, <1>5

LEMMA UniqueTopFits ==
  ASSUME NEW t, NEW st, NEW f, IsState(st, f), AreFitted(t, st.nodes), NEW v \in DOMAIN t, IsLeaf(t, v),
         NEW positive, NEW negative, NEW made, made = GetUniqueNode(st, TopNode(v, positive, negative, f))
  PROVE  AreFitted(t, made.nodes) /\ IsFor(made.nodes, made.node, v)
<1>1. PICK c : c = TopNode(v, positive, negative, f)
  OBVIOUS
<1>2. c.type = "top" /\ c.vtree = v /\ HasChildrenIn(c, DOMAIN st.nodes)
  BY <1>1 DEF TopNode, HasChildrenIn
<1>3. Fits(t, st.nodes, c) /\ made = GetUniqueNode(st, c)
  BY <1>1, <1>2 DEF Fits
<1>4. AreFitted(t, made.nodes) /\ IsFor(made.nodes, made.node, c.vtree)
  BY <1>2, <1>3, UniqueFits
<1>5. QED
  BY <1>2, <1>4

LEMMA UniqueDecisionFits ==
  ASSUME NEW t, NEW st, NEW f, IsState(st, f), AreFitted(t, st.nodes), NEW v \in DOMAIN t, ~IsLeaf(t, v),
         NEW es, IsList(es), DOMAIN es # {}, AreFor(t, st.nodes, v, es),
         NEW made, made = GetUniqueNode(st, DecisionNode(v, es, f))
  PROVE  AreFitted(t, made.nodes) /\ IsFor(made.nodes, made.node, v)
<1>1. PICK c : c = DecisionNode(v, es, f)
  OBVIOUS
<1>2. c.type = "decision" /\ c.vtree = v /\ c.elements = SortedByPrime(es)
  BY <1>1 DEF DecisionNode
<1>3. IsList(es) /\ \A i \in DOMAIN es : es[i].prime \in DOMAIN st.nodes /\ es[i].sub \in DOMAIN st.nodes
  BY DEF AreFor, IsFor
<1>4. \A i \in DOMAIN es : es[i].prime \in Int
  <2>1. IsList(st.nodes)
    BY DEF IsState, AreNodes
  <2>2. PICK n \in Nat : DOMAIN st.nodes = 1..n
    BY <2>1, ListIs
  <2>3. QED
    BY <1>3, <2>2
<1>5. PICK sorted : sorted = SortedByPrime(es)
  OBVIOUS
<1>6. IsList(sorted) /\ DOMAIN sorted = DOMAIN es /\ \A k \in DOMAIN es : \E i \in DOMAIN es : sorted[k] = es[i]
  BY <1>3, <1>4, <1>5, SortedIs
<1>7. HasChildrenIn(c, DOMAIN st.nodes)
  BY <1>2, <1>3, <1>5, <1>6 DEF HasChildrenIn
<1>8. AreFor(t, st.nodes, v, sorted)
  BY <1>6 DEF AreFor
<1>9. Fits(t, st.nodes, c) /\ made = GetUniqueNode(st, c)
  BY <1>1, <1>2, <1>5, <1>6, <1>8 DEF Fits
<1>10. AreFitted(t, made.nodes) /\ IsFor(made.nodes, made.node, c.vtree)
  BY <1>2, <1>7, <1>9, UniqueFits
<1>11. QED
  BY <1>2, <1>10

-----------------------------------------------------------------------------
FitState(t, st) == AreFitted(t, st.nodes) /\ AtPlace(st.nodes, st.true_node_map)

LEMMA InsertedAtPlace ==
  ASSUME NEW ns, NEW map, AtPlace(ns, map), NEW a, NEW v, IsFor(ns, a, v)
  PROVE  AtPlace(ns, Inserted(map, v, a)) /\ AtPlace(ns, Assigned(map, v, a))
<1>1. PICK more : more = [k \in DOMAIN map \cup {v} |-> IF k = v THEN a ELSE map[k]]
  OBVIOUS
<1>2. AtPlace(ns, more)
  BY <1>1 DEF AtPlace
<1>3. Assigned(map, v, a) = more
  BY <1>1 DEF Assigned
<1>4. CASE v \in DOMAIN map
  BY <1>2, <1>3, <1>4 DEF Inserted
<1>5. CASE v \notin DOMAIN map
  BY <1>2, <1>3, <1>5 DEF Inserted
<1>6. QED
  BY <1>4, <1>5

\* The true node of a vtree node whose children have theirs.
LEMMA TrueNodeFits ==
  ASSUME NEW t, NEW st, NEW f, IsState(st, f), FitState(t, st), NEW v \in DOMAIN t,
         ChildrenOf(t, v) \subseteq DOMAIN st.true_node_map, NEW after, after = MakeTrueNode(t, st, v, f)
  PROVE  FitState(t, after)
<1> DEFINE l == st.true_node_map[t[v].left]
           r == st.true_node_map[t[v].right]
           es == <<Element(l, r, One)>>
           c == IF IsLeaf(t, v) THEN TopNode(v, One, One, f) ELSE DecisionNode(v, es, f)
<1>1. PICK made : made = GetUniqueNode(st, c)
  OBVIOUS
<1>2. after = [made EXCEPT !.true_node_map = Inserted(made.true_node_map, v, made.node)]
  BY <1>1 DEF MakeTrueNode
<1>3. AreFitted(t, st.nodes) /\ AtPlace(st.nodes, st.true_node_map)
  BY DEF FitState
<1>4. /\ AreFitted(t, made.nodes) /\ IsFor(made.nodes, made.node, v)
      /\ Follows(st, made, f) /\ made.true_node_map = st.true_node_map
  <2>1. CASE IsLeaf(t, v)
    <3>1. made = GetUniqueNode(st, TopNode(v, One, One, f))
      BY <1>1, <2>1
    <3>2. AreFitted(t, made.nodes) /\ IsFor(made.nodes, made.node, v)
      BY <1>3, <2>1, <3>1, UniqueTopFits
    <3>3. TopNode(v, One, One, f).type = "top" /\ HasChildrenIn(TopNode(v, One, One, f), DOMAIN st.nodes)
      BY DEF TopNode, HasChildrenIn
    <3>4. made.true_node_map = st.true_node_map /\ Follows(st, made, f)
      BY <3>1, <3>3, GetUniqueNodeIs
    <3>5. QED
      BY <3>2, <3>4
  <2>2. CASE ~IsLeaf(t, v)
    <3>1. made = GetUniqueNode(st, DecisionNode(v, es, f))
      BY <1>1, <2>2
    <3>2. t[v].left \in DOMAIN st.true_node_map /\ t[v].right \in DOMAIN st.true_node_map
      BY <2>2 DEF ChildrenOf
    <3>3. IsFor(st.nodes, l, t[v].left) /\ IsFor(st.nodes, r, t[v].right)
      BY <1>3, <3>2 DEF AtPlace
    <3>4. l \in DOMAIN st.nodes /\ r \in DOMAIN st.nodes
      BY <3>3 DEF IsFor
    <3> HIDE DEF l, r
    <3>5. IsList(es) /\ \A i \in DOMAIN es : es[i].prime = l /\ es[i].sub = r
      BY <3>4, PairIsElements
    <3>6. DOMAIN es # {}
      OBVIOUS
    <3>7. AreFor(t, st.nodes, v, es)
      BY <3>3, <3>5 DEF AreFor
    <3> HIDE DEF es, c
    <3>8. AreFitted(t, made.nodes) /\ IsFor(made.nodes, made.node, v)
      BY <1>3, <2>2, <3>1, <3>5, <3>6, <3>7, UniqueDecisionFits
    <3>9. Follows(st, made, f) /\ made.true_node_map = st.true_node_map
      BY <3>1, <3>4, <3>5, UniqueDecision
    <3>10. QED
      BY <3>8, <3>9
  <2>3. QED
    BY <2>1, <2>2
<1> HIDE DEF c
<1>5. IsState(made, f) /\ GrowsTo(st.nodes, made.nodes)
  BY <1>4 DEF Follows
<1>6. made = [nodes |-> made.nodes, node |-> made.node, true_node_map |-> made.true_node_map, elements |-> made.elements]
  BY <1>5 DEF IsState
<1>7. PICK map : map = Inserted(made.true_node_map, v, made.node)
  OBVIOUS
<1>8. after = [nodes |-> made.nodes, node |-> made.node, true_node_map |-> map, elements |-> made.elements]
  BY <1>2, <1>6, <1>7
<1>9. after.nodes = made.nodes /\ after.true_node_map = map
  BY <1>8
<1>10. AtPlace(made.nodes, made.true_node_map)
  BY <1>3, <1>4, <1>5, AtPlaceStays
<1>11. AtPlace(made.nodes, map)
  BY <1>4, <1>7, <1>10, InsertedAtPlace
<1>12. QED
  BY <1>4, <1>9, <1>11 DEF FitState

LEMMA MakeTrueNodesFits ==
  ASSUME NEW t, IsForest(t), NEW root \in DOMAIN t, NEW st, NEW f, IsState(st, f), FitState(t, st), NEW after,
         after = MakeTrueNodes(t, st, SerializeVtree(t, root), f)
  PROVE  FitState(t, after)
<1>1. PICK list : list = SerializeVtree(t, root)
  OBVIOUS
<1>2. IsSerialization(t, root, list)
  BY <1>1, SerializeVtreeIs
<1>3. /\ list \in Seq(DOMAIN t)
      /\ \A j \in 1..Len(list) : \A c \in ChildrenOf(t, list[j]) : \E k \in 1..Len(list) : k > j /\ list[k] = c
  BY <1>2 DEF IsSerialization
<1>4. PICK n \in Nat : n = Len(list)
  BY <1>3
<1>5. PICK g : TrueNodesRun(t, st, list, f, g, n)
  BY <1>4, TrueNodesUnfold
<1>6. /\ \A i \in 0..n : g[i] = IF i = 0 THEN st ELSE MakeTrueNode(t, g[i - 1], list[Len(list) + 1 - i], f)
      /\ MakeTrueNodes(t, st, list, f) = g[n]
  BY <1>5 DEF TrueNodesRun
<1> DEFINE Has(x, i) == /\ IsState(x, f) /\ FitState(t, x)
                        /\ \A j \in 1..n : j > n - i => list[j] \in DOMAIN x.true_node_map
           S == {i \in 0..n : Has(g[i], i)}
<1>7. 0 \in S
  <2>1. g[0] = st
    BY <1>6
  <2>2. Has(st, 0)
    OBVIOUS
  <2> HIDE DEF Has
  <2>3. QED
    BY <2>1, <2>2
<1>8. ASSUME NEW i \in 1..n, i - 1 \in S
      PROVE  i \in S
  <2>1. PICK x : x = g[i - 1]
    OBVIOUS
  <2>2. PICK y : y = g[i]
    OBVIOUS
  <2>3. i \in 0..n /\ i - 1 \in 0..n /\ n + 1 - i \in 1..n /\ n + 1 - i \in Int
    OBVIOUS
  <2>4. /\ IsState(x, f) /\ FitState(t, x)
        /\ \A j \in 1..n : j > n - (i - 1) => list[j] \in DOMAIN x.true_node_map
    BY <1>8, <2>1
  <2>5. PICK v : v = list[n + 1 - i]
    OBVIOUS
  <2>6. v \in DOMAIN t
    BY <1>3, <1>4, <2>3, <2>5
  <2>7. ChildrenOf(t, v) \subseteq DOMAIN x.true_node_map
    <3> SUFFICES ASSUME NEW c \in ChildrenOf(t, v) PROVE c \in DOMAIN x.true_node_map
      OBVIOUS
    <3>1. PICK k \in 1..n : k > n + 1 - i /\ list[k] = c
      BY <1>3, <1>4, <2>3, <2>5
    <3>2. QED
      BY <2>4, <3>1
  <2>8. y = MakeTrueNode(t, x, v, f)
    BY <1>4, <1>6, <2>1, <2>2, <2>3, <2>5
  <2>9. Follows(x, y, f) /\ DOMAIN y.true_node_map = DOMAIN x.true_node_map \cup {v}
    BY <2>4, <2>6, <2>7, <2>8, TrueNodeStep
  <2>10. IsState(y, f) /\ FitState(t, y)
    BY <2>4, <2>6, <2>7, <2>8, <2>9, TrueNodeFits DEF Follows
  <2>11. \A j \in 1..n : j > n - i => list[j] \in DOMAIN y.true_node_map
    <3> SUFFICES ASSUME NEW j \in 1..n, j > n - i PROVE list[j] \in DOMAIN y.true_node_map
      OBVIOUS
    <3>1. j = n + 1 - i \/ j > n - (i - 1)
      OBVIOUS
    <3>2. QED
      BY <2>4, <2>5, <2>9, <3>1
  <2>12. Has(y, i)
    BY <2>10, <2>11
  <2> HIDE DEF Has
  <2>13. QED
    BY <2>2, <2>3, <2>12
<1>9. Has(g[n], n)
  <2>1. S \subseteq 0..n /\ \A i \in 1..n : i - 1 \in S => i \in S
    BY <1>8
  <2>2. \A i \in S : Has(g[i], i)
    OBVIOUS
  <2> HIDE DEF S, Has
  <2>3. 0..n \subseteq S
    BY <1>7, <2>1, AllSteps
  <2>4. n \in S
    BY <2>3
  <2>5. QED
    BY <2>2, <2>4
<1>10. after = g[n]
  BY <1>1, <1>6
<1>11. QED
  BY <1>9, <1>10

\* GetTrueNode returns the node for the vtree node asked for.
LEMMA GetTrueNodeFits ==
  ASSUME NEW t, IsForest(t), NEW v \in DOMAIN t, NEW st, NEW f, IsState(st, f), FitState(t, st), NEW after,
         after = GetTrueNode(t, st, v, f)
  PROVE  FitState(t, after) /\ IsFor(after.nodes, after.node, v)
<1>1. PICK made : made = IF v \in DOMAIN st.true_node_map THEN st ELSE MakeTrueNodes(t, st, SerializeVtree(t, v), f)
  OBVIOUS
<1>2. after = [made EXCEPT !.node = made.true_node_map[v]]
  BY <1>1 DEF GetTrueNode, TrueNodeOf
<1>3. IsState(made, f) /\ FitState(t, made) /\ v \in DOMAIN made.true_node_map
  BY <1>1, MakeTrueNodesFits, MakeTrueNodesIs DEF Follows
<1>4. made = [nodes |-> made.nodes, node |-> made.node, true_node_map |-> made.true_node_map, elements |-> made.elements]
  BY <1>3 DEF IsState
<1>5. PICK a : a = made.true_node_map[v]
  OBVIOUS
<1>6. after = [nodes |-> made.nodes, node |-> a, true_node_map |-> made.true_node_map, elements |-> made.elements]
  BY <1>2, <1>4, <1>5
<1>7. after.nodes = made.nodes /\ after.node = a /\ after.true_node_map = made.true_node_map
  BY <1>6
<1>8. IsFor(made.nodes, a, v)
  BY <1>3, <1>5 DEF FitState, AtPlace
<1>9. QED
  BY <1>3, <1>7, <1>8 DEF FitState

-----------------------------------------------------------------------------
\* The parent of a node that a serialization has after the root stands before it.
LEMMA ParentBefore ==
  ASSUME NEW t, IsForest(t), NEW root \in DOMAIN t, NEW list, IsSerialization(t, root, list),
         NEW k \in 1..Len(list), k > 1
  PROVE  /\ list[k] \in ChildrenOf(t, ParentOf(t, list[k]))
         /\ \E j \in 1..Len(list) : j < k /\ list[j] = ParentOf(t, list[k])
<1>1. PICK v : v = list[k]
  OBVIOUS
<1>2. PICK j \in 1..Len(list) : j < k /\ v \in ChildrenOf(t, list[j])
  BY <1>1 DEF IsSerialization
<1>3. PICK u : u = list[j]
  OBVIOUS
<1>4. u \in DOMAIN t /\ v \in ChildrenOf(t, u)
  BY <1>2, <1>3 DEF IsSerialization
<1>5. \E w \in DOMAIN t : v \in ChildrenOf(t, w)
  BY <1>4
<1>6. PICK p : p = CHOOSE w \in DOMAIN t : v \in ChildrenOf(t, w)
  OBVIOUS
<1>7. p = ParentOf(t, v)
  BY <1>6, Zenon DEF ParentOf
<1>8. p \in DOMAIN t /\ v \in ChildrenOf(t, p)
  <2>1. (CHOOSE w \in DOMAIN t : v \in ChildrenOf(t, w)) \in DOMAIN t
        /\ v \in ChildrenOf(t, CHOOSE w \in DOMAIN t : v \in ChildrenOf(t, w))
    BY <1>5, Zenon
  <2>2. QED
    BY <1>6, <2>1, Zenon
<1>9. p = u
  BY <1>4, <1>8 DEF IsForest
<1>10. QED
  BY <1>1, <1>2, <1>3, <1>7, <1>8, <1>9

\* A serialization has no more nodes than the vtree.
LEMMA ListIsShort ==
  ASSUME NEW t, IsForest(t), NEW root \in DOMAIN t, NEW list, IsSerialization(t, root, list)
  PROVE  Len(list) \in Nat /\ Len(list) <= Cardinality(DOMAIN t)
<1>1. PICK n \in Nat : n = Len(list)
  BY DEF IsSerialization
<1>2. PICK T : T = DOMAIN t
  OBVIOUS
<1>3. list \in Seq(T) /\ \A j, k \in 1..n : list[j] = list[k] => j = k
  BY <1>1, <1>2 DEF IsSerialization
<1>4. IsFiniteSet(T) /\ IsFiniteSet(1..n) /\ Cardinality(1..n) = n
  BY <1>2, FS_Interval DEF IsForest
<1>5. \A k \in 1..n : list[k] \in T
  BY <1>1, <1>3
<1> DEFINE h == [k \in 1..n |-> list[k]]
<1>6. h \in Injection(1..n, T)
  <2>1. h \in [1..n -> T]
    BY <1>5
  <2>2. \A j, k \in 1..n : h[j] = h[k] => j = k
    BY <1>3
  <2> HIDE DEF h
  <2>3. QED
    BY <2>1, <2>2 DEF Injection, IsInjective
<1> HIDE DEF h
<1>7. Cardinality(1..n) <= Cardinality(T)
  BY <1>4, <1>6, FS_Injection
<1>8. QED
  BY <1>1, <1>2, <1>4, <1>7

\* One lift makes a node for the parent.
LEMMA LiftFits ==
  ASSUME NEW t, IsForest(t), NEW goal \in DOMAIN t, NEW st, NEW f, IsState(st, f), FitState(t, st),
         IsUnderWay(t, st, goal), st.nodes[st.node].vtree # goal, NEW after, after = LiftTo(t, st, goal, f)
  PROVE  FitState(t, after) /\ IsFor(after.nodes, after.node, ParentOf(t, st.nodes[st.node].vtree))
<1>1. PICK v : v = st.nodes[st.node].vtree
  OBVIOUS
<1>2. st.node \in DOMAIN st.nodes /\ v \in Under(t, goal) /\ v # goal
  BY <1>1 DEF IsUnderWay
<1>3. PICK p : p = ParentOf(t, v)
  OBVIOUS
<1>4. /\ p \in DOMAIN t /\ t[p].left \in DOMAIN t /\ t[p].right \in DOMAIN t
      /\ ChildrenOf(t, p) = {t[p].left, t[p].right}
  BY <1>2, <1>3, ParentIs
<1>5. ~IsLeaf(t, p)
  BY <1>4 DEF ChildrenOf
<1>6. v \in ChildrenOf(t, p)
  <2>1. PICK list : list = SerializeVtree(t, goal)
    OBVIOUS
  <2>2. IsSerialization(t, goal, list)
    BY <2>1, SerializeVtreeIs
  <2>3. list \in Seq(DOMAIN t) /\ list[1] = goal
    BY <2>2 DEF IsSerialization
  <2>4. Range(list) = Under(t, goal)
    BY <2>1 DEF Under
  <2>5. PICK k \in 1..Len(list) : v = list[k]
    BY <1>2, <2>3, <2>4, ListRange
  <2>6. k > 1
    BY <1>2, <2>3, <2>5
  <2>7. QED
    BY <1>3, <2>2, <2>5, <2>6, ParentBefore
<1>7. PICK isLeft : isLeft = (t[p].left = v)
  OBVIOUS
<1>8. PICK w : w = IF isLeft THEN t[p].right ELSE t[p].left
  OBVIOUS
<1>9. w \in DOMAIN t
  BY <1>4, <1>8
<1>10. PICK other : other = GetTrueNode(t, st, w, f)
  OBVIOUS
<1>11. Follows(st, other, f) /\ FitState(t, other) /\ IsFor(other.nodes, other.node, w)
  BY <1>9, <1>10, GetTrueNodeIs, GetTrueNodeFits
<1>12. IsState(other, f) /\ GrowsTo(st.nodes, other.nodes)
  BY <1>11 DEF Follows
<1>13. IsFor(other.nodes, st.node, v)
  BY <1>1, <1>2, <1>12, ForStays DEF IsFor
<1>14. other.node \in DOMAIN other.nodes /\ st.node \in DOMAIN other.nodes
  BY <1>11, <1>13 DEF IsFor
<1>15. PICK es : es = IF isLeft THEN <<Element(st.node, other.node, One)>> ELSE <<Element(other.node, st.node, One)>>
  OBVIOUS
<1>16. /\ IsList(es) /\ DOMAIN es # {}
       /\ IF isLeft THEN \A i \in DOMAIN es : es[i].prime = st.node /\ es[i].sub = other.node
                    ELSE \A i \in DOMAIN es : es[i].prime = other.node /\ es[i].sub = st.node
  <2>1. DOMAIN es # {}
    BY <1>15
  <2>2. CASE isLeft
    BY <1>14, <1>15, <2>1, <2>2, PairIsElements
  <2>3. CASE ~isLeft
    BY <1>14, <1>15, <2>1, <2>3, PairIsElements
  <2>4. QED
    BY <2>2, <2>3
<1>17. AreFor(t, other.nodes, p, es)
  <2>1. CASE isLeft
    <3>1. v = t[p].left /\ w = t[p].right
      BY <1>7, <1>8, <2>1
    <3>2. QED
      BY <1>11, <1>13, <1>16, <2>1, <3>1 DEF AreFor
  <2>2. CASE ~isLeft
    <3>1. v = t[p].right /\ w = t[p].left
      BY <1>4, <1>6, <1>7, <1>8, <2>2
    <3>2. QED
      BY <1>11, <1>13, <1>16, <2>2, <3>1 DEF AreFor
  <2>3. QED
    BY <2>1, <2>2
<1>18. after = GetUniqueNode(other, DecisionNode(p, es, f))
  <2>1. after = Lift(t, st, f)
    BY <1>1, <1>2 DEF LiftTo
  <2>2. es = <<IF isLeft THEN Element(st.node, other.node, One) ELSE Element(other.node, st.node, One)>>
    BY <1>15
  <2>3. w = Sibling(t, v)
    BY <1>3, <1>7, <1>8 DEF Sibling
  <2>4. after = WithSibling(t, st, other, f)
    BY <1>1, <1>10, <2>1, <2>3 DEF Lift
  <2>5. QED
    BY <1>1, <1>3, <1>7, <2>2, <2>4 DEF WithSibling
<1>19. AreFitted(t, other.nodes) /\ AtPlace(other.nodes, other.true_node_map)
  BY <1>11 DEF FitState
<1>20. AreFitted(t, after.nodes) /\ IsFor(after.nodes, after.node, p)
  BY <1>4, <1>5, <1>12, <1>16, <1>17, <1>18, <1>19, UniqueDecisionFits
<1>21. Follows(other, after, f) /\ after.true_node_map = other.true_node_map
  <2>1. \A i \in DOMAIN es : es[i].prime \in DOMAIN other.nodes /\ es[i].sub \in DOMAIN other.nodes
    BY <1>17 DEF AreFor, IsFor
  <2>2. QED
    BY <1>12, <1>16, <1>18, <2>1, UniqueDecision
<1>22. AtPlace(after.nodes, after.true_node_map)
  BY <1>19, <1>21, AtPlaceStays DEF Follows
<1>23. QED
  BY <1>1, <1>3, <1>20, <1>22 DEF FitState

\* A node under the vtree node asked for comes up to it: a lift goes back in the serialization.
LEMMA NormalizeFits ==
  ASSUME NEW t, IsForest(t), NEW goal \in DOMAIN t, NEW st, NEW f, IsState(st, f), FitState(t, st),
         NEW node \in DOMAIN st.nodes, st.nodes[node].vtree \in Under(t, goal),
         NEW after, after = NormalizePsddNode(t, st, goal, node, f)
  PROVE  FitState(t, after) /\ IsFor(after.nodes, after.node, goal)
<1>1. PICK n \in Nat : n = Cardinality(DOMAIN t)
  BY FS_CardinalityType DEF IsForest
<1>2. PICK x : x = [st EXCEPT !.node = node]
  OBVIOUS
<1>3. IsState(x, f) /\ x.nodes = st.nodes /\ x.node = node
  BY <1>2, WithNode
<1>4. FitState(t, x)
  <2>1. st = [nodes |-> st.nodes, node |-> st.node, true_node_map |-> st.true_node_map, elements |-> st.elements]
    BY DEF IsState
  <2>2. x = [nodes |-> st.nodes, node |-> node, true_node_map |-> st.true_node_map, elements |-> st.elements]
    BY <1>2, <2>1
  <2>3. x.nodes = st.nodes /\ x.true_node_map = st.true_node_map
    BY <2>2
  <2>4. QED
    BY <2>3 DEF FitState
<1>5. PICK g : NormalizeRun(t, st, goal, node, f, g, n)
  BY <1>1, NormalizeUnfolds
<1>6. /\ \A i \in 0..n : g[i] = IF i = 0 THEN [st EXCEPT !.node = node] ELSE LiftTo(t, g[i - 1], goal, f)
      /\ NormalizePsddNode(t, st, goal, node, f) = g[n]
  BY <1>5 DEF NormalizeRun
<1>7. PICK list : list = SerializeVtree(t, goal)
  OBVIOUS
<1>8. IsSerialization(t, goal, list) /\ Range(list) = Under(t, goal)
  BY <1>7, SerializeVtreeIs DEF Under
<1>9. PICK m \in Nat : m = Len(list) /\ m <= n
  BY <1>1, <1>8, ListIsShort
<1>10. list \in Seq(DOMAIN t) /\ list[1] = goal /\ \A j, k \in 1..m : list[j] = list[k] => j = k
  BY <1>8, <1>9 DEF IsSerialization
<1> DEFINE Has(y, i) == /\ IsState(y, f) /\ FitState(t, y) /\ IsUnderWay(t, y, goal)
                        /\ \E k \in 1..m : y.nodes[y.node].vtree = list[k] /\ (k = 1 \/ k <= n - i)
           S == {i \in 0..n : Has(g[i], i)}
<1>11. 0 \in S
  <2>1. g[0] = x
    BY <1>2, <1>6
  <2>2. IsUnderWay(t, x, goal)
    BY <1>3 DEF IsUnderWay
  <2>3. PICK k \in 1..m : st.nodes[node].vtree = list[k]
    BY <1>8, <1>9, <1>10, ListRange
  <2>4. x.nodes[x.node].vtree = list[k] /\ k <= n - 0
    BY <1>3, <1>9, <2>3
  <2>5. Has(x, 0)
    BY <1>3, <1>4, <2>2, <2>4
  <2> HIDE DEF Has
  <2>6. QED
    BY <2>1, <2>5
<1>12. ASSUME NEW i \in 1..n, i - 1 \in S
       PROVE  i \in S
  <2>1. PICK y : y = g[i - 1]
    OBVIOUS
  <2>2. PICK z : z = g[i]
    OBVIOUS
  <2>3. IsState(y, f) /\ FitState(t, y) /\ IsUnderWay(t, y, goal)
    BY <1>12, <2>1
  <2>4. PICK k \in 1..m : y.nodes[y.node].vtree = list[k] /\ (k = 1 \/ k <= n - (i - 1))
    BY <1>12, <2>1
  <2>5. z = LiftTo(t, y, goal, f)
    BY <1>6, <2>1, <2>2
  <2>6. IsState(z, f) /\ IsUnderWay(t, z, goal)
    BY <2>3, <2>5, LiftIs DEF LiftsTo, Follows
  <2>7. CASE k = 1
    <3>1. z = y
      BY <1>10, <2>4, <2>5, <2>7 DEF LiftTo
    <3>2. Has(z, i)
      BY <2>3, <2>4, <2>7, <3>1
    <3> HIDE DEF Has
    <3>3. QED
      BY <2>2, <3>2
  <2>8. CASE k # 1
    <3>1. k > 1 /\ 1 \in 1..m
      BY <2>8
    <3>2. y.nodes[y.node].vtree # goal
      BY <1>10, <2>4, <2>8, <3>1
    <3>3. FitState(t, z) /\ IsFor(z.nodes, z.node, ParentOf(t, list[k]))
      BY <2>3, <2>4, <2>5, <3>2, LiftFits
    <3>4. PICK j \in 1..m : j < k /\ list[j] = ParentOf(t, list[k])
      BY <1>8, <1>9, <3>1, ParentBefore
    <3>5. z.nodes[z.node].vtree = list[j]
      BY <3>3, <3>4 DEF IsFor
    <3>6. j <= n - i
      BY <2>4, <2>8, <3>4
    <3>7. Has(z, i)
      BY <2>6, <3>3, <3>5, <3>6
    <3> HIDE DEF Has
    <3>8. QED
      BY <2>2, <3>7
  <2>9. QED
    BY <2>7, <2>8
<1>13. Has(g[n], n)
  <2>1. S \subseteq 0..n /\ \A i \in 1..n : i - 1 \in S => i \in S
    BY <1>12
  <2>2. \A i \in S : Has(g[i], i)
    OBVIOUS
  <2> HIDE DEF S, Has
  <2>3. 0..n \subseteq S
    BY <1>11, <2>1, AllSteps
  <2>4. n \in S
    BY <2>3
  <2>5. QED
    BY <2>2, <2>4
<1>14. after = g[n]
  BY <1>6
<1>15. Has(after, n)
  BY <1>13, <1>14
<1>16. PICK k \in 1..m : after.nodes[after.node].vtree = list[k] /\ (k = 1 \/ k <= n - n)
  BY <1>15
<1>17. k = 1
  BY <1>16
<1>18. FitState(t, after) /\ after.node \in DOMAIN after.nodes
  BY <1>15 DEF IsUnderWay
<1>19. QED
  BY <1>10, <1>16, <1>17, <1>18 DEF IsFor

-----------------------------------------------------------------------------
\* A list of elements with one more, whose prime and sub are for the two children too.
WithOne(st, p, s, w) == [st EXCEPT !.elements = Append(@, Element(p, s, w))]

LEMMA WithElementFor ==
  ASSUME NEW t, NEW v, NEW st, NEW f, IsState(st, f), FitState(t, st), AreFor(t, st.nodes, v, st.elements),
         NEW p, IsFor(st.nodes, p, t[v].left), NEW s, IsFor(st.nodes, s, t[v].right), NEW w,
         NEW x, x = WithOne(st, p, s, w)
  PROVE  FitState(t, x) /\ AreFor(t, x.nodes, v, x.elements) /\ DOMAIN x.elements # {}
<1>1. /\ st = [nodes |-> st.nodes, node |-> st.node, true_node_map |-> st.true_node_map, elements |-> st.elements]
      /\ AreElements(st.nodes, f, st.elements)
  BY DEF IsState
<1>2. PICK e : e = Element(p, s, w)
  OBVIOUS
<1>3. e.prime = p /\ e.sub = s
  BY <1>2 DEF Element
<1>4. PICK es : es = Append(st.elements, e)
  OBVIOUS
<1>5. x = [nodes |-> st.nodes, node |-> st.node, true_node_map |-> st.true_node_map, elements |-> es]
  BY <1>1, <1>2, <1>4 DEF WithOne
<1>6. x.nodes = st.nodes /\ x.true_node_map = st.true_node_map /\ x.elements = es
  BY <1>5
<1>7. PICK old : old = st.elements
  OBVIOUS
<1>8. PICK n \in Nat : n = Len(old) /\ DOMAIN old = 1..n /\ IsList(old)
  BY <1>1, <1>7, ListIs DEF AreElements
<1>9. /\ DOMAIN es = 1..n + 1 /\ es[n + 1] = e
      /\ \A i \in DOMAIN old : es[i] = old[i]
  BY <1>4, <1>7, <1>8, AppendIsList
<1>10. ASSUME NEW i \in DOMAIN es
       PROVE  IsFor(st.nodes, es[i].prime, t[v].left) /\ IsFor(st.nodes, es[i].sub, t[v].right)
  <2>1. CASE i \in DOMAIN old
    BY <1>7, <1>9, <2>1 DEF AreFor
  <2>2. CASE i \notin DOMAIN old
    <3>1. es[i] = e
      BY <1>8, <1>9, <2>2
    <3>2. QED
      BY <1>3, <3>1
  <2>3. QED
    BY <2>1, <2>2
<1>11. AreFor(t, st.nodes, v, es)
  BY <1>10 DEF AreFor
<1>12. DOMAIN es # {}
  BY <1>8, <1>9
<1>13. FitState(t, x)
  BY <1>6 DEF FitState
<1>14. QED
  BY <1>6, <1>11, <1>12, <1>13

LEMMA ConformFits ==
  ASSUME NEW t, IsForest(t), NEW v \in DOMAIN t, ~IsLeaf(t, v),
         NEW st, NEW f, IsState(st, f), FitState(t, st), AreFor(t, st.nodes, v, st.elements), NEW e,
         e.prime \in DOMAIN st.nodes, e.sub \in DOMAIN st.nodes,
         st.nodes[e.prime].vtree \in Under(t, t[v].left), st.nodes[e.sub].vtree \in Under(t, t[v].right),
         NEW after, after = Conform(t, st, v, e, f)
  PROVE  FitState(t, after) /\ AreFor(t, after.nodes, v, after.elements) /\ DOMAIN after.elements # {}
<1>1. t[v].left \in DOMAIN t /\ t[v].right \in DOMAIN t
  BY DEF IsForest, ChildrenOf
<1>2. PICK prime : prime = NormalizePsddNode(t, st, t[v].left, e.prime, f)
  OBVIOUS
<1>3. PICK sub : sub = NormalizePsddNode(t, prime, t[v].right, e.sub, f)
  OBVIOUS
<1>4. /\ Follows(st, prime, f) /\ prime.elements = st.elements
      /\ FitState(t, prime) /\ IsFor(prime.nodes, prime.node, t[v].left)
  BY <1>1, <1>2, NormalizeIs, NormalizeFits
<1>5. IsState(prime, f) /\ GrowsTo(st.nodes, prime.nodes)
  BY <1>4 DEF Follows
<1>6. e.sub \in DOMAIN prime.nodes /\ prime.nodes[e.sub] = st.nodes[e.sub]
  BY <1>5 DEF GrowsTo
<1>7. /\ Follows(prime, sub, f) /\ sub.elements = prime.elements
      /\ FitState(t, sub) /\ IsFor(sub.nodes, sub.node, t[v].right)
  BY <1>1, <1>3, <1>4, <1>5, <1>6, NormalizeIs, NormalizeFits
<1>8. IsState(sub, f) /\ GrowsTo(prime.nodes, sub.nodes)
  BY <1>7 DEF Follows
<1>9. IsFor(sub.nodes, prime.node, t[v].left)
  BY <1>4, <1>8, ForStays
<1>10. AreFor(t, sub.nodes, v, sub.elements)
  <2>1. AreFor(t, prime.nodes, v, st.elements)
    BY <1>5, AllForStay
  <2>2. AreFor(t, sub.nodes, v, st.elements)
    BY <1>8, <2>1, AllForStay
  <2>3. QED
    BY <1>4, <1>7, <2>2
<1>11. after = [sub EXCEPT !.elements = Append(@, Element(prime.node, sub.node, e.parameter))]
  BY <1>2, <1>3 DEF Conform
<1>12. PICK a, b, w : a = prime.node /\ b = sub.node /\ w = e.parameter
  OBVIOUS
<1>13. after = WithOne(sub, a, b, w)
  BY <1>11, <1>12 DEF WithOne
<1>14. IsFor(sub.nodes, a, t[v].left) /\ IsFor(sub.nodes, b, t[v].right)
  BY <1>7, <1>9, <1>12
<1>15. QED
  BY <1>7, <1>8, <1>10, <1>13, <1>14, WithElementFor

LEMMA BegunFits ==
  ASSUME NEW t, NEW ns, AreFitted(t, ns), NEW v
  PROVE  FitState(t, Begun(ns)) /\ AreFor(t, ns, v, Begun(ns).elements)
<1>1. PICK st : st = Begun(ns)
  OBVIOUS
<1>2. st.nodes = ns /\ st.true_node_map = <<>> /\ st.elements = <<>>
  BY <1>1 DEF Begun
<1>3. DOMAIN <<>> = {}
  OBVIOUS
<1>4. AtPlace(ns, <<>>) /\ AreFor(t, ns, v, <<>>)
  BY <1>3 DEF AtPlace, AreFor
<1>5. QED
  BY <1>1, <1>2, <1>4 DEF FitState

\* Whatever its elements come from, a decision node that is made fits.
LEMMA WithElementsFits ==
  ASSUME NEW t, NEW v \in DOMAIN t, ~IsLeaf(t, v), NEW st, NEW f, IsState(st, f), FitState(t, st),
         AreFor(t, st.nodes, v, st.elements), DOMAIN st.elements # {},
         NEW after, after = WithElements(st, v, f)
  PROVE  FitState(t, after) /\ IsFor(after.nodes, after.node, v)
<1>1. PICK es : es = st.elements
  OBVIOUS
<1>2. IsList(es) /\ DOMAIN es # {} /\ AreFor(t, st.nodes, v, es)
  BY <1>1 DEF IsState, AreElements
<1>3. after = GetUniqueNode(st, DecisionNode(v, es, f))
  BY <1>1 DEF WithElements
<1>4. AreFitted(t, st.nodes) /\ AtPlace(st.nodes, st.true_node_map)
  BY DEF FitState
<1>5. AreFitted(t, after.nodes) /\ IsFor(after.nodes, after.node, v)
  BY <1>2, <1>3, <1>4, UniqueDecisionFits
<1>6. Follows(st, after, f) /\ after.true_node_map = st.true_node_map
  <2>1. \A i \in DOMAIN es : es[i].prime \in DOMAIN st.nodes /\ es[i].sub \in DOMAIN st.nodes
    BY <1>2 DEF AreFor, IsFor
  <2>2. QED
    BY <1>2, <1>3, <2>1, UniqueDecision
<1>7. AtPlace(after.nodes, after.true_node_map)
  BY <1>4, <1>6, AtPlaceStays DEF Follows
<1>8. QED
  BY <1>5, <1>7 DEF FitState

LEMMA GetConformedFits ==
  ASSUME NEW t, IsForest(t), NEW ns, AreNodes(ns), AreFitted(t, ns), NEW f, NEW es, AreElements(ns, f, es),
         CanConform(t, ns, es), NEW after, after = GetConformedPsddDecisionNode(t, ns, es, f)
  PROVE  AreFitted(t, after.nodes)
<1>1. PICK v : v = VtreeOf(t, ns, es)
  OBVIOUS
<1>2. /\ v \in DOMAIN t /\ ~IsLeaf(t, v)
      /\ \A i \in DOMAIN es : /\ ns[es[i].prime].vtree \in Under(t, t[v].left)
                              /\ ns[es[i].sub].vtree \in Under(t, t[v].right)
  BY <1>1 DEF CanConform
<1>3. PICK n \in Nat : n = Len(es) /\ DOMAIN es = 1..n /\ n > 0
  <2>1. IsList(es) /\ es # <<>>
    BY DEF AreElements, CanConform
  <2>2. DOMAIN es = 1..Len(es) /\ Len(es) \in Nat /\ Len(es) >= 1
    BY <2>1, LastOf
  <2>3. PICK m : m = Len(es)
    OBVIOUS
  <2>4. m \in Nat /\ m = Len(es) /\ DOMAIN es = 1..m /\ m > 0
    BY <2>2, <2>3
  <2>5. QED
    BY <2>4
<1>4. PICK begun : begun = Begun(ns)
  OBVIOUS
<1>5. IsState(begun, f) /\ begun.nodes = ns
  BY <1>4, BegunIs
<1>6. FitState(t, begun) /\ AreFor(t, begun.nodes, v, begun.elements)
  BY <1>4, <1>5, BegunFits
<1>7. PICK g : ConformRun(t, ns, v, es, f, g, n)
  BY <1>3, ConformUnfolds
<1>8. /\ \A i \in 0..n : g[i] = IF i = 0 THEN Begun(ns) ELSE Conform(t, g[i - 1], v, es[i], f)
      /\ ConformAll(t, ns, v, es, f) = g[n]
  BY <1>7 DEF ConformRun
<1> DEFINE Has(x, i) == /\ Follows(begun, x, f) /\ FitState(t, x) /\ AreFor(t, x.nodes, v, x.elements)
                        /\ i > 0 => DOMAIN x.elements # {}
           S == {i \in 0..n : Has(g[i], i)}
<1>9. 0 \in S
  <2>1. g[0] = begun
    BY <1>4, <1>8
  <2>2. Has(begun, 0)
    BY <1>5, <1>6, FollowsItself
  <2> HIDE DEF Has
  <2>3. QED
    BY <2>1, <2>2
<1>10. ASSUME NEW i \in 1..n, i - 1 \in S
       PROVE  i \in S
  <2>1. PICK x : x = g[i - 1]
    OBVIOUS
  <2>2. PICK y : y = g[i]
    OBVIOUS
  <2>3. PICK e : e = es[i]
    OBVIOUS
  <2>4. Follows(begun, x, f) /\ FitState(t, x) /\ AreFor(t, x.nodes, v, x.elements)
    BY <1>10, <2>1
  <2>5. IsState(x, f) /\ GrowsTo(ns, x.nodes)
    BY <1>5, <2>4 DEF Follows
  <2>6. IsOfFlag(ns, f, e.prime) /\ IsOfFlag(ns, f, e.sub)
    BY <1>3, <2>3 DEF AreElements
  <2>7. IsOfFlag(x.nodes, f, e.prime) /\ IsOfFlag(x.nodes, f, e.sub)
    BY <2>5, <2>6, FlagStays
  <2>8. x.nodes[e.prime] = ns[e.prime] /\ x.nodes[e.sub] = ns[e.sub]
    BY <2>5, <2>6, FlagHas DEF GrowsTo
  <2>9. e.prime \in DOMAIN x.nodes /\ e.sub \in DOMAIN x.nodes
    BY <2>7, FlagHas
  <2>10. y = Conform(t, x, v, e, f)
    BY <1>8, <2>1, <2>2, <2>3
  <2>11. x.nodes[e.prime].vtree \in Under(t, t[v].left) /\ x.nodes[e.sub].vtree \in Under(t, t[v].right)
    BY <1>2, <1>3, <2>3, <2>8
  <2>12. Follows(x, y, f)
    BY <1>2, <2>5, <2>7, <2>10, <2>11, ConformIs
  <2>13. FitState(t, y) /\ AreFor(t, y.nodes, v, y.elements) /\ DOMAIN y.elements # {}
    BY <1>2, <2>4, <2>5, <2>9, <2>10, <2>11, ConformFits
  <2>14. Follows(begun, y, f)
    BY <2>4, <2>12, FollowsIsTransitive
  <2>15. Has(y, i)
    BY <2>13, <2>14
  <2> HIDE DEF Has
  <2>16. QED
    BY <2>2, <2>15
<1>11. Has(g[n], n)
  <2>1. S \subseteq 0..n /\ \A i \in 1..n : i - 1 \in S => i \in S
    BY <1>10
  <2>2. \A i \in S : Has(g[i], i)
    OBVIOUS
  <2> HIDE DEF S, Has
  <2>3. 0..n \subseteq S
    BY <1>9, <2>1, AllSteps
  <2>4. n \in S
    BY <2>3
  <2>5. QED
    BY <2>2, <2>4
<1>12. PICK st : st = ConformAll(t, ns, v, es, f)
  OBVIOUS
<1>13. Has(st, n)
  BY <1>8, <1>11, <1>12
<1>14. /\ IsState(st, f) /\ FitState(t, st) /\ AreFor(t, st.nodes, v, st.elements)
       /\ DOMAIN st.elements # {}
  BY <1>3, <1>13 DEF Follows
<1>15. after = WithElements(st, v, f)
  BY <1>1, <1>12 DEF GetConformedPsddDecisionNode
<1>16. QED
  BY <1>2, <1>14, <1>15, WithElementsFits DEF FitState

-----------------------------------------------------------------------------
LEMMA SetToSeqHas ==
  ASSUME NEW S, IsFiniteSet(S), NEW x \in S
  PROVE  \E i \in DOMAIN SetToSeq(S) : SetToSeq(S)[i] = x
<1>1. PICK n \in Nat : n = Cardinality(S)
  BY FS_CardinalityType
<1>2. ExistsBijection(1..n, S)
  BY <1>1, FS_CardinalityType
<1>3. \E f \in [1..n -> S] : IsInjective(f)
  BY <1>2 DEF ExistsBijection, Bijection, Injection
<1>4. /\ (CHOOSE f \in [1..n -> S] : IsInjective(f)) \in [1..n -> S]
      /\ IsInjective(CHOOSE f \in [1..n -> S] : IsInjective(f))
  BY <1>3, Zenon
<1>5. SetToSeq(S) \in [1..n -> S] /\ IsInjective(SetToSeq(S))
  BY <1>1, <1>4, Zenon DEF SetToSeq
<1>6. PICK s : s = SetToSeq(S)
  OBVIOUS
<1>7. s \in Injection(1..n, S)
  BY <1>5, <1>6 DEF Injection
<1>8. IsFiniteSet(1..n) /\ Cardinality(1..n) = Cardinality(S)
  BY <1>1, FS_Interval
<1>9. s \in Surjection(1..n, S)
  BY <1>7, <1>8, FS_Injection
<1>10. DOMAIN s = 1..n /\ \E i \in 1..n : s[i] = x
  BY <1>9 DEF Surjection
<1>11. QED
  BY <1>6, <1>10

\* An element of an SDD node becomes one of the new node unless its sub is false.
LEMMA ConvertElementFits ==
  ASSUME IsForest(tree), NEW v \in DOMAIN tree, ~IsLeaf(tree, v),
         NEW st, IsState(st, flag), FitState(tree, st), AreFor(tree, st.nodes, v, st.elements),
         GrowsTo(nodes[here], st.nodes), NEW e, IsKnownElement(v, e), NEW after, after = ConvertElement(st, v, e)
  PROVE  /\ FitState(tree, after) /\ AreFor(tree, after.nodes, v, after.elements)
         /\ DOMAIN st.elements # {} \/ e.sub # SddFalse => DOMAIN after.elements # {}
<1>1. CASE e.sub = SddFalse
  BY <1>1 DEF ConvertElement
<1>2. CASE e.sub # SddFalse
  <2>1. PICK t : t = tree
    OBVIOUS
  <2>2. PICK f : f = flag
    OBVIOUS
  <2>3. PICK p, s : p = node_map[e.prime] /\ s = node_map[e.sub]
    OBVIOUS
  <2>4. PICK ns : ns = nodes[here]
    OBVIOUS
  <2>5. IsForest(t) /\ v \in DOMAIN t /\ t[v].left \in DOMAIN t /\ t[v].right \in DOMAIN t
    BY <2>1 DEF IsForest, ChildrenOf
  <2>6. /\ IsOfFlag(ns, f, p) /\ ns[p].vtree \in Under(t, t[v].left) /\ GrowsTo(ns, st.nodes) /\ IsState(st, f)
        /\ FitState(t, st) /\ AreFor(t, st.nodes, v, st.elements)
    BY <2>1, <2>2, <2>3, <2>4 DEF IsKnownElement
  <2>7. p \in DOMAIN st.nodes /\ st.nodes[p].vtree \in Under(t, t[v].left)
    BY <2>6, FlagHas, FlagStays DEF GrowsTo
  <2>8. PICK prime : prime = NormalizePsddNode(t, st, t[v].left, p, f)
    OBVIOUS
  <2>9. /\ Follows(st, prime, f) /\ prime.elements = st.elements
        /\ FitState(t, prime) /\ IsFor(prime.nodes, prime.node, t[v].left)
    BY <2>5, <2>6, <2>7, <2>8, NormalizeIs, NormalizeFits
  <2>10. IsState(prime, f) /\ GrowsTo(ns, prime.nodes) /\ GrowsTo(st.nodes, prime.nodes)
    BY <2>6, <2>9, GrowthIsTransitive DEF Follows
  <2>11. PICK sub : sub = IF e.sub = SddTrue THEN GetTrueNode(t, prime, t[v].right, f)
                          ELSE NormalizePsddNode(t, prime, t[v].right, s, f)
    OBVIOUS
  <2>12. /\ Follows(prime, sub, f) /\ sub.elements = prime.elements
         /\ FitState(t, sub) /\ IsFor(sub.nodes, sub.node, t[v].right)
    <3>1. CASE e.sub = SddTrue
      <4>1. sub = GetTrueNode(t, prime, t[v].right, f)
        BY <2>11, <3>1
      <4>2. QED
        BY <2>5, <2>9, <2>10, <4>1, GetTrueNodeIs, GetTrueNodeFits
    <3>2. CASE e.sub # SddTrue
      <4>1. sub = NormalizePsddNode(t, prime, t[v].right, s, f)
        BY <2>11, <3>2
      <4>2. IsOfFlag(ns, f, s) /\ ns[s].vtree \in Under(t, t[v].right)
        BY <1>2, <2>1, <2>2, <2>3, <2>4, <3>2 DEF IsKnownElement, IsConstant
      <4>3. s \in DOMAIN prime.nodes /\ prime.nodes[s].vtree \in Under(t, t[v].right)
        BY <2>10, <4>2, FlagHas, FlagStays DEF GrowsTo
      <4>4. QED
        BY <2>5, <2>9, <2>10, <4>1, <4>3, NormalizeIs, NormalizeFits
    <3>3. QED
      BY <3>1, <3>2
  <2>13. IsState(sub, f) /\ GrowsTo(prime.nodes, sub.nodes)
    BY <2>12 DEF Follows
  <2>14. IsFor(sub.nodes, prime.node, t[v].left)
    BY <2>9, <2>13, ForStays
  <2>15. AreFor(t, sub.nodes, v, sub.elements)
    <3>1. AreFor(t, prime.nodes, v, st.elements)
      BY <2>6, <2>10, AllForStay
    <3>2. AreFor(t, sub.nodes, v, st.elements)
      BY <2>13, <3>1, AllForStay
    <3>3. QED
      BY <2>9, <2>12, <3>2
  <2>16. after = [sub EXCEPT !.elements = Append(@, Element(prime.node, sub.node, One))]
    BY <1>2, <2>1, <2>2, <2>3, <2>8, <2>11 DEF ConvertElement
  <2>17. PICK a, b, w : a = prime.node /\ b = sub.node /\ w = One
    OBVIOUS
  <2>18. after = WithOne(sub, a, b, w)
    BY <2>16, <2>17 DEF WithOne
  <2>19. IsFor(sub.nodes, a, t[v].left) /\ IsFor(sub.nodes, b, t[v].right)
    BY <2>12, <2>14, <2>17
  <2>20. FitState(t, after) /\ AreFor(t, after.nodes, v, after.elements) /\ DOMAIN after.elements # {}
    BY <2>12, <2>13, <2>15, <2>18, <2>19, WithElementFor
  <2>21. QED
    BY <2>1, <2>20
<1>3. QED
  BY <1>1, <1>2

LEMMA BegunWithFits ==
  ASSUME NEW t, NEW ns, AreFitted(t, ns), NEW map, AtPlace(ns, map), NEW v,
         NEW x, x = [Begun(ns) EXCEPT !.true_node_map = map]
  PROVE  FitState(t, x) /\ AreFor(t, x.nodes, v, x.elements)
<1>1. PICK y : y = Begun(ns)
  OBVIOUS
<1>2. y = [nodes |-> ns, node |-> 0, true_node_map |-> <<>>, elements |-> <<>>]
  BY <1>1 DEF Begun
<1>3. x = [y EXCEPT !.true_node_map = map]
  BY <1>1
<1>4. x = [nodes |-> ns, node |-> 0, true_node_map |-> map, elements |-> <<>>]
  BY <1>2, <1>3
<1>5. x.nodes = ns /\ x.true_node_map = map /\ x.elements = <<>>
  BY <1>4
<1>6. DOMAIN <<>> = {}
  OBVIOUS
<1>7. QED
  BY <1>5, <1>6 DEF FitState, AreFor

LEMMA ConvertElementsFits ==
  ASSUME IsForest(tree), NEW v \in DOMAIN tree, ~IsLeaf(tree, v), AreNodes(nodes[here]),
         AreFitted(tree, nodes[here]), AtPlace(nodes[here], true_nodes_map),
         AreTrueNodes(nodes[here], flag, true_nodes_map), NEW es, IsList(es),
         \A i \in DOMAIN es : IsKnownElement(v, es[i]), \E i \in DOMAIN es : es[i].sub # SddFalse,
         NEW after, after = ConvertElements(v, es)
  PROVE  FitState(tree, after) /\ AreFor(tree, after.nodes, v, after.elements) /\ DOMAIN after.elements # {}
<1>1. PICK n \in Nat : n = Len(es)
  BY ListIs
<1>2. DOMAIN es = 1..n
  BY <1>1, ListIs
<1>3. PICK g : ElementsRun(v, es, g, n)
  BY <1>1, ElementsUnfold
<1>4. /\ \A i \in 0..n : g[i] = IF i = 0 THEN [Begun(nodes[here]) EXCEPT !.true_node_map = true_nodes_map]
                                ELSE ConvertElement(g[i - 1], v, es[i])
      /\ ConvertElements(v, es) = g[n]
  BY <1>3 DEF ElementsRun
<1>5. PICK t, ns, f, map : t = tree /\ ns = nodes[here] /\ f = flag /\ map = true_nodes_map
  OBVIOUS
<1> DEFINE Has(x, i) == /\ IsState(x, f) /\ GrowsTo(ns, x.nodes)
                        /\ FitState(t, x) /\ AreFor(t, x.nodes, v, x.elements)
                        /\ \A j \in 1..i : es[j].sub # SddFalse => DOMAIN x.elements # {}
           D == {i \in 0..n : Has(g[i], i)}
<1>6. 0 \in D
  <2>1. PICK x : x = g[0]
    OBVIOUS
  <2>2. x = [Begun(ns) EXCEPT !.true_node_map = map]
    BY <1>4, <1>5, <2>1
  <2>3. AreNodes(ns) /\ AreTrueNodes(ns, f, map) /\ AreFitted(t, ns) /\ AtPlace(ns, map)
    BY <1>5
  <2>4. IsState(x, f) /\ x.nodes = ns
    BY <2>2, <2>3, BegunWithTrueNodes
  <2>5. FitState(t, x) /\ AreFor(t, x.nodes, v, x.elements)
    BY <2>2, <2>3, BegunWithFits
  <2>6. GrowsTo(ns, ns)
    BY DEF GrowsTo
  <2>7. Has(x, 0)
    BY <2>4, <2>5, <2>6
  <2> HIDE DEF Has
  <2>8. QED
    BY <2>1, <2>7
<1>7. ASSUME NEW i \in 1..n, i - 1 \in D
      PROVE  i \in D
  <2>1. PICK x : x = g[i - 1]
    OBVIOUS
  <2>2. PICK y : y = g[i]
    OBVIOUS
  <2>3. PICK e : e = es[i]
    OBVIOUS
  <2>4. Has(x, i - 1)
    BY <1>7, <2>1
  <2>5. /\ IsState(x, flag) /\ GrowsTo(nodes[here], x.nodes)
        /\ FitState(tree, x) /\ AreFor(tree, x.nodes, v, x.elements)
    BY <1>5, <2>4
  <2>6. y = ConvertElement(x, v, e) /\ IsKnownElement(v, e)
    BY <1>2, <1>4, <2>1, <2>2, <2>3
  <2>7. Follows(x, y, flag)
    BY <2>5, <2>6, ConvertElementIs
  <2>8. IsState(y, f) /\ GrowsTo(ns, y.nodes)
    BY <1>5, <2>5, <2>7, GrowthIsTransitive DEF Follows
  <2>9. /\ FitState(tree, y) /\ AreFor(tree, y.nodes, v, y.elements)
        /\ DOMAIN x.elements # {} \/ e.sub # SddFalse => DOMAIN y.elements # {}
    BY <2>5, <2>6, ConvertElementFits
  <2>10. ASSUME NEW j \in 1..i, es[j].sub # SddFalse
         PROVE  DOMAIN y.elements # {}
    <3>1. j = i \/ j \in 1..i - 1
      OBVIOUS
    <3>2. QED
      BY <2>3, <2>4, <2>9, <2>10, <3>1
  <2>11. Has(y, i)
    BY <1>5, <2>8, <2>9, <2>10
  <2> HIDE DEF Has
  <2>12. QED
    BY <2>2, <2>11
<1>8. D \subseteq 0..n /\ \A i \in 1..n : i - 1 \in D => i \in D
  BY <1>7
<1>9. \A i \in D : Has(g[i], i)
  OBVIOUS
<1> HIDE DEF D
<1>10. 0..n \subseteq D
  BY <1>6, <1>8, AllSteps
<1>11. n \in D
  BY <1>10
<1>12. Has(after, n)
  <2> HIDE DEF Has
  <2>1. QED
    BY <1>4, <1>9, <1>11
<1>13. DOMAIN after.elements # {}
  BY <1>2, <1>12
<1>14. QED
  BY <1>5, <1>12, <1>13

-----------------------------------------------------------------------------
\* The variables that a list has are those of leaves.
AreOfLeaves(t, xs) == IsList(xs) /\ \A i \in DOMAIN xs : \E w \in DOMAIN t : IsLeaf(t, w) /\ t[w].variable = xs[i]

LEMMA VariablesAreOfLeaves ==
  ASSUME NEW t, IsForest(t), NEW root \in DOMAIN t
  PROVE  AreOfLeaves(t, VariablesUnderVtree(t, root))
<1>1. PICK list : list = SerializeVtree(t, root)
  OBVIOUS
<1>2. IsSerialization(t, root, list)
  BY <1>1, SerializeVtreeIs
<1>3. list \in Seq(DOMAIN t)
  BY <1>2 DEF IsSerialization
<1>4. PICK n \in Nat : n = Len(list)
  BY <1>3
<1>5. \A i \in 1..n : list[i] \in DOMAIN t
  BY <1>3, <1>4
<1>6. PICK g : VariablesRun(t, root, g, n)
  BY <1>1, <1>4, VariablesUnfold
<1>7. /\ \A i \in 0..n : g[i] = IF i = 0 THEN <<>> ELSE PushLeaf(t, g[i - 1], list[i])
      /\ VariablesUnderVtree(t, root) = g[n]
  BY <1>1, <1>6 DEF VariablesRun
<1> DEFINE S == {i \in 0..n : AreOfLeaves(t, g[i])}
<1>8. 0 \in S
  <2>1. <<>> \in Seq({}) /\ DOMAIN <<>> = {} /\ g[0] = <<>>
    BY <1>7
  <2>2. AreOfLeaves(t, <<>>)
    BY <2>1 DEF IsList, AreOfLeaves
  <2>3. QED
    BY <2>1, <2>2
<1>9. ASSUME NEW i \in 1..n, i - 1 \in S
      PROVE  i \in S
  <2>1. PICK x : x = g[i - 1]
    OBVIOUS
  <2>2. PICK y : y = g[i]
    OBVIOUS
  <2>3. PICK w : w = list[i]
    OBVIOUS
  <2>4. AreOfLeaves(t, x) /\ y = PushLeaf(t, x, w) /\ w \in DOMAIN t
    BY <1>5, <1>7, <1>9, <2>1, <2>2, <2>3
  <2>5. AreOfLeaves(t, y)
    <3>1. CASE ~IsLeaf(t, w)
      BY <2>4, <3>1 DEF PushLeaf
    <3>2. CASE IsLeaf(t, w)
      <4>1. PICK variable : variable = t[w].variable
        OBVIOUS
      <4>2. y = Append(x, variable)
        BY <2>4, <3>2, <4>1 DEF PushLeaf
      <4>3. PICK k \in Nat : k = Len(x) /\ DOMAIN x = 1..k /\ IsList(x)
        BY <2>4, ListIs DEF AreOfLeaves
      <4>4. /\ IsList(y) /\ DOMAIN y = 1..k + 1 /\ y[k + 1] = variable
            /\ \A j \in DOMAIN x : y[j] = x[j]
        BY <4>2, <4>3, AppendIsList
      <4>5. ASSUME NEW j \in DOMAIN y
            PROVE  \E u \in DOMAIN t : IsLeaf(t, u) /\ t[u].variable = y[j]
        <5>1. CASE j \in DOMAIN x
          BY <2>4, <4>4, <5>1 DEF AreOfLeaves
        <5>2. CASE j \notin DOMAIN x
          <6>1. j = k + 1
            BY <4>3, <4>4, <5>2
          <6>2. QED
            BY <2>4, <3>2, <4>1, <4>4, <6>1
        <5>3. QED
          BY <5>1, <5>2
      <4>6. QED
        BY <4>4, <4>5 DEF AreOfLeaves
    <3>3. QED
      BY <3>1, <3>2
  <2>6. QED
    BY <2>2, <2>5
<1>10. S \subseteq 0..n /\ \A i \in 1..n : i - 1 \in S => i \in S
  BY <1>9
<1>11. \A i \in S : AreOfLeaves(t, g[i])
  OBVIOUS
<1> HIDE DEF S
<1>12. 0..n \subseteq S
  BY <1>8, <1>10, AllSteps
<1>13. n \in S
  BY <1>12
<1>14. QED
  BY <1>7, <1>11, <1>13

\* The leaf of a variable of the vtree.
LEMMA LeafOfKnown ==
  ASSUME NEW t, IsForest(t), NEW root \in DOMAIN t, NEW x, x \in Variables(t, root), NEW v, v = LeafOf(t, x)
  PROVE  v \in DOMAIN t /\ IsLeaf(t, v)
<1>1. PICK xs : xs = VariablesUnderVtree(t, root)
  OBVIOUS
<1>2. AreOfLeaves(t, xs)
  BY <1>1, VariablesAreOfLeaves
<1>3. x \in Range(xs)
  BY <1>1 DEF Variables
<1>4. PICK i \in DOMAIN xs : x = xs[i]
  BY <1>2, <1>3, ListIs DEF AreOfLeaves
<1>5. PICK w \in DOMAIN t : IsLeaf(t, w) /\ t[w].variable = x
  BY <1>2, <1>4 DEF AreOfLeaves
<1>6. x # 0
  BY <1>5 DEF IsLeaf
<1>7. \E u \in DOMAIN t : t[u].variable = x
  BY <1>5
<1>8. /\ (CHOOSE u \in DOMAIN t : t[u].variable = x) \in DOMAIN t
      /\ t[CHOOSE u \in DOMAIN t : t[u].variable = x].variable = x
  BY <1>7, Zenon
<1>9. v = CHOOSE u \in DOMAIN t : t[u].variable = x
  BY Zenon DEF LeafOf
<1>10. v \in DOMAIN t /\ t[v].variable = x
  BY <1>8, <1>9, Zenon
<1>11. QED
  BY <1>6, <1>10 DEF IsLeaf

-----------------------------------------------------------------------------
(***************************************************************************)
(* All nodes of all managers fit, and the true nodes that a conversion has *)
(* are for the vtree nodes that it has them under.                         *)
(***************************************************************************)
NodesFit == \A g \in DOMAIN Vtree : AreFitted(Vtree[g], nodes[g])
TrueNodesFit == pass = "convert" => AtPlace(nodes[here], true_nodes_map)
FitInvariant == NodesFit /\ TrueNodesFit

\* What the step of any call begins with.
LEMMA CallFits ==
  ASSUME FlagInvariant, NodesFit, Len(results) < Len(program)
  PROVE  /\ IsForest(tree) /\ RootOf(tree) \in DOMAIN tree
         /\ AreNodes(nodes[here]) /\ AreFitted(tree, nodes[here])
         /\ IsState(Begun(nodes[here]), flag) /\ FitState(tree, Begun(nodes[here]))
         /\ Begun(nodes[here]).nodes = nodes[here]
<1>1. here \in DOMAIN Vtree /\ tree = Vtree[here] /\ IsForest(tree) /\ RootOf(tree) \in DOMAIN tree
  BY CallIsOf DEF FlagInvariant
<1>2. AreFitted(tree, nodes[here])
  BY <1>1 DEF NodesFit
<1>3. PICK t, ns, f, begun : t = tree /\ ns = nodes[here] /\ f = flag /\ begun = Begun(nodes[here])
  OBVIOUS
<1>4. IsState(begun, f) /\ begun.nodes = ns /\ AreNodes(ns)
  BY <1>3, BegunHere
<1>5. AreFitted(t, ns) /\ begun = Begun(ns)
  BY <1>2, <1>3
<1>6. FitState(t, begun)
  BY <1>5, BegunFits
<1>7. QED
  BY <1>1, <1>2, <1>3, <1>4, <1>6

LEMMA MadeFits ==
  ASSUME FlagInvariant, NodesFit, Len(results) < Len(program), NEW st, AreFitted(tree, st.nodes), Made(st)
  PROVE  NodesFit' /\ nodes'[here] = st.nodes
<1>1. here \in DOMAIN Vtree /\ tree = Vtree[here]
  BY CallIsOf DEF FlagInvariant
<1>2. DOMAIN nodes = DOMAIN Vtree
  BY DEF FlagInvariant, NodesAre, AreNodesOf
<1>3. PICK g, own : g = here /\ own = st.nodes
  OBVIOUS
<1>4. nodes' = [nodes EXCEPT ![g] = own] /\ g \in DOMAIN Vtree /\ AreFitted(Vtree[g], own)
  BY <1>1, <1>3 DEF Made
<1>5. nodes'[g] = own /\ \A h \in DOMAIN Vtree : h # g => nodes'[h] = nodes[h]
  BY <1>2, <1>4
<1>6. \A h \in DOMAIN Vtree : AreFitted(Vtree[h], nodes'[h])
  <2> SUFFICES ASSUME NEW h \in DOMAIN Vtree PROVE AreFitted(Vtree[h], nodes'[h])
    OBVIOUS
  <2>1. CASE h = g
    BY <1>4, <1>5, <2>1
  <2>2. CASE h # g
    BY <1>5, <2>2 DEF NodesFit
  <2>3. QED
    BY <2>1, <2>2
<1>7. QED
  BY <1>3, <1>5, <1>6 DEF NodesFit

\* A step that makes no nodes and is none of a conversion.
LEMMA QuietFits ==
  ASSUME NodesFit, nodes' = nodes, pass' # "convert"
  PROVE  FitInvariant'
BY DEF FitInvariant, NodesFit, TrueNodesFit

LEMMA MakingFits ==
  ASSUME FlagInvariant, NodesFit, Len(results) < Len(program), NEW st, AreFitted(tree, st.nodes), Made(st),
         pass' # "convert"
  PROVE  FitInvariant'
BY MadeFits DEF FitInvariant, TrueNodesFit

-----------------------------------------------------------------------------
LEMMA TrueNodeFitsAll ==
  ASSUME FlagInvariant, FitInvariant, TrueNode
  PROVE  FitInvariant'
<1>1. Len(results) < Len(program) /\ call.op = "GetTrueNode" /\ NodesFit
  BY DEF TrueNode, CanCall, FitInvariant
<1>2. PICK t, f, v, begun : t = tree /\ f = flag /\ v = call.target /\ begun = Begun(nodes[here])
  OBVIOUS
<1>3. IsForest(t) /\ IsState(begun, f) /\ FitState(t, begun)
  BY <1>1, <1>2, CallFits
<1>4. IsCallOf(program, Len(results) + 1)
  BY <1>1, CallIsOf DEF FlagInvariant
<1>5. v \in DOMAIN t
  BY <1>1, <1>2, <1>4 DEF IsCallOf, call, tree, here
<1>6. PICK st : st = GetTrueNode(t, begun, v, f)
  OBVIOUS
<1>7. Made(st) /\ pass' = "none"
  BY <1>2, <1>6 DEF TrueNode, Returns
<1>8. AreFitted(t, st.nodes)
  BY <1>3, <1>5, <1>6, GetTrueNodeFits DEF FitState
<1>9. AreFitted(tree, st.nodes)
  BY <1>2, <1>8
<1>10. QED
  BY <1>1, <1>7, <1>9, MakingFits

LEMMA NormalizeFitsAll ==
  ASSUME FlagInvariant, FitInvariant, AssertionsHold, Normalize
  PROVE  FitInvariant'
<1>1. /\ Len(results) < Len(program) /\ pass = "none" /\ call.op = "NormalizePsddNode" /\ NodesFit
      /\ \A i \in call.arguments : IsNodeOf(Result(i))
  BY DEF Normalize, CanCall, FitInvariant
<1>2. PICK t, f, v, begun, a : t = tree /\ f = flag /\ v = call.target /\ begun = Begun(nodes[here]) /\ a = Result(call.first).node
  OBVIOUS
<1>3. IsForest(t) /\ IsState(begun, f) /\ FitState(t, begun) /\ begun.nodes = nodes[here]
  BY <1>1, <1>2, CallFits
<1>4. IsCallOf(program, Len(results) + 1)
  BY <1>1, CallIsOf DEF FlagInvariant
<1>5. v \in DOMAIN t /\ call.first \in call.arguments
  BY <1>1, <1>2, <1>4 DEF IsCallOf, call, tree, here
<1>6. a \in DOMAIN nodes[here]
  BY <1>1, <1>2, <1>5, ArgumentIs DEF FlagInvariant, Result
<1>7. nodes[here][a].vtree \in Under(t, v)
  BY <1>1, <1>2, <1>5 DEF AssertionsHold, NormalizeAsserts, VtreeIn
<1>8. PICK st : st = NormalizePsddNode(t, begun, v, a, f)
  OBVIOUS
<1>9. Made(st) /\ pass' = "none"
  BY <1>2, <1>8 DEF Normalize, Returns
<1>10. AreFitted(t, st.nodes)
  BY <1>3, <1>5, <1>6, <1>7, <1>8, NormalizeFits DEF FitState
<1>11. AreFitted(tree, st.nodes)
  BY <1>2, <1>10
<1>12. QED
  BY <1>1, <1>9, <1>11, MakingFits

-----------------------------------------------------------------------------
\* Whatever kind of node a leaf gets, it fits.
LEMMA LeafOfVariableFits ==
  ASSUME FlagInvariant, NodesFit, Len(results) < Len(program), NEW x, IsKnown(x), NEW v, v = LeafOf(tree, x),
         NEW c, \/ \E sign : c = LiteralNode(v, sign, flag)
                \/ \E positive, negative : c = TopNode(v, positive, negative, flag),
         NEW st, st = GetUniqueNode(Begun(nodes[here]), c)
  PROVE  AreFitted(tree, st.nodes)
<1>1. PICK t, f, begun, root : t = tree /\ f = flag /\ begun = Begun(nodes[here]) /\ root = RootOf(tree)
  OBVIOUS
<1>2. IsForest(t) /\ root \in DOMAIN t /\ IsState(begun, f) /\ AreFitted(t, begun.nodes)
  BY <1>1, CallFits DEF FitState
<1>3. x \in Variables(t, root) /\ v = LeafOf(t, x)
  BY <1>1 DEF IsKnown
<1>4. v \in DOMAIN t /\ IsLeaf(t, v)
  BY <1>2, <1>3, LeafOfKnown
<1>5. CASE \E sign : c = LiteralNode(v, sign, f)
  <2>1. PICK sign : c = LiteralNode(v, sign, f)
    BY <1>5
  <2>2. st = GetUniqueNode(begun, LiteralNode(v, sign, f))
    BY <1>1, <2>1
  <2>3. AreFitted(t, st.nodes)
    BY <1>2, <1>4, <2>2, UniqueLiteralFits
  <2>4. QED
    BY <1>1, <2>3
<1>6. CASE \E positive, negative : c = TopNode(v, positive, negative, f)
  <2>1. PICK positive, negative : c = TopNode(v, positive, negative, f)
    BY <1>6
  <2>2. st = GetUniqueNode(begun, TopNode(v, positive, negative, f))
    BY <1>1, <2>1
  <2>3. AreFitted(t, st.nodes)
    BY <1>2, <1>4, <2>2, UniqueTopFits
  <2>4. QED
    BY <1>1, <2>3
<1>7. QED
  BY <1>1, <1>5, <1>6

LEMMA ReadLineFits ==
  ASSUME FlagInvariant, FitInvariant, AssertionsHold, ReadLine
  PROVE  FitInvariant'
<1>1. pass = "read" /\ position <= Len(call.file) /\ NodesFit
  BY DEF ReadLine, FitInvariant
<1>2. /\ Len(results) < Len(program) /\ call.op = "ReadPsddFile"
      /\ position \in 1..Len(call.file) + 1 /\ AreTrueNodes(nodes[here], flag, construct_cache)
  BY <1>1 DEF FlagInvariant, LocalsAre, ReadIs, CallIs
<1>3. PICK st : st = NodeOfLine
  OBVIOUS
<1>4. Made(st) /\ pass' # "convert"
  BY <1>1, <1>3 DEF ReadLine
<1>5. IsCallOf(program, Len(results) + 1)
  BY <1>2, CallIsOf DEF FlagInvariant
<1>6. IsFile(call.file)
  BY <1>2, <1>5 DEF IsCallOf, call
<1>7. Line.kind \in {"L", "T", "D"} /\ (Line.kind = "D" => Line.elements \in Seq(Range(Line.elements)))
  BY <1>1, <1>2, <1>6 DEF IsFile, Line
<1>8. CASE Line.kind = "L"
  <2>1. PICK x, v, c : x = Line.variable /\ v = LeafOf(tree, Line.variable) /\ c = LiteralNode(LeafOf(tree, Line.variable), Line.sign, flag)
    OBVIOUS
  <2>2. st = GetUniqueNode(Begun(nodes[here]), c)
    BY <1>3, <1>8, <2>1 DEF NodeOfLine
  <2>3. IsKnown(x)
    BY <1>1, <1>8, <2>1 DEF AssertionsHold, ReadAsserts
  <2>4. v = LeafOf(tree, x) /\ \E sign : c = LiteralNode(v, sign, flag)
    BY <2>1
  <2>5. AreFitted(tree, st.nodes)
    BY <1>1, <1>2, <2>2, <2>3, <2>4, LeafOfVariableFits
  <2>6. QED
    BY <1>1, <1>2, <1>4, <2>5, MakingFits
<1>9. CASE Line.kind = "T"
  <2>1. PICK x, v, c : /\ x = Line.variable /\ v = LeafOf(tree, Line.variable)
                       /\ c = TopNode(LeafOf(tree, Line.variable), Line.weights[2], Line.weights[1], flag)
    OBVIOUS
  <2>2. st = GetUniqueNode(Begun(nodes[here]), c)
    BY <1>3, <1>9, <2>1 DEF NodeOfLine
  <2>3. IsKnown(x)
    BY <1>1, <1>9, <2>1 DEF AssertionsHold, ReadAsserts
  <2>4. v = LeafOf(tree, x) /\ \E positive, negative : c = TopNode(v, positive, negative, flag)
    BY <2>1
  <2>5. AreFitted(tree, st.nodes)
    BY <1>1, <1>2, <2>2, <2>3, <2>4, LeafOfVariableFits
  <2>6. QED
    BY <1>1, <1>2, <1>4, <2>5, MakingFits
<1>10. CASE Line.kind = "D"
  <2>1. PICK t, f, ns, es : t = tree /\ f = flag /\ ns = nodes[here] /\ es = LineElements(Line)
    OBVIOUS
  <2>2. AreElements(ns, f, es) /\ CanConform(t, ns, es)
    BY <1>1, <1>10, <2>1, ElementsOfLine
  <2>3. st = GetConformedPsddDecisionNode(t, ns, es, f)
    BY <1>3, <1>10, <2>1 DEF NodeOfLine
  <2>4. IsForest(t) /\ AreNodes(ns) /\ AreFitted(t, ns)
    BY <1>1, <1>2, <2>1, CallFits
  <2>5. AreFitted(tree, st.nodes)
    BY <2>1, <2>2, <2>3, <2>4, GetConformedFits
  <2>6. QED
    BY <1>1, <1>2, <1>4, <2>5, MakingFits
<1>11. QED
  BY <1>7, <1>8, <1>9, <1>10

-----------------------------------------------------------------------------
\* ConvertSddToPsdd, FromSdd and Compile begin with no true nodes.
LEMMA BeginSddFits ==
  ASSUME FlagInvariant, FitInvariant, pass = "none", Len(results) < Len(program), NEW sdd, NEW copy, NEW v,
         v \in DOMAIN tree, BeginSdd(sdd, copy, v)
  PROVE  FitInvariant'
<1>1. true_nodes_map = <<>> /\ NodesFit
  BY DEF FlagInvariant, FitInvariant, LocalsAre, BetweenCalls
<1>2. CASE sdd = SddFalse /\ Returns(NullNode, One) /\ UNCHANGED nodes
  BY <1>1, <1>2, QuietFits DEF Returns
<1>3. CASE /\ sdd = SddTrue
           /\ LET st == GetTrueNode(tree, Begun(nodes[here]), v, flag) IN Made(st) /\ Returns(st.node, One)
  <2>1. PICK t, f, begun : t = tree /\ f = flag /\ begun = Begun(nodes[here])
    OBVIOUS
  <2>2. IsForest(t) /\ v \in DOMAIN t /\ IsState(begun, f) /\ FitState(t, begun)
    BY <1>1, <2>1, CallFits
  <2>3. PICK st : st = GetTrueNode(t, begun, v, f)
    OBVIOUS
  <2>4. Made(st) /\ pass' = "none"
    BY <1>3, <2>1, <2>3 DEF Returns
  <2>5. AreFitted(t, st.nodes)
    BY <2>2, <2>3, GetTrueNodeFits DEF FitState
  <2>6. AreFitted(tree, st.nodes)
    BY <2>1, <2>5
  <2>7. QED
    BY <1>1, <2>4, <2>6, MakingFits
<1>4. CASE nodes' = nodes /\ true_nodes_map' = true_nodes_map
  <2>1. true_nodes_map' = <<>> /\ DOMAIN <<>> = {}
    BY <1>1, <1>4
  <2>2. TrueNodesFit'
    BY <2>1 DEF TrueNodesFit, AtPlace
  <2>3. NodesFit'
    BY <1>1, <1>4 DEF NodesFit
  <2>4. QED
    BY <2>2, <2>3 DEF FitInvariant
<1>5. QED
  BY <1>2, <1>3, <1>4 DEF BeginSdd

LEMMA ConvertSddFits ==
  ASSUME FlagInvariant, FitInvariant, ConvertSddToPsdd
  PROVE  FitInvariant'
<1>1. pass = "none" /\ Len(results) < Len(program)
  BY DEF ConvertSddToPsdd, CanCall
<1>2. RootOf(tree) \in DOMAIN tree
  BY <1>1, CallIsOf DEF FlagInvariant
<1>3. PICK v, copy, sdd : /\ v = RootOf(tree) /\ copy = CopyVtree(tree, RootOf(tree), call.variable_mapping)
                          /\ sdd = SddOf(copy, RootOf(tree), call.models)
  OBVIOUS
<1>4. BeginSdd(sdd, copy, v) /\ v \in DOMAIN tree
  BY <1>2, <1>3 DEF ConvertSddToPsdd
<1>5. QED
  BY <1>1, <1>4, BeginSddFits

LEMMA FromSddFits ==
  ASSUME FlagInvariant, FitInvariant, FromSdd
  PROVE  FitInvariant'
<1>1. pass = "none" /\ Len(results) < Len(program) /\ call.op = "FromSdd"
  BY DEF FromSdd, CanCall
<1>2. IsCallOf(program, Len(results) + 1)
  BY <1>1, CallIsOf DEF FlagInvariant
<1>3. PICK v, copy, sdd : /\ v = SubVtreeByVariables(tree, RootOf(tree), call.used_variables)
                          /\ copy = CopyVtree(tree, v, call.variable_mapping)
                          /\ sdd = SddOf(copy, v, call.models)
  OBVIOUS
<1>4. v \in DOMAIN tree
  BY <1>1, <1>2, <1>3 DEF IsCallOf, call, tree, here
<1>5. BeginSdd(sdd, copy, v)
  BY <1>3 DEF FromSdd
<1>6. QED
  BY <1>1, <1>4, <1>5, BeginSddFits

LEMMA CompileFits ==
  ASSUME FlagInvariant, FitInvariant, Compile
  PROVE  FitInvariant'
<1>1. pass = "none" /\ Len(results) < Len(program)
  BY DEF Compile, CanCall
<1>2. RootOf(tree) \in DOMAIN tree
  BY <1>1, CallIsOf DEF FlagInvariant
<1>3. PICK v, copy, sdd :
        /\ v = RootOf(tree) /\ copy = CopyVtree(tree, RootOf(tree), VariableMapping)
        /\ sdd = Sdd(copy, RootOf(copy), ConstructSddFromCnf(ClausesOf(call.lines), VariableMapping, copy))
  OBVIOUS
<1>4. BeginSdd(sdd, copy, v) /\ v \in DOMAIN tree
  BY <1>2, <1>3 DEF Compile
<1>5. QED
  BY <1>1, <1>4, BeginSddFits

-----------------------------------------------------------------------------
\* What a step that converts one node leaves.
LEMMA ConvertingFits ==
  ASSUME FlagInvariant, FitInvariant, pass = "convert", NEW st, IsState(st, flag), GrowsTo(nodes[here], st.nodes),
         Made(st), UNCHANGED clientVars, AreFitted(tree, st.nodes), AtPlace(st.nodes, true_nodes_map')
  PROVE  FitInvariant'
<1>1. Len(results) < Len(program) /\ NodesFit
  BY DEF FlagInvariant, FitInvariant, LocalsAre, ConvertIs, CallIs
<1>2. nodes'[here'] = st.nodes
  BY <1>1, MakingKeeps
<1>3. NodesFit'
  BY <1>1, MadeFits
<1>4. AtPlace(nodes'[here'], true_nodes_map')
  BY <1>2
<1>5. QED
  BY <1>3, <1>4 DEF FitInvariant, TrueNodesFit

LEMMA ConvertLiteralFits ==
  ASSUME FlagInvariant, FitInvariant, AssertionsHold, ConvertLiteral
  PROVE  FitInvariant'
<1>1. pass = "convert" /\ serialized_sdd_nodes # <<>> /\ IsSddLiteral(NextSdd)
  BY DEF ConvertLiteral
<1>2. Len(results) < Len(program) /\ NodesFit /\ AtPlace(nodes[here], true_nodes_map)
  BY <1>1 DEF FlagInvariant, FitInvariant, TrueNodesFit, LocalsAre, ConvertIs, CallIs
<1>3. PICK t, f, ns, begun, v, sign, trues :
        /\ t = tree /\ f = flag /\ ns = nodes[here] /\ begun = Begun(nodes[here]) /\ v = Tag(NextSdd.vtree)
        /\ sign = (NextSdd.models # {{}}) /\ trues = true_nodes_map
  OBVIOUS
<1>4. IsState(begun, f) /\ AreFitted(t, begun.nodes) /\ begun.nodes = ns
  BY <1>2, <1>3, CallFits DEF FitState
<1>5. v \in DOMAIN t /\ IsLeaf(t, v)
  BY <1>1, <1>3 DEF AssertionsHold, ConvertAsserts
<1>6. PICK st : st = GetUniqueNode(begun, LiteralNode(v, sign, f))
  OBVIOUS
<1>7. Follows(begun, st, f)
  BY <1>4, <1>6, UniqueLiteral
<1>8. AreFitted(t, st.nodes)
  BY <1>4, <1>5, <1>6, UniqueLiteralFits
<1>9. Made(st) /\ true_nodes_map' = trues /\ UNCHANGED clientVars
  BY <1>3, <1>6 DEF ConvertLiteral
<1>10. PICK after : after = st.nodes
  OBVIOUS
<1>11. GrowsTo(ns, after) /\ IsState(st, f)
  BY <1>4, <1>7, <1>10 DEF Follows
<1>12. AtPlace(ns, trues)
  BY <1>2, <1>3
<1>13. AtPlace(after, trues)
  BY <1>11, <1>12, AtPlaceStays
<1>14. QED
  BY <1>1, <1>3, <1>8, <1>9, <1>10, <1>11, <1>13, ConvertingFits

LEMMA ConvertDecisionFits ==
  ASSUME FlagInvariant, FitInvariant, AssertionsHold, ConvertDecision
  PROVE  FitInvariant'
<1>1. pass = "convert" /\ serialized_sdd_nodes # <<>> /\ ~IsSddLiteral(NextSdd)
  BY DEF ConvertDecision
<1>2. /\ Len(results) < Len(program) /\ AreTrueNodes(nodes[here], flag, node_map)
      /\ AreTrueNodes(nodes[here], flag, true_nodes_map) /\ IsFiniteSet(DOMAIN sdd_vtree)
  BY <1>1 DEF FlagInvariant, LocalsAre, ConvertIs, CallIs
<1>3. PICK t, f, v, copy, k, elements :
        /\ t = tree /\ f = flag /\ v = Tag(NextSdd.vtree) /\ copy = sdd_vtree /\ k = NextSdd
        /\ elements = SddElements(sdd_vtree, NextSdd)
  OBVIOUS
<1>4. /\ v \in DOMAIN tree /\ ~IsLeaf(tree, v)
      /\ \E e \in elements : e.sub # SddFalse
      /\ \A e \in elements :
           /\ e.prime \in DOMAIN node_map
           /\ nodes[here][node_map[e.prime]].vtree \in Under(tree, tree[v].left)
           /\ ~IsConstant(e.sub) => /\ e.sub \in DOMAIN node_map
                                    /\ nodes[here][node_map[e.sub]].vtree \in Under(tree, tree[v].right)
  BY <1>1, <1>3 DEF AssertionsHold, ConvertAsserts, VtreeIn
<1>5. \A e \in elements : IsKnownElement(v, e)
  BY <1>2, <1>4 DEF IsKnownElement, AreTrueNodes
<1>6. IsFiniteSet(elements)
  <2>1. elements = SddElements(copy, k) /\ IsFiniteSet(DOMAIN copy)
    BY <1>2, <1>3
  <2>2. QED
    BY <2>1, ElementsAreFinite
<1>7. PICK es : es = SetToSeq(elements)
  OBVIOUS
<1>8. IsList(es) /\ \A i \in DOMAIN es : IsKnownElement(v, es[i])
  BY <1>5, <1>6, <1>7, SetToSeqIs
<1>9. \E i \in DOMAIN es : es[i].sub # SddFalse
  <2>1. PICK e \in elements : e.sub # SddFalse
    BY <1>4
  <2>2. \E i \in DOMAIN es : es[i] = e
    BY <1>6, <1>7, SetToSeqHas
  <2>3. QED
    BY <2>1, <2>2
<1>10. /\ IsForest(tree) /\ AreNodes(nodes[here]) /\ AreFitted(tree, nodes[here])
       /\ AtPlace(nodes[here], true_nodes_map)
  BY <1>1, <1>2, CallFits DEF FitInvariant, TrueNodesFit
<1>11. PICK st : st = ConvertElements(v, es)
  OBVIOUS
<1>12. FitState(tree, st) /\ AreFor(tree, st.nodes, v, st.elements) /\ DOMAIN st.elements # {}
  BY <1>2, <1>4, <1>8, <1>9, <1>10, <1>11, ConvertElementsFits
<1>13. IsState(st, f) /\ GrowsTo(nodes[here], st.nodes)
  BY <1>2, <1>3, <1>4, <1>8, <1>10, <1>11, ConvertElementsIs
<1>14. PICK made : made = WithElements(st, v, f)
  OBVIOUS
<1>15. FitState(t, made)
  <2>1. v \in DOMAIN t /\ ~IsLeaf(t, v) /\ FitState(t, st) /\ AreFor(t, st.nodes, v, st.elements)
    BY <1>3, <1>4, <1>12
  <2>2. QED
    BY <1>12, <1>13, <1>14, <2>1, WithElementsFits
<1>16. Follows(st, made, f)
  <2>1. AreElements(st.nodes, f, st.elements)
    BY <1>13 DEF IsState
  <2>2. IsList(st.elements) /\ \A i \in DOMAIN st.elements :
          /\ IsOfFlag(st.nodes, f, st.elements[i].prime) /\ IsOfFlag(st.nodes, f, st.elements[i].sub)
          /\ st.elements[i].prime \in DOMAIN st.nodes /\ st.elements[i].sub \in DOMAIN st.nodes
    BY <2>1, FlagHas DEF AreElements
  <2>3. made = GetUniqueNode(st, DecisionNode(v, st.elements, f))
    BY <1>14 DEF WithElements
  <2>4. QED
    BY <1>13, <2>2, <2>3, UniqueDecision
<1>17. Made(made) /\ true_nodes_map' = made.true_node_map /\ UNCHANGED clientVars
  BY <1>3, <1>7, <1>11, <1>14 DEF ConvertDecision
<1>18. IsState(made, f) /\ GrowsTo(nodes[here], made.nodes)
  BY <1>13, <1>16, GrowthIsTransitive DEF Follows
<1>19. AreFitted(tree, made.nodes) /\ AtPlace(made.nodes, true_nodes_map')
  BY <1>3, <1>15, <1>17 DEF FitState
<1>20. QED
  BY <1>1, <1>3, <1>17, <1>18, <1>19, ConvertingFits

LEMMA EndConvertFits ==
  ASSUME FlagInvariant, FitInvariant, AssertionsHold, EndConvert
  PROVE  FitInvariant'
<1>1. pass = "convert" /\ serialized_sdd_nodes = <<>>
  BY DEF EndConvert
<1>2. /\ Len(results) < Len(program) /\ AreTrueNodes(nodes[here], flag, node_map)
      /\ AreTrueNodes(nodes[here], flag, true_nodes_map) /\ target \in DOMAIN tree
  BY <1>1 DEF FlagInvariant, LocalsAre, ConvertIs, CallIs
<1>3. PICK t, f, v, ns, a, trues, begun :
        /\ t = tree /\ f = flag /\ v = target /\ ns = nodes[here] /\ a = node_map[root_node] /\ trues = true_nodes_map
        /\ begun = [Begun(nodes[here]) EXCEPT !.true_node_map = true_nodes_map]
  OBVIOUS
<1>4. root_node \in DOMAIN node_map /\ ns[a].vtree \in Under(t, v)
  BY <1>1, <1>3 DEF AssertionsHold, ConvertAsserts, VtreeIn
<1>5. IsOfFlag(ns, f, a) /\ AreTrueNodes(ns, f, trues) /\ v \in DOMAIN t
  BY <1>2, <1>3, <1>4 DEF AreTrueNodes
<1>6. IsForest(t) /\ AreNodes(ns) /\ AreFitted(t, ns) /\ AtPlace(ns, trues)
  BY <1>1, <1>2, <1>3, CallFits DEF FitInvariant, TrueNodesFit
<1>7. IsState(begun, f) /\ begun.nodes = ns
  BY <1>3, <1>5, <1>6, BegunWithTrueNodes
<1>8. FitState(t, begun)
  <2>1. begun = [Begun(ns) EXCEPT !.true_node_map = trues]
    BY <1>3
  <2>2. QED
    BY <1>6, <2>1, BegunWithFits
<1>9. a \in DOMAIN ns
  BY <1>5, FlagHas
<1>10. PICK st : st = NormalizePsddNode(t, begun, v, a, f)
  OBVIOUS
<1>11. AreFitted(t, st.nodes)
  BY <1>4, <1>5, <1>6, <1>7, <1>8, <1>9, <1>10, NormalizeFits DEF FitState
<1>12. Made(st) /\ pass' = "none" /\ AreFitted(tree, st.nodes)
  BY <1>3, <1>10, <1>11 DEF EndConvert, Returns
<1>13. QED
  BY <1>2, <1>12, MakingFits DEF FitInvariant

-----------------------------------------------------------------------------
LEMMA LoadNodeFits ==
  ASSUME FlagInvariant, FitInvariant, AssertionsHold, LoadNode
  PROVE  FitInvariant'
<1>1. pass = "load" /\ position > 0 /\ NodesFit
  BY DEF LoadNode, FitInvariant
<1>2. PICK st, n, m, c : /\ st = NodeOfSource(serialized_nodes[position]) /\ n = serialized_nodes[position]
                         /\ m = Source.manager /\ c = nodes[Source.manager][serialized_nodes[position]]
  OBVIOUS
<1>3. Made(st) /\ pass' # "convert"
  BY <1>1, <1>2 DEF LoadNode, NodeOfSource
<1>4. Len(results) < Len(program) /\ n \in DOMAIN nodes[m]
  <2>1. Len(results) < Len(program)
    BY <1>1, LoadingIs
  <2>2. n \in DOMAIN nodes[m]
    BY <1>1, <1>2, LoadingIs DEF StartsWith
  <2>3. QED
    BY <2>1, <2>2
<1>5. c.type \in {"literal", "top", "decision"} /\ (c.type = "decision" => IsList(c.elements))
  BY <1>1, <1>2, <1>4, LoadingIs DEF AreNodes, IsWhole, HasChildrenIn
<1>6. CASE c.type # "decision"
  <2>1. PICK x, v : x = VariableIn(m, n) /\ v = LeafOf(tree, x)
    OBVIOUS
  <2>2. IsKnown(x)
    BY <1>1, <1>2, <1>6, <2>1 DEF AssertionsHold, LoadAsserts
  <2>3. CASE c.type = "literal"
    <3>1. PICK e : e = LiteralNode(v, c.sign, flag)
      OBVIOUS
    <3>2. st = GetUniqueNode(Begun(nodes[here]), e)
      BY <1>2, <2>1, <2>3, <3>1 DEF NodeOfSource
    <3>3. \E sign : e = LiteralNode(v, sign, flag)
      BY <3>1
    <3>4. AreFitted(tree, st.nodes)
      BY <1>1, <1>4, <2>1, <2>2, <3>2, <3>3, LeafOfVariableFits
    <3>5. QED
      BY <1>1, <1>3, <1>4, <3>4, MakingFits
  <2>4. CASE c.type = "top"
    <3>1. PICK e : e = TopNode(v, c.true_parameter, c.false_parameter, flag)
      OBVIOUS
    <3>2. st = GetUniqueNode(Begun(nodes[here]), e)
      BY <1>2, <2>1, <2>4, <3>1 DEF NodeOfSource
    <3>3. \E positive, negative : e = TopNode(v, positive, negative, flag)
      BY <3>1
    <3>4. AreFitted(tree, st.nodes)
      BY <1>1, <1>4, <2>1, <2>2, <3>2, <3>3, LeafOfVariableFits
    <3>5. QED
      BY <1>1, <1>3, <1>4, <3>4, MakingFits
  <2>5. QED
    BY <1>5, <1>6, <2>3, <2>4
<1>7. CASE c.type = "decision"
  <2>1. PICK t, f, ns, more : t = tree /\ f = flag /\ ns = nodes[here] /\ more = LoadedElements(c)
    OBVIOUS
  <2>2. AreElements(ns, f, more) /\ CanConform(t, ns, more)
    BY <1>1, <1>2, <1>7, <2>1, ElementsToLoad
  <2>3. st = GetConformedPsddDecisionNode(t, ns, more, f)
    BY <1>2, <1>7, <2>1 DEF NodeOfSource
  <2>4. IsForest(t) /\ AreNodes(ns) /\ AreFitted(t, ns)
    BY <1>1, <1>4, <2>1, CallFits
  <2>5. AreFitted(tree, st.nodes)
    BY <2>1, <2>2, <2>3, <2>4, GetConformedFits
  <2>6. QED
    BY <1>1, <1>3, <1>4, <2>5, MakingFits
<1>8. QED
  BY <1>6, <1>7

LEMMA EndLoadFits ==
  ASSUME FlagInvariant, FitInvariant, AssertionsHold, EndLoad
  PROVE  FitInvariant'
<1>1. pass = "load" /\ position = 0 /\ NodesFit
  BY DEF EndLoad, FitInvariant
<1>2. PICK t, f, v, ns, a, begun :
        /\ t = tree /\ f = flag /\ v = call.target /\ ns = nodes[here] /\ a = Loaded(Source.node) /\ begun = Begun(nodes[here])
  OBVIOUS
<1>3. Len(results) < Len(program) /\ call.op = "LoadPsddNode"
  BY <1>1, LoadingIs
<1>4. IsForest(t) /\ v \in DOMAIN t
  <2>1. IsForest(tree) /\ IsCallOf(program, Len(results) + 1)
    BY <1>3, CallIsOf DEF FlagInvariant
  <2>2. QED
    BY <1>2, <1>3, <2>1 DEF IsCallOf, call, tree, here
<1>5. ns[a].vtree \in Under(t, v)
  BY <1>1, <1>2 DEF AssertionsHold, LoadAsserts, VtreeIn
<1>6. IsOfFlag(ns, f, a)
  <2>1. 1 \in 1..Len(serialized_nodes) /\ 1 > position /\ serialized_nodes[1] = Source.node
    BY <1>1, LoadingIs DEF StartsWith
  <2>2. <<Source.manager, Source.node>> \in DOMAIN user_data
    BY <1>1, <2>1, LoadingIs
  <2>3. AreTrueNodes(ns, f, user_data)
    BY <1>1, <1>2, LoadingIs
  <2>4. QED
    BY <1>2, <2>2, <2>3 DEF AreTrueNodes, Loaded
<1>7. a \in DOMAIN ns
  BY <1>6, FlagHas
<1>8. IsState(begun, f) /\ FitState(t, begun) /\ begun.nodes = ns
  BY <1>1, <1>2, <1>3, CallFits
<1>9. PICK st : st = NormalizePsddNode(t, begun, v, a, f)
  OBVIOUS
<1>10. AreFitted(t, st.nodes)
  BY <1>4, <1>5, <1>7, <1>8, <1>9, NormalizeFits DEF FitState
<1>11. Made(st) /\ pass' = "none" /\ AreFitted(tree, st.nodes)
  BY <1>2, <1>9, <1>10 DEF EndLoad, Returns
<1>12. QED
  BY <1>1, <1>3, <1>11, MakingFits

-----------------------------------------------------------------------------
\* The node of a product of leaves is for the leaf that the first of them is for.
LEMMA LeavesFit ==
  ASSUME FlagInvariant, FitInvariant, AssertionsHold, InMultiply, ~AreDecisions, NEW lr, lr = LeafResult
  PROVE  AreFitted(tree, lr.st.nodes)
<1>1. /\ AreNodes(nodes[here]) /\ IsFrame(nodes[here], flag, Top) /\ pass = "multiply" /\ Len(results) < Len(program)
      /\ AreCalls(nodes[here], flag, stack, returned, cache) /\ stack # <<>>
  BY MultiplyHas
<1>2. LeafCases(lr)
  BY LeavesAre
<1>3. First.type # "decision"
  BY <1>2 DEF LeafCases
<1>4. PICK t, f, ns, begun, v : t = tree /\ f = flag /\ ns = nodes[here] /\ begun = Begun(nodes[here]) /\ v = First.vtree
  OBVIOUS
<1>5. IsState(begun, f) /\ AreFitted(t, begun.nodes) /\ begun.nodes = ns /\ AreFitted(t, ns)
  BY <1>1, <1>4, CallFits DEF FitInvariant, FitState
<1>6. v \in DOMAIN t /\ IsLeaf(t, v)
  <2>1. PICK a : a = Top.first
    OBVIOUS
  <2>2. a \in DOMAIN ns /\ ns[a] = First
    BY <1>1, <1>4, <2>1 DEF IsFrame, First, Content
  <2>3. Fits(t, ns, ns[a])
    BY <1>5, <2>2 DEF AreFitted
  <2>4. QED
    BY <1>3, <1>4, <2>2, <2>3 DEF Fits
<1>7. ASSUME NEW sign, NEW value, lr = LiteralResult(sign, value)
      PROVE  AreFitted(t, lr.st.nodes)
  <2>1. PICK st : st = GetUniqueNode(begun, LiteralNode(v, sign, f))
    OBVIOUS
  <2>2. AreFitted(t, st.nodes)
    BY <1>5, <1>6, <2>1, UniqueLiteralFits
  <2>3. lr.st = st
    BY <1>4, <1>7, <2>1 DEF LiteralResult
  <2>4. QED
    BY <2>2, <2>3
<1>8. ASSUME lr = TopResult
       PROVE  AreFitted(t, lr.st.nodes)
  <2>1. PICK positive, negative :
          /\ positive = Times(First.true_parameter, Second.true_parameter)
          /\ negative = Times(First.false_parameter, Second.false_parameter)
    OBVIOUS
  <2>2. PICK yes, no : yes = Over(positive, Plus(positive, negative)) /\ no = Over(negative, Plus(positive, negative))
    OBVIOUS
  <2>3. PICK st : st = GetUniqueNode(begun, TopNode(v, yes, no, f))
    OBVIOUS
  <2>4. AreFitted(t, st.nodes)
    BY <1>5, <1>6, <2>3, UniqueTopFits
  <2>5. lr.st = st
    BY <1>4, <1>8, <2>1, <2>2, <2>3 DEF TopResult
  <2>6. QED
    BY <2>4, <2>5
<1>9. ASSUME lr = [st |-> Begun(nodes[here]), result |-> NullResult]
       PROVE  AreFitted(t, lr.st.nodes)
  BY <1>4, <1>5, <1>9
<1>10. QED
  BY <1>2, <1>4, <1>7, <1>8, <1>9 DEF LeafCases

LEMMA MultiplyLeavesFit ==
  ASSUME FlagInvariant, FitInvariant, AssertionsHold, MultiplyLeaves
  PROVE  FitInvariant'
<1>1. PICK lr, st : lr = LeafResult /\ st = LeafResult.st
  OBVIOUS
<1>2. InMultiply /\ ~AreDecisions /\ Made(st)
  BY <1>1 DEF MultiplyLeaves
<1>3. Len(results) < Len(program) /\ pass' # "convert"
  <2>1. Len(results) < Len(program) /\ pass = "multiply"
    BY <1>2, MultiplyHas
  <2>2. QED
    BY <1>2, <2>1 DEF InMultiply
<1>4. AreFitted(tree, st.nodes)
  BY <1>1, <1>2, LeavesFit
<1>5. QED
  BY <1>2, <1>3, <1>4, MakingFits DEF FitInvariant

LEMMA EndPairsFits ==
  ASSUME FlagInvariant, FitInvariant, AssertionsHold, EndPairs
  PROVE  FitInvariant'
<1>1. InMultiply /\ InPairs /\ ~MorePairs /\ NodesFit
  BY DEF EndPairs, FitInvariant
<1>2. /\ IsFrame(nodes[here], flag, Top) /\ pass = "multiply" /\ stack # <<>>
      /\ Len(results) < Len(program)
  BY <1>1, MultiplyHas
<1>3. pass' # "convert"
  BY <1>1, <1>2 DEF InMultiply
<1>4. CASE nodes' = nodes
  BY <1>1, <1>3, <1>4, QuietFits
<1>5. CASE nodes' # nodes
  <2>1. PICK ns, f, t, fr : ns = nodes[here] /\ f = flag /\ t = tree /\ fr = Top
    OBVIOUS
  <2>2. PICK es, w : es = fr.elements /\ w = fr.partition
    OBVIOUS
  <2>3. PICK more : more = Divided(es, w)
    OBVIOUS
  <2>4. PICK st : st = GetConformedPsddDecisionNode(t, ns, more, f)
    OBVIOUS
  <2>5. more = [i \in DOMAIN Top.elements |-> [Top.elements[i] EXCEPT !.parameter = Over(@, Top.partition)]]
    BY <2>1, <2>2, <2>3 DEF Divided
  <2>6. Top.elements # <<>> /\ Made(st)
    BY <1>5, <2>1, <2>4, <2>5 DEF EndPairs
  <2>7. CanConform(t, ns, es)
    BY <1>1, <1>2, <2>1, <2>2, <2>6 DEF AssertionsHold, MultiplyAsserts
  <2>8. AreElements(ns, f, es)
    BY <1>2, <2>1, <2>2 DEF IsFrame
  <2>9. AreElements(ns, f, more) /\ CanConform(t, ns, more)
    BY <2>3, <2>7, <2>8, DividedAre
  <2>10. IsForest(t) /\ AreNodes(ns) /\ AreFitted(t, ns)
    BY <1>1, <1>2, <2>1, CallFits
  <2>11. AreFitted(t, st.nodes)
    BY <2>4, <2>9, <2>10, GetConformedFits
  <2>12. AreFitted(tree, st.nodes)
    BY <2>1, <2>11
  <2>13. QED
    BY <1>1, <1>2, <1>3, <2>6, <2>12, MakingFits
<1>6. QED
  BY <1>4, <1>5

\* The steps that make no nodes.
LEMMA QuietStepsFit ==
  ASSUME FitInvariant,
         \/ BeginRead \/ EndRead \/ BeginLoad \/ BeginLogic \/ NodeLogic \/ EndLogic \/ BeginMultiply \/ Lookup
         \/ BeginPairs \/ MultiplyPrimes \/ PairIsEmpty \/ MultiplySubs \/ PushElement \/ EndMultiply
  PROVE  FitInvariant'
<1>1. NodesFit
  BY DEF FitInvariant
<1>2. CASE BeginRead \/ EndRead \/ BeginLoad \/ BeginLogic \/ NodeLogic \/ EndLogic \/ BeginMultiply \/ EndMultiply
  <2>1. nodes' = nodes /\ pass' # "convert"
    BY <1>2 DEF BeginRead, EndRead, BeginLoad, BeginLogic, NodeLogic, EndLogic, BeginMultiply, EndMultiply, Returns
  <2>2. QED
    BY <1>1, <2>1, QuietFits
<1>3. CASE Lookup \/ BeginPairs \/ MultiplyPrimes \/ PairIsEmpty \/ MultiplySubs \/ PushElement
  <2>1. nodes' = nodes /\ InMultiply
    BY <1>3 DEF Lookup, BeginPairs, MultiplyPrimes, PairIsEmpty, MultiplySubs, PushElement
  <2>2. pass' # "convert"
    BY <2>1 DEF InMultiply
  <2>3. QED
    BY <1>1, <2>1, <2>2, QuietFits
<1>4. QED
  BY <1>2, <1>3

LEMMA StutterFits ==
  ASSUME FitInvariant, UNCHANGED vars
  PROVE  FitInvariant'
<1>1. program' = program /\ results' = results /\ nodes' = nodes /\ pass' = pass /\ true_nodes_map' = true_nodes_map
  BY DEF vars, clientVars, localVars, sddVars
<1>2. here' = here
  BY <1>1 DEF call, here
<1>3. QED
  BY <1>1, <1>2 DEF FitInvariant, NodesFit, TrueNodesFit

-----------------------------------------------------------------------------
LEMMA StepFits ==
  ASSUME FlagInvariant, FitInvariant, AssertionsHold, [Next]_vars
  PROVE  FitInvariant'
<1>1. CASE TrueNode
  BY <1>1, TrueNodeFitsAll
<1>2. CASE Normalize
  BY <1>2, NormalizeFitsAll
<1>3. CASE ReadLine
  BY <1>3, ReadLineFits
<1>4. CASE ConvertSddToPsdd
  BY <1>4, ConvertSddFits
<1>5. CASE FromSdd
  BY <1>5, FromSddFits
<1>6. CASE Compile
  BY <1>6, CompileFits
<1>7. CASE ConvertLiteral
  BY <1>7, ConvertLiteralFits
<1>8. CASE ConvertDecision
  BY <1>8, ConvertDecisionFits
<1>9. CASE EndConvert
  BY <1>9, EndConvertFits
<1>10. CASE LoadNode
  BY <1>10, LoadNodeFits
<1>11. CASE EndLoad
  BY <1>11, EndLoadFits
<1>12. CASE MultiplyLeaves
  BY <1>12, MultiplyLeavesFit
<1>13. CASE EndPairs
  BY <1>13, EndPairsFits
<1>14. CASE \/ BeginRead \/ EndRead \/ BeginLoad \/ BeginLogic \/ NodeLogic \/ EndLogic \/ BeginMultiply \/ Lookup
            \/ BeginPairs \/ MultiplyPrimes \/ PairIsEmpty \/ MultiplySubs \/ PushElement \/ EndMultiply
  BY <1>14, QuietStepsFit
<1>15. CASE Ended \/ UNCHANGED vars
  BY <1>15, StutterFits DEF Ended
<1>16. QED
  BY <1>1, <1>2, <1>3, <1>4, <1>5, <1>6, <1>7, <1>8, <1>9, <1>10, <1>11, <1>12, <1>13, <1>14, <1>15 DEF Next

LEMMA InitFits ==
  ASSUME ManagerInit
  PROVE  FitInvariant
<1>1. nodes = [g \in DOMAIN Vtree |-> <<>>] /\ pass = "none"
  BY DEF ManagerInit
<1>2. DOMAIN <<>> = {}
  OBVIOUS
<1>3. \A g \in DOMAIN Vtree : nodes[g] = <<>>
  BY <1>1
<1>4. \A t : AreFitted(t, <<>>)
  BY <1>2 DEF AreFitted
<1>5. QED
  BY <1>1, <1>3, <1>4 DEF FitInvariant, NodesFit, TrueNodesFit

LEMMA NormalizedFollows ==
  ASSUME FlagInvariant, FitInvariant
  PROVE  NodesAreNormalized
<1> SUFFICES ASSUME NEW g \in DOMAIN Vtree, NEW a \in DOMAIN nodes[g]
             PROVE  IsNormalizedIn(g, a)
  BY DEF NodesAreNormalized
<1>1. PICK t, ns, c : t = Vtree[g] /\ ns = nodes[g] /\ c = nodes[g][a]
  OBVIOUS
<1>2. Fits(t, ns, c) /\ IsAfterChildren(ns, a)
  BY <1>1 DEF FitInvariant, NodesFit, AreFitted
<1>3. c.vtree \in DOMAIN t /\ (c.type # "decision" => IsLeaf(t, c.vtree))
  BY <1>2 DEF Fits
<1>4. ASSUME c.type = "decision"
      PROVE  /\ ~IsLeaf(t, c.vtree) /\ c.elements # <<>>
             /\ \A i \in DOMAIN c.elements :
                  LET e == c.elements[i] IN
                  /\ e.prime \in 1..a - 1 /\ VtreeIn(g, e.prime) = t[c.vtree].left
                  /\ e.sub \in 1..a - 1 /\ VtreeIn(g, e.sub) = t[c.vtree].right
  <2>1. ~IsLeaf(t, c.vtree) /\ DOMAIN c.elements # {} /\ AreFor(t, ns, c.vtree, c.elements)
    BY <1>2, <1>4 DEF Fits
  <2>2. DOMAIN <<>> = {}
    OBVIOUS
  <2>3. c.elements # <<>>
    BY <2>1, <2>2
  <2>4. \A i \in DOMAIN c.elements : c.elements[i].prime \in 1..a - 1 /\ c.elements[i].sub \in 1..a - 1
    BY <1>1, <1>2, <1>4 DEF IsAfterChildren
  <2>5. \A i \in DOMAIN c.elements : /\ VtreeIn(g, c.elements[i].prime) = t[c.vtree].left
                                     /\ VtreeIn(g, c.elements[i].sub) = t[c.vtree].right
    BY <1>1, <2>1 DEF AreFor, IsFor, VtreeIn
  <2>6. QED
    BY <2>1, <2>3, <2>4, <2>5
<1>5. QED
  BY <1>1, <1>3, <1>4 DEF IsNormalizedIn

\* In a run in which the assertions of the code hold, what a state has beside FlagInvariant: each
\* node fits the vtree, and the true nodes that a conversion has made are for the vtree nodes that
\* true_nodes_map has them under.
THEOREM FitInvariantHolds == Spec /\ []AssertionsHold => []FitInvariant
<1>1. ManagerInit => FitInvariant
  BY InitFits
<1>2. FlagInvariant /\ FitInvariant /\ AssertionsHold /\ [Next]_vars => FitInvariant'
  BY StepFits
<1>3. QED
  BY <1>1, <1>2, FlagInvariantHolds, PTL DEF Spec

\* In a run in which the assertions of the code hold, every node that any operation of the manager
\* makes is what the passes over PSDDs take for granted: a literal and a true node are for a leaf, a
\* decision node has elements, and its primes and subs are made before it, for the two children of
\* its vtree node (NormalizePsddNode, GetTrueNode and GetConformedPsddDecisionNode lift a node up
\* the vtree, one parent at a time, until it is for the child asked for).
THEOREM NodesAreKeptNormalized == Spec /\ []AssertionsHold => []NodesAreNormalized
<1>1. FlagInvariant /\ FitInvariant => NodesAreNormalized
  BY NormalizedFollows
<1>2. QED
  BY <1>1, FlagInvariantHolds, FitInvariantHolds, PTL

-----------------------------------------------------------------------------
(***************************************************************************)
(* The models of a node: what IsModelIn says of the nodes of one manager.  *)
(***************************************************************************)
TruthAt(t, ns, x, m, a) ==
  LET c == ns[a] IN
  CASE c.type = "literal" -> c.sign = (t[ns[a].vtree].variable \in x)
    [] c.type = "top" -> TRUE
    [] c.type = "decision" -> \E i \in DOMAIN c.elements : m[c.elements[i].prime] /\ m[c.elements[i].sub]
Truth(t, ns, x) == LET model[a \in DOMAIN ns] == TruthAt(t, ns, x, model, a) IN model
HasModel(t, ns, a, x) == a # NullNode /\ Truth(t, ns, x)[a]

\* It depends on the children only.
LEMMA TruthOfChildren ==
  ASSUME NEW t, NEW ns, NEW x, NEW a, ns[a].type \in {"literal", "top", "decision"}, IsAfterChildren(ns, a),
         NEW m, NEW o, \A b \in 1..a - 1 : m[b] = o[b]
  PROVE  TruthAt(t, ns, x, m, a) = TruthAt(t, ns, x, o, a)
<1>1. PICK c : c = ns[a]
  OBVIOUS
<1>2. CASE c.type = "literal"
  BY <1>1, <1>2, Zenon DEF TruthAt
<1>3. CASE c.type = "top"
  <2>1. c.type # "literal"
    BY <1>3
  <2>2. QED
    BY <1>1, <1>3, <2>1 DEF TruthAt
<1>4. CASE c.type = "decision"
  <2>1. \A i \in DOMAIN c.elements : c.elements[i].prime \in 1..a - 1 /\ c.elements[i].sub \in 1..a - 1
    BY <1>1, <1>4 DEF IsAfterChildren
  <2>2. \A i \in DOMAIN c.elements : m[c.elements[i].prime] = o[c.elements[i].prime] /\ m[c.elements[i].sub] = o[c.elements[i].sub]
    BY <2>1
  <2>3. (\E i \in DOMAIN c.elements : m[c.elements[i].prime] /\ m[c.elements[i].sub]) =
        (\E i \in DOMAIN c.elements : o[c.elements[i].prime] /\ o[c.elements[i].sub])
    BY <2>2, Zenon
  <2>4. c.type # "literal" /\ c.type # "top"
    BY <1>4
  <2>5. \A p : TruthAt(t, ns, x, p, a) = (\E i \in DOMAIN c.elements : p[c.elements[i].prime] /\ p[c.elements[i].sub])
    BY <1>1, <1>4, <2>4 DEF TruthAt
  <2>6. QED
    BY <2>3, <2>5, Zenon
<1>5. QED
  BY <1>1, <1>2, <1>3, <1>4

LEMMA TruthIs ==
  ASSUME NEW t, NEW ns, AreNodes(ns), \A a \in DOMAIN ns : IsAfterChildren(ns, a), NEW x
  PROVE  \A a \in DOMAIN ns : Truth(t, ns, x)[a] = TruthAt(t, ns, x, Truth(t, ns, x), a)
<1>1. PICK n \in Nat : n = Len(ns) /\ DOMAIN ns = 1..n
  BY ListIs DEF AreNodes
<1> DEFINE At(m, a) == TruthAt(t, ns, x, m, a)
           RunsTo(m, k) == m = [a \in 1..n |-> m[a]] /\ \A a \in 1..k : m[a] = At(m, a)
           S == {k \in 0..n : \E m : RunsTo(m, k)}
<1>2. \A a \in 1..n : \A m, o : (\A b \in 1..a - 1 : m[b] = o[b]) => At(m, a) = At(o, a)
  BY <1>1, TruthOfChildren DEF AreNodes
<1> HIDE DEF At
<1>3. 0 \in S
  <2> DEFINE m == [a \in 1..n |-> TRUE]
  <2>1. RunsTo(m, 0)
    OBVIOUS
  <2> HIDE DEF m, RunsTo
  <2>2. QED
    BY <2>1
<1>4. ASSUME NEW k \in 1..n, k - 1 \in S
      PROVE  k \in S
  <2>1. PICK m : RunsTo(m, k - 1)
    BY <1>4
  <2> DEFINE more == [a \in 1..n |-> IF a = k THEN At(m, k) ELSE m[a]]
  <2>2. more = [a \in 1..n |-> more[a]]
    OBVIOUS
  <2>3. ASSUME NEW a \in 1..k
        PROVE  more[a] = At(more, a)
    <3>1. a \in 1..n /\ \A b \in 1..a - 1 : b \in 1..n /\ b # k
      BY <1>4
    <3>2. \A b \in 1..a - 1 : more[b] = m[b]
      BY <3>1
    <3>3. At(more, a) = At(m, a)
      BY <1>2, <3>1, <3>2
    <3>4. CASE a = k
      BY <3>1, <3>3, <3>4
    <3>5. CASE a # k
      <4>1. a \in 1..k - 1
        BY <1>4, <3>5
      <4>2. m[a] = At(m, a)
        BY <2>1, <4>1
      <4>3. more[a] = m[a]
        BY <3>1, <3>5
      <4>4. QED
        BY <3>3, <4>2, <4>3
    <3>6. QED
      BY <3>4, <3>5
  <2> HIDE DEF more
  <2>4. RunsTo(more, k)
    BY <2>2, <2>3
  <2> HIDE DEF RunsTo
  <2>5. QED
    BY <1>4, <2>4
<1>5. PICK m : RunsTo(m, n)
  <2>1. S \subseteq 0..n /\ \A k \in 1..n : k - 1 \in S => k \in S
    BY <1>4
  <2> HIDE DEF S
  <2>2. 0..n \subseteq S
    BY <1>3, <2>1, AllSteps
  <2>3. n \in S
    BY <2>2
  <2> HIDE DEF RunsTo
  <2>4. QED
    BY <2>3 DEF S
<1> DEFINE F(o) == [a \in 1..n |-> At(o, a)]
<1>6. m = F(m)
  BY <1>5
<1>7. \E o : o = F(o)
  BY <1>6
<1> DEFINE model == CHOOSE o : o = F(o)
<1>8. model = F(model)
  BY <1>7, Zenon
<1>9. Truth(t, ns, x) = model
  BY <1>1, Zenon DEF Truth, At
<1> HIDE DEF model
<1>10. \A a \in 1..n : model[a] = At(model, a)
  BY <1>8
<1>11. QED
  BY <1>1, <1>9, <1>10 DEF At

\* The models of a literal, a true node and a decision node.
LEMMA LiteralModels ==
  ASSUME NEW t, NEW ns, AreNodes(ns), AreFitted(t, ns), NEW x, NEW a \in DOMAIN ns, ns[a].type = "literal"
  PROVE  HasModel(t, ns, a, x) <=> (ns[a].sign = (t[ns[a].vtree].variable \in x))
<1>1. PICK m : m = Truth(t, ns, x)
  OBVIOUS
<1>2. m[a] = TruthAt(t, ns, x, m, a)
  BY <1>1, TruthIs DEF AreFitted
<1>3. TruthAt(t, ns, x, m, a) = (ns[a].sign = (t[ns[a].vtree].variable \in x))
  BY Zenon DEF TruthAt
<1>4. a # NullNode
  BY ListIs DEF AreNodes, NullNode
<1>5. QED
  BY <1>1, <1>2, <1>3, <1>4, Zenon DEF HasModel

LEMMA TopModels ==
  ASSUME NEW t, NEW ns, AreNodes(ns), AreFitted(t, ns), NEW x, NEW a \in DOMAIN ns, ns[a].type = "top"
  PROVE  HasModel(t, ns, a, x)
<1>1. PICK m : m = Truth(t, ns, x)
  OBVIOUS
<1>2. m[a] = TruthAt(t, ns, x, m, a)
  BY <1>1, TruthIs DEF AreFitted
<1>3. ns[a].type # "literal"
  OBVIOUS
<1>4. TruthAt(t, ns, x, m, a) = TRUE
  BY <1>3 DEF TruthAt
<1>5. a # NullNode
  BY ListIs DEF AreNodes, NullNode
<1>6. QED
  BY <1>1, <1>2, <1>4, <1>5, Zenon DEF HasModel

\* Some element has the model.
SomeHas(t, ns, es, x) == \E i \in DOMAIN es : HasModel(t, ns, es[i].prime, x) /\ HasModel(t, ns, es[i].sub, x)

LEMMA DecisionModels ==
  ASSUME NEW t, NEW ns, AreNodes(ns), AreFitted(t, ns), NEW x, NEW a \in DOMAIN ns, ns[a].type = "decision"
  PROVE  HasModel(t, ns, a, x) <=> SomeHas(t, ns, ns[a].elements, x)
<1>1. PICK m, es : m = Truth(t, ns, x) /\ es = ns[a].elements
  OBVIOUS
<1>2. m[a] = TruthAt(t, ns, x, m, a)
  BY <1>1, TruthIs DEF AreFitted
<1>3. ns[a].type # "literal" /\ ns[a].type # "top"
  OBVIOUS
<1>4. TruthAt(t, ns, x, m, a) = (\E i \in DOMAIN es : m[es[i].prime] /\ m[es[i].sub])
  BY <1>1, <1>3 DEF TruthAt
<1>5. \A b \in DOMAIN ns : b # NullNode
  BY ListIs DEF AreNodes, NullNode
<1>6. \A i \in DOMAIN es : es[i].prime \in DOMAIN ns /\ es[i].sub \in DOMAIN ns
  BY <1>1 DEF AreNodes, IsWhole, HasChildrenIn
<1>7. \A i \in DOMAIN es : /\ HasModel(t, ns, es[i].prime, x) <=> m[es[i].prime]
                           /\ HasModel(t, ns, es[i].sub, x) <=> m[es[i].sub]
  BY <1>1, <1>5, <1>6, Zenon DEF HasModel
<1>8. SomeHas(t, ns, es, x) <=> (\E i \in DOMAIN es : m[es[i].prime] /\ m[es[i].sub])
  BY <1>7, Zenon DEF SomeHas
<1>9. a # NullNode
  BY <1>5
<1>10. HasModel(t, ns, a, x) <=> m[a]
  BY <1>1, <1>9, Zenon DEF HasModel
<1>11. QED
  BY <1>1, <1>2, <1>4, <1>8, <1>10, Zenon

\* A node keeps its models when the manager has more nodes.
LEMMA ModelsStay ==
  ASSUME NEW t, NEW ns, AreNodes(ns), AreFitted(t, ns), NEW more, AreNodes(more), AreFitted(t, more), GrowsTo(ns, more),
         NEW a \in DOMAIN ns, NEW x
  PROVE  HasModel(t, more, a, x) <=> HasModel(t, ns, a, x)
<1> DEFINE Same(b) == HasModel(t, more, b, x) <=> HasModel(t, ns, b, x)
           T == {b \in DOMAIN ns : ~Same(b)}
<1>1. SUFFICES ASSUME T # {} PROVE FALSE
  BY Zenon
<1>2. DOMAIN ns \subseteq Nat
  BY ListIs DEF AreNodes
<1>3. PICK b \in T : \A c \in T : b <= c
  <2>1. T \in SUBSET Nat
    BY <1>2
  <2> HIDE DEF T
  <2>2. QED
    BY <1>1, <2>1, LeastOf
<1>4. b \in DOMAIN ns /\ b \in DOMAIN more /\ more[b] = ns[b] /\ ~Same(b) /\ b \in Nat
  BY <1>2 DEF GrowsTo
<1>5. \A c \in DOMAIN ns : c < b => Same(c)
  <2> SUFFICES ASSUME NEW c \in DOMAIN ns, c < b, ~Same(c) PROVE FALSE
    OBVIOUS
  <2>1. c \in T
    BY Zenon
  <2>2. b <= c /\ c \in Nat
    BY <1>2, <1>3, <2>1
  <2>3. QED
    BY <1>4, <2>2
<1>6. ns[b].type \in {"literal", "top", "decision"}
  BY <1>4 DEF AreNodes
<1> HIDE DEF Same, T
<1>7. CASE ns[b].type = "literal"
  BY <1>4, <1>7, LiteralModels DEF Same
<1>8. CASE ns[b].type = "top"
  BY <1>4, <1>8, TopModels DEF Same
<1>9. CASE ns[b].type = "decision"
  <2>1. PICK es : es = ns[b].elements
    OBVIOUS
  <2>2. \A i \in DOMAIN es : es[i].prime \in DOMAIN ns /\ es[i].sub \in DOMAIN ns
    BY <1>4, <1>9, <2>1 DEF AreNodes, IsWhole, HasChildrenIn
  <2>3. \A i \in DOMAIN es : es[i].prime \in 1..b - 1 /\ es[i].sub \in 1..b - 1
    BY <1>4, <1>9, <2>1 DEF AreFitted, IsAfterChildren
  <2>4. \A i \in DOMAIN es : es[i].prime < b /\ es[i].sub < b
    BY <1>4, <2>3
  <2>5. \A i \in DOMAIN es : Same(es[i].prime) /\ Same(es[i].sub)
    BY <1>5, <2>2, <2>4
  <2>6. SomeHas(t, more, es, x) <=> SomeHas(t, ns, es, x)
    BY <2>5, Zenon DEF SomeHas, Same
  <2>7. HasModel(t, ns, b, x) <=> SomeHas(t, ns, es, x)
    BY <1>4, <1>9, <2>1, DecisionModels
  <2>8. HasModel(t, more, b, x) <=> SomeHas(t, more, es, x)
    BY <1>4, <1>9, <2>1, DecisionModels
  <2>9. QED
    BY <1>4, <2>6, <2>7, <2>8 DEF Same
<1>10. QED
  BY <1>6, <1>7, <1>8, <1>9

\* The nodes under a node are closed under children.
LEMMA UnderIsClosed ==
  ASSUME NEW t, IsForest(t), NEW v \in DOMAIN t, NEW w \in Under(t, v), NEW c \in ChildrenOf(t, w)
  PROVE  c \in Under(t, v)
<1> DEFINE list == SerializeVtree(t, v)
<1>1. IsSerialization(t, v, list)
  BY SerializeVtreeIs
<1> HIDE DEF list
<1>2. /\ list \in Seq(DOMAIN t)
      /\ \A j \in 1..Len(list) : \A d \in ChildrenOf(t, list[j]) : \E k \in 1..Len(list) : k > j /\ list[k] = d
  BY <1>1 DEF IsSerialization
<1>3. \A u : u \in Range(list) <=> \E k \in 1..Len(list) : u = list[k]
  BY <1>2, ListRange
<1>4. Under(t, v) = Range(list)
  BY DEF Under, list
<1>5. PICK j \in 1..Len(list) : w = list[j]
  BY <1>3, <1>4
<1>6. PICK k \in 1..Len(list) : list[k] = c
  BY <1>2, <1>5
<1>7. QED
  BY <1>3, <1>4, <1>6

\* No node is above itself.
LEMMA NotUnderChild ==
  ASSUME NEW t, IsForest(t), NEW v \in DOMAIN t, NEW c \in ChildrenOf(t, v)
  PROVE  v \notin Under(t, c)
<1> SUFFICES ASSUME v \in Under(t, c) PROVE FALSE
  OBVIOUS
<1>1. c \in DOMAIN t
  BY DEF IsForest
<1>2. c \in Under(t, c) /\ Under(t, c) \subseteq DOMAIN t
      /\ \A w \in Under(t, c) : w = c \/ \E u \in Under(t, c) : w \in ChildrenOf(t, u)
  BY <1>1, UnderIs
<1>3. Under(t, c) \in (SUBSET DOMAIN t) \ {{}}
  BY <1>2
<1>4. PICK w \in Under(t, c) : \A u \in Under(t, c) : w \notin ChildrenOf(t, u)
  BY <1>3 DEF IsForest, IsAcyclic
<1>5. w = c
  BY <1>2, <1>4
<1>6. QED
  BY <1>4, <1>5

\* A node has one parent.
LEMMA OneParent ==
  ASSUME NEW t, IsForest(t), NEW v \in DOMAIN t, NEW w \in DOMAIN t, NEW c, c \in ChildrenOf(t, v), c \in ChildrenOf(t, w)
  PROVE  v = w
BY DEF IsForest

LEMMA InnerNode ==
  ASSUME NEW t, IsForest(t), NEW v \in DOMAIN t, ~IsLeaf(t, v)
  PROVE  /\ ChildrenOf(t, v) = {t[v].left, t[v].right} /\ t[v].left # t[v].right
         /\ t[v].left \in DOMAIN t /\ t[v].right \in DOMAIN t
BY DEF IsForest, ChildrenOf

\* A child of v that is under another child of v is under none: the two parts are disjoint.
LEMMA NotUnderSibling ==
  ASSUME NEW t, IsForest(t), NEW v \in DOMAIN t, NEW c \in ChildrenOf(t, v), NEW d \in ChildrenOf(t, v), c # d
  PROVE  c \notin Under(t, d)
<1> SUFFICES ASSUME c \in Under(t, d) PROVE FALSE
  OBVIOUS
<1>1. d \in DOMAIN t
  BY DEF IsForest
<1>2. PICK u \in Under(t, d) : c \in ChildrenOf(t, u)
  BY <1>1, UnderIs
<1>3. u \in DOMAIN t
  BY <1>1, UnderIs
<1>4. u = v
  BY <1>2, <1>3, OneParent
<1>5. QED
  BY <1>2, <1>4, NotUnderChild

LEMMA PartsAreDisjoint ==
  ASSUME NEW t, IsForest(t), NEW v \in DOMAIN t, ~IsLeaf(t, v)
  PROVE  Under(t, t[v].left) \cap Under(t, t[v].right) = {}
<1>1. PICK l, r : l = t[v].left /\ r = t[v].right
  OBVIOUS
<1>2. l \in ChildrenOf(t, v) /\ r \in ChildrenOf(t, v) /\ l # r /\ l \in DOMAIN t /\ r \in DOMAIN t
  BY <1>1, InnerNode
<1>3. l \notin Under(t, r) /\ r \notin Under(t, l)
  BY <1>2, NotUnderSibling
<1> DEFINE T == Under(t, l) \cap Under(t, r)
<1>4. SUFFICES ASSUME T # {} PROVE FALSE
  BY <1>1
<1>5. T \in (SUBSET DOMAIN t) \ {{}}
  BY <1>2, <1>4, UnderIs
<1>6. PICK u \in T : \A w \in T : u \notin ChildrenOf(t, w)
  BY <1>5 DEF IsForest, IsAcyclic
<1>7. u # l /\ u # r /\ u \in Under(t, l) /\ u \in Under(t, r)
  BY <1>3, <1>6
<1>8. PICK p \in Under(t, l) : u \in ChildrenOf(t, p)
  BY <1>2, <1>7, UnderIs
<1>9. PICK q \in Under(t, r) : u \in ChildrenOf(t, q)
  BY <1>2, <1>7, UnderIs
<1>10. p \in DOMAIN t /\ q \in DOMAIN t
  BY <1>2, UnderIs
<1>11. p = q
  BY <1>8, <1>9, <1>10, OneParent
<1>12. QED
  BY <1>6, <1>8, <1>9, <1>11

\* The vtree node whose children have those of another under them is that one.
LEMMA SameNode ==
  ASSUME NEW t, IsForest(t), NEW v \in DOMAIN t, ~IsLeaf(t, v), NEW w \in DOMAIN t, ~IsLeaf(t, w),
         t[w].left \in Under(t, t[v].left), t[w].right \in Under(t, t[v].right)
  PROVE  v = w
<1>1. PICK l, r : l = t[v].left /\ r = t[v].right
  OBVIOUS
<1>2. PICK a, b : a = t[w].left /\ b = t[w].right
  OBVIOUS
<1>3. l \in ChildrenOf(t, v) /\ r \in ChildrenOf(t, v) /\ l \in DOMAIN t /\ r \in DOMAIN t
  BY <1>1, InnerNode
<1>4. a \in ChildrenOf(t, w) /\ b \in ChildrenOf(t, w)
  BY <1>2, InnerNode
<1>5. a \in Under(t, l) /\ b \in Under(t, r) /\ Under(t, l) \subseteq DOMAIN t /\ Under(t, r) \subseteq DOMAIN t
  BY <1>1, <1>2, <1>3, UnderIs
<1>6. CASE a = l
  BY <1>3, <1>4, <1>6, OneParent
<1>7. CASE b = r
  BY <1>3, <1>4, <1>7, OneParent
<1>8. CASE a # l /\ b # r
  <2>1. PICK p \in Under(t, l) : a \in ChildrenOf(t, p)
    BY <1>3, <1>5, <1>8, UnderIs
  <2>2. PICK q \in Under(t, r) : b \in ChildrenOf(t, q)
    BY <1>3, <1>5, <1>8, UnderIs
  <2>3. p = w /\ q = w
    BY <1>4, <1>5, <2>1, <2>2, OneParent
  <2>4. Under(t, l) \cap Under(t, r) = {}
    BY <1>1, PartsAreDisjoint
  <2>5. QED
    BY <2>1, <2>2, <2>3, <2>4
<1>9. QED
  BY <1>6, <1>7, <1>8

-----------------------------------------------------------------------------
\* A node that is for the goal is normalised already.
LEMMA NormalizeInPlace ==
  ASSUME NEW t, IsForest(t), NEW goal, NEW st, NEW f, IsState(st, f), NEW node, st.nodes[node].vtree = goal,
         NEW after, after = NormalizePsddNode(t, st, goal, node, f)
  PROVE  after = [st EXCEPT !.node = node]
<1>1. PICK n \in Nat : n = Cardinality(DOMAIN t)
  BY FS_CardinalityType DEF IsForest
<1>2. PICK g : NormalizeRun(t, st, goal, node, f, g, n)
  BY <1>1, NormalizeUnfolds
<1>3. PICK x : x = [st EXCEPT !.node = node]
  OBVIOUS
<1>4. x.nodes = st.nodes /\ x.node = node
  BY <1>3 DEF IsState
<1>5. LiftTo(t, x, goal, f) = x
  BY <1>4 DEF LiftTo
<1>6. /\ \A i \in 0..n : g[i] = IF i = 0 THEN x ELSE LiftTo(t, g[i - 1], goal, f)
      /\ after = g[n]
  BY <1>2, <1>3 DEF NormalizeRun
<1> DEFINE S == {i \in 0..n : g[i] = x}
<1>7. 0 \in S
  BY <1>6
<1>8. ASSUME NEW i \in 1..n, i - 1 \in S
      PROVE  i \in S
  <2>1. g[i - 1] = x /\ i \in 0..n /\ i # 0
    BY <1>8
  <2>2. g[i] = LiftTo(t, x, goal, f)
    BY <1>6, <2>1
  <2>3. QED
    BY <1>5, <2>1, <2>2
<1>9. n \in S
  <2>1. S \subseteq 0..n /\ \A i \in 1..n : i - 1 \in S => i \in S
    BY <1>8
  <2> HIDE DEF S
  <2>2. 0..n \subseteq S
    BY <1>7, <2>1, AllSteps
  <2>3. QED
    BY <2>2
<1>10. QED
  BY <1>3, <1>6, <1>9

\* Elements that have the nodes of others, in the same order.
SameElements(es, ds) ==
  DOMAIN es = DOMAIN ds /\ \A i \in DOMAIN ds : es[i].prime = ds[i].prime /\ es[i].sub = ds[i].sub

\* What ConformAll has done up to an element, if all are for the children already.
ConformedTo(ns, f, es, st, i) ==
  /\ IsState(st, f) /\ st.nodes = ns /\ IsList(st.elements) /\ Len(st.elements) = i
  /\ \A j \in 1..i : st.elements[j].prime = es[j].prime /\ st.elements[j].sub = es[j].sub

LEMMA ConformInPlace ==
  ASSUME NEW t, IsForest(t), NEW v \in DOMAIN t, ~IsLeaf(t, v), NEW ns, NEW f, NEW es, NEW i \in Nat, NEW st,
         ConformedTo(ns, f, es, st, i), NEW e, e = es[i + 1],
         IsFor(ns, e.prime, t[v].left), IsFor(ns, e.sub, t[v].right), IsOfFlag(ns, f, e.prime), IsOfFlag(ns, f, e.sub),
         NEW after, after = Conform(t, st, v, e, f)
  PROVE  ConformedTo(ns, f, es, after, i + 1)
<1>1. /\ IsState(st, f) /\ st.nodes = ns
      /\ st = [nodes |-> st.nodes, node |-> st.node, true_node_map |-> st.true_node_map, elements |-> st.elements]
  BY DEF ConformedTo, IsState
<1>2. PICK p : p = NormalizePsddNode(t, st, t[v].left, e.prime, f)
  OBVIOUS
<1>3. p = [st EXCEPT !.node = e.prime]
  BY <1>1, <1>2, NormalizeInPlace DEF IsFor
<1>4. /\ p = [nodes |-> p.nodes, node |-> p.node, true_node_map |-> p.true_node_map, elements |-> p.elements]
      /\ p.nodes = ns /\ p.node = e.prime /\ p.true_node_map = st.true_node_map /\ p.elements = st.elements
  BY <1>1, <1>3
<1>5. IsState(p, f)
  BY <1>1, <1>4 DEF IsState
<1>6. PICK s : s = NormalizePsddNode(t, p, t[v].right, e.sub, f)
  OBVIOUS
<1>7. s = [p EXCEPT !.node = e.sub]
  BY <1>4, <1>5, <1>6, NormalizeInPlace DEF IsFor
<1>8. /\ s = [nodes |-> s.nodes, node |-> s.node, true_node_map |-> s.true_node_map, elements |-> s.elements]
      /\ s.nodes = ns /\ s.node = e.sub /\ s.true_node_map = st.true_node_map /\ s.elements = st.elements
  BY <1>4, <1>7
<1>9. IsState(s, f)
  BY <1>1, <1>8 DEF IsState
<1>10. after = [s EXCEPT !.elements = Append(@, Element(p.node, s.node, e.parameter))]
  BY <1>2, <1>6 DEF Conform
<1>11. PICK a, b, w, ds : a = e.prime /\ b = e.sub /\ w = e.parameter /\ ds = st.elements
  OBVIOUS
<1>12. after = [s EXCEPT !.elements = Append(@, Element(a, b, w))]
  BY <1>4, <1>8, <1>10, <1>11
<1>13. PICK x : x = Element(a, b, w)
  OBVIOUS
<1>14. after.nodes = ns /\ after.elements = Append(ds, x)
  BY <1>8, <1>11, <1>12, <1>13
<1>15. IsState(after, f)
  <2>1. IsOfFlag(s.nodes, f, a) /\ IsOfFlag(s.nodes, f, b)
    BY <1>8, <1>11
  <2>2. Follows(s, after, f)
    BY <1>9, <1>12, <2>1, WithElement
  <2>3. QED
    BY <2>2 DEF Follows
<1>16. IsList(ds) /\ Len(ds) = i /\ \A j \in 1..i : ds[j].prime = es[j].prime /\ ds[j].sub = es[j].sub
  BY <1>11 DEF ConformedTo
<1>17. PICK more : more = Append(ds, x)
  OBVIOUS
<1>18. IsLonger(ds, x, i, more)
  BY <1>16, <1>17, AppendedIs
<1>19. IsList(more) /\ Len(more) = i + 1 /\ more[i + 1] = x /\ \A j \in 1..i : more[j] = ds[j]
  BY <1>18 DEF IsLonger
<1>20. x.prime = e.prime /\ x.sub = e.sub
  BY <1>11, <1>13 DEF Element
<1>21. \A j \in 1..i + 1 : more[j].prime = es[j].prime /\ more[j].sub = es[j].sub
  <2> SUFFICES ASSUME NEW j \in 1..i + 1 PROVE more[j].prime = es[j].prime /\ more[j].sub = es[j].sub
    OBVIOUS
  <2>1. j \in 1..i \/ j = i + 1
    OBVIOUS
  <2>2. CASE j \in 1..i
    BY <1>16, <1>19, <2>2
  <2>3. CASE j = i + 1
    BY <1>19, <1>20, <2>3
  <2>4. QED
    BY <2>1, <2>2, <2>3
<1>22. QED
  BY <1>14, <1>15, <1>17, <1>19, <1>21 DEF ConformedTo

\* So the decision node that is made of such elements is for the vtree node, and has its elements.
LEMMA ConformAllInPlace ==
  ASSUME NEW t, IsForest(t), NEW v \in DOMAIN t, ~IsLeaf(t, v), NEW ns, AreNodes(ns), NEW f, NEW es,
         AreElements(ns, f, es), AreFor(t, ns, v, es), NEW st, st = ConformAll(t, ns, v, es, f)
  PROVE  IsState(st, f) /\ st.nodes = ns /\ IsList(st.elements) /\ SameElements(st.elements, es)
<1>1. PICK n \in Nat : n = Len(es) /\ DOMAIN es = 1..n
  BY ListIs DEF AreElements
<1>2. PICK g : ConformRun(t, ns, v, es, f, g, n)
  BY <1>1, ConformUnfolds
<1>3. /\ \A i \in 0..n : g[i] = IF i = 0 THEN Begun(ns) ELSE Conform(t, g[i - 1], v, es[i], f)
      /\ st = g[n]
  BY <1>2 DEF ConformRun
<1> DEFINE S == {i \in 0..n : ConformedTo(ns, f, es, g[i], i)}
<1>4. 0 \in S
  <2>1. PICK begun : begun = Begun(ns)
    OBVIOUS
  <2>2. IsState(begun, f) /\ begun.nodes = ns /\ begun.elements = <<>>
    BY <2>1, BegunIs
  <2>3. IsList(<<>>) /\ Len(<<>>) = 0
    BY DEF IsList
  <2>4. ConformedTo(ns, f, es, begun, 0)
    BY <2>2, <2>3 DEF ConformedTo
  <2>5. g[0] = begun
    BY <1>3, <2>1
  <2>6. QED
    BY <2>4, <2>5
<1>5. ASSUME NEW i \in 1..n, i - 1 \in S
      PROVE  i \in S
  <2>1. PICK j \in Nat : j = i - 1
    OBVIOUS
  <2>2. PICK x, y, e : x = g[j] /\ y = g[i] /\ e = es[i]
    OBVIOUS
  <2>3. ConformedTo(ns, f, es, x, j) /\ e = es[j + 1] /\ i = j + 1
    BY <1>5, <2>1, <2>2
  <2>4. y = Conform(t, x, v, e, f)
    BY <1>3, <2>1, <2>2
  <2>5. IsOfFlag(ns, f, e.prime) /\ IsOfFlag(ns, f, e.sub) /\ IsFor(ns, e.prime, t[v].left) /\ IsFor(ns, e.sub, t[v].right)
    BY <1>1, <2>2 DEF AreElements, AreFor
  <2>6. ConformedTo(ns, f, es, y, j + 1)
    BY <2>3, <2>4, <2>5, ConformInPlace
  <2>7. QED
    BY <2>2, <2>3, <2>6
<1>6. n \in S
  <2>1. S \subseteq 0..n /\ \A i \in 1..n : i - 1 \in S => i \in S
    BY <1>5
  <2> HIDE DEF S
  <2>2. 0..n \subseteq S
    BY <1>4, <2>1, AllSteps
  <2>3. QED
    BY <2>2
<1>7. ConformedTo(ns, f, es, st, n)
  BY <1>3, <1>6
<1>8. PICK ds : ds = st.elements
  OBVIOUS
<1>9. IsState(st, f) /\ st.nodes = ns /\ IsList(ds) /\ Len(ds) = n
      /\ \A j \in 1..n : ds[j].prime = es[j].prime /\ ds[j].sub = es[j].sub
  BY <1>7, <1>8 DEF ConformedTo
<1>10. DOMAIN ds = 1..n
  BY <1>9, ListIs
<1>11. SameElements(ds, es)
  BY <1>1, <1>9, <1>10 DEF SameElements
<1>12. QED
  BY <1>8, <1>9, <1>11

\* SortedByPrime has each element of the list.
LEMMA SortedHas ==
  ASSUME NEW es, IsList(es), \A i \in DOMAIN es : es[i].prime \in Int, NEW i \in DOMAIN es
  PROVE  \E k \in DOMAIN es : SortedByPrime(es)[k] = es[i]
<1>1. PICK n \in Nat : n = Len(es) /\ DOMAIN es = 1..n
  BY ListIs
<1> DEFINE place == [j \in DOMAIN es |-> PlaceIn(es, j)]
           At(k) == CHOOSE j \in DOMAIN es : place[j] = k
           sorted == [k \in DOMAIN es |-> es[At(k)]]
<1>2. SortedByPrime(es) = sorted
  BY Zenon DEF SortedByPrime, PlaceIn, IsBeforeIn
<1>3. PICK k : k = PlaceIn(es, i)
  OBVIOUS
<1>4. k \in DOMAIN es
  <2>1. CASE \E j \in 1..n : i # j
    BY <1>1, <1>3, <2>1, PlacesDiffer
  <2>2. CASE ~ \E j \in 1..n : i # j
    <3>1. 1 \in 1..n /\ i = 1
      BY <1>1, <2>2
    <3>2. PICK j \in 1..n : PlaceIn(es, j) = 1
      BY <1>1, <3>1, PlacesAreAll
    <3>3. j = i
      BY <2>2
    <3>4. QED
      BY <1>1, <1>3, <3>1, <3>2, <3>3
  <2>3. QED
    BY <2>1, <2>2
<1>5. \A j \in DOMAIN es : place[j] = k => j = i
  BY <1>1, <1>3, PlacesDiffer
<1>6. place[i] = k
  BY <1>3
<1> HIDE DEF place
<1>7. At(k) \in DOMAIN es /\ place[At(k)] = k
  BY <1>6, Zenon
<1>8. At(k) = i
  BY <1>5, <1>7
<1>9. sorted[k] = es[i]
  BY <1>4, <1>8
<1>10. QED
  BY <1>2, <1>4, <1>9

LEMMA SameModels ==
  ASSUME NEW t, NEW ns, NEW es, NEW ds, NEW x,
         \A k \in DOMAIN es : \E i \in DOMAIN ds : es[k].prime = ds[i].prime /\ es[k].sub = ds[i].sub,
         \A i \in DOMAIN ds : \E k \in DOMAIN es : es[k].prime = ds[i].prime /\ es[k].sub = ds[i].sub
  PROVE  SomeHas(t, ns, es, x) <=> SomeHas(t, ns, ds, x)
<1>1. ASSUME SomeHas(t, ns, es, x)
      PROVE  SomeHas(t, ns, ds, x)
  <2>1. PICK k \in DOMAIN es : HasModel(t, ns, es[k].prime, x) /\ HasModel(t, ns, es[k].sub, x)
    BY <1>1 DEF SomeHas
  <2>2. PICK i \in DOMAIN ds : es[k].prime = ds[i].prime /\ es[k].sub = ds[i].sub
    OBVIOUS
  <2>3. QED
    BY <2>1, <2>2 DEF SomeHas
<1>2. ASSUME SomeHas(t, ns, ds, x)
      PROVE  SomeHas(t, ns, es, x)
  <2>1. PICK i \in DOMAIN ds : HasModel(t, ns, ds[i].prime, x) /\ HasModel(t, ns, ds[i].sub, x)
    BY <1>2 DEF SomeHas
  <2>2. PICK k \in DOMAIN es : es[k].prime = ds[i].prime /\ es[k].sub = ds[i].sub
    OBVIOUS
  <2>3. QED
    BY <2>1, <2>2 DEF SomeHas
<1>3. QED
  BY <1>1, <1>2

LEMMA SortedModels ==
  ASSUME NEW t, NEW ns, NEW es, IsList(es), \A i \in DOMAIN es : es[i].prime \in Int, NEW x
  PROVE  SomeHas(t, ns, SortedByPrime(es), x) <=> SomeHas(t, ns, es, x)
<1>1. PICK ds : ds = SortedByPrime(es)
  OBVIOUS
<1>2. DOMAIN ds = DOMAIN es /\ \A k \in DOMAIN es : \E i \in DOMAIN es : ds[k] = es[i]
  BY <1>1, SortedIs
<1>3. \A i \in DOMAIN es : \E k \in DOMAIN es : ds[k] = es[i]
  BY <1>1, SortedHas
<1>4. /\ \A k \in DOMAIN ds : \E i \in DOMAIN es : ds[k].prime = es[i].prime /\ ds[k].sub = es[i].sub
      /\ \A i \in DOMAIN es : \E k \in DOMAIN ds : ds[k].prime = es[i].prime /\ ds[k].sub = es[i].sub
  BY <1>2, <1>3
<1>5. SomeHas(t, ns, ds, x) <=> SomeHas(t, ns, es, x)
  BY <1>4, SameModels
<1>6. QED
  BY <1>1, <1>5

\* Elements keep their models when the manager has more nodes.
LEMMA SomeStays ==
  ASSUME NEW t, NEW ns, AreNodes(ns), AreFitted(t, ns), NEW more, AreNodes(more), AreFitted(t, more), GrowsTo(ns, more),
         NEW es, \A i \in DOMAIN es : es[i].prime \in DOMAIN ns /\ es[i].sub \in DOMAIN ns, NEW x
  PROVE  SomeHas(t, more, es, x) <=> SomeHas(t, ns, es, x)
<1>1. \A a \in DOMAIN ns : HasModel(t, more, a, x) <=> HasModel(t, ns, a, x)
  BY ModelsStay
<1>2. \A i \in DOMAIN es : /\ HasModel(t, more, es[i].prime, x) <=> HasModel(t, ns, es[i].prime, x)
                           /\ HasModel(t, more, es[i].sub, x) <=> HasModel(t, ns, es[i].sub, x)
  BY <1>1, Zenon
<1>3. QED
  BY <1>2, Zenon DEF SomeHas

-----------------------------------------------------------------------------
\* What GetUniqueNode returns is the node asked for, or a true node for its variable.
LEMMA UniqueLiteralHas ==
  ASSUME NEW st, NEW f, IsState(st, f), NEW v, NEW sign, NEW made,
         made = GetUniqueNode(st, LiteralNode(v, sign, f))
  PROVE  /\ made.node \in DOMAIN made.nodes /\ made.nodes[made.node].type = "literal"
         /\ made.nodes[made.node].sign = sign /\ made.nodes[made.node].vtree = v
<1>1. PICK c : c = LiteralNode(v, sign, f)
  OBVIOUS
<1>2. c.type = "literal" /\ c.sign = sign /\ c.vtree = v /\ HasChildrenIn(c, DOMAIN st.nodes)
  BY <1>1 DEF LiteralNode, HasChildrenIn
<1>3. made.node \in DOMAIN made.nodes /\ Equal(made.nodes[made.node], c)
  BY <1>1, <1>2, GetUniqueNodeIs
<1>4. made.nodes[made.node] = c
  BY <1>2, <1>3 DEF Equal
<1>5. QED
  BY <1>2, <1>3, <1>4

LEMMA UniqueTopHas ==
  ASSUME NEW st, NEW f, IsState(st, f), NEW v, NEW positive, NEW negative, NEW made,
         made = GetUniqueNode(st, TopNode(v, positive, negative, f))
  PROVE  /\ made.node \in DOMAIN made.nodes /\ made.nodes[made.node].type = "top"
         /\ made.nodes[made.node].vtree = v
<1>1. PICK c : c = TopNode(v, positive, negative, f)
  OBVIOUS
<1>2. c.type = "top" /\ c.vtree = v /\ HasChildrenIn(c, DOMAIN st.nodes)
  BY <1>1 DEF TopNode, HasChildrenIn
<1>3. made.node \in DOMAIN made.nodes /\ Equal(made.nodes[made.node], c)
  BY <1>1, <1>2, GetUniqueNodeIs
<1>4. made.nodes[made.node].type = "top" /\ made.nodes[made.node].vtree = v
  BY <1>2, <1>3 DEF Equal
<1>5. QED
  BY <1>3, <1>4

LEMMA UniqueDecisionHas ==
  ASSUME NEW st, NEW f, IsState(st, f), NEW v, NEW es, IsList(es),
         \A i \in DOMAIN es : es[i].prime \in DOMAIN st.nodes /\ es[i].sub \in DOMAIN st.nodes,
         NEW made, made = GetUniqueNode(st, DecisionNode(v, es, f))
  PROVE  /\ made.node \in DOMAIN made.nodes /\ made.nodes[made.node].type = "decision"
         /\ made.nodes[made.node].vtree = v /\ made.nodes[made.node].elements = SortedByPrime(es)
<1>1. PICK c : c = DecisionNode(v, es, f)
  OBVIOUS
<1>2. DOMAIN st.nodes \subseteq Int
  <2>1. IsList(st.nodes)
    BY DEF IsState, AreNodes
  <2>2. QED
    BY <2>1, ListIs
<1>3. /\ IsList(SortedByPrime(es)) /\ DOMAIN SortedByPrime(es) = DOMAIN es
      /\ \A k \in DOMAIN es : \E i \in DOMAIN es : SortedByPrime(es)[k] = es[i]
  BY <1>2, SortedIs
<1>4. c.type = "decision" /\ c.vtree = v /\ c.elements = SortedByPrime(es)
  BY <1>1 DEF DecisionNode
<1>5. HasChildrenIn(c, DOMAIN st.nodes)
  BY <1>3, <1>4 DEF HasChildrenIn
<1>6. made.node \in DOMAIN made.nodes /\ Equal(made.nodes[made.node], c)
  BY <1>1, <1>4, <1>5, GetUniqueNodeIs
<1>7. made.nodes[made.node] = c
  BY <1>4, <1>6 DEF Equal
<1>8. QED
  BY <1>4, <1>6, <1>7

\* The decision node that is made of elements for the two children has their models.
LEMMA GetConformedModels ==
  ASSUME NEW t, IsForest(t), NEW v \in DOMAIN t, ~IsLeaf(t, v), NEW ns, AreNodes(ns), AreFitted(t, ns), NEW f,
         NEW es, AreElements(ns, f, es), AreFor(t, ns, v, es), CanConform(t, ns, es),
         NEW made, made = GetConformedPsddDecisionNode(t, ns, es, f)
  PROVE  /\ AreNodes(made.nodes) /\ AreFitted(t, made.nodes) /\ GrowsTo(ns, made.nodes)
         /\ IsFor(made.nodes, made.node, v)
         /\ \A x : HasModel(t, made.nodes, made.node, x) <=> SomeHas(t, ns, es, x)
<1>1. PICK w : w = VtreeOf(t, ns, es)
  OBVIOUS
<1>2. 1 \in DOMAIN es
  <2>1. IsList(es) /\ es # <<>>
    BY DEF AreElements, CanConform
  <2>2. QED
    BY <2>1, LastOf
<1>3. /\ w \in DOMAIN t /\ ~IsLeaf(t, w)
      /\ ns[es[1].prime].vtree \in Under(t, t[w].left) /\ ns[es[1].sub].vtree \in Under(t, t[w].right)
  BY <1>1, <1>2 DEF CanConform
<1>4. t[v].left \in Under(t, t[w].left) /\ t[v].right \in Under(t, t[w].right)
  BY <1>2, <1>3 DEF AreFor, IsFor
<1>5. w = v
  BY <1>3, <1>4, SameNode
<1>6. PICK st : st = ConformAll(t, ns, v, es, f)
  OBVIOUS
<1>7. PICK ds : ds = st.elements
  OBVIOUS
<1>8. IsState(st, f) /\ st.nodes = ns /\ IsList(ds) /\ SameElements(ds, es)
  BY <1>6, <1>7, ConformAllInPlace
<1>9. made = GetUniqueNode(st, DecisionNode(v, ds, f))
  BY <1>1, <1>5, <1>6, <1>7 DEF GetConformedPsddDecisionNode, WithElements
<1>10. \A i \in DOMAIN ds : ds[i].prime \in DOMAIN ns /\ ds[i].sub \in DOMAIN ns
  BY <1>8 DEF SameElements, AreFor, IsFor
<1>11. PICK more, n : more = made.nodes /\ n = made.node
  OBVIOUS
<1>12. n \in DOMAIN more /\ more[n].type = "decision" /\ more[n].vtree = v /\ more[n].elements = SortedByPrime(ds)
  BY <1>8, <1>9, <1>10, <1>11, UniqueDecisionHas
<1>13. IsState(made, f) /\ GrowsTo(ns, more)
  BY <1>11, GetConformedIs
<1>14. AreNodes(more) /\ AreFitted(t, more)
  BY <1>11, <1>13, GetConformedFits DEF IsState
<1>15. ASSUME NEW x
       PROVE  HasModel(t, more, n, x) <=> SomeHas(t, ns, es, x)
  <2>1. PICK sorted : sorted = SortedByPrime(ds)
    OBVIOUS
  <2>2. HasModel(t, more, n, x) <=> SomeHas(t, more, sorted, x)
    BY <1>12, <1>14, <2>1, DecisionModels
  <2>3. \A i \in DOMAIN ds : ds[i].prime \in Int
    <3>1. DOMAIN ns \subseteq Int
      BY ListIs DEF AreNodes
    <3>2. QED
      BY <1>10, <3>1
  <2>4. SomeHas(t, more, sorted, x) <=> SomeHas(t, more, ds, x)
    BY <1>8, <2>1, <2>3, SortedModels
  <2>5. SomeHas(t, more, ds, x) <=> SomeHas(t, ns, ds, x)
    BY <1>8, <1>10, <1>13, <1>14, SomeStays
  <2>6. SomeHas(t, ns, ds, x) <=> SomeHas(t, ns, es, x)
    <3>1. /\ \A k \in DOMAIN ds : \E i \in DOMAIN es : ds[k].prime = es[i].prime /\ ds[k].sub = es[i].sub
          /\ \A i \in DOMAIN es : \E k \in DOMAIN ds : ds[k].prime = es[i].prime /\ ds[k].sub = es[i].sub
      BY <1>8, Zenon DEF SameElements
    <3>2. QED
      BY <3>1, SameModels
  <2>7. QED
    BY <2>2, <2>4, <2>5, <2>6
<1>16. QED
  BY <1>11, <1>12, <1>13, <1>14, <1>15 DEF IsFor

\* A result for two nodes is for their vtree node and has the models that both have.
IsCommon(t, ns, pair, r) ==
  /\ pair[1] \in DOMAIN ns /\ pair[2] \in DOMAIN ns
  /\ r.node # NullNode => IsFor(ns, r.node, ns[pair[1]].vtree)
  /\ \A x : HasModel(t, ns, r.node, x) <=> HasModel(t, ns, pair[1], x) /\ HasModel(t, ns, pair[2], x)
AreCommon(t, ns, map) == \A k \in DOMAIN map : IsCommon(t, ns, k, map[k])

\* The elements of a pair of a call, the models that all four nodes have, and the two nodes that
\* the call asks for first or, when it has the product of the primes, next.
OneOf(ns, fr, q) == ns[fr.first].elements[(q - 1) \div Len(ns[fr.second].elements) + 1]
TwoOf(ns, fr, q) == ns[fr.second].elements[((q - 1) % Len(ns[fr.second].elements)) + 1]
Primes(ns, fr, q) == <<OneOf(ns, fr, q).prime, TwoOf(ns, fr, q).prime>>
Subs(ns, fr, q) == <<OneOf(ns, fr, q).sub, TwoOf(ns, fr, q).sub>>
BothHave(t, ns, pair, x) == HasModel(t, ns, pair[1], x) /\ HasModel(t, ns, pair[2], x)
PairHas(t, ns, fr, q, x) == BothHave(t, ns, Primes(ns, fr, q), x) /\ BothHave(t, ns, Subs(ns, fr, q), x)
Asked(ns, fr) == IF fr.prime_result = <<>> THEN Primes(ns, fr, fr.pair) ELSE Subs(ns, fr, fr.pair)

\* The elements that a call has made have the models of the pairs it is done with.
LastPair(ns, fr) == Len(ns[fr.first].elements) * Len(ns[fr.second].elements)
HasPairs(t, ns, fr) ==
  /\ fr.pair = 0 => fr.elements = <<>> /\ fr.prime_result = <<>>
  /\ fr.pair > 0 => fr.pair \in 1..LastPair(ns, fr) + 1
  /\ AreFor(t, ns, ns[fr.first].vtree, fr.elements)
  /\ \A x : SomeHas(t, ns, fr.elements, x) <=> \E q \in 1..fr.pair - 1 : PairHas(t, ns, fr, q, x)
  /\ fr.prime_result # <<>> => /\ IsCommon(t, ns, Primes(ns, fr, fr.pair), fr.prime_result[1])
                               /\ fr.prime_result[1].node # NullNode

\* Each call is for the nodes that the one below it asked for, the first for those of the client.
AskedAt(ns, client, calls, i) == IF i = 1 THEN client ELSE Asked(ns, calls[i - 1])
HaveAsked(t, ns, client, calls, last, map) ==
  /\ client[1] \in DOMAIN ns /\ client[2] \in DOMAIN ns
  /\ \A i \in DOMAIN calls : HasPairs(t, ns, calls[i]) /\ Key(calls[i]) = AskedAt(ns, client, calls, i)
  /\ last # <<>> => IsCommon(t, ns, AskedAt(ns, client, calls, Len(calls) + 1), last[1])
  /\ AreCommon(t, ns, map)

\* All this stays when the manager has more nodes.
LEMMA CommonStays ==
  ASSUME NEW t, NEW ns, AreNodes(ns), AreFitted(t, ns), NEW more, AreNodes(more), AreFitted(t, more), GrowsTo(ns, more),
         NEW pair, NEW r, IsCommon(t, ns, pair, r)
  PROVE  IsCommon(t, more, pair, r)
<1>1. PICK a, b, n : a = pair[1] /\ b = pair[2] /\ n = r.node
  OBVIOUS
<1>2. a \in DOMAIN ns /\ b \in DOMAIN ns /\ (n # NullNode => IsFor(ns, n, ns[a].vtree))
      /\ \A x : HasModel(t, ns, n, x) <=> HasModel(t, ns, a, x) /\ HasModel(t, ns, b, x)
  BY <1>1, Zenon DEF IsCommon
<1>3. a \in DOMAIN more /\ b \in DOMAIN more /\ more[a] = ns[a]
  BY <1>2 DEF GrowsTo
<1>4. n # NullNode => n \in DOMAIN ns /\ IsFor(more, n, more[a].vtree)
  BY <1>2, <1>3, ForStays DEF IsFor
<1>5. ASSUME NEW x
      PROVE  HasModel(t, more, n, x) <=> HasModel(t, more, a, x) /\ HasModel(t, more, b, x)
  <2>1. HasModel(t, more, a, x) <=> HasModel(t, ns, a, x)
    BY <1>2, ModelsStay
  <2>2. HasModel(t, more, b, x) <=> HasModel(t, ns, b, x)
    BY <1>2, ModelsStay
  <2>3. HasModel(t, more, n, x) <=> HasModel(t, ns, n, x)
    <3>1. CASE n = NullNode
      BY <3>1 DEF HasModel
    <3>2. CASE n # NullNode
      BY <1>4, <3>2, ModelsStay
    <3>3. QED
      BY <3>1, <3>2
  <2>4. QED
    BY <1>2, <2>1, <2>2, <2>3
<1>6. QED
  BY <1>1, <1>3, <1>4, <1>5, Zenon DEF IsCommon

LEMMA AllCommonStay ==
  ASSUME NEW t, NEW ns, AreNodes(ns), AreFitted(t, ns), NEW more, AreNodes(more), AreFitted(t, more), GrowsTo(ns, more),
         NEW map, AreCommon(t, ns, map)
  PROVE  AreCommon(t, more, map)
BY CommonStays DEF AreCommon

LEMMA PairStays ==
  ASSUME NEW ns, NEW f, NEW fr, IsFrame(ns, f, fr), NEW more, GrowsTo(ns, more)
  PROVE  /\ LastPair(more, fr) = LastPair(ns, fr) /\ Asked(more, fr) = Asked(ns, fr)
         /\ \A q : Primes(more, fr, q) = Primes(ns, fr, q) /\ Subs(more, fr, q) = Subs(ns, fr, q)
<1>1. fr.first \in DOMAIN ns /\ fr.second \in DOMAIN ns
  BY DEF IsFrame
<1>2. more[fr.first] = ns[fr.first] /\ more[fr.second] = ns[fr.second]
  BY <1>1 DEF GrowsTo
<1>3. \A q : Primes(more, fr, q) = Primes(ns, fr, q) /\ Subs(more, fr, q) = Subs(ns, fr, q)
  BY <1>2 DEF Primes, Subs, OneOf, TwoOf
<1>4. Asked(more, fr) = Asked(ns, fr)
  BY <1>3 DEF Asked
<1>5. LastPair(more, fr) = LastPair(ns, fr)
  BY <1>2 DEF LastPair
<1>6. QED
  BY <1>3, <1>4, <1>5

\* The nodes of a pair.
LEMMA PairsAre ==
  ASSUME NEW t, NEW ns, AreNodes(ns), AreFitted(t, ns), NEW f, NEW fr, IsFrame(ns, f, fr), fr.pair > 0,
         NEW q, q \in 1..LastPair(ns, fr)
  PROVE  /\ OneOf(ns, fr, q).prime \in DOMAIN ns /\ OneOf(ns, fr, q).sub \in DOMAIN ns
         /\ TwoOf(ns, fr, q).prime \in DOMAIN ns /\ TwoOf(ns, fr, q).sub \in DOMAIN ns
         /\ ns[OneOf(ns, fr, q).prime].vtree = t[ns[fr.first].vtree].left
         /\ ns[OneOf(ns, fr, q).sub].vtree = t[ns[fr.first].vtree].right
         /\ ~IsLeaf(t, ns[fr.first].vtree) /\ ns[fr.first].vtree \in DOMAIN t
         /\ q \in Nat
<1>1. PICK c, d : c = ns[fr.first] /\ d = ns[fr.second]
  OBVIOUS
<1>2. PICK es, ds : es = c.elements /\ ds = d.elements
  OBVIOUS
<1>3. fr.first \in DOMAIN ns /\ fr.second \in DOMAIN ns /\ c.type = "decision" /\ d.type = "decision"
  BY <1>1 DEF IsFrame
<1>4. HasChildrenIn(c, DOMAIN ns) /\ HasChildrenIn(d, DOMAIN ns)
  BY <1>1, <1>3 DEF AreNodes, IsWhole
<1>5. /\ IsList(es) /\ \A i \in DOMAIN es : es[i].prime \in DOMAIN ns /\ es[i].sub \in DOMAIN ns
      /\ IsList(ds) /\ \A i \in DOMAIN ds : ds[i].prime \in DOMAIN ns /\ ds[i].sub \in DOMAIN ns
  BY <1>2, <1>3, <1>4 DEF HasChildrenIn
<1>6. PICK n \in Nat, s \in Nat : n = Len(es) /\ s = Len(ds) /\ DOMAIN es = 1..n /\ DOMAIN ds = 1..s
  BY <1>5, ListIs
<1>7. q \in 1..n * s /\ n * s \in Nat
  <2>1. Len(ns[fr.first].elements) = n /\ Len(ns[fr.second].elements) = s
    BY <1>1, <1>2, <1>6, Zenon
  <2>2. LastPair(ns, fr) = n * s
    BY <2>1, Zenon DEF LastPair
  <2>3. n * s \in Nat
    OBVIOUS
  <2>4. QED
    BY <2>2, <2>3, Zenon
<1>8. (q - 1) \div s + 1 \in 1..n /\ ((q - 1) % s) + 1 \in 1..s
  BY <1>7, PairIs
<1>9. PICK i, j : i = (q - 1) \div s + 1 /\ j = ((q - 1) % s) + 1
  OBVIOUS
<1>10. OneOf(ns, fr, q) = es[i] /\ TwoOf(ns, fr, q) = ds[j] /\ i \in DOMAIN es /\ j \in DOMAIN ds
  BY <1>1, <1>2, <1>6, <1>8, <1>9 DEF OneOf, TwoOf
<1>11. Fits(t, ns, c)
  BY <1>1, <1>3 DEF AreFitted
<1>12. ~IsLeaf(t, c.vtree) /\ AreFor(t, ns, c.vtree, es) /\ c.vtree \in DOMAIN t
  BY <1>2, <1>3, <1>11 DEF Fits
<1>13. ns[es[i].prime].vtree = t[c.vtree].left /\ ns[es[i].sub].vtree = t[c.vtree].right
  BY <1>10, <1>12 DEF AreFor, IsFor
<1>14. q \in Nat
  BY <1>7
<1>15. QED
  BY <1>1, <1>5, <1>10, <1>12, <1>13, <1>14

LEMMA PairsStay ==
  ASSUME NEW t, NEW ns, AreNodes(ns), AreFitted(t, ns), NEW more, AreNodes(more), AreFitted(t, more), GrowsTo(ns, more),
         NEW f, NEW fr, IsFrame(ns, f, fr), HasPairs(t, ns, fr)
  PROVE  HasPairs(t, more, fr)
<1>1. /\ LastPair(more, fr) = LastPair(ns, fr)
      /\ \A q : Primes(more, fr, q) = Primes(ns, fr, q) /\ Subs(more, fr, q) = Subs(ns, fr, q)
  BY PairStays
<1>2. /\ fr.pair = 0 => fr.elements = <<>> /\ fr.prime_result = <<>>
      /\ fr.pair > 0 => fr.pair \in 1..LastPair(ns, fr) + 1
      /\ AreFor(t, ns, ns[fr.first].vtree, fr.elements)
      /\ fr.prime_result # <<>> => /\ IsCommon(t, ns, Primes(ns, fr, fr.pair), fr.prime_result[1])
                                   /\ fr.prime_result[1].node # NullNode
  BY DEF HasPairs
<1>3. fr.prime_result # <<>> => IsCommon(t, more, Primes(more, fr, fr.pair), fr.prime_result[1])
  BY <1>1, <1>2, CommonStays
<1>4. PICK es : es = fr.elements
  OBVIOUS
<1>5. fr.first \in DOMAIN ns /\ more[fr.first] = ns[fr.first]
  BY DEF IsFrame, GrowsTo
<1>6. AreFor(t, more, more[fr.first].vtree, es)
  BY <1>2, <1>4, <1>5, AllForStay
<1>7. fr.pair \in Nat
  BY DEF IsFrame
<1>8. ASSUME NEW x
      PROVE  SomeHas(t, more, es, x) <=> \E q \in 1..fr.pair - 1 : PairHas(t, more, fr, q, x)
  <2>1. \A i \in DOMAIN es : es[i].prime \in DOMAIN ns /\ es[i].sub \in DOMAIN ns
    BY <1>2, <1>4 DEF AreFor, IsFor
  <2>2. SomeHas(t, more, es, x) <=> SomeHas(t, ns, es, x)
    BY <2>1, SomeStays
  <2>3. ASSUME NEW q \in 1..fr.pair - 1
        PROVE  PairHas(t, more, fr, q, x) <=> PairHas(t, ns, fr, q, x)
    <3>1. fr.pair > 0 /\ q \in 1..LastPair(ns, fr)
      <4>1. PICK p, m : p \in Nat /\ p = fr.pair /\ m = LastPair(ns, fr)
        BY <1>7
      <4>2. p \in Nat /\ q \in 1..p - 1 /\ (p > 0 => p \in 1..m + 1)
        BY <1>2, <4>1
      <4>3. m \in Nat
        <5>1. p > 0
          BY <4>2
        <5>2. ns[fr.first].type = "decision" /\ ns[fr.second].type = "decision" /\ fr.first \in DOMAIN ns /\ fr.second \in DOMAIN ns
          BY <4>1, <5>1 DEF IsFrame
        <5>3. IsList(ns[fr.first].elements) /\ IsList(ns[fr.second].elements)
          BY <5>2 DEF AreNodes, IsWhole, HasChildrenIn
        <5>4. PICK n \in Nat, s \in Nat : n = Len(ns[fr.first].elements) /\ s = Len(ns[fr.second].elements)
          BY <5>3, ListIs
        <5>5. n * s \in Nat
          OBVIOUS
        <5>6. QED
          BY <4>1, <5>4, <5>5 DEF LastPair
      <4>4. p > 0 /\ q \in 1..m
        BY <4>2, <4>3
      <4>5. QED
        BY <4>1, <4>4
    <3>2. PICK a, b, c, d : /\ a = OneOf(ns, fr, q).prime /\ b = TwoOf(ns, fr, q).prime
                            /\ c = OneOf(ns, fr, q).sub /\ d = TwoOf(ns, fr, q).sub
      OBVIOUS
    <3>3. a \in DOMAIN ns /\ b \in DOMAIN ns /\ c \in DOMAIN ns /\ d \in DOMAIN ns
      BY <3>1, <3>2, PairsAre
    <3>4. /\ HasModel(t, more, a, x) <=> HasModel(t, ns, a, x)
          /\ HasModel(t, more, b, x) <=> HasModel(t, ns, b, x)
          /\ HasModel(t, more, c, x) <=> HasModel(t, ns, c, x)
          /\ HasModel(t, more, d, x) <=> HasModel(t, ns, d, x)
      BY <3>3, ModelsStay
    <3>5. Primes(ns, fr, q) = <<a, b>> /\ Subs(ns, fr, q) = <<c, d>>
      BY <3>2 DEF Primes, Subs
    <3>6. Primes(more, fr, q) = <<a, b>> /\ Subs(more, fr, q) = <<c, d>>
      BY <1>1, <3>5
    <3>7. QED
      BY <3>4, <3>5, <3>6 DEF PairHas, BothHave
  <2>4. SomeHas(t, ns, es, x) <=> \E q \in 1..fr.pair - 1 : PairHas(t, ns, fr, q, x)
    BY <1>4 DEF HasPairs
  <2>5. QED
    BY <2>2, <2>3, <2>4, Zenon
<1>9. QED
  BY <1>1, <1>2, <1>3, <1>4, <1>6, <1>8 DEF HasPairs

LEMMA AskedStay ==
  ASSUME NEW t, NEW ns, AreNodes(ns), AreFitted(t, ns), NEW more, AreNodes(more), AreFitted(t, more), GrowsTo(ns, more),
         NEW f, NEW client, NEW calls, NEW last, NEW map, AreCalls(ns, f, calls, last, map),
         HaveAsked(t, ns, client, calls, last, map)
  PROVE  HaveAsked(t, more, client, calls, last, map)
<1>1. IsList(calls) /\ \A i \in DOMAIN calls : IsFrame(ns, f, calls[i])
  BY DEF AreCalls
<1>2. PICK n \in Nat : n = Len(calls) /\ DOMAIN calls = 1..n
  BY <1>1, ListIs
<1>3. ASSUME NEW i \in 1..n + 1
      PROVE  AskedAt(more, client, calls, i) = AskedAt(ns, client, calls, i)
  <2>1. CASE i = 1
    BY <2>1 DEF AskedAt
  <2>2. CASE i # 1
    <3>1. i - 1 \in DOMAIN calls
      BY <1>2, <2>2
    <3>2. Asked(more, calls[i - 1]) = Asked(ns, calls[i - 1])
      BY <1>1, <3>1, PairStays
    <3>3. QED
      BY <2>2, <3>2 DEF AskedAt
  <2>3. QED
    BY <2>1, <2>2
<1>4. /\ client[1] \in DOMAIN ns /\ client[2] \in DOMAIN ns
      /\ \A i \in DOMAIN calls : HasPairs(t, ns, calls[i]) /\ Key(calls[i]) = AskedAt(ns, client, calls, i)
      /\ last # <<>> => IsCommon(t, ns, AskedAt(ns, client, calls, n + 1), last[1])
      /\ AreCommon(t, ns, map)
  BY <1>2 DEF HaveAsked
<1>5. client[1] \in DOMAIN more /\ client[2] \in DOMAIN more
  BY <1>4 DEF GrowsTo
<1>6. \A i \in DOMAIN calls : HasPairs(t, more, calls[i])
  BY <1>1, <1>4, PairsStay
<1>7. \A i \in DOMAIN calls : Key(calls[i]) = AskedAt(more, client, calls, i)
  <2>1. \A i \in 1..n : i \in 1..n + 1
    OBVIOUS
  <2>2. QED
    BY <1>2, <1>3, <1>4, <2>1
<1>8. last # <<>> => IsCommon(t, more, AskedAt(more, client, calls, n + 1), last[1])
  <2>1. PICK pair : pair = AskedAt(ns, client, calls, n + 1)
    OBVIOUS
  <2>2. AskedAt(more, client, calls, n + 1) = pair
    BY <1>3, <2>1
  <2>3. last # <<>> => IsCommon(t, ns, pair, last[1])
    BY <1>4, <2>1
  <2>4. QED
    BY <2>2, <2>3, CommonStays
<1>9. AreCommon(t, more, map)
  BY <1>4, AllCommonStay
<1>10. QED
  BY <1>2, <1>5, <1>6, <1>7, <1>8, <1>9 DEF HaveAsked

\* All calls but the last.
LEMMA FrontIs ==
  ASSUME NEW calls, IsList(calls), calls # <<>>
  PROVE  /\ IsList(Front(calls)) /\ DOMAIN Front(calls) = 1..Len(calls) - 1 /\ Len(Front(calls)) = Len(calls) - 1
         /\ \A i \in DOMAIN Front(calls) : Front(calls)[i] = calls[i]
<1>1. Len(calls) \in Nat /\ Len(calls) >= 1 /\ DOMAIN calls = 1..Len(calls)
  BY LastOf
<1>2. PICK front : front = Front(calls)
  OBVIOUS
<1>3. PICK S : calls \in Seq(S)
  BY DEF IsList
<1>4. front = SubSeq(calls, 1, Len(calls) - 1)
  BY <1>2 DEF Front
<1>5. front \in Seq(S) /\ Len(front) = Len(calls) - 1 /\ \A i \in 1..Len(calls) - 1 : front[i] = calls[i]
  BY <1>1, <1>3, <1>4
<1>6. IsList(front)
  BY <1>5, Zenon DEF IsList
<1>7. DOMAIN front = 1..Len(front)
  BY <1>6, ListIs, Zenon
<1>8. QED
  BY <1>2, <1>5, <1>6, <1>7, Zenon

\* The last call ends with what the two nodes have in common.
LEMMA LeavesCommon ==
  ASSUME NEW t, NEW ns, NEW client, NEW calls, IsList(calls), calls # <<>>, NEW last, NEW map,
         HaveAsked(t, ns, client, calls, last, map), NEW result, IsCommon(t, ns, Key(calls[Len(calls)]), result),
         NEW known, AreCommon(t, ns, known)
  PROVE  HaveAsked(t, ns, client, Front(calls), <<result>>, known)
<1>1. PICK n \in Nat : n = Len(calls) /\ n >= 1 /\ DOMAIN calls = 1..n
  BY LastOf
<1>2. PICK front : front = Front(calls)
  OBVIOUS
<1>3. DOMAIN front = 1..n - 1 /\ Len(front) = n - 1 /\ \A i \in 1..n - 1 : front[i] = calls[i]
  BY <1>1, <1>2, FrontIs
<1>4. /\ client[1] \in DOMAIN ns /\ client[2] \in DOMAIN ns
      /\ \A i \in DOMAIN calls : HasPairs(t, ns, calls[i]) /\ Key(calls[i]) = AskedAt(ns, client, calls, i)
  BY DEF HaveAsked
<1>5. ASSUME NEW i \in 1..n
      PROVE  AskedAt(ns, client, front, i) = AskedAt(ns, client, calls, i)
  <2>1. i = 1 \/ i - 1 \in 1..n - 1
    OBVIOUS
  <2>2. i = 1 \/ front[i - 1] = calls[i - 1]
    BY <1>3, <2>1
  <2>3. QED
    BY <2>2 DEF AskedAt
<1>6. \A i \in 1..n - 1 : i \in 1..n
  OBVIOUS
<1>7. \A i \in DOMAIN front : HasPairs(t, ns, front[i]) /\ Key(front[i]) = AskedAt(ns, client, front, i)
  BY <1>1, <1>3, <1>4, <1>5, <1>6
<1>8. PICK one : one = <<result>>
  OBVIOUS
<1>9. one[1] = result
  BY <1>8
<1>10. IsCommon(t, ns, AskedAt(ns, client, front, Len(front) + 1), one[1])
  <2>1. n \in 1..n /\ Len(front) + 1 = n
    BY <1>1, <1>3
  <2>2. AskedAt(ns, client, front, n) = Key(calls[n])
    BY <1>1, <1>4, <1>5, <2>1
  <2>3. QED
    BY <1>1, <1>9, <2>1, <2>2
<1>11. HaveAsked(t, ns, client, front, one, known)
  BY <1>4, <1>7, <1>10 DEF HaveAsked
<1>12. QED
  BY <1>2, <1>8, <1>11

\* The last call goes on.
EndsIn(calls, fr, n, after) ==
  /\ IsList(after) /\ Len(after) = n /\ DOMAIN after = 1..n /\ after[n] = fr /\ n \in Nat /\ n >= 1
  /\ \A i \in 1..n - 1 : after[i] = calls[i]
LEMMA LastIs ==
  ASSUME NEW calls, IsList(calls), calls # <<>>, NEW fr, NEW n, n = Len(calls), NEW after, after = LastAs(calls, fr)
  PROVE  EndsIn(calls, fr, n, after)
<1>1. n \in Nat /\ n >= 1 /\ DOMAIN calls = 1..n /\ n \in DOMAIN calls
  BY LastOf
<1>2. after = [calls EXCEPT ![n] = fr]
  BY DEF LastAs
<1>3. /\ DOMAIN after = 1..n /\ after = [i \in 1..n |-> after[i]] /\ after[n] = fr
      /\ \A i \in 1..n : i # n => after[i] = calls[i]
  BY <1>1, <1>2
<1>4. IsList(after) /\ Len(after) = n
  BY <1>1, <1>3, FunctionIsList
<1>5. \A i \in 1..n - 1 : i \in 1..n /\ i # n
  BY <1>1
<1>6. QED
  BY <1>1, <1>3, <1>4, <1>5 DEF EndsIn

LEMMA GoesOnCommon ==
  ASSUME NEW t, NEW ns, NEW client, NEW calls, IsList(calls), calls # <<>>, NEW last, NEW map,
         HaveAsked(t, ns, client, calls, last, map),
         NEW fr, HasPairs(t, ns, fr), Key(fr) = Key(calls[Len(calls)])
  PROVE  HaveAsked(t, ns, client, LastAs(calls, fr), <<>>, map)
<1>1. PICK n, after : n = Len(calls) /\ after = LastAs(calls, fr) /\ EndsIn(calls, fr, n, after)
  BY LastIs
<1>2. /\ Len(after) = n /\ DOMAIN after = 1..n /\ after[n] = fr /\ n \in Nat /\ n >= 1
      /\ \A i \in 1..n - 1 : after[i] = calls[i]
  BY <1>1 DEF EndsIn
<1>3. DOMAIN calls = 1..n
  BY <1>1, LastOf
<1>4. /\ client[1] \in DOMAIN ns /\ client[2] \in DOMAIN ns /\ AreCommon(t, ns, map)
      /\ \A i \in DOMAIN calls : HasPairs(t, ns, calls[i]) /\ Key(calls[i]) = AskedAt(ns, client, calls, i)
  BY DEF HaveAsked
<1>5. ASSUME NEW i \in 1..n
      PROVE  AskedAt(ns, client, after, i) = AskedAt(ns, client, calls, i)
  <2>1. i = 1 \/ i - 1 \in 1..n - 1
    BY <1>2
  <2>2. i = 1 \/ after[i - 1] = calls[i - 1]
    BY <1>2, <2>1
  <2>3. QED
    BY <2>2 DEF AskedAt
<1>6. ASSUME NEW i \in 1..n
      PROVE  HasPairs(t, ns, after[i]) /\ Key(after[i]) = AskedAt(ns, client, calls, i)
  <2>1. CASE i = n
    <3>1. n \in DOMAIN calls
      BY <1>2, <1>3
    <3>2. Key(fr) = AskedAt(ns, client, calls, n)
      BY <1>1, <1>4, <3>1, Zenon
    <3>3. after[i] = fr
      BY <1>2, <2>1
    <3>4. QED
      BY <2>1, <3>2, <3>3, Zenon
  <2>2. CASE i # n
    <3>1. i \in 1..n - 1
      BY <1>2, <2>2
    <3>2. QED
      BY <1>2, <1>3, <1>4, <3>1
  <2>3. QED
    BY <2>1, <2>2
<1>7. HaveAsked(t, ns, client, after, <<>>, map)
  BY <1>2, <1>4, <1>5, <1>6 DEF HaveAsked
<1>8. QED
  BY <1>1, <1>7

\* The last call calls itself for the nodes it asks for.
LEMMA FrameBegins ==
  ASSUME NEW t, NEW ns, NEW first, NEW second
  PROVE  HasPairs(t, ns, Frame(first, second)) /\ Key(Frame(first, second)) = <<first, second>>
<1>1. PICK fr : fr = Frame(first, second)
  OBVIOUS
<1>2. fr.first = first /\ fr.second = second /\ fr.pair = 0 /\ fr.prime_result = <<>> /\ fr.elements = <<>>
  BY <1>1 DEF Frame
<1>3. DOMAIN <<>> = {}
  OBVIOUS
<1>4. AreFor(t, ns, ns[fr.first].vtree, fr.elements) /\ \A x : ~SomeHas(t, ns, fr.elements, x)
  BY <1>2, <1>3 DEF AreFor, SomeHas
<1>5. 1..fr.pair - 1 = {}
  BY <1>2
<1>6. HasPairs(t, ns, fr)
  BY <1>2, <1>4, <1>5 DEF HasPairs
<1>7. Key(fr) = <<first, second>>
  BY <1>2 DEF Key
<1>8. QED
  BY <1>1, <1>6, <1>7

LEMMA CallsCommon ==
  ASSUME NEW t, NEW ns, NEW client, NEW calls, IsList(calls), calls # <<>>, NEW last, NEW map,
         HaveAsked(t, ns, client, calls, last, map),
         NEW fr, HasPairs(t, ns, fr), Key(fr) = Key(calls[Len(calls)]),
         NEW first, NEW second, <<first, second>> = Asked(ns, fr)
  PROVE  HaveAsked(t, ns, client, Append(LastAs(calls, fr), Frame(first, second)), <<>>, map)
<1>1. PICK n, on : n = Len(calls) /\ on = LastAs(calls, fr) /\ EndsIn(calls, fr, n, on)
  BY LastIs
<1>2. IsList(on) /\ Len(on) = n /\ DOMAIN on = 1..n /\ on[n] = fr /\ n \in Nat /\ n >= 1
  BY <1>1 DEF EndsIn
<1>3. HaveAsked(t, ns, client, on, <<>>, map)
  BY <1>1, GoesOnCommon
<1>4. /\ client[1] \in DOMAIN ns /\ client[2] \in DOMAIN ns /\ AreCommon(t, ns, map)
      /\ \A i \in DOMAIN on : HasPairs(t, ns, on[i]) /\ Key(on[i]) = AskedAt(ns, client, on, i)
  BY <1>3 DEF HaveAsked
<1>5. PICK new : new = Frame(first, second)
  OBVIOUS
<1>6. HasPairs(t, ns, new) /\ Key(new) = Asked(ns, fr)
  BY <1>5, FrameBegins
<1>7. PICK more : more = Append(on, new) /\ IsLonger(on, new, n, more)
  BY <1>2, AppendedIs
<1>8. /\ IsList(more) /\ Len(more) = n + 1 /\ more[n + 1] = new /\ DOMAIN more = 1..n + 1
      /\ \A i \in 1..n : more[i] = on[i]
  BY <1>7 DEF IsLonger
<1>9. ASSUME NEW i \in 1..n + 1
      PROVE  HasPairs(t, ns, more[i]) /\ Key(more[i]) = AskedAt(ns, client, more, i)
  <2>1. CASE i = n + 1
    <3>1. i - 1 = n /\ n \in 1..n /\ i # 1
      BY <1>2, <2>1
    <3>2. more[i - 1] = fr
      BY <1>2, <1>8, <3>1
    <3>3. AskedAt(ns, client, more, i) = Asked(ns, fr)
      BY <3>1, <3>2 DEF AskedAt
    <3>4. QED
      BY <1>6, <1>8, <2>1, <3>3
  <2>2. CASE i # n + 1
    <3>1. i \in 1..n /\ (i = 1 \/ i - 1 \in 1..n)
      BY <1>2, <2>2
    <3>2. more[i] = on[i] /\ (i = 1 \/ more[i - 1] = on[i - 1])
      BY <1>8, <3>1
    <3>3. AskedAt(ns, client, more, i) = AskedAt(ns, client, on, i)
      BY <3>2 DEF AskedAt
    <3>4. QED
      BY <1>2, <1>4, <3>1, <3>2, <3>3
  <2>3. QED
    BY <2>1, <2>2
<1>10. HaveAsked(t, ns, client, more, <<>>, map)
  BY <1>4, <1>8, <1>9 DEF HaveAsked
<1>11. QED
  BY <1>1, <1>5, <1>7, <1>10

\* The cache with one more.
LEMMA CommonWith ==
  ASSUME NEW t, NEW ns, NEW map, AreCommon(t, ns, map), NEW k, NEW result, IsCommon(t, ns, k, result)
  PROVE  AreCommon(t, ns, Assigned(map, k, result))
<1>1. PICK more : more = Assigned(map, k, result)
  OBVIOUS
<1>2. DOMAIN more = DOMAIN map \cup {k} /\ \A j \in DOMAIN more : more[j] = IF j = k THEN result ELSE map[j]
  BY <1>1 DEF Assigned
<1>3. \A j \in DOMAIN more : IsCommon(t, ns, j, more[j])
  BY <1>2 DEF AreCommon
<1>4. QED
  BY <1>1, <1>3 DEF AreCommon

\* Every element of the one with every element of the other is a pair.
IsPairOf(n, s, q, i, j) == q \in 1..n * s /\ (q - 1) \div s + 1 = i /\ ((q - 1) % s) + 1 = j
LEMMA PairAt ==
  ASSUME NEW n \in Nat, NEW s \in Nat, NEW i \in 1..n, NEW j \in 1..s
  PROVE  \E q : IsPairOf(n, s, q, i, j)
<1>1. PICK a \in Nat, b \in 0..s - 1 : a = i - 1 /\ b = j - 1 /\ s > 0 /\ a <= n - 1
  OBVIOUS
<1>2. (a * s + b) \div s = a /\ (a * s + b) % s = b
  BY <1>1
<1>3. a * s \in Nat /\ n * s \in Nat /\ (n - 1) * s = n * s - s
  BY <1>1
<1>4. a * s <= (n - 1) * s
  BY <1>1
<1>5. PICK m \in Nat, k \in Nat : m = a * s /\ k = n * s
  BY <1>3
<1>6. m + b + 1 \in 1..k
  BY <1>1, <1>3, <1>4, <1>5
<1>7. PICK q \in 1..k : q = m + b + 1 /\ q - 1 = m + b
  BY <1>5, <1>6
<1>8. (q - 1) \div s = a /\ (q - 1) % s = b
  BY <1>2, <1>5, <1>7, Zenon
<1>9. a + 1 = i /\ b + 1 = j
  BY <1>1
<1>10. (q - 1) \div s + 1 = i /\ ((q - 1) % s) + 1 = j
  BY <1>8, <1>9, Zenon
<1>11. q \in 1..n * s
  BY <1>5, <1>7, Zenon
<1>12. QED
  BY <1>10, <1>11, Zenon DEF IsPairOf

\* The models that two decision nodes both have are those of their pairs.
LEMMA PairsCover ==
  ASSUME NEW t, NEW ns, AreNodes(ns), AreFitted(t, ns), NEW f, NEW fr, IsFrame(ns, f, fr), fr.pair > 0, NEW x
  PROVE  /\ BothHave(t, ns, Key(fr), x) <=> \E q \in 1..LastPair(ns, fr) : PairHas(t, ns, fr, q, x)
         /\ LastPair(ns, fr) \in Nat
<1>1. PICK c, d : c = ns[fr.first] /\ d = ns[fr.second]
  OBVIOUS
<1>2. PICK es, ds : es = c.elements /\ ds = d.elements
  OBVIOUS
<1>3. fr.first \in DOMAIN ns /\ fr.second \in DOMAIN ns /\ c.type = "decision" /\ d.type = "decision"
  BY <1>1 DEF IsFrame
<1>4. HasChildrenIn(c, DOMAIN ns) /\ HasChildrenIn(d, DOMAIN ns)
  BY <1>1, <1>3 DEF AreNodes, IsWhole
<1>5. IsList(es) /\ IsList(ds)
  BY <1>2, <1>3, <1>4 DEF HasChildrenIn
<1>6. PICK n \in Nat, s \in Nat : n = Len(es) /\ s = Len(ds) /\ DOMAIN es = 1..n /\ DOMAIN ds = 1..s
  BY <1>5, ListIs
<1>7. Len(ns[fr.first].elements) = n /\ Len(ns[fr.second].elements) = s
  BY <1>1, <1>2, <1>6, Zenon
<1>8. LastPair(ns, fr) = n * s
  BY <1>7, Zenon DEF LastPair
<1>9. /\ HasModel(t, ns, fr.first, x) <=> SomeHas(t, ns, es, x)
      /\ HasModel(t, ns, fr.second, x) <=> SomeHas(t, ns, ds, x)
  BY <1>1, <1>2, <1>3, DecisionModels
<1>10. BothHave(t, ns, Key(fr), x) <=> HasModel(t, ns, fr.first, x) /\ HasModel(t, ns, fr.second, x)
  <2>1. PICK k, a, b : k = Key(fr) /\ a = fr.first /\ b = fr.second
    OBVIOUS
  <2>2. k = <<a, b>>
    BY <2>1 DEF Key
  <2>3. k[1] = a /\ k[2] = b
    BY <2>2
  <2>4. QED
    BY <2>1, <2>3, Zenon DEF BothHave
<1> DEFINE OneHas(i) == HasModel(t, ns, es[i].prime, x) /\ HasModel(t, ns, es[i].sub, x)
           TwoHas(j) == HasModel(t, ns, ds[j].prime, x) /\ HasModel(t, ns, ds[j].sub, x)
<1>11. ASSUME NEW q \in 1..n * s, NEW i, NEW j, i = (q - 1) \div s + 1, j = ((q - 1) % s) + 1
       PROVE  PairHas(t, ns, fr, q, x) <=> OneHas(i) /\ TwoHas(j)
  <2>1. OneOf(ns, fr, q) = es[i] /\ TwoOf(ns, fr, q) = ds[j]
    BY <1>1, <1>2, <1>7, <1>11, Zenon DEF OneOf, TwoOf
  <2>2. PICK p, r, u, w : p = es[i].prime /\ r = es[i].sub /\ u = ds[j].prime /\ w = ds[j].sub
    OBVIOUS
  <2>3. Primes(ns, fr, q) = <<p, u>> /\ Subs(ns, fr, q) = <<r, w>>
    BY <2>1, <2>2, Zenon DEF Primes, Subs
  <2>4. /\ BothHave(t, ns, <<p, u>>, x) <=> HasModel(t, ns, p, x) /\ HasModel(t, ns, u, x)
        /\ BothHave(t, ns, <<r, w>>, x) <=> HasModel(t, ns, r, x) /\ HasModel(t, ns, w, x)
    BY DEF BothHave
  <2>5. QED
    BY <2>2, <2>3, <2>4, Zenon DEF PairHas
<1>12. ASSUME NEW q \in 1..n * s, PairHas(t, ns, fr, q, x)
       PROVE  (\E i \in DOMAIN es : OneHas(i)) /\ (\E j \in DOMAIN ds : TwoHas(j))
  <2>1. PICK i, j : i = (q - 1) \div s + 1 /\ j = ((q - 1) % s) + 1
    OBVIOUS
  <2>2. (q - 1) \div s + 1 \in 1..n /\ ((q - 1) % s) + 1 \in 1..s
    BY PairIs
  <2>3. i \in DOMAIN es /\ j \in DOMAIN ds
    BY <1>6, <2>1, <2>2, Zenon
  <2>4. OneHas(i) /\ TwoHas(j)
    BY <1>11, <1>12, <2>1, Zenon
  <2>5. QED
    BY <2>3, <2>4, Zenon
<1>13. ASSUME NEW i \in DOMAIN es, OneHas(i), NEW j \in DOMAIN ds, TwoHas(j)
       PROVE  \E q \in 1..n * s : PairHas(t, ns, fr, q, x)
  <2>1. i \in 1..n /\ j \in 1..s
    BY <1>6, <1>13, Zenon
  <2>2. PICK q : IsPairOf(n, s, q, i, j)
    BY <2>1, PairAt, Zenon
  <2>3. q \in 1..n * s /\ i = (q - 1) \div s + 1 /\ j = ((q - 1) % s) + 1
    BY <2>2, Zenon DEF IsPairOf
  <2>4. PairHas(t, ns, fr, q, x)
    BY <1>11, <1>13, <2>3, Zenon
  <2>5. QED
    BY <2>3, <2>4, Zenon
<1>14. SomeHas(t, ns, es, x) /\ SomeHas(t, ns, ds, x) <=> \E q \in 1..n * s : PairHas(t, ns, fr, q, x)
  BY <1>12, <1>13, Zenon DEF SomeHas
<1>15. n * s \in Nat
  OBVIOUS
<1>16. QED
  BY <1>8, <1>9, <1>10, <1>14, <1>15, Zenon

-----------------------------------------------------------------------------
(***************************************************************************)
(* What MultiplyWithCache knows of the models of the nodes of its calls.   *)
(***************************************************************************)
Client == <<Result(call.first).node, Result(call.second).node>>
ProductsFound == pass = "multiply" => HaveAsked(tree, nodes[here], Client, stack, returned, cache)
CacheForgotten == pass # "multiply" => cache = <<>>
ProductInvariant == ProductsFound /\ CacheForgotten

\* What a step begins with.
LEMMA MultiplyKnows ==
  ASSUME FlagInvariant, FitInvariant, ProductInvariant, InMultiply
  PROVE  /\ IsForest(tree) /\ AreNodes(nodes[here]) /\ AreFitted(tree, nodes[here]) /\ Len(results) < Len(program)
         /\ AreCalls(nodes[here], flag, stack, returned, cache) /\ IsList(stack) /\ stack # <<>>
         /\ Top = stack[Len(stack)] /\ IsFrame(nodes[here], flag, Top)
         /\ HaveAsked(tree, nodes[here], Client, stack, returned, cache)
         /\ HasPairs(tree, nodes[here], Top) /\ AreCommon(tree, nodes[here], cache)
         /\ returned # <<>> => IsCommon(tree, nodes[here], Asked(nodes[here], Top), returned[1])
<1>1. /\ Len(results) < Len(program) /\ AreNodes(nodes[here]) /\ stack # <<>> /\ pass = "multiply"
      /\ AreCalls(nodes[here], flag, stack, returned, cache) /\ IsFrame(nodes[here], flag, Top)
  BY MultiplyHas
<1>2. IsForest(tree) /\ AreFitted(tree, nodes[here])
  BY <1>1, CallFits DEF FitInvariant
<1>3. IsList(stack)
  BY <1>1 DEF AreCalls
<1>4. PICK t, ns, client, calls, last, map, fr :
        /\ t = tree /\ ns = nodes[here] /\ client = Client /\ calls = stack /\ last = returned /\ map = cache /\ fr = Top
  OBVIOUS
<1>5. HaveAsked(t, ns, client, calls, last, map)
  BY <1>1, <1>4 DEF ProductInvariant, ProductsFound
<1>6. PICK n \in Nat : n = Len(calls) /\ n >= 1 /\ DOMAIN calls = 1..n /\ n \in DOMAIN calls
  BY <1>1, <1>3, <1>4, LastOf
<1>7. fr = calls[n]
  BY <1>4, <1>6 DEF Top
<1>8. HasPairs(t, ns, fr) /\ AreCommon(t, ns, map)
  BY <1>5, <1>6, <1>7 DEF HaveAsked
<1>9. AskedAt(ns, client, calls, n + 1) = Asked(ns, fr)
  <2>1. n + 1 # 1 /\ (n + 1) - 1 = n
    BY <1>6
  <2>2. QED
    BY <1>7, <2>1 DEF AskedAt
<1>10. last # <<>> => IsCommon(t, ns, Asked(ns, fr), last[1])
  BY <1>5, <1>6, <1>9 DEF HaveAsked
<1>11. QED
  BY <1>1, <1>2, <1>3, <1>4, <1>5, <1>6, <1>7, <1>8, <1>10, Zenon

\* What a step leaves behind.
LEMMA MultiplyLearns ==
  ASSUME InMultiply, HaveAsked(tree, nodes'[here], Client, stack', returned', cache')
  PROVE  ProductInvariant'
<1>1. program' = program /\ results' = results /\ pass' = "multiply"
  BY DEF InMultiply, clientVars
<1>2. call' = call
  BY <1>1 DEF call
<1>3. here' = here /\ tree' = tree /\ Client' = Client
  BY <1>1, <1>2 DEF here, tree, Client, Result
<1>4. ProductsFound'
  BY <1>3 DEF ProductsFound
<1>5. QED
  BY <1>1, <1>4 DEF ProductInvariant, CacheForgotten

LEMMA LookupLearns ==
  ASSUME FlagInvariant, FitInvariant, ProductInvariant, Lookup
  PROVE  ProductInvariant'
<1>1. /\ InMultiply /\ Key(Top) \in DOMAIN cache /\ nodes' = nodes /\ cache' = cache
      /\ stack' = Front(stack) /\ returned' = <<cache[Key(Top)]>>
  BY DEF Lookup, Leave
<1>2. PICK t, ns, client, calls, last, map, result :
        /\ t = tree /\ ns = nodes[here] /\ client = Client /\ calls = stack /\ last = returned /\ map = cache
        /\ result = cache[Key(Top)]
  OBVIOUS
<1>3. /\ IsList(calls) /\ calls # <<>> /\ Top = calls[Len(calls)] /\ HaveAsked(t, ns, client, calls, last, map)
      /\ AreCommon(t, ns, map)
  BY <1>1, <1>2, MultiplyKnows
<1>4. IsCommon(t, ns, Key(calls[Len(calls)]), result)
  BY <1>1, <1>2, <1>3 DEF AreCommon
<1>5. HaveAsked(t, ns, client, Front(calls), <<result>>, map)
  BY <1>3, <1>4, LeavesCommon
<1>6. HaveAsked(tree, nodes'[here], Client, stack', returned', cache')
  BY <1>1, <1>2, <1>5
<1>7. QED
  BY <1>1, <1>6, MultiplyLearns

\* The last call ends with a result that is put into the cache.
LEMMA ResultLearns ==
  ASSUME FlagInvariant, FitInvariant, ProductInvariant, InMultiply,
         NEW more, AreNodes(more), AreFitted(tree, more), GrowsTo(nodes[here], more), nodes'[here] = more,
         NEW result, IsCommon(tree, more, Key(Top), result), Update(result), Leave(result)
  PROVE  ProductInvariant'
<1>1. PICK t, ns, f, client, calls, last, map, k :
        /\ t = tree /\ ns = nodes[here] /\ f = flag /\ client = Client /\ calls = stack /\ last = returned /\ map = cache
        /\ k = Key(Top)
  OBVIOUS
<1>2. /\ AreNodes(ns) /\ AreFitted(t, ns) /\ AreCalls(ns, f, calls, last, map) /\ IsList(calls) /\ calls # <<>>
      /\ k = Key(calls[Len(calls)]) /\ HaveAsked(t, ns, client, calls, last, map)
  BY <1>1, MultiplyKnows
<1>3. /\ stack' = Front(calls) /\ returned' = <<result>> /\ cache' = Assigned(map, k, result)
  BY <1>1 DEF Update, Leave
<1>4. AreFitted(t, more) /\ GrowsTo(ns, more) /\ IsCommon(t, more, k, result)
  BY <1>1
<1>5. HaveAsked(t, more, client, calls, last, map)
  BY <1>2, <1>4, AskedStay
<1>6. PICK known : known = Assigned(map, k, result)
  OBVIOUS
<1>7. AreCommon(t, more, map)
  BY <1>5 DEF HaveAsked
<1>8. AreCommon(t, more, known)
  BY <1>4, <1>6, <1>7, CommonWith
<1>9. HaveAsked(t, more, client, Front(calls), <<result>>, known)
  BY <1>2, <1>4, <1>5, <1>8, LeavesCommon
<1>10. HaveAsked(tree, nodes'[here], Client, stack', returned', cache')
  BY <1>1, <1>3, <1>6, <1>9
<1>11. QED
  BY <1>10, MultiplyLearns

\* What two leaves have in common.
IsOfSign(ns, a, v, s) == a \in DOMAIN ns /\ ns[a].vtree = v /\ ns[a].type = "literal" /\ ns[a].sign = s
IsTopFor(ns, a, v) == a \in DOMAIN ns /\ ns[a].vtree = v /\ ns[a].type = "top"
SaysOf(t, x, v, s) == s = (t[v].variable \in x)
LEMMA SignModels ==
  ASSUME NEW t, NEW ns, AreNodes(ns), AreFitted(t, ns), NEW a, NEW v, NEW s, IsOfSign(ns, a, v, s), NEW x
  PROVE  HasModel(t, ns, a, x) <=> SaysOf(t, x, v, s)
<1>1. a \in DOMAIN ns /\ ns[a].type = "literal" /\ ns[a].vtree = v /\ ns[a].sign = s
  BY DEF IsOfSign
<1>2. HasModel(t, ns, a, x) <=> (ns[a].sign = (t[ns[a].vtree].variable \in x))
  BY <1>1, LiteralModels
<1>3. QED
  BY <1>1, <1>2, Zenon DEF SaysOf

LEMMA LeavesInCommon ==
  ASSUME NEW t, NEW ns, AreNodes(ns), AreFitted(t, ns), NEW a, NEW b, NEW v, NEW r, NEW s,
         \/ IsOfSign(ns, a, v, s) /\ IsOfSign(ns, b, v, s) /\ IsOfSign(ns, r.node, v, s)
         \/ IsOfSign(ns, a, v, s) /\ IsTopFor(ns, b, v) /\ IsOfSign(ns, r.node, v, s)
         \/ IsTopFor(ns, a, v) /\ IsOfSign(ns, b, v, s) /\ IsOfSign(ns, r.node, v, s)
         \/ IsTopFor(ns, a, v) /\ IsTopFor(ns, b, v) /\ IsTopFor(ns, r.node, v)
         \/ r.node = NullNode /\ \E o : o # s /\ IsOfSign(ns, a, v, s) /\ IsOfSign(ns, b, v, o)
  PROVE  IsCommon(t, ns, <<a, b>>, r)
<1>1. PICK n, pair : n = r.node /\ pair = <<a, b>>
  OBVIOUS
<1>2. pair[1] = a /\ pair[2] = b
  BY <1>1
<1>3. a \in DOMAIN ns /\ b \in DOMAIN ns /\ ns[a].vtree = v /\ (n # NullNode => IsFor(ns, n, v))
  BY <1>1 DEF IsOfSign, IsTopFor, IsFor
<1>4. ASSUME NEW c, IsTopFor(ns, c, v), NEW x
      PROVE  HasModel(t, ns, c, x)
  BY <1>4, TopModels DEF IsTopFor
<1>5. ASSUME NEW x
      PROVE  HasModel(t, ns, n, x) <=> HasModel(t, ns, a, x) /\ HasModel(t, ns, b, x)
  <2>1. CASE IsOfSign(ns, a, v, s) /\ IsOfSign(ns, b, v, s) /\ IsOfSign(ns, n, v, s)
    BY <2>1, SignModels
  <2>2. CASE IsOfSign(ns, a, v, s) /\ IsTopFor(ns, b, v) /\ IsOfSign(ns, n, v, s)
    BY <1>4, <2>2, SignModels
  <2>3. CASE IsTopFor(ns, a, v) /\ IsOfSign(ns, b, v, s) /\ IsOfSign(ns, n, v, s)
    BY <1>4, <2>3, SignModels
  <2>4. CASE IsTopFor(ns, a, v) /\ IsTopFor(ns, b, v) /\ IsTopFor(ns, n, v)
    BY <1>4, <2>4
  <2>5. CASE n = NullNode /\ \E o : o # s /\ IsOfSign(ns, a, v, s) /\ IsOfSign(ns, b, v, o)
    <3>1. PICK o : o # s /\ IsOfSign(ns, a, v, s) /\ IsOfSign(ns, b, v, o)
      BY <2>5
    <3>2. ~HasModel(t, ns, n, x)
      BY <2>5 DEF HasModel
    <3>3. (HasModel(t, ns, a, x) <=> SaysOf(t, x, v, s)) /\ (HasModel(t, ns, b, x) <=> SaysOf(t, x, v, o))
      BY <3>1, SignModels
    <3>4. ~ (SaysOf(t, x, v, s) /\ SaysOf(t, x, v, o))
      BY <3>1, Zenon DEF SaysOf
    <3>5. QED
      BY <3>2, <3>3, <3>4
  <2>6. QED
    BY <1>1, <2>1, <2>2, <2>3, <2>4, <2>5, Zenon
<1>6. n # NullNode => IsFor(ns, n, ns[a].vtree)
  BY <1>3
<1>7. IsCommon(t, ns, pair, r)
  BY <1>1, <1>2, <1>3, <1>5, <1>6, Zenon DEF IsCommon
<1>8. QED
  BY <1>1, <1>7

\* The node of a product of leaves.
LEMMA LiteralResultHas ==
  ASSUME IsState(Begun(nodes[here]), flag), NEW sign, NEW value, NEW lr, lr = LiteralResult(sign, value)
  PROVE  IsOfSign(lr.st.nodes, lr.result.node, First.vtree, sign)
<1>1. PICK f, begun, v : f = flag /\ begun = Begun(nodes[here]) /\ v = First.vtree
  OBVIOUS
<1>2. PICK st : st = GetUniqueNode(begun, LiteralNode(v, sign, f))
  OBVIOUS
<1>3. /\ st.node \in DOMAIN st.nodes /\ st.nodes[st.node].type = "literal"
      /\ st.nodes[st.node].sign = sign /\ st.nodes[st.node].vtree = v
  BY <1>1, <1>2, UniqueLiteralHas
<1>4. lr = [st |-> st, result |-> [node |-> st.node, value |-> value]]
  BY <1>1, <1>2 DEF LiteralResult
<1>5. lr.st = st /\ lr.result.node = st.node
  BY <1>4
<1>6. QED
  BY <1>1, <1>3, <1>5 DEF IsOfSign

LEMMA TopResultHas ==
  ASSUME IsState(Begun(nodes[here]), flag), NEW lr, lr = TopResult
  PROVE  IsTopFor(lr.st.nodes, lr.result.node, First.vtree)
<1>1. PICK f, begun, v : f = flag /\ begun = Begun(nodes[here]) /\ v = First.vtree
  OBVIOUS
<1>2. PICK positive, negative :
        /\ positive = Times(First.true_parameter, Second.true_parameter)
        /\ negative = Times(First.false_parameter, Second.false_parameter)
  OBVIOUS
<1>3. PICK partition : partition = Plus(positive, negative)
  OBVIOUS
<1>4. PICK yes, no : yes = Over(positive, partition) /\ no = Over(negative, partition)
  OBVIOUS
<1>5. PICK st : st = GetUniqueNode(begun, TopNode(v, yes, no, f))
  OBVIOUS
<1>6. st.node \in DOMAIN st.nodes /\ st.nodes[st.node].type = "top" /\ st.nodes[st.node].vtree = v
  BY <1>1, <1>5, UniqueTopHas
<1>7. lr = [st |-> st, result |-> [node |-> st.node, value |-> partition]]
  BY <1>1, <1>2, <1>3, <1>4, <1>5 DEF TopResult
<1>8. lr.st = st /\ lr.result.node = st.node
  BY <1>7
<1>9. QED
  BY <1>1, <1>6, <1>8 DEF IsTopFor

LEMMA LeafResultHas ==
  ASSUME FlagInvariant, FitInvariant, AssertionsHold, InMultiply, ~AreDecisions, NEW lr, lr = LeafResult
  PROVE  IsCommon(tree, lr.st.nodes, Key(Top), lr.result)
<1>1. /\ AreNodes(nodes[here]) /\ IsFrame(nodes[here], flag, Top) /\ pass = "multiply" /\ Len(results) < Len(program)
      /\ AreCalls(nodes[here], flag, stack, returned, cache) /\ stack # <<>>
  BY MultiplyHas
<1>2. LeafCases(lr) /\ LeafResultIs(lr) /\ First.vtree = Second.vtree
  BY LeavesAre
<1>3. AreFitted(tree, lr.st.nodes)
  BY LeavesFit
<1>4. IsState(Begun(nodes[here]), flag)
  BY <1>1, CallFits DEF FitInvariant
<1>5. PICK t, ns, more, a, b, v, c, d, r :
        /\ t = tree /\ ns = nodes[here] /\ more = lr.st.nodes /\ a = Top.first /\ b = Top.second /\ v = First.vtree
        /\ c = First /\ d = Second /\ r = lr.result
  OBVIOUS
<1>6. GrowsTo(ns, more) /\ AreNodes(more) /\ AreFitted(t, more)
  BY <1>2, <1>3, <1>5 DEF LeafResultIs, IsState
<1>7. a \in DOMAIN ns /\ b \in DOMAIN ns /\ c = ns[a] /\ d = ns[b] /\ c.vtree = v /\ d.vtree = v
  BY <1>1, <1>2, <1>5 DEF IsFrame, First, Second, Content
<1>8. /\ c.type = "literal" => IsOfSign(more, a, v, c.sign)
      /\ d.type = "literal" => IsOfSign(more, b, v, d.sign)
      /\ c.type = "top" => IsTopFor(more, a, v)
      /\ d.type = "top" => IsTopFor(more, b, v)
  BY <1>6, <1>7 DEF GrowsTo, IsOfSign, IsTopFor
<1>9. ASSUME NEW sign, NEW value, lr = LiteralResult(sign, value)
      PROVE  IsOfSign(more, r.node, v, sign)
  BY <1>4, <1>5, <1>9, LiteralResultHas
<1>10. lr = TopResult => IsTopFor(more, r.node, v)
  BY <1>4, <1>5, TopResultHas
<1>11. lr = [st |-> Begun(nodes[here]), result |-> NullResult] => r.node = NullNode
  BY <1>5 DEF NullResult
<1>12. \/ c.type = "literal" /\ d.type = "literal" /\ c.sign = d.sign /\ IsOfSign(more, r.node, v, c.sign)
       \/ c.type = "literal" /\ d.type = "literal" /\ c.sign # d.sign /\ r.node = NullNode
       \/ c.type = "literal" /\ d.type = "top" /\ IsOfSign(more, r.node, v, c.sign)
       \/ c.type = "top" /\ d.type = "literal" /\ IsOfSign(more, r.node, v, d.sign)
       \/ c.type = "top" /\ d.type = "top" /\ IsTopFor(more, r.node, v)
  BY <1>2, <1>5, <1>9, <1>10, <1>11 DEF LeafCases
<1>13. IsCommon(t, more, <<a, b>>, r)
  BY <1>6, <1>8, <1>12, LeavesInCommon
<1>14. QED
  BY <1>5, <1>13 DEF Key

LEMMA MultiplyLeavesLearns ==
  ASSUME FlagInvariant, FitInvariant, AssertionsHold, ProductInvariant, MultiplyLeaves
  PROVE  ProductInvariant'
<1>1. PICK lr, st, result : lr = LeafResult /\ st = LeafResult.st /\ result = LeafResult.result
  OBVIOUS
<1>2. InMultiply /\ ~AreDecisions /\ Made(st) /\ Update(result) /\ Leave(result)
  BY <1>1 DEF MultiplyLeaves
<1>3. Len(results) < Len(program)
  BY <1>2, MultiplyHas
<1>4. LeafResultIs(lr) /\ AreFitted(tree, lr.st.nodes) /\ IsCommon(tree, lr.st.nodes, Key(Top), lr.result)
  BY <1>1, <1>2, LeavesAre, LeavesFit, LeafResultHas
<1>5. PICK more : more = st.nodes
  OBVIOUS
<1>6. AreNodes(more) /\ AreFitted(tree, more) /\ GrowsTo(nodes[here], more) /\ IsCommon(tree, more, Key(Top), result)
  BY <1>1, <1>4, <1>5 DEF LeafResultIs, IsState
<1>7. nodes'[here] = more
  BY <1>1, <1>2, <1>3, <1>4, <1>5, MadeFits DEF FitInvariant
<1>8. QED
  BY <1>2, <1>6, <1>7, ResultLearns

\* The last call goes on, or calls itself.
LEMMA OnLearns ==
  ASSUME FlagInvariant, FitInvariant, ProductInvariant, InMultiply, NEW on, HasPairs(tree, nodes[here], on),
         Key(on) = Key(Top), ReplaceTop(on), returned' = <<>>, UNCHANGED <<nodes, cache>>
  PROVE  ProductInvariant'
<1>1. PICK t, ns, client, calls, last, map :
        /\ t = tree /\ ns = nodes[here] /\ client = Client /\ calls = stack /\ last = returned /\ map = cache
  OBVIOUS
<1>2. IsList(calls) /\ calls # <<>> /\ Top = calls[Len(calls)] /\ HaveAsked(t, ns, client, calls, last, map)
  BY <1>1, MultiplyKnows
<1>3. HasPairs(t, ns, on) /\ Key(on) = Key(calls[Len(calls)])
  BY <1>1, <1>2
<1>4. HaveAsked(t, ns, client, LastAs(calls, on), <<>>, map)
  BY <1>2, <1>3, GoesOnCommon
<1>5. stack' = LastAs(calls, on)
  BY <1>1 DEF ReplaceTop, LastAs
<1>6. HaveAsked(tree, nodes'[here], Client, stack', returned', cache')
  BY <1>1, <1>4, <1>5
<1>7. QED
  BY <1>6, MultiplyLearns

LEMMA CallLearns ==
  ASSUME FlagInvariant, FitInvariant, ProductInvariant, InMultiply, NEW on, HasPairs(tree, nodes[here], on),
         Key(on) = Key(Top), NEW first, NEW second, <<first, second>> = Asked(nodes[here], on), Call(on, first, second),
         UNCHANGED <<nodes, cache>>
  PROVE  ProductInvariant'
<1>1. PICK t, ns, client, calls, last, map :
        /\ t = tree /\ ns = nodes[here] /\ client = Client /\ calls = stack /\ last = returned /\ map = cache
  OBVIOUS
<1>2. IsList(calls) /\ calls # <<>> /\ Top = calls[Len(calls)] /\ HaveAsked(t, ns, client, calls, last, map)
  BY <1>1, MultiplyKnows
<1>3. HasPairs(t, ns, on) /\ Key(on) = Key(calls[Len(calls)]) /\ <<first, second>> = Asked(ns, on)
  BY <1>1, <1>2
<1>4. HaveAsked(t, ns, client, Append(LastAs(calls, on), Frame(first, second)), <<>>, map)
  BY <1>2, <1>3, CallsCommon
<1>5. stack' = Append(LastAs(calls, on), Frame(first, second)) /\ returned' = <<>>
  BY <1>1 DEF Call, LastAs
<1>6. HaveAsked(tree, nodes'[here], Client, stack', returned', cache')
  BY <1>1, <1>4, <1>5
<1>7. QED
  BY <1>6, MultiplyLearns

\* What a call asks for depends on the two nodes and the pair.
LEMMA SamePairs ==
  ASSUME NEW t, NEW ns, NEW fr, NEW on, on.first = fr.first, on.second = fr.second
  PROVE  /\ Key(on) = Key(fr) /\ LastPair(ns, on) = LastPair(ns, fr)
         /\ \A q : Primes(ns, on, q) = Primes(ns, fr, q) /\ Subs(ns, on, q) = Subs(ns, fr, q)
         /\ \A q, x : PairHas(t, ns, on, q, x) <=> PairHas(t, ns, fr, q, x)
<1>1. \A q : OneOf(ns, on, q) = OneOf(ns, fr, q) /\ TwoOf(ns, on, q) = TwoOf(ns, fr, q)
  BY Zenon DEF OneOf, TwoOf
<1>2. \A q : Primes(ns, on, q) = Primes(ns, fr, q) /\ Subs(ns, on, q) = Subs(ns, fr, q)
  BY <1>1, Zenon DEF Primes, Subs
<1>3. \A q, x : PairHas(t, ns, on, q, x) <=> PairHas(t, ns, fr, q, x)
  BY <1>2, Zenon DEF PairHas
<1>4. LastPair(ns, on) = LastPair(ns, fr)
  BY Zenon DEF LastPair
<1>5. Key(on) = Key(fr)
  BY Zenon DEF Key
<1>6. QED
  BY <1>2, <1>3, <1>4, <1>5, Zenon

\* A call that is done with a pair.
HaveOneMore(t, ns, fr, es) ==
  \A x : SomeHas(t, ns, es, x) <=> SomeHas(t, ns, fr.elements, x) \/ PairHas(t, ns, fr, fr.pair, x)
LEMMA PairDone ==
  ASSUME NEW t, NEW ns, AreNodes(ns), AreFitted(t, ns), NEW f, NEW fr, IsFrame(ns, f, fr), IsAtPair(ns, fr), fr.pair > 0,
         HasPairs(t, ns, fr), NEW es, AreFor(t, ns, ns[fr.first].vtree, es),
         HaveOneMore(t, ns, fr, es), NEW w, NEW on, on = DoneWith(fr, es, w)
  PROVE  HasPairs(t, ns, on) /\ Key(on) = Key(fr)
<1>1. on.first = fr.first /\ on.second = fr.second /\ on.pair = fr.pair + 1 /\ on.prime_result = <<>> /\ on.elements = es
  BY DEF DoneWith, FrameOf
<1>2. /\ Key(on) = Key(fr) /\ LastPair(ns, on) = LastPair(ns, fr)
      /\ \A q, x : PairHas(t, ns, on, q, x) <=> PairHas(t, ns, fr, q, x)
  BY <1>1, SamePairs
<1>3. PICK p \in Nat : p = fr.pair
  BY DEF IsFrame
<1>4. PICK m \in Nat : m = LastPair(ns, fr)
  BY PairsCover
<1>5. p \in 1..m
  BY <1>3, <1>4 DEF IsAtPair, LastPair
<1>6. on.pair = p + 1 /\ p + 1 \in 1..m + 1 /\ p + 1 # 0 /\ (p + 1) - 1 = p
  BY <1>1, <1>3, <1>5
<1>7. ASSUME NEW x
      PROVE  SomeHas(t, ns, on.elements, x) <=> \E q \in 1..p : PairHas(t, ns, on, q, x)
  <2>1. SomeHas(t, ns, fr.elements, x) <=> \E q \in 1..p - 1 : PairHas(t, ns, fr, q, x)
    BY <1>3 DEF HasPairs
  <2>2. SomeHas(t, ns, es, x) <=> SomeHas(t, ns, fr.elements, x) \/ PairHas(t, ns, fr, p, x)
    BY <1>3, Zenon DEF HaveOneMore
  <2>3. 1..p = (1..p - 1) \cup {p}
    BY <1>5
  <2>4. (\E q \in 1..p : PairHas(t, ns, fr, q, x)) <=>
        (\E q \in 1..p - 1 : PairHas(t, ns, fr, q, x)) \/ PairHas(t, ns, fr, p, x)
    BY <2>3, Zenon
  <2>5. (\E q \in 1..p : PairHas(t, ns, on, q, x)) <=> (\E q \in 1..p : PairHas(t, ns, fr, q, x))
    BY <1>2, Zenon
  <2>6. QED
    BY <1>1, <2>1, <2>2, <2>4, <2>5, Zenon
<1>8. PICK r : r = on.pair
  OBVIOUS
<1>9. r \in 1..LastPair(ns, on) + 1 /\ r # 0 /\ r - 1 = p
  BY <1>2, <1>4, <1>6, <1>8
<1>10. \A x : SomeHas(t, ns, on.elements, x) <=> \E q \in 1..r - 1 : PairHas(t, ns, on, q, x)
  BY <1>7, <1>9, Zenon
<1>11. AreFor(t, ns, ns[on.first].vtree, on.elements)
  BY <1>1, Zenon
<1>12. HasPairs(t, ns, on)
  BY <1>1, <1>8, <1>9, <1>10, <1>11 DEF HasPairs
<1>13. QED
  BY <1>2, <1>12

LEMMA BeginPairsLearns ==
  ASSUME FlagInvariant, FitInvariant, AssertionsHold, ProductInvariant, BeginPairs
  PROVE  ProductInvariant'
<1>1. /\ InMultiply /\ Top.pair = 0 /\ AreDecisions /\ ReplaceTop([Top EXCEPT !.pair = 1])
      /\ nodes' = nodes /\ returned' = returned /\ cache' = cache
  BY DEF BeginPairs
<1>2. returned = <<>>
  <2> SUFFICES ASSUME returned # <<>> PROVE FALSE
    OBVIOUS
  <2>1. Top.pair > 0
    BY <1>1, MultiplyHas, ElementsOfPair
  <2>2. QED
    BY <1>1, <2>1
<1>3. PICK t, ns, f, fr : t = tree /\ ns = nodes[here] /\ f = flag /\ fr = Top
  OBVIOUS
<1>4. /\ AreNodes(ns) /\ AreFitted(t, ns) /\ IsFrame(ns, f, fr) /\ HasPairs(t, ns, fr)
      /\ IsList(stack) /\ stack # <<>> /\ pass = "multiply"
  BY <1>1, <1>3, MultiplyKnows DEF InMultiply
<1>5. Len(stack) \in DOMAIN stack
  BY <1>4, LastOf
<1>6. First.type = "decision" /\ Second.type = "decision"
  BY <1>1, <1>4, <1>5 DEF AssertionsHold, MultiplyAsserts, AreDecisions, First, Second, Top
<1>7. ns[fr.first].type = "decision" /\ ns[fr.second].type = "decision"
  BY <1>3, <1>6 DEF First, Second, Content
<1>8. PICK w : w = fr.partition
  OBVIOUS
<1>9. fr.elements = <<>> /\ fr.prime_result = <<>>
  BY <1>1, <1>3, <1>4 DEF HasPairs
<1>10. PICK on : on = [first |-> fr.first, second |-> fr.second, pair |-> 1, prime_result |-> <<>>, elements |-> <<>>,
                       partition |-> w]
  OBVIOUS
<1>11. IsFrame(ns, f, on)
  <2>1. AreElements(ns, f, <<>>)
    BY <1>4, <1>9 DEF IsFrame
  <2>2. QED
    BY <1>4, <1>7, <1>10, <2>1, FrameOn
<1>12. on = [fr EXCEPT !.pair = 1]
  <2>1. fr = [first |-> fr.first, second |-> fr.second, pair |-> fr.pair, prime_result |-> <<>>, elements |-> <<>>,
              partition |-> w]
    BY <1>4, <1>8, <1>9 DEF IsFrame
  <2>2. QED
    BY <1>10, <2>1
<1>13. on.first = fr.first /\ on.second = fr.second /\ on.pair = 1 /\ on.prime_result = <<>> /\ on.elements = <<>>
  BY <1>10
<1>14. Key(on) = Key(fr)
  BY <1>13, SamePairs
<1>15. LastPair(ns, on) \in Nat
  BY <1>4, <1>11, <1>13, PairsCover
<1>16. DOMAIN <<>> = {} /\ 1..on.pair - 1 = {}
  BY <1>13
<1>17. AreFor(t, ns, ns[on.first].vtree, on.elements) /\ \A x : ~SomeHas(t, ns, on.elements, x)
  BY <1>13, <1>16 DEF AreFor, SomeHas
<1>18. on.pair \in 1..LastPair(ns, on) + 1 /\ on.pair # 0
  BY <1>13, <1>15
<1>19. HasPairs(t, ns, on)
  BY <1>13, <1>16, <1>17, <1>18, Zenon DEF HasPairs
<1>20. QED
  BY <1>1, <1>2, <1>3, <1>12, <1>14, <1>19, OnLearns

LEMMA MultiplyPrimesLearns ==
  ASSUME FlagInvariant, FitInvariant, ProductInvariant, MultiplyPrimes
  PROVE  ProductInvariant'
<1>1. PICK on, first, second : on = Top /\ first = FirstElement.prime /\ second = SecondElement.prime
  OBVIOUS
<1>2. InMultiply /\ on.prime_result = <<>> /\ Call(on, first, second) /\ nodes' = nodes /\ cache' = cache
  BY <1>1 DEF MultiplyPrimes
<1>3. HasPairs(tree, nodes[here], on)
  BY <1>1, <1>2, MultiplyKnows
<1>4. Asked(nodes[here], on) = Primes(nodes[here], on, on.pair)
  BY <1>2 DEF Asked
<1>5. FirstElement = OneOf(nodes[here], on, on.pair) /\ SecondElement = TwoOf(nodes[here], on, on.pair)
  BY <1>1 DEF FirstElement, SecondElement, SecondSize, First, Second, Content, OneOf, TwoOf
<1>6. <<first, second>> = Primes(nodes[here], on, on.pair)
  BY <1>1, <1>5, Zenon DEF Primes
<1>7. QED
  BY <1>1, <1>2, <1>3, <1>4, <1>6, CallLearns

LEMMA MultiplySubsLearns ==
  ASSUME FlagInvariant, FitInvariant, ProductInvariant, MultiplySubs
  PROVE  ProductInvariant'
<1>1. /\ InMultiply /\ returned # <<>> /\ returned[1].node # NullNode /\ Top.prime_result = <<>>
      /\ nodes' = nodes /\ cache' = cache
  BY DEF MultiplySubs
<1>2. PICK t, ns, f, fr, r, first, second :
        /\ t = tree /\ ns = nodes[here] /\ f = flag /\ fr = Top /\ r = returned
        /\ first = FirstElement.sub /\ second = SecondElement.sub
  OBVIOUS
<1>3. IsFrame(ns, f, fr) /\ HasPairs(t, ns, fr) /\ IsCommon(t, ns, Asked(ns, fr), r[1]) /\ r # <<>> /\ r[1].node # NullNode
  BY <1>1, <1>2, MultiplyKnows
<1>4. PICK on : on = [fr EXCEPT !.prime_result = r]
  OBVIOUS
<1>5. /\ on.first = fr.first /\ on.second = fr.second /\ on.pair = fr.pair /\ on.prime_result = r
      /\ on.elements = fr.elements
  BY <1>3, <1>4 DEF IsFrame
<1>6. /\ Key(on) = Key(fr) /\ LastPair(ns, on) = LastPair(ns, fr)
      /\ \A q : Primes(ns, on, q) = Primes(ns, fr, q) /\ Subs(ns, on, q) = Subs(ns, fr, q)
      /\ \A q, x : PairHas(t, ns, on, q, x) <=> PairHas(t, ns, fr, q, x)
  BY <1>5, SamePairs
<1>7. fr.pair > 0 /\ fr.pair \in Nat
  BY <1>1, <1>2, <1>3, MultiplyHas, ElementsOfPair DEF IsFrame
<1>8. IsCommon(t, ns, Primes(ns, on, on.pair), on.prime_result[1])
  <2>1. Asked(ns, fr) = Primes(ns, fr, fr.pair)
    BY <1>1, <1>2 DEF Asked
  <2>2. QED
    BY <1>3, <1>5, <1>6, <2>1, Zenon
<1>9. /\ on.pair # 0 /\ on.pair \in 1..LastPair(ns, on) + 1 /\ AreFor(t, ns, ns[on.first].vtree, on.elements)
  BY <1>3, <1>5, <1>6, <1>7 DEF HasPairs
<1>10. \A x : SomeHas(t, ns, on.elements, x) <=> \E q \in 1..on.pair - 1 : PairHas(t, ns, on, q, x)
  <2>1. \A x : SomeHas(t, ns, fr.elements, x) <=> \E q \in 1..fr.pair - 1 : PairHas(t, ns, fr, q, x)
    BY <1>3 DEF HasPairs
  <2>2. QED
    BY <1>5, <1>6, <2>1, Zenon
<1>11. HasPairs(t, ns, on)
  BY <1>3, <1>5, <1>8, <1>9, <1>10, Zenon DEF HasPairs
<1>12. Asked(ns, on) = Subs(ns, on, on.pair)
  BY <1>3, <1>5 DEF Asked
<1>13. FirstElement = OneOf(ns, fr, fr.pair) /\ SecondElement = TwoOf(ns, fr, fr.pair)
  BY <1>2 DEF FirstElement, SecondElement, SecondSize, First, Second, Content, OneOf, TwoOf
<1>14. <<first, second>> = Subs(ns, fr, fr.pair)
  BY <1>2, <1>13, Zenon DEF Subs
<1>15. <<first, second>> = Asked(ns, on)
  BY <1>5, <1>6, <1>12, <1>14, Zenon
<1>16. Call(on, first, second)
  BY <1>2, <1>4 DEF MultiplySubs
<1>17. QED
  BY <1>1, <1>2, <1>6, <1>11, <1>15, <1>16, CallLearns

LEMMA PairIsEmptyLearns ==
  ASSUME FlagInvariant, FitInvariant, ProductInvariant, PairIsEmpty
  PROVE  ProductInvariant'
<1>1. /\ InMultiply /\ returned # <<>> /\ returned[1].node = NullNode /\ ReplaceTop(NextPair) /\ returned' = <<>>
      /\ nodes' = nodes /\ cache' = cache
  BY DEF PairIsEmpty
<1>2. PICK t, ns, f, fr, p, r : t = tree /\ ns = nodes[here] /\ f = flag /\ fr = Top /\ p = fr.pair /\ r = returned[1]
  OBVIOUS
<1>3. /\ AreNodes(ns) /\ AreFitted(t, ns) /\ IsFrame(ns, f, fr) /\ HasPairs(t, ns, fr)
      /\ IsCommon(t, ns, Asked(ns, fr), r) /\ r.node = NullNode
  BY <1>1, <1>2, MultiplyKnows
<1>4. IsAtPair(ns, fr) /\ fr.pair > 0
  BY <1>1, <1>2, MultiplyHas, ElementsOfPair
<1>5. ASSUME NEW x
      PROVE  ~PairHas(t, ns, fr, p, x)
  <2>1. ~HasModel(t, ns, r.node, x)
    BY <1>3 DEF HasModel
  <2>2. ~BothHave(t, ns, Asked(ns, fr), x)
    BY <1>3, <2>1, Zenon DEF IsCommon, BothHave
  <2>3. Asked(ns, fr) = Primes(ns, fr, p) \/ Asked(ns, fr) = Subs(ns, fr, p)
    BY <1>2 DEF Asked
  <2>4. QED
    BY <2>2, <2>3, Zenon DEF PairHas
<1>6. PICK es, w : es = fr.elements /\ w = fr.partition
  OBVIOUS
<1>7. AreFor(t, ns, ns[fr.first].vtree, es)
  BY <1>3, <1>6 DEF HasPairs
<1>8. HaveOneMore(t, ns, fr, es)
  BY <1>2, <1>5, <1>6, Zenon DEF HaveOneMore
<1>9. PICK on : on = DoneWith(fr, es, w)
  OBVIOUS
<1>10. HasPairs(t, ns, on) /\ Key(on) = Key(fr)
  BY <1>3, <1>4, <1>7, <1>8, <1>9, PairDone
<1>11. on = NextPair
  BY <1>2, <1>3, <1>6, <1>9, NextPairIs DEF IsFrame, IsWholeFrame
<1>12. QED
  BY <1>1, <1>2, <1>10, <1>11, OnLearns

\* One more element.
LEMMA AppendHas ==
  ASSUME NEW t, NEW ns, NEW es, IsList(es), NEW e, NEW more, more = Append(es, e)
  PROVE  /\ \A x : SomeHas(t, ns, more, x) <=>
                   SomeHas(t, ns, es, x) \/ (HasModel(t, ns, e.prime, x) /\ HasModel(t, ns, e.sub, x))
         /\ \A v : AreFor(t, ns, v, es) /\ IsFor(ns, e.prime, t[v].left) /\ IsFor(ns, e.sub, t[v].right) =>
                   AreFor(t, ns, v, more)
<1>1. PICK n \in Nat : n = Len(es) /\ DOMAIN es = 1..n
  BY ListIs
<1>2. DOMAIN more = 1..n + 1 /\ more[n + 1] = e /\ \A i \in 1..n : more[i] = es[i]
  BY <1>1, AppendIsList
<1>3. DOMAIN more = DOMAIN es \cup {n + 1}
  BY <1>1, <1>2
<1>4. ASSUME NEW x
      PROVE  SomeHas(t, ns, more, x) <=>
             SomeHas(t, ns, es, x) \/ (HasModel(t, ns, e.prime, x) /\ HasModel(t, ns, e.sub, x))
  BY <1>1, <1>2, <1>3, Zenon DEF SomeHas
<1>5. ASSUME NEW v, AreFor(t, ns, v, es), IsFor(ns, e.prime, t[v].left), IsFor(ns, e.sub, t[v].right)
      PROVE  AreFor(t, ns, v, more)
  BY <1>1, <1>2, <1>3, <1>5, Zenon DEF AreFor
<1>6. QED
  BY <1>4, <1>5

LEMMA PushElementLearns ==
  ASSUME FlagInvariant, FitInvariant, ProductInvariant, PushElement
  PROVE  ProductInvariant'
<1>1. PICK prime, weight : prime = Top.prime_result[1] /\ weight = WeightOf(Top.prime_result[1], returned[1])
  OBVIOUS
<1>2. /\ InMultiply /\ returned # <<>> /\ returned[1].node # NullNode /\ Top.prime_result # <<>>
      /\ returned' = <<>> /\ nodes' = nodes /\ cache' = cache
      /\ ReplaceTop([NextPair EXCEPT !.elements = Append(@, Element(prime.node, returned[1].node, weight)),
                                     !.partition = Plus(@, weight)])
  BY <1>1 DEF PushElement
<1>3. PICK t, ns, f, fr, p, r : t = tree /\ ns = nodes[here] /\ f = flag /\ fr = Top /\ p = fr.pair /\ r = returned[1]
  OBVIOUS
<1>4. /\ AreNodes(ns) /\ AreFitted(t, ns) /\ IsFrame(ns, f, fr) /\ HasPairs(t, ns, fr)
      /\ IsCommon(t, ns, Asked(ns, fr), r)
  BY <1>2, <1>3, MultiplyKnows
<1>5. IsAtPair(ns, fr) /\ fr.pair > 0
  BY <1>2, <1>3, MultiplyHas, ElementsOfPair
<1>6. PICK a, b, v : a = prime.node /\ b = r.node /\ v = ns[fr.first].vtree
  OBVIOUS
<1>7. IsCommon(t, ns, Primes(ns, fr, p), prime) /\ a # NullNode /\ IsCommon(t, ns, Subs(ns, fr, p), r) /\ b # NullNode
  <2>1. IsCommon(t, ns, Primes(ns, fr, p), prime) /\ prime.node # NullNode
    BY <1>1, <1>2, <1>3, <1>4 DEF HasPairs
  <2>2. Asked(ns, fr) = Subs(ns, fr, p)
    BY <1>2, <1>3 DEF Asked
  <2>3. QED
    BY <1>2, <1>3, <1>4, <1>6, <2>1, <2>2, Zenon
<1>8. p \in 1..LastPair(ns, fr)
  BY <1>3, <1>5 DEF IsAtPair, LastPair
<1>9. IsFor(ns, a, t[v].left) /\ IsFor(ns, b, t[v].right)
  <2>1. /\ ns[OneOf(ns, fr, p).prime].vtree = t[v].left
        /\ ns[OneOf(ns, fr, p).sub].vtree = t[v].right
    BY <1>4, <1>5, <1>6, <1>8, PairsAre
  <2>2. PICK c, d, ps, ss : c = OneOf(ns, fr, p) /\ d = TwoOf(ns, fr, p) /\ ps = Primes(ns, fr, p) /\ ss = Subs(ns, fr, p)
    OBVIOUS
  <2>3. ps = <<c.prime, d.prime>> /\ ss = <<c.sub, d.sub>>
    BY <2>2 DEF Primes, Subs
  <2>4. ps[1] = c.prime /\ ss[1] = c.sub
    BY <2>3
  <2>5. IsFor(ns, a, ns[ps[1]].vtree) /\ IsFor(ns, b, ns[ss[1]].vtree)
    BY <1>6, <1>7, <2>2, Zenon DEF IsCommon
  <2>6. QED
    BY <2>1, <2>2, <2>4, <2>5, Zenon
<1>10. ASSUME NEW x
       PROVE  PairHas(t, ns, fr, p, x) <=> HasModel(t, ns, a, x) /\ HasModel(t, ns, b, x)
  BY <1>6, <1>7, Zenon DEF PairHas, BothHave, IsCommon
<1>11. PICK e, es, more, w :
         /\ e = Element(a, b, weight) /\ es = fr.elements /\ more = Append(fr.elements, Element(a, b, weight))
         /\ w = Plus(fr.partition, weight)
  OBVIOUS
<1>12. e.prime = a /\ e.sub = b /\ IsList(es) /\ more = Append(es, e)
  BY <1>4, <1>11 DEF Element, IsFrame, AreElements
<1>13. AreFor(t, ns, v, es)
  BY <1>4, <1>6, <1>11 DEF HasPairs
<1>14. /\ \A x : SomeHas(t, ns, more, x) <=> SomeHas(t, ns, es, x) \/ (HasModel(t, ns, e.prime, x) /\ HasModel(t, ns, e.sub, x))
       /\ \A u : AreFor(t, ns, u, es) /\ IsFor(ns, e.prime, t[u].left) /\ IsFor(ns, e.sub, t[u].right) =>
                 AreFor(t, ns, u, more)
  BY <1>12, AppendHas
<1>15. AreFor(t, ns, v, more)
  BY <1>9, <1>12, <1>13, <1>14
<1>16. HaveOneMore(t, ns, fr, more)
  BY <1>3, <1>10, <1>11, <1>12, <1>14, Zenon DEF HaveOneMore
<1>17. PICK on : on = DoneWith(fr, more, w)
  OBVIOUS
<1>18. HasPairs(t, ns, on) /\ Key(on) = Key(fr)
  <2>1. AreFor(t, ns, ns[fr.first].vtree, more)
    BY <1>6, <1>15
  <2>2. QED
    BY <1>4, <1>5, <1>16, <1>17, <2>1, PairDone
<1>19. ReplaceTop(on)
  <2>1. IsWholeFrame(Top)
    BY <1>3, <1>4 DEF IsFrame, IsWholeFrame
  <2>2. QED
    BY <1>2, <1>3, <1>6, <1>11, <1>17, <2>1, PushedIs
<1>20. QED
  BY <1>2, <1>3, <1>18, <1>19, OnLearns

\* A call that is done with all pairs.
LEMMA AllPairsDone ==
  ASSUME NEW t, NEW ns, AreNodes(ns), AreFitted(t, ns), NEW f, NEW fr, IsFrame(ns, f, fr), fr.pair > 0,
         HasPairs(t, ns, fr), ~ (fr.pair <= LastPair(ns, fr)), NEW x
  PROVE  SomeHas(t, ns, fr.elements, x) <=> BothHave(t, ns, Key(fr), x)
<1>1. PICK p \in Nat : p = fr.pair
  BY DEF IsFrame
<1>2. PICK m \in Nat : m = LastPair(ns, fr)
  BY PairsCover
<1>3. p > 0 /\ ~ (p <= m) /\ p \in 1..m + 1
  BY <1>1, <1>2 DEF HasPairs
<1>4. p - 1 = m
  BY <1>3
<1>5. SomeHas(t, ns, fr.elements, x) <=> \E q \in 1..p - 1 : PairHas(t, ns, fr, q, x)
  BY <1>1 DEF HasPairs
<1>6. BothHave(t, ns, Key(fr), x) <=> \E q \in 1..m : PairHas(t, ns, fr, q, x)
  BY <1>2, PairsCover
<1>7. QED
  BY <1>4, <1>5, <1>6, Zenon

\* Elements whose parameters are divided have the same models.
LEMMA DividedHave ==
  ASSUME NEW t, NEW ns, NEW f, NEW es, AreElements(ns, f, es), NEW w, NEW more, more = Divided(es, w)
  PROVE  /\ \A v : AreFor(t, ns, v, es) => AreFor(t, ns, v, more)
         /\ \A x : SomeHas(t, ns, more, x) <=> SomeHas(t, ns, es, x)
<1>1. DOMAIN more = DOMAIN es
  BY DEF Divided
<1>2. ASSUME NEW i \in DOMAIN es
      PROVE  more[i].prime = es[i].prime /\ more[i].sub = es[i].sub
  <2>1. PICK e : e = es[i]
    OBVIOUS
  <2>2. e = Element(e.prime, e.sub, e.parameter)
    BY <1>2, <2>1 DEF AreElements
  <2>3. more[i] = [e EXCEPT !.parameter = Over(e.parameter, w)]
    BY <1>2, <2>1 DEF Divided
  <2>4. more[i] = Element(e.prime, e.sub, Over(e.parameter, w))
    BY <2>2, <2>3 DEF Element
  <2>5. QED
    BY <2>1, <2>4 DEF Element
<1>3. \A v : AreFor(t, ns, v, es) => AreFor(t, ns, v, more)
  BY <1>1, <1>2 DEF AreFor
<1>4. \A x : SomeHas(t, ns, more, x) <=> SomeHas(t, ns, es, x)
  BY <1>1, <1>2, Zenon DEF SomeHas
<1>5. QED
  BY <1>3, <1>4

LEMMA EndPairsLearns ==
  ASSUME FlagInvariant, FitInvariant, AssertionsHold, ProductInvariant, EndPairs
  PROVE  ProductInvariant'
<1>1. InMultiply /\ InPairs /\ ~MorePairs /\ pass = "multiply" /\ stack # <<>>
  BY DEF EndPairs, InMultiply
<1>2. PICK t, ns, f, fr, es, w : /\ t = tree /\ ns = nodes[here] /\ f = flag /\ fr = Top /\ es = fr.elements
                                 /\ w = fr.partition
  OBVIOUS
<1>3. /\ IsForest(t) /\ AreNodes(ns) /\ AreFitted(t, ns) /\ IsFrame(ns, f, fr) /\ HasPairs(t, ns, fr)
      /\ Len(results) < Len(program)
  BY <1>1, <1>2, MultiplyKnows
<1>4. fr.pair > 0 /\ ~ (fr.pair <= LastPair(ns, fr))
  BY <1>1, <1>2 DEF InPairs, MorePairs, LastPair, SecondSize, First, Second, Content
<1>5. \A x : SomeHas(t, ns, es, x) <=> BothHave(t, ns, Key(fr), x)
  BY <1>2, <1>3, <1>4, AllPairsDone
<1>6. PICK a, b, v : a = fr.first /\ b = fr.second /\ v = ns[a].vtree
  OBVIOUS
<1>7. a \in DOMAIN ns /\ b \in DOMAIN ns /\ ns[a].type = "decision" /\ Key(fr) = <<a, b>>
  BY <1>3, <1>4, <1>6 DEF IsFrame, Key
<1>8. v \in DOMAIN t /\ ~IsLeaf(t, v)
  BY <1>3, <1>6, <1>7 DEF AreFitted, Fits
<1>9. AreFor(t, ns, v, es) /\ AreElements(ns, f, es)
  BY <1>2, <1>3, <1>6 DEF HasPairs, IsFrame
<1>10. PICK pair : pair = Key(fr) /\ pair[1] = a /\ pair[2] = b
  BY <1>7
<1>11. CASE es = <<>>
  <2>1. Update(NullResult) /\ Leave(NullResult) /\ nodes' = nodes
    BY <1>2, <1>11 DEF EndPairs
  <2>2. PICK r : r = NullResult /\ r.node = NullNode
    <3>1. NullResult.node = NullNode
      BY DEF NullResult
    <3>2. QED
      BY <3>1
  <2>3. \A x : ~SomeHas(t, ns, es, x)
    <3>1. DOMAIN <<>> = {}
      OBVIOUS
    <3>2. QED
      BY <1>11, <3>1 DEF SomeHas
  <2>4. \A x : HasModel(t, ns, r.node, x) <=> HasModel(t, ns, a, x) /\ HasModel(t, ns, b, x)
    <3>1. \A x : ~ (HasModel(t, ns, a, x) /\ HasModel(t, ns, b, x))
      BY <1>5, <1>10, <2>3, Zenon DEF BothHave
    <3>2. \A x : ~HasModel(t, ns, r.node, x)
      BY <2>2 DEF HasModel
    <3>3. QED
      BY <3>1, <3>2, Zenon
  <2>5. IsCommon(t, ns, pair, r)
    BY <1>7, <1>10, <2>2, <2>4, Zenon DEF IsCommon
  <2>6. GrowsTo(ns, ns)
    BY DEF GrowsTo
  <2>7. AreFitted(tree, ns) /\ GrowsTo(nodes[here], ns) /\ nodes'[here] = ns /\ IsCommon(tree, ns, Key(Top), r)
    BY <1>2, <1>3, <1>10, <2>1, <2>5, <2>6
  <2>8. QED
    BY <1>1, <1>3, <2>1, <2>2, <2>7, ResultLearns
<1>12. CASE es # <<>>
  <2>1. PICK more : more = Divided(es, w)
    OBVIOUS
  <2>2. PICK st : st = GetConformedPsddDecisionNode(t, ns, more, f)
    OBVIOUS
  <2>3. PICK r : r = [node |-> st.node, value |-> w]
    OBVIOUS
  <2>4. Made(st) /\ Update(r) /\ Leave(r)
    <3>1. more = [i \in DOMAIN Top.elements |-> [Top.elements[i] EXCEPT !.parameter = Over(@, Top.partition)]]
      BY <1>2, <2>1 DEF Divided
    <3>2. QED
      BY <1>2, <1>12, <2>2, <2>3, <3>1 DEF EndPairs
  <2>5. CanConform(t, ns, es)
    BY <1>1, <1>2, <1>12 DEF AssertionsHold, MultiplyAsserts
  <2>6. AreElements(ns, f, more) /\ CanConform(t, ns, more)
    BY <1>9, <2>1, <2>5, DividedAre
  <2>7. AreFor(t, ns, v, more) /\ \A x : SomeHas(t, ns, more, x) <=> SomeHas(t, ns, es, x)
    BY <1>9, <2>1, DividedHave
  <2>8. /\ AreNodes(st.nodes) /\ AreFitted(t, st.nodes) /\ GrowsTo(ns, st.nodes)
        /\ IsFor(st.nodes, st.node, v)
        /\ \A x : HasModel(t, st.nodes, st.node, x) <=> SomeHas(t, ns, more, x)
    BY <1>3, <1>8, <2>2, <2>6, <2>7, GetConformedModels
  <2>9. PICK own : own = st.nodes
    OBVIOUS
  <2>10. AreNodes(own) /\ AreFitted(t, own) /\ GrowsTo(ns, own) /\ IsFor(own, r.node, v) /\ r.node = st.node
    BY <2>3, <2>8, <2>9
  <2>11. a \in DOMAIN own /\ b \in DOMAIN own /\ own[a].vtree = v
    BY <1>6, <1>7, <2>10 DEF GrowsTo
  <2>12. ASSUME NEW x
         PROVE  HasModel(t, own, r.node, x) <=> HasModel(t, own, a, x) /\ HasModel(t, own, b, x)
    <3>1. HasModel(t, own, r.node, x) <=> SomeHas(t, ns, es, x)
      BY <2>7, <2>8, <2>9, <2>10
    <3>2. HasModel(t, own, a, x) <=> HasModel(t, ns, a, x)
      BY <1>3, <1>7, <2>10, ModelsStay
    <3>3. HasModel(t, own, b, x) <=> HasModel(t, ns, b, x)
      BY <1>3, <1>7, <2>10, ModelsStay
    <3>4. SomeHas(t, ns, es, x) <=> HasModel(t, ns, a, x) /\ HasModel(t, ns, b, x)
      BY <1>5, <1>10, Zenon DEF BothHave
    <3>5. QED
      BY <3>1, <3>2, <3>3, <3>4
  <2>13. IsCommon(t, own, pair, r)
    BY <1>10, <2>10, <2>11, <2>12, Zenon DEF IsCommon
  <2>14. nodes'[here] = own
    <3>1. AreFitted(tree, st.nodes)
      BY <1>2, <2>8
    <3>2. QED
      BY <1>3, <2>4, <2>9, <3>1, MadeFits DEF FitInvariant
  <2>15. AreFitted(tree, own) /\ GrowsTo(nodes[here], own) /\ IsCommon(tree, own, Key(Top), r)
    BY <1>2, <1>10, <2>10, <2>13
  <2>16. QED
    BY <1>1, <2>4, <2>10, <2>14, <2>15, ResultLearns
<1>13. QED
  BY <1>11, <1>12

LEMMA BeginMultiplyLearns ==
  ASSUME FlagInvariant, ProductInvariant, BeginMultiply, FlagInvariant'
  PROVE  ProductInvariant'
<1>1. /\ pass = "none" /\ stack' = <<Frame(Result(call.first).node, Result(call.second).node)>> /\ pass' = "multiply"
      /\ program' = program /\ results' = results /\ nodes' = nodes /\ returned' = returned /\ cache' = cache
  BY DEF BeginMultiply, CanCall, clientVars
<1>2. returned = <<>> /\ cache = <<>>
  BY <1>1 DEF FlagInvariant, LocalsAre, BetweenCalls
<1>3. call' = call
  BY <1>1 DEF call
<1>4. here' = here /\ tree' = tree /\ Client' = Client /\ flag' = flag
  BY <1>1, <1>3 DEF here, tree, Client, Result, flag
<1>5. PICK t, ns, f, a, b, client, calls :
        /\ t = tree /\ ns = nodes[here] /\ f = flag /\ a = Result(call.first).node /\ b = Result(call.second).node
        /\ client = Client /\ calls = stack'
  OBVIOUS
<1>6. AreCalls(ns, f, calls, returned', cache')
  BY <1>1, <1>4, <1>5 DEF FlagInvariant, LocalsAre, MultiplyIs
<1>7. client = <<a, b>> /\ calls = <<Frame(a, b)>>
  BY <1>1, <1>5 DEF Client
<1>8. client[1] = a /\ client[2] = b /\ DOMAIN calls = {1} /\ calls[1] = Frame(a, b)
  BY <1>7
<1>9. HasPairs(t, ns, Frame(a, b)) /\ Key(Frame(a, b)) = <<a, b>>
  BY FrameBegins
<1>10. a \in DOMAIN ns /\ b \in DOMAIN ns
  <2>1. IsFrame(ns, f, Frame(a, b))
    BY <1>6, <1>8 DEF AreCalls
  <2>2. Frame(a, b).first = a /\ Frame(a, b).second = b
    BY DEF Frame
  <2>3. QED
    BY <2>1, <2>2 DEF IsFrame
<1>11. AreCommon(t, ns, <<>>)
  <2>1. DOMAIN <<>> = {}
    OBVIOUS
  <2>2. QED
    BY <2>1 DEF AreCommon
<1>12. AskedAt(ns, client, calls, 1) = <<a, b>>
  BY <1>7 DEF AskedAt
<1>13. HaveAsked(t, ns, client, calls, <<>>, <<>>)
  BY <1>8, <1>9, <1>10, <1>11, <1>12 DEF HaveAsked
<1>14. ProductsFound'
  BY <1>1, <1>2, <1>4, <1>5, <1>13 DEF ProductsFound
<1>15. QED
  BY <1>1, <1>14 DEF ProductInvariant, CacheForgotten

\* The steps of the other operations, and those that return.
LEMMA OtherCalls ==
  ASSUME ProductInvariant, pass' # "multiply", cache' = <<>> \/ (pass # "multiply" /\ cache' = cache)
  PROVE  ProductInvariant'
BY DEF ProductInvariant, ProductsFound, CacheForgotten

LEMMA ReturningForgets ==
  ASSUME TrueNode \/ Normalize \/ EndRead \/ EndConvert \/ EndLoad \/ EndLogic \/ EndMultiply
  PROVE  pass' = "none" /\ cache' = <<>>
BY DEF TrueNode, Normalize, EndRead, EndConvert, EndLoad, EndLogic, EndMultiply, Returns, ForgetLocals

LEMMA BeginSddForgets ==
  ASSUME NEW sdd, NEW copy, NEW v, BeginSdd(sdd, copy, v)
  PROVE  pass' # "multiply" /\ (cache' = <<>> \/ cache' = cache)
BY DEF BeginSdd, Returns, ForgetLocals, multiplyVars

LEMMA OthersForget ==
  ASSUME \/ BeginRead \/ ReadLine \/ ConvertLiteral \/ ConvertDecision \/ BeginLoad \/ LoadNode \/ BeginLogic \/ NodeLogic
  PROVE  pass # "multiply" /\ pass' # "multiply" /\ cache' = cache
<1>1. CASE BeginRead \/ BeginLoad \/ BeginLogic
  BY <1>1 DEF BeginRead, BeginLoad, BeginLogic, CanCall, multiplyVars
<1>2. CASE ReadLine \/ LoadNode \/ NodeLogic
  BY <1>2 DEF ReadLine, LoadNode, NodeLogic, multiplyVars
<1>3. CASE ConvertLiteral \/ ConvertDecision
  BY <1>3 DEF ConvertLiteral, ConvertDecision, multiplyVars
<1>4. QED
  BY <1>1, <1>2, <1>3

LEMMA SddCallsForget ==
  ASSUME ConvertSddToPsdd \/ FromSdd \/ Compile
  PROVE  pass # "multiply" /\ pass' # "multiply" /\ (cache' = <<>> \/ cache' = cache)
<1>1. pass = "none"
  BY DEF ConvertSddToPsdd, FromSdd, Compile, CanCall
<1>2. \E sdd, copy, v : BeginSdd(sdd, copy, v)
  BY DEF ConvertSddToPsdd, FromSdd, Compile
<1>3. QED
  BY <1>1, <1>2, BeginSddForgets

LEMMA StutterForgets ==
  ASSUME ProductInvariant, UNCHANGED vars
  PROVE  ProductInvariant'
<1>1. /\ program' = program /\ results' = results /\ nodes' = nodes /\ pass' = pass /\ stack' = stack
      /\ returned' = returned /\ cache' = cache
  BY DEF vars, clientVars, localVars, multiplyVars
<1>2. call' = call
  BY <1>1 DEF call
<1>3. here' = here /\ tree' = tree /\ Client' = Client
  BY <1>1, <1>2 DEF here, tree, Client, Result
<1>4. QED
  BY <1>1, <1>3 DEF ProductInvariant, ProductsFound, CacheForgotten

LEMMA StepLearns ==
  ASSUME FlagInvariant, FitInvariant, AssertionsHold, ProductInvariant, [Next]_vars, FlagInvariant'
  PROVE  ProductInvariant'
<1>1. CASE BeginMultiply
  BY <1>1, BeginMultiplyLearns
<1>2. CASE Lookup
  BY <1>2, LookupLearns
<1>3. CASE MultiplyLeaves
  BY <1>3, MultiplyLeavesLearns
<1>4. CASE BeginPairs
  BY <1>4, BeginPairsLearns
<1>5. CASE MultiplyPrimes
  BY <1>5, MultiplyPrimesLearns
<1>6. CASE PairIsEmpty
  BY <1>6, PairIsEmptyLearns
<1>7. CASE MultiplySubs
  BY <1>7, MultiplySubsLearns
<1>8. CASE PushElement
  BY <1>8, PushElementLearns
<1>9. CASE EndPairs
  BY <1>9, EndPairsLearns
<1>10. CASE TrueNode \/ Normalize \/ EndRead \/ EndConvert \/ EndLoad \/ EndLogic \/ EndMultiply
  <2>1. pass' = "none" /\ cache' = <<>>
    BY <1>10, ReturningForgets
  <2>2. QED
    BY <2>1, OtherCalls
<1>11. CASE BeginRead \/ ReadLine \/ ConvertLiteral \/ ConvertDecision \/ BeginLoad \/ LoadNode \/ BeginLogic \/ NodeLogic
  BY <1>11, OthersForget, OtherCalls
<1>12. CASE ConvertSddToPsdd \/ FromSdd \/ Compile
  <2>1. pass # "multiply" /\ pass' # "multiply" /\ (cache' = <<>> \/ cache' = cache)
    BY <1>12, SddCallsForget
  <2>2. QED
    BY <2>1, OtherCalls
<1>13. CASE Ended \/ UNCHANGED vars
  BY <1>13, StutterForgets DEF Ended
<1>14. QED
  BY <1>1, <1>2, <1>3, <1>4, <1>5, <1>6, <1>7, <1>8, <1>9, <1>10, <1>11, <1>12, <1>13 DEF Next

LEMMA InitLearns ==
  ASSUME ManagerInit
  PROVE  ProductInvariant
<1>1. pass = "none" /\ cache = <<>>
  BY DEF ManagerInit, ForgetLocals, localVars, multiplyVars
<1>2. QED
  BY <1>1 DEF ProductInvariant, ProductsFound, CacheForgotten

\* Each call of MultiplyWithCache is for the nodes that the one below it asked for, and its elements
\* have exactly the models of the pairs it is done with.
THEOREM ProductInvariantHolds == Spec /\ []AssertionsHold => []ProductInvariant
<1>1. ManagerInit => ProductInvariant
  BY InitLearns
<1>2. FlagInvariant /\ FlagInvariant' /\ FitInvariant /\ AssertionsHold /\ ProductInvariant /\ [Next]_vars => ProductInvariant'
  BY StepLearns
<1>3. QED
  BY <1>1, <1>2, FlagInvariantHolds, FitInvariantHolds, PTL DEF Spec

\* What is known of the calls is what the run checks of the models of their products.
LEMMA IsModelHas ==
  ASSUME NEW g, NEW a, NEW x
  PROVE  IsModelIn(g, a, x) <=> HasModel(Vtree[g], nodes[g], a, x)
<1>1. ASSUME NEW n, NEW m
      PROVE  HoldsIn(g, n, x, m) = TruthAt(Vtree[g], nodes[g], x, m, n)
  BY Zenon DEF HoldsIn, TruthAt, VariableIn
<1> DEFINE Holds(m) == [n \in DOMAIN nodes[g] |-> HoldsIn(g, n, x, m)]
           True(m) == [n \in DOMAIN nodes[g] |-> TruthAt(Vtree[g], nodes[g], x, m, n)]
<1>2. (CHOOSE m : m = Holds(m)) = CHOOSE m : m = True(m)
  <2>1. \A m : Holds(m) = True(m)
    BY <1>1
  <2>2. QED
    BY <2>1
<1>3. IsModelIn(g, a, x) <=> a # NullNode /\ (CHOOSE m : m = Holds(m))[a]
  BY Zenon DEF IsModelIn
<1>4. Truth(Vtree[g], nodes[g], x) = CHOOSE m : m = True(m)
  BY Zenon DEF Truth
<1>5. QED
  BY <1>2, <1>3, <1>4, Zenon DEF HasModel

LEMMA CommonHas ==
  ASSUME NEW pair, NEW r, IsCommon(tree, nodes[here], pair, r)
  PROVE  HasModelsOfBoth(pair[1], pair[2], r)
<1>1. \A x : IsModelIn(here, r.node, x) <=> IsModelIn(here, pair[1], x) /\ IsModelIn(here, pair[2], x)
  <2>1. \A x : HasModel(tree, nodes[here], r.node, x) <=>
               HasModel(tree, nodes[here], pair[1], x) /\ HasModel(tree, nodes[here], pair[2], x)
    BY DEF IsCommon
  <2>2. \A a, x : IsModelIn(here, a, x) <=> HasModel(tree, nodes[here], a, x)
    BY IsModelHas, Zenon DEF tree
  <2>3. QED
    BY <2>1, <2>2, Zenon
<1>2. r.node # NullNode => VtreeIn(here, r.node) = VtreeIn(here, pair[1])
  BY DEF IsCommon, IsFor, VtreeIn
<1>3. QED
  BY <1>1, <1>2 DEF HasModelsOfBoth, ModelsIn

LEMMA ProductsHave ==
  ASSUME FlagInvariant, ProductInvariant
  PROVE  ProductsHaveModelsOfBoth
<1>1. CASE pass = "multiply"
  <2>1. HaveAsked(tree, nodes[here], Client, stack, returned, cache)
    BY <1>1 DEF ProductInvariant, ProductsFound
  <2>2. \A k \in DOMAIN cache : IsCommon(tree, nodes[here], k, cache[k])
    BY <2>1 DEF HaveAsked, AreCommon
  <2>3. \A k \in DOMAIN cache : HasModelsOfBoth(k[1], k[2], cache[k])
    BY <2>2, CommonHas
  <2>4. ASSUME stack = <<>>
        PROVE  HasModelsOfBoth(Result(call.first).node, Result(call.second).node, returned[1])
    <3>1. returned # <<>>
      BY <1>1, <2>4 DEF FlagInvariant, LocalsAre, MultiplyIs, AreCalls
    <3>2. AskedAt(nodes[here], Client, stack, Len(stack) + 1) = Client
      BY <2>4 DEF AskedAt
    <3>3. IsCommon(tree, nodes[here], Client, returned[1])
      BY <2>1, <3>1, <3>2 DEF HaveAsked
    <3>4. Client[1] = Result(call.first).node /\ Client[2] = Result(call.second).node
      BY DEF Client
    <3>5. QED
      BY <3>3, <3>4, CommonHas
  <2>5. QED
    BY <2>3, <2>4 DEF ProductsHaveModelsOfBoth
<1>2. CASE pass # "multiply"
  BY <1>2 DEF ProductInvariant, CacheForgotten, ProductsHaveModelsOfBoth
<1>3. QED
  BY <1>1, <1>2

\* Whatever the cache of MultiplyWithCache has for two nodes, and whatever Multiply returns, has
\* exactly the models that both nodes have and is for their vtree node, in every state.
THEOREM ProductsKeepTheModels == Spec /\ []AssertionsHold => []ProductsHaveModelsOfBoth
<1>1. FlagInvariant /\ ProductInvariant => ProductsHaveModelsOfBoth
  BY ProductsHave
<1>2. QED
  BY <1>1, FlagInvariantHolds, ProductInvariantHolds, PTL

=============================================================================
