--------------------------- MODULE SerializerProofs ---------------------------
(***************************************************************************)
(* What SerializePsddNodes keeps, for any nodes that are normalised for    *)
(* their vtree and any roots of one level.  The reason that a search in    *)
(* breadth has all parents of a node before it is that it goes level by    *)
(* level (LevelByLevel), and the children of a level are the next one.     *)
(***************************************************************************)
EXTENDS Serializer, SequenceTheorems, WellFoundedInduction, TLAPS

Nodes == DOMAIN structure
Depth(n) == structure[n].depth

RootsAreGiven ==
  /\ roots \in Seq(Nat)
  /\ roots # <<>> => AreRoots(structure, roots)

ListIsTyped ==
  /\ structure \in Structures
  /\ next_root \in 1..Len(roots) + 1
  /\ result \in Seq(Nodes)
  /\ explore_index \in 1..Len(result) + 1
  /\ edge \in Nat \ {0}
  /\ ~RootsTaken => explore_index = 1 /\ edge = 1

ExploredIsListed == node_explored = Range(result) /\ IsInjective(result)

\* What was looked at is in the list.
SeenIsListed ==
  /\ \A k \in DOMAIN roots : k < next_root => roots[k] \in Range(result)
  /\ \A i \in DOMAIN result : i < explore_index => ChildrenIn(structure, result[i]) \subseteq Range(result)
  /\ explore_index <= Len(result) =>
       \A k \in DOMAIN Visited : k < edge => Visited[k] \in Range(result)

\* Only what is under the roots is in the list.
ListedIsBelow ==
  \A S \in SUBSET Nodes :
    Range(roots) \subseteq S /\ IsClosedIn(structure, S) => Range(result) \subseteq S

LevelByLevel ==
  /\ \A i, j \in DOMAIN result : i <= j => Depth(result[i]) <= Depth(result[j])
  /\ explore_index <= Len(result) =>
       \A i \in DOMAIN result : Depth(result[i]) <= Depth(result[explore_index]) + 1
  /\ ~RootsTaken => \A i \in DOMAIN result, k \in DOMAIN roots : Depth(result[i]) = Depth(roots[k])

SInv == RootsAreGiven /\ ListIsTyped /\ ExploredIsListed /\ SeenIsListed /\ ListedIsBelow /\ LevelByLevel

-----------------------------------------------------------------------------
\* What is assumed of the nodes, for one of them.
LEMMA Conformed ==
  ASSUME NEW g \in Structures, NEW n \in DOMAIN g
  PROVE  /\ g[n].depth \in Nat
         /\ ChildList(g, n) \in Seq(Nat)
         /\ ChildrenIn(g, n) \subseteq DOMAIN g
         /\ \A c \in ChildrenIn(g, n) : g[c].depth = g[n].depth + 1
<1>1. IsConformed(g)
  BY PsddGraphAssumption
<1>2. g[n] \in PsddNode
  BY <1>1 DEF IsConformed
<1>3. g[n].depth \in Nat /\ g[n].primes \in Seq(Nat) /\ g[n].subs \in Seq(Nat)
  BY <1>2 DEF PsddNode
<1>4. ChildList(g, n) \in Seq(Nat)
  BY <1>3 DEF ChildList
<1>5. QED
  BY <1>1, <1>3, <1>4 DEF IsConformed

\* The elements of two lists are in the list of both.
LEMMA InConcatenation ==
  ASSUME NEW a \in Seq(Nat), NEW b \in Seq(Nat), Len(a) = Len(b), NEW i \in DOMAIN a
  PROVE  {a[i], b[i]} \subseteq Range(a \o b)
<1>1. /\ Len(a) \in Nat /\ Len(b) \in Nat /\ i \in 1..Len(a) /\ i \in 1..Len(b)
      /\ Len(a) + i \in Len(a) + 1..Len(a) + Len(b)
  OBVIOUS
<1>2. a \o b \in Seq(Nat)
  OBVIOUS
<1>3. DOMAIN (a \o b) = 1..Len(a) + Len(b)
  <2>1. Len(a \o b) = Len(a) + Len(b)
    BY ConcatProperties
  <2>2. QED
    BY <1>2, <2>1
<1>4. i \in DOMAIN (a \o b) /\ Len(a) + i \in DOMAIN (a \o b)
  BY <1>1, <1>3
<1>5. (a \o b)[i] = a[i] /\ (a \o b)[Len(a) + i] = b[i]
  BY <1>1
<1>6. QED
  BY <1>4, <1>5 DEF Range

\* What is assumed of a node and of its elements.
LEMMA GraphFacts ==
  ASSUME NEW g \in Structures, NEW n \in DOMAIN g
  PROVE  /\ g[n].type \in {"literal", "top", "decision"} /\ g[n].sign \in BOOLEAN
         /\ n \in Nat /\ g[n].depth \in Nat
         /\ g[n].type # "decision" => DOMAIN g[n].primes = {}
         /\ \A i \in DOMAIN g[n].primes : \A c \in {g[n].primes[i], g[n].subs[i]} :
              c \in ChildrenIn(g, n) /\ c \in DOMAIN g /\ c < n /\ g[c].depth = g[n].depth + 1
<1>1. IsConformed(g)
  BY PsddGraphAssumption
<1>2. /\ g[n] \in PsddNode /\ n \in Nat
      /\ Len(g[n].primes) = Len(g[n].subs)
      /\ g[n].type # "decision" => g[n].primes = <<>>
      /\ \A c \in ChildrenIn(g, n) : c \in DOMAIN g /\ c < n /\ g[c].depth = g[n].depth + 1
  BY <1>1 DEF IsConformed
<1>3. /\ g[n].type \in {"literal", "top", "decision"} /\ g[n].sign \in BOOLEAN
      /\ g[n].depth \in Nat
      /\ g[n].primes \in Seq(Nat) /\ g[n].subs \in Seq(Nat)
  BY <1>2 DEF PsddNode
<1>4. \A i \in DOMAIN g[n].primes : \A c \in {g[n].primes[i], g[n].subs[i]} : c \in ChildrenIn(g, n)
  BY <1>2, <1>3, InConcatenation DEF ChildrenIn, ChildList
<1>5. g[n].type # "decision" => DOMAIN g[n].primes = {}
  BY <1>2
<1>6. QED
  BY <1>2, <1>3, <1>4, <1>5

\* The least-number principle for a set.
Less == {ss \in Nat \X Nat : ss[1] < ss[2]}

LEMMA LeastOf ==
  ASSUME NEW T \in SUBSET Nat, T # {}
  PROVE  \E x \in T : \A y \in T : x <= y
<1>1. IsWellFoundedOn(Less, Nat)
  BY NatLessThanWellFounded DEF OpToRel, Less
<1>2. \E x \in T : \A y \in T : ~ (<<y, x>> \in Less)
  BY <1>1, WFMin
<1>3. \A x, y \in T : <<y, x>> \notin Less => x <= y
  BY DEF Less
<1>4. QED
  BY <1>2, <1>3

\* The list m, of b nodes, is the list l, of a, with n at its end unless it
\* was in it.
Pushed(l, a, m, b, n) ==
  /\ a = Len(l) /\ DOMAIN l = 1..a
  /\ b = Len(m) /\ DOMAIN m = 1..b
  /\ b = a \/ (b = a + 1 /\ m[b] = n)
  /\ \A i \in 1..a : m[i] = l[i]
  /\ Range(m) = Range(l) \cup {n}

LEMMA PushCases ==
  ASSUME ListIsTyped, ExploredIsListed, NEW n \in Nodes, Push(n)
  PROVE  /\ result' \in Seq(Nodes)
         /\ \E a, b \in Nat : Pushed(result, a, result', b, n)
         /\ node_explored' = Range(result') /\ IsInjective(result')
<1>1. result \in Seq(Nodes) /\ node_explored = Range(result) /\ IsInjective(result)
  BY DEF ListIsTyped, ExploredIsListed
<1>2. CASE n \in node_explored
  <2>1. UNCHANGED <<result, node_explored>>
    BY <1>2 DEF Push
  <2>2. Len(result) \in Nat /\ DOMAIN result = 1..Len(result)
    BY <1>1
  <2>3. Pushed(result, Len(result), result', Len(result), n)
    BY <1>1, <1>2, <2>1, <2>2 DEF Pushed
  <2>4. QED
    BY <1>1, <2>1, <2>2, <2>3
<1>3. CASE n \notin node_explored
  <2>1. result' = Append(result, n) /\ node_explored' = node_explored \cup {n}
    BY <1>3 DEF Push, Enqueue
  <2>2. /\ result' \in Seq(Nodes) /\ Len(result') = Len(result) + 1
        /\ DOMAIN result = 1..Len(result) /\ DOMAIN result' = 1..Len(result')
        /\ \A i \in 1..Len(result) : result'[i] = result[i]
        /\ result'[Len(result) + 1] = n /\ Len(result) \in Nat
    BY <1>1, <2>1
  <2>3. DOMAIN result' = DOMAIN result \cup {Len(result) + 1}
    BY <2>2
  <2>4. Range(result') = Range(result) \cup {n}
    BY <2>2, <2>3 DEF Range
  <2>5. \A i \in DOMAIN result : result[i] \in Range(result)
    BY DEF Range
  <2>6. IsInjective(result')
    BY <1>1, <1>3, <2>2, <2>3, <2>5 DEF IsInjective
  <2>7. Pushed(result, Len(result), result', Len(result) + 1, n)
    BY <2>2, <2>4 DEF Pushed
  <2>8. QED
    BY <1>1, <2>1, <2>2, <2>4, <2>6, <2>7
<1>4. QED
  BY <1>2, <1>3

\* A call that starts.
LEMMA StartKeepsSInv ==
  ASSUME structure \in Structures, RootsAreGiven, Start
  PROVE  SInv
<1>1. /\ next_root = 1 /\ result = <<>> /\ node_explored = {} /\ explore_index = 1 /\ edge = 1
      /\ roots \in Seq(Nat) /\ Len(roots) \in Nat
  BY DEF Start, RootsAreGiven
<1>2. result \in Seq(Nodes) /\ Len(result) = 0 /\ DOMAIN result = {}
  BY <1>1
<1>3. Range(result) = {}
  BY <1>2 DEF Range
<1>4. ListIsTyped
  BY <1>1, <1>2 DEF ListIsTyped
<1>5. ExploredIsListed
  BY <1>1, <1>2, <1>3 DEF ExploredIsListed, IsInjective
<1>6. SeenIsListed
  <2>1. \A k \in DOMAIN roots : ~ k < next_root
    BY <1>1
  <2>2. QED
    BY <1>1, <1>2, <2>1 DEF SeenIsListed
<1>7. ListedIsBelow
  BY <1>3 DEF ListedIsBelow
<1>8. LevelByLevel
  BY <1>1, <1>2 DEF LevelByLevel
<1>9. QED
  BY <1>4, <1>5, <1>6, <1>7, <1>8 DEF SInv

\* The same of the next state: a call begins, or ends with no roots.
LEMMA RestartKeepsSInv ==
  (structure \in Structures /\ RootsAreGiven /\ Start)' => SInv'
<1>1. structure \in Structures /\ RootsAreGiven /\ Start => SInv
  BY StartKeepsSInv
<1>2. QED
  BY <1>1, PTL

LEMMA PushRootKeepsSInv ==
  ASSUME SInv, PushRoot
  PROVE  SInv'
<1> DEFINE n == roots[next_root]
<1>1. /\ roots \in Seq(Nat) /\ Len(roots) \in Nat /\ DOMAIN roots = 1..Len(roots)
      /\ next_root \in 1..Len(roots) /\ explore_index = 1 /\ edge = 1
      /\ AreRoots(structure, roots) /\ structure \in Structures
  BY DEF SInv, RootsAreGiven, ListIsTyped, PushRoot, RootsTaken
<1>2. /\ Push(n) /\ next_root' = next_root + 1
      /\ structure' = structure /\ roots' = roots /\ explore_index' = 1 /\ edge' = 1
  BY <1>1 DEF PushRoot
<1>3. /\ n \in Nodes /\ n \in Range(roots)
      /\ \A k \in DOMAIN roots : roots[k] \in Nodes /\ Depth(roots[k]) = Depth(n)
  BY <1>1 DEF AreRoots, Range, Nodes, Depth
<1> HIDE DEF n
<1>4. /\ result' \in Seq(Nodes)
      /\ \E a, b \in Nat : Pushed(result, a, result', b, n)
      /\ node_explored' = Range(result') /\ IsInjective(result')
  BY <1>2, <1>3, PushCases DEF SInv
<1>. PICK a \in Nat, b \in Nat : Pushed(result, a, result', b, n)
  BY <1>4
<1>5. RootsAreGiven' /\ ListIsTyped' /\ ExploredIsListed'
  <2>1. RootsAreGiven'
    BY <1>2 DEF SInv, RootsAreGiven
  <2>2. ListIsTyped'
    BY <1>1, <1>2, <1>4 DEF ListIsTyped, Nodes, RootsTaken, Pushed
  <2>3. ExploredIsListed'
    BY <1>4 DEF ExploredIsListed
  <2>4. QED
    BY <2>1, <2>2, <2>3
<1>6. SeenIsListed'
  <2>1. \A k \in DOMAIN roots' : k < next_root' => roots'[k] \in Range(result')
    <3>1. \A k \in DOMAIN roots : k < next_root + 1 => k < next_root \/ k = next_root
      BY <1>1
    <3>2. \A k \in DOMAIN roots : k < next_root => roots[k] \in Range(result)
      BY DEF SInv, SeenIsListed
    <3>3. QED
      BY <1>2, <1>4, <3>1, <3>2 DEF n, Pushed
  <2>2. \A i \in DOMAIN result' : ~ i < explore_index'
    BY <1>2, <1>4 DEF Pushed
  <2>3. ASSUME explore_index' <= Len(result')
        PROVE  \A k \in DOMAIN Visited' : ~ k < edge'
    <3>1. result'[1] \in DOMAIN structure
      BY <1>2, <1>4, <2>3 DEF Nodes, Pushed
    <3>2. Visited' \in Seq(Nat)
      BY <1>1, <1>2, <3>1, Conformed DEF Visited
    <3>3. QED
      BY <1>2, <3>2
  <2>4. QED
    BY <2>1, <2>2, <2>3 DEF SeenIsListed
<1>7. ListedIsBelow'
  BY <1>2, <1>3, <1>4 DEF SInv, ListedIsBelow, Nodes, Pushed
<1>8. LevelByLevel'
  <2>1. \A i \in DOMAIN result : Depth(result[i]) = Depth(n)
    BY <1>1, <1>3 DEF SInv, LevelByLevel, RootsTaken
  <2>2. \A i \in DOMAIN result' : Depth(result'[i]) = Depth(n)
    <3>1. ASSUME NEW i \in DOMAIN result' PROVE i \in DOMAIN result \/ result'[i] = n
      BY <1>4 DEF Pushed
    <3>2. \A i \in DOMAIN result : result'[i] = result[i]
      BY <1>4 DEF Pushed
    <3>3. QED
      BY <2>1, <3>1, <3>2
  <2>3. Depth(n) \in Nat
    BY <1>1, <1>3, Conformed DEF Depth, Nodes
  <2>5. \A i \in DOMAIN result' : Depth(result[i])' = Depth(n)
    BY <1>2, <2>2 DEF Depth
  <2>6. \A k \in DOMAIN roots' : Depth(roots[k])' = Depth(n)
    BY <1>2, <1>3 DEF Depth
  <2>7. QED
    <3>1. explore_index' <= Len(result') => explore_index' \in DOMAIN result'
      BY <1>2, <1>4 DEF Pushed
    <3>2. QED
      BY <2>3, <2>5, <2>6, <3>1 DEF LevelByLevel
<1>9. QED
  BY <1>5, <1>6, <1>7, <1>8 DEF SInv

LEMMA PushChildKeepsSInv ==
  ASSUME SInv, PushChild
  PROVE  SInv'
<1> DEFINE p == result[explore_index]
           n == Visited[edge]
<1>1. /\ structure \in Structures /\ result \in Seq(Nodes) /\ Len(result) \in Nat
      /\ explore_index \in 1..Len(result) /\ edge \in Nat \ {0} /\ RootsTaken
      /\ next_root \in 1..Len(roots) + 1
  BY DEF SInv, ListIsTyped, PushChild, Serialized
<1>2. /\ Push(n) /\ edge' = edge + 1 /\ explore_index' = explore_index
      /\ structure' = structure /\ roots' = roots /\ next_root' = next_root
      /\ edge <= Len(Visited)
  BY DEF PushChild, EdgeAfter
<1>3. p \in DOMAIN structure
  BY <1>1 DEF Nodes
<1>4. /\ Visited = ChildList(structure, p) /\ Visited \in Seq(Nat)
      /\ n \in ChildrenIn(structure, p) /\ n \in Nodes
      /\ Depth(n) = Depth(p) + 1 /\ Depth(p) \in Nat
  <2>1. Visited = ChildList(structure, p)
    BY DEF Visited
  <2>2. Visited \in Seq(Nat)
    BY <1>1, <1>3, <2>1, Conformed
  <2>3. edge \in DOMAIN Visited
    BY <1>1, <1>2, <2>2
  <2>4. n \in ChildrenIn(structure, p)
    BY <2>1, <2>3 DEF ChildrenIn, Range
  <2>5. QED
    BY <1>1, <1>3, <2>1, <2>2, <2>4, Conformed DEF Nodes, Depth
<1> HIDE DEF n, p
<1>5. /\ result' \in Seq(Nodes)
      /\ \E a, b \in Nat : Pushed(result, a, result', b, n)
      /\ node_explored' = Range(result') /\ IsInjective(result')
  BY <1>2, <1>4, PushCases DEF SInv
<1>. PICK a \in Nat, b \in Nat : Pushed(result, a, result', b, n)
  BY <1>5
<1>6. p = result'[explore_index'] /\ p \in Range(result)
  <2>1. explore_index \in DOMAIN result /\ result'[explore_index] = result[explore_index]
    BY <1>1, <1>5 DEF Pushed
  <2>2. QED
    BY <1>2, <2>1 DEF p, Range
<1>7. RootsAreGiven' /\ ListIsTyped' /\ ExploredIsListed'
  <2>1. RootsAreGiven'
    BY <1>2 DEF SInv, RootsAreGiven
  <2>2. ListIsTyped'
    BY <1>1, <1>2, <1>5 DEF ListIsTyped, Nodes, RootsTaken, Pushed
  <2>3. ExploredIsListed'
    BY <1>5 DEF ExploredIsListed
  <2>4. QED
    BY <2>1, <2>2, <2>3
<1>8. SeenIsListed'
  <2>1. \A k \in DOMAIN roots' : k < next_root' => roots'[k] \in Range(result')
    BY <1>2, <1>5 DEF SInv, SeenIsListed, Pushed
  <2>2. \A i \in DOMAIN result' : i < explore_index' =>
          i \in DOMAIN result /\ result'[i] = result[i]
    BY <1>1, <1>2, <1>5 DEF Pushed
  <2>3. \A i \in DOMAIN result' : i < explore_index' =>
          ChildrenIn(structure', result'[i]) \subseteq Range(result')
    BY <1>2, <1>5, <2>2 DEF SInv, SeenIsListed, Pushed
  <2>4. Visited' = Visited
    BY <1>2, <1>4, <1>6 DEF Visited
  <2>5. \A k \in DOMAIN Visited : k < edge => Visited[k] \in Range(result)
    BY <1>1 DEF SInv, SeenIsListed
  <2>6. \A k \in DOMAIN Visited : k < edge + 1 => k < edge \/ k = edge
    BY <1>1, <1>4
  <2>7. \A k \in DOMAIN Visited' : k < edge' => Visited'[k] \in Range(result')
    BY <1>2, <1>5, <2>4, <2>5, <2>6 DEF n, Pushed
  <2>8. QED
    BY <2>1, <2>3, <2>7 DEF SeenIsListed
<1>9. ListedIsBelow'
  <2>1. ASSUME NEW S \in SUBSET Nodes, Range(roots) \subseteq S, IsClosedIn(structure, S)
        PROVE  Range(result') \subseteq S
    <3>1. Range(result) \subseteq S
      BY <2>1 DEF SInv, ListedIsBelow
    <3>2. n \in S
      BY <1>4, <1>6, <2>1, <3>1 DEF IsClosedIn
    <3>3. QED
      BY <1>5, <3>1, <3>2 DEF Pushed
  <2>2. QED
    BY <1>2, <2>1 DEF ListedIsBelow, Nodes
<1>10. LevelByLevel'
  <2>1. \A i \in DOMAIN result : Depth(result[i]) <= Depth(p) + 1 /\ Depth(result[i]) \in Nat
    BY <1>1, Conformed DEF SInv, LevelByLevel, p, Nodes, Depth
  <2>2. \A i \in DOMAIN result' : /\ Depth(result[i])' = Depth(result'[i])
                                  /\ Depth(result'[i]) <= Depth(p) + 1
                                  /\ Depth(result'[i]) \in Nat
    <3>1. ASSUME NEW i \in DOMAIN result' PROVE i \in DOMAIN result \/ result'[i] = n
      BY <1>5 DEF Pushed
    <3>2. \A i \in DOMAIN result : result'[i] = result[i]
      BY <1>5 DEF Pushed
    <3>3. \A i \in DOMAIN result' : Depth(result[i])' = Depth(result'[i])
      BY <1>2 DEF Depth
    <3>4. \A i \in DOMAIN result' : Depth(result'[i]) <= Depth(p) + 1 /\ Depth(result'[i]) \in Nat
      BY <1>4, <2>1, <3>1, <3>2
    <3>5. QED
      BY <3>3, <3>4
  <2>3. \A i, j \in DOMAIN result' : i <= j => Depth(result'[i]) <= Depth(result'[j])
    <3>1. \A i, j \in DOMAIN result : i <= j => Depth(result[i]) <= Depth(result[j])
      BY DEF SInv, LevelByLevel
    <3>2. ASSUME NEW i \in DOMAIN result', NEW j \in DOMAIN result', i <= j
          PROVE  Depth(result'[i]) <= Depth(result'[j])
      <4>1. CASE j \in 1..a
        <5>1. /\ i \in DOMAIN result /\ result'[i] = result[i]
              /\ j \in DOMAIN result /\ result'[j] = result[j]
          BY <1>5, <3>2, <4>1 DEF Pushed
        <5>2. QED
          BY <3>1, <3>2, <5>1
      <4>2. CASE j \notin 1..a
        <5>1. result'[j] = n
          BY <1>5, <3>2, <4>2 DEF Pushed
        <5>2. QED
          BY <1>4, <2>2, <5>1
      <4>3. QED
        BY <4>1, <4>2
    <3>3. QED
      BY <3>2
  <2>4. Depth(result[explore_index])' = Depth(p)
    BY <1>2, <1>6 DEF Depth
  <2>5. RootsTaken'
    BY <1>1, <1>2 DEF RootsTaken
  <2>6. QED
    BY <2>2, <2>3, <2>4, <2>5 DEF LevelByLevel
<1>11. QED
  BY <1>7, <1>8, <1>9, <1>10 DEF SInv

LEMMA NextNodeKeepsSInv ==
  ASSUME SInv, NextNode
  PROVE  SInv'
<1>1. /\ structure \in Structures /\ result \in Seq(Nodes) /\ Len(result) \in Nat
      /\ explore_index \in 1..Len(result) /\ edge \in Nat \ {0} /\ RootsTaken
      /\ next_root \in 1..Len(roots) + 1 /\ DOMAIN result = 1..Len(result)
  BY DEF SInv, ListIsTyped, NextNode, Serialized
<1>2. /\ edge' = 1 /\ explore_index' = explore_index + 1 /\ edge > Len(Visited)
      /\ structure' = structure /\ roots' = roots /\ next_root' = next_root
      /\ result' = result /\ node_explored' = node_explored
  BY DEF NextNode
<1>3. \A i \in DOMAIN result : result[i] \in DOMAIN structure
  BY <1>1 DEF Nodes
<1>4. RootsAreGiven' /\ ListIsTyped' /\ ExploredIsListed' /\ ListedIsBelow'
  <2>1. RootsAreGiven'
    BY <1>2 DEF SInv, RootsAreGiven
  <2>2. ListIsTyped'
    BY <1>1, <1>2 DEF ListIsTyped, Nodes, RootsTaken
  <2>3. ExploredIsListed' /\ ListedIsBelow'
    BY <1>2 DEF SInv, ExploredIsListed, ListedIsBelow, Nodes
  <2>4. QED
    BY <2>1, <2>2, <2>3
<1>5. SeenIsListed'
  <2>1. Visited \in Seq(Nat) /\ Visited = ChildList(structure, result[explore_index])
    BY <1>1, <1>3, Conformed DEF Visited
  <2>2. \A k \in DOMAIN Visited : k < edge
    BY <1>1, <1>2, <2>1
  <2>3. ChildrenIn(structure, result[explore_index]) \subseteq Range(result)
    BY <1>1, <2>1, <2>2 DEF SInv, SeenIsListed, ChildrenIn, Range
  <2>4. \A i \in DOMAIN result : i < explore_index + 1 =>
          ChildrenIn(structure, result[i]) \subseteq Range(result)
    <3>1. \A i \in DOMAIN result : i < explore_index + 1 => i < explore_index \/ i = explore_index
      BY <1>1
    <3>2. QED
      BY <2>3, <3>1 DEF SInv, SeenIsListed
  <2>5. ASSUME explore_index' <= Len(result')
        PROVE  \A k \in DOMAIN Visited' : ~ k < edge'
    <3>1. explore_index' \in DOMAIN result
      BY <1>1, <1>2, <2>5
    <3>2. result[explore_index'] \in DOMAIN structure
      BY <1>3, <3>1
    <3>3. Visited' \in Seq(Nat)
      BY <1>1, <1>2, <3>2, Conformed DEF Visited
    <3>4. QED
      BY <1>2, <3>3
  <2>6. \A k \in DOMAIN roots' : k < next_root' => roots'[k] \in Range(result')
    BY <1>2 DEF SInv, SeenIsListed
  <2>7. QED
    BY <1>2, <2>4, <2>5, <2>6 DEF SeenIsListed
<1>6. LevelByLevel'
  <2>1. \A i \in DOMAIN result : Depth(result[i]) \in Nat /\ Depth(result[i])' = Depth(result[i])
    BY <1>1, <1>2, <1>3, Conformed DEF Depth
  <2>2. \A i, j \in DOMAIN result : i <= j => Depth(result[i]) <= Depth(result[j])
    BY DEF SInv, LevelByLevel
  <2>3. \A i \in DOMAIN result : Depth(result[i]) <= Depth(result[explore_index]) + 1
    BY <1>1 DEF SInv, LevelByLevel
  <2>4. RootsTaken'
    BY <1>1, <1>2 DEF RootsTaken
  <2>5. ASSUME explore_index + 1 <= Len(result), NEW i \in DOMAIN result
        PROVE  Depth(result[i]) <= Depth(result[explore_index + 1]) + 1
    <3>1. explore_index \in DOMAIN result /\ explore_index + 1 \in DOMAIN result
      BY <1>1, <2>5
    <3>2. Depth(result[explore_index]) <= Depth(result[explore_index + 1])
      BY <1>1, <2>2, <3>1
    <3>3. QED
      BY <2>1, <2>3, <3>1, <3>2
  <2>6. \A i, j \in DOMAIN result' : i <= j => Depth(result[i])' <= Depth(result[j])'
    BY <1>2, <2>2 DEF Depth
  <2>7. explore_index' <= Len(result') =>
          \A i \in DOMAIN result' : Depth(result[i])' <= Depth(result[explore_index])' + 1
    BY <1>2, <2>5 DEF Depth
  <2>8. QED
    BY <2>4, <2>6, <2>7 DEF LevelByLevel
<1>7. QED
  BY <1>4, <1>5, <1>6 DEF SInv

LEMMA IdleKeepsSInv ==
  ASSUME SInv, UNCHANGED serializerVars
  PROVE  SInv'
BY DEF serializerVars, SInv, RootsAreGiven, ListIsTyped, ExploredIsListed, SeenIsListed,
       ListedIsBelow, LevelByLevel, Nodes, Depth, Visited, RootsTaken

LEMMA SerializerKeepsSInv ==
  ASSUME SInv, SerializerNext
  PROVE  SInv'
BY PushRootKeepsSInv, PushChildKeepsSInv, NextNodeKeepsSInv DEF SerializerNext

LEMMA ListGrows ==
  ASSUME SInv, SerializerNext
  PROVE  /\ structure' = structure /\ roots' = roots
         /\ Len(result') >= Len(result) /\ Len(result') \in Nat /\ Len(result) \in Nat
<1>1. SInv' /\ structure' = structure /\ roots' = roots
  BY SerializerKeepsSInv DEF SerializerNext, PushRoot, PushChild, NextNode
<1>2. result \in Seq(Nodes) /\ result' \in Seq(Nodes') /\ Len(result) \in Nat /\ Len(result') \in Nat
  BY <1>1 DEF SInv, ListIsTyped
<1>3. result' = result \/ \E n : result' = Append(result, n)
  BY DEF SerializerNext, PushRoot, PushChild, NextNode, Push, Enqueue
<1>4. Len(result') >= Len(result)
  BY <1>2, <1>3
<1>5. QED
  BY <1>1, <1>2, <1>4

-----------------------------------------------------------------------------
LEMMA SInvImpliesParentsFirst ==
  ASSUME SInv
  PROVE  ParentsFirst
<1>1. SUFFICES ASSUME NEW i \in DOMAIN result, NEW j \in DOMAIN result,
                      result[j] \in ChildrenIn(structure, result[i])
               PROVE  i < j
  BY DEF ParentsFirst
<1>2. /\ structure \in Structures /\ result \in Seq(Nodes) /\ i \in Nat /\ j \in Nat
      /\ result[i] \in DOMAIN structure
  BY <1>1 DEF SInv, ListIsTyped, Nodes
<1>3. Depth(result[j]) = Depth(result[i]) + 1 /\ Depth(result[i]) \in Nat
  BY <1>1, <1>2, Conformed DEF Depth
<1>4. j <= i => Depth(result[j]) <= Depth(result[i])
  BY <1>1 DEF SInv, LevelByLevel
<1>5. QED
  BY <1>2, <1>3, <1>4

LEMMA SInvImpliesEachNodeOnce ==
  ASSUME SInv
  PROVE  EachNodeOnce
<1>1. IsInjective(result)
  BY DEF SInv, ExploredIsListed
<1>2. /\ result \in Seq(Nodes) /\ roots \in Seq(Nat)
      /\ next_root \in 1..Len(roots) + 1 /\ explore_index \in 1..Len(result) + 1
  BY DEF SInv, ListIsTyped, RootsAreGiven
<1>3. Range(result) \subseteq Nodes
  BY <1>2 DEF Range
<1>4. ASSUME Serialized PROVE Range(result) = Below(structure, roots)
  <2>1. /\ \A k \in DOMAIN roots : k < next_root
        /\ \A i \in DOMAIN result : i < explore_index
    BY <1>2, <1>4 DEF Serialized, RootsTaken
  <2>2. Range(roots) \subseteq Range(result)
    BY <2>1 DEF SInv, SeenIsListed, Range
  <2>3. IsClosedIn(structure, Range(result))
    <3>1. \A i \in DOMAIN result : ChildrenIn(structure, result[i]) \subseteq Range(result)
      BY <2>1 DEF SInv, SeenIsListed
    <3>2. \A m \in Range(result) : \E i \in DOMAIN result : m = result[i]
      BY DEF Range
    <3>3. QED
      BY <3>1, <3>2 DEF IsClosedIn
  <2>4. Below(structure, roots) \subseteq Range(result)
    BY <1>3, <2>2, <2>3 DEF Below, Nodes
  <2>5. Range(result) \subseteq Below(structure, roots)
    BY <1>3 DEF SInv, ListedIsBelow, Below, Nodes
  <2>6. QED
    BY <2>4, <2>5
<1>5. QED
  BY <1>1, <1>4 DEF EachNodeOnce

\* The places of the list, for the passes that go through it.
LEMMA ListFacts ==
  ASSUME SInv
  PROVE  /\ Len(result) \in Nat /\ DOMAIN result = 1..Len(result)
         /\ \A i \in DOMAIN result : result[i] \in Nodes
         /\ IsInjective(result) /\ structure \in Structures
<1>1. result \in Seq(Nodes) /\ IsInjective(result) /\ structure \in Structures
  BY DEF SInv, ListIsTyped, ExploredIsListed
<1>2. QED
  BY <1>1

\* The places of the list, one by one.
LEMMA FromOnStep ==
  ASSUME SInv, NEW i \in DOMAIN result
  PROVE  /\ FromOn(i) = FromOn(i + 1) \cup {result[i]}
         /\ FromOn(i + 1) = FromOn(i) \ {result[i]}
         /\ i \in Nat
<1>1. /\ \A k \in DOMAIN result : k \in Int
      /\ \A k, j \in DOMAIN result : result[k] = result[j] => k = j
      /\ i \in Nat
  BY ListFacts DEF IsInjective
<1>2. \A k \in DOMAIN result : k >= i <=> k >= i + 1 \/ k = i
  BY <1>1
<1>3. FromOn(i) = FromOn(i + 1) \cup {result[i]}
  BY <1>2 DEF FromOn
<1>4. result[i] \notin FromOn(i + 1)
  <2>1. \A k \in DOMAIN result : k >= i + 1 => result[k] # result[i]
    BY <1>1
  <2>2. QED
    BY <2>1 DEF FromOn
<1>5. QED
  BY <1>1, <1>3, <1>4

LEMMA FromOnEnds ==
  ASSUME SInv
  PROVE  /\ FromOn(1) = Range(result)
         /\ \A i \in Nat : i > Len(result) => FromOn(i) = {}
         /\ \A i : FromOn(i) \subseteq Range(result)
<1>1. Len(result) \in Nat /\ DOMAIN result = 1..Len(result)
  BY ListFacts
<1>2. \A k \in DOMAIN result : k >= 1
  BY <1>1
<1>3. \A i \in Nat : i > Len(result) => \A k \in DOMAIN result : ~ k >= i
  BY <1>1
<1>4. QED
  BY <1>2, <1>3 DEF FromOn, Range

\* The children of a node are in the list, and later.
LEMMA ChildrenAreLater ==
  ASSUME SInv, Serialized, NEW i \in DOMAIN result
  PROVE  /\ ChildrenIn(structure, result[i]) \subseteq FromOn(i + 1)
         /\ ChildrenIn(structure, result[i]) \subseteq Nodes
<1>1. /\ structure \in Structures /\ result[i] \in Nodes /\ i \in Nat
      /\ DOMAIN result = 1..Len(result) /\ Len(result) \in Nat
  BY ListFacts
<1>2. ChildrenIn(structure, result[i]) \subseteq Range(result)
  <2>1. explore_index \in 1..Len(result) + 1
    BY DEF SInv, ListIsTyped
  <2>2. i < explore_index
    BY <1>1, <2>1 DEF Serialized
  <2>3. QED
    BY <2>2 DEF SInv, SeenIsListed
<1>3. \A j \in DOMAIN result : result[j] \in ChildrenIn(structure, result[i]) => i < j
  BY SInvImpliesParentsFirst DEF ParentsFirst
<1>4. \A j \in DOMAIN result : result[j] \in ChildrenIn(structure, result[i]) => j >= i + 1
  BY <1>1, <1>3
<1>5. ChildrenIn(structure, result[i]) \subseteq FromOn(i + 1)
  BY <1>2, <1>4 DEF FromOn, Range
<1>6. QED
  BY <1>1, <1>5, Conformed DEF Nodes

(***************************************************************************)
(* The invariant of one serialization.                                     *)
(***************************************************************************)
THEOREM SerializerInvariant == SerializerSpec => []SInv
<1>1. Init => SInv
  <2>1. SUFFICES ASSUME Init PROVE SInv
    OBVIOUS
  <2>2. structure \in Structures /\ RootsAreGiven /\ Start
    BY <2>1, PsddGraphAssumption DEF Init, RootsAreGiven
  <2>3. QED
    BY <2>2, StartKeepsSInv
<1>2. SInv /\ [SerializerNext]_serializerVars => SInv'
  BY SerializerKeepsSInv, IdleKeepsSInv
<1>3. QED
  BY <1>1, <1>2, PTL DEF SerializerSpec

\* In every list of a serialization, finished or not, parents come first.
THEOREM ParentsComeFirst == SerializerSpec => []ParentsFirst
<1>1. SInv => ParentsFirst
  BY SInvImpliesParentsFirst
<1>2. QED
  BY <1>1, SerializerInvariant, PTL

\* The finished list has every node below the roots once, and no other.
THEOREM ListIsComplete == SerializerSpec => []EachNodeOnce
<1>1. SInv => EachNodeOnce
  BY SInvImpliesEachNodeOnce
<1>2. QED
  BY <1>1, SerializerInvariant, PTL

=============================================================================
