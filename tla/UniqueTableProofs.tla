------------------------- MODULE UniqueTableProofs -------------------------
(***************************************************************************)
(* Theorems about the unique table, for any contents a client may ask for  *)
(* and any number of nodes.                                                *)
(***************************************************************************)
EXTENDS UniqueTable, WellFoundedInduction, TLAPS

\* The counter is above every index given.
CounterInv == \A a \in Addresses : IndexOf(a) < node_index_

(***************************************************************************)
(* No two nodes of the table are equal.                                    *)
(***************************************************************************)
Canonical == \A a, b \in table : Equal(ContentOf(a), ContentOf(b)) => a = b

TInv == /\ TypeOK /\ CounterInv /\ IndexesAreUnique
        /\ ChildrenAreInTable /\ HeldIsInTable /\ Canonical

Parts(c) == IF c.type = "decision"
              THEN {e.prime : e \in Range(c.elements)} \cup {e.sub : e \in Range(c.elements)}
              ELSE {}

-----------------------------------------------------------------------------
\* The children of a node are the parts of its content.
LEMMA ChildrenAreParts == \A a : Children(a) = Parts(ContentOf(a))
  BY DEF Children, Parts, ElementsOf

\* A decision node's elements are a sequence.
LEMMA ContentTypes ==
  ASSUME NEW c \in Content, c.type = "decision"
  PROVE  c.elements \in Seq(Elements)
  BY DEF Content, Literal, Top, Decision

\* operator== is symmetric.
LEMMA EqualSymmetric ==
  ASSUME NEW c \in Content, NEW d \in Content, Equal(c, d)
  PROVE  Equal(d, c)
<1>1. CASE c.type = "decision"
  <2>1. c.elements \in Seq(Elements) /\ d.elements \in Seq(Elements)
    BY <1>1, ContentTypes DEF Equal
  <2>2. Len(c.elements) = Len(d.elements) /\ SameElements(c.elements, d.elements)
    BY <1>1 DEF Equal, SameElements
  <2>3. DOMAIN c.elements = DOMAIN d.elements
    BY <2>1, <2>2
  <2>4. SameElements(d.elements, c.elements)
    BY <2>2, <2>3 DEF SameElements
  <2>5. QED
    BY <1>1, <2>4 DEF Equal
<1>2. CASE c.type # "decision"
  BY <1>2 DEF Equal
<1>3. QED
  BY <1>1, <1>2

\* The comparison of two contents reads only the indexes of their parts.
LEMMA EqualReadsParts ==
  ASSUME NEW c \in Content, NEW d \in Content,
         \A x \in Parts(c) \cup Parts(d) : IndexOf(x)' = IndexOf(x)
  PROVE  Equal(c, d)' <=> Equal(c, d)
<1>1. CASE c.type = "decision" /\ d.type = "decision"
  <2>1. c.elements \in Seq(Elements) /\ d.elements \in Seq(Elements)
    BY <1>1, ContentTypes
  <2>2. \A i \in DOMAIN c.elements : c.elements[i].prime \in Parts(c) /\ c.elements[i].sub \in Parts(c)
    BY <1>1 DEF Parts, Range
  <2>3. \A i \in DOMAIN d.elements : d.elements[i].prime \in Parts(d) /\ d.elements[i].sub \in Parts(d)
    BY <1>1 DEF Parts, Range
  <2>4. \A i \in DOMAIN c.elements : Len(c.elements) = Len(d.elements) => i \in DOMAIN d.elements
    BY <2>1
  <2>5. SameElements(c.elements, d.elements)' <=> SameElements(c.elements, d.elements)
    BY <2>2, <2>3, <2>4 DEF SameElements
  <2>6. QED
    BY <2>5 DEF Equal
<1>2. CASE ~(c.type = "decision" /\ d.type = "decision")
  BY <1>2 DEF Equal
<1>3. QED
  BY <1>1, <1>2

-----------------------------------------------------------------------------
\* Inserting a node of which the table has none equal.
LEMMA InsertKeepsTInv ==
  ASSUME TInv, NEW c \in Content, Parts(c) \subseteq table, Insert(c)
  PROVE  TInv'
<1>0. PICK k, node : /\ k = Len(heap) + 1
                     /\ node = [content |-> c, node_index |-> node_index_]
  OBVIOUS
<1>1. /\ heap \in Seq(Node) /\ node_index_ \in Nat
      /\ Addresses = 1..Len(heap) /\ Len(heap) \in Nat
      /\ table \subseteq Addresses /\ held \subseteq Addresses
  BY DEF TInv, TypeOK, Addresses
<1>2. /\ heap' = Append(heap, node) /\ node_index_' = node_index_ + 1
      /\ table' = table \cup {k} /\ held' = held \cup {k}
  BY <1>0 DEF Insert, NextIndex, NewAddress
<1>3. node \in Node
  BY <1>0, <1>1 DEF Node
<1>4. /\ heap' \in Seq(Node)
      /\ Addresses' = Addresses \cup {k} /\ k \notin Addresses
      /\ \A a \in Addresses : heap'[a] = heap[a]
      /\ heap'[k] = node
  BY <1>0, <1>1, <1>2, <1>3 DEF Addresses
<1>5. /\ \A a \in Addresses : ContentOf(a)' = ContentOf(a) /\ IndexOf(a)' = IndexOf(a)
                              /\ IndexOf(a) \in Nat /\ ContentOf(a) \in Content
      /\ ContentOf(k)' = c /\ IndexOf(k)' = node_index_
  <2>1. ASSUME NEW a \in Addresses PROVE heap[a] \in Node
    <3>1. a \in 1..Len(heap)
      BY <1>1
    <3>2. QED
      BY <1>1, <3>1
  <2>2. \A a \in Addresses : IndexOf(a) \in Nat /\ ContentOf(a) \in Content
    BY <2>1 DEF ContentOf, IndexOf, Node
  <2>3. \A a \in Addresses : ContentOf(a)' = ContentOf(a) /\ IndexOf(a)' = IndexOf(a)
    BY <1>4 DEF ContentOf, IndexOf
  <2>4. ContentOf(k)' = c /\ IndexOf(k)' = node_index_
    BY <1>0, <1>4 DEF ContentOf, IndexOf
  <2>5. QED
    BY <2>2, <2>3, <2>4
<1>6. TypeOK'
  <2>1. node_index_' \in Nat
    BY <1>1, <1>2
  <2>2. table' \subseteq Addresses' /\ held' \subseteq Addresses'
    BY <1>1, <1>2, <1>4, Zenon
  <2>3. QED
    BY <1>4, <2>1, <2>2 DEF TypeOK
<1>7. CounterInv' /\ IndexesAreUnique'
  <2>1. \A a \in Addresses : IndexOf(a) < node_index_
    BY DEF TInv, CounterInv
  <2>2. CounterInv'
    BY <1>1, <1>2, <1>4, <1>5, <2>1 DEF CounterInv
  <2>3. IndexesAreUnique'
    BY <1>1, <1>4, <1>5, <2>1 DEF TInv, IndexesAreUnique
  <2>4. QED
    BY <2>2, <2>3
<1>8. ChildrenAreInTable'
  <2>1. ASSUME NEW a \in table' PROVE Parts(ContentOf(a)') \subseteq table
    <3>1. CASE a = k
      BY <1>5, <3>1
    <3>2. CASE a # k
      BY <1>1, <1>2, <1>5, <3>2, ChildrenAreParts DEF TInv, ChildrenAreInTable
    <3>3. QED
      BY <3>1, <3>2
  <2>2. \A a : Children(a)' = Parts(ContentOf(a)')
    BY DEF Children, Parts, ElementsOf
  <2>3. QED
    BY <1>2, <2>1, <2>2 DEF ChildrenAreInTable
<1>9. HeldIsInTable'
  BY <1>2 DEF TInv, HeldIsInTable
<1>10. Canonical'
  <2>1. \A a \in table : Parts(ContentOf(a)) \subseteq table
    BY ChildrenAreParts DEF TInv, ChildrenAreInTable
  <2>2. \A a \in table : ~Equal(c, ContentOf(a)) /\ ~Equal(ContentOf(a), c)
    BY <1>1, <1>5, EqualSymmetric DEF Insert, Found
  <2>3. ASSUME NEW a \in table', NEW b \in table', Equal(ContentOf(a), ContentOf(b))'
        PROVE  a = b
    <3>1. PICK x, y : x = ContentOf(a)' /\ y = ContentOf(b)'
      OBVIOUS
    <3>2. /\ x \in Content /\ Parts(x) \subseteq table
          /\ y \in Content /\ Parts(y) \subseteq table
      BY <1>1, <1>2, <1>5, <2>1, <3>1
    <3>3. Equal(x, y)'
      BY <2>3, <3>1
    <3>4. Equal(x, y)
      BY <1>1, <1>5, <3>2, <3>3, EqualReadsParts
    <3>5. CASE a \in table /\ b \in table
      BY <1>1, <1>5, <3>1, <3>4, <3>5 DEF TInv, Canonical
    <3>6. CASE a = k /\ b \in table
      BY <1>1, <1>5, <2>2, <3>1, <3>4, <3>6
    <3>7. CASE a \in table /\ b = k
      BY <1>1, <1>5, <2>2, <3>1, <3>4, <3>7
    <3>8. CASE a = k /\ b = k
      BY <3>8
    <3>9. QED
      BY <1>2, <3>5, <3>6, <3>7, <3>8
  <2>4. QED
    BY <2>3 DEF Canonical
<1>11. QED
  BY <1>6, <1>7, <1>8, <1>9, <1>10 DEF TInv

\* Nodes do not become equal while the heap stays as it is.
LEMMA FewerNodesAreCanonical ==
  ASSUME Canonical, UNCHANGED heap, table' \subseteq table
  PROVE  Canonical'
<1>1. ASSUME NEW a \in table', NEW b \in table', Equal(ContentOf(a), ContentOf(b))'
      PROVE  a = b
  <2>1. PICK x, y : x = ContentOf(a) /\ y = ContentOf(b)
    OBVIOUS
  <2>2. ContentOf(a)' = x /\ ContentOf(b)' = y
    BY <2>1 DEF ContentOf
  <2>3. Equal(x, y)'
    BY <1>1, <2>2
  <2>4. SameElements(x.elements, y.elements)' <=> SameElements(x.elements, y.elements)
    BY DEF SameElements, IndexOf
  <2>5. Equal(x, y)
    BY <2>3, <2>4 DEF Equal
  <2>6. QED
    BY <2>1, <2>5 DEF Canonical
<1>2. QED
  BY <1>1 DEF Canonical

\* Returning a node the table has changes nothing of it.
LEMMA FindKeepsTInv ==
  ASSUME TInv, NEW c, Find(c)
  PROVE  TInv'
<1>1. /\ UNCHANGED <<heap, node_index_, table>>
      /\ held' \subseteq table
  BY DEF Find, Found, TInv, HeldIsInTable
<1>2. /\ TypeOK' /\ HeldIsInTable'
  BY <1>1 DEF TInv, TypeOK, HeldIsInTable, Addresses
<1>3. /\ CounterInv' /\ IndexesAreUnique'
  BY <1>1 DEF TInv, CounterInv, IndexesAreUnique, Addresses, IndexOf
<1>4. /\ ChildrenAreInTable'
  BY <1>1 DEF TInv, ChildrenAreInTable, Children, ElementsOf, ContentOf
<1>5. Canonical'
  BY <1>1, FewerNodesAreCanonical DEF TInv
<1>6. QED
  BY <1>2, <1>3, <1>4, <1>5 DEF TInv

\* A request for a content of which the table has the parts.
LEMMA RequestKeepsTInv ==
  ASSUME TInv, NEW c \in Content, Parts(c) \subseteq table, GetUniqueNode(c)
  PROVE  TInv'
BY InsertKeepsTInv, FindKeepsTInv DEF GetUniqueNode

\* Every list a client may give is a sequence of elements that it has.
LEMMA ListsAreElements ==
  ASSUME TInv, NEW es \in ElementLists
  PROVE  /\ es \in Seq(Elements)
         /\ \A i \in DOMAIN es : es[i].prime \in held /\ es[i].sub \in held
<1>1. held \subseteq Nat /\ DecisionParameters \subseteq Parameters
  BY UniqueTableAssumption DEF TInv, TypeOK, Addresses
<1>2. ASSUME NEW p \in held, NEW s \in held, NEW x \in DecisionParameters
      PROVE  [prime |-> p, sub |-> s, parameter |-> x] \in Elements
  BY <1>1 DEF Elements
<1>3. PICK n \in 1..MaxElements, v \in InnerVtrees :
             es \in [1..n -> [prime : Held(v.left), sub : Held(v.right), parameter : DecisionParameters]]
  BY DEF ElementLists
<1>4. n \in Nat /\ DOMAIN es = 1..n
  BY <1>3, UniqueTableAssumption
<1>5. ASSUME NEW i \in 1..n
      PROVE  es[i] \in Elements /\ es[i].prime \in held /\ es[i].sub \in held
  <2>1. PICK p \in held, s \in held, x \in DecisionParameters :
          es[i] = [prime |-> p, sub |-> s, parameter |-> x]
    BY <1>3 DEF Held
  <2>2. QED
    BY <1>2, <2>1
<1>6. QED
  BY <1>3, <1>4, <1>5

\* So is the list in the order of the primes.
LEMMA DecisionKeepsTInv ==
  ASSUME TInv, GetPsddDecisionNode
  PROVE  TInv'
<1>0. PICK es \in ElementLists, f \in DecisionFlags :
        \E p \in Bijection(DOMAIN es, DOMAIN es) :
          LET sorted == [i \in DOMAIN es |-> es[p[i]]] IN
          /\ SortedByPrime(sorted)
          /\ GetUniqueNode([type |-> "decision", elements |-> sorted, flag_index |-> f])
  BY DEF GetPsddDecisionNode
<1>1. PICK p \in Bijection(DOMAIN es, DOMAIN es) :
        GetUniqueNode([type |-> "decision",
                       elements |-> [i \in DOMAIN es |-> es[p[i]]], flag_index |-> f])
  BY <1>0
<1>2. PICK fs : fs = [i \in DOMAIN es |-> es[p[i]]]
  OBVIOUS
<1>3. PICK c : c = [type |-> "decision", elements |-> fs, flag_index |-> f]
  OBVIOUS
<1>4. /\ es \in Seq(Elements)
      /\ \A i \in DOMAIN es : es[i].prime \in held /\ es[i].sub \in held
  BY ListsAreElements
<1>5. \A i \in DOMAIN es : p[i] \in DOMAIN es
  BY DEF Bijection, Injection, Surjection
<1>6. fs \in Seq(Elements)
  <2>1. /\ DOMAIN es = 1..Len(es) /\ Len(es) \in Nat
        /\ \A i \in DOMAIN es : es[i] \in Elements
    BY <1>4
  <2>2. fs \in [1..Len(es) -> Elements]
    BY <1>2, <1>5, <2>1
  <2>3. QED
    BY <2>1, <2>2
<1>7. f \in Nat
  BY UniqueTableAssumption
<1>8. c \in Content
  BY <1>3, <1>6, <1>7 DEF Content, Decision
<1>9. Parts(c) \subseteq held
  BY <1>2, <1>3, <1>4, <1>5 DEF Parts, Range
<1>10. GetUniqueNode(c)
  BY <1>1, <1>2, <1>3
<1>11. Parts(c) \subseteq table
  BY <1>9 DEF TInv, HeldIsInTable
<1>12. QED
  BY <1>8, <1>10, <1>11, RequestKeepsTInv

\* A deletion that leaves a part of the table closed under children, and of
\* the held nodes such as are in it.
LEMMA DeletionKeepsTInv ==
  ASSUME TInv, UNCHANGED <<heap, node_index_>>,
         table' \subseteq table, held' \subseteq table',
         \A a \in table' : Children(a) \subseteq table'
  PROVE  TInv'
<1>1. /\ TypeOK' /\ HeldIsInTable'
  BY DEF TInv, TypeOK, HeldIsInTable, Addresses
<1>2. /\ CounterInv' /\ IndexesAreUnique'
  BY DEF TInv, CounterInv, IndexesAreUnique, Addresses, IndexOf
<1>3. /\ ChildrenAreInTable'
  BY DEF TInv, ChildrenAreInTable, Children, ElementsOf, ContentOf
<1>4. Canonical'
  BY FewerNodesAreCanonical DEF TInv
<1>5. QED
  BY <1>1, <1>2, <1>3, <1>4 DEF TInv

LEMMA DeleteUnusedKeepsTInv ==
  ASSUME TInv, DeleteUnusedPsddNodes
  PROVE  TInv'
<1>1. PICK used \in SUBSET held :
        /\ table' = {a \in table : ~Unused(a, GetCoveredPsddNodes(used))}
        /\ held' = held \cap GetCoveredPsddNodes(used)
        /\ UNCHANGED <<heap, node_index_, reply>>
  BY DEF DeleteUnusedPsddNodes
<1>2. PICK covered : covered = GetCoveredPsddNodes(used)
  OBVIOUS
<1>3. covered \subseteq Addresses /\ table \subseteq Addresses
  BY <1>2 DEF GetCoveredPsddNodes, TInv, TypeOK
<1>4. ASSUME NEW a \in covered \cap table PROVE Children(a) \subseteq covered
  <2>1. \A S \in SUBSET Addresses : used \subseteq S /\ IsClosed(S) => a \in S
    BY <1>2 DEF GetCoveredPsddNodes
  <2>2. \A S \in SUBSET Addresses : used \subseteq S /\ IsClosed(S) => Children(a) \subseteq S
    BY <2>1 DEF IsClosed
  <2>3. Children(a) \subseteq Addresses
    BY <1>3 DEF TInv, ChildrenAreInTable
  <2>4. QED
    BY <1>2, <2>2, <2>3 DEF GetCoveredPsddNodes
<1>5. \A a \in table : a \in table' <=> a \in covered
  BY <1>1, <1>2, <1>3 DEF Unused, TInv, IndexesAreUnique
<1>6. /\ table' \subseteq table /\ held' \subseteq table'
  BY <1>1, <1>2, <1>5 DEF TInv, HeldIsInTable
<1>7. \A a \in table' : Children(a) \subseteq table'
  BY <1>4, <1>5, <1>6 DEF TInv, ChildrenAreInTable
<1>8. QED
  BY <1>1, <1>6, <1>7, DeletionKeepsTInv

LEMMA DeleteFlagsKeepsTInv ==
  ASSUME TInv, DeletePsddNodesWithoutFlagIndexes
  PROVE  TInv'
<1>1. PICK flags \in SUBSET {ContentOf(a).flag_index : a \in table} :
        /\ FlagsCoverChildren(flags)
        /\ table' = {a \in table : ContentOf(a).flag_index \in flags}
        /\ held' = {a \in held : ContentOf(a).flag_index \in flags}
        /\ UNCHANGED <<heap, node_index_, reply>>
  BY DEF DeletePsddNodesWithoutFlagIndexes
<1>2. table \subseteq Addresses
  BY DEF TInv, TypeOK
<1>3. /\ table' \subseteq table /\ held' \subseteq table'
  BY <1>1 DEF TInv, HeldIsInTable
<1>4. ASSUME NEW a \in table', NEW b \in Children(a) PROVE b \in table'
  <2>1. b \in table
    BY <1>3 DEF TInv, ChildrenAreInTable
  <2>2. ContentOf(b).flag_index \in flags
    BY <1>1, <1>2, <2>1 DEF FlagsCoverChildren
  <2>3. QED
    BY <1>1, <2>1, <2>2
<1>5. QED
  BY <1>1, <1>3, <1>4, DeletionKeepsTInv

-----------------------------------------------------------------------------
(***************************************************************************)
(* The invariant of the table, over all requests and deletions.            *)
(***************************************************************************)
THEOREM TableInvariant == Spec => []TInv
<1>1. Init => TInv
  <2>1. SUFFICES ASSUME Init PROVE TInv
    OBVIOUS
  <2>2. heap = <<>> /\ table = {} /\ held = {} /\ node_index_ = 0
    BY <2>1 DEF Init
  <2>3. heap \in Seq(Node) /\ Len(heap) = 0
    BY <2>2
  <2>4. Addresses = {}
    BY <2>3 DEF Addresses
  <2>5. QED
    BY <2>2, <2>3, <2>4 DEF TInv, TypeOK, CounterInv, IndexesAreUnique, ChildrenAreInTable,
                HeldIsInTable, Canonical
<1>2. TInv /\ [Next]_vars => TInv'
  <2>1. SUFFICES ASSUME TInv, [Next]_vars PROVE TInv'
    OBVIOUS
  <2>2. CASE GetPsddLiteralNode
    <3>1. PICK c \in Literals : GetUniqueNode(c)
      BY <2>2 DEF GetPsddLiteralNode
    <3>2. c \in Content /\ Parts(c) = {}
      BY UniqueTableAssumption DEF Content, Literal, Parts
    <3>3. QED
      BY <2>1, <3>1, <3>2, RequestKeepsTInv
  <2>3. CASE GetPsddTopNode
    <3>1. PICK c \in TopNodes : GetUniqueNode(c)
      BY <2>3 DEF GetPsddTopNode
    <3>2. c \in Content /\ Parts(c) = {}
      BY UniqueTableAssumption DEF Content, Top, Parts
    <3>3. QED
      BY <2>1, <3>1, <3>2, RequestKeepsTInv
  <2>4. CASE GetPsddDecisionNode
    BY <2>1, <2>4, DecisionKeepsTInv
  <2>5. CASE DeleteUnusedPsddNodes
    BY <2>1, <2>5, DeleteUnusedKeepsTInv
  <2>6. CASE DeletePsddNodesWithoutFlagIndexes
    BY <2>1, <2>6, DeleteFlagsKeepsTInv
  <2>7. CASE UNCHANGED vars
    BY <2>1, <2>7, DeletionKeepsTInv DEF vars, TInv, ChildrenAreInTable, HeldIsInTable
  <2>8. QED
    BY <2>1, <2>2, <2>3, <2>4, <2>5, <2>6, <2>7 DEF Next
<1>3. QED
  BY <1>1, <1>2, PTL DEF Spec

\* The state has its types.
THEOREM TableTypeCorrect == Spec => []TypeOK
BY TableInvariant, PTL DEF TInv

\* A manager never gives two nodes the same index.
THEOREM UniqueIndexes == Spec => []IndexesAreUnique
BY TableInvariant, PTL DEF TInv

\* The table has the children of its nodes.
THEOREM TableIsClosed == Spec => []ChildrenAreInTable
BY TableInvariant, PTL DEF TInv

\* What the client holds stays in the table.
THEOREM HeldStays == Spec => []HeldIsInTable
BY TableInvariant, PTL DEF TInv

\* No two nodes of the table are equal as operator== has it.
THEOREM NoDuplicates == Spec => []Canonical
BY TableInvariant, PTL DEF TInv

-----------------------------------------------------------------------------
(***************************************************************************)
(* What nodes stand for.  Unfold is defined by recursion; it is well       *)
(* defined as a node is made after its children.                           *)
(***************************************************************************)
\* Every node is made after its children.
OlderInv == \A a \in Addresses : Parts(ContentOf(a)) \subseteq 1..a - 1

\* A node's elements are in the order of the indexes of their primes.
Sorted(c) ==
  c.type = "decision" =>
    \A i, j \in DOMAIN c.elements :
      i < j => IndexOf(c.elements[i].prime) < IndexOf(c.elements[j].prime)
SortedInv == \A a \in Addresses : Sorted(ContentOf(a))

NInv == TInv /\ OlderInv /\ SortedInv

UnfoldTrees == \A a \in Addresses : Unfold[a] = TreeOf(ContentOf(a), Unfold)
Injective == \A a, b \in table : Unfold[a] = Unfold[b] => a = b

Less == {ss \in Nat \X Nat : ss[1] < ss[2]}

\* A set of numbers has a least one.
LEMMA LeastOf ==
  ASSUME NEW T \in SUBSET Nat, T # {}
  PROVE  \E x \in T : \A y \in T : x <= y
<1>1. IsWellFoundedOn(Less, Nat)
  BY NatLessThanWellFounded DEF OpToRel, Less
<1>2. \E x \in T : \A y \in T : ~ (<<y, x>> \in Less)
  BY <1>1, WFMin
<1>3. \A x, y \in T : <<y, x>> \notin Less => x <= y
  BY DEF Less
<1>4. QED
  BY <1>2, <1>3

\* A tree depends on those of the parts only.
LEMMA TreeAgrees ==
  ASSUME NEW c, NEW f, NEW g, \A b \in Parts(c) : f[b] = g[b]
  PROVE  TreeOf(c, f) = TreeOf(c, g)
<1>1. CASE c.type = "decision"
  <2>1. \A e \in Range(c.elements) : f[e.prime] = g[e.prime] /\ f[e.sub] = g[e.sub]
    BY <1>1 DEF Parts
  <2>2. {<<f[e.prime], f[e.sub], e.parameter>> : e \in Range(c.elements)}
          = {<<g[e.prime], g[e.sub], e.parameter>> : e \in Range(c.elements)}
    BY <2>1
  <2>3. QED
    BY <2>2 DEF TreeOf
<1>2. CASE c.type # "decision"
  BY <1>2 DEF TreeOf
<1>3. QED
  BY <1>1, <1>2

\* f has the trees of the first k contents of cs.
Solves(f, cs, k) == f = [a \in 1..k |-> TreeOf(cs[a], f)]

\* Contents whose parts come before them.
PartsFirst(cs, size) == \A a \in 1..size : Parts(cs[a]) \subseteq 1..a - 1

LEMMA SolutionGrows ==
  ASSUME NEW cs, NEW size \in Nat, PartsFirst(cs, size), NEW k \in 0..size - 1,
         NEW f, Solves(f, cs, k)
  PROVE  \E g : Solves(g, cs, k + 1)
<1> DEFINE g == [a \in 1..k + 1 |-> TreeOf(cs[a], f)]
<1>1. \A a \in 1..k + 1 : g[a] = TreeOf(cs[a], f)
  OBVIOUS
<1>2. \A a \in 1..k : f[a] = TreeOf(cs[a], f) /\ a \in 1..k + 1
  <2>1. f = [a \in 1..k |-> TreeOf(cs[a], f)]
    BY DEF Solves
  <2>2. \A a \in 1..k : f[a] = TreeOf(cs[a], f)
    BY <2>1, Zenon
  <2>3. QED
    BY <2>2
<1> HIDE DEF g
<1>3. ASSUME NEW a \in 1..k + 1 PROVE TreeOf(cs[a], f) = TreeOf(cs[a], g)
  <2>1. Parts(cs[a]) \subseteq 1..a - 1
    BY DEF PartsFirst
  <2>2. \A b \in 1..a - 1 : b \in 1..k
    OBVIOUS
  <2>3. \A b \in Parts(cs[a]) : f[b] = g[b]
    BY <1>1, <1>2, <2>1, <2>2
  <2>4. QED
    BY <2>3, TreeAgrees
<1>4. g = [a \in 1..k + 1 |-> TreeOf(cs[a], g)]
  <2>1. g = [a \in 1..k + 1 |-> TreeOf(cs[a], f)]
    BY Zenon DEF g
  <2>2. QED
    BY <1>3, <2>1, Zenon
<1>5. QED
  BY <1>4, Zenon DEF Solves

LEMMA SolutionExists ==
  ASSUME NEW cs, NEW size \in Nat, PartsFirst(cs, size)
  PROVE  \E f : Solves(f, cs, size)
<1> DEFINE T == {k \in 0..size : ~ \E f : Solves(f, cs, k)}
<1>1. SUFFICES ASSUME T # {} PROVE FALSE
  BY DEF T
<1>2. PICK x \in T : \A y \in T : x <= y
  <2>1. T \in SUBSET Nat
    OBVIOUS
  <2> HIDE DEF T
  <2>2. QED
    BY <1>1, <2>1, LeastOf
<1>3. x \in 0..size /\ ~ \E f : Solves(f, cs, x)
  BY DEF T
<1>4. x # 0
  <2> DEFINE none == [a \in {} |-> 0]
  <2>1. 1..0 = {}
    OBVIOUS
  <2>2. [a \in {} |-> TreeOf(cs[a], none)] = none
    OBVIOUS
  <2>3. Solves(none, cs, 0)
    BY <2>1, <2>2, Zenon DEF Solves
  <2>4. QED
    BY <1>3, <2>3
<1>5. x - 1 \in 0..size - 1 /\ x - 1 + 1 = x /\ x - 1 \in 0..size
  BY <1>3, <1>4
<1>6. x - 1 \notin T
  BY <1>2, <1>3
<1>7. \E f : Solves(f, cs, x - 1)
  BY <1>5, <1>6
<1>8. \E g : Solves(g, cs, x)
  BY <1>5, <1>7, SolutionGrows
<1>9. QED
  BY <1>3, <1>8

\* Two functions that have the trees of the same contents agree.
LEMMA SolutionsAgree ==
  ASSUME NEW cs, NEW size \in Nat, PartsFirst(cs, size), NEW f, NEW g,
         \A a \in 1..size : f[a] = TreeOf(cs[a], f) /\ g[a] = TreeOf(cs[a], g)
  PROVE  \A a \in 1..size : f[a] = g[a]
<1> DEFINE T == {a \in 1..size : f[a] # g[a]}
<1>1. SUFFICES ASSUME T # {} PROVE FALSE
  BY DEF T
<1>2. PICK x \in T : \A y \in T : x <= y
  <2>1. T \in SUBSET Nat
    OBVIOUS
  <2> HIDE DEF T
  <2>2. QED
    BY <1>1, <2>1, LeastOf
<1>3. x \in 1..size /\ f[x] # g[x]
  BY DEF T
<1>4. \A b \in 1..x - 1 : b \in 1..size /\ ~(x <= b)
  BY <1>3
<1>5. \A b \in 1..x - 1 : f[b] = g[b]
  BY <1>2, <1>4 DEF T
<1>6. TreeOf(cs[x], f) = TreeOf(cs[x], g)
  BY <1>3, <1>5, TreeAgrees DEF PartsFirst
<1>7. QED
  BY <1>3, <1>6

\* The recursion of Unfold has the value it says.
LEMMA UnfoldIsTree == NInv => UnfoldTrees
<1> SUFFICES ASSUME NInv PROVE UnfoldTrees
  OBVIOUS
<1>1. PICK size \in Nat : Addresses = 1..size
  BY DEF NInv, TInv, TypeOK, Addresses
<1>2. PICK cs : cs = [a \in 1..size |-> ContentOf(a)]
  OBVIOUS
<1>3. \A a \in 1..size : cs[a] = ContentOf(a)
  BY <1>2, Zenon
<1>4. PartsFirst(cs, size)
  BY <1>1, <1>3, Zenon DEF PartsFirst, NInv, OlderInv
<1>5. PICK f : f = [a \in 1..size |-> TreeOf(cs[a], f)]
  BY <1>4, SolutionExists, Zenon DEF Solves
<1>6. [a \in 1..size |-> TreeOf(cs[a], f)] = [a \in 1..size |-> TreeOf(ContentOf(a), f)]
  BY <1>3, Zenon
<1>7. \E h : h = [a \in Addresses |-> TreeOf(ContentOf(a), h)]
  BY <1>1, <1>5, <1>6, Zenon
<1>8. Unfold = [a \in Addresses |-> TreeOf(ContentOf(a), Unfold)]
  BY <1>7, Zenon DEF Unfold
<1>9. QED
  BY <1>8, Zenon DEF UnfoldTrees

-----------------------------------------------------------------------------
\* Inserting a node that is made of nodes of the table, in the order of the primes.
LEMMA InsertKeepsNInv ==
  ASSUME NInv, NEW c \in Content, Parts(c) \subseteq table, Sorted(c), Insert(c)
  PROVE  /\ NInv'
         /\ Addresses' = Addresses \cup {NewAddress} /\ NewAddress \notin Addresses
         /\ \A a \in Addresses : ContentOf(a)' = ContentOf(a)
<1>0. PICK k, node : /\ k = Len(heap) + 1
                     /\ node = [content |-> c, node_index |-> node_index_]
  OBVIOUS
<1>1. /\ heap \in Seq(Node) /\ node_index_ \in Nat
      /\ Addresses = 1..Len(heap) /\ Len(heap) \in Nat
      /\ table \subseteq Addresses
  BY DEF NInv, TInv, TypeOK, Addresses
<1>2. /\ heap' = Append(heap, node) /\ table' = table \cup {k} /\ k = NewAddress
  BY <1>0 DEF Insert, NextIndex, NewAddress
<1>3. node \in Node
  BY <1>0, <1>1 DEF Node
<1>4. /\ Addresses' = Addresses \cup {k} /\ k \notin Addresses
      /\ \A a \in Addresses : heap'[a] = heap[a]
      /\ heap'[k] = node
  BY <1>0, <1>1, <1>2, <1>3 DEF Addresses
<1>5. /\ \A a \in Addresses : ContentOf(a)' = ContentOf(a) /\ IndexOf(a)' = IndexOf(a)
      /\ ContentOf(k)' = c
  BY <1>0, <1>4 DEF ContentOf, IndexOf
<1>6. TInv'
  BY InsertKeepsTInv DEF NInv
<1>7. OlderInv'
  <2>1. ASSUME NEW a \in Addresses' PROVE Parts(ContentOf(a)') \subseteq 1..a - 1
    <3>1. CASE a = k
      <4>1. Parts(c) \subseteq 1..Len(heap)
        BY <1>1
      <4>2. 1..Len(heap) = 1..k - 1
        BY <1>0, <1>1
      <4>3. QED
        BY <1>5, <3>1, <4>1, <4>2
    <3>2. CASE a # k
      BY <1>4, <1>5, <3>2 DEF NInv, OlderInv
    <3>3. QED
      BY <3>1, <3>2
  <2>2. QED
    BY <2>1 DEF OlderInv
<1>8. ASSUME NEW d, Parts(d) \subseteq Addresses, Sorted(d)
      PROVE  Sorted(d)'
  <2>1. CASE d.type = "decision"
    <3>1. \A i \in DOMAIN d.elements : d.elements[i].prime \in Parts(d)
      BY <2>1 DEF Parts, Range
    <3>2. \A i \in DOMAIN d.elements : IndexOf(d.elements[i].prime)' = IndexOf(d.elements[i].prime)
      BY <1>5, <1>8, <3>1
    <3>3. QED
      BY <1>8, <3>2 DEF Sorted
  <2>2. CASE d.type # "decision"
    BY <2>2 DEF Sorted
  <2>3. QED
    BY <2>1, <2>2
<1>9. SortedInv'
  <2>1. ASSUME NEW a \in Addresses PROVE Sorted(ContentOf(a))'
    <3>1. PICK d : d = ContentOf(a)
      OBVIOUS
    <3>2. Parts(d) \subseteq 1..a - 1 /\ Sorted(d)
      BY <3>1 DEF NInv, OlderInv, SortedInv
    <3>3. 1..a - 1 \subseteq Addresses
      BY <1>1
    <3>4. Sorted(d)' /\ ContentOf(a)' = d
      BY <1>5, <1>8, <3>1, <3>2, <3>3
    <3>5. QED
      BY <3>4 DEF Sorted
  <2>2. Sorted(ContentOf(k))'
    <3>1. Sorted(c)' /\ ContentOf(k)' = c
      BY <1>1, <1>5, <1>8
    <3>2. QED
      BY <3>1 DEF Sorted
  <2>3. QED
    BY <1>4, <2>1, <2>2 DEF SortedInv
<1>10. QED
  BY <1>2, <1>4, <1>5, <1>6, <1>7, <1>9 DEF NInv

\* Steps that leave the heap as it is.
LEMMA SameHeapKeepsNInv ==
  ASSUME NInv, TInv', UNCHANGED heap
  PROVE  NInv'
<1>1. Addresses' = Addresses /\ \A a : ContentOf(a)' = ContentOf(a) /\ IndexOf(a)' = IndexOf(a)
  BY DEF Addresses, ContentOf, IndexOf
<1>2. OlderInv'
  BY <1>1 DEF NInv, OlderInv
<1>3. SortedInv'
  <2>1. ASSUME NEW a \in Addresses PROVE Sorted(ContentOf(a))'
    <3>1. PICK d : d = ContentOf(a)
      OBVIOUS
    <3>2. Sorted(d)
      BY <3>1 DEF NInv, SortedInv
    <3>3. Sorted(d)'
      BY <1>1, <3>2 DEF Sorted
    <3>4. ContentOf(a)' = d
      BY <1>1, <3>1
    <3>5. QED
      BY <3>3, <3>4 DEF Sorted
  <2>2. QED
    BY <1>1, <2>1 DEF SortedInv
<1>4. QED
  BY <1>2, <1>3 DEF NInv

-----------------------------------------------------------------------------
(***************************************************************************)
(* No two nodes of the table stand for one structure.  Where operator==    *)
(* compares children by index and in their order, this compares them by    *)
(* what they stand for, in any order: it needs that nodes of the table     *)
(* have their children in the table, and their elements sorted.            *)
(***************************************************************************)
\* Two sorted lists of the same elements are one list.
LEMMA SameElementsSameList ==
  ASSUME NEW es \in Seq(Elements), NEW fs \in Seq(Elements), Range(es) = Range(fs),
         \A e \in Range(es) : IndexOf(e.prime) \in Nat,
         \A i, j \in DOMAIN es : i < j => IndexOf(es[i].prime) < IndexOf(es[j].prime),
         \A i, j \in DOMAIN fs : i < j => IndexOf(fs[i].prime) < IndexOf(fs[j].prime)
  PROVE  es = fs
<1>1. PICK m \in Nat, n \in Nat : m = Len(es) /\ n = Len(fs)
  OBVIOUS
<1>2. DOMAIN es = 1..m /\ DOMAIN fs = 1..n
  BY <1>1
<1>3. PICK x : x = [i \in 1..m |-> IndexOf(es[i].prime)]
  OBVIOUS
<1>4. PICK y : y = [i \in 1..n |-> IndexOf(fs[i].prime)]
  OBVIOUS
<1>5. /\ \A i \in 1..m : x[i] = IndexOf(es[i].prime) /\ x[i] \in Nat
      /\ \A i \in 1..n : y[i] = IndexOf(fs[i].prime) /\ y[i] \in Nat
  BY <1>2, <1>3, <1>4 DEF Range
<1>6. /\ \A i, j \in 1..m : i < j => x[i] < x[j]
      /\ \A i, j \in 1..n : i < j => y[i] < y[j]
  BY <1>2, <1>5
<1>7. /\ \A i \in 1..m : \E j \in 1..n : es[i] = fs[j]
      /\ \A j \in 1..n : \E i \in 1..m : es[i] = fs[j]
  BY <1>2 DEF Range
<1>8. \A i \in 1..m, j \in 1..n : es[i] = fs[j] => x[i] = y[j]
  BY <1>5
\* d is the first place where they differ.
<1> DEFINE Differ == {i \in Nat : /\ i \in 1..m \cup 1..n
                                  /\ ~(i \in 1..m /\ i \in 1..n /\ es[i] = fs[i])}
<1>9. ASSUME Differ # {} PROVE FALSE
  <2>1. PICK d \in Differ : \A i \in Differ : d <= i
    <3>1. Differ \in SUBSET Nat
      OBVIOUS
    <3> HIDE DEF Differ
    <3>2. QED
      BY <1>9, <3>1, LeastOf
  <2>2. d \in Nat /\ d \in 1..m \cup 1..n /\ ~(d \in 1..m /\ d \in 1..n /\ es[d] = fs[d])
    OBVIOUS
  <2>3. \A i \in 1..d - 1 : i \in 1..m /\ i \in 1..n /\ es[i] = fs[i]
    <3>1. SUFFICES ASSUME NEW i \in 1..d - 1, ~(i \in 1..m /\ i \in 1..n /\ es[i] = fs[i])
                   PROVE  FALSE
      OBVIOUS
    <3>2. i \in Nat /\ i \in 1..m \cup 1..n /\ ~(d <= i)
      BY <1>1, <2>2
    <3>3. i \in Differ
      BY <3>1, <3>2
    <3>4. QED
      BY <2>1, <3>2, <3>3
  <2> HIDE DEF Differ
  <2>4. ASSUME d \in 1..m PROVE \E j \in 1..n : es[d] = fs[j] /\ j > d
    <3>1. PICK j \in 1..n : es[d] = fs[j]
      BY <1>7, <2>4
    <3>2. j # d
      BY <2>2, <2>4, <3>1
    <3>3. ASSUME j \in 1..d - 1 PROVE FALSE
      <4>1. es[j] = fs[j] /\ j \in 1..m
        BY <2>3, <3>3
      <4>2. x[j] < x[d] /\ x[j] = y[j] /\ x[d] = y[j] /\ x[d] \in Nat
        BY <1>5, <1>6, <1>8, <2>4, <3>1, <3>3, <4>1
      <4>3. QED
        BY <4>2
    <3>4. QED
      BY <2>2, <3>1, <3>2, <3>3
  <2>5. ASSUME d \in 1..n PROVE \E i \in 1..m : es[i] = fs[d] /\ i > d
    <3>1. PICK i \in 1..m : es[i] = fs[d]
      BY <1>7, <2>5
    <3>2. i # d
      BY <2>2, <2>5, <3>1
    <3>3. ASSUME i \in 1..d - 1 PROVE FALSE
      <4>1. es[i] = fs[i] /\ i \in 1..n
        BY <2>3, <3>3
      <4>2. x[i] = y[i] /\ x[i] = y[d] /\ y[d] \in Nat
        BY <1>5, <1>8, <2>5, <3>1, <4>1
      <4>3. i < d
        BY <2>2, <3>3
      <4>4. y[i] < y[d]
        BY <1>6, <2>5, <4>1, <4>3
      <4>5. QED
        BY <4>2, <4>4
    <3>4. QED
      BY <2>2, <3>1, <3>2, <3>3
  <2>6. d \in 1..m /\ d \in 1..n
    BY <1>1, <2>2, <2>4, <2>5
  <2>7. PICK j \in 1..n, i \in 1..m : es[d] = fs[j] /\ j > d /\ es[i] = fs[d] /\ i > d
    BY <2>4, <2>5, <2>6
  <2>8. x[d] = y[j] /\ y[d] < y[j] /\ x[i] = y[d] /\ x[d] < x[i]
    BY <1>6, <1>8, <2>6, <2>7
  <2>9. x[d] \in Nat /\ y[d] \in Nat
    BY <1>5, <2>6
  <2>10. QED
    BY <2>8, <2>9
<1>10. \A i \in 1..m \cup 1..n : i \in 1..m /\ i \in 1..n /\ es[i] = fs[i]
  <2>1. \A i \in 1..m \cup 1..n : i \in Nat
    BY <1>1
  <2>2. QED
    BY <1>9, <2>1
<1>11. m = n
  <2>1. m # 0 => m \in 1..m
    BY <1>1
  <2>2. n # 0 => n \in 1..n
    BY <1>1
  <2>3. QED
    BY <1>1, <1>10, <2>1, <2>2
<1>12. es = [i \in 1..m |-> es[i]] /\ fs = [i \in 1..m |-> fs[i]]
  BY <1>2, <1>11
<1>13. [i \in 1..m |-> es[i]] = [i \in 1..m |-> fs[i]]
  BY <1>10, Zenon
<1>14. QED
  BY <1>12, <1>13, Zenon

\* Equal trees of decision nodes are of the same elements, where the parts are told apart.
LEMMA SameTreeSameElements ==
  ASSUME NEW c \in Decision, NEW d \in Decision, NEW U,
         TreeOf(c, U) = TreeOf(d, U),
         \A p \in Parts(c), q \in Parts(d) : U[p] = U[q] => p = q
  PROVE  Range(c.elements) = Range(d.elements) /\ c.flag_index = d.flag_index
<1> DEFINE Branch(e) == <<U[e.prime], U[e.sub], e.parameter>>
           Branches(x) == {Branch(e) : e \in Range(x.elements)}
<1>1. c.type = "decision" /\ d.type = "decision"
  BY DEF Decision
<1>2. /\ TreeOf(c, U) = [flag_index |-> c.flag_index, elements |-> Branches(c)]
      /\ TreeOf(d, U) = [flag_index |-> d.flag_index, elements |-> Branches(d)]
  BY <1>1, Zenon DEF TreeOf
<1> HIDE DEF Branches
<1>3. Branches(c) = Branches(d) /\ c.flag_index = d.flag_index
  <2>1. PICK t, S, T : /\ S = Branches(c) /\ t = [flag_index |-> c.flag_index, elements |-> S]
                       /\ T = Branches(d) /\ t = [flag_index |-> d.flag_index, elements |-> T]
    BY <1>2, Zenon
  <2>2. t.elements = Branches(c) /\ t.flag_index = c.flag_index
    BY <2>1
  <2>3. t.elements = Branches(d) /\ t.flag_index = d.flag_index
    BY <2>1
  <2>4. QED
    BY <2>2, <2>3
<1>4. /\ \A e \in Range(c.elements) : e \in Elements /\ e.prime \in Parts(c) /\ e.sub \in Parts(c)
      /\ \A e \in Range(d.elements) : e \in Elements /\ e.prime \in Parts(d) /\ e.sub \in Parts(d)
  <2>1. c.elements \in Seq(Elements) /\ d.elements \in Seq(Elements)
    BY DEF Decision
  <2>2. Range(c.elements) \subseteq Elements /\ Range(d.elements) \subseteq Elements
    BY <2>1 DEF Range
  <2>3. QED
    BY <1>1, <2>2 DEF Parts
<1>5. ASSUME NEW e \in Range(c.elements), NEW x \in Range(d.elements), Branch(e) = Branch(x)
      PROVE  e = x
  <2>1. U[e.prime] = U[x.prime] /\ U[e.sub] = U[x.sub] /\ e.parameter = x.parameter
    BY <1>5
  <2>2. e.prime = x.prime /\ e.sub = x.sub
    BY <1>4, <2>1
  <2>3. e \in Elements /\ x \in Elements
    BY <1>4
  <2>4. QED
    BY <2>1, <2>2, <2>3 DEF Elements
<1> HIDE DEF Branch
<1>6. ASSUME NEW e \in Range(c.elements) PROVE e \in Range(d.elements)
  <2>1. Branch(e) \in Branches(d)
    BY <1>3 DEF Branches
  <2>2. PICK x \in Range(d.elements) : Branch(e) = Branch(x)
    BY <2>1 DEF Branches
  <2>3. QED
    BY <1>5, <2>2
<1>7. ASSUME NEW x \in Range(d.elements) PROVE x \in Range(c.elements)
  <2>1. Branch(x) \in Branches(c)
    BY <1>3 DEF Branches
  <2>2. PICK e \in Range(c.elements) : Branch(e) = Branch(x)
    BY <2>1 DEF Branches
  <2>3. QED
    BY <1>5, <2>2
<1>8. QED
  BY <1>3, <1>6, <1>7

\* The tree of a decision node is not the content of another node.
LEMMA TreesHaveTypes ==
  ASSUME NEW c \in Content, NEW d \in Content, NEW U, TreeOf(c, U) = TreeOf(d, U)
  PROVE  \/ c.type # "decision" /\ c = d
         \/ c \in Decision /\ d \in Decision
<1>1. /\ c.type = "decision" <=> c \in Decision
      /\ d.type = "decision" <=> d \in Decision
  BY DEF Content, Literal, Top, Decision
<1>2. ASSUME NEW x \in Content, x.type # "decision", NEW f, NEW S
      PROVE  x # [flag_index |-> f, elements |-> S]
  <2>1. "type" \in DOMAIN x
    BY <1>2 DEF Content, Literal, Top, Decision
  <2>2. "type" \notin DOMAIN [flag_index |-> f, elements |-> S]
    OBVIOUS
  <2>3. QED
    BY <2>1, <2>2
<1>3. CASE c.type # "decision" /\ d.type # "decision"
  BY <1>3 DEF TreeOf
<1>4. CASE c.type # "decision" /\ d.type = "decision"
  BY <1>2, <1>4, Zenon DEF TreeOf
<1>5. CASE c.type = "decision" /\ d.type # "decision"
  BY <1>2, <1>5, Zenon DEF TreeOf
<1>6. CASE c.type = "decision" /\ d.type = "decision"
  BY <1>1, <1>6
<1>7. QED
  BY <1>3, <1>4, <1>5, <1>6

\* Sorted contents of one structure are equal.
LEMMA SameTreeEqual ==
  ASSUME NInv, NEW a \in table, NEW b \in table, Unfold[a] = Unfold[b],
         \A p \in Children(a), q \in table : Unfold[p] = Unfold[q] => p = q
  PROVE  a = b
<1>1. PICK c, d : c = ContentOf(a) /\ d = ContentOf(b)
  OBVIOUS
<1>2. /\ heap \in Seq(Node) /\ table \subseteq Addresses
      /\ \A x \in Addresses : IndexOf(x) \in Nat /\ ContentOf(x) \in Content
  <2>1. heap \in Seq(Node) /\ table \subseteq Addresses /\ Addresses = 1..Len(heap)
    BY DEF NInv, TInv, TypeOK, Addresses
  <2>2. ASSUME NEW x \in Addresses PROVE heap[x] \in Node
    <3>1. x \in 1..Len(heap)
      BY <2>1
    <3>2. QED
      BY <2>1, <3>1
  <2>3. QED
    BY <2>1, <2>2 DEF ContentOf, IndexOf, Node
<1>3. c \in Content /\ d \in Content /\ Sorted(c) /\ Sorted(d)
  BY <1>1, <1>2 DEF NInv, SortedInv
<1>4. /\ Parts(c) = Children(a) /\ Parts(d) \subseteq table /\ Parts(c) \subseteq table
  BY <1>1, ChildrenAreParts DEF NInv, TInv, ChildrenAreInTable
<1>5. TreeOf(c, Unfold) = TreeOf(d, Unfold)
  BY <1>1, <1>2, UnfoldIsTree DEF UnfoldTrees
<1>6. Equal(c, d)
  <2>1. CASE c = d
    BY <2>1 DEF Equal, SameElements
  <2>2. CASE c \in Decision /\ d \in Decision
    <3>1. Range(c.elements) = Range(d.elements) /\ c.flag_index = d.flag_index
      BY <1>4, <1>5, <2>2, SameTreeSameElements
    <3>2. /\ c.elements \in Seq(Elements) /\ d.elements \in Seq(Elements)
          /\ c.type = "decision" /\ d.type = "decision"
      BY <2>2 DEF Decision
    <3>3. \A e \in Range(c.elements) : IndexOf(e.prime) \in Nat
      BY <1>2, <1>4, <3>2 DEF Parts
    <3>4. c.elements = d.elements
      BY <1>3, <3>1, <3>2, <3>3, SameElementsSameList DEF Sorted
    <3>5. QED
      BY <3>1, <3>2, <3>4 DEF Equal, SameElements
  <2>3. QED
    BY <1>3, <1>5, <2>1, <2>2, TreesHaveTypes
<1>7. QED
  BY <1>1, <1>6 DEF NInv, TInv, Canonical

LEMMA StructuresAreUnique == NInv => Injective
<1> SUFFICES ASSUME NInv PROVE Injective
  OBVIOUS
<1>1. table \subseteq Nat
  BY DEF NInv, TInv, TypeOK, Addresses
<1> DEFINE Twins == {a \in table : \E b \in table : Unfold[a] = Unfold[b] /\ a # b}
<1>2. ASSUME Twins # {} PROVE FALSE
  <2>1. PICK a \in Twins : \A x \in Twins : a <= x
    <3>1. Twins \in SUBSET Nat
      BY <1>1
    <3> HIDE DEF Twins
    <3>2. QED
      BY <1>2, <3>1, LeastOf
  <2>2. PICK b \in table : Unfold[a] = Unfold[b] /\ a # b
    OBVIOUS
  <2>3. \A p \in Children(a) : p \in table /\ p \in Nat /\ ~(a <= p)
    <3>1. a \in table /\ a \in Addresses /\ a \in Nat
      BY <1>1 DEF NInv, TInv, TypeOK
    <3>2. Children(a) \subseteq 1..a - 1 /\ Children(a) \subseteq table
      BY <3>1, ChildrenAreParts DEF NInv, OlderInv, TInv, ChildrenAreInTable
    <3>3. QED
      BY <3>1, <3>2
  <2>4. \A p \in Children(a), q \in table : Unfold[p] = Unfold[q] => p = q
    BY <2>1, <2>3
  <2>5. a \in table
    OBVIOUS
  <2> HIDE DEF Twins
  <2>6. QED
    BY <2>2, <2>4, <2>5, SameTreeEqual
<1>3. QED
  BY <1>2 DEF Injective

-----------------------------------------------------------------------------
(***************************************************************************)
(* Every step keeps this invariant, and is a step of Interning.            *)
(***************************************************************************)
\* What names are when structures are unique.
NamesAre(names, trees, T) ==
  /\ DOMAIN names = {trees[a] : a \in T}
  /\ \A a \in T : names[trees[a]] = a
  /\ names = [s \in DOMAIN names |-> names[s]]

NamesOf(trees, T) ==
  LET tree == [a \in T |-> trees[a]] IN [s \in Range(tree) |-> CHOOSE a \in T : tree[a] = s]

LEMMA ChosenNames ==
  ASSUME NEW trees, NEW T, \A a, b \in T : trees[a] = trees[b] => a = b
  PROVE  NamesAre(NamesOf(trees, T), trees, T)
<1> DEFINE tree == [a \in T |-> trees[a]]
           chosen(s) == CHOOSE a \in T : tree[a] = s
           names == [s \in Range(tree) |-> chosen(s)]
<1>1. \A a \in T : tree[a] = trees[a]
  OBVIOUS
<1>2. Range(tree) = {trees[a] : a \in T}
  BY <1>1 DEF Range
<1> HIDE DEF tree
<1>3. \A a \in T : chosen(trees[a]) = a
  <2> SUFFICES ASSUME NEW a \in T PROVE chosen(trees[a]) = a
    OBVIOUS
  <2>1. \E b : b \in T /\ tree[b] = trees[a]
    BY <1>1, Zenon
  <2>2. chosen(trees[a]) \in T /\ tree[chosen(trees[a])] = trees[a]
    BY <2>1, Zenon
  <2>3. trees[chosen(trees[a])] = trees[a]
    BY <1>1, <2>2, Zenon
  <2>4. QED
    BY <2>2, <2>3, Zenon
<1> HIDE DEF chosen
<1>4. DOMAIN names = Range(tree) /\ \A s \in Range(tree) : names[s] = chosen(s)
  BY Zenon
<1>5. names = [s \in DOMAIN names |-> names[s]]
  BY <1>4, Zenon
<1>6. \A a \in T : trees[a] \in Range(tree)
  BY <1>2, Zenon
<1> HIDE DEF names
<1>7. NamesAre(names, trees, T)
  BY <1>2, <1>3, <1>4, <1>5, <1>6, Zenon DEF NamesAre
<1>8. QED
  BY <1>7, Zenon DEF names, tree, chosen, NamesOf

NamesInv == NamesAre(Names, Unfold, table)

LEMMA NamesOfTable == NInv => NamesInv
<1> SUFFICES ASSUME NInv PROVE NamesInv
  OBVIOUS
<1>1. \A a, b \in table : Unfold[a] = Unfold[b] => a = b
  BY StructuresAreUnique DEF Injective
<1>2. NamesAre(NamesOf(Unfold, table), Unfold, table)
  BY <1>1, ChosenNames, Zenon
<1>3. Names = NamesOf(Unfold, table)
  BY Zenon DEF Names, NamesOf
<1>4. QED
  BY <1>2, <1>3, Zenon DEF NamesInv

\* What a node stands for never changes.
LEMMA TreesAreStable ==
  ASSUME NInv, NInv', Addresses \subseteq Addresses',
         \A a \in Addresses : ContentOf(a)' = ContentOf(a)
  PROVE  \A a \in Addresses : Unfold[a]' = Unfold[a]
<1>1. PICK size \in Nat : Addresses = 1..size
  BY DEF NInv, TInv, TypeOK, Addresses
<1>2. PICK f, g : f = Unfold /\ g = Unfold'
  OBVIOUS
<1>3. PICK cs : cs = [a \in 1..size |-> ContentOf(a)]
  OBVIOUS
<1>4. \A a \in 1..size : cs[a] = ContentOf(a) /\ cs[a] = ContentOf(a)'
  BY <1>1, <1>3
<1>5. UnfoldTrees /\ UnfoldTrees'
  BY UnfoldIsTree, PTL
<1>6. \A a \in 1..size : f[a] = TreeOf(cs[a], f)
  BY <1>1, <1>2, <1>4, <1>5 DEF UnfoldTrees
<1>7. \A a \in 1..size : g[a] = TreeOf(cs[a], g)
  BY <1>1, <1>2, <1>4, <1>5 DEF UnfoldTrees
<1>8. PartsFirst(cs, size)
  BY <1>1, <1>4 DEF PartsFirst, NInv, OlderInv
<1>9. \A a \in 1..size : f[a] = g[a]
  BY <1>6, <1>7, <1>8, SolutionsAgree
<1>10. QED
  BY <1>1, <1>2, <1>9

\* An insertion gives one new structure a new name.
LEMMA InsertInterns ==
  ASSUME NInv, NEW c \in Content, Parts(c) \subseteq table, Sorted(c), Insert(c)
  PROVE  Store!Intern
<1>1. PICK k : k = NewAddress
  OBVIOUS
<1>2. /\ NInv' /\ Addresses' = Addresses \cup {k} /\ k \notin Addresses
      /\ \A a \in Addresses : ContentOf(a)' = ContentOf(a)
      /\ table' = table \cup {k} /\ table \subseteq Addresses
  BY <1>1, InsertKeepsNInv DEF Insert, NInv, TInv, TypeOK
<1>3. \A a \in Addresses : Unfold[a]' = Unfold[a]
  BY <1>2, TreesAreStable
<1>4. NamesInv /\ NamesInv' /\ Injective'
  BY <1>2, NamesOfTable, StructuresAreUnique, PTL
<1>5. PICK N, M, U, V, T, S : /\ N = Names /\ M = Names' /\ U = Unfold /\ V = Unfold'
                              /\ T = table /\ S = table'
  OBVIOUS
<1>6. PICK s : s = V[k]
  OBVIOUS
<1>7. /\ NamesAre(N, U, T) /\ NamesAre(M, V, S)
      /\ \A a, b \in S : V[a] = V[b] => a = b
      /\ S = T \cup {k} /\ k \notin T
      /\ \A a \in T : V[a] = U[a]
  BY <1>2, <1>3, <1>4, <1>5 DEF NamesInv, Injective
<1>8. s \notin DOMAIN N
  BY <1>6, <1>7 DEF NamesAre
<1>9. DOMAIN M = DOMAIN N \cup {s}
  BY <1>6, <1>7 DEF NamesAre
<1>10. M[s] = k /\ \A r \in DOMAIN N : M[r] = N[r]
  BY <1>6, <1>7 DEF NamesAre
<1>11. M = [r \in DOMAIN N \cup {s} |-> IF r = s THEN k ELSE N[r]]
  <2>1. M = [r \in DOMAIN M |-> M[r]]
    BY <1>7 DEF NamesAre
  <2>2. \A r \in DOMAIN M : M[r] = IF r = s THEN k ELSE N[r]
    BY <1>8, <1>9, <1>10
  <2>3. QED
    BY <1>9, <2>1, <2>2, Zenon
<1>12. s \in DOMAIN M \ DOMAIN N /\ k \in Addresses' \ Addresses
  BY <1>2, <1>8, <1>9
<1>13. Names' = [r \in DOMAIN Names \cup {s} |-> IF r = s THEN k ELSE Names[r]]
  BY <1>5, <1>11, Zenon
<1>14. s \in DOMAIN Names' \ DOMAIN Names
  BY <1>5, <1>12, Zenon
<1>15. QED
  BY <1>2, <1>12, <1>13, <1>14, Zenon DEF Store!Intern

\* A step that adds no node only forgets names.
LEMMA SameHeapDrops ==
  ASSUME NInv, NInv', UNCHANGED heap, table' \subseteq table
  PROVE  Store!Drop
<1>1. /\ Addresses' = Addresses /\ table \subseteq Addresses
      /\ \A a \in Addresses : ContentOf(a)' = ContentOf(a)
  BY DEF Addresses, ContentOf, NInv, TInv, TypeOK
<1>2. \A a \in Addresses : Unfold[a]' = Unfold[a]
  BY <1>1, TreesAreStable
<1>3. NamesInv /\ NamesInv'
  BY NamesOfTable, PTL
<1>4. PICK N, M, U, V, T, S : /\ N = Names /\ M = Names' /\ U = Unfold /\ V = Unfold'
                              /\ T = table /\ S = table'
  OBVIOUS
<1>5. /\ NamesAre(N, U, T) /\ NamesAre(M, V, S)
      /\ S \subseteq T /\ \A a \in T : V[a] = U[a]
  BY <1>1, <1>2, <1>3, <1>4 DEF NamesInv
<1>6. DOMAIN M \subseteq DOMAIN N /\ \A r \in DOMAIN M : M[r] = N[r]
  BY <1>5 DEF NamesAre
<1>7. M = [r \in DOMAIN M |-> N[r]]
  <2>1. M = [r \in DOMAIN M |-> M[r]]
    BY <1>5 DEF NamesAre
  <2>2. QED
    BY <1>6, <2>1, Zenon
<1>8. QED
  BY <1>1, <1>4, <1>6, <1>7, Zenon DEF Store!Drop

\* A request for a content made of nodes of the table, in the order of the primes.
LEMMA RequestInterns ==
  ASSUME NInv, NEW c \in Content, Parts(c) \subseteq table, Sorted(c), GetUniqueNode(c)
  PROVE  NInv' /\ (Store!Intern \/ Store!Drop)
<1>1. CASE Insert(c)
  BY <1>1, InsertKeepsNInv, InsertInterns
<1>2. CASE Find(c)
  <2>1. TInv' /\ UNCHANGED heap /\ table' \subseteq table
    BY <1>2, FindKeepsTInv DEF NInv, Find
  <2>2. QED
    BY <2>1, SameHeapKeepsNInv, SameHeapDrops
<1>3. QED
  BY <1>1, <1>2 DEF GetUniqueNode

\* The constructor of a decision node sorts distinct primes.
LEMMA DecisionsAreMade ==
  ASSUME NInv, GetPsddDecisionNode
  PROVE  \E c \in Content : /\ c.type = "decision" /\ Parts(c) \subseteq table /\ Sorted(c)
                           /\ GetUniqueNode(c)
<1>1. PICK es \in ElementLists, f \in DecisionFlags :
        /\ IsInjective([i \in DOMAIN es |-> es[i].prime])
        /\ \E p \in Bijection(DOMAIN es, DOMAIN es) :
             LET sorted == [i \in DOMAIN es |-> es[p[i]]] IN
             /\ SortedByPrime(sorted)
             /\ GetUniqueNode([type |-> "decision", elements |-> sorted, flag_index |-> f])
  BY DEF GetPsddDecisionNode
<1> PICK p \in Bijection(DOMAIN es, DOMAIN es) :
       LET sorted == [i \in DOMAIN es |-> es[p[i]]] IN
       /\ SortedByPrime(sorted)
       /\ GetUniqueNode([type |-> "decision", elements |-> sorted, flag_index |-> f])
  BY <1>1
<1>2. PICK fs, c :
        /\ fs = [i \in DOMAIN es |-> es[p[i]]]
        /\ c = [type |-> "decision", elements |-> fs, flag_index |-> f]
        /\ SortedByPrime(fs) /\ GetUniqueNode(c)
  OBVIOUS
<1>3. /\ es \in Seq(Elements)
      /\ \A i \in DOMAIN es : es[i].prime \in held /\ es[i].sub \in held
  BY ListsAreElements DEF NInv
<1>4. /\ \A i \in DOMAIN es : p[i] \in DOMAIN es
      /\ \A i, j \in DOMAIN es : p[i] = p[j] => i = j
  BY DEF Bijection, Injection, Surjection, IsInjective
<1>5. \A i, j \in DOMAIN es : es[i].prime = es[j].prime => i = j
  BY <1>1 DEF IsInjective
<1>6. fs \in Seq(Elements) /\ DOMAIN fs = DOMAIN es
  <2>1. PICK size \in Nat : size = Len(es)
    BY <1>3
  <2>2. DOMAIN es = 1..size /\ \A i \in DOMAIN es : es[i] \in Elements
    BY <1>3, <2>1
  <2>3. fs \in [1..size -> Elements]
    BY <1>2, <1>4, <2>2
  <2>4. QED
    BY <2>2, <2>3
<1>7. c \in Content /\ c.type = "decision" /\ c.elements = fs
  BY <1>2, <1>6, UniqueTableAssumption DEF Content, Decision
<1>8. \A i \in DOMAIN fs : fs[i] = es[p[i]] /\ fs[i].prime \in held /\ fs[i].sub \in held
  BY <1>2, <1>3, <1>4, <1>6
<1>9. Parts(c) \subseteq table
  BY <1>7, <1>8 DEF Parts, Range, NInv, TInv, HeldIsInTable
<1>10. \A a \in held : a \in Addresses /\ IndexOf(a) \in Nat
  <2>1. /\ heap \in Seq(Node) /\ held \subseteq Addresses /\ Addresses = 1..Len(heap)
    BY DEF NInv, TInv, TypeOK, Addresses
  <2>2. ASSUME NEW a \in Addresses PROVE heap[a] \in Node
    <3>1. a \in 1..Len(heap)
      BY <2>1
    <3>2. QED
      BY <2>1, <3>1
  <2>3. QED
    BY <2>1, <2>2 DEF IndexOf, Node
<1>11. Sorted(c)
  <2>1. SUFFICES ASSUME NEW i \in DOMAIN fs, NEW j \in DOMAIN fs, i < j
                 PROVE  IndexOf(fs[i].prime) < IndexOf(fs[j].prime)
    BY <1>7 DEF Sorted
  <2>2. IndexOf(fs[i].prime) <= IndexOf(fs[j].prime)
    BY <1>2, <2>1 DEF SortedByPrime
  <2>3. i # j
    BY <1>6, <1>3, <2>1
  <2>4. fs[i].prime # fs[j].prime
    <3>1. i \in DOMAIN es /\ j \in DOMAIN es
      BY <1>6
    <3>2. p[i] \in DOMAIN es /\ p[j] \in DOMAIN es /\ p[i] # p[j]
      BY <1>4, <2>3, <3>1
    <3>3. es[p[i]].prime # es[p[j]].prime
      BY <1>5, <3>2
    <3>4. QED
      BY <1>8, <3>3
  <2>5. fs[i].prime \in held /\ fs[j].prime \in held
    BY <1>8
  <2>6. IndexOf(fs[i].prime) # IndexOf(fs[j].prime)
    BY <1>10, <2>4, <2>5 DEF NInv, TInv, IndexesAreUnique
  <2>7. QED
    BY <1>10, <2>2, <2>5, <2>6
<1>12. QED
  BY <1>2, <1>7, <1>9, <1>11

LEMMA DecisionInterns ==
  ASSUME NInv, GetPsddDecisionNode
  PROVE  NInv' /\ (Store!Intern \/ Store!Drop)
BY DecisionsAreMade, RequestInterns

\* Steps that only delete.
LEMMA DeletionInterns ==
  ASSUME NInv, TInv', UNCHANGED heap, table' \subseteq table
  PROVE  NInv' /\ (Store!Intern \/ Store!Drop)
BY SameHeapKeepsNInv, SameHeapDrops

LEMMA StepInterns ==
  ASSUME NInv, [Next]_vars
  PROVE  NInv' /\ (Store!Intern \/ Store!Drop)
<1>1. CASE GetPsddLiteralNode
  <2>1. PICK c \in Literals : GetUniqueNode(c)
    BY <1>1 DEF GetPsddLiteralNode
  <2>2. c \in Content /\ Parts(c) = {} /\ Sorted(c)
    BY UniqueTableAssumption DEF Content, Literal, Parts, Sorted
  <2>3. QED
    BY <2>1, <2>2, RequestInterns
<1>2. CASE GetPsddTopNode
  <2>1. PICK c \in TopNodes : GetUniqueNode(c)
    BY <1>2 DEF GetPsddTopNode
  <2>2. c \in Content /\ Parts(c) = {} /\ Sorted(c)
    BY UniqueTableAssumption DEF Content, Top, Parts, Sorted
  <2>3. QED
    BY <2>1, <2>2, RequestInterns
<1>3. CASE GetPsddDecisionNode
  BY <1>3, DecisionInterns
<1>4. CASE DeleteUnusedPsddNodes
  BY <1>4, DeleteUnusedKeepsTInv, DeletionInterns DEF NInv, DeleteUnusedPsddNodes
<1>5. CASE DeletePsddNodesWithoutFlagIndexes
  BY <1>5, DeleteFlagsKeepsTInv, DeletionInterns DEF NInv, DeletePsddNodesWithoutFlagIndexes
<1>6. CASE UNCHANGED vars
  <2>1. TInv'
    BY <1>6, DeletionKeepsTInv DEF NInv, vars, TInv, ChildrenAreInTable, HeldIsInTable
  <2>2. QED
    BY <1>6, <2>1, DeletionInterns DEF vars
<1>7. QED
  BY <1>1, <1>2, <1>3, <1>4, <1>5, <1>6 DEF Next

LEMMA InitInterns == Init => NInv /\ Store!Init
<1> SUFFICES ASSUME Init PROVE NInv /\ Store!Init
  OBVIOUS
<1>1. heap = <<>> /\ table = {} /\ held = {} /\ node_index_ = 0
  BY DEF Init
<1>2. heap \in Seq(Node) /\ Addresses = {}
  BY <1>1 DEF Addresses
<1>3. NInv
  BY <1>1, <1>2 DEF NInv, OlderInv, SortedInv, TInv, TypeOK, CounterInv, IndexesAreUnique,
                    ChildrenAreInTable, HeldIsInTable, Canonical
<1>4. NamesAre(Names, Unfold, table)
  BY <1>3, NamesOfTable DEF NamesInv
<1>5. Names = <<>>
  <2>1. PICK N, U : N = Names /\ U = Unfold
    OBVIOUS
  <2>2. DOMAIN N = {} /\ N = [s \in DOMAIN N |-> N[s]]
    BY <1>1, <1>4, <2>1 DEF NamesAre
  <2>3. N = <<>>
    BY <2>2
  <2>4. QED
    BY <2>1, <2>3
<1>6. QED
  BY <1>2, <1>3, <1>5 DEF Store!Init

-----------------------------------------------------------------------------
(***************************************************************************)
(* Nodes are made after their children, their elements are sorted: with    *)
(* these no two nodes of the table stand for the same structure, in any    *)
(* order of requests and deletions.                                        *)
(***************************************************************************)
THEOREM StructuresInvariant == Spec => [](NInv /\ Injective)
<1>1. NInv /\ [Next]_vars => NInv'
  BY StepInterns
<1>2. QED
  BY <1>1, InitInterns, StructuresAreUnique, PTL DEF Spec

(***************************************************************************)
(* The table implements Interning: what the manager gives out are names of *)
(* structures, one for each, which stay the same.                          *)
(***************************************************************************)
THEOREM TableInterns == Spec => StoreSpec
<1>1. NInv /\ [Next]_vars => NInv' /\ (Store!Intern \/ Store!Drop)
  BY StepInterns
<1>2. (Store!Intern \/ Store!Drop) => [Store!Intern \/ Store!Drop]_(Store!interningVars)
  OBVIOUS
<1>3. QED
  BY <1>1, <1>2, InitInterns, PTL DEF Spec, StoreSpec, Store!Spec

-----------------------------------------------------------------------------
(***************************************************************************)
(* Answers.  A request is answered with its content where the true         *)
(* parameter of a true node decides the false one: operator== does not     *)
(* look at the latter, and the run top_parameters shows what happens       *)
(* otherwise.                                                              *)
(***************************************************************************)
\* True nodes are as a client asked for them.
TopsInv == \A a \in Addresses : ContentOf(a).type = "top" => ContentOf(a) \in TopNodes

RepliesInv == reply.node # 0 => /\ reply.node \in Addresses
                                /\ ContentOf(reply.node) = reply.asked

AInv == NInv /\ TopsInv /\ RepliesInv

\* What a client asks for.
Asked(c) == /\ c \in Content /\ Parts(c) \subseteq table /\ Sorted(c)
            /\ c.type = "top" => c \in TopNodes

\* A node of the table that is equal to what is asked has its content.
LEMMA FoundIsAsked ==
  ASSUME TopsAgree, AInv, NEW c, Asked(c), NEW a \in table, Equal(c, ContentOf(a))
  PROVE  ContentOf(a) = c
<1>1. PICK d : d = ContentOf(a)
  OBVIOUS
<1>2. /\ heap \in Seq(Node) /\ a \in Addresses /\ Addresses = 1..Len(heap)
      /\ table \subseteq Addresses
  BY DEF AInv, NInv, TInv, TypeOK, Addresses
<1>3. d \in Content
  <2>1. heap[a] \in Node
    BY <1>2
  <2>2. QED
    BY <1>1, <2>1 DEF ContentOf, Node
<1>4. /\ c \in Content /\ c.type = d.type /\ c.flag_index = d.flag_index
  BY <1>1 DEF Asked, Equal
<1>5. CASE c.type = "literal"
  <2>1. c \in Literal /\ d \in Literal /\ c.literal = d.literal
    BY <1>1, <1>3, <1>4, <1>5 DEF Equal, Content, Literal, Top, Decision
  <2>2. QED
    BY <1>1, <1>4, <2>1 DEF Literal
<1>6. CASE c.type = "top"
  <2>1. /\ c \in TopNodes /\ d \in TopNodes
        /\ c.variable = d.variable /\ c.true_parameter = d.true_parameter
    BY <1>1, <1>2, <1>4, <1>6 DEF Equal, Asked, AInv, TopsInv
  <2>2. c.false_parameter = d.false_parameter
    BY <2>1 DEF TopsAgree
  <2>3. c \in Top /\ d \in Top
    BY <2>1, UniqueTableAssumption
  <2>4. QED
    BY <1>1, <1>4, <2>1, <2>2, <2>3 DEF Top
<1>7. CASE c.type = "decision"
  <2>1. /\ c \in Decision /\ d \in Decision
        /\ SameElements(c.elements, d.elements)
    BY <1>1, <1>3, <1>4, <1>7 DEF Equal, Content, Literal, Top, Decision
  <2>2. PICK es, fs : es = c.elements /\ fs = d.elements
    OBVIOUS
  <2>3. es \in Seq(Elements) /\ fs \in Seq(Elements)
    BY <2>1, <2>2 DEF Decision
  <2>4. PICK size \in Nat : size = Len(es) /\ size = Len(fs)
    BY <2>1, <2>2, <2>3 DEF SameElements
  <2>5. DOMAIN es = 1..size /\ DOMAIN fs = 1..size
    <3>1. DOMAIN es = 1..Len(es) /\ DOMAIN fs = 1..Len(fs)
      BY <2>3
    <3>2. QED
      BY <2>4, <3>1
  <2>6. Parts(c) \subseteq Addresses /\ Parts(d) \subseteq Addresses
    BY <1>1, <1>2, ChildrenAreParts DEF Asked, AInv, NInv, TInv, ChildrenAreInTable
  <2>7. ASSUME NEW i \in 1..size PROVE es[i] = fs[i]
    <3>1. es[i] \in Range(es) /\ fs[i] \in Range(fs)
      BY <2>5 DEF Range
    <3>2. es[i] \in Elements /\ fs[i] \in Elements
      BY <2>3, <2>5
    <3>3. /\ es[i].prime \in Addresses /\ es[i].sub \in Addresses
          /\ fs[i].prime \in Addresses /\ fs[i].sub \in Addresses
      BY <1>4, <1>7, <2>2, <2>6, <3>1 DEF Parts
    <3>4. /\ IndexOf(es[i].prime) = IndexOf(fs[i].prime)
          /\ IndexOf(es[i].sub) = IndexOf(fs[i].sub)
          /\ es[i].parameter = fs[i].parameter
      BY <2>1, <2>2, <2>5 DEF SameElements
    <3>5. es[i].prime = fs[i].prime /\ es[i].sub = fs[i].sub
      BY <3>3, <3>4 DEF AInv, NInv, TInv, IndexesAreUnique
    <3>6. QED
      BY <3>2, <3>4, <3>5 DEF Elements
  <2>8. es = fs
    <3>1. es = [i \in 1..size |-> es[i]] /\ fs = [i \in 1..size |-> fs[i]]
      BY <2>3, <2>5
    <3>2. [i \in 1..size |-> es[i]] = [i \in 1..size |-> fs[i]]
      BY <2>7, Zenon
    <3>3. QED
      BY <3>1, <3>2, Zenon
  <2>9. /\ c = [type |-> c.type, elements |-> c.elements, flag_index |-> c.flag_index]
        /\ d = [type |-> d.type, elements |-> d.elements, flag_index |-> d.flag_index]
    BY <2>1 DEF Decision
  <2>10. c = d
    BY <1>4, <2>2, <2>8, <2>9, Zenon
  <2>11. QED
    BY <1>1, <2>10
<1>8. QED
  BY <1>4, <1>5, <1>6, <1>7 DEF Content, Literal, Top, Decision

\* The answer to a request is a node of its content.
LEMMA RequestIsAnswered ==
  ASSUME TopsAgree, AInv, NEW c, Asked(c), GetUniqueNode(c)
  PROVE  TopsInv' /\ RepliesInv'
<1>1. CASE Find(c)
  <2>1. PICK a \in table : Equal(c, ContentOf(a)) /\ reply' = [asked |-> c, node |-> a]
    BY <1>1 DEF Find, Found
  <2>2. ContentOf(a) = c /\ a \in Addresses /\ UNCHANGED heap
    BY <1>1, <2>1, FoundIsAsked DEF Find, AInv, NInv, TInv, TypeOK
  <2>3. ContentOf(a)' = c /\ Addresses' = Addresses /\ \A x : ContentOf(x)' = ContentOf(x)
    BY <2>2 DEF ContentOf, Addresses
  <2>4. RepliesInv'
    <3>1. reply'.node = a /\ reply'.asked = c
      BY <2>1
    <3>2. heap'[a].content = c
      BY <2>3 DEF ContentOf
    <3>3. QED
      BY <2>2, <2>3, <3>1, <3>2 DEF RepliesInv, ContentOf
  <2>5. TopsInv'
    BY <2>3 DEF AInv, TopsInv
  <2>6. QED
    BY <2>4, <2>5
<1>2. CASE Insert(c)
  <2>1. PICK k, node : /\ k = Len(heap) + 1
                       /\ node = [content |-> c, node_index |-> node_index_]
                       /\ heap' = Append(heap, node)
                       /\ reply' = [asked |-> c, node |-> k]
    BY <1>2 DEF Insert, NewAddress
  <2>2. heap \in Seq(Node) /\ node_index_ \in Nat /\ node \in Node
    BY <2>1 DEF AInv, NInv, TInv, TypeOK, Node, Asked
  <2>3. /\ Addresses' = Addresses \cup {k} /\ heap'[k] = node
        /\ \A a \in Addresses : heap'[a] = heap[a]
    BY <2>1, <2>2 DEF Addresses
  <2>4. ContentOf(k)' = c /\ \A a \in Addresses : ContentOf(a)' = ContentOf(a)
    <3>1. node.content = c
      BY <2>1
    <3>2. QED
      BY <2>3, <3>1 DEF ContentOf
  <2>5. RepliesInv'
    <3>1. reply'.node = k /\ reply'.asked = c
      BY <2>1
    <3>2. heap'[k].content = c
      BY <2>4 DEF ContentOf
    <3>3. QED
      BY <2>3, <3>1, <3>2 DEF RepliesInv, ContentOf
  <2>6. TopsInv'
    BY <2>3, <2>4 DEF AInv, TopsInv, Asked
  <2>7. QED
    BY <2>5, <2>6
<1>3. QED
  BY <1>1, <1>2 DEF GetUniqueNode

\* Deletions give no answer.
LEMMA OldAnswersStay ==
  ASSUME AInv, UNCHANGED <<heap, reply>>
  PROVE  TopsInv' /\ RepliesInv'
<1>1. Addresses' = Addresses /\ \A a : ContentOf(a)' = ContentOf(a)
  BY DEF Addresses, ContentOf
<1>2. TopsInv'
  BY <1>1 DEF AInv, TopsInv
<1>3. RepliesInv'
  BY DEF AInv, RepliesInv, Addresses, ContentOf
<1>4. QED
  BY <1>2, <1>3

\* What GetPsddDecisionNode asks for is sorted, and made of nodes of the table.
LEMMA DecisionIsAsked ==
  ASSUME NInv, GetPsddDecisionNode
  PROVE  \E c : Asked(c) /\ GetUniqueNode(c)
BY DecisionsAreMade DEF Asked

(***************************************************************************)
(* What the tests of the manager expect (psdd_manager_test.cpp:141-146):   *)
(* every request is answered with a node that has the content asked for.   *)
(***************************************************************************)
THEOREM RequestsAreAnswered ==
  ASSUME TopsAgree
  PROVE  Spec => []AnswersRequest
<1>1. Init => AInv
  <2>1. ASSUME Init PROVE TopsInv /\ RepliesInv
    <3>1. heap = <<>> /\ reply = [asked |-> {}, node |-> 0]
      BY <2>1 DEF Init
    <3>2. Addresses = {} /\ reply.node = 0
      BY <3>1 DEF Addresses
    <3>3. QED
      BY <3>2 DEF TopsInv, RepliesInv
  <2>2. QED
    BY <2>1, InitInterns DEF AInv
<1>2. AInv /\ [Next]_vars => AInv'
  <2> SUFFICES ASSUME AInv, [Next]_vars PROVE AInv'
    OBVIOUS
  <2>1. NInv'
    BY StepInterns DEF AInv
  <2>2. ASSUME NEW c, Asked(c), GetUniqueNode(c) PROVE TopsInv' /\ RepliesInv'
    BY <2>2, RequestIsAnswered
  <2>3. CASE GetPsddLiteralNode
    <3>1. PICK c \in Literals : GetUniqueNode(c)
      BY <2>3 DEF GetPsddLiteralNode
    <3>2. Asked(c)
      BY UniqueTableAssumption DEF Asked, Content, Literal, Parts, Sorted
    <3>3. QED
      BY <2>1, <2>2, <3>1, <3>2 DEF AInv
  <2>4. CASE GetPsddTopNode
    <3>1. PICK c \in TopNodes : GetUniqueNode(c)
      BY <2>4 DEF GetPsddTopNode
    <3>2. Asked(c)
      BY UniqueTableAssumption DEF Asked, Content, Top, Parts, Sorted
    <3>3. QED
      BY <2>1, <2>2, <3>1, <3>2 DEF AInv
  <2>5. CASE GetPsddDecisionNode
    BY <2>1, <2>2, <2>5, DecisionIsAsked DEF AInv
  <2>6. CASE DeleteUnusedPsddNodes \/ DeletePsddNodesWithoutFlagIndexes \/ UNCHANGED vars
    <3>1. UNCHANGED <<heap, reply>>
      BY <2>6 DEF DeleteUnusedPsddNodes, DeletePsddNodesWithoutFlagIndexes, vars
    <3>2. QED
      BY <2>1, <3>1, OldAnswersStay DEF AInv
  <2>7. QED
    BY <2>3, <2>4, <2>5, <2>6 DEF Next
<1>3. AInv => AnswersRequest
  BY DEF AInv, RepliesInv, AnswersRequest
<1>4. QED
  BY <1>1, <1>2, <1>3, PTL DEF Spec

=============================================================================
