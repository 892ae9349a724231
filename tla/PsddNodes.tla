------------------------------ MODULE PsddNodes ------------------------------
(***************************************************************************)
(* How a PsddManager makes nodes: through its unique table, and normalised *)
(* for the vtree nodes that their parents need.  nodes is the list of what *)
(* the manager has made; a node is its place in the list, which is the     *)
(* order of node_index.  Here nothing is deleted (UniqueTable has that),   *)
(* so that the list is also the table.                                     *)
(*                                                                         *)
(* The functions that make nodes go from a state of the manager to the     *)
(* next: the nodes, the node returned, the true_node_map of the call, and  *)
(* the elements it has collected for a new node.                           *)
(***************************************************************************)
EXTENDS Vtrees, Fractions

\* map[key] = value, and insert, which leaves what is there.
Assigned(map, key, value) == [k \in DOMAIN map \cup {key} |-> IF k = key THEN value ELSE map[k]]
Inserted(map, key, value) == IF key \in DOMAIN map THEN map ELSE Assigned(map, key, value)

LiteralNode(v, sign, flag) ==
  [type |-> "literal", vtree |-> v, sign |-> sign, flag_index |-> flag]
TopNode(v, true_parameter, false_parameter, flag) ==
  [type |-> "top", vtree |-> v, true_parameter |-> true_parameter,
   false_parameter |-> false_parameter, flag_index |-> flag]

Element(prime, sub, parameter) == [prime |-> prime, sub |-> sub, parameter |-> parameter]

\* The constructor sorts the elements by the index of their primes.
SortedByPrime(es) ==
  LET IsBefore(j, i) == es[j].prime < es[i].prime \/ (es[j].prime = es[i].prime /\ j < i)
      place == [i \in DOMAIN es |-> 1 + Cardinality({j \in DOMAIN es : IsBefore(j, i)})]
  IN  [k \in DOMAIN es |-> es[CHOOSE i \in DOMAIN es : place[i] = k]]
DecisionNode(v, es, flag) ==
  [type |-> "decision", vtree |-> v, elements |-> SortedByPrime(es), flag_index |-> flag]

\* Two true nodes with the same true parameter are equal.
EqualAnyFlag(c, d) == [c EXCEPT !.flag_index = 0] = [d EXCEPT !.flag_index = 0]
Equal(c, d) ==
  IF c.type = "top" /\ d.type = "top"
    THEN /\ c.vtree = d.vtree /\ c.flag_index = d.flag_index
         /\ c.true_parameter = d.true_parameter
    ELSE c = d

GetUniqueNode(st, c) ==
  LET found == {a \in DOMAIN st.nodes : Equal(st.nodes[a], c)} IN
  IF found = {} THEN [st EXCEPT !.nodes = Append(@, c), !.node = Len(st.nodes) + 1]
                ELSE [st EXCEPT !.node = CHOOSE a \in found : TRUE]

\* A call begins with an empty true_node_map.
Begun(nodes) == [nodes |-> nodes, node |-> 0, true_node_map |-> <<>>, elements |-> <<>>]

(***************************************************************************)
(* GetTrueNode makes the true nodes of all vtree nodes under the target,   *)
(* children first, unless that of the target is known.  The children of    *)
(* the decision nodes are already what GetConformedPsddDecisionNode, which *)
(* makes them, would make of them.                                         *)
(***************************************************************************)
MakeTrueNode(t, st, v, flag) ==
  LET made == GetUniqueNode(st,
        IF IsLeaf(t, v) THEN TopNode(v, One, One, flag)
        ELSE DecisionNode(v, <<Element(st.true_node_map[t[v].left],
                                       st.true_node_map[t[v].right], One)>>, flag))
  IN  [made EXCEPT !.true_node_map = Inserted(@, v, made.node)]

MakeTrueNodes(t, st, list, flag) ==
  LET after[i \in 0..Len(list)] ==
        IF i = 0 THEN st ELSE MakeTrueNode(t, after[i - 1], list[Len(list) + 1 - i], flag)
  IN  after[Len(list)]

TrueNodeOf(made, target) == [made EXCEPT !.node = made.true_node_map[target]]
GetTrueNode(t, st, target, flag) ==
  TrueNodeOf(IF target \in DOMAIN st.true_node_map THEN st
             ELSE MakeTrueNodes(t, st, SerializeVtree(t, target), flag), target)

(***************************************************************************)
(* NormalizePsddNode goes up in the vtree: the node is the prime or the    *)
(* sub of a new node whose other side is true.                             *)
(***************************************************************************)
Sibling(t, v) ==
  LET parent == ParentOf(t, v) IN IF t[parent].left = v THEN t[parent].right ELSE t[parent].left
WithSibling(t, st, other, flag) ==
  LET v == st.nodes[st.node].vtree
      parent == ParentOf(t, v)
  IN  GetUniqueNode(other, DecisionNode(parent,
        <<IF t[parent].left = v THEN Element(st.node, other.node, One)
                                ELSE Element(other.node, st.node, One)>>, flag))
Lift(t, st, flag) ==
  WithSibling(t, st, GetTrueNode(t, st, Sibling(t, st.nodes[st.node].vtree), flag), flag)

LiftTo(t, st, target, flag) ==
  IF st.nodes[st.node].vtree = target THEN st ELSE Lift(t, st, flag)
NormalizePsddNode(t, st, target, node, flag) ==
  LET n == Cardinality(DOMAIN t)
      cur[i \in 0..n] == IF i = 0 THEN [st EXCEPT !.node = node] ELSE LiftTo(t, cur[i - 1], target, flag)
  IN  cur[n]

(***************************************************************************)
(* GetConformedPsddDecisionNode looks at the first element only to find    *)
(* the vtree node.                                                         *)
(***************************************************************************)
VtreeOf(t, nodes, es) == Lca(t, nodes[es[1].prime].vtree, nodes[es[1].sub].vtree)

ConformPrime(t, st, v, e, flag) ==
  LET prime == NormalizePsddNode(t, st, t[v].left, e.prime, flag)
  IN  [prime EXCEPT !.elements = Append(@, Element(prime.node, e.sub, e.parameter))]
Conform(t, st, v, e, flag) ==
  LET prime == NormalizePsddNode(t, st, t[v].left, e.prime, flag)
      sub == NormalizePsddNode(t, prime, t[v].right, e.sub, flag)
  IN  [sub EXCEPT !.elements = Append(@, Element(prime.node, sub.node, e.parameter))]

ConformAll(t, nodes, v, es, flag) ==
  LET st[i \in 0..Len(es)] == IF i = 0 THEN Begun(nodes) ELSE Conform(t, st[i - 1], v, es[i], flag)
  IN  st[Len(es)]

WithElements(st, v, flag) == GetUniqueNode(st, DecisionNode(v, st.elements, flag))
GetConformedPsddDecisionNode(t, nodes, es, flag) ==
  LET v == VtreeOf(t, nodes, es)
  IN  WithElements(ConformAll(t, nodes, v, es, flag), v, flag)

\* Its elements can be normalised: no vtree node is asked for a parent it does not have.
CanConform(t, nodes, es) ==
  /\ es # <<>>
  /\ LET v == VtreeOf(t, nodes, es) IN
       /\ v \in DOMAIN t /\ ~IsLeaf(t, v)
       /\ \A i \in DOMAIN es : /\ nodes[es[i].prime].vtree \in Under(t, t[v].left)
                               /\ nodes[es[i].sub].vtree \in Under(t, t[v].right)

=============================================================================
