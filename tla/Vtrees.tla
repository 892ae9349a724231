------------------------------- MODULE Vtrees -------------------------------
(***************************************************************************)
(* Vtrees and the functions of vtree_util on them.  A vtree is a function  *)
(* from its nodes, which are known by their position, to the variable of a *)
(* leaf (0 if the node is none) and the two children.                      *)
(***************************************************************************)
EXTENDS Integers, Sequences, FiniteSets, SequencesExt

IsLeaf(t, v) == t[v].variable # 0

ChildrenOf(t, v) == IF IsLeaf(t, v) THEN {} ELSE {t[v].left, t[v].right}

\* The nodes are numbered from 0 on.
IsFilled(t) == DOMAIN t = 0..Cardinality(DOMAIN t) - 1

\* What the SDD package makes: nodes have at most one parent, and are not below themselves.
IsAcyclic(t) ==
  \A some \in (SUBSET DOMAIN t) \ {{}} :
    /\ \E v \in some : ChildrenOf(t, v) \cap some = {}
    /\ \E v \in some : \A w \in some : v \notin ChildrenOf(t, w)
IsForest(t) ==
  /\ IsFiniteSet(DOMAIN t)
  /\ \A v \in DOMAIN t : t[v] \in [variable : Nat, left : Int, right : Int]
  /\ \A v \in DOMAIN t : ChildrenOf(t, v) \subseteq DOMAIN t
  /\ \A v \in DOMAIN t : ~IsLeaf(t, v) => t[v].left # t[v].right
  /\ \A v, w \in DOMAIN t : v # w => ChildrenOf(t, v) \cap ChildrenOf(t, w) = {}
  /\ IsAcyclic(t)

\* The queue of the search is the list it makes.
SerializeVtree(t, root) ==
  LET Visit(list, i) == IF i > Len(list) \/ IsLeaf(t, list[i]) THEN list
                        ELSE list \o <<t[list[i]].left, t[list[i]].right>>
      visited[i \in 0..Cardinality(DOMAIN t)] == IF i = 0 THEN <<root>> ELSE Visit(visited[i - 1], i)
  IN  visited[Cardinality(DOMAIN t)]

Under(t, v) == Range(SerializeVtree(t, v))
RootOf(t) == CHOOSE v \in DOMAIN t : Under(t, v) = DOMAIN t

VariablesUnderVtree(t, root) ==
  LET list == SerializeVtree(t, root)
      Push(variables, v) == IF IsLeaf(t, v) THEN Append(variables, t[v].variable) ELSE variables
      variables_to[i \in 0..Len(list)] == IF i = 0 THEN <<>> ELSE Push(variables_to[i - 1], list[i])
  IN  variables_to[Len(list)]
Variables(t, v) == Range(VariablesUnderVtree(t, v))

LeafOf(t, variable) == CHOOSE v \in DOMAIN t : t[v].variable = variable

\* The copy of the vtree under a node, with other variables.
CopyVtree(t, root, variable_map) ==
  [v \in Under(t, root) |-> IF IsLeaf(t, v) THEN [t[v] EXCEPT !.variable = variable_map[@]] ELSE t[v]]

\* The node that has the variables, and no others, under it, or NoVtree.
NoVtree == -1
SubVtreeByVariables(t, root, variables) ==
  LET helper[v \in DOMAIN t] ==
        LET left_result == helper[t[v].left]
            right_result == helper[t[v].right]
        IN  CASE IsLeaf(t, v) -> IF t[v].variable \in variables THEN v ELSE NoVtree
              [] ~IsLeaf(t, v) /\ left_result = NoVtree -> right_result
              [] ~IsLeaf(t, v) /\ left_result # NoVtree /\ right_result = NoVtree -> left_result
              [] OTHER -> IF left_result = t[v].left /\ right_result = t[v].right
                            THEN v ELSE NoVtree
      candidate == helper[root]
  IN  IF candidate # NoVtree /\ Len(VariablesUnderVtree(t, candidate)) = Cardinality(variables)
        THEN candidate ELSE NoVtree

\* Of the SDD package: the lowest node with both nodes under it, and the node above a node.
Lca(t, u, v) ==
  LET HasBoth(w) == {u, v} \subseteq Under(t, w)
  IN  CHOOSE w \in DOMAIN t : HasBoth(w) /\ \A c \in ChildrenOf(t, w) : ~HasBoth(c)
ParentOf(t, v) == CHOOSE w \in DOMAIN t : v \in ChildrenOf(t, w)

=============================================================================
