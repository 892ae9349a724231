------------------------------ MODULE PsddGraph ------------------------------
(***************************************************************************)
(* The nodes under the roots that clients hand to the traversals of        *)
(* psdd_node_util and PsddManager.  A node's name is its node_index: a     *)
(* node is made after its children, so that theirs are smaller.            *)
(*                                                                         *)
(* Nodes are made by GetConformedPsddDecisionNode, which has the primes    *)
(* and the subs of a node normalised for the two children of its vtree     *)
(* node.  So the vtree node of a child is one level below its parent's;    *)
(* of the vtree only that depth is kept.                                   *)
(*                                                                         *)
(* A true node has two parameters, the one for true first, a decision node *)
(* one for each element.                                                   *)
(***************************************************************************)
EXTENDS Integers, Sequences, FiniteSets, Functions

CONSTANTS Structures,   \* the sets of nodes, as functions from node_index
          RootLists     \* the lists of roots clients may give

PsddNode == [type : {"literal", "top", "decision"},
             variable : Nat, sign : BOOLEAN,
             primes : Seq(Nat), subs : Seq(Nat), parameters : Seq(Nat),
             depth : Nat]

ChildList(g, n) == g[n].primes \o g[n].subs
ChildrenIn(g, n) == Range(ChildList(g, n))

IsConformed(g) ==
  /\ DOMAIN g \subseteq Nat
  /\ \A n \in DOMAIN g :
       /\ g[n] \in PsddNode
       /\ Len(g[n].primes) = Len(g[n].subs)
       /\ g[n].type # "decision" => g[n].primes = <<>>
       /\ \A c \in ChildrenIn(g, n) :
            c \in DOMAIN g /\ c < n /\ g[c].depth = g[n].depth + 1

\* The roots of one call are of one level.
AreRoots(g, roots) ==
  /\ roots # <<>>
  /\ Range(roots) \subseteq DOMAIN g
  /\ \A r, q \in Range(roots) : g[r].depth = g[q].depth

ASSUME PsddGraphAssumption ==
         /\ \A g \in Structures : IsConformed(g)
         /\ RootLists \subseteq Seq(Nat)

\* What the traversals are about: the nodes under the roots.
IsClosedIn(g, S) == \A n \in S : ChildrenIn(g, n) \subseteq S
Below(g, roots) ==
  {n \in DOMAIN g : \A S \in SUBSET DOMAIN g :
                      Range(roots) \subseteq S /\ IsClosedIn(g, S) => n \in S}

\* All primes of a node are about the variables under one child of its vtree node, and all subs
\* about those under the other.
VariablesUnder(g, n) == {g[m].variable : m \in {k \in Below(g, <<n>>) : g[k].type # "decision"}}
IsDecomposable(g) ==
  LET under == [n \in DOMAIN g |-> VariablesUnder(g, n)] IN
  \A n \in DOMAIN g : \A i, j \in DOMAIN g[n].primes :
    /\ under[g[n].primes[i]] = under[g[n].primes[j]]
    /\ under[g[n].subs[i]] = under[g[n].subs[j]]
    /\ under[g[n].primes[i]] \cap under[g[n].subs[j]] = {}

ASSUME DecomposabilityAssumption == \A g \in Structures : IsDecomposable(g)

\* Literals and true nodes are made at the leaf that leaf_vtree_map_ has for their variable.
VariablesHaveLevels(g) ==
  \A m, n \in {k \in DOMAIN g : g[k].type # "decision"} :
    g[m].variable = g[n].variable => g[m].depth = g[n].depth

ASSUME LevelAssumption == \A g \in Structures : VariablesHaveLevels(g)

=============================================================================
