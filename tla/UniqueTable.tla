----------------------------- MODULE UniqueTable -----------------------------
(***************************************************************************)
(* The unique table of a PsddManager: the nodes of the manager, of which   *)
(* there are never two equal ones.  A client asks the manager for a node   *)
(* by its content (GetPsddLiteralNode, GetPsddTopNode, decision nodes) and *)
(* gets the one the table has or a new one; now and then it drops what it  *)
(* does not use any more.                                                  *)
(*                                                                         *)
(* A node is an address in heap.  The table of the code is split by the    *)
(* type of a node and by the position of its vtree node; both follow from  *)
(* the content, so that one set stands for it.  A node the table erases is *)
(* not freed.  Parameters are the values PsddParameter::operator== tells   *)
(* apart.                                                                  *)
(***************************************************************************)
EXTENDS Integers, Sequences, FiniteSets, Functions

CONSTANTS Literals,        \* the literal nodes a client may ask for,
          TopNodes,        \* the true nodes,
          Parameters,      \* the values of parameters, and of them
          DecisionParameters, DecisionFlags,   \* those of its decision nodes
          InnerVtrees,     \* the inner vtree nodes: the variables on either side
          MaxElements,     \* bound: the number of elements of a decision node
          MaxNodes         \* bound: the number of nodes ever created

Literal == [type : {"literal"}, literal : Int, flag_index : Nat]
Top == [type : {"top"}, variable : Nat, true_parameter : Parameters,
        false_parameter : Parameters, flag_index : Nat]

ASSUME UniqueTableAssumption ==
         /\ Literals \subseteq Literal
         /\ TopNodes \subseteq Top
         /\ DecisionParameters \subseteq Parameters /\ DecisionFlags \subseteq Nat
         /\ InnerVtrees \subseteq [left : SUBSET Nat, right : SUBSET Nat]
         /\ MaxElements \in Nat /\ MaxNodes \in Nat

VARIABLES heap,          \* the content of every node ever inserted
          node_index_,   \* the manager's counter
          table,         \* the addresses of the nodes in the table
          held,          \* those the client has pointers to
          reply          \* what was asked last, and the node returned

vars == <<heap, node_index_, table, held, reply>>

Abs(n) == IF n < 0 THEN -n ELSE n

Addresses == DOMAIN heap
Elements == [prime : Nat, sub : Nat, parameter : Parameters]
Decision == [type : {"decision"}, elements : Seq(Elements), flag_index : Nat]
Content == Literal \cup Top \cup Decision
Node == [content : Content, node_index : Nat]

ContentOf(a) == heap[a].content
IndexOf(a)   == heap[a].node_index

ElementsOf(a) == IF ContentOf(a).type = "decision" THEN Range(ContentOf(a).elements) ELSE {}
Children(a) == {e.prime : e \in ElementsOf(a)} \cup {e.sub : e \in ElementsOf(a)}

-----------------------------------------------------------------------------
(***************************************************************************)
(* operator== of the three classes.  Children are compared by their index. *)
(* Two true nodes with the same true parameter are equal: the false one is *)
(* not looked at (lines 1093-1097).                                        *)
(***************************************************************************)
SameElements(es, fs) ==
  /\ Len(es) = Len(fs)
  /\ \A i \in DOMAIN es : /\ IndexOf(es[i].prime) = IndexOf(fs[i].prime)
                          /\ IndexOf(es[i].sub) = IndexOf(fs[i].sub)
                          /\ es[i].parameter = fs[i].parameter

EqualAnyFlag(c, d) ==
  /\ c.type = d.type
  /\ c.type = "literal" => c.literal = d.literal
  /\ c.type = "top" => /\ c.variable = d.variable
                       /\ c.true_parameter = d.true_parameter
  /\ c.type = "decision" => SameElements(c.elements, d.elements)
Equal(c, d) ==
  /\ c.type = d.type
  /\ c.flag_index = d.flag_index
  /\ c.type = "literal" => c.literal = d.literal
  /\ c.type = "top" => /\ c.variable = d.variable
                       /\ c.true_parameter = d.true_parameter
  /\ c.type = "decision" => SameElements(c.elements, d.elements)

Init ==
  /\ heap = <<>>
  /\ node_index_ = 0
  /\ table = {}
  /\ held = {}
  /\ reply = [asked |-> {}, node |-> 0]

(***************************************************************************)
(* GetUniqueNode of a new object with content c: either the table has an   *)
(* equal node, which is returned and the object deleted, or the object is  *)
(* inserted and the counter goes on.                                       *)
(***************************************************************************)
NextIndexStuck(i) == i
NextIndex(i) == i + 1

NewAddressTooLow == Len(heap)
NewAddress == Len(heap) + 1

Found(c) == {a \in table : Equal(c, ContentOf(a))}

Insert(c) ==
  /\ Found(c) = {}
  /\ Len(heap) < MaxNodes
  /\ heap' = Append(heap, [content |-> c, node_index |-> node_index_])
  /\ node_index_' = NextIndex(node_index_)
  /\ table' = table \cup {NewAddress}
  /\ held' = held \cup {NewAddress}
  /\ reply' = [asked |-> c, node |-> NewAddress]

Find(c) ==
  /\ \E a \in Found(c) : /\ held' = held \cup {a}
                         /\ reply' = [asked |-> c, node |-> a]
  /\ UNCHANGED <<heap, node_index_, table>>

GetUniqueNode(c) == Insert(c) \/ Find(c)

GetPsddLiteralNode == \E c \in Literals : GetUniqueNode(c)

GetPsddTopNode == \E c \in TopNodes : GetUniqueNode(c)

(***************************************************************************)
(* A decision node of nodes the client has, decision nodes too: at an      *)
(* inner vtree node, primes are of the left child and subs of the right    *)
(* one (the nodes NormalizePsddNode puts between are decision nodes of one *)
(* element that the client asks for first).  The constructor sorts the     *)
(* elements by the index of their primes, which are distinct.              *)
(***************************************************************************)
SortedAsGiven(es) == TRUE
SortedByPrime(es) ==
  \A i, j \in DOMAIN es : i < j => IndexOf(es[i].prime) <= IndexOf(es[j].prime)

\* The vtree node of a node, by its variables.
VariablesOf ==
  LET variables[a \in Addresses] ==
        CASE ContentOf(a).type = "literal"  -> {Abs(ContentOf(a).literal)}
          [] ContentOf(a).type = "top"      -> {ContentOf(a).variable}
          [] ContentOf(a).type = "decision" -> UNION {variables[b] : b \in Children(a)}
  IN  variables

Held(variables) == {a \in held : VariablesOf[a] = variables}

\* The lists of elements the client may give.
ElementLists ==
  UNION {[1..n -> [prime : Held(v.left), sub : Held(v.right), parameter : DecisionParameters]] :
           n \in 1..MaxElements, v \in InnerVtrees}

GetPsddDecisionNode ==
  \E es \in ElementLists, f \in DecisionFlags :
    /\ IsInjective([i \in DOMAIN es |-> es[i].prime])
    /\ \E p \in Bijection(DOMAIN es, DOMAIN es) :
         LET sorted == [i \in DOMAIN es |-> es[p[i]]] IN
         /\ SortedByPrime(sorted)
         /\ GetUniqueNode([type |-> "decision", elements |-> sorted, flag_index |-> f])

-----------------------------------------------------------------------------
(***************************************************************************)
(* DeleteUnusedPsddNodes: what is not reachable from a used node leaves    *)
(* the table.  The client uses nodes it has, and lets the others go.       *)
(***************************************************************************)
IsClosedUnderPrimes(S) == \A a \in S : {e.prime : e \in ElementsOf(a)} \subseteq S
IsClosed(S) == \A a \in S : Children(a) \subseteq S

GetCoveredPsddNodes(roots) ==
  {a \in Addresses : \A S \in SUBSET Addresses :
                       roots \subseteq S /\ IsClosed(S) => a \in S}

UnusedSwapped(a, covered) == IndexOf(a) \in {IndexOf(b) : b \in covered}
Unused(a, covered) == IndexOf(a) \notin {IndexOf(b) : b \in covered}

DeleteUnusedPsddNodes ==
  \E used \in SUBSET held :
    LET covered == GetCoveredPsddNodes(used) IN
    /\ table' = {a \in table : ~Unused(a, covered)}
    /\ held' = held \cap covered
    /\ UNCHANGED <<heap, node_index_, reply>>

(***************************************************************************)
(* DeletePsddNodesWithoutFlagIndexes looks at the flags of nodes and not   *)
(* at their parents, so that it is for a client that keeps the flags of    *)
(* all descendants of the nodes it keeps.                                  *)
(***************************************************************************)
FlagsCoverChildren(flags) ==
  \A a \in table, b \in Addresses :
    ContentOf(a).flag_index \in flags /\ b \in Children(a) => ContentOf(b).flag_index \in flags

DeletePsddNodesWithoutFlagIndexes ==
  \E flags \in SUBSET {ContentOf(a).flag_index : a \in table} :
    /\ FlagsCoverChildren(flags)
    /\ table' = {a \in table : ContentOf(a).flag_index \in flags}
    /\ held' = {a \in held : ContentOf(a).flag_index \in flags}
    /\ UNCHANGED <<heap, node_index_, reply>>

Next == \/ GetPsddLiteralNode \/ GetPsddTopNode \/ GetPsddDecisionNode
        \/ DeleteUnusedPsddNodes \/ DeletePsddNodesWithoutFlagIndexes

Spec == Init /\ [][Next]_vars

-----------------------------------------------------------------------------
\* The table and the client point to nodes the manager made.
TypeOK ==
  /\ heap \in Seq(Node)
  /\ node_index_ \in Nat
  /\ table \subseteq Addresses
  /\ held \subseteq Addresses

(***************************************************************************)
(* No two nodes a manager ever made have the same index, those that left   *)
(* the table included: traversals and operator== know nodes by it.         *)
(***************************************************************************)
IndexesAreUnique ==
  \A a, b \in Addresses : IndexOf(a) = IndexOf(b) => a = b

(***************************************************************************)
(* The table is closed under children, so that a node of it never compares *)
(* its children to nodes the table has forgotten.                          *)
(***************************************************************************)
ChildrenAreInTable == \A a \in table : Children(a) \subseteq table

\* No deletion takes a node the client still uses, or a part of one.
HeldIsInTable == held \subseteq table

\* The true parameter of a true node decides the false one, as when they add up to 1.
TopsAgree ==
  \A c, d \in TopNodes : c.variable = d.variable /\ c.true_parameter = d.true_parameter
                         => c.false_parameter = d.false_parameter

(***************************************************************************)
(* What the tests of the manager expect of every request: the node         *)
(* returned has the content asked for (psdd_manager_test.cpp:141-146).     *)
(***************************************************************************)
AnswersRequest == reply.node # 0 => ContentOf(reply.node) = reply.asked

\* What a node stands for, given what its children do: a decision node has its elements in any order.
TreeOf(c, tree) ==
  IF c.type # "decision" THEN c
  ELSE [flag_index |-> c.flag_index,
        elements |-> {<<tree[e.prime], tree[e.sub], e.parameter>> : e \in Range(c.elements)}]

Unfold == LET tree[a \in Addresses] == TreeOf(ContentOf(a), tree) IN tree

\* What the table stands for: a name for each structure it has.
Names == LET tree == [a \in table |-> Unfold[a]]
         IN  [s \in Range(tree) |-> CHOOSE a \in table : tree[a] = s]

(***************************************************************************)
(* The point of the table: equal distributions have equal addresses.  The  *)
(* table implements Interning: a structure in it has one address, which it *)
(* keeps, and no request makes a second node of a structure.               *)
(***************************************************************************)
Store == INSTANCE Interning WITH name <- Names, issued <- Addresses
StoreSpec == Store!Spec

=============================================================================
