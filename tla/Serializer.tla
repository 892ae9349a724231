------------------------------ MODULE Serializer ------------------------------
(***************************************************************************)
(* SerializePsddNodes: the list of the nodes under some roots on which all *)
(* passes over a PSDD run, forwards from parents to children or backwards  *)
(* from children to parents.  result is at once the list and the queue of  *)
(* a search in breadth; explore_index is the node whose children are       *)
(* looked at, edge the next of them.                                       *)
(***************************************************************************)
EXTENDS PsddGraph

VARIABLES structure,      \* the nodes of the manager
          roots,          \* the parameter root_nodes
          next_root,      \* the root looked at next
          result, node_explored, explore_index, edge

serializerVars == <<structure, roots, next_root, result, node_explored, explore_index, edge>>

Start ==
  /\ next_root = 1
  /\ result = <<>>
  /\ node_explored = {}
  /\ explore_index = 1
  /\ edge = 1

Init ==
  /\ structure \in Structures
  /\ roots \in {r \in RootLists : AreRoots(structure, r)}
  /\ Start

RootsTaken == next_root > Len(roots)
Serialized == RootsTaken /\ explore_index > Len(result)

EnqueueNext(list, n) ==
  IF explore_index > Len(list) THEN Append(list, n)
  ELSE SubSeq(list, 1, explore_index) \o <<n>> \o SubSeq(list, explore_index + 1, Len(list))
Enqueue(list, n) == Append(list, n)

PushAlways(n) == /\ result' = Enqueue(result, n)
                 /\ node_explored' = node_explored \cup {n}
Push(n) ==
  \/ /\ n \in node_explored
     /\ UNCHANGED <<result, node_explored>>
  \/ /\ n \notin node_explored
     /\ result' = Enqueue(result, n)
     /\ node_explored' = node_explored \cup {n}

PushRoot ==
  /\ ~RootsTaken
  /\ Push(roots[next_root])
  /\ next_root' = next_root + 1
  /\ UNCHANGED <<structure, roots, explore_index, edge>>

Visited == ChildList(structure, result[explore_index])

EdgeAfterNew(n) == IF n \in node_explored THEN edge ELSE edge + 1
EdgeAfter(n) == edge + 1

PushChild ==
  /\ RootsTaken /\ ~Serialized
  /\ edge <= Len(Visited)
  /\ Push(Visited[edge])
  /\ edge' = EdgeAfter(Visited[edge])
  /\ UNCHANGED <<structure, roots, next_root, explore_index>>

NextNode ==
  /\ RootsTaken /\ ~Serialized
  /\ edge > Len(Visited)
  /\ explore_index' = explore_index + 1
  /\ edge' = 1
  /\ UNCHANGED <<structure, roots, next_root, result, node_explored>>

SerializerNext == PushRoot \/ PushChild \/ NextNode

SerializerSpec == Init /\ [][SerializerNext]_serializerVars

-----------------------------------------------------------------------------
\* The nodes of the list from a place on: those a pass backwards has done.
FromOn(i) == {result[k] : k \in {j \in DOMAIN result : j >= i}}

(***************************************************************************)
(* Every node under the roots is in the list once, and no other node is: a *)
(* pass that counts or adds up meets each node once.                       *)
(***************************************************************************)
EachNodeOnce ==
  /\ IsInjective(result)
  /\ Serialized => Range(result) = Below(structure, roots)

(***************************************************************************)
(* "parents appear before children" (psdd_node.cpp:255), of all the        *)
(* parents of a node that is shared, as long as the roots are of one level. *)
(***************************************************************************)
ParentsFirst ==
  \A i, j \in DOMAIN result : result[j] \in ChildrenIn(structure, result[i]) => i < j

=============================================================================
