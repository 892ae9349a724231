----------------------------- MODULE VtreeCopies -----------------------------
(***************************************************************************)
(* CopyVtree, with the variables of the vtree or with others,              *)
(* ProjectVtree, and GetPsddManagerFromSddVtree, which copies the vtree    *)
(* for a new manager.  They go backwards over the serialization of a vtree *)
(* and keep what they make of a node in its data pointer, where the vtree  *)
(* is shared with whoever holds it: clients call them again, for any part  *)
(* of a vtree and for vtrees they made.                                    *)
(*                                                                         *)
(* A vtree node is its address; heap has all of them.                      *)
(***************************************************************************)
EXTENDS Vtrees

CONSTANTS Originals,    \* the vtrees there are at first, with addresses from 0 on
          Maps,         \* the maps clients give to CopyVtree
          MaxCalls      \* how many calls they make

ASSUME VtreeCopiesAssumption ==
         /\ MaxCalls \in Nat
         /\ \A t \in Originals : IsFilled(t) /\ IsForest(t)
         /\ \A m \in Maps : IsInjective(m) /\ Range(m) \subseteq Nat \ {0}

VARIABLES heap, data,   \* the nodes, and the data pointers of those where it is not nullptr
          call,         \* the call that runs: its vtree, and the variables it keeps, as a map to the new ones
          serialized_vtrees, position,   \* locals; the loop is at a position, or at 0 when it is over
          running,
          results       \* history: the calls, and what they returned

vars == <<heap, data, call, serialized_vtrees, position, running, results>>

NoCall == [op |-> "none"]

Init ==
  /\ heap \in Originals
  /\ data = <<>>
  /\ call = NoCall /\ serialized_vtrees = <<>> /\ position = 0 /\ running = FALSE
  /\ results = <<>>

\* size is history: the addresses in use when the call began.
Begin(op, root, map) ==
  /\ ~running /\ Len(results) < MaxCalls
  /\ call' = [op |-> op, root |-> root, map |-> map, size |-> Cardinality(DOMAIN heap)]
  /\ serialized_vtrees' = SerializeVtree(heap, root)
  /\ position' = Len(serialized_vtrees')
  /\ running' = TRUE
  /\ UNCHANGED <<heap, data, results>>

Same(xs) == [x \in xs |-> x]

CopyVtreeAsIs == \E root \in DOMAIN heap : Begin("CopyVtree", root, Same(Variables(heap, root)))

\* The assertion: each variable is in the map.
BeginWithMap(op) ==
  \E root \in DOMAIN heap, map \in Maps :
    Variables(heap, root) \subseteq DOMAIN map /\ Begin(op, root, map)
CopyVtreeWithMap == BeginWithMap("CopyVtree")
GetPsddManagerFromSddVtree == BeginWithMap("GetPsddManagerFromSddVtree")

\* Without a variable there is no vtree, and set_vtree_properties would be given nullptr.
ProjectVtree ==
  \E root \in DOMAIN heap : \E variables \in (SUBSET Variables(heap, root)) \ {{}} :
    Begin("ProjectVtree", root, Same(variables))

Node == serialized_vtrees[position]
InLoop == running /\ position > 0
NewAddress == Cardinality(DOMAIN heap)

\* new_leaf_vtree, new_internal_vtree: the new node has no data.
Allocate(node) == [v \in DOMAIN heap \cup {NewAddress} |-> IF v = NewAddress THEN node ELSE heap[v]]
Data(v) == IF v \in DOMAIN data THEN data[v] ELSE NoVtree
SetData(pointers) ==
  LET New(v) == IF v \in DOMAIN pointers THEN pointers[v] ELSE Data(v)
  IN  data' = [v \in {w \in DOMAIN pointers \cup DOMAIN data : New(w) # NoVtree} |-> New(v)]

NextNode ==
  /\ position' = position - 1
  /\ UNCHANGED <<call, serialized_vtrees, running, results>>

VisitLeaf ==
  /\ InLoop /\ IsLeaf(heap, Node)
  /\ LET x == heap[Node].variable IN
       \/ /\ x \in DOMAIN call.map
          /\ heap' = Allocate([heap[Node] EXCEPT !.variable = call.map[x]])
          /\ SetData([v \in {Node} |-> NewAddress])
       \/ /\ x \notin DOMAIN call.map
          /\ SetData([v \in {Node} |-> NoVtree])
          /\ UNCHANGED heap
  /\ NextNode

LeftOnly(new_left_child, new_right_child) == new_left_child
EitherOne(new_left_child, new_right_child) ==
  IF new_left_child # NoVtree THEN new_left_child ELSE new_right_child

KeepsPointers == call.op = "GetPsddManagerFromSddVtree"

\* The pointers of the children are taken and put back to nullptr, or kept to the end.
VisitInner ==
  /\ InLoop /\ ~IsLeaf(heap, Node)
  /\ LET left == heap[Node].left
         right == heap[Node].right
         new_left_child == Data(left)
         new_right_child == Data(right)
         isSplit == new_left_child # NoVtree /\ new_right_child # NoVtree
         Moved(new) == [v \in {Node} \cup IF KeepsPointers THEN {} ELSE {left, right} |->
                          IF v = Node THEN new ELSE NoVtree] IN
       \/ /\ call.op # "ProjectVtree" \/ isSplit
          /\ heap' = Allocate([heap[Node] EXCEPT !.left = new_left_child, !.right = new_right_child])
          /\ SetData(Moved(NewAddress))
       \/ /\ call.op = "ProjectVtree" /\ ~isSplit
          /\ SetData(Moved(EitherOne(new_left_child, new_right_child)))
          /\ UNCHANGED heap
  /\ NextNode

Return ==
  /\ running /\ position = 0
  /\ results' = Append(results, [call |-> call, new_vtree |-> Data(call.root)])
  /\ SetData([v \in IF KeepsPointers THEN Range(serialized_vtrees) ELSE {call.root} |-> NoVtree])
  /\ call' = NoCall /\ serialized_vtrees' = <<>> /\ running' = FALSE
  /\ UNCHANGED <<heap, position>>

\* Clients are done.
Ended == ~running /\ Len(results) = MaxCalls /\ UNCHANGED vars

Next == \/ CopyVtreeAsIs \/ CopyVtreeWithMap \/ ProjectVtree \/ GetPsddManagerFromSddVtree
        \/ VisitLeaf \/ VisitInner \/ Return \/ Ended

Spec == Init /\ [][Next]_vars

-----------------------------------------------------------------------------
LeftToRightLeafTraverse(t, root) ==
  LET leaves[v \in DOMAIN t] == IF IsLeaf(t, v) THEN <<t[v].variable>>
                                ELSE leaves[t[v].left] \o leaves[t[v].right]
  IN  leaves[root]

\* Of some variables, in their order, those that are kept, with their new names.
KeptOf(variables, map) ==
  LET kept[i \in 0..Len(variables)] ==
        IF i = 0 THEN <<>>
        ELSE IF variables[i] \in DOMAIN map THEN Append(kept[i - 1], map[variables[i]])
        ELSE kept[i - 1]
  IN  kept[Len(variables)]

New(map, xs) == {map[x] : x \in xs \cap DOMAIN map}

(***************************************************************************)
(* A vtree that was returned is the restriction of the given one to the    *)
(* variables kept, with their new names: they have their order, some node  *)
(* has those that were under each node, every node has two children with   *)
(* variables, and no node is one there was before.  This is so for each    *)
(* result at the end of all calls, and no node is left with data.          *)
(***************************************************************************)
IsRestrictedTo(t, c, v, new_vtree) ==
  LET order == KeptOf(LeftToRightLeafTraverse(t, v), c.map)
      new_nodes == Under(t, new_vtree)
  IN  /\ new_vtree \in DOMAIN t
      /\ LeftToRightLeafTraverse(t, new_vtree) = order
      /\ {Variables(t, w) : w \in new_nodes} = {New(c.map, Variables(t, w)) : w \in Under(t, v)} \ {{}}
      /\ Cardinality(new_nodes) = 2 * Len(order) - 1
      /\ \A w \in new_nodes : w >= c.size

CopiesAreRestrictions ==
  ~running => /\ \A i \in DOMAIN results :
                   LET r == results[i] IN IsRestrictedTo(heap, r.call, r.call.root, r.new_vtree)
              /\ data = <<>>

=============================================================================
