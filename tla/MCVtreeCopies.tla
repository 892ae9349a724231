---------------------------- MODULE MCVtreeCopies ----------------------------
\* A vtree over 2, 4, 3, 1 that is neither right- nor left-linear, and one over 1, 2, 3.
EXTENDS VtreeCopies, TLC

Leaf(x) == [variable |-> x, left |-> NoVtree, right |-> NoVtree]
Inner(l, r) == [variable |-> 0, left |-> l, right |-> r]

Four == (0 :> Leaf(2)) @@ (1 :> Leaf(4)) @@ (2 :> Inner(0, 1)) @@ (3 :> Leaf(3)) @@ (4 :> Leaf(1))
          @@ (5 :> Inner(3, 4)) @@ (6 :> Inner(2, 5))
Right == (0 :> Inner(1, 2)) @@ (1 :> Leaf(1)) @@ (2 :> Inner(3, 4)) @@ (3 :> Leaf(2)) @@ (4 :> Leaf(3))
MCOriginals == {Four, Right}
MCMaps == {[x \in 1..4 |-> 5 - x], [x \in {1, 3} |-> x + 4]}

=============================================================================
