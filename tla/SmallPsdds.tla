----------------------------- MODULE SmallPsdds -----------------------------
(***************************************************************************)
(* PSDDs over three variables, for the vtree whose root has the leaf of    *)
(* variable 1 on the left and on the right a node with the leaves of 2     *)
(* and 3.  In both structures decision nodes of the second level share     *)
(* all their children, and the two roots share the second level.           *)
(* Parameters are in quarters.                                             *)
(***************************************************************************)
EXTENDS Integers, Sequences

Lit(v, s, d) == [type |-> "literal", variable |-> v, sign |-> s,
                 primes |-> <<>>, subs |-> <<>>, parameters |-> <<>>, depth |-> d]
True(v, d, ws) == [type |-> "top", variable |-> v, sign |-> TRUE,
                   primes |-> <<>>, subs |-> <<>>, parameters |-> ws, depth |-> d]
Decn(ps, ss, d, ws) == [type |-> "decision", variable |-> 0, sign |-> TRUE,
                        primes |-> ps, subs |-> ss, parameters |-> ws, depth |-> d]

Leaves == <<Lit(1, TRUE, 1), Lit(1, FALSE, 1), Lit(2, TRUE, 2), Lit(2, FALSE, 2),
            True(3, 2, <<1, 3>>), Lit(3, TRUE, 2)>>
\* Of the elements of the second level, true and false nodes as subs.
Shared == Leaves \o <<Decn(<<3, 4>>, <<5, 6>>, 1, <<1, 3>>), Decn(<<3, 4>>, <<6, 5>>, 1, <<2, 2>>),
                      Decn(<<1, 2>>, <<7, 8>>, 0, <<3, 1>>), Decn(<<1, 2>>, <<8, 7>>, 0, <<4, 0>>)>>
\* A root of one element, and one whose two elements have the same sub.
Chains == Leaves \o <<Decn(<<4>>, <<5>>, 1, <<4>>), Decn(<<3, 4>>, <<6, 6>>, 1, <<1, 3>>),
                      Decn(<<1, 2>>, <<7, 7>>, 0, <<2, 2>>), Decn(<<2>>, <<8>>, 0, <<4>>)>>

=============================================================================
