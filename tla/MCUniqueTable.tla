---------------------------- MODULE MCUniqueTable ----------------------------
\* A manager of the vtree ((1 2) 3): literals of 1 and 3, true nodes of 2.
EXTENDS UniqueTable

LiteralNode(l, f) == [type |-> "literal", literal |-> l, flag_index |-> f]
TopNode(p, n, f) == [type |-> "top", variable |-> 2, true_parameter |-> p,
                     false_parameter |-> n, flag_index |-> f]

MCLiterals == {LiteralNode(1, 0), LiteralNode(-1, 0), LiteralNode(3, 0)}
MCVtrees == {[left |-> {1}, right |-> {2}], [left |-> {1, 2}, right |-> {3}]}

\* The true parameter decides the false one.
MCTopNodes == {TopNode("0.1", "0.9", 0)}

\* It does not.
SameTrueParameter == {TopNode("0.1", "0.9", 0), TopNode("0.1", "0.1", 0)}

ASSUME ParametersAddUp == TopNodes = MCTopNodes => TopsAgree

=============================================================================
