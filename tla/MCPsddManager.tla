---------------------------- MODULE MCPsddManager ----------------------------
\* Two managers: for the variables 2, 3, 1 from left to right, and for 2, 4, 3, 1.
EXTENDS PsddManager

Leaf(x) == [variable |-> x, left |-> NoVtree, right |-> NoVtree]
Inner(l, r) == [variable |-> 0, left |-> l, right |-> r]

Three == (0 :> Leaf(2)) @@ (1 :> Inner(0, 3)) @@ (2 :> Leaf(3)) @@ (3 :> Inner(2, 4)) @@ (4 :> Leaf(1))
Four == (0 :> Leaf(2)) @@ (1 :> Inner(0, 2)) @@ (2 :> Leaf(4)) @@ (3 :> Inner(1, 5))
          @@ (4 :> Leaf(3)) @@ (5 :> Inner(4, 6)) @@ (6 :> Leaf(1))
MCVtree == <<Three, Four>>

-----------------------------------------------------------------------------
\* Calls.
TrueOf(g, v, f) == [op |-> "GetTrueNode", manager |-> g, target |-> v, flag_index |-> f, arguments |-> {}]
Convert(g, models, f) == [op |-> "ConvertSddToPsdd", manager |-> g, models |-> models, flag_index |-> f,
                          variable_mapping |-> [x \in 1..4 |-> IF x = 4 THEN 4 ELSE (x % 3) + 1],
                          arguments |-> {}]
From(g, used, models, f) == [op |-> "FromSdd", manager |-> g, used_variables |-> used, models |-> models,
                             variable_mapping |-> [x \in used |-> 5 - x],
                             flag_index |-> f, arguments |-> {}]
CnfFile(g, lines, f) == [op |-> "Compile", manager |-> g, lines |-> lines, flag_index |-> f, arguments |-> {}]
Cnf(g, clauses, f) ==
  CnfFile(g, [i \in DOMAIN clauses |-> [starts_with_p |-> FALSE, tokens |-> clauses[i]]], f)
Read(g, file, f) == [op |-> "ReadPsddFile", manager |-> g, file |-> file, flag_index |-> f, arguments |-> {}]
Normal(g, v, i, f) == [op |-> "NormalizePsddNode", manager |-> g, target |-> v, first |-> i,
                       flag_index |-> f, arguments |-> {i}]
Load(g, v, i, f) == [op |-> "LoadPsddNode", manager |-> g, target |-> v, first |-> i,
                     flag_index |-> f, arguments |-> {i}]
Product(g, i, j, f) == [op |-> "Multiply", manager |-> g, first |-> i, second |-> j,
                        flag_index |-> f, arguments |-> {i, j}]
ToSdd(g, i) == [op |-> "ConvertPsddNodeToSddNode", manager |-> g, first |-> i,
                variable_mapping |-> [x \in Variables(MCVtree[g], RootOf(MCVtree[g])) |-> 5 - x],
                arguments |-> {i}]

-----------------------------------------------------------------------------
\* Files.
L(n, x, s) == [kind |-> "L", number |-> n, variable |-> x, sign |-> s]
T(n, x, negative, positive) == [kind |-> "T", number |-> n, variable |-> x, weights |-> <<negative, positive>>]
D(n, es) == [kind |-> "D", number |-> n,
             elements |-> [i \in DOMAIN es |-> [prime |-> es[i][1], sub |-> es[i][2], weight |-> es[i][3]]]]

Half == <<1, 2>>
\* Over all variables of the first manager, with two nodes that are used twice.
File == <<L(0, 3, TRUE), L(1, 3, FALSE), T(2, 1, <<1, 4>>, <<3, 4>>), L(3, 1, TRUE),
          D(4, <<<<1, 3, <<2, 3>>>>, <<0, 2, <<1, 3>>>>>>),
          D(5, <<<<0, 3, Half>>, <<1, 2, Half>>>>),
          L(6, 2, TRUE), L(7, 2, FALSE), D(8, <<<<6, 4, <<1, 5>>>>, <<7, 5, <<4, 5>>>>>>)>>
\* Over 2 and 1 only: the true node of 3 is added.
Narrow == <<L(0, 2, TRUE), L(1, 2, FALSE), T(2, 1, Half, Half), L(3, 1, FALSE),
            D(4, <<<<0, 2, <<1, 4>>>>, <<1, 3, <<3, 4>>>>>>)>>

-----------------------------------------------------------------------------
Pos(x) == [variable |-> x, sign |-> TRUE]
Neg(x) == [variable |-> x, sign |-> FALSE]

Functions(vs) == SUBSET SUBSET vs

\* Every function of three variables, and of the variables of every part of the second vtree.
Conversions ==
  {<<Convert(1, f, 0), ToSdd(1, 1)>> : f \in Functions({1, 2, 3})}
  \cup UNION {{<<From(2, Variables(Four, v), f, 0), Normal(2, 3, 1, 1), ToSdd(2, 1)>> : f \in Functions(Variables(Four, v))} :
                v \in {0, 1, 2, 4, 5, 6}}

Clauses == {<<Pos(2), Pos(3)>>, <<Neg(1), Pos(4)>>, <<Neg(2), Neg(4)>>, <<Neg(3)>>, <<Pos(3)>>}
\* Lines of files: with the number of variables, a 0 at the end, or a comment.
Header == [starts_with_p |-> TRUE, tokens |-> <<>>]
End == [variable |-> NoLiteral, sign |-> TRUE]
Terminated(clause) == [starts_with_p |-> FALSE, tokens |-> Append(clause, End)]
TwoOnALine == [starts_with_p |-> FALSE, tokens |-> <<Neg(2), End, Pos(4), End>>]
CnfFiles == {<<Header, Terminated(<<Pos(2), Pos(3)>>), TwoOnALine>>, <<Header>>,
             <<Terminated(<<>>), Header, Terminated(<<Pos(2)>>)>>}
Compilations == {<<Cnf(2, <<>>, 0)>>, <<Cnf(1, <<<<>>>>, 0)>>}
                \cup {<<CnfFile(2, lines, 0), ToSdd(2, 1)>> : lines \in CnfFiles}
                \cup {<<Cnf(2, <<c, d>>, 0)>> : c \in Clauses, d \in Clauses}

\* The product of any two functions of two variables.
Products ==
  {<<From(1, {1, 3}, f, 0), From(1, {1, 3}, h, 1), Product(1, 1, 2, 3)>> :
     f \in Functions({1, 3}), h \in Functions({1, 3})}

\* The product of two CNFs over all four variables.
CnfProducts == {<<Cnf(2, <<c>>, 0), Cnf(2, <<d, e>>, 1), Product(2, 1, 2, 0)>> :
                  c \in Clauses, d \in Clauses, e \in Clauses}

\* Products with parameters, of products, and of what was loaded.
Sources == {Read(1, File, 0), Read(1, Narrow, 0), TrueOf(1, 1, 0),
            Cnf(1, <<<<Pos(2), Pos(3)>>, <<Neg(1), Pos(3)>>>>, 1), Cnf(1, <<<<Neg(2)>>, <<Pos(1)>>>>, 0)}
Mixtures == {<<s, r, Product(1, 1, 2, 2), Load(2, 3, 3, 0), Load(1, 1, 3, 2), Load(1, 1, 1, 1), ToSdd(1, 3)>> :
               s \in Sources, r \in Sources}

\* The product of a product.
Chains == {<<Read(1, Narrow, 0), s, Product(1, 1, 2, 2), Product(1, 3, 1, 2)>> :
             s \in {Read(1, Narrow, 0), TrueOf(1, 1, 0)}}

MCPrograms == Conversions \cup Compilations \cup Products \cup CnfProducts \cup Mixtures \cup Chains

=============================================================================
