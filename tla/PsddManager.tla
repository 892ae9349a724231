----------------------------- MODULE PsddManager -----------------------------
(***************************************************************************)
(* The operations of PsddManager that make PSDDs: read a file, convert an  *)
(* SDD (ConvertSddToPsdd, FromSdd, and CNF::Compile, which makes the SDD), *)
(* normalise, load a PSDD of any manager, multiply two PSDDs; and the way  *)
(* back, the SDD of a PSDD.  A client runs a program, a list of such calls *)
(* whose arguments are results of earlier ones; all of them make nodes of  *)
(* the same few managers.                                                  *)
(***************************************************************************)
EXTENDS PsddNodes, Sdds

CONSTANTS Vtree,      \* the vtree of each manager
          Programs    \* what clients may do

IsVtree(t) ==
  /\ IsForest(t) /\ DOMAIN t \subseteq Nat
  /\ \E root \in DOMAIN t : Under(t, root) = DOMAIN t
  /\ \A v, w \in DOMAIN t : IsLeaf(t, v) /\ v # w => t[v].variable # t[w].variable

\* The lines of a file: a literal, a true node with two weights, or elements.
IsFile(file) ==
  /\ Len(file) \in Nat \ {0}
  /\ \A i \in 1..Len(file) : /\ file[i].kind \in {"L", "T", "D"}
                             /\ file[i].kind = "D" => file[i].elements \in Seq(Range(file[i].elements))

\* A call is for a part of the vtree of its manager, and its arguments are results of calls
\* before it, of the same manager unless it loads.
IsCallOf(p, i) ==
  LET c == p[i] IN
  /\ c.manager \in DOMAIN Vtree
  /\ c.arguments \subseteq 1..i - 1
  /\ c.op \in {"GetTrueNode", "NormalizePsddNode", "LoadPsddNode"} => c.target \in DOMAIN Vtree[c.manager]
  /\ c.op \in {"NormalizePsddNode", "LoadPsddNode", "Multiply", "ConvertPsddNodeToSddNode"} =>
       c.first \in c.arguments
  /\ c.op = "Multiply" => c.second \in c.arguments
  /\ c.op # "LoadPsddNode" => \A j \in c.arguments : p[j].manager = c.manager
  /\ c.op = "ReadPsddFile" => IsFile(c.file)
  /\ c.op = "FromSdd" => LET t == Vtree[c.manager]
                         IN  SubVtreeByVariables(t, RootOf(t), c.used_variables) \in DOMAIN t

ASSUME PsddManagerAssumption ==
         /\ \A g \in DOMAIN Vtree : IsVtree(Vtree[g])
         /\ \A p \in Programs : p \in Seq(Range(p)) /\ \A i \in DOMAIN p : IsCallOf(p, i)

VARIABLES program, results,   \* what the client does, and the values its calls returned
          nodes,              \* the nodes of each manager
          user_data,          \* the scratch words that are not 0, of nodes of any manager
          pass,               \* the loop that runs
          sdd_vtree, target, root_node, serialized_sdd_nodes,
          node_map, true_nodes_map,                                \* locals of ConvertSddToPsdd,
          serialized_nodes, position,                              \* of LoadPsddNode and the way back,
          construct_cache,                                         \* of ReadPsddFile,
          stack, returned, cache                                   \* of MultiplyWithCache

clientVars == <<program, results>>
sddVars == <<sdd_vtree, target, root_node, serialized_sdd_nodes, node_map, true_nodes_map>>
loadVars == <<serialized_nodes, position>>
multiplyVars == <<stack, returned, cache>>
localVars == <<sddVars, loadVars, construct_cache, multiplyVars>>
vars == <<clientVars, nodes, user_data, pass, localVars>>

ManagerInit ==
  /\ program \in Programs /\ results = <<>>
  /\ nodes = [g \in DOMAIN Vtree |-> <<>>]
  /\ user_data = <<>>
  /\ pass = "none"
  /\ sdd_vtree = <<>> /\ target = NoVtree /\ root_node = SddFalse
  /\ serialized_sdd_nodes = <<>> /\ node_map = <<>> /\ true_nodes_map = <<>>
  /\ serialized_nodes = <<>> /\ position = 0
  /\ construct_cache = <<>>
  /\ stack = <<>> /\ returned = <<>> /\ cache = <<>>

\* The call that runs, or the next one.
call == program[Len(results) + 1]
here == call.manager
tree == Vtree[here]
flag == call.flag_index
Result(i) == results[i]

\* nullptr is the node 0.
NullNode == 0
IsNodeOf(r) == r.node # NullNode

\* The client does not go on with a nullptr.
CanCall(op) ==
  /\ pass = "none" /\ Len(results) < Len(program)
  /\ call.op = op
  /\ \A i \in call.arguments : IsNodeOf(Result(i))

\* The locals of a call go out of scope.
ForgetLocals ==
  /\ sdd_vtree' = <<>> /\ target' = NoVtree /\ root_node' = SddFalse
  /\ serialized_sdd_nodes' = <<>> /\ node_map' = <<>> /\ true_nodes_map' = <<>>
  /\ serialized_nodes' = <<>> /\ position' = 0
  /\ construct_cache' = <<>>
  /\ stack' = <<>> /\ returned' = <<>> /\ cache' = <<>>

Made(st) == nodes' = [nodes EXCEPT ![here] = st.nodes]
Returns(node, value) ==
  /\ results' = Append(results, [manager |-> here, node |-> node, value |-> value])
  /\ pass' = "none"
  /\ ForgetLocals
  /\ UNCHANGED program

-----------------------------------------------------------------------------
\* What a client asks of a manager directly.
TrueNode ==
  /\ CanCall("GetTrueNode")
  /\ LET st == GetTrueNode(tree, Begun(nodes[here]), call.target, flag) IN
       /\ Made(st)
       /\ Returns(st.node, One)
  /\ UNCHANGED user_data

Normalize ==
  /\ CanCall("NormalizePsddNode")
  /\ LET st == NormalizePsddNode(tree, Begun(nodes[here]), call.target,
                                 Result(call.first).node, flag) IN
       /\ Made(st)
       /\ Returns(st.node, One)
  /\ UNCHANGED user_data

(***************************************************************************)
(* ReadPsddFile, one line at a time.  A line's parameters are fractions;   *)
(* that of false comes first in the line of a true node.                   *)
(***************************************************************************)
BeginRead ==
  /\ CanCall("ReadPsddFile")
  /\ pass' = "read" /\ position' = 1
  /\ UNCHANGED <<clientVars, nodes, user_data, sddVars, serialized_nodes, construct_cache, multiplyVars>>

Line == call.file[position]
LineElements(line) ==
  [i \in DOMAIN line.elements |->
     Element(construct_cache[line.elements[i].prime], construct_cache[line.elements[i].sub],
             line.elements[i].weight)]

NodeOfLine ==
  CASE Line.kind = "L" -> GetUniqueNode(Begun(nodes[here]),
                            LiteralNode(LeafOf(tree, Line.variable), Line.sign, flag))
    [] Line.kind = "T" -> GetUniqueNode(Begun(nodes[here]),
                            TopNode(LeafOf(tree, Line.variable), Line.weights[2], Line.weights[1], flag))
    [] Line.kind = "D" -> GetConformedPsddDecisionNode(tree, nodes[here], LineElements(Line), flag)

ReadLine ==
  /\ pass = "read" /\ position <= Len(call.file)
  /\ Made(NodeOfLine)
  /\ construct_cache' = Assigned(construct_cache, Line.number, NodeOfLine.node)
  /\ position' = position + 1
  /\ UNCHANGED <<clientVars, user_data, pass, sddVars, serialized_nodes, multiplyVars>>

EndRead ==
  /\ pass = "read" /\ position > Len(call.file)
  /\ Returns(construct_cache[call.file[Len(call.file)].number], One)
  /\ UNCHANGED <<nodes, user_data>>

-----------------------------------------------------------------------------
(***************************************************************************)
(* ConvertSddToPsdd and FromSdd are the same loop, for the whole vtree of  *)
(* the manager and for a part of it.  The vtree of the SDD is a copy of    *)
(* that part, with variables of its own.                                   *)
(***************************************************************************)
BeginSdd(sdd, copy, v) ==
  \/ /\ sdd = SddFalse
     /\ Returns(NullNode, One)
     /\ UNCHANGED nodes
  \/ /\ sdd = SddTrue
     /\ LET st == GetTrueNode(tree, Begun(nodes[here]), v, flag) IN Made(st) /\ Returns(st.node, One)
  \/ /\ ~IsConstant(sdd)
     /\ pass' = "convert"
     /\ sdd_vtree' = copy /\ target' = v /\ root_node' = sdd
     /\ serialized_sdd_nodes' = SddTopologicalSort(copy, sdd)
     /\ UNCHANGED <<clientVars, nodes, node_map, true_nodes_map, loadVars, construct_cache, multiplyVars>>

\* The SDD that a client has for a function over variables of the part.
Renamed(models, map) == {{map[x] : x \in model} : model \in models}
SddOf(copy, v, models) == Sdd(copy, v, Renamed(models, call.variable_mapping))

ConvertSddToPsdd ==
  /\ CanCall("ConvertSddToPsdd")
  /\ LET copy == CopyVtree(tree, RootOf(tree), call.variable_mapping)
     IN  BeginSdd(SddOf(copy, RootOf(tree), call.models), copy, RootOf(tree))
  /\ UNCHANGED user_data

FromSdd ==
  /\ CanCall("FromSdd")
  /\ LET v == SubVtreeByVariables(tree, RootOf(tree), call.used_variables)
         copy == CopyVtree(tree, v, call.variable_mapping)
     IN  BeginSdd(SddOf(copy, v, call.models), copy, v)
  /\ UNCHANGED user_data

(***************************************************************************)
(* CNF::CNF makes a clause of each line of a file but those that start     *)
(* with a p, of the literals up to the first token that is 0 or no number. *)
(* So a comment and an empty line are clauses without literals.            *)
(*                                                                         *)
(* CNF::Compile numbers the variables in the order of the serialization    *)
(* and has the SDD package combine the literals of each clause and the     *)
(* clauses.                                                                *)
(***************************************************************************)
NoLiteral == 0
UpToEnd(tokens) ==
  LET ends == {i \in DOMAIN tokens : tokens[i].variable = NoLiteral}
  IN  SubSeq(tokens, 1, IF ends = {} THEN Len(tokens) ELSE Min(ends) - 1)
ClausesOf(lines) ==
  LET clauses == SelectSeq(lines, LAMBDA line : ~line.starts_with_p)
  IN  [i \in DOMAIN clauses |-> UpToEnd(clauses[i].tokens)]

VariableMapping ==
  LET variables == VariablesUnderVtree(tree, RootOf(tree))
  IN  [x \in Range(variables) |-> CHOOSE i \in DOMAIN variables : variables[i] = x]

SddLiteral(copy, x, sign) == {i \in Instantiations(copy, RootOf(copy)) : (x \in i) = sign}

ConstructSddFromCnf(clauses, map, copy) ==
  LET Disjoin(logic, lit) == logic \cup SddLiteral(copy, map[lit.variable], lit.sign)
      Conjoin(logic, clause) == logic \cap FoldLeft(Disjoin, {}, clause)
  IN  FoldLeft(Conjoin, Instantiations(copy, RootOf(copy)), clauses)

Compile ==
  /\ CanCall("Compile")
  /\ LET copy == CopyVtree(tree, RootOf(tree), VariableMapping)
         logic == ConstructSddFromCnf(ClausesOf(call.lines), VariableMapping, copy)
     IN  BeginSdd(Sdd(copy, RootOf(copy), logic), copy, RootOf(tree))
  /\ UNCHANGED user_data

\* The vtree node of the manager that stands at the same place.
Tag(v) ==
  LET sdd_vtrees == SerializeVtree(sdd_vtree, RootOf(sdd_vtree))
      psdd_vtrees == SerializeVtree(tree, target)
  IN  psdd_vtrees[CHOOSE i \in DOMAIN sdd_vtrees : sdd_vtrees[i] = v]

\* serialized_sdd_nodes is what is left of the list; its head is cur_node.
NextSdd == Head(serialized_sdd_nodes)
IsSddLiteral(n) == IsLeaf(sdd_vtree, n.vtree)

ConvertLiteral ==
  /\ pass = "convert" /\ serialized_sdd_nodes # <<>> /\ IsSddLiteral(NextSdd)
  /\ LET isPositive == NextSdd.models # {{}}
         st == GetUniqueNode(Begun(nodes[here]), LiteralNode(Tag(NextSdd.vtree), isPositive, flag)) IN
       /\ Made(st)
       /\ node_map' = Assigned(node_map, NextSdd, st.node)
  /\ serialized_sdd_nodes' = Tail(serialized_sdd_nodes)
  /\ UNCHANGED <<clientVars, user_data, pass, sdd_vtree, target, root_node, true_nodes_map,
                 loadVars, construct_cache, multiplyVars>>

\* An element becomes one of the new node unless its sub is false.
ConvertEveryElement(st, v, e) ==
  LET prime == NormalizePsddNode(tree, st, tree[v].left, node_map[e.prime], flag)
      sub == IF IsConstant(e.sub) THEN GetTrueNode(tree, prime, tree[v].right, flag)
             ELSE NormalizePsddNode(tree, prime, tree[v].right, node_map[e.sub], flag)
  IN  [sub EXCEPT !.elements = Append(@, Element(prime.node, sub.node, One))]
ConvertElement(st, v, e) ==
  IF e.sub = SddFalse THEN st
  ELSE LET prime == NormalizePsddNode(tree, st, tree[v].left, node_map[e.prime], flag)
           sub == IF e.sub = SddTrue THEN GetTrueNode(tree, prime, tree[v].right, flag)
                  ELSE NormalizePsddNode(tree, prime, tree[v].right, node_map[e.sub], flag)
       IN  [sub EXCEPT !.elements = Append(@, Element(prime.node, sub.node, One))]

ConvertElements(v, es) ==
  LET st[i \in 0..Len(es)] ==
        IF i = 0 THEN [Begun(nodes[here]) EXCEPT !.true_node_map = true_nodes_map]
        ELSE ConvertElement(st[i - 1], v, es[i])
  IN  st[Len(es)]

ConvertDecision ==
  /\ pass = "convert" /\ serialized_sdd_nodes # <<>> /\ ~IsSddLiteral(NextSdd)
  /\ LET v == Tag(NextSdd.vtree)
         es == SetToSeq(SddElements(sdd_vtree, NextSdd))
         made == WithElements(ConvertElements(v, es), v, flag) IN
       /\ Made(made)
       /\ true_nodes_map' = made.true_node_map
       /\ node_map' = Assigned(node_map, NextSdd, made.node)
  /\ serialized_sdd_nodes' = Tail(serialized_sdd_nodes)
  /\ UNCHANGED <<clientVars, user_data, pass, sdd_vtree, target, root_node,
                 loadVars, construct_cache, multiplyVars>>

EndConvert ==
  /\ pass = "convert" /\ serialized_sdd_nodes = <<>>
  /\ LET st == NormalizePsddNode(tree, [Begun(nodes[here]) EXCEPT !.true_node_map = true_nodes_map],
                                 target, node_map[root_node], flag) IN
       /\ Made(st)
       /\ Returns(st.node, One)
  /\ UNCHANGED user_data

-----------------------------------------------------------------------------
(***************************************************************************)
(* LoadPsddNode leaves the new node in the scratch word of each node of    *)
(* the PSDD it loads, which may be of another manager or of this one.      *)
(***************************************************************************)
ChildList(g, n) ==
  IF nodes[g][n].type # "decision" THEN <<>>
  ELSE LET es == nodes[g][n].elements
       IN  [i \in DOMAIN es |-> es[i].prime] \o [i \in DOMAIN es |-> es[i].sub]

\* The list that Serializer makes step by step: children not yet in it are put at the end.
PushAll(list, children) ==
  LET Push(some, c) == IF c \in Range(some) THEN some ELSE Append(some, c)
      pushed[i \in 0..Len(children)] == IF i = 0 THEN list ELSE Push(pushed[i - 1], children[i])
  IN  pushed[Len(children)]
SerializePsddNodes(g, root) ==
  LET Visit(list, i) == IF i > Len(list) THEN list ELSE PushAll(list, ChildList(g, list[i]))
      visited[i \in 0..root] == IF i = 0 THEN <<root>> ELSE Visit(visited[i - 1], i)
  IN  visited[root]

Below(g, root) == Range(SerializePsddNodes(g, root))

Source == Result(call.first)
Loaded(n) == user_data[<<Source.manager, n>>]

BeginLoad ==
  /\ CanCall("LoadPsddNode")
  /\ serialized_nodes' = SerializePsddNodes(Source.manager, Source.node)
  /\ position' = Len(serialized_nodes')
  /\ pass' = "load"
  /\ UNCHANGED <<clientVars, nodes, user_data, sddVars, construct_cache, multiplyVars>>

VariableIn(g, n) == Vtree[g][nodes[g][n].vtree].variable
LoadedElements(c) ==
  [i \in DOMAIN c.elements |->
     Element(Loaded(c.elements[i].prime), Loaded(c.elements[i].sub), c.elements[i].parameter)]

LoadNode ==
  /\ pass = "load" /\ position > 0
  /\ LET n == serialized_nodes[position]
         c == nodes[Source.manager][n]
         v == LeafOf(tree, VariableIn(Source.manager, n))
         st == CASE c.type = "literal" -> GetUniqueNode(Begun(nodes[here]), LiteralNode(v, c.sign, flag))
                 [] c.type = "top" -> GetUniqueNode(Begun(nodes[here]),
                                        TopNode(v, c.true_parameter, c.false_parameter, flag))
                 [] c.type = "decision" ->
                      GetConformedPsddDecisionNode(tree, nodes[here], LoadedElements(c), flag) IN
       /\ Made(st)
       /\ user_data' = Assigned(user_data, <<Source.manager, n>>, st.node)
  /\ position' = position - 1
  /\ UNCHANGED <<clientVars, pass, sddVars, serialized_nodes, construct_cache, multiplyVars>>

ScratchKept(list) == user_data
ScratchReset(list) ==
  [w \in DOMAIN user_data \ {<<Source.manager, n>> : n \in Range(list)} |-> user_data[w]]

EndLoad ==
  /\ pass = "load" /\ position = 0
  /\ LET st == NormalizePsddNode(tree, Begun(nodes[here]), call.target, Loaded(Source.node), flag) IN
       /\ Made(st)
       /\ Returns(st.node, One)
  /\ user_data' = ScratchReset(serialized_nodes)

-----------------------------------------------------------------------------
(***************************************************************************)
(* ConvertPsddNodeToSddNode leaves the SDD of each node of a serialization *)
(* in its scratch word.  An SDD that is being combined is known by its     *)
(* models; that of a true node is true, whatever its parameters.           *)
(***************************************************************************)
BeginLogic ==
  /\ CanCall("ConvertPsddNodeToSddNode")
  /\ serialized_nodes' = SerializePsddNodes(Source.manager, Source.node)
  /\ position' = Len(serialized_nodes')
  /\ sdd_vtree' = CopyVtree(tree, RootOf(tree), call.variable_mapping)
  /\ pass' = "logic"
  /\ UNCHANGED <<clientVars, nodes, user_data, target, root_node, serialized_sdd_nodes, node_map,
                 true_nodes_map, construct_cache, multiplyVars>>

LogicOf(n) ==
  LET c == nodes[here][n]
      Disjoin(cur_logic, e) == cur_logic \cup (Loaded(e.prime) \cap Loaded(e.sub))
  IN  CASE c.type = "literal" -> SddLiteral(sdd_vtree, call.variable_mapping[VariableIn(here, n)], c.sign)
        [] c.type = "top" -> Instantiations(sdd_vtree, RootOf(sdd_vtree))
        [] c.type = "decision" -> FoldLeft(Disjoin, {}, c.elements)

NodeLogic ==
  /\ pass = "logic" /\ position > 0
  /\ LET n == serialized_nodes[position]
     IN  user_data' = Assigned(user_data, <<here, n>>, LogicOf(n))
  /\ position' = position - 1
  /\ UNCHANGED <<clientVars, nodes, pass, sddVars, serialized_nodes, construct_cache, multiplyVars>>

\* The value of the call is the SDD; it has no node.
EndLogic ==
  /\ pass = "logic" /\ position = 0
  /\ Returns(NullNode, Sdd(sdd_vtree, RootOf(sdd_vtree), Loaded(serialized_nodes[1])))
  /\ user_data' = ScratchReset(serialized_nodes)
  /\ UNCHANGED nodes

-----------------------------------------------------------------------------
(***************************************************************************)
(* MultiplyWithCache calls itself for the primes and the subs of any two   *)
(* elements.  stack has the calls that have begun; pair is the pair of     *)
(* elements one is at, 0 before it looks into the cache.  returned is what *)
(* the last call to end gives to the one below it.                         *)
(***************************************************************************)
Frame(first, second) ==
  [first |-> first, second |-> second, pair |-> 0, prime_result |-> <<>>,
   elements |-> <<>>, partition |-> Zero]

BeginMultiply ==
  /\ CanCall("Multiply")
  /\ stack' = <<Frame(Result(call.first).node, Result(call.second).node)>>
  /\ pass' = "multiply"
  /\ UNCHANGED <<clientVars, nodes, user_data, sddVars, loadVars, construct_cache, returned, cache>>

Top == stack[Len(stack)]
Content(n) == nodes[here][n]
First == Content(Top.first)
Second == Content(Top.second)
AreDecisions == First.type = "decision"

Key(frame) == <<frame.first, frame.second>>

InMultiply == /\ pass = "multiply" /\ stack # <<>>
              /\ UNCHANGED <<clientVars, user_data, pass, sddVars, loadVars, construct_cache>>

ReplaceTop(frame) == stack' = [stack EXCEPT ![Len(stack)] = frame]
Call(frame, first, second) ==
  /\ stack' = Append([stack EXCEPT ![Len(stack)] = frame], Frame(first, second))
  /\ returned' = <<>>

\* Lookup, Update and the return of a result, which is a node and a value.
Leave(result) ==
  /\ stack' = Front(stack)
  /\ returned' = <<result>>
Update(result) == cache' = Assigned(cache, Key(Top), result)

Lookup ==
  /\ InMultiply /\ Top.pair = 0 /\ Key(Top) \in DOMAIN cache
  /\ Leave(cache[Key(Top)])
  /\ UNCHANGED <<nodes, cache>>

\* The parameter a true node has for a literal.
ParameterFor(c, sign) == IF sign THEN c.true_parameter ELSE c.false_parameter

NullResult == [node |-> NullNode, value |-> Zero]

LiteralResult(sign, value) ==
  LET st == GetUniqueNode(Begun(nodes[here]), LiteralNode(First.vtree, sign, flag))
  IN  [st |-> st, result |-> [node |-> st.node, value |-> value]]
TopResult ==
  LET positive == Times(First.true_parameter, Second.true_parameter)
      negative == Times(First.false_parameter, Second.false_parameter)
      partition == Plus(positive, negative)
      st == GetUniqueNode(Begun(nodes[here]),
              TopNode(First.vtree, Over(positive, partition), Over(negative, partition), flag))
  IN  [st |-> st, result |-> [node |-> st.node, value |-> partition]]

LeafResult ==
  CASE First.type = "literal" /\ Second.type = "literal" ->
         IF First.sign = Second.sign THEN LiteralResult(First.sign, One)
                                     ELSE [st |-> Begun(nodes[here]), result |-> NullResult]
    [] First.type = "literal" /\ Second.type = "top" ->
         LiteralResult(First.sign, ParameterFor(Second, First.sign))
    [] First.type = "top" /\ Second.type = "literal" ->
         LiteralResult(Second.sign, ParameterFor(First, Second.sign))
    [] First.type = "top" /\ Second.type = "top" -> TopResult

MultiplyLeaves ==
  /\ InMultiply /\ Top.pair = 0 /\ Key(Top) \notin DOMAIN cache /\ ~AreDecisions
  /\ Made(LeafResult.st)
  /\ Update(LeafResult.result)
  /\ Leave(LeafResult.result)

BeginPairs ==
  /\ InMultiply /\ Top.pair = 0 /\ Key(Top) \notin DOMAIN cache /\ AreDecisions
  /\ ReplaceTop([Top EXCEPT !.pair = 1])
  /\ UNCHANGED <<nodes, returned, cache>>

\* The elements of a pair, the second node's in the inner loop.
SecondSize == Len(Second.elements)
FirstElement == First.elements[(Top.pair - 1) \div SecondSize + 1]
SecondElement == Second.elements[((Top.pair - 1) % SecondSize) + 1]
MorePairs == Top.pair <= Len(First.elements) * SecondSize
InPairs == Top.pair > 0

MultiplyPrimes ==
  /\ InMultiply /\ InPairs /\ MorePairs /\ returned = <<>> /\ Top.prime_result = <<>>
  /\ Call(Top, FirstElement.prime, SecondElement.prime)
  /\ UNCHANGED <<nodes, cache>>

NextPair == [Top EXCEPT !.pair = @ + 1, !.prime_result = <<>>]

\* A product of primes or of subs that is nullptr ends the pair.
PairIsEmpty ==
  /\ InMultiply /\ InPairs /\ returned # <<>> /\ returned[1].node = NullNode
  /\ ReplaceTop(NextPair)
  /\ returned' = <<>>
  /\ UNCHANGED <<nodes, cache>>

MultiplySubsByPrime ==
  /\ InMultiply /\ InPairs /\ returned # <<>> /\ returned[1].node # NullNode
  /\ Top.prime_result = <<>>
  /\ Call([Top EXCEPT !.prime_result = returned], FirstElement.sub, SecondElement.prime)
  /\ UNCHANGED <<nodes, cache>>
MultiplySubs ==
  /\ InMultiply /\ InPairs /\ returned # <<>> /\ returned[1].node # NullNode
  /\ Top.prime_result = <<>>
  /\ Call([Top EXCEPT !.prime_result = returned], FirstElement.sub, SecondElement.sub)
  /\ UNCHANGED <<nodes, cache>>

WeightWithoutSub(prime, sub) ==
  Times(Times(SecondElement.parameter, FirstElement.parameter), prime.value)
WeightOf(prime, sub) ==
  Times(Times(Times(SecondElement.parameter, FirstElement.parameter), prime.value), sub.value)

PushElement ==
  /\ InMultiply /\ InPairs /\ returned # <<>> /\ returned[1].node # NullNode
  /\ Top.prime_result # <<>>
  /\ LET prime == Top.prime_result[1]
         weight == WeightOf(prime, returned[1]) IN
       ReplaceTop([NextPair EXCEPT !.elements = Append(@, Element(prime.node, returned[1].node, weight)),
                                   !.partition = Plus(@, weight)])
  /\ returned' = <<>>
  /\ UNCHANGED <<nodes, cache>>

EndPairs ==
  /\ InMultiply /\ InPairs /\ ~MorePairs
  /\ \/ /\ Top.elements = <<>>
        /\ Update(NullResult)
        /\ Leave(NullResult)
        /\ UNCHANGED nodes
     \/ /\ Top.elements # <<>>
        /\ LET es == [i \in DOMAIN Top.elements |->
                        [Top.elements[i] EXCEPT !.parameter = Over(@, Top.partition)]]
               st == GetConformedPsddDecisionNode(tree, nodes[here], es, flag)
               result == [node |-> st.node, value |-> Top.partition] IN
             /\ Made(st)
             /\ Update(result)
             /\ Leave(result)

EndMultiply ==
  /\ pass = "multiply" /\ stack = <<>>
  /\ Returns(returned[1].node, returned[1].value)
  /\ UNCHANGED <<nodes, user_data>>

-----------------------------------------------------------------------------
\* The program is done, or has no PSDD to go on with.
Ended == /\ pass = "none"
         /\ \/ Len(results) = Len(program)
            \/ Len(results) < Len(program) /\ \E i \in call.arguments : ~IsNodeOf(Result(i))
         /\ UNCHANGED vars

Next == \/ TrueNode \/ Normalize
        \/ BeginRead \/ ReadLine \/ EndRead
        \/ ConvertSddToPsdd \/ FromSdd \/ Compile
        \/ ConvertLiteral \/ ConvertDecision \/ EndConvert
        \/ BeginLoad \/ LoadNode \/ EndLoad
        \/ BeginLogic \/ NodeLogic \/ EndLogic
        \/ BeginMultiply \/ Lookup \/ MultiplyLeaves \/ BeginPairs \/ MultiplyPrimes
        \/ PairIsEmpty \/ MultiplySubs \/ PushElement \/ EndPairs \/ EndMultiply
        \/ Ended

Spec == ManagerInit /\ [][Next]_vars

-----------------------------------------------------------------------------
(***************************************************************************)
(* What a node means: its models and the weight of an instantiation, which *)
(* is given by the variables that are true.                                *)
(***************************************************************************)
WeightIn(g, a, x) ==
  LET weight[n \in DOMAIN nodes[g]] ==
        LET c == nodes[g][n] IN
        CASE c.type = "literal" -> IF c.sign = (VariableIn(g, n) \in x) THEN One ELSE Zero
          [] c.type = "top" -> ParameterFor(c, VariableIn(g, n) \in x)
          [] c.type = "decision" ->
               FoldLeft(LAMBDA sum, e : Plus(sum, Times(Times(weight[e.prime], weight[e.sub]), e.parameter)),
                        Zero, c.elements)
  IN  IF a = NullNode THEN Zero ELSE weight[a]

HoldsIn(g, n, x, model) ==
  LET c == nodes[g][n] IN
  CASE c.type = "literal" -> c.sign = (VariableIn(g, n) \in x)
    [] c.type = "top" -> TRUE
    [] c.type = "decision" -> \E i \in DOMAIN c.elements : model[c.elements[i].prime] /\ model[c.elements[i].sub]
IsModelIn(g, a, x) ==
  LET model[n \in DOMAIN nodes[g]] == HoldsIn(g, n, x, model)
  IN  a # NullNode /\ model[a]
ModelsIn(g, a, v) == {x \in Instantiations(Vtree[g], v) : IsModelIn(g, a, x)}
VtreeIn(g, a) == nodes[g][a].vtree

(***************************************************************************)
(* Every node of a manager is what the passes over PSDDs take for granted: *)
(* the primes and the subs of a decision node are nodes for the two        *)
(* children of its vtree node, made before it, and no instantiation is a   *)
(* model of two primes.                                                    *)
(***************************************************************************)
IsNormalizedIn(g, a) ==
  LET c == nodes[g][a]
      t == Vtree[g]
  IN  /\ c.vtree \in DOMAIN t
      /\ c.type # "decision" => IsLeaf(t, c.vtree)
      /\ c.type = "decision" =>
           /\ ~IsLeaf(t, c.vtree) /\ c.elements # <<>>
           /\ \A i \in DOMAIN c.elements :
                LET e == c.elements[i] IN
                /\ e.prime \in 1..a - 1 /\ VtreeIn(g, e.prime) = t[c.vtree].left
                /\ e.sub \in 1..a - 1 /\ VtreeIn(g, e.sub) = t[c.vtree].right
HasParametersIn(g, a) ==
  LET c == nodes[g][a]
  IN  /\ c.flag_index \in Nat
      /\ c.type = "literal" => c.sign \in BOOLEAN
      /\ c.type = "top" => {c.true_parameter, c.false_parameter} \subseteq Fraction
      /\ c.type = "decision" => \A i \in DOMAIN c.elements : c.elements[i].parameter \in Fraction
HasExclusivePrimesIn(g, a) ==
  LET c == nodes[g][a]
      Models(i) == ModelsIn(g, c.elements[i].prime, Vtree[g][c.vtree].left)
  IN  c.type = "decision" => \A i, j \in DOMAIN c.elements : i # j => Models(i) \cap Models(j) = {}

NodesAreNormalized == \A g \in DOMAIN Vtree : \A a \in DOMAIN nodes[g] : IsNormalizedIn(g, a)
NodesAreConformed ==
  /\ NodesAreNormalized
  /\ \A g \in DOMAIN Vtree : \A a \in DOMAIN nodes[g] : HasParametersIn(g, a) /\ HasExclusivePrimesIn(g, a)

(***************************************************************************)
(* The assertions of these functions hold: the nodes to multiply are of    *)
(* one vtree node and no parameter of a product is 0, the children of a    *)
(* line, of an SDD node, of a node to load and of one to make an SDD of    *)
(* are known, and so are the variables of literals and true nodes and the  *)
(* vtree nodes of SDD nodes, some sub of an SDD node is not false, and no  *)
(* node is to be normalised for a vtree node that it is not under.         *)
(***************************************************************************)
MultiplyAsserts ==
  /\ \A i \in DOMAIN stack :
       LET first == Content(stack[i].first)
           second == Content(stack[i].second)
       IN  first.vtree = second.vtree /\ (first.type = "decision" <=> second.type = "decision")
  /\ stack # <<>> =>
       /\ Top.pair = 0 /\ First.type = "top" /\ Second.type = "top" =>
            /\ Times(First.true_parameter, Second.true_parameter) # Zero
            /\ Times(First.false_parameter, Second.false_parameter) # Zero
       /\ InPairs /\ ~MorePairs /\ Top.elements # <<>> =>
            /\ \A i \in DOMAIN Top.elements : Top.elements[i].parameter # Zero
            /\ CanConform(tree, nodes[here], Top.elements)

ConvertAsserts ==
  /\ serialized_sdd_nodes # <<>> /\ IsSddLiteral(NextSdd) =>
       LET v == Tag(NextSdd.vtree) IN v \in DOMAIN tree /\ IsLeaf(tree, v)
  /\ serialized_sdd_nodes # <<>> /\ ~IsSddLiteral(NextSdd) =>
       LET v == Tag(NextSdd.vtree) IN
       /\ v \in DOMAIN tree /\ ~IsLeaf(tree, v)
       /\ \E e \in SddElements(sdd_vtree, NextSdd) : e.sub # SddFalse
       /\ \A e \in SddElements(sdd_vtree, NextSdd) :
            /\ e.prime \in DOMAIN node_map
            /\ VtreeIn(here, node_map[e.prime]) \in Under(tree, tree[v].left)
            /\ ~IsConstant(e.sub) => /\ e.sub \in DOMAIN node_map
                                     /\ VtreeIn(here, node_map[e.sub]) \in Under(tree, tree[v].right)
  /\ serialized_sdd_nodes = <<>> => /\ root_node \in DOMAIN node_map
                                    /\ VtreeIn(here, node_map[root_node]) \in Under(tree, target)

NormalizeAsserts ==
  \A i \in call.arguments : IsNodeOf(Result(i)) => VtreeIn(here, Result(i).node) \in Under(tree, call.target)

IsKnown(variable) == variable \in Variables(tree, RootOf(tree))

LoadAsserts ==
  /\ position > 0 =>
       LET n == serialized_nodes[position] IN
       IF nodes[Source.manager][n].type = "decision"
         THEN /\ \A c \in Range(ChildList(Source.manager, n)) : <<Source.manager, c>> \in DOMAIN user_data
              /\ CanConform(tree, nodes[here], LoadedElements(nodes[Source.manager][n]))
         ELSE IsKnown(VariableIn(Source.manager, n))
  /\ position = 0 => VtreeIn(here, Loaded(Source.node)) \in Under(tree, call.target)

ReadAsserts ==
  position <= Len(call.file) =>
    IF Line.kind # "D" THEN IsKnown(Line.variable) ELSE
    /\ \A i \in DOMAIN Line.elements :
         {Line.elements[i].prime, Line.elements[i].sub} \subseteq DOMAIN construct_cache
    /\ CanConform(tree, nodes[here], LineElements(Line))

LogicAsserts ==
  position > 0 =>
    LET n == serialized_nodes[position] IN
    /\ nodes[here][n].type = "literal" => VariableIn(here, n) \in DOMAIN call.variable_mapping
    /\ \A c \in Range(ChildList(here, n)) : <<here, c>> \in DOMAIN user_data

AssertionsHold ==
  /\ pass = "none" /\ Len(results) < Len(program) /\ call.op = "NormalizePsddNode" => NormalizeAsserts
  /\ pass = "multiply" => MultiplyAsserts
  /\ pass = "convert" => ConvertAsserts
  /\ pass = "load" => LoadAsserts
  /\ pass = "logic" => LogicAsserts
  /\ pass = "read" => ReadAsserts

(***************************************************************************)
(* Whatever the cache has for two nodes is their product, a node for the   *)
(* vtree node of the two: it has the models that both have, and so has the *)
(* node that Multiply returns.  The weights of an instantiation multiply,  *)
(* up to the value that comes with the node, and the parameters of the     *)
(* node are those of a distribution.  There is no node exactly if the two  *)
(* have no model in common.                                                *)
(***************************************************************************)
IsDistribution(c) ==
  /\ c.type = "top" => Plus(c.true_parameter, c.false_parameter) = One
  /\ c.type = "decision" => FoldLeft(LAMBDA sum, e : Plus(sum, e.parameter), Zero, c.elements) = One

HasModelsOfBoth(first, second, result) ==
  LET v == VtreeIn(here, first) IN
  /\ ModelsIn(here, result.node, v) = ModelsIn(here, first, v) \cap ModelsIn(here, second, v)
  /\ result.node # NullNode => VtreeIn(here, result.node) = v

ProductsHaveModelsOfBoth ==
  /\ \A k \in DOMAIN cache : HasModelsOfBoth(k[1], k[2], cache[k])
  /\ pass = "multiply" /\ stack = <<>> =>
       HasModelsOfBoth(Result(call.first).node, Result(call.second).node, returned[1])

IsProduct(first, second, result) ==
  LET v == VtreeIn(here, first) IN
  /\ \A x \in Instantiations(tree, v) :
       Times(WeightIn(here, first, x), WeightIn(here, second, x)) =
       Times(result.value, WeightIn(here, result.node, x))
  /\ result.node = NullNode <=> ModelsIn(here, first, v) \cap ModelsIn(here, second, v) = {}
  /\ result.node # NullNode => \A n \in Below(here, result.node) : IsDistribution(Content(n))

ProductsAreRight ==
  /\ ProductsHaveModelsOfBoth
  /\ \A k \in DOMAIN cache : IsProduct(k[1], k[2], cache[k])

(***************************************************************************)
(* A converted SDD node has the models of that node, its variables renamed *)
(* as the vtrees correspond, and the PSDD returned those of the function   *)
(* or the CNF the client gave, over all variables of the part of the vtree *)
(* asked for.  It is nullptr exactly if there are none.  On the way back a *)
(* PSDD becomes the one SDD of its models, and of nothing else: the        *)
(* variables that it does not have are left free.                          *)
(***************************************************************************)
IsConverted(n) ==
  LET v == Tag(n.vtree)
      map == [x \in Variables(sdd_vtree, n.vtree) |-> tree[Tag(LeafOf(sdd_vtree, x))].variable]
  IN  /\ VtreeIn(here, node_map[n]) = v
      /\ ModelsIn(here, node_map[n], v) = Renamed(n.models, map)

\* Each line that is not the header has a literal that x makes true in front of its end.
Satisfies(x, lines) ==
  \A i \in DOMAIN lines : lines[i].starts_with_p \/
    \E j \in DOMAIN lines[i].tokens :
      /\ lines[i].tokens[j].sign = (lines[i].tokens[j].variable \in x)
      /\ \A k \in 1..j : lines[i].tokens[k].variable # NoLiteral

IsAnswer(i) ==
  LET c == program[i]
      r == results[i]
      t == Vtree[c.manager]
      v == CASE c.op \in {"ConvertSddToPsdd", "Compile"} -> RootOf(t)
             [] c.op = "FromSdd" -> CHOOSE w \in DOMAIN t : Variables(t, w) = c.used_variables
             [] c.op = "GetTrueNode" -> c.target
      models == CASE c.op \in {"ConvertSddToPsdd", "FromSdd"} -> c.models
                  [] c.op = "Compile" -> {x \in Instantiations(t, v) : Satisfies(x, c.lines)}
                  [] c.op = "GetTrueNode" -> Instantiations(t, v)
  IN  /\ r.node = NullNode <=> models = {}
      /\ IsNodeOf(r) => VtreeIn(c.manager, r.node) = v
      /\ ModelsIn(c.manager, r.node, v) = models

\* The SDD of a PSDD that was the result of an earlier call.
IsLogic(i) ==
  LET c == program[i]
      s == results[c.first]
      t == Vtree[c.manager]
      v == VtreeIn(c.manager, s.node)
      copy == CopyVtree(t, RootOf(t), c.variable_mapping)
      models == Renamed(ModelsIn(c.manager, s.node, v), c.variable_mapping)
      own == {c.variable_mapping[x] : x \in Variables(t, v)}
  IN  results[i].value =
        Sdd(copy, RootOf(copy), {x \in Instantiations(copy, RootOf(copy)) : x \cap own \in models})

JustReturned == pass = "none" /\ results # <<>>
LastCall == Len(results)

ConversionsAreRight ==
  /\ pass = "convert" => \A n \in DOMAIN node_map : IsConverted(n)
  /\ JustReturned /\ program[LastCall].op \in {"ConvertSddToPsdd", "FromSdd", "Compile", "GetTrueNode"} =>
       IsAnswer(LastCall)
  /\ JustReturned /\ program[LastCall].op = "ConvertPsddNodeToSddNode" => IsLogic(LastCall)

(***************************************************************************)
(* A PSDD that was loaded or normalised is for the vtree node asked for    *)
(* and gives each instantiation the weight it had: it says nothing about   *)
(* the variables it did not have.  Loaded again with the flag of all its   *)
(* nodes, and for its own vtree node, a PSDD is itself                     *)
(* (psdd_manager_test.cpp:302).  A PSDD that was read has the weights of   *)
(* the file.  No scratch word is left.                                     *)
(***************************************************************************)
FileWeight(file, x) ==
  LET Entry(number) == CHOOSE i \in DOMAIN file : file[i].number = number
      weight[i \in DOMAIN file] ==
        CASE file[i].kind = "L" -> IF file[i].sign = (file[i].variable \in x) THEN One ELSE Zero
          [] file[i].kind = "T" -> file[i].weights[IF file[i].variable \in x THEN 2 ELSE 1]
          [] file[i].kind = "D" ->
               FoldLeft(LAMBDA sum, e : Plus(sum, Times(Times(weight[Entry(e.prime)],
                                                              weight[Entry(e.sub)]), e.weight)),
                        Zero, file[i].elements)
  IN  weight[Len(file)]

IsCopy(i) ==
  LET c == program[i]
      r == results[i]
      s == results[c.first]
      own == \A n \in Below(s.manager, s.node) : nodes[s.manager][n].flag_index = c.flag_index
  IN  /\ VtreeIn(r.manager, r.node) = c.target
      /\ \A x \in Instantiations(Vtree[r.manager], c.target) :
           WeightIn(r.manager, r.node, x) = WeightIn(s.manager, s.node, x)
      /\ r.manager = s.manager /\ own /\ VtreeIn(s.manager, s.node) = c.target => r.node = s.node

NoWordIsLeft == pass \notin {"load", "logic"} => user_data = <<>>

CopiesAreRight ==
  /\ NoWordIsLeft
  /\ JustReturned /\ program[LastCall].op \in {"LoadPsddNode", "NormalizePsddNode"} => IsCopy(LastCall)
  /\ JustReturned /\ program[LastCall].op = "ReadPsddFile" =>
       LET r == results[LastCall] IN
       \A x \in Instantiations(Vtree[r.manager], VtreeIn(r.manager, r.node)) :
         WeightIn(r.manager, r.node, x) = FileWeight(program[LastCall].file, x)

(***************************************************************************)
(* All nodes under a result have the flag of the call, those that were     *)
(* there before it included: DeletePsddNodesWithoutFlagIndexes looks at    *)
(* each node by itself and would otherwise take a part of a PSDD it keeps. *)
(* (A node that is normalised keeps its own flag.)                         *)
(***************************************************************************)
FlagsAreOfTheCall ==
  \A i \in DOMAIN results :
    program[i].op # "NormalizePsddNode" /\ IsNodeOf(results[i]) =>
      \A n \in Below(results[i].manager, results[i].node) :
        nodes[results[i].manager][n].flag_index = program[i].flag_index

=============================================================================
